----------------------------- MODULE ProgramsProofs -----------------------------
(***************************************************************************)
(* Safety of the programs that MCPrograms puts together.  Each has an      *)
(* inductive invariant of its own, over its own variables; a step of       *)
(* another program leaves them alone.                                      *)
(***************************************************************************)
EXTENDS MCPrograms, NumberLemmas, FiniteSetTheorems, SequenceTheorems, TLAPS

(* A step of the composition is a step of a program, or leaves the         *)
(* variables of that program as they are.                                  *)
LEMMA ProdConsStep ==
  ASSUME [ProgramsNext]_programVars
  PROVE  PC!PCNext \/ UNCHANGED pVars
BY DEF ProgramsNext, programVars

(* The same for the shared counters.                                       *)
LEMMA CountersStep ==
  ASSUME [ProgramsNext]_programVars
  PROVE  SC!Next \/ UNCHANGED counterVars
BY DEF ProgramsNext, programVars

(* The same for the signal handlers.                                       *)
LEMMA HandlersStep ==
  ASSUME [ProgramsNext]_programVars
  PROVE  SH!Next \/ UNCHANGED handlerVars
BY DEF ProgramsNext, programVars

(* The same for Tiny.                                                      *)
LEMMA TinyStep ==
  ASSUME [ProgramsNext]_programVars
  PROVE  Web!Next \/ UNCHANGED tinyVars
BY DEF ProgramsNext, programVars

(* The same for the echo servers.                                          *)
LEMMA EchoStep ==
  ASSUME [ProgramsNext]_programVars
  PROVE  ES!Next \/ UNCHANGED echoVars
BY DEF ProgramsNext, programVars

--------------------------------------------------------------------------------
(* prodconsn.c: sbuf_deinit comes after both joins *)

MainPlaces == {"create_producer", "create_consumer", "join_producer", "join_consumer",
               "deinit", "exit"}

(* A thread that does not run is in no call of Sbuf, and main is past a    *)
(* join only when that thread is done.                                     *)
Joined == /\ pPc \in [PC!Threads -> PC!Pcs]
          /\ thread \in [PC!Threads -> {"new", "running", "done"}]
          /\ pMain \in MainPlaces
          /\ freed \in BOOLEAN /\ (freed => pMain = "exit")
          /\ \A t \in PC!Threads : thread[t] /= "running" => pPc[t] = "idle"
          /\ pMain \in {"join_consumer", "deinit", "exit"} => thread["producer"] = "done"
          /\ pMain \in {"deinit", "exit"} => thread["consumer"] = "done"

(* A thread inside Sbuf runs, and goes from a label to the next.           *)
LEMMA InsideIsCall ==
  ASSUME Joined, NEW t \in PC!Threads, PC!Inside(t)
  PROVE  /\ pPc[t] /= "idle"
         /\ \E to \in PC!Pcs : pPc' = [pPc EXCEPT ![t] = to]
         /\ UNCHANGED <<thread, pMain, freed>>
BY DEF Joined, PC!Inside, PC!Step, PC!InsertStep, PC!RemoveStep, PC!PSlots, PC!LoadRear,
       PC!StoreRear, PC!VItems, PC!PItems, PC!LoadFront, PC!StoreFront, PC!VSlots,
       PC!PMutex, PC!VMutex, PC!Goes, PC!Pcs, PC!InsertPcs, PC!RemovePcs

(* Every step of main and of the threads keeps it.                         *)
LEMMA JoinedStep ==
  ASSUME Joined, PC!PCNext
  PROVE  Joined'
<1>1. PC!Threads = {"producer", "consumer"}
  BY DEF PC!Threads
<1>2. CASE PC!Main
  <2>1. pPc' = pPc
    BY <1>2 DEF PC!Main, PC!Create, PC!Join, PC!Deinit, PC!MainGoes, PC!vars
  <2>2. CASE PC!Create("producer", "create_producer", "create_consumer")
    BY <1>1, <2>1, <2>2 DEF Joined, MainPlaces, PC!Create, PC!MainGoes
  <2>3. CASE PC!Create("consumer", "create_consumer", "join_producer")
    BY <1>1, <2>1, <2>3 DEF Joined, MainPlaces, PC!Create, PC!MainGoes
  <2>4. CASE PC!Join("producer", "join_producer", "join_consumer")
    BY <1>1, <2>1, <2>4 DEF Joined, MainPlaces, PC!Join, PC!MainGoes
  <2>5. CASE PC!Join("consumer", "join_consumer", "deinit")
    BY <1>1, <2>1, <2>5 DEF Joined, MainPlaces, PC!Join, PC!MainGoes
  <2>6. CASE PC!Deinit
    BY <1>1, <2>1, <2>6 DEF Joined, MainPlaces, PC!Deinit, PC!MainGoes
  <2> QED BY <1>2, <2>2, <2>3, <2>4, <2>5, <2>6 DEF PC!Main
<1>3. ASSUME NEW t \in PC!Threads, PC!LoopAgain(t)
      PROVE  Joined'
  <2>1. /\ thread[t] = "running"
        /\ \E to \in PC!Pcs : pPc' = [pPc EXCEPT ![t] = to]
        /\ UNCHANGED <<thread, pMain, freed>>
    BY <1>3 DEF PC!LoopAgain, PC!CallInsert, PC!CallRemove, PC!Goes, PC!progVars, PC!Pcs,
                PC!InsertPcs, PC!RemovePcs
  <2> QED BY <2>1 DEF Joined, PC!Threads, PC!Pcs
<1>4. ASSUME NEW t \in PC!Threads, PC!LoopEnds(t)
      PROVE  Joined'
  BY <1>1, <1>4 DEF Joined, PC!LoopEnds, PC!vars, PC!Threads, PC!Pcs
<1>5. ASSUME NEW t \in PC!Threads, PC!Inside(t)
      PROVE  Joined'
  BY <1>5, InsideIsCall DEF Joined, PC!Threads, PC!Pcs
<1> QED BY <1>2, <1>3, <1>4, <1>5 DEF PC!PCNext

(* The buffer is freed when both threads are done and in no call of it,    *)
(* whatever NITEMS and BUFSIZE are (prodconsn.c:45).                       *)
THEOREM FreedAfterUse == ProgramsSpec => []NoUseAfterFree
<1>1. ProgramsInit => Joined
  BY DEF ProgramsInit, PC!PCInit, PC!Init, Joined, MainPlaces, PC!Pcs
<1>2. Joined /\ [ProgramsNext]_programVars => Joined'
  <2>1. Joined /\ UNCHANGED pVars => Joined'
    BY DEF Joined, pVars, PC!Threads, PC!Pcs
  <2> QED BY <2>1, JoinedStep, ProdConsStep
<1>3. Joined => NoUseAfterFree
  BY DEF Joined, NoUseAfterFree, PC!NoUseAfterFree, PC!Threads
<1> QED BY <1>1, <1>2, <1>3, PTL DEF ProgramsSpec

--------------------------------------------------------------------------------
(* prodconsn.c: what is consumed is what was produced *)

FillingAt == {"insert_P_mutex", "insert_load", "insert_store"}
FilledAt == {"insert_V_mutex", "insert_V_items"}
TakingAt == {"remove_P_mutex", "remove_load", "remove_store"}
TakenAt == {"remove_V_mutex", "remove_V_slots"}
OneIf(condition) == IF condition THEN 1 ELSE 0

PassingTypes ==
    /\ pPc \in [PC!Threads -> PC!Pcs] /\ pI \in [PC!Threads -> Nat]
    /\ pItem \in [PC!Threads -> Int] /\ pIndex \in [PC!Threads -> Int]
    /\ pBuf \in [PC!Cells -> Int] /\ pFront \in Nat /\ pRear \in Nat
    /\ pSlots \in Nat /\ pItems \in Nat /\ consumed \in Seq(Int)

(* The producer inserts the number of its round; rear is the number of     *)
(* items stored.                                                           *)
ProducerAt ==
    /\ pPc["producer"] \in {"idle"} \cup PC!InsertPcs
    /\ pI["producer"] <= NITEMS
    /\ pPc["producer"] /= "idle" => /\ pI["producer"] < NITEMS
                                    /\ pItem["producer"] = pI["producer"]
    /\ pRear = pI["producer"] + OneIf(pPc["producer"] \in FilledAt)
    /\ pPc["producer"] = "insert_store" => pIndex["producer"] = pRear

(* The consumer has removed and printed as many as it has done rounds.     *)
ConsumerAt ==
    /\ pPc["consumer"] \in {"idle"} \cup PC!RemovePcs
    /\ pFront = pI["consumer"] + OneIf(pPc["consumer"] \in TakenAt)
    /\ pPc["consumer"] = "remove_store" => pIndex["consumer"] = pFront
    /\ pPc["consumer"] \in TakenAt => pItem["consumer"] = pI["consumer"]
    /\ Len(consumed) = pI["consumer"]
    /\ \A n \in 1 .. Len(consumed) : consumed[n] = n - 1

(* The semaphores keep the two indices at most BUFSIZE apart.              *)
SemaphoresAt ==
    /\ pSlots + OneIf(pPc["producer"] \in FillingAt) + OneIf(pPc["consumer"] \in TakenAt)
         + pRear - pFront = BUFSIZE
    /\ pItems + OneIf(pPc["producer"] \in FilledAt) + OneIf(pPc["consumer"] \in TakingAt)
         = pRear - pFront

(* The item in the j-th cell filled is j - 1, until it is removed.         *)
CellsHold == \A j \in pFront + 1 .. pRear : pBuf[j % BUFSIZE] = j - 1

PassingInv == PassingTypes /\ ProducerAt /\ ConsumerAt /\ SemaphoresAt /\ CellsHold

(* What the constants of prodconsn.c are.                                  *)
LEMMA ProdConsConstants ==
  /\ NITEMS \in Nat /\ IntMax \in Nat /\ NITEMS <= IntMax
  /\ BUFSIZE \in Nat /\ BUFSIZE > 0 /\ PC!Cells = 0 .. BUFSIZE - 1
  /\ PC!Threads = {"producer", "consumer"}
BY ProgramsAssumption DEF PC!ProdConsAssumption, PC!Cells, PC!Threads

(* An index selects a cell. *)
LEMMA SelectsCell ==
  ASSUME NEW a \in Nat
  PROVE  a % BUFSIZE \in PC!Cells /\ PC!Remainder(a) = a % BUFSIZE
<1>1. a % BUFSIZE \in PC!Cells
  BY ProdConsConstants
<1>2. PC!Remainder(a) = a % BUFSIZE
  BY DEF PC!Remainder
<1> QED BY <1>1, <1>2

(* It holds at first.                                                      *)
LEMMA PassingInit == ProgramsInit => PassingInv
<1> SUFFICES ASSUME ProgramsInit PROVE PassingInv
  OBVIOUS
<1> USE ProdConsConstants DEF ProgramsInit, PC!PCInit, PC!Init, PC!NoItem
<1>1. PassingTypes
  BY DEF PassingTypes, PC!Pcs
<1>2. ProducerAt
  BY DEF ProducerAt, OneIf, FilledAt
<1>3. ConsumerAt
  BY DEF ConsumerAt, OneIf, TakenAt
<1>4. SemaphoresAt
  BY DEF SemaphoresAt, OneIf, TakenAt, FillingAt, FilledAt, TakingAt
<1>5. CellsHold
  BY DEF CellsHold
<1> QED BY <1>1, <1>2, <1>3, <1>4, <1>5 DEF PassingInv

(* A step of one thread goes from a label to another, and leaves the other *)
(* thread where it is.                                                     *)
LEMMA OneMoves ==
  ASSUME PassingInv, NEW t \in PC!Threads, NEW from, NEW to, PC!Goes(t, from, to)
  PROVE  /\ pPc[t] = from /\ pPc'[t] = to
         /\ to \in PC!Pcs => pPc' \in [PC!Threads -> PC!Pcs]
         /\ \A u \in PC!Threads : u /= t => pPc'[u] = pPc[u]
BY DEF PassingInv, PassingTypes, PC!Goes

(* The producer's statements keep it. *)
LEMMA ProducerPasses ==
  ASSUME PassingInv, PC!Inside("producer")
  PROVE  PassingInv'
<1> DEFINE t == "producer"
<1> USE ProdConsConstants DEF PassingInv
<1> USE DEF OneIf, FillingAt, FilledAt, TakingAt, TakenAt, PC!Pcs, PC!InsertPcs, PC!RemovePcs
<1>0. t \in PC!Threads /\ "consumer" \in PC!Threads /\ t /= "consumer"
  OBVIOUS
<1>1. /\ PC!Step(t)
      /\ pI' = (IF PC!Returns(t) THEN [pI EXCEPT ![t] = @ + 1] ELSE pI)
      /\ consumed' = consumed
  BY DEF PC!Inside
<1>2. PC!InsertStep(t) \/ PC!PMutex(t) \/ PC!VMutex(t)
  BY <1>1 DEF PC!Step, PC!RemoveStep, PC!PItems, PC!LoadFront, PC!StoreFront, PC!VSlots,
              PC!Goes, ProducerAt
<1>3. CASE PC!PSlots(t)
  <2>1. /\ pPc[t] = "insert_P_slots" /\ pPc'[t] = "insert_P_mutex"
        /\ pPc' \in [PC!Threads -> PC!Pcs] /\ pPc'["consumer"] = pPc["consumer"]
    BY <1>0, <1>3, OneMoves DEF PC!PSlots
  <2>2. /\ pSlots > 0 /\ pSlots' = pSlots - 1
        /\ UNCHANGED <<pBuf, pFront, pRear, pMutex, pItems, pItem, pIndex, pInserts, pI>>
    BY <1>1, <1>3, <2>1 DEF PC!PSlots, PC!Returns
  <2>3. PassingTypes'
    BY <1>1, <2>1, <2>2 DEF PassingTypes
  <2>4. ProducerAt' /\ ConsumerAt' /\ CellsHold'
    BY <1>1, <2>1, <2>2 DEF ProducerAt, ConsumerAt, CellsHold
  <2>5. SemaphoresAt'
    BY <2>1, <2>2 DEF SemaphoresAt, PassingTypes
  <2> QED BY <2>3, <2>4, <2>5
<1>4. CASE PC!PMutex(t) \/ PC!VMutex(t)
  <2>1. \/ pPc[t] = "insert_P_mutex" /\ pPc'[t] = "insert_load"
        \/ pPc[t] = "insert_V_mutex" /\ pPc'[t] = "insert_V_items"
    BY <1>0, <1>4, OneMoves DEF PC!PMutex, PC!VMutex, PC!Goes, ProducerAt
  <2>2. pPc' \in [PC!Threads -> PC!Pcs] /\ pPc'["consumer"] = pPc["consumer"]
    BY <1>0, <1>4, OneMoves DEF PC!PMutex, PC!VMutex
  <2>3. UNCHANGED <<pBuf, pFront, pRear, pSlots, pItems, pItem, pIndex, pInserts, pI>>
    BY <1>1, <1>4, <2>1 DEF PC!PMutex, PC!VMutex, PC!Returns
  <2>4. PassingTypes'
    BY <1>1, <2>2, <2>3 DEF PassingTypes
  <2>5. ProducerAt' /\ ConsumerAt' /\ CellsHold'
    BY <1>1, <2>1, <2>2, <2>3 DEF ProducerAt, ConsumerAt, CellsHold
  <2>6. SemaphoresAt'
    BY <2>1, <2>2, <2>3 DEF SemaphoresAt, PassingTypes
  <2> QED BY <2>4, <2>5, <2>6
<1>5. CASE PC!LoadRear(t)
  <2>1. /\ pPc[t] = "insert_load" /\ pPc'[t] = "insert_store"
        /\ pPc' \in [PC!Threads -> PC!Pcs] /\ pPc'["consumer"] = pPc["consumer"]
    BY <1>0, <1>5, OneMoves DEF PC!LoadRear
  <2>2. /\ pIndex' = [pIndex EXCEPT ![t] = pRear]
        /\ UNCHANGED <<pBuf, pFront, pRear, pMutex, pSlots, pItems, pItem, pInserts, pI>>
    BY <1>1, <1>5, <2>1 DEF PC!LoadRear, PC!Returns, PC!sem
  <2>3. pIndex'[t] = pRear /\ pIndex'["consumer"] = pIndex["consumer"]
    BY <1>0, <2>2 DEF PassingTypes
  <2>4. PassingTypes'
    BY <1>1, <2>1, <2>2 DEF PassingTypes
  <2>5. ProducerAt' /\ ConsumerAt' /\ CellsHold'
    BY <1>1, <2>1, <2>2, <2>3 DEF ProducerAt, ConsumerAt, CellsHold
  <2>6. SemaphoresAt'
    BY <2>1, <2>2 DEF SemaphoresAt, PassingTypes
  <2> QED BY <2>4, <2>5, <2>6
<1>6. CASE PC!StoreRear(t)
  <2>1. /\ pPc[t] = "insert_store" /\ pPc'[t] = "insert_V_mutex"
        /\ pPc' \in [PC!Threads -> PC!Pcs] /\ pPc'["consumer"] = pPc["consumer"]
    BY <1>0, <1>6, OneMoves DEF PC!StoreRear
  <2>2. /\ pIndex[t] = pRear /\ pRear = pI[t] /\ pI[t] < NITEMS /\ pItem[t] = pI[t]
    BY <2>1 DEF ProducerAt, PassingTypes
  <2>3. pRear' = pRear + 1
    BY <1>6, <2>2 DEF PC!StoreRear, PC!Increment, PassingTypes
  <2>4. pBuf' = [pBuf EXCEPT ![(pRear + 1) % BUFSIZE] = pRear]
    <3>1. pRear + 1 \in Nat /\ pItem[t] = pRear
      BY <2>2 DEF PassingTypes
    <3>2. (pRear + 1) % BUFSIZE \in PC!Cells /\ PC!Remainder(pRear + 1) = (pRear + 1) % BUFSIZE
      BY <3>1, SelectsCell
    <3> QED BY <1>6, <2>3, <3>1, <3>2 DEF PC!StoreRear
  <2>5. /\ pIndex' = [pIndex EXCEPT ![t] = 0]
        /\ UNCHANGED <<pFront, pMutex, pSlots, pItems, pItem, pInserts, pI>>
    BY <1>1, <1>6, <2>1 DEF PC!StoreRear, PC!Returns, PC!sem
  <2>6. pIndex'["consumer"] = pIndex["consumer"]
    BY <1>0, <2>5 DEF PassingTypes
  <2>7. PassingTypes'
    BY <1>1, <2>1, <2>3, <2>4, <2>5 DEF PassingTypes
  <2>8. ProducerAt' /\ ConsumerAt'
    BY <1>1, <2>1, <2>2, <2>3, <2>5, <2>6 DEF ProducerAt, ConsumerAt, PassingTypes
  <2>9. SemaphoresAt'
    <3> DEFINE filling == OneIf(pPc["producer"] \in FillingAt)
               filled == OneIf(pPc["producer"] \in FilledAt)
               taking == OneIf(pPc["consumer"] \in TakingAt)
               taken == OneIf(pPc["consumer"] \in TakenAt)
    <3>1. pSlots \in Nat /\ pItems \in Nat /\ pFront \in Nat /\ pRear \in Nat
      BY DEF PassingTypes
    <3>2. /\ filling = 1 /\ filling' = 0 /\ filled = 0 /\ filled' = 1
          /\ taking \in Nat /\ taking' = taking /\ taken \in Nat /\ taken' = taken
      BY <2>1
    <3>3. /\ pSlots + filling + taken + pRear - pFront = BUFSIZE
          /\ pItems + filled + taking = pRear - pFront
      BY DEF SemaphoresAt
    <3> SUFFICES /\ pSlots' + filling' + taken' + pRear' - pFront' = BUFSIZE
                 /\ pItems' + filled' + taking' = pRear' - pFront'
      BY DEF SemaphoresAt
    <3> HIDE DEF filling, filled, taking, taken
    <3> QED BY <2>3, <2>5, <3>1, <3>2, <3>3
  <2>10. pRear - pFront < BUFSIZE
    BY <2>1 DEF SemaphoresAt, PassingTypes
  <2>11. CellsHold'
    <3> SUFFICES ASSUME NEW j \in pFront + 1 .. pRear + 1
                 PROVE  pBuf'[j % BUFSIZE] = j - 1
      BY <2>3, <2>5 DEF CellsHold
    <3>1. j \in Nat /\ pRear + 1 \in Nat
      BY DEF PassingTypes
    <3>2. j % BUFSIZE \in PC!Cells /\ (pRear + 1) % BUFSIZE \in PC!Cells
      BY <3>1, SelectsCell
    <3>3. CASE j = pRear + 1
      BY <2>4, <3>2, <3>3 DEF PassingTypes
    <3>4. CASE j /= pRear + 1
      <4>1. j < pRear + 1 /\ (pRear + 1) - j < BUFSIZE /\ j \in pFront + 1 .. pRear
        BY <2>10, <3>1, <3>4 DEF PassingTypes
      <4>2. j % BUFSIZE /= (pRear + 1) % BUFSIZE
        BY <3>1, <4>1, DistinctRemainders
      <4>3. pBuf[j % BUFSIZE] = j - 1
        BY <4>1 DEF CellsHold
      <4> QED BY <2>4, <3>2, <4>2, <4>3 DEF PassingTypes
    <3> QED BY <3>3, <3>4
  <2> QED BY <2>7, <2>8, <2>9, <2>11
<1>7. CASE PC!VItems(t)
  <2>1. /\ pPc[t] = "insert_V_items" /\ pPc'[t] = "idle"
        /\ pPc' \in [PC!Threads -> PC!Pcs] /\ pPc'["consumer"] = pPc["consumer"]
    BY <1>0, <1>7, OneMoves DEF PC!VItems
  <2>2. /\ pItems' = pItems + 1 /\ pItem' = [pItem EXCEPT ![t] = 0]
        /\ pI' = [pI EXCEPT ![t] = @ + 1]
        /\ UNCHANGED <<pBuf, pFront, pRear, pMutex, pSlots, pIndex, pInserts>>
    BY <1>1, <1>7, <2>1 DEF PC!VItems, PC!Returns, PC!NoItem
  <2>3. /\ pItem'["consumer"] = pItem["consumer"]
        /\ pI'[t] = pI[t] + 1 /\ pI'["consumer"] = pI["consumer"]
    BY <1>0, <2>2 DEF PassingTypes
  <2>4. PassingTypes'
    BY <1>1, <2>1, <2>2 DEF PassingTypes
  <2>5. ProducerAt' /\ ConsumerAt' /\ CellsHold'
    BY <1>1, <2>1, <2>2, <2>3 DEF ProducerAt, ConsumerAt, CellsHold, PassingTypes
  <2>6. SemaphoresAt'
    BY <2>1, <2>2 DEF SemaphoresAt, PassingTypes
  <2> QED BY <2>4, <2>5, <2>6
<1> QED BY <1>2, <1>3, <1>4, <1>5, <1>6, <1>7 DEF PC!InsertStep

(* The consumer's statements keep it. *)
LEMMA ConsumerPasses ==
  ASSUME PassingInv, PC!Inside("consumer")
  PROVE  PassingInv'
<1> DEFINE t == "consumer"
<1> USE ProdConsConstants DEF PassingInv
<1> USE DEF OneIf, FillingAt, FilledAt, TakingAt, TakenAt, PC!Pcs, PC!InsertPcs, PC!RemovePcs
<1>0. t \in PC!Threads /\ "producer" \in PC!Threads /\ t /= "producer"
  OBVIOUS
<1>1. /\ PC!Step(t)
      /\ pI' = (IF PC!Returns(t) THEN [pI EXCEPT ![t] = @ + 1] ELSE pI)
      /\ consumed' = (IF PC!Returns(t) THEN Append(consumed, pItem[t]) ELSE consumed)
  BY DEF PC!Inside
<1>2. PC!RemoveStep(t) \/ PC!PMutex(t) \/ PC!VMutex(t)
  BY <1>1 DEF PC!Step, PC!InsertStep, PC!PSlots, PC!LoadRear, PC!StoreRear, PC!VItems,
              PC!Goes, ConsumerAt
<1>3. CASE PC!PItems(t)
  <2>1. /\ pPc[t] = "remove_P_items" /\ pPc'[t] = "remove_P_mutex"
        /\ pPc' \in [PC!Threads -> PC!Pcs] /\ pPc'["producer"] = pPc["producer"]
    BY <1>0, <1>3, OneMoves DEF PC!PItems
  <2>2. /\ pItems > 0 /\ pItems' = pItems - 1
        /\ UNCHANGED <<pBuf, pFront, pRear, pMutex, pSlots, pItem, pIndex, pInserts, pI>>
        /\ consumed' = consumed
    BY <1>1, <1>3, <2>1 DEF PC!PItems, PC!Returns
  <2>3. PassingTypes'
    BY <1>1, <2>1, <2>2 DEF PassingTypes
  <2>4. ProducerAt' /\ ConsumerAt' /\ CellsHold'
    BY <1>1, <2>1, <2>2 DEF ProducerAt, ConsumerAt, CellsHold
  <2>5. SemaphoresAt'
    BY <2>1, <2>2 DEF SemaphoresAt, PassingTypes
  <2> QED BY <2>3, <2>4, <2>5
<1>4. CASE PC!PMutex(t) \/ PC!VMutex(t)
  <2>1. \/ pPc[t] = "remove_P_mutex" /\ pPc'[t] = "remove_load"
        \/ pPc[t] = "remove_V_mutex" /\ pPc'[t] = "remove_V_slots"
    BY <1>0, <1>4, OneMoves DEF PC!PMutex, PC!VMutex, PC!Goes, ConsumerAt
  <2>2. pPc' \in [PC!Threads -> PC!Pcs] /\ pPc'["producer"] = pPc["producer"]
    BY <1>0, <1>4, OneMoves DEF PC!PMutex, PC!VMutex
  <2>3. UNCHANGED <<pBuf, pFront, pRear, pSlots, pItems, pItem, pIndex, pInserts, pI, consumed>>
    BY <1>1, <1>4, <2>1 DEF PC!PMutex, PC!VMutex, PC!Returns
  <2>4. PassingTypes'
    BY <1>1, <2>2, <2>3 DEF PassingTypes
  <2>5. ProducerAt' /\ ConsumerAt' /\ CellsHold'
    BY <1>1, <2>1, <2>2, <2>3 DEF ProducerAt, ConsumerAt, CellsHold
  <2>6. SemaphoresAt'
    BY <2>1, <2>2, <2>3 DEF SemaphoresAt, PassingTypes
  <2> QED BY <2>4, <2>5, <2>6
<1>5. CASE PC!LoadFront(t)
  <2>1. /\ pPc[t] = "remove_load" /\ pPc'[t] = "remove_store"
        /\ pPc' \in [PC!Threads -> PC!Pcs] /\ pPc'["producer"] = pPc["producer"]
    BY <1>0, <1>5, OneMoves DEF PC!LoadFront
  <2>2. /\ pIndex' = [pIndex EXCEPT ![t] = pFront]
        /\ UNCHANGED <<pBuf, pFront, pRear, pMutex, pSlots, pItems, pItem, pInserts, pI, consumed>>
    BY <1>1, <1>5, <2>1 DEF PC!LoadFront, PC!Returns, PC!sem
  <2>3. pIndex'[t] = pFront /\ pIndex'["producer"] = pIndex["producer"]
    BY <1>0, <2>2 DEF PassingTypes
  <2>4. PassingTypes'
    BY <1>1, <2>1, <2>2 DEF PassingTypes
  <2>5. ProducerAt' /\ ConsumerAt' /\ CellsHold'
    BY <1>1, <2>1, <2>2, <2>3 DEF ProducerAt, ConsumerAt, CellsHold
  <2>6. SemaphoresAt'
    BY <2>1, <2>2 DEF SemaphoresAt, PassingTypes
  <2> QED BY <2>4, <2>5, <2>6
<1>6. CASE PC!StoreFront(t)
  <2>1. /\ pPc[t] = "remove_store" /\ pPc'[t] = "remove_V_mutex"
        /\ pPc' \in [PC!Threads -> PC!Pcs] /\ pPc'["producer"] = pPc["producer"]
    BY <1>0, <1>6, OneMoves DEF PC!StoreFront
  <2>2. pIndex[t] = pFront /\ pFront = pI[t]
    BY <2>1 DEF ConsumerAt, PassingTypes
  <2>3. pFront < pRear /\ pRear <= NITEMS
    <3>1. pFront < pRear
      BY <2>1 DEF SemaphoresAt, PassingTypes
    <3>2. pRear <= NITEMS
      BY DEF ProducerAt, PassingTypes
    <3> QED BY <3>1, <3>2
  <2>4. pFront' = pFront + 1
    BY <1>6, <2>2, <2>3 DEF PC!StoreFront, PC!Increment, PassingTypes
  <2>5. pItem' = [pItem EXCEPT ![t] = pFront]
    <3>1. pFront + 1 \in Nat /\ pFront + 1 \in pFront + 1 .. pRear
      BY <2>3 DEF PassingTypes
    <3>2. (pFront + 1) % BUFSIZE \in PC!Cells
          /\ PC!Remainder(pFront + 1) = (pFront + 1) % BUFSIZE
      BY <3>1, SelectsCell
    <3>3. pBuf[(pFront + 1) % BUFSIZE] = pFront
      <4>1. pBuf[(pFront + 1) % BUFSIZE] = (pFront + 1) - 1
        BY <3>1 DEF CellsHold
      <4>2. (pFront + 1) - 1 = pFront
        BY DEF PassingTypes
      <4> QED BY <4>1, <4>2
    <3> QED BY <1>6, <2>4, <3>2, <3>3 DEF PC!StoreFront
  <2>6. /\ pIndex' = [pIndex EXCEPT ![t] = 0]
        /\ UNCHANGED <<pBuf, pRear, pMutex, pSlots, pItems, pInserts, pI, consumed>>
    BY <1>1, <1>6, <2>1 DEF PC!StoreFront, PC!Returns, PC!sem
  <2>7. /\ pIndex'["producer"] = pIndex["producer"] /\ pItem'["producer"] = pItem["producer"]
        /\ pItem'[t] = pFront
    BY <1>0, <2>5, <2>6 DEF PassingTypes
  <2>8. PassingTypes'
    BY <1>1, <2>1, <2>4, <2>5, <2>6 DEF PassingTypes
  <2>9. ProducerAt' /\ ConsumerAt'
    BY <1>1, <2>1, <2>2, <2>4, <2>6, <2>7 DEF ProducerAt, ConsumerAt, PassingTypes
  <2>10. SemaphoresAt'
    <3> DEFINE filling == OneIf(pPc["producer"] \in FillingAt)
               filled == OneIf(pPc["producer"] \in FilledAt)
               taking == OneIf(pPc["consumer"] \in TakingAt)
               taken == OneIf(pPc["consumer"] \in TakenAt)
    <3>1. pSlots \in Nat /\ pItems \in Nat /\ pFront \in Nat /\ pRear \in Nat
      BY DEF PassingTypes
    <3>2. /\ taking = 1 /\ taking' = 0 /\ taken = 0 /\ taken' = 1
          /\ filling \in Nat /\ filling' = filling /\ filled \in Nat /\ filled' = filled
      BY <2>1
    <3>3. /\ pSlots + filling + taken + pRear - pFront = BUFSIZE
          /\ pItems + filled + taking = pRear - pFront
      BY DEF SemaphoresAt
    <3> SUFFICES /\ pSlots' + filling' + taken' + pRear' - pFront' = BUFSIZE
                 /\ pItems' + filled' + taking' = pRear' - pFront'
      BY DEF SemaphoresAt
    <3> HIDE DEF filling, filled, taking, taken
    <3> QED BY <2>4, <2>6, <3>1, <3>2, <3>3
  <2>11. CellsHold'
    BY <2>4, <2>6 DEF CellsHold, PassingTypes
  <2> QED BY <2>8, <2>9, <2>10, <2>11
<1>7. CASE PC!VSlots(t)
  <2>1. /\ pPc[t] = "remove_V_slots" /\ pPc'[t] = "idle"
        /\ pPc' \in [PC!Threads -> PC!Pcs] /\ pPc'["producer"] = pPc["producer"]
    BY <1>0, <1>7, OneMoves DEF PC!VSlots
  <2>2. /\ pSlots' = pSlots + 1 /\ pItem' = [pItem EXCEPT ![t] = 0]
        /\ pI' = [pI EXCEPT ![t] = @ + 1]
        /\ consumed' = Append(consumed, pItem[t])
        /\ UNCHANGED <<pBuf, pFront, pRear, pMutex, pItems, pIndex, pInserts>>
    BY <1>1, <1>7, <2>1 DEF PC!VSlots, PC!Returns, PC!NoItem
  <2>3. /\ pItem'["producer"] = pItem["producer"]
        /\ pI'[t] = pI[t] + 1 /\ pI'["producer"] = pI["producer"]
    BY <1>0, <2>2 DEF PassingTypes
  <2>4. PassingTypes'
    BY <1>1, <2>1, <2>2 DEF PassingTypes
  <2>5. /\ pItem[t] = pI[t] /\ Len(consumed) = pI[t]
        /\ \A n \in 1 .. Len(consumed) : consumed[n] = n - 1
    BY <2>1 DEF ConsumerAt
  <2>6. /\ Len(consumed') = Len(consumed) + 1
        /\ \A n \in 1 .. Len(consumed') : consumed'[n] = n - 1
    BY <2>2, <2>5 DEF PassingTypes
  <2>7. ConsumerAt'
    BY <2>1, <2>2, <2>3, <2>5, <2>6 DEF ConsumerAt, PassingTypes
  <2>8. ProducerAt' /\ CellsHold'
    BY <1>1, <2>1, <2>2, <2>3 DEF ProducerAt, CellsHold, PassingTypes
  <2>9. SemaphoresAt'
    BY <2>1, <2>2 DEF SemaphoresAt, PassingTypes
  <2> QED BY <2>4, <2>7, <2>8, <2>9
<1> QED BY <1>2, <1>3, <1>4, <1>5, <1>6, <1>7 DEF PC!RemoveStep

(* A new round: the producer inserts the number of the round.              *)
LEMMA NewRound ==
  ASSUME PassingInv, NEW t \in PC!Threads, PC!LoopAgain(t)
  PROVE  PassingInv'
<1> USE ProdConsConstants DEF PassingInv
<1> USE DEF OneIf, FillingAt, FilledAt, TakingAt, TakenAt, PC!Pcs, PC!InsertPcs, PC!RemovePcs
<1>1. /\ pI[t] < NITEMS /\ UNCHANGED <<pI, consumed, pBuf, pFront, pRear, pSlots, pItems, pIndex>>
  BY DEF PC!LoopAgain, PC!CallInsert, PC!CallRemove, PC!progVars, PC!sem, PC!Continues
<1>2. CASE t = "producer"
  <2>0. PC!CallInsert(t, pI[t])
    BY <1>2 DEF PC!LoopAgain
  <2>1. /\ pPc[t] = "idle" /\ pPc'[t] = "insert_P_slots"
        /\ pPc' \in [PC!Threads -> PC!Pcs] /\ pPc'["consumer"] = pPc["consumer"]
    BY <1>2, <2>0, OneMoves DEF PC!CallInsert
  <2>2. pItem' = [pItem EXCEPT ![t] = pI[t]]
    BY <2>0 DEF PC!CallInsert
  <2>3. pItem'[t] = pI[t] /\ pItem'["consumer"] = pItem["consumer"]
    BY <1>2, <2>2 DEF PassingTypes
  <2>4. PassingTypes'
    BY <1>1, <2>1, <2>2 DEF PassingTypes
  <2>5. ProducerAt' /\ ConsumerAt' /\ CellsHold'
    BY <1>1, <1>2, <2>1, <2>3 DEF ProducerAt, ConsumerAt, CellsHold, PassingTypes
  <2>6. SemaphoresAt'
    BY <1>1, <1>2, <2>1 DEF SemaphoresAt, PassingTypes
  <2> QED BY <2>4, <2>5, <2>6
<1>3. CASE t = "consumer"
  <2>0. PC!CallRemove(t)
    BY <1>3 DEF PC!LoopAgain
  <2>1. /\ pPc[t] = "idle" /\ pPc'[t] = "remove_P_items"
        /\ pPc' \in [PC!Threads -> PC!Pcs] /\ pPc'["producer"] = pPc["producer"]
    BY <1>3, <2>0, OneMoves DEF PC!CallRemove
  <2>2. pItem' = pItem
    BY <2>0 DEF PC!CallRemove
  <2>4. PassingTypes'
    BY <1>1, <2>1, <2>2 DEF PassingTypes
  <2>5. ProducerAt' /\ ConsumerAt' /\ CellsHold'
    BY <1>1, <1>3, <2>1, <2>2 DEF ProducerAt, ConsumerAt, CellsHold, PassingTypes
  <2>6. SemaphoresAt'
    BY <1>1, <1>3, <2>1 DEF SemaphoresAt, PassingTypes
  <2> QED BY <2>4, <2>5, <2>6
<1> QED BY <1>2, <1>3

(* Steps that leave the variables of the invariant alone. *)
LEMMA PassingSame ==
  ASSUME PassingInv,
         UNCHANGED <<pPc, pI, pItem, pIndex, pBuf, pFront, pRear, pSlots, pItems, consumed>>
  PROVE  PassingInv'
BY DEF PassingInv, PassingTypes, ProducerAt, ConsumerAt, SemaphoresAt, CellsHold

(* prodconsn.c prints "Consumed 0", "Consumed 1" and so on, in order and    *)
(* without gaps (prodconsn.c:18, 32), whatever NITEMS and BUFSIZE are.      *)
THEOREM ConsumedAsProduced == ProgramsSpec => []ConsumedInOrder
<1>1. PassingInv /\ PC!PCNext => PassingInv'
  <2> SUFFICES ASSUME PassingInv, PC!PCNext PROVE PassingInv'
    OBVIOUS
  <2>1. CASE PC!Main
    <3>1. UNCHANGED <<pPc, pI, pItem, pIndex, pBuf, pFront, pRear, pSlots, pItems, consumed>>
      BY <2>1 DEF PC!Main, PC!Create, PC!Join, PC!Deinit, PC!MainGoes, PC!vars, PC!sem
    <3> QED BY <3>1, PassingSame
  <2>2. ASSUME NEW t \in PC!Threads, PC!LoopEnds(t) PROVE PassingInv'
    <3>1. UNCHANGED <<pPc, pI, pItem, pIndex, pBuf, pFront, pRear, pSlots, pItems, consumed>>
      BY <2>2 DEF PC!LoopEnds, PC!vars, PC!sem
    <3> QED BY <3>1, PassingSame
  <2>3. ASSUME NEW t \in PC!Threads, PC!Inside(t) PROVE PassingInv'
    BY <2>3, ProducerPasses, ConsumerPasses, ProdConsConstants
  <2> QED BY <2>1, <2>2, <2>3, NewRound DEF PC!PCNext
<1>2. PassingInv /\ UNCHANGED pVars => PassingInv'
  BY PassingSame DEF pVars
<1>3. PassingInv => ConsumedInOrder
  BY DEF PassingInv, ConsumerAt, ConsumedInOrder, PC!ConsumedInOrder
<1> QED BY PassingInit, <1>1, <1>2, <1>3, ProdConsStep, PTL DEF ProgramsSpec

--------------------------------------------------------------------------------
(* badcnt.c, goodcnt.c, psum-*.c and the others: the totals *)

ThreadPlaces == {"new", "entry", "loop", "load", "store", "V", "done"}
Updates == {"load", "store", "V"}

(* A thread's round counter starts at From and ends at To.                 *)
Started(t) == thr[t] \notin {"new", "entry"}
Summing == counter \in SC!Psums
Looping == counter \notin {"race", "norace"}
From(t) == IF Summing THEN t * PerThread ELSE 0
To(t) == IF Summing THEN (t + 1) * PerThread
         ELSE IF counter = "sharing" THEN 1 ELSE PerThread

(* Twice what a thread has added to its sum: the numbers from From to      *)
(* k[t] - 1, or k[t] ones.                                                 *)
Share(t) == IF ~Started(t) THEN 0
            ELSE IF Summing THEN k[t] * (k[t] - 1) - From(t) * (From(t) - 1)
            ELSE 2 * k[t]
Shares == [t \in SC!Peers |-> Share(t)]
Total == SumOver(Shares, SC!Peers)

CountTypes ==
    /\ counter \in SC!Counting \cup SC!Psums \cup SC!Ids
    /\ cMainAt \in {"create", "incr", "join", "exit"} /\ i \in 0 .. NThreads
    /\ cell \in [SC!Peers -> Int] /\ thr \in [SC!Peers -> ThreadPlaces]
    /\ myid \in [SC!Peers -> Int] /\ k \in [SC!Peers -> Int] /\ reg \in [SC!Peers -> Int]
    /\ cMutex \in Int /\ sum \in [{-1} \cup SC!Peers -> Int] /\ result \in Int

(* main creates the threads in order, and joins them all, except in        *)
(* sharing.c.                                                              *)
MainCounts ==
    /\ cMainAt = "create" => \A t \in SC!Peers : thr[t] = "new" <=> t >= i
    /\ cMainAt = "incr" => i < NThreads /\ \A t \in SC!Peers : thr[t] = "new" <=> t > i
    /\ cMainAt \in {"join", "exit"} => \A t \in SC!Peers : thr[t] /= "new"
    /\ cMainAt = "join" => \A t \in SC!Peers : t < i => thr[t] = "done"
    /\ cMainAt = "exit" /\ counter /= "sharing" => \A t \in SC!Peers : thr[t] = "done"

ThreadAt(t) ==
    /\ thr[t] = "entry" => cell[t] = t
    /\ ~Started(t) => myid[t] = -1 /\ k[t] = 0 /\ reg[t] = 0
    /\ Started(t) /\ counter /= "race" => myid[t] = t
    /\ Started(t) /\ ~Looping => thr[t] = "done"
    /\ Started(t) /\ Looping => From(t) <= k[t] /\ k[t] <= To(t)
    /\ thr[t] \in {"load", "store"} => k[t] < To(t)
    /\ thr[t] = "done" /\ Looping => k[t] = To(t)
    /\ thr[t] = "V" => SC!Locks
    /\ thr[t] \in {"load", "store"} => counter /= "psum-local"
ThreadCounts == \A t \in SC!Peers : ThreadAt(t)

(* One thread at a time is between P and V, where there is a lock.         *)
LockCounts ==
    SC!Locks => /\ cMutex \in {0, 1}
                /\ cMutex = 1 => \A t \in SC!Peers : thr[t] \notin Updates
                /\ \A t, u \in SC!Peers : thr[t] \in Updates /\ thr[u] \in Updates => t = u

(* The shared sum has every share, the partial sums have their own.        *)
SumsRight ==
    /\ SC!Locks => /\ 2 * sum[-1] = Total
                   /\ \A t \in SC!Peers : thr[t] = "store" => reg[t] = sum[-1]
    /\ counter = "psum-array" => \A t \in SC!Peers : /\ 2 * sum[t] = Shares[t]
                                                     /\ thr[t] = "store" => reg[t] = sum[t]
    /\ counter = "psum-local" => \A t \in SC!Peers : /\ 2 * reg[t] = Shares[t]
                                                     /\ thr[t] = "done" => sum[t] = reg[t]

(* badcnt.c: the sum is never more than all shares; once a thread has      *)
(* stored it is not 0 again, and so a thread's second store is 2 or more.  *)
SumBounded ==
    counter = "badcnt" =>
        /\ 0 <= sum[-1] /\ 2 * sum[-1] <= Total
        /\ \A t \in SC!Peers : 0 <= reg[t] /\ 2 * reg[t] <= Total
        /\ \A t \in SC!Peers : k[t] >= 1 => sum[-1] >= 1
        /\ \A t \in SC!Peers : k[t] >= 1 /\ thr[t] = "store" => reg[t] >= 1
        /\ PerThread >= 2 /\ (\A t \in SC!Peers : k[t] = PerThread) => sum[-1] >= 2

CountsInv == /\ CountTypes /\ MainCounts /\ ThreadCounts /\ LockCounts
             /\ SumsRight /\ SumBounded /\ SC!TotalsRight

(* What the constants are. *)
LEMMA CounterConstants ==
  /\ NThreads \in Nat /\ NThreads > 0 /\ PerThread \in Nat
  /\ SC!Peers = 0 .. NThreads - 1 /\ IsFiniteSet(SC!Peers)
  /\ SC!Global = -1 /\ SC!Unknown = -1 /\ -1 \notin SC!Peers
<1>1. /\ NThreads \in Nat /\ NThreads > 0 /\ PerThread \in Nat
      /\ SC!Peers = 0 .. NThreads - 1 /\ SC!Global = -1 /\ SC!Unknown = -1
  BY ProgramsAssumption DEF SC!SharedAssumption, SC!Peers, SC!Global, SC!Unknown
<1>2. IsFiniteSet(0 .. NThreads - 1)
  BY <1>1, FS_Interval
<1> QED BY <1>1, <1>2

(* The ranges of the rounds. *)
LEMMA Ranges ==
  ASSUME NEW t \in SC!Peers
  PROVE  /\ From(t) \in Nat /\ To(t) \in Nat /\ From(t) <= To(t)
         /\ Summing => To(t) = From(t) + PerThread
<1>1. t \in Nat /\ PerThread \in Nat
  BY CounterConstants
<1>2. /\ t * PerThread \in Nat /\ (t + 1) * PerThread \in Nat
      /\ (t + 1) * PerThread = t * PerThread + PerThread
  BY <1>1
<1> QED BY <1>1, <1>2 DEF From, To

(* The shares are integers.                                                *)
LEMMA ShareType ==
  ASSUME CountTypes
  PROVE  /\ \A t \in SC!Peers : Shares[t] = Share(t) /\ Shares[t] \in Int
         /\ Total \in Int
<1>1. ASSUME NEW t \in SC!Peers PROVE Share(t) \in Int
  <2>1. k[t] \in Int /\ From(t) \in Int
    BY Ranges DEF CountTypes
  <2>2. k[t] * (k[t] - 1) \in Int /\ From(t) * (From(t) - 1) \in Int
    BY <2>1
  <2> QED BY <2>1, <2>2 DEF Share
<1>2. \A t \in SC!Peers : Shares[t] = Share(t) /\ Shares[t] \in Int
  BY <1>1 DEF Shares
<1>3. Total \in Int
  BY <1>2, CounterConstants, SumOfOne DEF Total
<1> QED BY <1>2, <1>3

(* It holds at first. *)
LEMMA CountsInit == ProgramsInit => CountsInv
<1> SUFFICES ASSUME ProgramsInit PROVE CountsInv
  OBVIOUS
<1> USE CounterConstants
<1>1. SC!Init
  BY DEF ProgramsInit
<1>2. CountTypes
  BY <1>1 DEF SC!Init, CountTypes, ThreadPlaces
<1>3. MainCounts
  BY <1>1 DEF SC!Init, MainCounts
<1>4. ThreadCounts
  BY <1>1 DEF SC!Init, ThreadCounts, ThreadAt, Started, SC!Unknown
<1>5. LockCounts
  BY <1>1 DEF SC!Init, LockCounts, Updates
<1>6. \A t \in SC!Peers : Shares[t] = 0
  BY <1>1 DEF SC!Init, Shares, Share, Started
<1>7. Total = 0
  <2> DEFINE F == [j \in 0 .. NThreads |-> 0]
  <2>1. SumOver(Shares, 0 .. NThreads - 1) = F[NThreads]
    <3>1. /\ F[0] = 0 /\ \A j \in 0 .. NThreads : F[j] \in Int
          /\ \A j \in 0 .. NThreads - 1 : Shares[j] = F[j + 1] - F[j]
      BY <1>6
    <3> HIDE DEF F
    <3> QED BY <3>1, SumTelescopes
  <2> QED BY <2>1 DEF Total
<1>8. SumsRight
  BY <1>1, <1>6, <1>7 DEF SC!Init, SumsRight
<1>9. SumBounded
  <2>1. 0 \in SC!Peers
    OBVIOUS
  <2>2. sum[-1] = 0 /\ \A t \in SC!Peers : reg[t] = 0 /\ k[t] = 0
    BY <1>1 DEF SC!Init
  <2> HIDE DEF Total
  <2> QED BY <1>7, <2>1, <2>2 DEF SumBounded
<1>10. SC!TotalsRight
  BY <1>1 DEF SC!Init, SC!TotalsRight
<1> QED BY <1>2, <1>3, <1>4, <1>5, <1>8, <1>9, <1>10 DEF CountsInv

(* Steps that leave all threads' shares alone.                             *)
LEMMA SameShares ==
  ASSUME UNCHANGED counter,
         \A t \in SC!Peers : thr'[t] = thr[t] /\ k'[t] = k[t]
  PROVE  Shares' = Shares /\ Total' = Total
<1>1. \A t \in SC!Peers : Share(t)' = Share(t)
  BY DEF Share, Started, Summing, From
<1>2. Shares' = Shares
  BY <1>1 DEF Shares
<1> QED BY <1>2 DEF Total

(* What the threads' part of the invariant speaks of. *)
ThreadParts == ThreadCounts /\ LockCounts /\ SumsRight /\ SumBounded

(* A step of main that leaves the threads alone. *)
LEMMA SameThreads ==
  ASSUME ThreadParts, UNCHANGED <<counter, cell, thr, myid, k, reg, cMutex, sum>>
  PROVE  ThreadParts'
<1>1. Total' = Total /\ Shares' = Shares
  BY SameShares
<1> USE DEF ThreadParts
<1>2. ThreadCounts'
  BY DEF ThreadCounts, ThreadAt, Started, Looping, Summing, From, To, SC!Locks
<1>3. LockCounts'
  BY DEF LockCounts, SC!Locks
<1>4. SumsRight'
  BY <1>1 DEF SumsRight, SC!Locks
<1>5. SumBounded'
  BY <1>1 DEF SumBounded
<1> QED BY <1>2, <1>3, <1>4, <1>5

(* main creates a thread: it has its own cell (main of race.c does not     *)
(* matter here).                                                           *)
LEMMA CreateCounts ==
  ASSUME CountsInv, SC!Create
  PROVE  CountsInv'
<1> USE CounterConstants DEF CountsInv
<1>1. /\ cMainAt = "create" /\ cMainAt' = "incr" /\ i < NThreads
      /\ cell' = [cell EXCEPT ![i] = i] /\ thr' = [thr EXCEPT ![i] = "entry"]
      /\ UNCHANGED <<counter, i, myid, k, reg, cMutex, sum, result>>
  BY DEF SC!Create, SC!CellOf, SC!threadVars
<1>2. i \in SC!Peers /\ thr[i] = "new" /\ i \in Int
  BY <1>1 DEF MainCounts, CountTypes
<1>3. /\ cell' \in [SC!Peers -> Int] /\ cell'[i] = i
      /\ thr' \in [SC!Peers -> ThreadPlaces] /\ thr'[i] = "entry"
      /\ \A t \in SC!Peers : t /= i => thr'[t] = thr[t] /\ cell'[t] = cell[t]
  BY <1>1, <1>2 DEF CountTypes, ThreadPlaces
<1>4. CountTypes'
  BY <1>1, <1>3 DEF CountTypes
<1>5. MainCounts'
  <2>1. \A t \in SC!Peers : thr[t] = "new" <=> t >= i
    BY <1>1 DEF MainCounts
  <2>2. \A t \in SC!Peers : thr'[t] = "new" <=> t > i
    BY <1>2, <1>3, <2>1
  <2> QED BY <1>1, <2>2 DEF MainCounts
<1>6. ThreadCounts'
  <2> SUFFICES ASSUME NEW t \in SC!Peers
               PROVE  ThreadAt(t)'
    BY DEF ThreadCounts
  <2> QED BY <1>1, <1>2, <1>3 DEF ThreadCounts, ThreadAt, Started, Looping, Summing, From, To, SC!Locks
<1>7. LockCounts'
  BY <1>1, <1>2, <1>3 DEF LockCounts, SC!Locks, Updates
<1>8. Shares' = Shares /\ Total' = Total
  <2>1. \A t \in SC!Peers : Share(t)' = Share(t)
    BY <1>1, <1>2, <1>3 DEF Share, Started, Summing, From
  <2>2. Shares' = Shares
    BY <2>1 DEF Shares
  <2> QED BY <2>2 DEF Total
<1>9. SumsRight'
  <2>1. \A t \in SC!Peers : thr'[t] \in {"store", "done"} => thr'[t] = thr[t]
    BY <1>3
  <2> QED BY <1>1, <1>8, <2>1 DEF SumsRight, SC!Locks
<1>10. SumBounded'
  <2>1. \A t \in SC!Peers : thr'[t] = "store" => thr[t] = "store"
    BY <1>3
  <2> QED BY <1>1, <1>8, <2>1 DEF SumBounded
<1>11. SC!TotalsRight'
  BY <1>1 DEF SC!TotalsRight
<1> QED BY <1>4, <1>5, <1>6, <1>7, <1>9, <1>10, <1>11

(* The other steps of main, but the last. *)
LEMMA MainCountsOn ==
  ASSUME CountsInv, SC!Incr \/ SC!CreatedAll \/ SC!Join
  PROVE  CountsInv'
<1> USE CounterConstants DEF CountsInv
<1>1. UNCHANGED <<counter, cell, thr, myid, k, reg, cMutex, sum, result>>
  BY DEF SC!Incr, SC!CreatedAll, SC!Join, SC!threadVars
<1>2. ThreadParts'
  BY <1>1, SameThreads DEF ThreadParts
<1>3. CASE SC!Incr
  <2>1. cMainAt = "incr" /\ cMainAt' = "create" /\ i' = i + 1
    BY <1>3 DEF SC!Incr
  <2>2. CountTypes'
    BY <1>1, <2>1 DEF CountTypes, MainCounts
  <2>3. MainCounts'
    <3>1. i \in Int /\ \A t \in SC!Peers : t \in Int
      BY DEF CountTypes, SC!Peers
    <3>2. \A t \in SC!Peers : t > i <=> t >= i + 1
      BY ONLY <3>1
    <3>3. \A t \in SC!Peers : thr[t] = "new" <=> t >= i + 1
      BY <2>1, <3>2 DEF MainCounts
    <3> QED BY ONLY <1>1, <2>1, <3>3 DEF MainCounts, SC!Peers
  <2>4. SC!TotalsRight'
    BY <2>1 DEF SC!TotalsRight
  <2> QED BY <1>2, <2>2, <2>3, <2>4 DEF ThreadParts
<1>4. CASE SC!CreatedAll
  <2>1. /\ cMainAt = "create" /\ i = NThreads
        /\ IF counter = "sharing" THEN cMainAt' = "exit" /\ i' = i
                                  ELSE cMainAt' = "join" /\ i' = 0
    BY <1>4 DEF SC!CreatedAll
  <2>2. CountTypes'
    <3>1. cMainAt' \in {"create", "incr", "join", "exit"} /\ i' \in 0 .. NThreads
      BY <2>1 DEF CountTypes
    <3> QED BY <1>1, <3>1 DEF CountTypes
  <2>3. \A t \in SC!Peers : thr[t] /= "new"
    BY <2>1 DEF MainCounts
  <2>4. MainCounts'
    BY <1>1, <2>1, <2>3 DEF MainCounts
  <2>5. SC!TotalsRight'
    BY <1>1, <2>1 DEF SC!TotalsRight, SC!Psums
  <2> QED BY <1>2, <2>2, <2>4, <2>5 DEF ThreadParts
<1>5. CASE SC!Join
  <2>1. cMainAt = "join" /\ cMainAt' = cMainAt /\ i < NThreads /\ thr[i] = "done" /\ i' = i + 1
    BY <1>5 DEF SC!Join
  <2>2. CountTypes'
    BY <1>1, <2>1 DEF CountTypes
  <2>3. MainCounts'
    BY <1>1, <2>1 DEF MainCounts, CountTypes
  <2>4. SC!TotalsRight'
    BY <2>1 DEF SC!TotalsRight
  <2> QED BY <1>2, <2>2, <2>3, <2>4 DEF ThreadParts
<1> QED BY <1>3, <1>4, <1>5

(* All threads are done: their shares make the whole. *)
LEMMA TotalIs ==
  ASSUME CountTypes, ThreadCounts, Looping, \A t \in SC!Peers : thr[t] = "done"
  PROVE  /\ Summing => Total = SC!Elements * (SC!Elements - 1)
         /\ counter \in SC!Counting => Total = 2 * SC!Elements
<1> USE CounterConstants
<1>1. CASE Summing
  <2> DEFINE F == [j \in 0 .. NThreads |-> (j * PerThread) * (j * PerThread - 1)]
  <2>1. ASSUME NEW j \in 0 .. NThreads
        PROVE  j * PerThread \in Int /\ F[j] \in Int
               /\ F[j] = (j * PerThread) * (j * PerThread - 1)
    <3>1. j * PerThread \in Int
      OBVIOUS
    <3>2. (j * PerThread) * (j * PerThread - 1) \in Int
      BY <3>1
    <3> QED BY <3>1, <3>2
  <2>2. F[0] = 0
    <3>1. 0 * PerThread = 0 /\ 0 \in 0 .. NThreads
      OBVIOUS
    <3> QED BY <2>1, <3>1
  <2>3. ASSUME NEW j \in 0 .. NThreads - 1 PROVE Shares[j] = F[j + 1] - F[j]
    <3>1. j \in SC!Peers /\ thr[j] = "done" /\ k[j] = (j + 1) * PerThread
      BY <1>1 DEF ThreadCounts, ThreadAt, To
    <3>2. Shares[j] = k[j] * (k[j] - 1) - (j * PerThread) * (j * PerThread - 1)
      BY <1>1, <3>1, ShareType DEF Share, Started, From
    <3>3. j \in 0 .. NThreads /\ j + 1 \in 0 .. NThreads
      OBVIOUS
    <3> HIDE DEF F
    <3> QED BY <2>1, <3>1, <3>2, <3>3
  <2>4. SumOver(Shares, 0 .. NThreads - 1) = F[NThreads]
    <3>1. /\ \A j \in 0 .. NThreads : F[j] \in Int
          /\ \A j \in 0 .. NThreads - 1 : Shares[j] = F[j + 1] - F[j]
      BY <2>1, <2>3
    <3> HIDE DEF F
    <3> QED BY <2>2, <3>1, SumTelescopes
  <2>5. F[NThreads] = SC!Elements * (SC!Elements - 1)
    <3>1. NThreads \in 0 .. NThreads
      OBVIOUS
    <3> HIDE DEF F
    <3> QED BY <2>1, <3>1 DEF SC!Elements
  <2> QED BY <1>1, <2>4, <2>5 DEF Total, Summing, SC!Counting, SC!Psums
<1>2. CASE counter \in SC!Counting
  <2> DEFINE F == [j \in 0 .. NThreads |-> 2 * (j * PerThread)]
  <2>1. ASSUME NEW j \in 0 .. NThreads
        PROVE  j * PerThread \in Int /\ F[j] \in Int /\ F[j] = 2 * (j * PerThread)
    <3>1. j * PerThread \in Int
      OBVIOUS
    <3> QED BY <3>1
  <2>2. F[0] = 0
    <3>1. 0 * PerThread = 0 /\ 0 \in 0 .. NThreads
      OBVIOUS
    <3> QED BY <2>1, <3>1
  <2>3. ASSUME NEW j \in 0 .. NThreads - 1 PROVE Shares[j] = F[j + 1] - F[j]
    <3>0. ~Summing /\ counter /= "sharing"
      BY <1>2 DEF SC!Counting, SC!Psums, Summing
    <3>1. j \in SC!Peers /\ thr[j] = "done" /\ k[j] = PerThread
      BY <3>0 DEF ThreadCounts, ThreadAt, To
    <3>2. Shares[j] = 2 * PerThread
      BY <3>0, <3>1, ShareType DEF Share, Started
    <3>3. j \in 0 .. NThreads /\ j + 1 \in 0 .. NThreads
      OBVIOUS
    <3>4. (j + 1) * PerThread = j * PerThread + PerThread
      OBVIOUS
    <3> HIDE DEF F
    <3> QED BY <2>1, <3>2, <3>3, <3>4
  <2>4. SumOver(Shares, 0 .. NThreads - 1) = F[NThreads]
    <3>1. /\ \A j \in 0 .. NThreads : F[j] \in Int
          /\ \A j \in 0 .. NThreads - 1 : Shares[j] = F[j + 1] - F[j]
      BY <2>1, <2>3
    <3> HIDE DEF F
    <3> QED BY <2>2, <3>1, SumTelescopes
  <2>5. F[NThreads] = 2 * SC!Elements
    <3>1. NThreads \in 0 .. NThreads
      OBVIOUS
    <3> HIDE DEF F
    <3> QED BY <2>1, <3>1 DEF SC!Elements
  <2> QED BY <1>2, <2>4, <2>5 DEF Total, Summing, SC!Counting, SC!Psums
<1>3. CASE ~Summing /\ counter \notin SC!Counting
  BY <1>3
<1> QED BY <1>1, <1>2, <1>3

(* main adds the partial sums up. *)
LEMMA PartialSums ==
  ASSUME CountTypes, SumsRight, counter \in {"psum-array", "psum-local"},
         \A t \in SC!Peers : thr[t] = "done"
  PROVE  2 * SC!Result = Total /\ SC!Result \in Int
<1> USE CounterConstants
<1>1. SC!Result = SumOver(sum, SC!Peers)
  <2>1. SC!MapThenSumSet(LAMBDA j : sum[j], SC!Peers) = SumOver(sum, SC!Peers)
    BY DEF SC!MapThenSumSet, SC!MapThenFoldSet, SumOver, IsSum, AnyOf
  <2> QED BY <2>1 DEF SC!Result
<1>2. \A t \in SC!Peers : sum[t] \in Int /\ 2 * sum[t] = Shares[t]
  BY DEF SumsRight, CountTypes
<1> DEFINE F == [j \in 0 .. NThreads |-> 2 * SumOver(sum, 0 .. j - 1)]
<1>3. ASSUME NEW j \in 0 .. NThreads
      PROVE  SumOver(sum, 0 .. j - 1) \in Int /\ F[j] = 2 * SumOver(sum, 0 .. j - 1)
  <2> DEFINE T == 0 .. j - 1
  <2>1. IsFiniteSet(T) /\ \A x \in T : sum[x] \in Int
    BY <1>2, FS_Interval
  <2> HIDE DEF T
  <2>2. SumOver(sum, T) \in Int
    BY <2>1, SumOfOne
  <2> QED BY <2>2 DEF T
<1>4. F[0] = 0
  <2> DEFINE T == 0 .. 0 - 1
  <2>1. T = {} /\ IsFiniteSet(T)
    BY FS_EmptySet
  <2> HIDE DEF T
  <2>2. SumOver(sum, T) = 0
    BY <2>1, SumOfOne
  <2>3. 0 \in 0 .. NThreads
    OBVIOUS
  <2> HIDE DEF F
  <2> QED BY <1>3, <2>2, <2>3 DEF T
<1>5. ASSUME NEW j \in 0 .. NThreads - 1 PROVE Shares[j] = F[j + 1] - F[j]
  <2> DEFINE T == 0 .. (j + 1) - 1
  <2>0. j \in Nat /\ T = 0 .. j /\ T \subseteq SC!Peers /\ IsFiniteSet(0 .. j)
    BY FS_Interval
  <2>1. IsFiniteSet(T) /\ (\A x \in T : sum[x] \in Int) /\ j \in T /\ T \ {j} = 0 .. j - 1
    BY <1>2, <2>0
  <2> HIDE DEF T
  <2>2. SumOver(sum, T) = sum[j] + SumOver(sum, T \ {j})
    BY <2>1, SumOfOne
  <2>3. SumOver(sum, 0 .. (j + 1) - 1) = sum[j] + SumOver(sum, 0 .. j - 1)
    BY <2>1, <2>2 DEF T
  <2>4. j \in 0 .. NThreads /\ j + 1 \in 0 .. NThreads /\ j \in SC!Peers
    OBVIOUS
  <2> HIDE DEF F
  <2>5. /\ F[j + 1] = 2 * SumOver(sum, 0 .. (j + 1) - 1) /\ F[j] = 2 * SumOver(sum, 0 .. j - 1)
        /\ SumOver(sum, 0 .. j - 1) \in Int
    BY <1>3, <2>4
  <2>6. sum[j] \in Int /\ 2 * sum[j] = Shares[j]
    BY <1>2, <2>4
  <2> DEFINE a == SumOver(sum, 0 .. (j + 1) - 1)
             b == SumOver(sum, 0 .. j - 1)
  <2>7. F[j + 1] = 2 * a /\ F[j] = 2 * b /\ b \in Int /\ a = sum[j] + b
    BY <2>3, <2>5
  <2> HIDE DEF a, b
  <2> QED BY <2>6, <2>7
<1>6. SumOver(Shares, 0 .. NThreads - 1) = F[NThreads]
  <2>1. \A j \in 0 .. NThreads : F[j] \in Int
    BY <1>3
  <2> HIDE DEF F
  <2> QED BY <1>4, <1>5, <2>1, SumTelescopes
<1>7. NThreads \in 0 .. NThreads
  OBVIOUS
<1> HIDE DEF F
<1> QED BY <1>1, <1>3, <1>6, <1>7 DEF Total

(* main looks at the result when all threads are done. *)
LEMMA CheckCounts ==
  ASSUME CountsInv, SC!Check
  PROVE  CountsInv'
<1> USE CounterConstants DEF CountsInv
<1>1. /\ cMainAt = "join" /\ i = NThreads /\ result' = SC!Result /\ cMainAt' = "exit"
      /\ UNCHANGED <<counter, i, cell, thr, myid, k, reg, cMutex, sum>>
  BY DEF SC!Check, SC!threadVars
<1>2. \A t \in SC!Peers : thr[t] = "done"
  BY <1>1 DEF MainCounts
<1>3. ThreadParts'
  BY <1>1, SameThreads DEF ThreadParts
<1>4. MainCounts'
  BY <1>1, <1>2 DEF MainCounts
<1>5. SC!Result \in Int
  <2>1. CASE counter \in {"psum-array", "psum-local"}
    BY <1>2, <2>1, PartialSums
  <2>2. CASE counter \notin {"psum-array", "psum-local"}
    BY <2>2 DEF SC!Result, CountTypes
  <2> QED BY <2>1, <2>2
<1>6. CountTypes'
  BY <1>1, <1>5 DEF CountTypes
<1>7. SC!TotalsRight'
  <2>0. SC!Elements \in Int /\ SC!Elements * (SC!Elements - 1) \in Int
    <3>1. SC!Elements \in Int
      BY DEF SC!Elements
    <3> QED BY <3>1
  <2>1. CASE counter \in SC!Psums
    <3>1. 2 * SC!Result = Total
      <4>1. CASE counter = "psum-mutex"
        BY <4>1 DEF SumsRight, SC!Result, SC!Locks
      <4>2. CASE counter /= "psum-mutex"
        BY <1>2, <2>1, <4>2, PartialSums DEF SC!Psums
      <4> QED BY <4>1, <4>2
    <3>2. Total = SC!Elements * (SC!Elements - 1)
      BY <1>2, <2>1, TotalIs DEF Summing, Looping, SC!Psums
    <3>3. SC!Result = (SC!Elements * (SC!Elements - 1)) \div 2
      <4> DEFINE e == SC!Elements * (SC!Elements - 1)
      <4>1. 2 * SC!Result = e /\ e \in Int
        BY <2>0, <3>1, <3>2
      <4> HIDE DEF e
      <4>2. SC!Result = e \div 2
        BY <1>5, <4>1
      <4> QED BY <4>2 DEF e
    <3> QED BY <1>1, <2>1, <3>3 DEF SC!TotalsRight, SC!Psums, SC!Elements
  <2>2. CASE counter = "goodcnt"
    <3>1. 2 * SC!Result = Total
      BY <2>2 DEF SumsRight, SC!Result, SC!Locks
    <3>2. Total = 2 * SC!Elements
      BY <1>2, <2>2, TotalIs DEF Looping, SC!Counting
    <3>3. SC!Result = SC!Elements
      BY <1>5, <2>0, <3>1, <3>2
    <3> QED BY <1>1, <2>2, <3>3 DEF SC!TotalsRight, SC!Psums, SC!Elements
  <2>3. CASE counter = "badcnt"
    <3>1. SC!Result = sum[-1]
      BY <2>3 DEF SC!Result
    <3>2. Total = 2 * SC!Elements
      BY <1>2, <2>3, TotalIs DEF Looping, SC!Counting
    <3>3. SC!Result <= SC!Elements
      BY <1>5, <2>0, <2>3, <3>1, <3>2 DEF SumBounded
    <3>4. \A t \in SC!Peers : k[t] = PerThread
      BY <1>2, <2>3 DEF ThreadCounts, ThreadAt, Looping, To, Summing, SC!Psums
    <3>5. SC!Result >= IF PerThread < 2 THEN PerThread ELSE 2
      <4>1. 0 \in SC!Peers /\ k[0] = PerThread
        BY <3>4
      <4>2. /\ 0 <= sum[-1] /\ (k[0] >= 1 => sum[-1] >= 1)
            /\ (PerThread >= 2 => sum[-1] >= 2)
        BY <2>3, <3>4, <4>1 DEF SumBounded
      <4> QED BY <1>5, <3>1, <4>1, <4>2
    <3> QED BY <1>1, <2>3, <3>3, <3>5 DEF SC!TotalsRight, SC!Psums, SC!Elements
  <2>4. CASE counter \in SC!Ids
    BY <1>1, <2>4 DEF SC!TotalsRight, SC!Psums, SC!Ids
  <2> QED BY <2>1, <2>2, <2>3, <2>4 DEF CountTypes, SC!Counting
<1> QED BY <1>3, <1>4, <1>6, <1>7 DEF ThreadParts

(* What does not depend on which statement a thread executes.              *)
LEMMA ThreadGoes ==
  ASSUME CountsInv, NEW t \in SC!Peers, NEW to \in ThreadPlaces \ {"new", "entry"},
         NEW from \in ThreadPlaces \ {"new", "done"}, SC!Goes(t, from, to)
  PROVE  /\ thr' \in [SC!Peers -> ThreadPlaces] /\ thr[t] = from /\ thr'[t] = to
         /\ \A u \in SC!Peers : u /= t => thr'[u] = thr[u]
         /\ UNCHANGED <<counter, cMainAt, i, result>>
         /\ MainCounts' /\ SC!TotalsRight'
<1> USE CounterConstants DEF CountsInv
<1>1. /\ thr' \in [SC!Peers -> ThreadPlaces] /\ thr[t] = from /\ thr'[t] = to
      /\ \A u \in SC!Peers : u /= t => thr'[u] = thr[u]
      /\ UNCHANGED <<counter, cMainAt, i, result>>
  BY DEF SC!Goes, CountTypes
<1>2. \A u \in SC!Peers : /\ thr'[u] = "new" <=> thr[u] = "new"
                          /\ thr[u] = "done" => thr'[u] = "done"
  BY <1>1
<1>3. MainCounts'
  BY <1>1, <1>2 DEF MainCounts
<1>4. SC!TotalsRight'
  BY <1>1 DEF SC!TotalsRight
<1> QED BY <1>1, <1>3, <1>4

(* A thread whose locals nobody touches.                                   *)
LEMMA ThreadStays ==
  ASSUME NEW u \in SC!Peers, ThreadAt(u), UNCHANGED counter,
         thr'[u] = thr[u], cell'[u] = cell[u], myid'[u] = myid[u],
         k'[u] = k[u], reg'[u] = reg[u]
  PROVE  ThreadAt(u)'
BY DEF ThreadAt, Started, Looping, Summing, From, To, SC!Locks

(* What a thread in its loop adds, where, and how often.                   *)
LEMMA InLoop ==
  ASSUME CountTypes, ThreadCounts, NEW t \in SC!Peers,
         thr[t] \in {"loop", "load", "store", "V"}
  PROVE  /\ Started(t) /\ Looping /\ myid[t] = t
         /\ SC!End(t) = To(t) /\ From(t) <= k[t] /\ k[t] <= To(t)
         /\ SC!Element(t) = IF Summing THEN k[t] ELSE 1
         /\ SC!Element(t) \in Nat
         /\ SC!Place(t) = IF counter \in {"psum-array", "psum-local"} THEN t ELSE -1
<1> USE CounterConstants
<1>1. Started(t) /\ Looping /\ myid[t] = t /\ From(t) <= k[t] /\ k[t] <= To(t)
  BY DEF ThreadCounts, ThreadAt, Started, Looping
<1>2. SC!End(t) = To(t)
  BY <1>1 DEF SC!End, To, Summing
<1>3. SC!Element(t) = IF Summing THEN k[t] ELSE 1
  BY DEF SC!Element, Summing
<1>4. SC!Element(t) \in Nat
  <2>1. From(t) \in Nat /\ k[t] \in Int
    BY Ranges DEF CountTypes
  <2> QED BY <1>1, <1>3, <2>1
<1>5. SC!Place(t) = IF counter \in {"psum-array", "psum-local"} THEN t ELSE -1
  BY <1>1 DEF SC!Place
<1> QED BY <1>1, <1>2, <1>3, <1>4, <1>5

(* A round adds one element to the thread's share, and to the total.       *)
LEMMA ShareGrows ==
  ASSUME CountTypes, CountTypes', ThreadCounts, NEW t \in SC!Peers, UNCHANGED counter,
         thr[t] \in {"loop", "store"}, thr'[t] \in {"loop", "V"}, k' = [k EXCEPT ![t] = @ + 1],
         \A u \in SC!Peers : u /= t => thr'[u] = thr[u]
  PROVE  /\ Shares'[t] = Shares[t] + 2 * SC!Element(t)
         /\ \A u \in SC!Peers : u /= t => Shares'[u] = Shares[u]
         /\ Total' = Total + 2 * SC!Element(t)
<1> USE CounterConstants
<1>1. /\ k[t] \in Int /\ k'[t] = k[t] + 1 /\ Started(t) /\ Started(t)'
      /\ \A u \in SC!Peers : u /= t => k'[u] = k[u]
  BY DEF CountTypes, Started
<1>2. \A u \in SC!Peers : u /= t => Share(u)' = Share(u)
  BY <1>1 DEF Share, Started, Summing, From
<1>3. Share(t)' = Share(t) + 2 * SC!Element(t)
  <2>1. /\ (k[t] + 1) * ((k[t] + 1) - 1) = k[t] * (k[t] - 1) + 2 * k[t]
        /\ k[t] * (k[t] - 1) \in Int
    BY <1>1
  <2>2. From(t)' = From(t) /\ From(t) * (From(t) - 1) \in Int /\ Summing' = Summing
    <3>1. From(t)' = From(t) /\ From(t) \in Int
      BY Ranges DEF From, Summing
    <3> QED BY <3>1 DEF Summing
  <2>3. CASE Summing
    <3>1. /\ Share(t) = k[t] * (k[t] - 1) - From(t) * (From(t) - 1)
          /\ Share(t)' = k'[t] * (k'[t] - 1) - From(t) * (From(t) - 1)
      BY <1>1, <2>2, <2>3 DEF Share
    <3>2. SC!Element(t) = k[t]
      BY <2>3, InLoop
    <3> DEFINE f == From(t) * (From(t) - 1)
    <3>3. f \in Int /\ Share(t) = k[t] * (k[t] - 1) - f /\ Share(t)' = k'[t] * (k'[t] - 1) - f
      BY <2>2, <3>1
    <3> HIDE DEF f
    <3> QED BY <1>1, <2>1, <3>2, <3>3
  <2>4. CASE ~Summing
    <3>1. Share(t) = 2 * k[t] /\ Share(t)' = 2 * k'[t]
      BY <1>1, <2>2, <2>4 DEF Share
    <3>2. SC!Element(t) = 1
      BY <2>4, InLoop
    <3> QED BY <1>1, <3>1, <3>2
  <2> QED BY <2>3, <2>4
<1>4. /\ \A u \in SC!Peers : Shares[u] = Share(u) /\ Shares[u] \in Int
      /\ \A u \in SC!Peers : Shares'[u] = Share(u)' /\ Shares'[u] \in Int
      /\ Total \in Int
  <2>1. \A u \in SC!Peers : Shares[u] = Share(u) /\ Shares[u] \in Int
    BY ShareType
  <2>2. \A u \in SC!Peers : Shares'[u] = Share(u)'
    BY DEF Shares
  <2>3. SC!Element(t) \in Int
    BY InLoop
  <2>4. \A u \in SC!Peers : Shares'[u] \in Int
    BY <1>2, <1>3, <2>1, <2>2, <2>3
  <2> QED BY <2>1, <2>2, <2>4, ShareType
<1>5. SumOver(Shares', SC!Peers) = SumOver(Shares, SC!Peers) + Shares'[t] - Shares[t]
  <2>1. PICK h, g, S : h = Shares /\ g = Shares' /\ S = SC!Peers
    OBVIOUS
  <2>2. IsFiniteSet(S) /\ t \in S
    BY <2>1
  <2>3. \A u \in S : h[u] \in Int /\ g[u] \in Int
    BY <1>4, <2>1
  <2>4. \A u \in S \ {t} : g[u] = h[u]
    BY <1>2, <1>4, <2>1
  <2>5. SumOver(g, S) = SumOver(h, S) + g[t] - h[t]
    BY ONLY <2>2, <2>3, <2>4, SumChanges
  <2> QED BY <2>1, <2>5
<1>6. Total' = Total + Shares'[t] - Shares[t]
  BY <1>5 DEF Total
<1>7. SC!Element(t) \in Int
  BY InLoop
<1> QED BY <1>2, <1>3, <1>4, <1>6, <1>7

(* A thread starts: its number is its own, its share is still nothing.     *)
LEMMA EntryCounts ==
  ASSUME CountsInv, NEW t \in SC!Peers, SC!Entry(t)
  PROVE  CountsInv'
<1> USE CounterConstants DEF CountsInv
<1> DEFINE to == IF counter \in {"race", "norace"} THEN "done" ELSE "loop"
<1>1. /\ SC!Goes(t, "entry", to)
      /\ myid' = [myid EXCEPT ![t] = IF counter = "race" THEN i ELSE cell[t]]
      /\ cell' = IF counter = "norace" THEN [cell EXCEPT ![t] = -1] ELSE cell
      /\ k' = [k EXCEPT ![t] = IF Summing THEN myid'[t] * PerThread ELSE 0]
      /\ UNCHANGED <<reg, cMutex, sum>>
  BY DEF SC!Entry, SC!CellOf, Summing
<1>2. /\ thr' \in [SC!Peers -> ThreadPlaces] /\ thr[t] = "entry" /\ thr'[t] = to
      /\ \A u \in SC!Peers : u /= t => thr'[u] = thr[u]
      /\ UNCHANGED <<counter, cMainAt, i, result>>
      /\ MainCounts' /\ SC!TotalsRight'
  BY <1>1, ThreadGoes DEF ThreadPlaces
<1>3. cell[t] = t /\ ~Started(t) /\ k[t] = 0 /\ reg[t] = 0
  BY <1>2 DEF ThreadCounts, ThreadAt, Started
<1>4. /\ myid' \in [SC!Peers -> Int] /\ (counter /= "race" => myid'[t] = t)
      /\ \A u \in SC!Peers : u /= t => myid'[u] = myid[u]
  BY <1>1, <1>3 DEF CountTypes
<1>5. /\ cell' \in [SC!Peers -> Int]
      /\ \A u \in SC!Peers : u /= t => cell'[u] = cell[u]
  <2>1. cell \in [SC!Peers -> Int] /\ -1 \in Int
    BY DEF CountTypes
  <2>2. cell' = cell \/ cell' = [cell EXCEPT ![t] = -1]
    BY <1>1
  <2> QED BY <2>1, <2>2
<1>6. /\ k' \in [SC!Peers -> Int] /\ k'[t] = From(t)
      /\ \A u \in SC!Peers : u /= t => k'[u] = k[u]
  <2>1. Summing => counter /= "race"
    BY DEF Summing, SC!Psums
  <2>2. (IF Summing THEN myid'[t] * PerThread ELSE 0) = From(t) /\ From(t) \in Int
    BY <1>4, <2>1, Ranges DEF From
  <2> QED BY <1>1, <2>2 DEF CountTypes
<1>7. CountTypes'
  BY <1>1, <1>2, <1>4, <1>5, <1>6 DEF CountTypes
<1>8. ThreadCounts'
  <2> SUFFICES ASSUME NEW u \in SC!Peers
               PROVE  ThreadAt(u)'
    BY DEF ThreadCounts
  <2>1. CASE u /= t
    BY <1>1, <1>2, <1>4, <1>5, <1>6, <2>1, ThreadStays DEF ThreadCounts
  <2>2. CASE u = t
    <3>1. thr'[t] \in {"done", "loop"} /\ (thr'[t] = "done" <=> ~Looping)
      BY <1>2 DEF Looping
    <3>2. Started(t)' /\ Looping' = Looping /\ From(t)' = From(t) /\ To(t)' = To(t)
      BY <1>2, <3>1 DEF Started, Looping, From, To, Summing
    <3>3. From(t) \in Nat /\ To(t) \in Nat /\ From(t) <= To(t)
      BY Ranges
    <3>4. counter' = counter /\ k'[t] = From(t) /\ (counter /= "race" => myid'[t] = t)
      BY <1>2, <1>4, <1>6
    <3> HIDE DEF to
    <3> QED BY <2>2, <3>1, <3>2, <3>3, <3>4 DEF ThreadAt
  <2> QED BY <2>1, <2>2
<1>9. \A u \in SC!Peers : thr'[u] \in Updates \cup {"store"} => u /= t /\ thr[u] = thr'[u]
  BY <1>2 DEF Updates
<1>10. LockCounts'
  BY <1>1, <1>2, <1>9 DEF LockCounts, SC!Locks, Updates
<1>11. Shares' = Shares /\ Total' = Total
  <2>1. \A u \in SC!Peers : u /= t => Share(u)' = Share(u)
    BY <1>2, <1>6 DEF Share, Started, Summing, From
  <2>2. Share(t) = 0
    BY <1>3 DEF Share
  <2>3. Share(t)' = 0
    <3>1. Started(t)' /\ From(t)' = From(t) /\ Summing' = Summing /\ From(t) \in Int
      BY <1>2, Ranges DEF Started, From, Summing
    <3>2. From(t) * (From(t) - 1) \in Int
      BY <3>1
    <3>3. CASE Summing
      BY <1>6, <3>1, <3>2, <3>3 DEF Share
    <3>4. CASE ~Summing
      BY <1>6, <3>1, <3>4 DEF Share, From
    <3> QED BY <3>3, <3>4
  <2>4. Shares' = Shares
    BY <2>1, <2>2, <2>3 DEF Shares
  <2> QED BY <2>4 DEF Total
<1>12. SumsRight'
  <2>1. counter = "psum-local" => thr'[t] /= "done"
    BY <1>2
  <2> HIDE DEF to
  <2> QED BY <1>1, <1>2, <1>9, <1>11, <2>1 DEF SumsRight, SC!Locks
<1>13. SumBounded'
  <2> SUFFICES ASSUME counter = "badcnt"
               PROVE  SumBounded'
    BY <1>2 DEF SumBounded
  <2>1. k' = [k EXCEPT ![t] = 0] /\ k'[t] = 0 /\ k[t] = 0
    BY <1>1, <1>3 DEF Summing, SC!Psums, CountTypes
  <2>2. k' = k
    BY <2>1 DEF CountTypes
  <2> HIDE DEF to
  <2> QED BY <1>1, <1>2, <1>9, <1>11, <2>2 DEF SumBounded
<1> HIDE DEF to
<1> QED BY <1>2, <1>7, <1>8, <1>10, <1>12, <1>13

(* P(&mutex), where there is one, and the load.                            *)
LEMMA LockCountsOn ==
  ASSUME CountsInv, NEW t \in SC!Peers, SC!Lock(t)
  PROVE  CountsInv'
<1> USE CounterConstants DEF CountsInv
<1>1. /\ SC!Goes(t, "loop", "load") /\ k[t] < SC!End(t) /\ counter /= "psum-local"
      /\ SC!Locks => cMutex > 0
      /\ cMutex' = IF SC!Locks THEN cMutex - 1 ELSE cMutex
      /\ UNCHANGED <<cell, myid, k, reg, sum>>
  BY DEF SC!Lock
<1>2. /\ thr' \in [SC!Peers -> ThreadPlaces] /\ thr[t] = "loop" /\ thr'[t] = "load"
      /\ \A u \in SC!Peers : u /= t => thr'[u] = thr[u]
      /\ UNCHANGED <<counter, cMainAt, i, result>>
      /\ MainCounts' /\ SC!TotalsRight'
  BY <1>1, ThreadGoes DEF ThreadPlaces
<1>3. Started(t) /\ Looping /\ k[t] < To(t)
  BY <1>1, <1>2, InLoop
<1>4. CountTypes'
  BY <1>1, <1>2 DEF CountTypes
<1>5. ThreadCounts'
  <2> SUFFICES ASSUME NEW u \in SC!Peers
               PROVE  ThreadAt(u)'
    BY DEF ThreadCounts
  <2>1. CASE u /= t
    BY <1>1, <1>2, <2>1, ThreadStays DEF ThreadCounts
  <2>2. CASE u = t
    BY <1>1, <1>2, <1>3, <2>2 DEF ThreadCounts, ThreadAt, Started, Looping, Summing, From, To
  <2> QED BY <2>1, <2>2
<1>6. LockCounts'
  <2> SUFFICES ASSUME SC!Locks
               PROVE  LockCounts'
    BY <1>2 DEF LockCounts, SC!Locks
  <2>1. cMutex = 1 /\ \A u \in SC!Peers : thr[u] \notin Updates
    BY <1>1 DEF LockCounts
  <2>2. cMutex' = 0
    BY <1>1, <2>1
  <2>3. \A u \in SC!Peers : thr'[u] \in Updates => u = t
    BY <1>2, <2>1
  <2> QED BY <2>2, <2>3 DEF LockCounts
<1>7. Shares' = Shares /\ Total' = Total
  <2>1. \A u \in SC!Peers : Share(u)' = Share(u)
    BY <1>1, <1>2 DEF Share, Started, Summing, From
  <2>2. Shares' = Shares
    BY <2>1 DEF Shares
  <2> QED BY <2>2 DEF Total
<1>8. \A u \in SC!Peers : thr'[u] \in {"store", "done"} => thr'[u] = thr[u]
  BY <1>2
<1>9. SumsRight'
  BY <1>1, <1>2, <1>7, <1>8 DEF SumsRight, SC!Locks
<1>10. SumBounded'
  BY <1>1, <1>2, <1>7, <1>8 DEF SumBounded
<1> QED BY <1>2, <1>4, <1>5, <1>6, <1>9, <1>10

(* The load sees the sum as it is.                                         *)
LEMMA LoadCounts ==
  ASSUME CountsInv, NEW t \in SC!Peers, SC!Load(t)
  PROVE  CountsInv'
<1> USE CounterConstants DEF CountsInv
<1>1. /\ SC!Goes(t, "load", "store") /\ reg' = [reg EXCEPT ![t] = sum[SC!Place(t)]]
      /\ UNCHANGED <<cell, myid, k, cMutex, sum>>
  BY DEF SC!Load
<1>2. /\ thr' \in [SC!Peers -> ThreadPlaces] /\ thr[t] = "load" /\ thr'[t] = "store"
      /\ \A u \in SC!Peers : u /= t => thr'[u] = thr[u]
      /\ UNCHANGED <<counter, cMainAt, i, result>>
      /\ MainCounts' /\ SC!TotalsRight'
  BY <1>1, ThreadGoes DEF ThreadPlaces
<1>3. /\ Started(t) /\ Looping /\ k[t] < To(t) /\ counter /= "psum-local"
      /\ SC!Place(t) = IF counter = "psum-array" THEN t ELSE -1
  BY <1>2, InLoop DEF ThreadCounts, ThreadAt
<1>4. SC!Place(t) \in {-1} \cup SC!Peers /\ sum[SC!Place(t)] \in Int
  BY <1>3 DEF CountTypes
<1>5. /\ reg' \in [SC!Peers -> Int] /\ reg'[t] = sum[SC!Place(t)]
      /\ \A u \in SC!Peers : u /= t => reg'[u] = reg[u]
  BY <1>1, <1>4 DEF CountTypes
<1>6. CountTypes'
  BY <1>1, <1>2, <1>5 DEF CountTypes
<1>7. ThreadCounts'
  <2> SUFFICES ASSUME NEW u \in SC!Peers
               PROVE  ThreadAt(u)'
    BY DEF ThreadCounts
  <2>1. CASE u /= t
    BY <1>1, <1>2, <1>5, <2>1, ThreadStays DEF ThreadCounts
  <2>2. CASE u = t
    BY <1>1, <1>2, <1>3, <2>2 DEF ThreadCounts, ThreadAt, Started, Looping, Summing, From, To
  <2> QED BY <2>1, <2>2
<1>8. LockCounts'
  <2>1. \A u \in SC!Peers : thr'[u] \in Updates <=> thr[u] \in Updates
    BY <1>2 DEF Updates
  <2> QED BY <1>1, <1>2, <2>1 DEF LockCounts, SC!Locks
<1>9. Shares' = Shares /\ Total' = Total
  <2>1. \A u \in SC!Peers : Share(u)' = Share(u)
    BY <1>1, <1>2 DEF Share, Started, Summing, From
  <2>2. Shares' = Shares
    BY <2>1 DEF Shares
  <2> QED BY <2>2 DEF Total
<1>10. SumsRight'
  <2>1. SC!Locks => SC!Place(t) = -1
    BY <1>3 DEF SC!Locks
  <2>2. \A u \in SC!Peers : thr'[u] = "store" =>
           (u = t /\ reg'[u] = sum[SC!Place(t)]) \/ (thr[u] = "store" /\ reg'[u] = reg[u])
    BY <1>2, <1>5
  <2>3. SC!Locks => /\ 2 * sum[-1] = Total
                    /\ \A u \in SC!Peers : thr'[u] = "store" => reg'[u] = sum[-1]
    BY <2>1, <2>2 DEF SumsRight
  <2>4. counter = "psum-array" => \A u \in SC!Peers : /\ 2 * sum[u] = Shares[u]
                                                      /\ thr'[u] = "store" => reg'[u] = sum[u]
    BY <1>3, <2>2 DEF SumsRight
  <2>5. /\ counter' = counter /\ counter' /= "psum-local" /\ sum' = sum
        /\ SC!Locks' = SC!Locks
    BY <1>1, <1>2, <1>3 DEF SC!Locks
  <2> QED BY ONLY <1>9, <2>3, <2>4, <2>5 DEF SumsRight, SC!Peers
<1>11. SumBounded'
  <2> SUFFICES ASSUME counter = "badcnt"
               PROVE  SumBounded'
    BY <1>2 DEF SumBounded
  <2>1. reg'[t] = sum[-1]
    BY <1>3, <1>5
  <2> QED BY <1>1, <1>2, <1>5, <1>9, <2>1 DEF SumBounded
<1> QED BY <1>2, <1>6, <1>7, <1>8, <1>10, <1>11

(* The store adds the thread's element, to a sum that nobody changed since *)
(* the load where there is a lock, or where the sum is the thread's own.   *)
LEMMA StoreCounts ==
  ASSUME CountsInv, NEW t \in SC!Peers, SC!Store(t)
  PROVE  CountsInv'
<1> USE CounterConstants DEF CountsInv
<1> DEFINE to == IF SC!Locks THEN "V" ELSE "loop"
<1>1. /\ SC!Goes(t, "store", to)
      /\ sum' = [sum EXCEPT ![SC!Place(t)] = reg[t] + SC!Element(t)]
      /\ k' = [k EXCEPT ![t] = @ + 1]
      /\ UNCHANGED <<cell, myid, reg, cMutex>>
  BY DEF SC!Store
<1>2. /\ thr' \in [SC!Peers -> ThreadPlaces] /\ thr[t] = "store" /\ thr'[t] = to
      /\ \A u \in SC!Peers : u /= t => thr'[u] = thr[u]
      /\ UNCHANGED <<counter, cMainAt, i, result>>
      /\ MainCounts' /\ SC!TotalsRight'
  BY <1>1, ThreadGoes DEF ThreadPlaces
<1>3. /\ Started(t) /\ Looping /\ From(t) <= k[t] /\ k[t] < To(t) /\ counter /= "psum-local"
      /\ SC!Element(t) \in Nat /\ SC!Element(t) = IF Summing THEN k[t] ELSE 1
      /\ SC!Place(t) = IF counter = "psum-array" THEN t ELSE -1
  BY <1>2, InLoop DEF ThreadCounts, ThreadAt
<1>4. SC!Place(t) \in {-1} \cup SC!Peers /\ k[t] \in Int /\ reg[t] \in Int
  BY <1>3 DEF CountTypes
<1>5. /\ sum' \in [{-1} \cup SC!Peers -> Int] /\ sum'[SC!Place(t)] = reg[t] + SC!Element(t)
      /\ \A p \in {-1} \cup SC!Peers : p /= SC!Place(t) => sum'[p] = sum[p]
  <2>1. reg[t] + SC!Element(t) \in Int
    BY <1>3, <1>4
  <2> QED BY <1>1, <1>4, <2>1 DEF CountTypes
<1>6. /\ k' \in [SC!Peers -> Int] /\ k'[t] = k[t] + 1
      /\ \A u \in SC!Peers : u /= t => k'[u] = k[u]
  <2>1. k[t] + 1 \in Int
    BY <1>4
  <2> QED BY <1>1, <2>1 DEF CountTypes
<1>7. CountTypes'
  BY <1>1, <1>2, <1>5, <1>6 DEF CountTypes
<1>8. ThreadCounts'
  <2> SUFFICES ASSUME NEW u \in SC!Peers
               PROVE  ThreadAt(u)'
    BY DEF ThreadCounts
  <2>1. CASE u /= t
    BY <1>1, <1>2, <1>6, <2>1, ThreadStays DEF ThreadCounts
  <2>2. CASE u = t
    <3>1. ThreadAt(t)
      BY DEF ThreadCounts
    <3>2. /\ From(t) \in Int /\ To(t) \in Int /\ From(t)' = From(t) /\ To(t)' = To(t)
          /\ Looping' = Looping /\ Started(t)' /\ SC!Locks' = SC!Locks
      BY <1>2, Ranges DEF From, To, Summing, Looping, Started, SC!Locks
    <3>3. From(t) <= k'[t] /\ k'[t] <= To(t)
      BY <1>3, <1>4, <1>6, <3>2
    <3>4. myid'[t] = myid[t] /\ (counter /= "race" => myid[t] = t)
      BY <1>1, <1>3, <3>1 DEF ThreadAt
    <3> QED BY <1>2, <1>3, <2>2, <3>2, <3>3, <3>4 DEF ThreadAt
  <2> QED BY <2>1, <2>2
<1>9. LockCounts'
  <2>1. SC!Locks => \A u \in SC!Peers : thr'[u] \in Updates <=> thr[u] \in Updates
    BY <1>2 DEF Updates
  <2> QED BY <1>1, <1>2, <2>1 DEF LockCounts, SC!Locks
<1>10. /\ Shares'[t] = Shares[t] + 2 * SC!Element(t)
       /\ \A u \in SC!Peers : u /= t => Shares'[u] = Shares[u]
       /\ Total' = Total + 2 * SC!Element(t)
  <2>1. thr'[t] \in {"loop", "V"}
    BY <1>2
  <2> QED BY <1>1, <1>2, <1>7, <2>1, ShareGrows
<1>11. /\ Total \in Int /\ \A u \in SC!Peers : Shares[u] \in Int
  BY ShareType
<1>12. thr'[t] /= "store" /\ thr'[t] /= "done"
  BY <1>2
<1>13. SumsRight'
  <2>1. CASE SC!Locks
    <3>1. SC!Place(t) = -1 /\ 2 * sum[-1] = Total /\ reg[t] = sum[-1]
      BY <1>2, <1>3, <2>1 DEF SC!Locks, SumsRight
    <3>2. sum'[-1] = sum[-1] + SC!Element(t) /\ sum[-1] \in Int
      BY <1>5, <3>1 DEF CountTypes
    <3>3. 2 * sum'[-1] = Total'
      BY <1>3, <1>10, <1>11, <3>1, <3>2
    <3>4. \A u \in SC!Peers : thr'[u] /= "store"
      BY <1>2, <1>12, <2>1 DEF LockCounts, Updates
    <3> QED BY <1>2, <2>1, <3>3, <3>4 DEF SumsRight, SC!Locks
  <2>2. CASE counter = "psum-array"
    <3>1. SC!Place(t) = t /\ 2 * sum[t] = Shares[t] /\ reg[t] = sum[t]
      BY <1>2, <1>3, <2>2 DEF SumsRight
    <3>2. sum'[t] = sum[t] + SC!Element(t) /\ sum[t] \in Int
      BY <1>5, <3>1 DEF CountTypes
    <3>3. 2 * sum'[t] = Shares'[t]
      <4>1. PICK e \in Int : e = SC!Element(t)
        BY <1>3
      <4>2. Shares'[t] = Shares[t] + 2 * e /\ sum'[t] = sum[t] + e
        BY <1>10, <3>2, <4>1
      <4> QED BY <3>1, <3>2, <4>2
    <3>4. \A u \in SC!Peers : u /= t => sum'[u] = sum[u]
      BY <1>5, <3>1
    <3>5. \A u \in SC!Peers : 2 * sum'[u] = Shares'[u] /\ (thr'[u] = "store" => reg'[u] = sum'[u])
      BY <1>1, <1>2, <1>10, <1>12, <2>2, <3>3, <3>4 DEF SumsRight
    <3> QED BY <1>2, <2>2, <3>5 DEF SumsRight, SC!Locks
  <2>3. CASE ~SC!Locks /\ counter /= "psum-array"
    BY <1>2, <1>3, <2>3 DEF SumsRight, SC!Locks
  <2> QED BY <2>1, <2>2, <2>3
<1>14. SumBounded'
  <2> SUFFICES ASSUME counter = "badcnt"
               PROVE  SumBounded'
    BY <1>2 DEF SumBounded
  <2>1. SC!Place(t) = -1 /\ SC!Element(t) = 1 /\ To(t) = PerThread
    BY <1>3 DEF Summing, SC!Psums, To
  <2>2. sum'[-1] = reg[t] + 1 /\ Total' = Total + 2 /\ k'[t] = k[t] + 1
    BY <1>5, <1>6, <1>10, <2>1
  <2>3. \A u \in SC!Peers : reg[u] \in Int /\ 0 <= reg[u] /\ 2 * reg[u] <= Total
    BY DEF SumBounded, CountTypes
  <2>4. 1 <= sum'[-1] /\ 0 <= sum'[-1] /\ 2 * sum'[-1] <= Total'
    BY <1>11, <2>2, <2>3
  <2>5. \A u \in SC!Peers : 0 <= reg'[u] /\ 2 * reg'[u] <= Total'
    BY <1>1, <1>11, <2>2, <2>3
  <2>6. \A u \in SC!Peers : k'[u] >= 1 /\ thr'[u] = "store" => reg'[u] >= 1
    BY <1>1, <1>2, <1>6, <1>12 DEF SumBounded
  <2>7. PerThread >= 2 /\ (\A u \in SC!Peers : k'[u] = PerThread) => sum'[-1] >= 2
    <3>1. PerThread >= 2 /\ k'[t] = PerThread => k[t] >= 1
      BY <1>4, <2>2
    <3>2. k[t] >= 1 => reg[t] >= 1
      BY <1>2 DEF SumBounded
    <3> QED BY <1>4, <2>2, <3>1, <3>2
  <2> HIDE DEF Total
  <2> QED BY <2>4, <2>5, <2>6, <2>7 DEF SumBounded
<1> HIDE DEF to
<1> QED BY <1>2, <1>7, <1>8, <1>9, <1>13, <1>14

(* V(&mutex): only a program with a lock gets here.                        *)
LEMMA UnlockCounts ==
  ASSUME CountsInv, NEW t \in SC!Peers, SC!Unlock(t)
  PROVE  CountsInv'
<1> USE CounterConstants DEF CountsInv
<1>1. /\ SC!Goes(t, "V", "loop") /\ cMutex' = cMutex + 1
      /\ UNCHANGED <<cell, myid, k, reg, sum>>
  BY DEF SC!Unlock
<1>2. /\ thr' \in [SC!Peers -> ThreadPlaces] /\ thr[t] = "V" /\ thr'[t] = "loop"
      /\ \A u \in SC!Peers : u /= t => thr'[u] = thr[u]
      /\ UNCHANGED <<counter, cMainAt, i, result>>
      /\ MainCounts' /\ SC!TotalsRight'
  BY <1>1, ThreadGoes DEF ThreadPlaces
<1>3. Started(t) /\ Looping /\ SC!Locks
  BY <1>2, InLoop DEF ThreadCounts, ThreadAt
<1>4. CountTypes'
  BY <1>1, <1>2 DEF CountTypes
<1>5. ThreadCounts'
  <2> SUFFICES ASSUME NEW u \in SC!Peers
               PROVE  ThreadAt(u)'
    BY DEF ThreadCounts
  <2>1. CASE u /= t
    BY <1>1, <1>2, <2>1, ThreadStays DEF ThreadCounts
  <2>2. CASE u = t
    BY <1>1, <1>2, <1>3, <2>2 DEF ThreadCounts, ThreadAt, Started, Looping, Summing, From, To
  <2> QED BY <2>1, <2>2
<1>6. LockCounts'
  <2>1. cMutex = 0 /\ \A u \in SC!Peers : thr[u] \in Updates => u = t
    BY <1>2, <1>3 DEF LockCounts, Updates
  <2>2. cMutex' = 1
    BY <1>1, <2>1
  <2>3. \A u \in SC!Peers : thr'[u] \notin Updates
    BY <1>2, <2>1 DEF Updates
  <2> QED BY <2>2, <2>3 DEF LockCounts
<1>7. Shares' = Shares /\ Total' = Total
  <2>1. \A u \in SC!Peers : Share(u)' = Share(u)
    BY <1>1, <1>2 DEF Share, Started, Summing, From
  <2>2. Shares' = Shares
    BY <2>1 DEF Shares
  <2> QED BY <2>2 DEF Total
<1>8. \A u \in SC!Peers : thr'[u] \in {"store", "done"} => thr'[u] = thr[u]
  BY <1>2
<1>9. SumsRight'
  BY <1>1, <1>2, <1>7, <1>8 DEF SumsRight, SC!Locks
<1>10. SumBounded'
  BY <1>1, <1>2, <1>7, <1>8 DEF SumBounded
<1> QED BY <1>2, <1>4, <1>5, <1>6, <1>9, <1>10

(* psum-local.c: the thread adds to its own variable.                      *)
LEMMA AddLocalCounts ==
  ASSUME CountsInv, NEW t \in SC!Peers, SC!AddLocal(t)
  PROVE  CountsInv'
<1> USE CounterConstants DEF CountsInv
<1>1. /\ SC!Goes(t, "loop", "loop") /\ k[t] < SC!End(t) /\ counter = "psum-local"
      /\ reg' = [reg EXCEPT ![t] = @ + SC!Element(t)]
      /\ k' = [k EXCEPT ![t] = @ + 1]
      /\ UNCHANGED <<cell, myid, cMutex, sum>>
  BY DEF SC!AddLocal
<1>2. /\ thr' \in [SC!Peers -> ThreadPlaces] /\ thr[t] = "loop" /\ thr'[t] = "loop"
      /\ \A u \in SC!Peers : u /= t => thr'[u] = thr[u]
      /\ UNCHANGED <<counter, cMainAt, i, result>>
      /\ MainCounts' /\ SC!TotalsRight'
  BY <1>1, ThreadGoes DEF ThreadPlaces
<1>3. /\ Started(t) /\ Looping /\ From(t) <= k[t] /\ k[t] < To(t) /\ SC!Element(t) \in Nat
  BY <1>1, <1>2, InLoop
<1>4. k[t] \in Int /\ k[t] + 1 \in Int /\ reg[t] \in Int /\ reg[t] + SC!Element(t) \in Int
  <2>1. k[t] \in Int /\ reg[t] \in Int
    BY DEF CountTypes
  <2>2. PICK e \in Int : e = SC!Element(t)
    BY <1>3
  <2> QED BY <2>1, <2>2
<1>5. /\ k' \in [SC!Peers -> Int] /\ k'[t] = k[t] + 1
      /\ \A u \in SC!Peers : u /= t => k'[u] = k[u]
  BY <1>1, <1>4 DEF CountTypes
<1>6. /\ reg' \in [SC!Peers -> Int] /\ reg'[t] = reg[t] + SC!Element(t)
      /\ \A u \in SC!Peers : u /= t => reg'[u] = reg[u]
  BY <1>1, <1>4 DEF CountTypes
<1>7. CountTypes'
  BY <1>1, <1>2, <1>5, <1>6 DEF CountTypes
<1>8. ThreadCounts'
  <2> SUFFICES ASSUME NEW u \in SC!Peers
               PROVE  ThreadAt(u)'
    BY DEF ThreadCounts
  <2>1. CASE u /= t
    BY <1>1, <1>2, <1>5, <1>6, <2>1, ThreadStays DEF ThreadCounts
  <2>2. CASE u = t
    <3>1. ThreadAt(t)
      BY DEF ThreadCounts
    <3>2. /\ From(t) \in Int /\ To(t) \in Int /\ From(t)' = From(t) /\ To(t)' = To(t)
          /\ Looping' = Looping /\ Started(t)'
      BY <1>2, Ranges DEF From, To, Summing, Looping, Started
    <3>3. From(t) <= k'[t] /\ k'[t] <= To(t)
      BY <1>3, <1>4, <1>5, <3>2
    <3>4. myid'[t] = myid[t] /\ (counter /= "race" => myid[t] = t)
      BY <1>1, <1>3, <3>1 DEF ThreadAt
    <3> QED BY <1>2, <1>3, <2>2, <3>2, <3>3, <3>4 DEF ThreadAt
  <2> QED BY <2>1, <2>2
<1>9. LockCounts'
  BY <1>1, <1>2 DEF LockCounts, SC!Locks
<1>10. /\ Shares'[t] = Shares[t] + 2 * SC!Element(t)
       /\ \A u \in SC!Peers : u /= t => Shares'[u] = Shares[u]
  BY <1>1, <1>2, <1>7, ShareGrows
<1>11. SumsRight'
  <2>1. 2 * reg[t] = Shares[t] /\ Shares[t] \in Int
    BY <1>1, ShareType DEF SumsRight
  <2>2. 2 * reg'[t] = Shares'[t]
    <3>1. PICK e \in Int : e = SC!Element(t)
      BY <1>3
    <3>2. Shares'[t] = Shares[t] + 2 * e /\ reg'[t] = reg[t] + e
      BY <1>6, <1>10, <3>1
    <3> QED BY <1>4, <2>1, <3>2
  <2>3. \A u \in SC!Peers : 2 * reg'[u] = Shares'[u]
    BY <1>1, <1>6, <1>10, <2>2 DEF SumsRight
  <2>4. \A u \in SC!Peers : thr'[u] = "done" => sum'[u] = reg'[u]
    BY <1>1, <1>2, <1>6 DEF SumsRight
  <2> QED BY <1>1, <1>2, <2>3, <2>4 DEF SumsRight, SC!Locks
<1>12. SumBounded'
  BY <1>1, <1>2 DEF SumBounded
<1> QED BY <1>2, <1>7, <1>8, <1>9, <1>11, <1>12

(* A thread ends; psum-local.c stores its sum.                             *)
LEMMA LoopEndsCounts ==
  ASSUME CountsInv, NEW t \in SC!Peers, SC!LoopEnds(t)
  PROVE  CountsInv'
<1> USE CounterConstants DEF CountsInv
<1>1. /\ SC!Goes(t, "loop", "done") /\ k[t] = SC!End(t)
      /\ sum' = IF counter = "psum-local" THEN [sum EXCEPT ![SC!Place(t)] = reg[t]] ELSE sum
      /\ UNCHANGED <<cell, myid, k, reg, cMutex>>
  BY DEF SC!LoopEnds
<1>2. /\ thr' \in [SC!Peers -> ThreadPlaces] /\ thr[t] = "loop" /\ thr'[t] = "done"
      /\ \A u \in SC!Peers : u /= t => thr'[u] = thr[u]
      /\ UNCHANGED <<counter, cMainAt, i, result>>
      /\ MainCounts' /\ SC!TotalsRight'
  BY <1>1, ThreadGoes DEF ThreadPlaces
<1>3. /\ Started(t) /\ Looping /\ k[t] = To(t) /\ reg[t] \in Int
      /\ counter = "psum-local" => SC!Place(t) = t
  BY <1>1, <1>2, InLoop DEF CountTypes
<1>4. /\ sum' \in [{-1} \cup SC!Peers -> Int]
      /\ counter = "psum-local" =>
            sum'[t] = reg[t] /\ \A u \in SC!Peers : u /= t => sum'[u] = sum[u]
  BY <1>1, <1>3 DEF CountTypes
<1>5. CountTypes'
  BY <1>1, <1>2, <1>4 DEF CountTypes
<1>6. ThreadCounts'
  <2> SUFFICES ASSUME NEW u \in SC!Peers
               PROVE  ThreadAt(u)'
    BY DEF ThreadCounts
  <2>1. CASE u /= t
    BY <1>1, <1>2, <2>1, ThreadStays DEF ThreadCounts
  <2>2. CASE u = t
    BY <1>1, <1>2, <1>3, <2>2 DEF ThreadCounts, ThreadAt, Started, Looping, Summing, From, To
  <2> QED BY <2>1, <2>2
<1>7. LockCounts'
  <2>1. \A u \in SC!Peers : thr'[u] \in Updates <=> thr[u] \in Updates
    BY <1>2 DEF Updates
  <2> QED BY <1>1, <1>2, <2>1 DEF LockCounts, SC!Locks
<1>8. Shares' = Shares /\ Total' = Total
  <2>1. \A u \in SC!Peers : Share(u)' = Share(u)
    BY <1>1, <1>2 DEF Share, Started, Summing, From
  <2>2. Shares' = Shares
    BY <2>1 DEF Shares
  <2> QED BY <2>2 DEF Total
<1>9. \A u \in SC!Peers : /\ thr'[u] = "store" => thr[u] = "store"
                          /\ thr'[u] = "done" => u = t \/ thr[u] = "done"
  BY <1>2
<1>10. SumsRight'
  BY <1>1, <1>2, <1>4, <1>8, <1>9 DEF SumsRight, SC!Locks
<1>11. SumBounded'
  BY <1>1, <1>2, <1>8, <1>9 DEF SumBounded
<1> QED BY <1>2, <1>5, <1>6, <1>7, <1>10, <1>11

(* Every step of the program keeps the invariant.                          *)
LEMMA CountsStep ==
  ASSUME CountsInv, SC!Next
  PROVE  CountsInv'
<1>1. CASE SC!Main
  BY <1>1, CreateCounts, MainCountsOn, CheckCounts DEF SC!Main
<1>2. ASSUME NEW t \in SC!Peers, SC!Thread(t)
      PROVE  CountsInv'
  BY <1>2, EntryCounts, LockCountsOn, LoadCounts, StoreCounts, UnlockCounts, AddLocalCounts,
     LoopEndsCounts DEF SC!Thread
<1> QED BY <1>1, <1>2 DEF SC!Next

(* So does a step of another program.                                      *)
LEMMA CountsSame ==
  ASSUME CountsInv, UNCHANGED counterVars
  PROVE  CountsInv'
<1>1. /\ UNCHANGED <<counter, cMainAt, i, cell, thr, myid, k, reg, cMutex, sum, result>>
  BY DEF counterVars
<1>2. ThreadParts'
  BY <1>1, SameThreads DEF CountsInv, ThreadParts
<1>3. CountTypes' /\ MainCounts' /\ SC!TotalsRight'
  BY <1>1 DEF CountsInv, CountTypes, MainCounts, SC!TotalsRight
<1> QED BY <1>2, <1>3 DEF CountsInv, ThreadParts

(* The sums of psum-*.c and goodcnt.c are right, that of badcnt.c is       *)
(* between 2 and the right one, and only race.c gives a thread another     *)
(* one's number.                                                           *)
THEOREM SumsAndIds == ProgramsSpec => []ResultsRight
<1>1. ProgramsInit => CountsInv
  BY CountsInit
<1>2. CountsInv /\ [ProgramsNext]_programVars => CountsInv'
  BY CountersStep, CountsStep, CountsSame
<1>3. CountsInv => ResultsRight
  <2> SUFFICES ASSUME CountsInv
               PROVE  SC!OwnIds
    BY DEF CountsInv, ResultsRight, SC!ResultsRight
  <2>1. \A t \in SC!Peers : counter /= "race" => myid[t] \in {-1, t}
    BY DEF CountsInv, ThreadCounts, ThreadAt
  <2> QED BY <2>1, CounterConstants DEF SC!OwnIds
<1> QED BY <1>1, <1>2, <1>3, PTL DEF ProgramsSpec

--------------------------------------------------------------------------------
(* procmask.c and procmask2.c: the job list and the children *)

Masked == {"procmask", "procmask2"}
Born == {c \in SH!Children : child[c] /= "unborn"}
ChildStates == {"unborn", "live", "zombie", "reaped"}

(* The places of main between fork and addjob.                             *)
Adding == main \in IF prog = "procmask" THEN {3} ELSE {3, 4}
Fresh == IF Adding THEN {SH!Newest} ELSE {}
Deleting == IF handler = "deletejob" THEN {got} ELSE {}

(* SIGCHLD is blocked from the first statement to the last, where the      *)
(* handler is off; the children are numbered as they come; and the list    *)
(* has the children that are not reaped, but for the one that main is to   *)
(* add, and with the one that the handler is to delete.                    *)
Matched ==
    /\ main \in 1 .. IF prog = "procmask" THEN 4 ELSE 5
    /\ asleep = FALSE
    /\ blocked \in BOOLEAN /\ (blocked <=> main /= 1)
    /\ handler \in {"off", "waitpid", "deletejob", "return", "exited"}
    /\ blocked => handler = "off"
    /\ child \in [SH!Children -> ChildStates]
    /\ SH!Newest \in 0 .. MaxForks /\ Born = 1 .. SH!Newest
    /\ main = 2 => SH!Newest < MaxForks
    /\ Adding => SH!Newest \in SH!Unreaped
    /\ handler = "deletejob" => got \in SH!Children /\ child[got] = "reaped"
    /\ jobs = (SH!Unreaped \ Fresh) \cup Deleting

HandlersInv == prog \in Masked => Matched

(* The text of the two programs.                                           *)
LEMMA Texts ==
  ASSUME prog \in Masked, main \in 1 .. IF prog = "procmask" THEN 4 ELSE 5
  PROVE  /\ Len(SH!Text[prog]) = IF prog = "procmask" THEN 4 ELSE 5
         /\ SH!Text[prog][main] = "block" => main = 1 \/ (prog = "procmask2" /\ main = 3)
         /\ SH!Text[prog][main] = "fork" => main = 2
         /\ SH!Text[prog][main] = "addjob" => main = IF prog = "procmask" THEN 3 ELSE 4
         /\ SH!Text[prog][main] = "unblock" => main = IF prog = "procmask" THEN 4 ELSE 5
         /\ SH!Text[prog][main] \in {"block", "fork", "addjob", "unblock"}
<1>1. CASE prog = "procmask"
  <2>1. SH!Text[prog] = <<"block", "fork", "addjob", "unblock">>
    BY <1>1 DEF SH!Text, SH!procmask
  <2>2. main \in {1, 2, 3, 4}
    BY <1>1
  <2> QED BY <1>1, <2>1, <2>2
<1>2. CASE prog = "procmask2"
  <2>1. SH!Text[prog] = <<"block", "fork", "block", "addjob", "unblock">>
    BY <1>2 DEF SH!Text, SH!procmask2
  <2>2. main \in {1, 2, 3, 4, 5}
    BY <1>2
  <2> QED BY <1>2, <2>1, <2>2
<1> QED BY <1>1, <1>2 DEF Masked

(* The number of children, from the set of them.                           *)
LEMMA NewestIs ==
  /\ SH!Newest = Cardinality(Born)
  /\ SH!Newest' = Cardinality(Born')
BY DEF SH!Newest, Born, SH!Cardinality, Cardinality

(* A statement of main is at its place in the text, and main goes on to    *)
(* the next one.                                                           *)
LEMMA StatementPlace ==
  ASSUME prog \in Masked, Matched, NEW s, SH!Statement(s)
  PROVE  /\ prog' = prog /\ got' = got /\ handler = "off" /\ Deleting = {}
         /\ s \in {"block", "fork", "addjob", "unblock"}
         /\ s = "block" => main = 1 \/ (prog = "procmask2" /\ main = 3)
         /\ s = "fork" => main = 2
         /\ s = "addjob" => main = IF prog = "procmask" THEN 3 ELSE 4
         /\ s = "unblock" => main = IF prog = "procmask" THEN 4 ELSE 5
         /\ main = 1 => SH!Newest < MaxForks
         /\ SH!Done => main' = IF s = "unblock" THEN 1 ELSE main + 1
<1>1. main \in 1 .. IF prog = "procmask" THEN 4 ELSE 5
  BY DEF Matched
<1> QED BY <1>1, Texts DEF SH!Statement, Deleting, SH!Done, Masked

(* The number of children changes with the set of those that are born.     *)
LEMMA SameNewest ==
  ASSUME Born' = Born
  PROVE  SH!Newest' = SH!Newest
BY NewestIs

(* Every statement of main keeps the invariant.                            *)
LEMMA MainMatched ==
  ASSUME prog \in Masked, Matched, SH!Main
  PROVE  prog' \in Masked /\ Matched'
<1>1. prog = "procmask" \/ prog = "procmask2"
  BY DEF Masked
<1>2. MaxForks \in Nat /\ SH!Newest \in Nat
  BY ProgramsAssumption DEF SH!HandlersAssumption, Matched
<1> DEFINE n == SH!Newest
<1>3. CASE SH!Block
  <2>1. /\ main = 1 \/ (prog = "procmask2" /\ main = 3)
        /\ main' = main + 1
        /\ prog' = prog /\ handler = "off" /\ (main = 1 => n < MaxForks)
        /\ got' = got
    BY <1>3, StatementPlace DEF SH!Block
  <2>2. blocked' = TRUE /\ UNCHANGED <<asleep, handler, child, jobs>>
    BY <1>3 DEF SH!Block
  <2>3. Born' = Born /\ SH!Unreaped' = SH!Unreaped /\ SH!Newest' = SH!Newest
    BY <2>2, SameNewest DEF Born, SH!Unreaped
  <2>4. Fresh' = Fresh /\ Deleting' = Deleting /\ Adding' = Adding
    BY <1>1, <2>1, <2>2, <2>3 DEF Fresh, Deleting, Adding
  <2> QED BY <1>1, <1>2, <2>1, <2>2, <2>3, <2>4 DEF Matched, Masked
<1>4. CASE SH!Unblock
  <2>1. /\ main = (IF prog = "procmask" THEN 4 ELSE 5) /\ main' = 1
        /\ prog' = prog /\ handler = "off" /\ got' = got
    BY <1>4, StatementPlace DEF SH!Unblock
  <2>2. blocked' = FALSE /\ handler' \in {"waitpid", "off"} /\ UNCHANGED <<asleep, child, jobs>>
    BY <1>4 DEF SH!Unblock
  <2>3. Born' = Born /\ SH!Unreaped' = SH!Unreaped /\ SH!Newest' = SH!Newest
    BY <2>2, SameNewest DEF Born, SH!Unreaped
  <2>4. Fresh' = {} /\ Fresh = {} /\ Deleting' = {} /\ Deleting = {} /\ ~Adding'
    BY <1>1, <2>1, <2>2 DEF Fresh, Deleting, Adding
  <2>5. main' \in 1 .. IF prog' = "procmask" THEN 4 ELSE 5
    BY <2>1
  <2> QED BY <1>1, <2>1, <2>2, <2>3, <2>4, <2>5 DEF Matched, Masked
<1>5. CASE SH!Fork
  <2>1. /\ main = 2 /\ main' = 3
        /\ prog' = prog /\ handler = "off" /\ got' = got
    BY <1>5, StatementPlace DEF SH!Fork
  <2>2. child' = [child EXCEPT ![n + 1] = "live"] /\ UNCHANGED <<asleep, blocked, handler, jobs>>
    BY <1>5 DEF SH!Fork
  <2>3. n < MaxForks /\ Born = 1 .. n /\ child \in [SH!Children -> ChildStates]
    BY <2>1 DEF Matched
  <2>4. n + 1 \in SH!Children
    BY <1>2, <2>3 DEF SH!Children
  <2>5. child' \in [SH!Children -> ChildStates]
    BY <2>2, <2>3 DEF ChildStates
  <2>6. Born' = Born \cup {n + 1} /\ SH!Unreaped' = SH!Unreaped \cup {n + 1}
        /\ n + 1 \notin SH!Unreaped
    <3>1. n + 1 \notin Born
      BY <1>2, <2>3
    <3> HIDE DEF n
    <3> QED BY <2>2, <2>3, <2>4, <3>1 DEF Born, SH!Unreaped
  <2>7. Born' = 1 .. n + 1
    BY <1>2, <2>3, <2>6
  <2>8. SH!Newest' = n + 1
    BY <1>2, <2>7, FS_Interval, NewestIs
  <2>9. Fresh' = {n + 1} /\ Fresh = {} /\ Deleting' = {} /\ Deleting = {} /\ Adding'
    BY <1>1, <2>1, <2>2, <2>8 DEF Fresh, Deleting, Adding
  <2>10. jobs = SH!Unreaped
    BY <2>9 DEF Matched
  <2> HIDE DEF n
  <2>11. jobs' = (SH!Unreaped' \ Fresh') \cup Deleting'
    BY <2>2, <2>6, <2>9, <2>10
  <2>12. n + 1 \in 0 .. MaxForks
    BY <1>2, <2>3 DEF n
  <2> QED BY <1>1, <2>1, <2>2, <2>5, <2>6, <2>7, <2>8, <2>9, <2>11, <2>12 DEF Matched, Masked
<1>6. CASE SH!AddJob
  <2>1. /\ main = (IF prog = "procmask" THEN 3 ELSE 4) /\ main' = main + 1
        /\ prog' = prog /\ handler = "off" /\ got' = got
    BY <1>6, StatementPlace DEF SH!AddJob
  <2>2. jobs' = jobs \cup {n} /\ UNCHANGED <<asleep, blocked, handler, child>>
    BY <1>6 DEF SH!AddJob
  <2>3. Born' = Born /\ SH!Unreaped' = SH!Unreaped /\ SH!Newest' = SH!Newest
    BY <2>2, SameNewest DEF Born, SH!Unreaped
  <2>4. Fresh' = {} /\ Fresh = {n} /\ Deleting' = {} /\ Deleting = {} /\ ~Adding' /\ Adding
    BY <1>1, <2>1, <2>2 DEF Fresh, Deleting, Adding
  <2>5. jobs' = (SH!Unreaped' \ Fresh') \cup Deleting'
    BY <2>2, <2>3, <2>4 DEF Matched
  <2> QED BY <1>1, <1>2, <2>1, <2>2, <2>3, <2>4, <2>5 DEF Matched, Masked
<1>7. ~SH!ClearPid /\ ~SH!ReadInput /\ ~SH!PidIsSet /\ ~SH!Suspend
  BY StatementPlace DEF SH!ClearPid, SH!ReadInput, SH!PidIsSet, SH!Suspend
<1> QED BY <1>3, <1>4, <1>5, <1>6, <1>7 DEF SH!Main

(* So does every step of the handler, and the end of a child.              *)
LEMMA HandlerMatched ==
  ASSUME prog \in Masked, Matched,
         SH!Handler \/ SH!Interrupt \/ \E c \in SH!Children : SH!Exit(c)
  PROVE  prog' \in Masked /\ Matched'
<1>1. prog \in SH!Procmasks /\ ~SH!Interrupt
  BY DEF Masked, SH!Procmasks, SH!Interrupt, Matched
<1>2. CASE SH!Deliver \/ SH!NoChild \/ SH!Return
  <2>1. /\ ~blocked /\ asleep = FALSE /\ handler \in {"off", "waitpid", "return"}
        /\ handler' \in {"off", "waitpid", "return", "exited"}
        /\ UNCHANGED <<prog, main, asleep, blocked, child, jobs, got>>
    <3>1. asleep = FALSE /\ (blocked => handler = "off") /\ blocked \in BOOLEAN
      BY DEF Matched
    <3>2. CASE SH!Deliver
      BY <3>1, <3>2 DEF SH!Deliver
    <3>3. CASE SH!NoChild
      BY <3>1, <3>3 DEF SH!NoChild
    <3>4. CASE SH!Return
      <4>1. blocked' = blocked
        BY <3>1, <3>4, Zenon DEF SH!Return
      <4> QED BY <3>1, <3>4, <4>1 DEF SH!Return
    <3> QED BY <1>2, <3>2, <3>3, <3>4
  <2>2. Born' = Born /\ SH!Unreaped' = SH!Unreaped /\ SH!Newest' = SH!Newest
    BY <2>1, SameNewest DEF Born, SH!Unreaped
  <2>3. Fresh' = Fresh /\ Adding' = Adding /\ Deleting' = {} /\ Deleting = {}
    BY <2>1, <2>2 DEF Fresh, Adding, Deleting
  <2> QED BY <2>1, <2>2, <2>3 DEF Matched, Masked
<1>3. ASSUME NEW c \in SH!Children, SH!Reap(c)
      PROVE  prog' \in Masked /\ Matched'
  <2>1. /\ child[c] = "zombie" /\ child' = [child EXCEPT ![c] = "reaped"]
        /\ got' = c /\ handler = "waitpid" /\ handler' = "deletejob"
        /\ UNCHANGED <<prog, main, asleep, blocked, jobs>>
    BY <1>1, <1>3 DEF SH!Reap
  <2>2. child \in [SH!Children -> ChildStates] /\ ~blocked /\ main = 1
    BY <2>1 DEF Matched
  <2>3. child' \in [SH!Children -> ChildStates] /\ child'[c] = "reaped"
    BY <2>1, <2>2 DEF ChildStates
  <2>4. Born' = Born
    BY <2>1, <2>2 DEF Born
  <2>5. SH!Newest' = SH!Newest
    BY <2>4, SameNewest
  <2>6. SH!Unreaped' = SH!Unreaped \ {c} /\ c \in SH!Unreaped
    BY <2>1, <2>2 DEF SH!Unreaped
  <2>7. Fresh = {} /\ Fresh' = {} /\ ~Adding' /\ Deleting = {} /\ Deleting' = {c}
    BY <2>1, <2>2 DEF Fresh, Adding, Deleting
  <2>8. jobs' = (SH!Unreaped' \ Fresh') \cup Deleting'
    BY <2>1, <2>6, <2>7 DEF Matched
  <2> QED BY <2>1, <2>2, <2>3, <2>4, <2>5, <2>7, <2>8 DEF Matched, Masked
<1>4. CASE SH!DeleteJob
  <2>1. /\ handler = "deletejob" /\ handler' = "waitpid" /\ jobs' = jobs \ {got}
        /\ UNCHANGED <<prog, main, asleep, blocked, child, got>>
    BY <1>1, <1>4 DEF SH!DeleteJob, SH!Loops
  <2>2. Born' = Born /\ SH!Unreaped' = SH!Unreaped /\ SH!Newest' = SH!Newest
    BY <2>1, SameNewest DEF Born, SH!Unreaped
  <2>3. ~blocked /\ main = 1 /\ got \notin SH!Unreaped
    BY <2>1 DEF Matched, SH!Unreaped
  <2>4. Fresh = {} /\ Fresh' = {} /\ ~Adding' /\ Deleting = {got} /\ Deleting' = {}
    BY <2>1, <2>3 DEF Fresh, Adding, Deleting
  <2>5. jobs' = (SH!Unreaped' \ Fresh') \cup Deleting'
    BY <2>1, <2>2, <2>3, <2>4 DEF Matched
  <2> QED BY <2>1, <2>2, <2>3, <2>4, <2>5 DEF Matched, Masked
<1>5. ASSUME NEW c \in SH!Children, SH!Exit(c)
      PROVE  prog' \in Masked /\ Matched'
  <2>1. /\ child[c] = "live" /\ child' = [child EXCEPT ![c] = "zombie"]
        /\ UNCHANGED <<prog, main, asleep, blocked, handler, got, jobs>>
    BY <1>5 DEF SH!Exit
  <2>2. child \in [SH!Children -> ChildStates]
    BY DEF Matched
  <2>3. child' \in [SH!Children -> ChildStates]
    BY <2>1, <2>2 DEF ChildStates
  <2>4. Born' = Born /\ SH!Unreaped' = SH!Unreaped
        /\ \A d \in SH!Children : child[d] = "reaped" => child'[d] = "reaped"
    BY <2>1, <2>2 DEF Born, SH!Unreaped
  <2>5. SH!Newest' = SH!Newest
    BY <2>4, SameNewest
  <2>6. Fresh' = Fresh /\ Adding' = Adding /\ Deleting' = Deleting
    BY <2>1, <2>5 DEF Fresh, Adding, Deleting
  <2> QED BY <2>1, <2>3, <2>4, <2>5, <2>6 DEF Matched, Masked
<1> QED BY <1>1, <1>2, <1>3, <1>4, <1>5 DEF SH!Handler

(* In the initial state there are no children and no jobs.                 *)
LEMMA InitMatched == ProgramsInit => HandlersInv
<1> SUFFICES ASSUME ProgramsInit, prog \in Masked PROVE Matched
  BY DEF HandlersInv
<1>1. SH!Init
  BY DEF ProgramsInit
<1>2. Born = {} /\ SH!Unreaped = {} /\ Born = 1 .. 0
  BY <1>1 DEF SH!Init, Born, SH!Unreaped
<1>3. SH!Newest = 0
  BY <1>2, NewestIs, FS_EmptySet
<1>4. Fresh = {} /\ Deleting = {} /\ ~Adding
  BY <1>1 DEF SH!Init, Fresh, Deleting, Adding
<1>5. MaxForks \in Nat
  BY ProgramsAssumption DEF SH!HandlersAssumption
<1>6. /\ main = 1 /\ asleep = FALSE /\ blocked = FALSE /\ handler = "off" /\ jobs = {}
      /\ child = [c \in SH!Children |-> "unborn"]
  BY <1>1 DEF SH!Init
<1>7. main \in 1 .. (IF prog = "procmask" THEN 4 ELSE 5) /\ 0 \in 0 .. MaxForks
  BY <1>5, <1>6
<1>8. child \in [SH!Children -> ChildStates]
  BY <1>6 DEF ChildStates
<1>9. blocked \in BOOLEAN /\ (blocked <=> main /= 1) /\ ~Adding
  BY <1>4, <1>6
<1> QED BY <1>2, <1>3, <1>4, <1>6, <1>7, <1>8, <1>9 DEF Matched

(* In procmask.c and procmask2.c the job list has the children that are    *)
(* not reaped, whenever SIGCHLD is not blocked, and no job of a child that *)
(* is, for any number of children (procmask.c:36-46, procmask2.c:45-52).   *)
THEOREM JobListRight == ProgramsSpec => []JobsMatchChildren
<1>1. HandlersInv /\ [ProgramsNext]_programVars => HandlersInv'
  <2>1. HandlersInv /\ UNCHANGED handlerVars => HandlersInv'
    <3> SUFFICES ASSUME HandlersInv, UNCHANGED handlerVars, prog' \in Masked PROVE Matched'
      BY DEF HandlersInv
    <3>1. Born' = Born /\ SH!Unreaped' = SH!Unreaped
      BY DEF handlerVars, Born, SH!Unreaped
    <3>2. SH!Newest' = SH!Newest
      BY <3>1, SameNewest
    <3>3. Adding' = Adding /\ Fresh' = Fresh /\ Deleting' = Deleting
      BY <3>2 DEF handlerVars, Adding, Fresh, Deleting
    <3> QED BY <3>1, <3>2, <3>3 DEF HandlersInv, Matched, handlerVars
  <2>2. HandlersInv /\ SH!Next => HandlersInv'
    <3> SUFFICES ASSUME HandlersInv, SH!Next, prog' \in Masked PROVE Matched'
      BY DEF HandlersInv
    <3>1. prog' = prog
      BY DEF SH!Next, SH!Main, SH!Block, SH!Unblock, SH!Fork, SH!AddJob, SH!ClearPid,
             SH!ReadInput, SH!PidIsSet, SH!Suspend, SH!Statement, SH!Interrupt, SH!Handler,
             SH!Deliver, SH!Reap, SH!DeleteJob, SH!NoChild, SH!Return, SH!Exit
    <3> QED BY <3>1, MainMatched, HandlerMatched DEF HandlersInv, SH!Next
  <2> QED BY <2>1, <2>2, HandlersStep
<1>2. HandlersInv => JobsMatchChildren
  BY DEF HandlersInv, Matched, Masked, JobsMatchChildren, SH!JobsMatchChildren, Fresh, Adding,
         Deleting
<1> QED BY <1>1, <1>2, InitMatched, PTL DEF ProgramsSpec

--------------------------------------------------------------------------------
(* tiny.c: one client after the other, each with its own answer *)

Kinds == {"page", "empty", "unreadable", "missing", "post", "program", "crashing", "notexec"}
Reading == {"request", "headers", "stat"}
StaticPlaces == {"static", "open", "body", "munmap"}
DynamicPlaces == {"dynamic", "fork", "wait"}
TinyPlaces == {"accept", "clienterror", "close", "exited"}
              \cup Reading \cup StaticPlaces \cup DynamicPlaces
Whole(c) == Web!Answers[kind[c]]
AllPosted(c) == posted[c] = 3 \/ kind[c] = "post"

TinyTypes == /\ tinyAt \in TinyPlaces /\ conn \in Browsers \cup {"none"} /\ lineno \in 0 .. 3
             /\ kind \in [Browsers -> Kinds]
             /\ browser \in [Browsers -> {"idle", "backlog", "connected", "gone"}]
             /\ posted \in [Browsers -> 0 .. 3]
             /\ cgi \in {"none", "running", "zombie"}
             /\ DOMAIN holders = Browsers /\ DOMAIN answer = Browsers

(* Who is not being served has the whole answer, or none.                  *)
Settled(c) == /\ holders[c] = {}
              /\ answer[c] = << >> \/ (answer[c] = Whole(c) /\ AllPosted(c))
OthersSettled ==
    \A c \in Browsers : /\ tinyAt = "accept" \/ c /= conn => Settled(c)
                        /\ browser[c] \in {"idle", "backlog"} => answer[c] = << >>

(* Who is being served has the pieces that belong to the place of the      *)
(* server in its text, and the kind of request that leads there.           *)
Pieces ==
    /\ tinyAt \in Reading \cup {"clienterror", "static", "dynamic"} => answer[conn] = << >>
    /\ tinyAt \in {"open", "body", "fork"} => answer[conn] = <<"200">>
    /\ tinyAt = "wait" => answer[conn] = IF cgi = "zombie" THEN Whole(conn) ELSE <<"200">>
    /\ tinyAt = "munmap" => answer[conn] = Whole(conn)
    /\ tinyAt = "close" => answer[conn] = << >> \/ answer[conn] = Whole(conn)
    /\ tinyAt = "exited" => \/ answer[conn] = << >> \/ answer[conn] = Whole(conn)
                            \/ /\ answer[conn] = <<"200">>
                               /\ kind[conn] \in {"page", "empty", "program", "crashing"}
RightKind ==
    /\ tinyAt \in {"headers", "stat"} => kind[conn] /= "post"
    /\ tinyAt = "headers" => lineno \in 1 .. 2
    /\ tinyAt = "clienterror" => kind[conn] \in {"missing", "unreadable", "notexec", "post"}
    /\ tinyAt \in {"static", "open"} => kind[conn] \in {"page", "empty"}
    /\ tinyAt \in {"body", "munmap"} => kind[conn] = "page"
    /\ tinyAt \in DynamicPlaces => kind[conn] \in {"program", "crashing"}
    /\ tinyAt \in {"stat"} \cup StaticPlaces \cup DynamicPlaces => posted[conn] = 3
    /\ tinyAt \in {"clienterror", "close", "exited"} => answer[conn] = << >> \/ AllPosted(conn)
    /\ tinyAt = "clienterror" => AllPosted(conn)

(* The server holds the connection until it closes it, and a child or a    *)
(* file only between two of its places.                                    *)
Holding ==
    /\ cgi /= "none" <=> tinyAt = "wait"
    /\ tinyAt \notin {"body", "munmap", "exited"} => file = {}
    /\ tinyAt /= "accept" =>
         /\ conn \in Browsers /\ browser[conn] \in {"connected", "gone"}
         /\ holders[conn] = IF cgi = "running" THEN {"server", "cgi"} ELSE {"server"}

TinyInv == TinyTypes /\ OthersSettled /\ (tinyAt /= "accept" => Pieces /\ RightKind) /\ Holding

(* A piece appended to an answer of one. *)
LEMMA AppendSecond ==
  ASSUME NEW a, NEW b
  PROVE  Append(<<a>>, b) = <<a, b>>
<1>1. /\ <<a>> \in Seq({a, b}) /\ <<a, b>> \in Seq({a, b}) /\ Len(<<a>>) = 1 /\ Len(<<a, b>>) = 2
      /\ <<a>>[1] = a /\ <<a, b>>[1] = a /\ <<a, b>>[2] = b
  OBVIOUS
<1> DEFINE s == Append(<<a>>, b)
<1>2. /\ s \in Seq({a, b}) /\ Len(s) = 2 /\ s[1] = a /\ s[2] = b
  BY <1>1, AppendProperties
<1>3. \A n \in 1 .. Len(s) : s[n] = <<a, b>>[n]
  BY <1>1, <1>2
<1> QED BY <1>1, <1>2, <1>3, SeqEqual

(* The answers, kind by kind.                                              *)
LEMMA AnswersAre ==
  ASSUME NEW q \in Kinds
  PROVE  Web!Answers[q] = CASE q \in {"page", "empty"} -> <<"200", "body">>
                            [] q \in {"unreadable", "notexec"} -> <<"403">>
                            [] q = "missing" -> <<"404">>
                            [] q = "post" -> <<"501">>
                            [] q = "program" -> <<"200", "output">>
                            [] q = "crashing" -> <<"200">>
BY DEF Web!Answers, Kinds

(* Their prefixes that a client may have seen.                             *)
LEMMA PrefixesOfAnswers ==
  ASSUME NEW q \in Kinds
  PROVE  /\ Web!IsPrefix(<< >>, Web!Answers[q]) /\ Web!IsPrefix(Web!Answers[q], Web!Answers[q])
         /\ q \in {"page", "empty", "program", "crashing"} =>
               Web!IsPrefix(<<"200">>, Web!Answers[q])
<1> USE DEF Web!IsPrefix
<1>1. CASE q \in {"page", "empty"}
  <2>1. Web!Answers[q] = <<"200", "body">>
    BY <1>1, AnswersAre
  <2> QED BY <1>1, <2>1
<1>2. CASE q \in {"unreadable", "notexec", "missing", "post"}
  <2>1. Web!Answers[q] = <<"403">> \/ Web!Answers[q] = <<"404">> \/ Web!Answers[q] = <<"501">>
    BY <1>2, AnswersAre
  <2> QED BY <1>2, <2>1
<1>3. CASE q = "program"
  <2>1. Web!Answers[q] = <<"200", "output">>
    BY <1>3, AnswersAre
  <2> QED BY <1>3, <2>1
<1>4. CASE q = "crashing"
  <2>1. Web!Answers[q] = <<"200">>
    BY <1>4, AnswersAre
  <2> QED BY <1>4, <2>1
<1> QED BY <1>1, <1>2, <1>3, <1>4 DEF Kinds

(* A client connects, posts a line, or leaves.                             *)
LEMMA BrowserKeeps ==
  ASSUME TinyInv, NEW c \in Browsers, Web!Browser(c)
  PROVE  TinyInv'
<1>1. /\ UNCHANGED <<tinyAt, conn, lineno, file, cgi, kind, holders, answer>>
      /\ browser' \in [Browsers -> {"idle", "backlog", "connected", "gone"}]
      /\ posted' \in [Browsers -> 0 .. 3]
      /\ \A b \in Browsers : posted[b] = 3 => posted'[b] = 3
      /\ \A b \in Browsers : browser'[b] \in {"idle", "backlog"} => browser[b] \in {"idle", "backlog"}
      /\ \A b \in Browsers : browser[b] \in {"connected", "gone"} => browser'[b] \in {"connected", "gone"}
  <2>1. CASE Web!Connect(c)
    BY <2>1 DEF Web!Connect, Web!serverVars, TinyInv, TinyTypes
  <2>2. CASE Web!SendLine(c)
    BY <2>2 DEF Web!SendLine, Web!serverVars, Web!RequestLines, TinyInv, TinyTypes
  <2>3. CASE Web!Leave(c)
    BY <2>3 DEF Web!Leave, Web!serverVars, TinyInv, TinyTypes
  <2> QED BY <2>1, <2>2, <2>3 DEF Web!Browser
<1>2. TinyTypes'
  BY <1>1 DEF TinyInv, TinyTypes
<1>3. OthersSettled'
  BY <1>1 DEF TinyInv, OthersSettled, Settled, Whole, AllPosted
<1>4. Holding'
  BY <1>1 DEF TinyInv, Holding
<1>5. ASSUME tinyAt' /= "accept" PROVE Pieces' /\ RightKind'
  <2>1. conn \in Browsers /\ Pieces /\ RightKind
    BY <1>1, <1>5 DEF TinyInv, Holding
  <2>2. Pieces'
    BY <1>1, <2>1 DEF Pieces, Whole
  <2>3. RightKind'
    BY <1>1, <2>1 DEF RightKind, AllPosted
  <2> QED BY <2>2, <2>3
<1> QED BY <1>2, <1>3, <1>4, <1>5 DEF TinyInv

(* A client that is accepted has nothing yet.                              *)
LEMMA AcceptKeeps ==
  ASSUME TinyInv, NEW c \in Browsers, Web!Accept(c)
  PROVE  TinyInv'
<1>1. /\ tinyAt = "accept" /\ tinyAt' = "request" /\ conn' = c /\ lineno' = 0
      /\ browser[c] = "backlog" /\ browser' = [browser EXCEPT ![c] = "connected"]
      /\ holders' = [holders EXCEPT ![c] = {"server"}]
      /\ UNCHANGED <<file, cgi, kind, posted, answer>>
  BY DEF Web!Accept, Web!Goes
<1>2. answer[c] = << >> /\ cgi = "none" /\ file = {}
  BY <1>1 DEF TinyInv, OthersSettled, Holding, TinyTypes
<1>3. TinyTypes'
  BY <1>1 DEF TinyInv, TinyTypes, TinyPlaces, Reading
<1>4. OthersSettled'
  BY <1>1 DEF TinyInv, OthersSettled, Settled, Whole, AllPosted, TinyTypes
<1>5. Holding'
  BY <1>1, <1>2 DEF TinyInv, TinyTypes, Holding
<1>6. Pieces' /\ RightKind'
  BY <1>1, <1>2 DEF Pieces, RightKind, Reading, StaticPlaces, DynamicPlaces
<1> QED BY <1>3, <1>4, <1>5, <1>6 DEF TinyInv

(* The server moves on with its client: what is left to show of a step     *)
(* that neither accepts nor closes.                                        *)
LEMMA ServesOn ==
  ASSUME TinyInv, tinyAt /= "accept", tinyAt' \in TinyPlaces \ {"accept"},
         UNCHANGED <<conn, kind, browser, posted>>, lineno' \in 0 .. 3,
         cgi' \in {"none", "running", "zombie"},
         \/ answer' = answer
         \/ \E piece : answer' = [answer EXCEPT ![conn] = Append(@, piece)],
         \/ holders' = holders
         \/ \E h : holders' = [holders EXCEPT ![conn] = h],
         Pieces', RightKind', Holding'
  PROVE  TinyInv'
<1>1. conn \in Browsers /\ browser[conn] \in {"connected", "gone"}
  BY DEF TinyInv, Holding
<1>2. TinyTypes'
  BY DEF TinyInv, TinyTypes
<1>3. \A c \in Browsers \ {conn} : answer'[c] = answer[c] /\ holders'[c] = holders[c]
  BY DEF TinyInv, TinyTypes
<1>4. OthersSettled'
  BY <1>1, <1>3 DEF TinyInv, OthersSettled, Settled, Whole, AllPosted
<1> QED BY <1>2, <1>4 DEF TinyInv

(* The steps that read the request and examine it.                         *)
LEMMA ReadingKeeps ==
  ASSUME TinyInv, Web!ReadRequest \/ Web!ReadHeader \/ Web!ReadFails \/ Web!Examine
  PROVE  TinyInv'
<1>1. /\ tinyAt \in Reading /\ UNCHANGED <<conn, file, cgi, kind, browser, posted, holders, answer>>
  BY DEF Web!ReadRequest, Web!ReadHeader, Web!ReadFails, Web!Examine, Web!clientVars, Web!Goes, Reading
<1>2. /\ conn \in Browsers /\ Pieces /\ RightKind /\ Holding /\ TinyTypes
      /\ cgi = "none" /\ file = {}
  BY <1>1 DEF TinyInv, Holding, Reading
<1>3. answer[conn] = << >> /\ kind[conn] \in Kinds /\ posted[conn] \in 0 .. 3
  BY <1>1, <1>2 DEF Pieces, TinyTypes
<1>4. CASE Web!ReadRequest
  <2>1. /\ tinyAt' \in {"clienterror", "headers", "close"} /\ lineno' \in 0 .. 3
        /\ tinyAt' = "headers" => kind[conn] /= "post" /\ lineno' = 1
        /\ tinyAt' = "clienterror" => kind[conn] = "post"
    BY <1>2, <1>4 DEF Web!ReadRequest, Web!Goes, TinyTypes
  <2>2. Pieces' /\ RightKind'
    BY <1>1, <1>3, <2>1 DEF Pieces, RightKind, Reading, StaticPlaces, DynamicPlaces, AllPosted
  <2>3. Holding'
    BY <1>1, <1>2, <2>1 DEF Holding, Reading
  <2> QED BY <1>1, <1>2, <2>1, <2>2, <2>3, ServesOn DEF TinyPlaces, Reading, TinyTypes
<1>5. CASE Web!ReadHeader
  BY <1>1, <1>2, <1>3, <1>5, ServesOn
     DEF Web!ReadHeader, Web!HasLine, Web!RequestLines, Web!clientVars, Pieces, RightKind, Holding,
         TinyPlaces, Reading, StaticPlaces, DynamicPlaces, AllPosted, TinyTypes
<1>6. CASE Web!Examine
  BY <1>1, <1>2, <1>3, <1>6, ServesOn
     DEF Web!Examine, Web!Fails, Web!Dynamic, Web!clientVars, Pieces, RightKind, Holding,
         TinyPlaces, Reading, StaticPlaces, DynamicPlaces, AllPosted, TinyTypes, Kinds
<1>7. CASE Web!ReadFails
  <2>1. tinyAt' = "exited" /\ lineno' = lineno
    BY <1>7 DEF Web!ReadFails
  <2>2. Pieces' /\ RightKind'
    BY <1>1, <1>3, <2>1 DEF Pieces, RightKind, Reading, StaticPlaces, DynamicPlaces
  <2>3. Holding'
    BY <1>1, <1>2, <2>1 DEF Holding, Reading
  <2>4. tinyAt /= "accept" /\ tinyAt' \in TinyPlaces \ {"accept"}
    BY <1>1, <2>1 DEF TinyPlaces, Reading
  <2>5. lineno' \in 0 .. 3 /\ cgi' \in {"none", "running", "zombie"}
    BY <1>1, <1>2, <2>1 DEF TinyTypes
  <2> QED BY <1>1, <2>2, <2>3, <2>4, <2>5, ServesOn
<1> QED BY <1>4, <1>5, <1>6, <1>7

(* A piece of the answer is written; if the client is gone the server may  *)
(* end there.                                                              *)
LEMMA WritesPiece ==
  ASSUME TinyInv, NEW piece, NEW from, NEW to, Web!Writes(piece, from, to)
  PROVE  /\ tinyAt = from /\ tinyAt' \in {to, "exited"}
         /\ answer' = [answer EXCEPT ![conn] = Append(@, piece)]
         /\ UNCHANGED <<conn, lineno, kind, browser, posted>>
         /\ from /= "accept" => /\ conn \in Browsers /\ kind[conn] \in Kinds
                                /\ answer'[conn] = Append(answer[conn], piece)
BY DEF Web!Writes, Web!Goes, Web!clientVars, TinyInv, Holding, TinyTypes

(* The steps that send an answer.                                          *)
LEMMA AnsweringKeeps ==
  ASSUME TinyInv, \/ Web!ClientError \/ Web!StaticHeaders \/ Web!StaticBody
                  \/ Web!DynamicHeaders
  PROVE  TinyInv'
<1>1. CASE Web!ClientError
  <2>1. /\ tinyAt = "clienterror" /\ tinyAt' \in {"close", "exited"}
        /\ answer' = [answer EXCEPT ![conn] = Append(@, Whole(conn)[1])]
        /\ answer'[conn] = Append(answer[conn], Whole(conn)[1])
        /\ UNCHANGED <<conn, lineno, kind, browser, posted, file, cgi, holders>>
    BY <1>1, WritesPiece DEF Web!ClientError, Whole
  <2>2. Pieces /\ RightKind /\ Holding /\ TinyTypes
    BY <2>1 DEF TinyInv
  <2>3. kind[conn] \in {"missing", "unreadable", "notexec", "post"} /\ answer[conn] = << >>
    BY <2>1, <2>2 DEF Pieces, RightKind
  <2>4. PICK status \in {"403", "404", "501"} : Whole(conn) = <<status>>
    BY <2>3, AnswersAre DEF Whole, Kinds
  <2>5. answer'[conn] = Whole(conn)
    <3>1. Whole(conn)[1] = status
      BY <2>4
    <3>2. answer'[conn] = Append(<< >>, status)
      BY <2>1, <2>3, <3>1
    <3> QED BY <2>4, <3>2
  <2>6. Pieces' /\ RightKind'
    BY <2>1, <2>2, <2>5 DEF Pieces, RightKind, Reading, StaticPlaces, DynamicPlaces, Whole, AllPosted
  <2>7. Holding'
    BY <2>1, <2>2 DEF Holding
  <2> QED BY <2>1, <2>2, <2>6, <2>7, ServesOn DEF TinyPlaces, TinyTypes
<1>2. CASE Web!StaticHeaders \/ Web!DynamicHeaders
  <2>1. /\ tinyAt \in {"static", "dynamic"}
        /\ tinyAt' \in {IF tinyAt = "static" THEN "open" ELSE "fork", "exited"}
        /\ answer' = [answer EXCEPT ![conn] = Append(@, "200")]
        /\ answer'[conn] = Append(answer[conn], "200")
        /\ UNCHANGED <<conn, lineno, kind, browser, posted, file, cgi, holders>>
    BY <1>2, WritesPiece DEF Web!StaticHeaders, Web!DynamicHeaders
  <2>2. Pieces /\ RightKind /\ Holding /\ TinyTypes
    BY <2>1 DEF TinyInv
  <2>3. answer[conn] = << >>
    BY <2>1, <2>2 DEF Pieces
  <2>4. answer'[conn] = <<"200">>
    BY <2>1, <2>3
  <2>5. Pieces' /\ RightKind'
    BY <2>1, <2>2, <2>4 DEF Pieces, RightKind, Reading, StaticPlaces, DynamicPlaces, Whole, AllPosted
  <2>6. Holding'
    BY <2>1, <2>2 DEF Holding
  <2> QED BY <2>1, <2>2, <2>5, <2>6, ServesOn DEF TinyPlaces, StaticPlaces, DynamicPlaces, TinyTypes
<1>3. CASE Web!StaticBody
  <2>1. /\ tinyAt = "body" /\ tinyAt' \in {"munmap", "exited"}
        /\ answer' = [answer EXCEPT ![conn] = Append(@, "body")]
        /\ answer'[conn] = Append(answer[conn], "body")
        /\ UNCHANGED <<conn, lineno, kind, browser, posted, file, cgi, holders>>
    BY <1>3, WritesPiece DEF Web!StaticBody
  <2>2. Pieces /\ RightKind /\ Holding /\ TinyTypes
    BY <2>1 DEF TinyInv
  <2>3. answer[conn] = <<"200">> /\ kind[conn] = "page"
    BY <2>1, <2>2 DEF Pieces, RightKind
  <2>4. Whole(conn) = <<"200", "body">>
    BY <2>3, AnswersAre DEF Whole, Kinds
  <2>5. answer'[conn] = Whole(conn)
    BY <2>1, <2>3, <2>4, AppendSecond
  <2>6. Pieces' /\ RightKind'
    BY <2>1, <2>2, <2>3, <2>5 DEF Pieces, RightKind, Reading, StaticPlaces, DynamicPlaces, Whole, AllPosted
  <2>7. Holding'
    BY <2>1, <2>2 DEF Holding
  <2> QED BY <2>1, <2>2, <2>6, <2>7, ServesOn DEF TinyPlaces, StaticPlaces, TinyTypes
<1> QED BY <1>1, <1>2, <1>3

(* The steps that open, map and unmap the file, and that start the child   *)
(* and wait for it.                                                        *)
LEMMA ResourcesKeep ==
  ASSUME TinyInv, \/ Web!OpenAndMap \/ Web!Unmap \/ Web!ForkProgram
                  \/ Web!WaitForProgram \/ Web!ProgramEnds
  PROVE  TinyInv'
<1>1. CASE Web!OpenAndMap
  <2>1. /\ tinyAt = "open" /\ tinyAt' = IF kind[conn] = "empty" THEN "exited" ELSE "body"
        /\ UNCHANGED <<conn, lineno, kind, browser, posted, cgi, holders, answer>>
    BY <1>1 DEF Web!OpenAndMap, Web!Goes, Web!clientVars
  <2>2. Pieces /\ RightKind /\ Holding /\ TinyTypes
    BY <2>1 DEF TinyInv
  <2>3. Pieces' /\ RightKind'
    BY <2>1, <2>2 DEF Pieces, RightKind, Reading, StaticPlaces, DynamicPlaces, Whole, AllPosted
  <2>4. Holding'
    BY <2>1, <2>2 DEF Holding
  <2> QED BY <2>1, <2>2, <2>3, <2>4, ServesOn DEF TinyPlaces, StaticPlaces, TinyTypes
<1>2. CASE Web!Unmap
  <2>1. /\ tinyAt = "munmap" /\ tinyAt' = "close" /\ file' = {}
        /\ UNCHANGED <<conn, lineno, kind, browser, posted, cgi, holders, answer>>
    BY <1>2 DEF Web!Unmap, Web!Goes, Web!clientVars
  <2>2. Pieces /\ RightKind /\ Holding /\ TinyTypes
    BY <2>1 DEF TinyInv
  <2>3. Pieces' /\ RightKind'
    BY <2>1, <2>2 DEF Pieces, RightKind, Reading, StaticPlaces, DynamicPlaces, Whole, AllPosted
  <2>4. Holding'
    BY <2>1, <2>2 DEF Holding
  <2> QED BY <2>1, <2>2, <2>3, <2>4, ServesOn DEF TinyPlaces, StaticPlaces, TinyTypes
<1>3. CASE Web!ForkProgram
  <2>1. /\ tinyAt = "fork" /\ tinyAt' = "wait" /\ cgi' = "running"
        /\ holders' = [holders EXCEPT ![conn] = @ \cup {"cgi"}]
        /\ UNCHANGED <<conn, lineno, file, kind, browser, posted, answer>>
    BY <1>3 DEF Web!ForkProgram, Web!Goes, Web!clientVars
  <2>2. Pieces /\ RightKind /\ Holding /\ TinyTypes
    BY <2>1 DEF TinyInv
  <2>3. Pieces' /\ RightKind'
    BY <2>1, <2>2 DEF Pieces, RightKind, Reading, StaticPlaces, DynamicPlaces, Whole, AllPosted
  <2>4. Holding'
    BY <2>1, <2>2 DEF Holding, TinyTypes
  <2> QED BY <2>1, <2>2, <2>3, <2>4, ServesOn DEF TinyPlaces, DynamicPlaces, TinyTypes
<1>4. CASE Web!WaitForProgram
  <2>1. /\ tinyAt = "wait" /\ tinyAt' = "close" /\ cgi = "zombie" /\ cgi' = "none"
        /\ UNCHANGED <<conn, lineno, file, kind, browser, posted, holders, answer>>
    BY <1>4 DEF Web!WaitForProgram, Web!Goes, Web!clientVars
  <2>2. Pieces /\ RightKind /\ Holding /\ TinyTypes
    BY <2>1 DEF TinyInv
  <2>3. Pieces' /\ RightKind'
    BY <2>1, <2>2 DEF Pieces, RightKind, Reading, StaticPlaces, DynamicPlaces, Whole, AllPosted
  <2>4. Holding'
    BY <2>1, <2>2 DEF Holding, TinyTypes
  <2> QED BY <2>1, <2>2, <2>3, <2>4, ServesOn DEF TinyPlaces, DynamicPlaces, TinyTypes
<1>5. CASE Web!ProgramEnds
  <2>1. /\ cgi = "running" /\ cgi' = "zombie"
        /\ holders' = [holders EXCEPT ![conn] = @ \ {"cgi"}]
        /\ answer' = IF kind[conn] = "program"
                     THEN [answer EXCEPT ![conn] = Append(@, "output")] ELSE answer
        /\ UNCHANGED <<tinyAt, conn, lineno, file, kind, browser, posted>>
    BY <1>5 DEF Web!ProgramEnds, Web!clientVars
  <2>2. /\ tinyAt = "wait" /\ Pieces /\ RightKind /\ Holding /\ TinyTypes /\ conn \in Browsers
        /\ answer[conn] = <<"200">> /\ kind[conn] \in {"program", "crashing"}
    BY <2>1 DEF TinyInv, Holding, Pieces, RightKind, DynamicPlaces
  <2>3. Whole(conn) = IF kind[conn] = "program" THEN <<"200", "output">> ELSE <<"200">>
    BY <2>2, AnswersAre DEF Whole, Kinds
  <2>4. answer'[conn] = IF kind[conn] = "program" THEN Append(answer[conn], "output")
                        ELSE answer[conn]
    BY <2>1, <2>2 DEF TinyTypes
  <2>5. answer'[conn] = Whole(conn)
    <3>1. Append(<<"200">>, "output") = <<"200", "output">>
      BY AppendSecond
    <3>2. Append(answer[conn], "output") = <<"200", "output">>
      BY <2>2, <3>1
    <3>3. CASE kind[conn] = "program"
      BY <2>3, <2>4, <3>2, <3>3, Zenon
    <3>4. CASE kind[conn] = "crashing"
      BY <2>2, <2>3, <2>4, <3>4
    <3> QED BY <2>2, <3>3, <3>4
  <2>6. Pieces' /\ RightKind'
    BY <2>1, <2>2, <2>5 DEF Pieces, RightKind, Reading, StaticPlaces, DynamicPlaces, Whole, AllPosted
  <2>7. Holding'
    BY <2>1, <2>2 DEF Holding, TinyTypes
  <2> QED BY <2>1, <2>2, <2>6, <2>7, ServesOn DEF TinyPlaces, DynamicPlaces, TinyTypes
<1> QED BY <1>1, <1>2, <1>3, <1>4, <1>5

(* When the connection is closed its client is settled too.                *)
LEMMA CloseKeeps ==
  ASSUME TinyInv, Web!CloseConnection
  PROVE  TinyInv'
<1>1. /\ tinyAt = "close" /\ tinyAt' = "accept"
      /\ holders' = [holders EXCEPT ![conn] = @ \ {"server"}]
      /\ UNCHANGED <<conn, lineno, file, cgi, kind, browser, posted, answer>>
  BY DEF Web!CloseConnection, Web!Goes, Web!clientVars
<1>2. /\ conn \in Browsers /\ holders[conn] = {"server"} /\ TinyTypes /\ cgi = "none"
      /\ answer[conn] = << >> \/ (answer[conn] = Whole(conn) /\ AllPosted(conn))
  BY <1>1 DEF TinyInv, Holding, Pieces, RightKind
<1>3. TinyTypes'
  BY <1>1 DEF TinyInv, TinyTypes, TinyPlaces
<1>4. OthersSettled'
  <2>1. \A c \in Browsers : holders'[c] = IF c = conn THEN {} ELSE holders[c]
    BY <1>1, <1>2 DEF TinyTypes
  <2> QED BY <1>1, <1>2, <2>1 DEF TinyInv, OthersSettled, Settled, Whole, AllPosted
<1>5. Holding'
  BY <1>1, <1>2 DEF TinyInv, Holding
<1> QED BY <1>1, <1>3, <1>4, <1>5 DEF TinyInv

(* Each client gets the answer to its own request, in order, after it has  *)
(* posted it, and all of it when the connection is closed; and between two *)
(* clients the server keeps nothing: for any number of clients with any    *)
(* requests, of whom any may leave (tiny.c:34-42).                         *)
THEOREM AnswersFitAlways == ProgramsSpec => []AnswersFit
<1>1. ProgramsInit => TinyInv
  BY DEF ProgramsInit, Web!Init, TinyInv, TinyTypes, TinyPlaces, OthersSettled, Settled, Holding,
         Web!Answers, Kinds, Web!Nobody
<1>2. TinyInv /\ [ProgramsNext]_programVars => TinyInv'
  <2>1. ASSUME TinyInv, UNCHANGED tinyVars PROVE TinyInv'
    BY <2>1 DEF TinyInv, TinyTypes, OthersSettled, Settled, Whole, AllPosted, Pieces, RightKind,
                Holding, tinyVars
  <2>2. ASSUME TinyInv, Web!Next PROVE TinyInv'
    BY <2>2, BrowserKeeps, AcceptKeeps, ReadingKeeps, AnsweringKeeps, ResourcesKeep, CloseKeeps
       DEF Web!Next, Web!Server
  <2> QED BY <2>1, <2>2, TinyStep
<1>3. TinyInv => AnswersFit
  <2> SUFFICES ASSUME TinyInv PROVE AnswersFit
    OBVIOUS
  <2>1. ASSUME NEW c \in Browsers
        PROVE  /\ Web!IsPrefix(answer[c], Web!Answers[kind[c]])
               /\ answer[c] /= << >> => posted[c] = 3 \/ kind[c] = "post"
               /\ (answer[c] /= << >> /\ holders[c] = {}) => answer[c] = Web!Answers[kind[c]]
    <3>1. kind[c] \in Kinds
      BY DEF TinyInv, TinyTypes
    <3>2. CASE Settled(c)
      BY <3>1, <3>2, PrefixesOfAnswers DEF Settled, Whole, AllPosted
    <3>3. CASE ~Settled(c)
      <4>1. tinyAt /= "accept" /\ c = conn /\ holders[c] /= {}
        BY <3>3 DEF TinyInv, OthersSettled, Holding
      <4>2. \/ answer[c] = << >> \/ answer[c] = Whole(c)
            \/ answer[c] = <<"200">> /\ kind[c] \in {"page", "empty", "program", "crashing"}
        BY <4>1 DEF TinyInv, TinyTypes, TinyPlaces, Pieces, RightKind, Reading, StaticPlaces, DynamicPlaces
      <4>3. answer[c] /= << >> => AllPosted(c)
        BY <4>1 DEF TinyInv, TinyTypes, TinyPlaces, Pieces, RightKind, Reading, StaticPlaces,
                    DynamicPlaces, AllPosted
      <4> QED BY <3>1, <4>1, <4>2, <4>3, PrefixesOfAnswers DEF Whole, AllPosted
    <3> QED BY <3>2, <3>3
  <2>2. Web!NothingKept
    BY DEF Web!NothingKept, TinyInv, TinyTypes, OthersSettled, Settled, Holding
  <2> QED BY <2>1, <2>2 DEF AnswersFit, Web!AnswersFit, Web!RequestLines
<1> QED BY <1>1, <1>2, <1>3, PTL DEF ProgramsSpec

--------------------------------------------------------------------------------
(* echoserverp.c and echoservert.c: a connection of its own for each worker *)

PeerPlaces == {"new", "entry", "read", "write", "close", "zombie", "gone"}
Processes == {ES!MainProcess} \cup ES!Workers

(* A worker holds a connection from its creation to its close: a thread    *)
(* first in the block that main gave it, then in its own connfd.           *)
Holds(w) == peer[w] \in {"entry", "read", "write", "close"}
FdOf(w) == IF peer[w] = "entry" THEN arg[w] ELSE fd[w]
Held(w) == table[ES!ProcessOf(w)][FdOf(w)]

EchoTypes == /\ server \in {"processes", "threads"} /\ mainAt \in {"accept", "start", "close", "exited"}
             /\ table \in [Processes -> [ES!Fds -> Clients \cup {ES!NoClient}]]
             /\ peer \in [ES!Workers -> PeerPlaces]
             /\ DOMAIN arg = ES!Workers /\ DOMAIN fd = ES!Workers /\ DOMAIN eBuf = ES!Workers
             /\ DOMAIN client = Clients /\ DOMAIN output = Clients

OwnLines == \A c \in Clients : output[c] \in Seq({c})

(* What is in a table was accepted. *)
Accepted == \A p \in Processes, d \in ES!Fds :
               table[p][d] /= ES!NoClient => client[table[p][d]] \in {"accepted", "closed"}

Holders == \A w \in ES!Workers :
             /\ Holds(w) => FdOf(w) \in ES!Fds /\ Held(w) \in Clients
             /\ peer[w] = "write" => eBuf[w] = Held(w)
             /\ server = "processes" => peer[w] /= "entry"

OnlyHolder == \A v, w \in ES!Workers : Holds(v) /\ Holds(w) /\ v /= w => Held(v) /= Held(w)

(* Between accept and the creation of the worker it is main's connection,  *)
(* and no worker's.                                                        *)
MainHolds == mainAt = "start" =>
               /\ connfd \in ES!Fds /\ table[ES!MainProcess][connfd] \in Clients
               /\ \A w \in ES!Workers : Holds(w) => Held(w) /= table[ES!MainProcess][connfd]

EchoInv == EchoTypes /\ OwnLines /\ Accepted /\ Holders /\ OnlyHolder /\ MainHolds

(* main is no worker, and NoClient no client.                              *)
LEMMA WorkersAre == ES!MainProcess \notin ES!Workers /\ ES!Fds \subseteq Nat /\ ES!NoClient \notin Clients
<1>1. ES!MainProcess \notin ES!Workers
  BY DEF ES!MainProcess, ES!Workers
<1>2. ES!Fds \subseteq Nat
  BY DEF ES!Fds
<1> QED BY <1>1, <1>2, ProgramsAssumption DEF ES!NoClient, ES!EchoAssumption

(* The clients only change what the server does not hold.                  *)
LEMMA ClientKeeps ==
  ASSUME EchoInv, NEW c \in Clients, ES!Client(c)
  PROVE  EchoInv'
<1>1. /\ UNCHANGED <<server, mainAt, connfd, table, peer, arg, fd, eBuf, output>>
      /\ DOMAIN client' = Clients
      /\ \A b \in Clients : client[b] \in {"accepted", "closed"} => client'[b] \in {"accepted", "closed"}
  BY DEF ES!Client, ES!Connect, ES!SendLine, ES!CloseClient, ES!serverVars, EchoInv, EchoTypes
<1>2. UNCHANGED <<ES!Workers, ES!Fds, ES!MainProcess, ES!NoClient>>
  BY DEF ES!Workers, ES!Fds, ES!MainProcess, ES!NoClient
<1>3. EchoTypes' /\ OwnLines' /\ Accepted'
  BY <1>1 DEF EchoInv, EchoTypes, OwnLines, Accepted, Processes
<1>4. Holders' /\ OnlyHolder' /\ MainHolds'
  BY <1>1 DEF EchoInv, Holders, OnlyHolder, MainHolds, Holds, Held, FdOf, ES!ProcessOf
<1> QED BY <1>3, <1>4 DEF EchoInv

(* main accepts: the descriptor was free, so no worker has it, and the     *)
(* client was not in any table.                                            *)
LEMMA EchoAcceptKeeps ==
  ASSUME EchoInv, NEW c \in Clients, ES!Accept(c)
  PROVE  EchoInv'
<1>1. /\ mainAt = "accept" /\ client[c] = "backlog"
      /\ client' = [client EXCEPT ![c] = "accepted"]
      /\ UNCHANGED <<server, peer, arg, fd, eBuf, output>>
  BY DEF ES!Accept
<1>2. EchoTypes /\ OwnLines /\ Accepted /\ Holders /\ OnlyHolder
  BY DEF EchoInv
<1>3. CASE ES!FreeFds(ES!MainProcess) = {}
  <2>1. mainAt' = "exited" /\ UNCHANGED <<connfd, table>>
    BY <1>3 DEF ES!Accept
  <2>2. EchoTypes' /\ OwnLines' /\ Accepted'
    BY <1>1, <1>2, <2>1 DEF EchoTypes, OwnLines, Accepted, Processes
  <2>3. Holders' /\ OnlyHolder' /\ MainHolds'
    BY <1>1, <1>2, <2>1 DEF Holders, OnlyHolder, MainHolds, Holds, Held, FdOf, ES!ProcessOf
  <2> QED BY <2>2, <2>3 DEF EchoInv
<1>4. CASE ES!FreeFds(ES!MainProcess) /= {}
  <2> DEFINE d == ES!Lowest(ES!FreeFds(ES!MainProcess))
  <2>1. /\ mainAt' = "start" /\ connfd' = d
        /\ table' = [table EXCEPT ![ES!MainProcess][d] = c]
    BY <1>4 DEF ES!Accept
  <2>2. d \in ES!Fds /\ table[ES!MainProcess][d] = ES!NoClient
    <3>1. ES!FreeFds(ES!MainProcess) \in SUBSET Nat
      BY WorkersAre DEF ES!FreeFds
    <3>2. \E f \in ES!FreeFds(ES!MainProcess) : \A e \in ES!FreeFds(ES!MainProcess) : f <= e
      BY <1>4, <3>1, LeastElement
    <3>3. d \in ES!FreeFds(ES!MainProcess)
      BY <3>2 DEF ES!Lowest
    <3> QED BY <3>3 DEF ES!FreeFds
  <2> HIDE DEF d
  <2>3. /\ table'[ES!MainProcess][d] = c
        /\ \A p \in Processes, e \in ES!Fds :
              table'[p][e] = table[p][e] \/ (p = ES!MainProcess /\ e = d)
    BY <1>2, <2>1, <2>2 DEF EchoTypes, Processes
  <2>4. EchoTypes'
    BY <1>1, <1>2, <2>1, <2>2 DEF EchoTypes, Processes
  <2>5. OwnLines' /\ Accepted'
    BY <1>1, <1>2, <2>3 DEF EchoTypes, OwnLines, Accepted, Processes
  <2>6. \A w \in ES!Workers : Holds(w) => /\ Holds(w)' /\ Held(w)' = Held(w) /\ Held(w) \in Clients
                                          /\ FdOf(w)' = FdOf(w) /\ FdOf(w) \in ES!Fds
                                          /\ Held(w) /= c
    <3> SUFFICES ASSUME NEW w \in ES!Workers, Holds(w)
                 PROVE  /\ Holds(w)' /\ Held(w)' = Held(w) /\ Held(w) \in Clients
                        /\ FdOf(w)' = FdOf(w) /\ FdOf(w) \in ES!Fds /\ Held(w) /= c
      OBVIOUS
    <3>1. FdOf(w) \in ES!Fds /\ Held(w) \in Clients /\ FdOf(w)' = FdOf(w) /\ Holds(w)'
      BY <1>1, <1>2 DEF Holders, FdOf, Holds
    <3>2. ES!ProcessOf(w) \in Processes /\ ES!ProcessOf(w)' = ES!ProcessOf(w)
      BY <1>1 DEF ES!ProcessOf, Processes
    <3>3. Held(w) /= ES!NoClient
      BY <3>1, WorkersAre
    <3>4. Held(w)' = Held(w)
      BY <2>2, <2>3, <3>1, <3>2, <3>3 DEF Held
    <3>5. client[Held(w)] \in {"accepted", "closed"}
      BY <1>2, <3>1, <3>2, <3>3 DEF Accepted, Held
    <3> QED BY <1>1, <3>1, <3>4, <3>5
  <2>7. Holders' /\ OnlyHolder'
    BY <1>1, <1>2, <2>6 DEF Holders, OnlyHolder, Holds
  <2>8. MainHolds'
    BY <1>1, <2>1, <2>2, <2>3, <2>6 DEF MainHolds, Holds
  <2> QED BY <2>4, <2>5, <2>7, <2>8 DEF EchoInv
<1> QED BY <1>3, <1>4

(* main forks a child, whose table is a copy of its own, or hands the      *)
(* block to a thread: the connection has its worker.                       *)
LEMMA HandOver ==
  ASSUME EchoInv, NEW w \in ES!Workers, ES!Fork(w) \/ ES!CreateThread(w)
  PROVE  EchoInv'
<1>1. /\ mainAt = "start" /\ mainAt' \in {"close", "accept"} /\ peer[w] = "new"
      /\ UNCHANGED <<server, connfd, eBuf, client, output>>
      /\ peer' = [peer EXCEPT ![w] = IF server = "processes" THEN "read" ELSE "entry"]
  BY DEF ES!Fork, ES!CreateThread, ES!Next1, ES!clientVars
<1>2. EchoTypes /\ OwnLines /\ Accepted /\ Holders /\ OnlyHolder
      /\ connfd \in ES!Fds /\ table[ES!MainProcess][connfd] \in Clients
      /\ \A v \in ES!Workers : Holds(v) => Held(v) /= table[ES!MainProcess][connfd]
  BY <1>1 DEF EchoInv, MainHolds
<1>3. \/ /\ server = "processes" /\ arg' = arg /\ fd' = [fd EXCEPT ![w] = connfd]
         /\ table' = [table EXCEPT ![w] = table[ES!MainProcess]]
      \/ /\ server = "threads" /\ fd' = fd /\ arg' = [arg EXCEPT ![w] = connfd] /\ table' = table
  BY DEF ES!Fork, ES!CreateThread, ES!clientVars
<1>4. EchoTypes'
  BY <1>1, <1>2, <1>3 DEF EchoTypes, PeerPlaces, Processes
<1>5. OwnLines' /\ Accepted'
  BY <1>1, <1>2, <1>3 DEF EchoTypes, OwnLines, Accepted, Processes
<1>6. \A v \in ES!Workers : v /= w =>
         /\ peer'[v] = peer[v] /\ Holds(v)' = Holds(v) /\ FdOf(v)' = FdOf(v)
         /\ Held(v)' = Held(v)
  BY <1>1, <1>2, <1>3, WorkersAre DEF EchoTypes, Holds, FdOf, Held, ES!ProcessOf, Processes
<1>7. /\ FdOf(w)' = connfd /\ Held(w)' = table[ES!MainProcess][connfd]
      /\ peer'[w] \in {"read", "entry"} /\ (server = "processes" => peer'[w] = "read")
  BY <1>1, <1>2, <1>3 DEF EchoTypes, FdOf, Held, ES!ProcessOf, Processes
<1>8. Holders'
  BY <1>1, <1>2, <1>6, <1>7 DEF Holders, Holds
<1>9. OnlyHolder'
  BY <1>1, <1>2, <1>6, <1>7 DEF OnlyHolder, Holds
<1>10. MainHolds'
  BY <1>1 DEF MainHolds
<1> QED BY <1>4, <1>5, <1>8, <1>9, <1>10 DEF EchoInv

(* A thread takes the descriptor out of its block.                         *)
LEMMA EntryKeeps ==
  ASSUME EchoInv, NEW w \in ES!Workers, ES!Entry(w)
  PROVE  EchoInv'
<1>1. /\ peer[w] = "entry" /\ peer' = [peer EXCEPT ![w] = "read"]
      /\ fd' = [fd EXCEPT ![w] = arg[w]] /\ DOMAIN arg' = DOMAIN arg
      /\ \A v \in ES!Workers : v /= w => arg'[v] = arg[v]
      /\ UNCHANGED <<server, mainAt, connfd, table, eBuf, client, output>>
  BY DEF ES!Entry, ES!clientVars, EchoInv, EchoTypes
<1>2. EchoTypes' /\ OwnLines' /\ Accepted'
  BY <1>1 DEF EchoInv, EchoTypes, OwnLines, Accepted, Processes, PeerPlaces
<1>3. \A v \in ES!Workers : Holds(v)' = Holds(v) /\ Held(v)' = Held(v) /\ FdOf(v)' = FdOf(v)
  BY <1>1 DEF EchoInv, EchoTypes, Holds, Held, FdOf, ES!ProcessOf
<1>4. Holders' /\ OnlyHolder' /\ MainHolds'
  BY <1>1, <1>3 DEF EchoInv, EchoTypes, Holders, OnlyHolder, MainHolds
<1> QED BY <1>2, <1>4 DEF EchoInv

(* A worker reads a line of its client.                                    *)
LEMMA EchoReadKeeps ==
  ASSUME EchoInv, NEW w \in ES!Workers, ES!Read(w)
  PROVE  EchoInv'
<1>1. /\ peer[w] = "read" /\ peer'[w] \in {"write", "close"}
      /\ peer' = [peer EXCEPT ![w] = peer'[w]]
      /\ DOMAIN eBuf' = DOMAIN eBuf /\ \A v \in ES!Workers : v /= w => eBuf'[v] = eBuf[v]
      /\ peer'[w] = "write" => eBuf'[w] = ES!ClientOf(w)
      /\ UNCHANGED <<server, mainAt, connfd, table, arg, fd, client, output>>
  BY DEF ES!Read, EchoInv, EchoTypes
<1>2. EchoTypes' /\ OwnLines' /\ Accepted'
  <2>1. peer' \in [ES!Workers -> PeerPlaces]
    BY <1>1 DEF EchoInv, EchoTypes, PeerPlaces
  <2> QED BY <1>1, <2>1 DEF EchoInv, EchoTypes, OwnLines, Accepted, Processes
<1>3. \A v \in ES!Workers : Holds(v)' = Holds(v) /\ Held(v)' = Held(v) /\ FdOf(v)' = FdOf(v)
  BY <1>1 DEF EchoInv, EchoTypes, Holds, Held, FdOf, ES!ProcessOf
<1>4. ES!ClientOf(w) = Held(w)
  BY <1>1 DEF ES!ClientOf, Held, FdOf
<1>5. Holders' /\ OnlyHolder' /\ MainHolds'
  BY <1>1, <1>3, <1>4 DEF EchoInv, EchoTypes, Holders, OnlyHolder, MainHolds
<1> QED BY <1>2, <1>5 DEF EchoInv

(* It writes the line back to the same client.                             *)
LEMMA EchoWriteKeeps ==
  ASSUME EchoInv, NEW w \in ES!Workers, ES!Write(w)
  PROVE  EchoInv'
<1>1. /\ peer[w] = "write" /\ peer' = [peer EXCEPT ![w] = "read"]
      /\ output' = [output EXCEPT ![ES!ClientOf(w)] = Append(@, eBuf[w])]
      /\ UNCHANGED <<server, mainAt, connfd, table, arg, fd, eBuf, client>>
  BY DEF ES!Write
<1>2. ES!ClientOf(w) = Held(w) /\ Held(w) \in Clients /\ eBuf[w] = Held(w)
  BY <1>1 DEF ES!ClientOf, Held, FdOf, EchoInv, Holders, Holds
<1>3. OwnLines'
  <2>1. output'[Held(w)] = Append(output[Held(w)], Held(w))
    BY <1>1, <1>2 DEF EchoInv, EchoTypes
  <2>2. output'[Held(w)] \in Seq({Held(w)})
    BY <1>2, <2>1, AppendProperties DEF EchoInv, OwnLines
  <2>3. \A c \in Clients : c /= Held(w) => output'[c] = output[c]
    BY <1>1, <1>2 DEF EchoInv, EchoTypes
  <2> QED BY <2>2, <2>3 DEF EchoInv, OwnLines
<1>4. EchoTypes' /\ Accepted'
  BY <1>1 DEF EchoInv, EchoTypes, Accepted, Processes, PeerPlaces
<1>5. \A v \in ES!Workers : Holds(v)' = Holds(v) /\ Held(v)' = Held(v) /\ FdOf(v)' = FdOf(v)
  BY <1>1 DEF EchoInv, EchoTypes, Holds, Held, FdOf, ES!ProcessOf
<1>6. Holders' /\ OnlyHolder' /\ MainHolds'
  BY <1>1, <1>5 DEF EchoInv, EchoTypes, Holders, OnlyHolder, MainHolds
<1> QED BY <1>3, <1>4, <1>6 DEF EchoInv

(* It closes its connection, which no other worker and not main has.       *)
LEMMA EchoCloseKeeps ==
  ASSUME EchoInv, NEW w \in ES!Workers, ES!CloseConnfd(w)
  PROVE  EchoInv'
<1>1. /\ peer[w] = "close" /\ peer'[w] \in {"zombie", "gone"}
      /\ peer' = [peer EXCEPT ![w] = peer'[w]]
      /\ UNCHANGED <<server, mainAt, connfd, arg, fd, eBuf, client, output>>
  BY DEF ES!CloseConnfd, ES!clientVars, EchoInv, EchoTypes
<1>2. EchoTypes /\ OwnLines /\ Accepted /\ Holders /\ OnlyHolder /\ MainHolds
  BY DEF EchoInv
<1>3. \/ server = "processes" /\ table' = [table EXCEPT ![w] = ES!NoTable]
      \/ server = "threads" /\ table' = [table EXCEPT ![ES!MainProcess][fd[w]] = ES!NoClient]
  BY <1>2 DEF ES!CloseConnfd, EchoTypes
<1>4. FdOf(w) = fd[w] /\ fd[w] \in ES!Fds /\ Holds(w)
  BY <1>1, <1>2 DEF FdOf, Holders, Holds
<1>5. EchoTypes'
  BY <1>1, <1>2, <1>3, <1>4 DEF EchoTypes, PeerPlaces, Processes, ES!NoTable
<1>6. \A p \in Processes, d \in ES!Fds : table'[p][d] = table[p][d] \/ table'[p][d] = ES!NoClient
  BY <1>2, <1>3, <1>4 DEF EchoTypes, Processes, ES!NoTable
<1>7. OwnLines' /\ Accepted'
  BY <1>1, <1>2, <1>6 DEF OwnLines, Accepted, Processes
<1>8. \A v \in ES!Workers : v /= w => peer'[v] = peer[v] /\ Holds(v)' = Holds(v) /\ FdOf(v)' = FdOf(v)
  BY <1>1, <1>2 DEF EchoTypes, Holds, FdOf
<1>9. \A v \in ES!Workers : v /= w /\ Holds(v) => Held(v)' = Held(v)
  <2> SUFFICES ASSUME NEW v \in ES!Workers, v /= w, Holds(v) PROVE Held(v)' = Held(v)
    OBVIOUS
  <2>1. FdOf(v)' = FdOf(v) /\ FdOf(v) \in ES!Fds /\ Held(v) /= Held(w)
    BY <1>2, <1>4, <1>8 DEF Holders, OnlyHolder
  <2>2. CASE server = "processes"
    BY <1>1, <1>2, <1>3, <2>1, <2>2 DEF Held, ES!ProcessOf, EchoTypes, Processes
  <2>3. CASE server = "threads"
    <3>1. FdOf(v) /= fd[w]
      BY <1>4, <2>1, <2>3 DEF Held, ES!ProcessOf
    <3> QED BY <1>1, <1>2, <1>3, <1>4, <2>1, <2>3, <3>1 DEF Held, ES!ProcessOf, EchoTypes, Processes
  <2> QED BY <1>2, <2>2, <2>3 DEF EchoTypes
<1>10. ~Holds(w)'
  BY <1>1 DEF Holds
<1>11. Holders' /\ OnlyHolder'
  BY <1>1, <1>2, <1>8, <1>9, <1>10 DEF Holders, OnlyHolder, Holds
<1>12. MainHolds'
  <2> SUFFICES ASSUME mainAt = "start"
               PROVE  /\ connfd \in ES!Fds /\ table'[ES!MainProcess][connfd] = table[ES!MainProcess][connfd]
    BY <1>1, <1>2, <1>8, <1>9, <1>10 DEF MainHolds
  <2>1. connfd \in ES!Fds /\ Held(w) /= table[ES!MainProcess][connfd]
    BY <1>2, <1>4 DEF MainHolds
  <2>2. server = "threads" => connfd /= fd[w]
    BY <1>4, <2>1 DEF Held, ES!ProcessOf
  <2> QED BY <1>2, <1>3, <1>4, <2>1, <2>2, WorkersAre DEF EchoTypes, Processes
<1> QED BY <1>5, <1>7, <1>11, <1>12 DEF EchoInv

(* The parent closes its copy, and the handler reaps.                      *)
LEMMA EchoMainKeeps ==
  ASSUME EchoInv, ES!ParentCloses \/ ES!Handler
  PROVE  EchoInv'
<1>1. /\ UNCHANGED <<server, connfd, arg, fd, eBuf, client, output>>
      /\ mainAt' = mainAt \/ mainAt' = "accept"
      /\ \/ table' = table
         \/ server = "processes" /\ table' = [table EXCEPT ![ES!MainProcess][connfd] = ES!NoClient]
            /\ mainAt' = "accept"
      /\ \/ peer' = peer
         \/ \E w \in ES!Workers : peer[w] = "zombie" /\ peer' = [peer EXCEPT ![w] = "gone"]
  BY DEF ES!ParentCloses, ES!Handler, ES!HandlerStarts, ES!Reap, ES!HandlerReturns, ES!clientVars
<1>2. EchoTypes /\ OwnLines /\ Accepted /\ Holders /\ OnlyHolder /\ MainHolds
  BY DEF EchoInv
<1>3. EchoTypes'
  BY <1>1, <1>2 DEF EchoTypes, PeerPlaces, Processes
<1>4. OwnLines' /\ Accepted'
  BY <1>1, <1>2 DEF EchoTypes, OwnLines, Accepted, Processes
<1>5. \A v \in ES!Workers : /\ Holds(v)' = Holds(v) /\ FdOf(v)' = FdOf(v) /\ Held(v)' = Held(v)
                            /\ peer'[v] = peer[v] \/ peer'[v] = "gone"
  BY <1>1, <1>2, WorkersAre DEF EchoTypes, Holds, FdOf, Held, ES!ProcessOf, Processes
<1>6. Holders' /\ OnlyHolder'
  BY <1>1, <1>2, <1>5 DEF Holders, OnlyHolder
<1>7. MainHolds'
  BY <1>1, <1>2, <1>5 DEF MainHolds
<1> QED BY <1>3, <1>4, <1>6, <1>7 DEF EchoInv

(* Every connection of echoserverp.c and echoservert.c has one child or    *)
(* thread, which sends each client its own lines, although main reuses     *)
(* connfd and the kernel the descriptors (echoserverp.c:37,                *)
(* echoservert.c:25), for any number of clients and descriptors.           *)
THEOREM ConnectionOwned == ProgramsSpec => []OwnConnection
<1>1. ProgramsInit => EchoInv
  BY WorkersAre DEF ProgramsInit, ES!Init, EchoInv, EchoTypes, OwnLines, Accepted, Holders, OnlyHolder,
     MainHolds, Holds, PeerPlaces, Processes, ES!NoTable
<1>2. EchoInv /\ [ProgramsNext]_programVars => EchoInv'
  <2>1. EchoInv /\ UNCHANGED echoVars => EchoInv'
    <3> SUFFICES ASSUME EchoInv, UNCHANGED echoVars PROVE EchoInv'
      OBVIOUS
    <3>1. \A v \in ES!Workers : Holds(v)' = Holds(v) /\ FdOf(v)' = FdOf(v) /\ Held(v)' = Held(v)
      BY DEF echoVars, Holds, FdOf, Held, ES!ProcessOf
    <3> QED BY <3>1 DEF echoVars, EchoInv, EchoTypes, OwnLines, Accepted, Holders, OnlyHolder, MainHolds
  <2>2. EchoInv /\ ES!Next => EchoInv'
    BY ClientKeeps, EchoAcceptKeeps, HandOver, EntryKeeps, EchoReadKeeps, EchoWriteKeeps, EchoCloseKeeps,
       EchoMainKeeps DEF ES!Next, ES!Main, ES!Worker
  <2> QED BY <2>1, <2>2, EchoStep
<1>3. EchoInv => OwnConnection
  <2> SUFFICES ASSUME EchoInv PROVE OwnConnection
    OBVIOUS
  <2>1. \A w \in ES!Workers : ES!Serves(w) => Holds(w) /\ ES!ClientOf(w) = Held(w)
    BY DEF ES!Serves, Holds, ES!ClientOf, Held, FdOf
  <2>2. \A c \in Clients : \A n \in 1 .. Len(output[c]) : output[c][n] = c
    <3> SUFFICES ASSUME NEW c \in Clients, NEW n \in 1 .. Len(output[c]) PROVE output[c][n] = c
      OBVIOUS
    <3>1. output[c] \in Seq({c})
      BY DEF EchoInv, OwnLines
    <3>2. output[c][n] \in {c}
      BY <3>1
    <3> QED BY <3>2
  <2> QED BY <2>1, <2>2, WorkersAre DEF EchoInv, OwnConnection, ES!OwnConnection, Holders, OnlyHolder
<1> QED BY <1>1, <1>2, <1>3, PTL DEF ProgramsSpec

--------------------------------------------------------------------------------
(* rw0.c to rw3.c: a writer is alone, for any number of readers and writers *)
(* and any N.                                                              *)

(* Where the threads of each solution can be. *)
CountingPcs == {"start", "count_in", "P_w", "V_mutex_in", "critical", "count_out", "V_w",
                "V_mutex_out"}
ReaderPcs == IF solution \in {"rw1", "rw2"} THEN CountingPcs ELSE {"start", "critical"}
WriterPcs == IF solution = "rw3" THEN {"start", "collect", "critical", "give"}
             ELSE IF solution = "rw2" THEN {"start", "P_w", "critical", "V_wg"}
             ELSE {"start", "critical"}

Positions == /\ \A r \in Readers : at[r] \in ReaderPcs
             /\ \A x \in Writers : at[x] \in WriterPcs
             /\ solution = "rw3" => \A x \in Writers : InCritical(x) => units[x] = N

(* A semaphore that starts at 1 is 0 while one thread, of the set S of     *)
(* those that could, has decremented it.                                   *)
AtMostOne(S) == \A t, u \in S : t = u
Locked(s, S) == AtMostOne(S) /\ sem[s] = IF S = {} THEN 1 ELSE 0

(* rw0.c: w is the lock of all threads. *)
Critical(threads) == {t \in threads : InCritical(t)}
LockInv == solution = "rw0" => Locked("w", Critical(RWThreads))

(* rw1.c, rw2.c: mutex guards readcnt, which counts the readers between    *)
(* the increment and the decrement; w is held by one writer or by the      *)
(* readers together, from the first one's P(&w) to the last one's V(&w).   *)
MutexHolders == {r \in Readers : at[r] \in {"count_in", "P_w", "V_mutex_in", "count_out",
                                            "V_w", "V_mutex_out"}}
Inside == {r \in Readers : at[r] \in {"P_w", "V_mutex_in", "critical", "count_out"}}
Group == {r \in Readers : at[r] \in {"V_mutex_in", "critical", "count_out", "V_w"}}

CountInv == /\ Locked("mutex", MutexHolders)
            /\ readcnt = Cardinality(Inside)
            /\ \A r \in Readers : /\ at[r] = "P_w" => Inside = {r}
                                  /\ at[r] = "V_w" => Inside = {}
            /\ AtMostOne(Critical(Writers))
            /\ Group = {} \/ Critical(Writers) = {}
            /\ sem["w"] = IF Group = {} /\ Critical(Writers) = {} THEN 1 ELSE 0
CountingInv == solution \in {"rw1", "rw2"} => CountInv

(* rw3.c: the N units are in the semaphore, with a reader, or with a       *)
(* writer; a unit that is out is a pair of its holder and a number.        *)
Tokens == {<<r, 1>> : r \in Critical(Readers)}
          \cup UNION {{<<x, num>> : num \in 1 .. units[x]} : x \in Writers}
UnitInv == /\ IsFiniteSet(Tokens)
           /\ sem["sem"] + Cardinality(Tokens) = N
UnitsInv == solution = "rw3" => UnitInv

RWInv == TypeOK /\ Positions /\ LockInv /\ CountingInv /\ UnitsInv

--------------------------------------------------------------------------------
(* Types and positions *)

(* Every step keeps the types, and each thread in the statements of its    *)
(* own solution.                                                           *)
LEMMA RWTypeStep == TypeOK /\ Positions /\ [Next]_rwVars => TypeOK' /\ Positions'
<1> SUFFICES ASSUME TypeOK, Positions, [Next]_rwVars PROVE TypeOK' /\ Positions'
  OBVIOUS
<1> USE RWAssumption DEF TypeOK, Semaphores, Solutions, RWThreads, Positions, ReaderPcs,
        WriterPcs, CountingPcs, InCritical
<1>1. ASSUME NEW r \in Readers, Reader(r) PROVE TypeOK' /\ Positions'
  <2>1. CASE solution \in {"rw0", "rw3"} /\ (SimpleReader(r, "w") \/ SimpleReader(r, "sem"))
    BY <2>1 DEF SimpleReader, P, V, Goes
  <2>2. CASE solution \in {"rw1", "rw2"} /\ CountingReader(r)
    BY <2>2 DEF CountingReader, CountIn, CountOut, P, V, Goes
  <2> QED BY <1>1, <2>1, <2>2 DEF Reader
<1>2. ASSUME NEW x \in Writers, Writer(x) PROVE TypeOK' /\ Positions'
  <2>1. CASE solution \in {"rw0", "rw1"} /\ SimpleWriter(x)
    BY <2>1 DEF SimpleWriter, P, V, Goes
  <2>2. CASE solution = "rw2" /\ GuardedWriter(x)
    BY <2>2 DEF GuardedWriter, P, V, Goes
  <2>3. CASE solution = "rw3" /\ CollectingWriter(x)
    <3>1. CASE P(x, "wmutex", "start", "collect") /\ UNCHANGED units
      BY <2>3, <3>1 DEF P, Goes
    <3>2. CASE /\ P(x, "sem", "collect", "collect") /\ ~HasAll(x)
               /\ units' = [units EXCEPT ![x] = @ + 1]
      BY <2>3, <3>2 DEF P, Goes, HasAll
    <3>3. CASE V(x, "wmutex", "collect", "critical") /\ HasAll(x) /\ UNCHANGED units
      BY <2>3, <3>3 DEF V, Goes, HasAll
    <3>4. CASE /\ V(x, "sem", "critical", "give")
               /\ units' = [units EXCEPT ![x] = @ - 1]
      BY <2>3, <3>4 DEF V, Goes
    <3>5. CASE /\ V(x, "sem", "give", "give") /\ units[x] > 0
               /\ units' = [units EXCEPT ![x] = @ - 1]
      BY <2>3, <3>5 DEF V, Goes
    <3>6. CASE Goes(x, "give", "start") /\ UNCHANGED <<solution, sem, readcnt, units>>
      BY <2>3, <3>6 DEF Goes
    <3> QED BY <2>3, <3>1, <3>2, <3>3, <3>4, <3>5, <3>6 DEF CollectingWriter
  <2> QED BY <1>2, <2>1, <2>2, <2>3 DEF Writer
<1>3. CASE UNCHANGED rwVars
  BY <1>3 DEF rwVars
<1> QED BY <1>1, <1>2, <1>3 DEF Next

--------------------------------------------------------------------------------
(* rw0.c *)

(* A step of rw0.c keeps the count of w: one thread has it, or it is 1.    *)
LEMMA LockStep ==
  TypeOK /\ Positions /\ LockInv /\ [Next]_rwVars => LockInv'
<1> SUFFICES ASSUME TypeOK, Positions, LockInv, [Next]_rwVars, solution' = "rw0"
             PROVE  Locked("w", Critical(RWThreads))'
  BY DEF LockInv
<1> USE DEF LockInv, Locked, AtMostOne, Critical, InCritical, TypeOK, Semaphores, RWThreads
<1>1. ASSUME NEW t \in RWThreads, solution = "rw0",
             P(t, "w", "start", "critical") \/ V(t, "w", "critical", "start")
      PROVE  Locked("w", Critical(RWThreads))'
  <2>1. CASE P(t, "w", "start", "critical")
    <3>1. Critical(RWThreads) = {} /\ Critical(RWThreads)' = {t}
      BY <1>1, <2>1 DEF P, Goes
    <3> QED BY <2>1, <3>1 DEF P
  <2>2. CASE V(t, "w", "critical", "start")
    <3>1. Critical(RWThreads) = {t} /\ Critical(RWThreads)' = {}
      BY <1>1, <2>2 DEF V, Goes
    <3> QED BY <1>1, <2>2, <3>1 DEF V
  <2> QED BY <1>1, <2>1, <2>2
<1>2. ASSUME NEW r \in Readers, Reader(r) PROVE Locked("w", Critical(RWThreads))'
  <2>1. solution = "rw0"
    BY <1>2 DEF Reader, SimpleReader, CountingReader, CountIn, CountOut, P, V
  <2> QED BY <1>1, <1>2, <2>1 DEF Reader, SimpleReader
<1>3. ASSUME NEW x \in Writers, Writer(x) PROVE Locked("w", Critical(RWThreads))'
  <2>1. solution = "rw0"
    BY <1>3 DEF Writer, SimpleWriter, GuardedWriter, CollectingWriter, P, V
  <2> QED BY <1>1, <1>3, <2>1 DEF Writer, SimpleWriter
<1>4. CASE UNCHANGED rwVars
  BY <1>4 DEF rwVars
<1> QED BY <1>2, <1>3, <1>4 DEF Next

--------------------------------------------------------------------------------
(* rw3.c *)

(* A step of rw3.c keeps the sum: the units that writers and readers hold  *)
(* and those in sem are N.                                                 *)
LEMMA UnitsStep ==
  TypeOK /\ Positions /\ UnitsInv /\ [Next]_rwVars => UnitsInv'
<1> SUFFICES ASSUME TypeOK, Positions, UnitsInv, [Next]_rwVars, solution' = "rw3"
             PROVE  UnitInv'
  BY DEF UnitsInv
<1> USE RWAssumption DEF TypeOK, Semaphores, RWThreads
<1>1. solution = "rw3" => UnitInv
  BY DEF UnitsInv
<1>2. ASSUME UnitInv, Tokens' = Tokens, sem'["sem"] = sem["sem"] PROVE UnitInv'
  BY <1>2 DEF UnitInv
<1>3. ASSUME UnitInv, NEW e, e \notin Tokens, Tokens' = Tokens \cup {e},
             sem'["sem"] = sem["sem"] - 1
      PROVE  UnitInv'
  <2>1. IsFiniteSet(Tokens') /\ Cardinality(Tokens') = Cardinality(Tokens) + 1
    BY <1>3, FS_AddElement DEF UnitInv
  <2>2. Cardinality(Tokens) \in Nat
    BY <1>3, FS_CardinalityType DEF UnitInv
  <2> QED BY <1>3, <2>1, <2>2 DEF UnitInv
<1>4. ASSUME UnitInv, NEW e \in Tokens, Tokens' = Tokens \ {e},
             sem'["sem"] = sem["sem"] + 1
      PROVE  UnitInv'
  <2>1. IsFiniteSet(Tokens') /\ Cardinality(Tokens') = Cardinality(Tokens) - 1
    BY <1>4, FS_RemoveElement DEF UnitInv
  <2>2. Cardinality(Tokens) \in Nat
    BY <1>4, FS_CardinalityType DEF UnitInv
  <2> QED BY <1>4, <2>1, <2>2 DEF UnitInv
<1>5. ASSUME NEW r \in Readers, Reader(r) PROVE UnitInv'
  <2>1. solution = "rw3" /\ SimpleReader(r, "sem")
    BY <1>5 DEF Reader, SimpleReader, CountingReader, CountIn, CountOut, P, V
  <2> DEFINE taken == UNION {{<<x, num>> : num \in 1 .. units[x]} : x \in Writers}
  <2>2. taken' = taken /\ <<r, 1>> \notin taken
    BY <2>1 DEF SimpleReader
  <2>3. CASE P(r, "sem", "start", "critical")
    <3>1. Critical(Readers)' = Critical(Readers) \cup {r} /\ r \notin Critical(Readers)
      BY <2>3 DEF P, Goes, Critical, InCritical
    <3> HIDE DEF taken
    <3>2. Tokens' = Tokens \cup {<<r, 1>>} /\ <<r, 1>> \notin Tokens
      BY <2>2, <3>1 DEF Tokens, taken
    <3>3. sem'["sem"] = sem["sem"] - 1
      BY <2>3 DEF P
    <3> QED BY <1>1, <1>3, <2>1, <3>2, <3>3
  <2>4. CASE V(r, "sem", "critical", "start")
    <3>1. Critical(Readers)' = Critical(Readers) \ {r} /\ r \in Critical(Readers)
      BY <2>4 DEF V, Goes, Critical, InCritical
    <3> HIDE DEF taken
    <3>2. Tokens' = Tokens \ {<<r, 1>>} /\ <<r, 1>> \in Tokens
      BY <2>2, <3>1 DEF Tokens, taken
    <3>3. sem'["sem"] = sem["sem"] + 1
      BY <2>4 DEF V
    <3> QED BY <1>1, <1>4, <2>1, <3>2, <3>3
  <2> QED BY <2>1, <2>3, <2>4 DEF SimpleReader
<1>6. ASSUME NEW x \in Writers, Writer(x) PROVE UnitInv'
  <2>1. solution = "rw3" /\ CollectingWriter(x)
    BY <1>6 DEF Writer, SimpleWriter, GuardedWriter, P, V
  <2>2. Critical(Readers)' = Critical(Readers)
    BY <2>1 DEF CollectingWriter, P, V, Goes, Critical, InCritical
  <2>3. CASE UNCHANGED units /\ sem'["sem"] = sem["sem"]
    <3>1. Tokens' = Tokens
      BY <2>2, <2>3 DEF Tokens
    <3> QED BY <1>1, <1>2, <2>1, <2>3, <3>1
  <2>4. CASE units' = [units EXCEPT ![x] = @ + 1] /\ sem'["sem"] = sem["sem"] - 1
    <3>1. Tokens' = Tokens \cup {<<x, units[x] + 1>>} /\ <<x, units[x] + 1>> \notin Tokens
      BY <2>2, <2>4 DEF Tokens, Critical
    <3> QED BY <1>1, <1>3, <2>1, <2>4, <3>1
  <2>5. CASE /\ units[x] > 0 /\ units' = [units EXCEPT ![x] = @ - 1]
             /\ sem'["sem"] = sem["sem"] + 1
    <3>1. Tokens' = Tokens \ {<<x, units[x]>>} /\ <<x, units[x]>> \in Tokens
      BY <2>2, <2>5 DEF Tokens, Critical
    <3> QED BY <1>1, <1>4, <2>1, <2>5, <3>1
  <2>6. V(x, "sem", "critical", "give") => units[x] > 0
    BY <2>1 DEF Positions, InCritical, V, Goes
  <2> QED BY <2>1, <2>3, <2>4, <2>5, <2>6 DEF CollectingWriter, P, V, Goes
<1>7. CASE UNCHANGED rwVars
  <2>1. solution = "rw3" /\ Tokens' = Tokens /\ sem' = sem
    BY <1>7 DEF rwVars, Tokens, Critical, InCritical
  <2> QED BY <1>1, <1>2, <2>1
<1> QED BY <1>5, <1>6, <1>7 DEF Next

--------------------------------------------------------------------------------
(* rw1.c and rw2.c *)

(* The readers between the two counts are finitely many.                   *)
LEMMA InsideFinite ==
  IsFiniteSet(Inside) /\ Cardinality(Inside) \in Nat /\ (Cardinality(Inside) = 0 <=> Inside = {})
<1>1. Inside \in SUBSET Readers /\ IsFiniteSet(Readers)
  BY RWAssumption DEF Inside
<1> QED BY <1>1, FS_Subset, FS_CardinalityType, FS_EmptySet

(* A reader moves, and the writers stay where they are. *)
LEMMA CountingReaderStep ==
  ASSUME TypeOK, Positions, solution \in {"rw1", "rw2"}, CountInv,
         NEW r \in Readers, CountingReader(r)
  PROVE  CountInv'
<1> USE RWAssumption DEF TypeOK, Semaphores, RWThreads, Locked, AtMostOne, MutexHolders,
        Inside, Group
<1>0. Critical(Writers)' = Critical(Writers)
  BY DEF CountingReader, CountIn, CountOut, P, V, Goes, Critical, InCritical
<1> HIDE DEF TypeOK
<1>at. at \in [RWThreads -> {"start", "count_in", "P_w", "V_mutex_in", "critical",
                             "count_out", "V_w", "V_mutex_out", "V_wg", "collect", "give"}]
       /\ sem \in [Semaphores -> Nat]
  BY DEF TypeOK
<1>1. CASE P(r, "mutex", "start", "count_in")
  <2>1. /\ MutexHolders = {} /\ MutexHolders' = {r}
        /\ Inside' = Inside /\ Group' = Group
    BY <1>1, <1>at DEF P, Goes, CountInv
  <2> QED BY <1>0, <1>1, <1>at, <2>1 DEF P, Goes, CountInv
<1>2. CASE CountIn(r)
  <2>1. /\ MutexHolders = {r} /\ MutexHolders' = {r}
        /\ Inside' = Inside \cup {r} /\ r \notin Inside
    BY <1>2, <1>at DEF CountIn, Goes, CountInv
  <2>2. Cardinality(Inside') = Cardinality(Inside) + 1
    <3> HIDE DEF Inside
    <3> QED BY <2>1, InsideFinite, FS_AddElement
  <2>3. readcnt + 1 = 1 <=> Inside = {}
    BY InsideFinite DEF CountInv
  <2>4. Inside = {} => Group' = Group
    BY <1>2, <1>at, <2>3 DEF CountIn, Goes
  <2>5. Inside /= {} => Group' = Group \cup {r} /\ Group /= {}
    BY <1>2, <1>at, <2>1, <2>3 DEF CountIn, Goes, CountInv
  <2> QED BY <1>0, <1>2, <1>at, <2>1, <2>2, <2>3, <2>4, <2>5 DEF CountIn, Goes, CountInv
<1>3. CASE P(r, "w", "P_w", "V_mutex_in")
  <2>1. /\ MutexHolders = {r} /\ MutexHolders' = {r}
        /\ Inside = {r} /\ Inside' = {r}
        /\ Group' = {r}
    BY <1>3, <1>at DEF P, Goes, CountInv
  <2> QED BY <1>0, <1>3, <1>at, <2>1 DEF P, Goes, CountInv
<1>4. CASE V(r, "mutex", "V_mutex_in", "critical")
  <2>1. /\ MutexHolders = {r} /\ MutexHolders' = {}
        /\ Inside' = Inside /\ Group' = Group
    BY <1>4, <1>at DEF V, Goes, CountInv
  <2> QED BY <1>0, <1>4, <1>at, <2>1 DEF V, Goes, CountInv
<1>5. CASE P(r, "mutex", "critical", "count_out")
  <2>1. /\ MutexHolders = {} /\ MutexHolders' = {r}
        /\ Inside' = Inside /\ Group' = Group
    BY <1>5, <1>at DEF P, Goes, CountInv
  <2> QED BY <1>0, <1>5, <1>at, <2>1 DEF P, Goes, CountInv
<1>6. CASE CountOut(r)
  <2>1. /\ MutexHolders = {r} /\ MutexHolders' = {r}
        /\ Inside' = Inside \ {r} /\ r \in Inside
    BY <1>6, <1>at DEF CountOut, Goes, CountInv
  <2>2. Cardinality(Inside') = Cardinality(Inside) - 1 /\ IsFiniteSet(Inside')
    <3> HIDE DEF Inside
    <3> QED BY <2>1, InsideFinite, FS_RemoveElement
  <2>3. readcnt - 1 = 0 <=> Inside' = {}
    BY <2>2, InsideFinite, FS_EmptySet DEF CountInv
  <2>4. Inside' = {} => Group = {r} /\ Group' = {r}
    BY <1>6, <1>at, <2>1, <2>3 DEF CountOut, Goes, CountInv
  <2>5. Inside' /= {} => Group' /= {} /\ Group /= {}
    BY <1>6, <1>at, <2>1, <2>3 DEF CountOut, Goes, CountInv
  <2> QED BY <1>0, <1>6, <1>at, <2>1, <2>2, <2>3, <2>4, <2>5 DEF CountOut, Goes, CountInv
<1>7. CASE V(r, "w", "V_w", "V_mutex_out")
  <2>1. /\ MutexHolders = {r} /\ MutexHolders' = {r}
        /\ Inside = {} /\ Inside' = {}
        /\ Group = {r} /\ Group' = {}
    BY <1>7, <1>at DEF V, Goes, CountInv
  <2> QED BY <1>0, <1>7, <1>at, <2>1 DEF V, Goes, CountInv
<1>8. CASE V(r, "mutex", "V_mutex_out", "start")
  <2>1. /\ MutexHolders = {r} /\ MutexHolders' = {}
        /\ Inside' = Inside /\ Group' = Group
    BY <1>8, <1>at DEF V, Goes, CountInv
  <2> QED BY <1>0, <1>8, <1>at, <2>1 DEF V, Goes, CountInv
<1> QED BY <1>1, <1>2, <1>3, <1>4, <1>5, <1>6, <1>7, <1>8 DEF CountingReader

(* A writer moves, and the readers stay where they are. *)
LEMMA CountingWriterStep ==
  ASSUME TypeOK, Positions, solution \in {"rw1", "rw2"}, CountInv,
         NEW x \in Writers, SimpleWriter(x) \/ GuardedWriter(x)
  PROVE  CountInv'
<1>at. at \in [RWThreads -> {"start", "count_in", "P_w", "V_mutex_in", "critical",
                             "count_out", "V_w", "V_mutex_out", "V_wg", "collect", "give"}]
       /\ sem \in [Semaphores -> Nat]
  BY DEF TypeOK
<1> USE RWAssumption DEF Semaphores, RWThreads, Locked, AtMostOne
<1>1. \A r \in Readers : at'[r] = at[r]
  BY <1>at DEF SimpleWriter, GuardedWriter, P, V, Goes
<1>2. /\ MutexHolders' = MutexHolders /\ Inside' = Inside /\ Group' = Group
      /\ readcnt' = readcnt /\ sem'["mutex"] = sem["mutex"]
  BY <1>1, <1>at DEF MutexHolders, Inside, Group, SimpleWriter, GuardedWriter, P, V
<1>3. ASSUME NEW from \in {"start", "P_w"}, P(x, "w", from, "critical") PROVE CountInv'
  <2>1. Critical(Writers) = {} /\ Group = {} /\ Critical(Writers)' = {x}
    BY <1>3, <1>at DEF P, Goes, CountInv, Critical, InCritical
  <2> QED BY <1>1, <1>2, <1>3, <1>at, <2>1 DEF P, CountInv
<1>4. ASSUME NEW to \in {"start", "V_wg"}, V(x, "w", "critical", to) PROVE CountInv'
  <2>1. Critical(Writers) = {x} /\ Group = {} /\ Critical(Writers)' = {}
    BY <1>4, <1>at DEF V, Goes, CountInv, Critical, InCritical
  <2> QED BY <1>1, <1>2, <1>4, <1>at, <2>1 DEF V, CountInv
<1>5. CASE P(x, "wg", "start", "P_w") \/ V(x, "wg", "V_wg", "start")
  <2>1. Critical(Writers)' = Critical(Writers) /\ sem'["w"] = sem["w"]
    BY <1>5, <1>at DEF P, V, Goes, Critical, InCritical
  <2> QED BY <1>1, <1>2, <1>at, <2>1 DEF CountInv
<1> QED BY <1>3, <1>4, <1>5 DEF SimpleWriter, GuardedWriter

(* A step of rw1.c or rw2.c keeps the link of readcnt, mutex and w.        *)
LEMMA CountingStep ==
  TypeOK /\ Positions /\ CountingInv /\ [Next]_rwVars => CountingInv'
<1> SUFFICES ASSUME TypeOK, Positions, CountingInv, [Next]_rwVars,
                    solution' \in {"rw1", "rw2"}
             PROVE  CountInv'
  BY DEF CountingInv
<1>1. ASSUME NEW r \in Readers, Reader(r) PROVE CountInv'
  <2>1. solution \in {"rw1", "rw2"} /\ CountingReader(r)
    BY <1>1 DEF Reader, SimpleReader, CountingReader, CountIn, CountOut, P, V
  <2> QED BY <2>1, CountingReaderStep DEF CountingInv
<1>2. ASSUME NEW x \in Writers, Writer(x) PROVE CountInv'
  <2>1. solution \in {"rw1", "rw2"} /\ (SimpleWriter(x) \/ GuardedWriter(x))
    BY <1>2 DEF Writer, SimpleWriter, GuardedWriter, CollectingWriter, P, V, Goes
  <2> QED BY <2>1, CountingWriterStep DEF CountingInv
<1>3. CASE UNCHANGED rwVars
  BY <1>3 DEF rwVars, CountingInv, CountInv, Locked, AtMostOne, MutexHolders, Inside, Group,
              Critical, InCritical
<1> QED BY <1>1, <1>2, <1>3 DEF Next

--------------------------------------------------------------------------------
(* The theorems *)

(* The invariant holds at the start. *)
LEMMA RWInit == Init => RWInv
<1> SUFFICES ASSUME Init PROVE RWInv
  OBVIOUS
<1> USE RWAssumption DEF Init, RWThreads, InitialValue, Semaphores
<1>1. TypeOK /\ Positions
  BY DEF TypeOK, Positions, ReaderPcs, WriterPcs, CountingPcs, Solutions, InCritical
<1>2. LockInv
  BY DEF LockInv, Locked, AtMostOne, Critical, InCritical
<1>3. CountingInv
  <2>1. MutexHolders = {} /\ Inside = {} /\ Group = {} /\ Critical(Writers) = {}
    BY DEF MutexHolders, Inside, Group, Critical, InCritical
  <2> QED BY <2>1, FS_EmptySet DEF CountingInv, CountInv, Locked, AtMostOne, Inside
<1>4. UnitsInv
  <2>1. Tokens = {}
    BY DEF Tokens, Critical, InCritical
  <2> QED BY <2>1, FS_EmptySet DEF UnitsInv, UnitInv
<1> QED BY <1>1, <1>2, <1>3, <1>4 DEF RWInv

(* Every step keeps the invariant. *)
LEMMA RWStep == RWInv /\ [Next]_rwVars => RWInv'
BY RWTypeStep, LockStep, CountingStep, UnitsStep DEF RWInv

(* A writer in the critical section of rw3.c has all N units. *)
LEMMA WriterHasAll ==
  ASSUME TypeOK, Positions, UnitInv, solution = "rw3",
         NEW x \in Writers, InCritical(x), NEW e \in Tokens
  PROVE  e \in {<<x, num>> : num \in 1 .. N}
<1> SUFFICES ASSUME e \notin {<<x, num>> : num \in 1 .. N} PROVE FALSE
  OBVIOUS
<1> DEFINE others == Tokens \ {e}
           f == [num \in 1 .. N |-> <<x, num>>]
<1>1. units[x] = N
  BY DEF Positions
<1>2. f \in Injection(1 .. N, others)
  BY <1>1 DEF Tokens, Injection, IsInjective
<1>3. IsFiniteSet(others) /\ Cardinality(others) = Cardinality(Tokens) - 1
  BY FS_RemoveElement DEF UnitInv
<1>4. Cardinality(1 .. N) <= Cardinality(others)
  <2> HIDE DEF f, others
  <2> QED BY <1>2, <1>3, FS_Injection
<1>5. Cardinality(1 .. N) = N
  BY RWAssumption, FS_Interval
<1>6. Cardinality(Tokens) \in Nat /\ Cardinality(Tokens) <= N
  BY FS_CardinalityType, RWAssumption DEF UnitInv, TypeOK, Semaphores
<1> QED BY <1>3, <1>4, <1>5, <1>6, RWAssumption

(* The invariant leaves a writer in its critical section alone. *)
LEMMA RWExclusion == RWInv => Exclusion
<1> SUFFICES ASSUME RWInv, NEW x \in Writers, InCritical(x),
                    NEW t \in RWThreads \ {x}, InCritical(t)
             PROVE  FALSE
  BY DEF Exclusion
<1>1. CASE solution = "rw0"
  BY <1>1 DEF RWInv, LockInv, Locked, AtMostOne, Critical, RWThreads
<1>2. CASE solution \in {"rw1", "rw2"}
  BY <1>2 DEF RWInv, CountingInv, CountInv, AtMostOne, Critical, InCritical, Group, RWThreads
<1>3. CASE solution = "rw3"
  <2>1. <<t, 1>> \in Tokens
    <3>1. CASE t \in Readers
      BY <3>1 DEF Tokens, Critical
    <3>2. CASE t \in Writers
      <4>1. units[t] = N
        BY <1>3, <3>2 DEF RWInv, Positions
      <4> QED BY <3>2, <4>1, RWAssumption DEF Tokens
    <3> QED BY <3>1, <3>2 DEF RWThreads
  <2>2. <<t, 1>> \in {<<x, num>> : num \in 1 .. N}
    BY <1>3, <2>1, WriterHasAll DEF RWInv, UnitsInv
  <2> QED BY <2>2
<1> QED BY <1>1, <1>2, <1>3 DEF RWInv, TypeOK, Solutions

(* A writer is alone in its critical section, in each of rw0.c to rw3.c,   *)
(* with any number of readers and writers and any N.                       *)
THEOREM WriterIsAlone == Spec => []Exclusion
<1>1. Spec => []RWInv
  BY RWInit, RWStep, PTL DEF Spec
<1> QED BY <1>1, RWExclusion, PTL

(* The semaphores are never negative and a writer of rw3.c never holds     *)
(* more than N units.                                                      *)
THEOREM ReadersWritersType == Spec => []TypeOK
<1>1. RWInv => TypeOK
  BY DEF RWInv
<1> QED BY <1>1, RWInit, RWStep, PTL DEF Spec

--------------------------------------------------------------------------------
(* The threads of rw0.c to rw3.c never all wait for one another.           *)

(* Where a thread stands before a P(&s). *)
WaitsFor(t, s) ==
    \/ solution = "rw0" /\ at[t] = "start" /\ s = "w"
    \/ /\ solution \in {"rw1", "rw2"} /\ t \in Readers
       /\ \/ at[t] \in {"start", "critical"} /\ s = "mutex"
          \/ at[t] = "P_w" /\ s = "w"
    \/ solution = "rw1" /\ t \in Writers /\ at[t] = "start" /\ s = "w"
    \/ /\ solution = "rw2" /\ t \in Writers
       /\ (at[t] = "start" /\ s = "wg") \/ (at[t] = "P_w" /\ s = "w")
    \/ solution = "rw3" /\ t \in Readers /\ at[t] = "start" /\ s = "sem"
    \/ /\ solution = "rw3" /\ t \in Writers
       /\ \/ at[t] = "start" /\ s = "wmutex"
          \/ at[t] = "collect" /\ ~HasAll(t) /\ s = "sem"

Stuck(t) == \E s \in Semaphores : WaitsFor(t, s) /\ sem[s] = 0

(* rw2.c: wg is the lock of the writer that is next at w or past it.       *)
(* rw3.c: wmutex is the lock of the writer that collects, and no other has *)
(* a part of the units that it still means to keep.                        *)
Queued == {x \in Writers : at[x] /= "start"}
Collecting == {x \in Writers : at[x] = "collect"}
QueueInv == /\ solution = "rw2" => Locked("wg", Queued)
            /\ solution = "rw3" => /\ Locked("wmutex", Collecting)
                                   /\ \A x \in Writers : at[x] = "start" => units[x] = 0

(* A step of rw2.c keeps the lock of wg. *)
LEMMA GuardStep ==
  ASSUME TypeOK, Positions, solution = "rw2", Locked("wg", Queued),
         NEW t \in RWThreads,
         (CountingReader(t) /\ t \in Readers) \/ (GuardedWriter(t) /\ t \in Writers)
  PROVE  Locked("wg", Queued)'
<1>at. at \in [RWThreads -> {"start", "count_in", "P_w", "V_mutex_in", "critical",
                             "count_out", "V_w", "V_mutex_out", "V_wg", "collect", "give"}]
       /\ sem \in [Semaphores -> Nat]
  BY DEF TypeOK
<1> USE RWAssumption DEF Semaphores, RWThreads, Locked, AtMostOne, Queued
<1>1. CASE t \in Readers /\ CountingReader(t)
  <2>1. (\A x \in Writers : at'[x] = at[x]) /\ sem'["wg"] = sem["wg"]
    BY <1>1, <1>at DEF CountingReader, CountIn, CountOut, P, V, Goes
  <2> QED BY <2>1
<1>2. CASE t \in Writers /\ P(t, "wg", "start", "P_w")
  <2>1. Queued = {} /\ Queued' = {t}
    BY <1>2, <1>at DEF P, Goes
  <2> QED BY <1>2, <1>at, <2>1 DEF P
<1>3. CASE t \in Writers /\ (P(t, "w", "P_w", "critical") \/ V(t, "w", "critical", "V_wg"))
  <2>1. Queued' = Queued /\ sem'["wg"] = sem["wg"]
    BY <1>3, <1>at DEF P, V, Goes
  <2> QED BY <2>1
<1>4. CASE t \in Writers /\ V(t, "wg", "V_wg", "start")
  <2>1. Queued = {t} /\ Queued' = {}
    BY <1>4, <1>at DEF V, Goes
  <2> QED BY <1>4, <1>at, <2>1 DEF V
<1> QED BY <1>1, <1>2, <1>3, <1>4 DEF GuardedWriter

(* A step of rw3.c keeps the lock of wmutex and gives all units back.      *)
LEMMA CollectStep ==
  ASSUME TypeOK, solution = "rw3", Locked("wmutex", Collecting),
         \A x \in Writers : at[x] = "start" => units[x] = 0,
         NEW t \in RWThreads,
         (SimpleReader(t, "sem") /\ t \in Readers) \/ (CollectingWriter(t) /\ t \in Writers)
  PROVE  Locked("wmutex", Collecting)' /\ \A x \in Writers : at'[x] = "start" => units'[x] = 0
<1>at. at \in [RWThreads -> {"start", "count_in", "P_w", "V_mutex_in", "critical",
                             "count_out", "V_w", "V_mutex_out", "V_wg", "collect", "give"}]
       /\ sem \in [Semaphores -> Nat] /\ units \in [Writers -> 0 .. N]
  BY DEF TypeOK
<1> USE RWAssumption DEF Semaphores, RWThreads, Locked, AtMostOne, Collecting
<1>1. CASE t \in Readers /\ SimpleReader(t, "sem")
  <2>1. (\A x \in Writers : at'[x] = at[x]) /\ sem'["wmutex"] = sem["wmutex"] /\ units' = units
    BY <1>1, <1>at DEF SimpleReader, P, V, Goes
  <2> QED BY <2>1
<1>2. CASE t \in Writers /\ P(t, "wmutex", "start", "collect") /\ UNCHANGED units
  <2>1. Collecting = {} /\ Collecting' = {t} /\ sem'["wmutex"] = 0
    BY <1>2, <1>at DEF P, Goes
  <2>2. \A x \in Writers : at'[x] = "start" => at[x] = "start"
    BY <1>2, <1>at DEF P, Goes
  <2> QED BY <1>2, <2>1, <2>2
<1>3. CASE t \in Writers /\ V(t, "wmutex", "collect", "critical") /\ UNCHANGED units
  <2>1. Collecting = {t} /\ Collecting' = {} /\ sem'["wmutex"] = 1
    BY <1>3, <1>at DEF V, Goes
  <2>2. \A x \in Writers : at'[x] = "start" => at[x] = "start"
    BY <1>3, <1>at DEF V, Goes
  <2> QED BY <1>3, <2>1, <2>2
<1>4. ASSUME t \in Writers, at[t] /= "start", at'[t] /= "start", at[t] = "collect" <=> at'[t] = "collect",
             \A x \in Writers \ {t} : at'[x] = at[x] /\ units'[x] = units[x],
             sem'["wmutex"] = sem["wmutex"]
      PROVE  Locked("wmutex", Collecting)' /\ \A x \in Writers : at'[x] = "start" => units'[x] = 0
  <2>1. Collecting' = Collecting
    BY <1>4
  <2> QED BY <1>4, <2>1
<1>5. CASE t \in Writers /\ \/ P(t, "sem", "collect", "collect")
                            \/ V(t, "sem", "critical", "give")
                            \/ V(t, "sem", "give", "give")
           /\ (\E y \in Int : units' = [units EXCEPT ![t] = y])
  BY <1>4, <1>5, <1>at DEF P, V, Goes
<1>6. CASE t \in Writers /\ Goes(t, "give", "start") /\ units[t] = 0
           /\ UNCHANGED <<solution, sem, readcnt, units>>
  <2>1. Collecting' = Collecting /\ \A x \in Writers \ {t} : at'[x] = at[x]
    BY <1>6, <1>at DEF Goes
  <2> QED BY <1>6, <2>1
<1> QED
  <2>1. CASE t \in Writers /\ CollectingWriter(t)
    <3>1. units[t] + 1 \in Int /\ units[t] - 1 \in Int
      BY <1>at, <2>1
    <3> QED BY <1>2, <1>3, <1>5, <1>6, <2>1, <3>1 DEF CollectingWriter
  <2> QED BY <1>1, <2>1

(* Every step keeps the two queues. *)
LEMMA QueueStep == TypeOK /\ Positions /\ QueueInv /\ [Next]_rwVars => QueueInv'
<1> SUFFICES ASSUME TypeOK, Positions, QueueInv, [Next]_rwVars PROVE QueueInv'
  OBVIOUS
<1>1. ASSUME NEW t \in RWThreads, (Reader(t) /\ t \in Readers) \/ (Writer(t) /\ t \in Writers)
      PROVE  QueueInv'
  <2>1. solution' = solution
    BY <1>1 DEF Reader, Writer, SimpleReader, CountingReader, CountIn, CountOut, SimpleWriter,
                GuardedWriter, CollectingWriter, P, V
  <2>2. CASE solution = "rw2"
    <3>1. (CountingReader(t) /\ t \in Readers) \/ (GuardedWriter(t) /\ t \in Writers)
      BY <1>1, <2>2 DEF Reader, Writer
    <3> QED BY <2>1, <2>2, <3>1, GuardStep DEF QueueInv
  <2>3. CASE solution = "rw3"
    <3>1. (SimpleReader(t, "sem") /\ t \in Readers) \/ (CollectingWriter(t) /\ t \in Writers)
      BY <1>1, <2>3 DEF Reader, Writer
    <3> QED BY <2>1, <2>3, <3>1, CollectStep DEF QueueInv
  <2> QED BY <2>1, <2>2, <2>3 DEF QueueInv
<1>2. CASE UNCHANGED rwVars
  BY <1>2 DEF rwVars, QueueInv, Locked, AtMostOne, Queued, Collecting
<1> QED BY <1>1, <1>2 DEF Next, RWThreads

(* Under mutex, readcnt and w, the readers of rw1.c and rw2.c cannot all   *)
(* wait.                                                                   *)
LEMMA CountingRuns ==
  ASSUME RWInv, QueueInv, solution \in {"rw1", "rw2"}, \A t \in RWThreads : Stuck(t)
  PROVE  RWThreads = {}
<1> USE DEF RWThreads
<1>1. /\ CountInv /\ Positions /\ sem["mutex"] \in Nat /\ sem["w"] \in Nat
      /\ solution = "rw2" => Locked("wg", Queued)
  BY DEF RWInv, CountingInv, QueueInv, TypeOK, Semaphores
<1>2. \A r \in Readers : (at[r] \in {"start", "critical"} /\ sem["mutex"] = 0)
                         \/ (at[r] = "P_w" /\ sem["w"] = 0)
  BY RWAssumption DEF Stuck, WaitsFor
<1>3. \A x \in Writers : (at[x] \in {"start", "P_w"} /\ sem["w"] = 0)
                         \/ (solution = "rw2" /\ at[x] = "start" /\ sem["wg"] = 0)
  BY RWAssumption DEF Stuck, WaitsFor
<1>4. Critical(Writers) = {}
  BY <1>3 DEF Critical, InCritical
<1>5. \A r \in Readers : at[r] = "P_w" => Inside = {r}
  BY <1>1 DEF CountInv
<1>6. ASSUME NEW r \in Readers PROVE FALSE
  <2>1. PICK q \in Readers : at[q] = "P_w"
    <3>1. CASE MutexHolders = {}
      BY <1>1, <1>2, <1>6, <3>1 DEF CountInv, Locked
    <3>2. CASE MutexHolders /= {}
      BY <1>2, <3>2 DEF MutexHolders
    <3> QED BY <3>1, <3>2
  <2>2. Inside = {q} /\ sem["w"] = 0
    BY <1>2, <1>5, <2>1
  <2>3. Group = {}
    BY <1>2, <2>1, <2>2 DEF Group, Inside
  <2> QED BY <1>1, <1>4, <2>2, <2>3 DEF CountInv
<1>7. ASSUME NEW x \in Writers PROVE FALSE
  <2>1. Group = {} /\ sem["w"] = 1
    BY <1>1, <1>4, <1>6 DEF Group, CountInv
  <2>2. solution = "rw2" /\ Queued = {} /\ sem["wg"] = 0
    BY <1>3, <1>7, <2>1 DEF Queued
  <2> QED BY <1>1, <2>2 DEF Locked
<1> QED BY <1>6, <1>7

(* The writer that collects in rw3.c finds a unit, if nobody else goes on. *)
LEMMA CollectingRuns ==
  ASSUME RWInv, QueueInv, solution = "rw3", \A t \in RWThreads : Stuck(t)
  PROVE  RWThreads = {}
<1> USE DEF RWThreads
<1>1. /\ UnitInv /\ Positions /\ sem \in [Semaphores -> Nat] /\ units \in [Writers -> 0 .. N]
      /\ Locked("wmutex", Collecting) /\ \A x \in Writers : at[x] = "start" => units[x] = 0
  BY DEF RWInv, UnitsInv, QueueInv, TypeOK
<1>2. \A r \in Readers : at[r] = "start" /\ sem["sem"] = 0
  BY RWAssumption DEF Stuck, WaitsFor
<1>3. \A x \in Writers : (at[x] = "start" /\ sem["wmutex"] = 0)
                         \/ (at[x] = "collect" /\ units[x] /= N /\ sem["sem"] = 0)
  BY RWAssumption DEF Stuck, WaitsFor, HasAll
<1>4. Critical(Readers) = {}
  BY <1>2 DEF Critical, InCritical
<1>5. ASSUME NEW x \in Writers PROVE FALSE
  <2>1. PICK y \in Writers : at[y] = "collect"
    BY <1>1, <1>3, <1>5 DEF Locked, Collecting
  <2>2. \A z \in Writers \ {y} : units[z] = 0
    BY <1>1, <1>3, <2>1 DEF Locked, AtMostOne, Collecting
  <2>3. units[y] \in 0 .. N /\ units[y] /= N /\ sem["sem"] = 0
    BY <1>1, <1>3, <2>1
  <2>4. Cardinality(Tokens) = N
    BY <1>1, <2>3, FS_CardinalityType, RWAssumption DEF UnitInv
  <2> DEFINE f == [num \in 1 .. units[y] |-> <<y, num>>]
  <2>5. f \in Surjection(1 .. units[y], Tokens)
    <3>1. Tokens = {<<y, num>> : num \in 1 .. units[y]}
      BY <1>4, <2>2, <2>3, RWAssumption DEF Tokens
    <3> QED BY <3>1 DEF Surjection
  <2>6. IsFiniteSet(1 .. units[y]) /\ Cardinality(1 .. units[y]) = units[y]
    <3>1. PICK n \in Nat : n = units[y]
      BY <2>3, RWAssumption
    <3>2. IsFiniteSet(1 .. n) /\ Cardinality(1 .. n) = IF 1 > n THEN 0 ELSE n - 1 + 1
      BY FS_Interval
    <3> QED BY <3>1, <3>2
  <2>7. Cardinality(Tokens) <= units[y]
    <3> HIDE DEF f, Tokens
    <3> QED BY <2>5, <2>6, FS_Surjection
  <2> QED BY <2>3, <2>4, <2>7, RWAssumption
<1>6. ASSUME NEW r \in Readers PROVE FALSE
  <2>1. Tokens = {}
    BY <1>4, <1>5 DEF Tokens
  <2> QED BY <1>1, <1>2, <1>6, <2>1, FS_EmptySet, RWAssumption DEF UnitInv, Semaphores
<1> QED BY <1>5, <1>6

(* While there are threads, one of them can take its next step: no state   *)
(* of rw0.c to rw3.c has every thread at a P of a semaphore that is 0.     *)
THEOREM ReadersWritersGoOn == Spec => [](RWThreads /= {} => \E t \in RWThreads : ~Stuck(t))
<1>1. Init => QueueInv
  <2> SUFFICES ASSUME Init PROVE QueueInv
    OBVIOUS
  <2>1. Queued = {} /\ Collecting = {}
    BY DEF Init, Queued, Collecting, RWThreads
  <2> QED BY <2>1 DEF Init, QueueInv, Locked, AtMostOne, InitialValue, Semaphores
<1>2. RWInv /\ QueueInv /\ [Next]_rwVars => RWInv' /\ QueueInv'
  BY RWStep, QueueStep DEF RWInv
<1>3. RWInv /\ QueueInv => (RWThreads /= {} => \E t \in RWThreads : ~Stuck(t))
  <2> SUFFICES ASSUME RWInv, QueueInv, \A t \in RWThreads : Stuck(t) PROVE RWThreads = {}
    OBVIOUS
  <2>1. CASE solution = "rw0"
    <3>1. Locked("w", Critical(RWThreads)) /\ \A t \in RWThreads : at[t] = "start" /\ sem["w"] = 0
      BY <2>1 DEF RWInv, LockInv, Stuck, WaitsFor
    <3>2. Critical(RWThreads) = {}
      BY <3>1 DEF Critical, InCritical
    <3> QED BY <3>1, <3>2 DEF Locked
  <2> QED BY <2>1, CountingRuns, CollectingRuns DEF RWInv, TypeOK, Solutions
<1> QED BY <1>1, <1>2, <1>3, RWInit, PTL DEF Spec

--------------------------------------------------------------------------------
(* The combining functions of opt/, for any length, alignment and VSIZE.   *)

(* The accumulators of a function c.                                       *)
Accs(c) == {c.order[p] : p \in 1 .. Len(c.order)}

(* What makes the loops of a function right: each statement of the body    *)
(* adds the next element to an accumulator that it also starts from, and   *)
(* every accumulator is in the final expression once.                      *)
Plain(c) ==
    /\ c.step \in Nat \ {0} /\ c.limit \in {"short", "whole"}
    /\ c.aligns => c.limit = "short" /\ 0 \in Accs(c)
    /\ c.order \in Seq(Nat) /\ Len(c.order) > 0 /\ c.rest \in Accs(c)
    /\ \A p, q \in 1 .. Len(c.order) : c.order[p] = c.order[q] => p = q
    /\ DOMAIN c.body = 1 .. c.step
    /\ \A p \in 1 .. c.step : \E a \in Accs(c) : c.body[p] = Opt!Into(a, p - 1)

Sensible(c) == c = Opt!Halves \/ Plain(c)

(* The accumulators accs have combined n elements, those of D.             *)
LengthsOf(c, accs) == [p \in 0 .. Len(c.order) - 1 |-> Len(accs[c.order[p + 1]])]

Combined(c, accs, n, D) ==
    /\ accs \in [Accs(c) -> Seq(Nat)]
    /\ SumOver(LengthsOf(c, accs), 0 .. Len(c.order) - 1) = n
    /\ UNION {Opt!ToSet(accs[a]) : a \in Accs(c)} = D
    /\ Len(c.order) = 1 => accs[c.order[1]] = [p \in 1 .. n |-> p - 1]

--------------------------------------------------------------------------------

(* A step of the composition calls a function or leaves it alone.          *)
LEMMA CombinersStep ==
  ASSUME [ProgramsNext]_programVars
  PROVE  Opt!Next \/ UNCHANGED combineVars
BY DEF ProgramsNext, programVars

(* A sequence with one more element. *)
LEMMA OneLonger ==
  ASSUME NEW t \in Seq(Nat), NEW e \in Nat
  PROVE  /\ Append(t, e) = [p \in 1 .. Len(t) + 1 |-> IF p <= Len(t) THEN t[p] ELSE e]
         /\ Append(t, e) \in Seq(Nat) /\ Len(t) \in Nat /\ Len(Append(t, e)) = Len(t) + 1
         /\ Opt!ToSet(Append(t, e)) = Opt!ToSet(t) \cup {e}
<1> DEFINE u == Append(t, e)
<1>1. u \in Seq(Nat) /\ Len(u) = Len(t) + 1 /\ Len(t) \in Nat
  BY AppendProperties, LenProperties
<1>2. \A p \in 1 .. Len(t) + 1 : u[p] = IF p <= Len(t) THEN t[p] ELSE e
  BY AppendProperties, LenProperties
<1> HIDE DEF u
<1>3. u = [p \in 1 .. Len(t) + 1 |-> u[p]] /\ DOMAIN u = 1 .. Len(t) + 1
  BY <1>1, LenProperties
<1>4. DOMAIN t = 1 .. Len(t)
  BY LenProperties
<1>5. u[Len(t) + 1] = e /\ \A p \in 1 .. Len(t) : u[p] = t[p]
  BY <1>1, <1>2
<1>6. 1 .. Len(t) + 1 = (1 .. Len(t)) \cup {Len(t) + 1}
  BY <1>1
<1>7. Opt!ToSet(u) = Opt!ToSet(t) \cup {e}
  <2>1. /\ Opt!ToSet(u) = {u[p] : p \in 1 .. Len(t) + 1}
        /\ Opt!ToSet(t) = {t[p] : p \in 1 .. Len(t)}
    BY <1>3, <1>4 DEF Opt!ToSet
  <2> DEFINE L == Len(t)
  <2>2. L + 1 \in 1 .. L + 1 /\ \A p \in 1 .. L : p \in 1 .. L + 1
    BY <1>1
  <2>3. \A p \in 1 .. L + 1 : p \in 1 .. L \/ p = L + 1
    BY <1>1
  <2> HIDE DEF L
  <2> QED BY <1>5, <2>1, <2>2, <2>3 DEF L
<1>8. u = [p \in 1 .. Len(t) + 1 |-> IF p <= Len(t) THEN t[p] ELSE e]
  BY <1>2, <1>3
<1> QED BY <1>1, <1>7, <1>8 DEF u

(* One of the sets of a union gets one more element. *)
LEMMA UnionAdds ==
  ASSUME NEW A, NEW f, NEW g, NEW a \in A, NEW e,
         Opt!ToSet(g[a]) = Opt!ToSet(f[a]) \cup {e}, \A b \in A : b /= a => g[b] = f[b]
  PROVE  UNION {Opt!ToSet(g[b]) : b \in A} = (UNION {Opt!ToSet(f[b]) : b \in A}) \cup {e}
<1> DEFINE F(b) == Opt!ToSet(f[b])
           G(b) == Opt!ToSet(g[b])
<1>1. G(a) = F(a) \cup {e} /\ \A b \in A : b /= a => G(b) = F(b)
  OBVIOUS
<1> HIDE DEF F, G
<1>2. UNION {G(b) : b \in A} = (UNION {F(b) : b \in A}) \cup {e}
  <2>1. ASSUME NEW x \in UNION {G(b) : b \in A} PROVE x \in (UNION {F(b) : b \in A}) \cup {e}
    <3>1. PICK b \in A : x \in G(b)
      OBVIOUS
    <3>2. x \in F(b) \/ x = e
      BY <1>1, <3>1
    <3> QED BY <3>2
  <2>2. ASSUME NEW x \in UNION {F(b) : b \in A} PROVE x \in UNION {G(b) : b \in A}
    <3>1. PICK b \in A : x \in F(b)
      OBVIOUS
    <3>2. x \in G(b)
      BY <1>1, <3>1
    <3> QED BY <3>2
  <2>3. e \in UNION {G(b) : b \in A}
    BY <1>1
  <2> QED BY <2>1, <2>2, <2>3
<1> QED BY <1>2 DEF F, G

(* One more element is combined. *)
LEMMA OneMore ==
  ASSUME NEW c, c.order \in Seq(Nat), Len(c.order) > 0,
         \A p, q \in 1 .. Len(c.order) : c.order[p] = c.order[q] => p = q,
         NEW accs, NEW n \in Nat, NEW D, Combined(c, accs, n, D),
         NEW a \in Accs(c), NEW e \in Nat, Len(c.order) = 1 => e = n
  PROVE  Combined(c, [accs EXCEPT ![a] = Append(accs[a], e)], n + 1, D \cup {e})
<1> DEFINE new == [accs EXCEPT ![a] = Append(accs[a], e)]
           m == Len(c.order)
           S == 0 .. m - 1
           h == LengthsOf(c, accs)
           g == LengthsOf(c, new)
<1>1. /\ accs \in [Accs(c) -> Seq(Nat)] /\ SumOver(h, S) = n
      /\ UNION {Opt!ToSet(accs[b]) : b \in Accs(c)} = D
      /\ m = 1 => accs[c.order[1]] = [p \in 1 .. n |-> p - 1]
  BY DEF Combined
<1>2. m \in Nat
  BY LenProperties
<1>3. PICK y \in 1 .. m : c.order[y] = a
  BY DEF Accs
<1>4. /\ new \in [Accs(c) -> Seq(Nat)] /\ new[a] = Append(accs[a], e)
      /\ \A b \in Accs(c) : b /= a => new[b] = accs[b]
  BY <1>1
<1>5. accs[a] \in Seq(Nat) /\ Len(accs[a]) \in Nat /\ Len(new[a]) = Len(accs[a]) + 1
  BY <1>1, <1>4, OneLonger
<1>6. \A p \in S : p + 1 \in 1 .. m /\ c.order[p + 1] \in Accs(c)
  BY <1>2 DEF Accs
<1>7. \A p \in S : h[p] = Len(accs[c.order[p + 1]]) /\ g[p] = Len(new[c.order[p + 1]])
  BY DEF LengthsOf
<1> HIDE DEF new, m, h, g
<1>8. \A p \in S : h[p] \in Int /\ g[p] \in Int
  <2> SUFFICES ASSUME NEW p \in S PROVE h[p] \in Int /\ g[p] \in Int
    OBVIOUS
  <2>1. accs[c.order[p + 1]] \in Seq(Nat) /\ new[c.order[p + 1]] \in Seq(Nat)
    BY <1>1, <1>4, <1>6
  <2> QED BY <1>7, <2>1, LenProperties
<1>9. y - 1 \in S /\ (y - 1) + 1 = y
  BY <1>2, <1>3
<1>10. \A p \in S \ {y - 1} : g[p] = h[p]
  <2> SUFFICES ASSUME NEW p \in S \ {y - 1} PROVE g[p] = h[p]
    OBVIOUS
  <2>1. p + 1 /= y /\ p + 1 \in 1 .. m
    BY <1>2, <1>3, <1>6
  <2>2. c.order[p + 1] /= a
    BY <1>3, <2>1 DEF m
  <2> QED BY <1>4, <1>6, <1>7, <2>2
<1>11. g[y - 1] = h[y - 1] + 1
  BY <1>3, <1>5, <1>7, <1>9
<1>12. SumOver(g, S) = n + 1
  <2>1. PICK S1, h1, g1, z : S1 = S /\ h1 = h /\ g1 = g /\ z = y - 1
    OBVIOUS
  <2>2. IsFiniteSet(S1) /\ z \in S1
    <3>1. IsFiniteSet(S)
      BY <1>2, FS_Interval
    <3> QED BY <1>9, <2>1, <3>1
  <2>3. \A p \in S1 : h1[p] \in Int /\ g1[p] \in Int
    BY <1>8, <2>1
  <2>4. \A p \in S1 \ {z} : g1[p] = h1[p]
    BY <1>10, <2>1
  <2>5. SumOver(g1, S1) = SumOver(h1, S1) + g1[z] - h1[z]
    BY ONLY <2>2, <2>3, <2>4, SumChanges, Z3
  <2>6. g1[z] = h1[z] + 1 /\ h1[z] \in Int
    BY <1>11, <2>1, <2>2, <2>3
  <2> HIDE DEF S
  <2>7. SumOver(h1, S1) = n
    BY <1>1, <2>1
  <2> QED BY <2>1, <2>5, <2>6, <2>7
<1>13. UNION {Opt!ToSet(new[b]) : b \in Accs(c)} = D \cup {e}
  <2>1. Opt!ToSet(new[a]) = Opt!ToSet(accs[a]) \cup {e}
    BY <1>4, <1>5, OneLonger
  <2>2. PICK A : A = Accs(c)
    OBVIOUS
  <2>3. a \in A /\ \A b \in A : b /= a => new[b] = accs[b]
    BY <1>4, <2>2
  <2>4. UNION {Opt!ToSet(new[b]) : b \in A} = (UNION {Opt!ToSet(accs[b]) : b \in A}) \cup {e}
    BY ONLY <2>1, <2>3, UnionAdds
  <2> QED BY <1>1, <2>2, <2>4
<1>14. ASSUME m = 1 PROVE new[c.order[1]] = [p \in 1 .. n + 1 |-> p - 1]
  <2>1. c.order[1] = a /\ accs[a] = [p \in 1 .. n |-> p - 1] /\ e = n
    BY <1>1, <1>3, <1>14 DEF m
  <2>2. Append([p \in 1 .. n |-> p - 1], n) = [p \in 1 .. n + 1 |-> p - 1]
    <3> DEFINE t == [p \in 1 .. n |-> p - 1]
    <3>1. t \in Seq(Nat) /\ Len(t) = n /\ \A p \in 1 .. n : t[p] = p - 1
      OBVIOUS
    <3> HIDE DEF t
    <3>2. Append(t, n) = [p \in 1 .. Len(t) + 1 |-> IF p <= Len(t) THEN t[p] ELSE n]
      BY <3>1, OneLonger
    <3>3. \A p \in 1 .. n + 1 : (IF p <= n THEN t[p] ELSE n) = p - 1
      BY <3>1
    <3>4. Append(t, n) = [p \in 1 .. n + 1 |-> p - 1]
      BY <3>1, <3>2, <3>3
    <3> QED BY <3>4 DEF t
  <2> QED BY <1>4, <2>1, <2>2
<1> QED BY <1>4, <1>12, <1>13, <1>14 DEF Combined, new, m, g

(* The greatest of some numbers from 1 to n. *)
LEMMA GreatestElement ==
  ASSUME NEW n \in Nat, NEW s \in SUBSET (1 .. n), s /= {}
  PROVE  Max(s) \in s /\ \A x \in s : Max(s) >= x
<1> DEFINE Gaps == {n - x : x \in s}
<1>1. Gaps \in SUBSET Nat /\ Gaps /= {}
  <2>1. \A x \in s : x \in 1 .. n
    OBVIOUS
  <2>2. \A x \in 1 .. n : n - x \in Nat
    OBVIOUS
  <2> QED BY <2>1, <2>2
<1>2. Min(Gaps) \in Gaps /\ \A y \in Gaps : Min(Gaps) <= y
  BY <1>1, LeastElement
<1>3. PICK z \in s : Min(Gaps) = n - z
  BY <1>2
<1>4. \A x \in s : n - z <= n - x
  BY <1>2, <1>3
<1>5. \A x \in s : z >= x
  BY <1>4
<1> QED BY <1>5 DEF Max

(* What FoldLeft computes with over the subsets of the domain of a body.   *)
IsRun(it, base, body, x) ==
    it = [s \in SUBSET (DOMAIN body) |->
             IF s = {} THEN base ELSE Opt!Combine(it[s \ {Max(s)}], body[Max(s)], x)]

RunOf(base, body, x) == (CHOOSE it : IsRun(it, base, body, x))[DOMAIN body]

LEMMA FoldIsRun ==
  ASSUME NEW base, NEW body, NEW x
  PROVE  Opt!FoldLeft(LAMBDA accs, s : Opt!Combine(accs, s, x), base, body) = RunOf(base, body, x)
BY DEF Opt!FoldLeft, Opt!MapThenFoldSet, RunOf, IsRun, Opt!Max, Max

(* There is such a function. *)
LEMMA RunExists ==
  ASSUME NEW n \in Nat, NEW base, NEW body, DOMAIN body = 1 .. n, NEW x
  PROVE  \E it : IsRun(it, base, body, x)
<1> DEFINE S == 1 .. n
           Then(v, s) == Opt!Combine(v, body[Max(s)], x)
           Right(g, s) == g[s] = IF s = {} THEN base ELSE Then(g[s \ {Max(s)}], s)
           UpTo(y) == {s \in SUBSET S : Cardinality(s) < y}
           Good == {y \in Nat : \E g : \A s \in UpTo(y) : Right(g, s)}
<1> HIDE DEF Then
<1>1. IsFiniteSet(S)
  BY FS_Interval
<1>2. ASSUME NEW s \in SUBSET S, s /= {}
      PROVE  /\ s \ {Max(s)} \in SUBSET S
             /\ Cardinality(s) \in Nat /\ Cardinality(s \ {Max(s)}) \in Nat
             /\ Cardinality(s \ {Max(s)}) = Cardinality(s) - 1
  <2>1. Max(s) \in s
    BY <1>2, GreatestElement
  <2> HIDE DEF Right, UpTo, Good, S
  <2> QED BY ONLY <1>1, <1>2, <2>1, OneLess
<1>3. \A s \in SUBSET S : Cardinality(s) \in Nat
  BY <1>1, FS_Subset, FS_CardinalityType
<1> HIDE DEF S
<1>4. ASSUME NEW y \in Nat, \A z \in Nat : z < y => z \in Good
      PROVE  y \in Good
  <2>1. CASE y = 0
    <3>1. UpTo(y) = {}
      BY <1>3, <2>1
    <3> HIDE DEF Right, UpTo
    <3> QED BY <3>1
  <2>2. CASE y /= 0
    <3>1. y - 1 \in Nat /\ y - 1 \in Good
      <4> HIDE DEF Good
      <4> QED BY <1>4, <2>2
    <3>2. PICK g : \A s \in UpTo(y - 1) : Right(g, s)
      BY <3>1
    <3> DEFINE f == [s \in SUBSET S |-> IF Cardinality(s) < y - 1 THEN g[s]
                                        ELSE IF s = {} THEN base
                                        ELSE Then(g[s \ {Max(s)}], s)]
    <3>3. \A s \in UpTo(y - 1) : f[s] = g[s] /\ s \in SUBSET S
      OBVIOUS
    <3>4. ASSUME NEW s \in UpTo(y) PROVE Right(f, s)
      <4>1. s \in SUBSET S /\ Cardinality(s) < y
        OBVIOUS
      <4>2. CASE s = {}
        <5>1. f[s] = base
          <6>1. CASE Cardinality(s) < y - 1
            <7>1. s \in UpTo(y - 1)
              BY <4>1, <6>1
            <7> QED BY <3>2, <3>3, <4>2, <7>1
          <6>2. CASE ~(Cardinality(s) < y - 1)
            BY <4>1, <4>2, <6>2
          <6> QED BY <6>1, <6>2
        <5> HIDE DEF f
        <5> QED BY <4>2, <5>1
      <4>3. CASE s /= {}
        <5> DEFINE r == s \ {Max(s)}
        <5>1. /\ r \in SUBSET S /\ Cardinality(r) \in Nat /\ Cardinality(s) \in Nat
              /\ Cardinality(r) = Cardinality(s) - 1
          BY <1>2, <4>1, <4>3
        <5>2. r \in UpTo(y - 1)
          <6> HIDE DEF r
          <6> QED BY <4>1, <5>1
        <5>3. f[r] = g[r]
          BY <3>3, <5>2
        <5>4. f[s] = Then(g[r], s)
          <6>1. CASE Cardinality(s) < y - 1
            <7>1. s \in UpTo(y - 1)
              BY <4>1, <6>1
            <7> QED BY <3>2, <3>3, <4>3, <7>1
          <6>2. CASE ~(Cardinality(s) < y - 1)
            BY <4>1, <4>3, <6>2
          <6> QED BY <6>1, <6>2
        <5> HIDE DEF f
        <5> QED BY <4>3, <5>3, <5>4
      <4> QED BY <4>2, <4>3
    <3> HIDE DEF f, Right, UpTo
    <3> QED BY <3>4
  <2> QED BY <2>1, <2>2
<1>5. Cardinality(S) + 1 \in Nat /\ Cardinality(S) + 1 \in Good
  <2>1. Cardinality(S) + 1 \in Nat
    BY <1>3
  <2> HIDE DEF Good
  <2> QED BY <1>4, <2>1, StrongInduction
<1>6. PICK g : \A s \in UpTo(Cardinality(S) + 1) : Right(g, s)
  BY <1>5
<1>7. \A s \in SUBSET S : s \in UpTo(Cardinality(S) + 1)
  <2> SUFFICES ASSUME NEW s \in SUBSET S PROVE Cardinality(s) < Cardinality(S) + 1
    OBVIOUS
  <2>1. Cardinality(s) <= Cardinality(S)
    BY <1>1, FS_Subset
  <2> QED BY <1>3, <2>1
<1> DEFINE it == [s \in SUBSET S |-> g[s]]
<1>8. \A s \in SUBSET S : it[s] = IF s = {} THEN base ELSE Then(it[s \ {Max(s)}], s)
  <2> SUFFICES ASSUME NEW s \in SUBSET S
               PROVE  it[s] = IF s = {} THEN base ELSE Then(it[s \ {Max(s)}], s)
    OBVIOUS
  <2>1. Right(g, s) /\ it[s] = g[s]
    BY <1>6, <1>7
  <2>2. s \ {Max(s)} \in SUBSET S
    OBVIOUS
  <2> QED BY <2>1, <2>2
<1>9. it = [s \in SUBSET S |-> it[s]]
  OBVIOUS
<1> HIDE DEF it
<1>10. it = [s \in SUBSET S |-> IF s = {} THEN base ELSE Then(it[s \ {Max(s)}], s)]
  BY <1>8, <1>9
<1>11. IsRun(it, base, body, x)
  BY <1>10 DEF IsRun, Then, S
<1> QED BY <1>11

(* The statements of a body one after the other. *)
Runs(F, n, base, body, x) ==
    /\ F[0] = base /\ F[n] = RunOf(base, body, x)
    /\ \A p \in 1 .. n : F[p] = Opt!Combine(F[p - 1], body[p], x)

LEMMA RunIs ==
  ASSUME NEW n \in Nat, NEW base, NEW body, DOMAIN body = 1 .. n, NEW x
  PROVE  \E F : Runs(F, n, base, body, x)
<1> DEFINE it == CHOOSE f : IsRun(f, base, body, x)
           F == [p \in 0 .. n |-> it[1 .. p]]
<1>1. IsRun(it, base, body, x)
  BY RunExists
<1>2. RunOf(base, body, x) = it[1 .. n]
  BY DEF RunOf
<1> HIDE DEF it
<1>3. \A s \in SUBSET (1 .. n) :
         it[s] = IF s = {} THEN base ELSE Opt!Combine(it[s \ {Max(s)}], body[Max(s)], x)
  BY <1>1 DEF IsRun
<1>4. F[0] = base
  <2>1. 1 .. 0 = {} /\ {} \in SUBSET (1 .. n)
    OBVIOUS
  <2>2. F[0] = it[1 .. 0]
    OBVIOUS
  <2>3. it[{}] = base
    BY <1>3, <2>1
  <2> QED BY <2>1, <2>2, <2>3
<1>5. F[n] = RunOf(base, body, x)
  BY <1>2
<1>6. ASSUME NEW p \in 1 .. n
      PROVE  F[p] = Opt!Combine(F[p - 1], body[p], x)
  <2>1. 1 .. p \in SUBSET (1 .. n) /\ 1 .. p /= {} /\ p \in Nat
    OBVIOUS
  <2>2. Max(1 .. p) = p
    <3>1. Max(1 .. p) \in 1 .. p /\ \A y \in 1 .. p : Max(1 .. p) >= y
      BY <2>1, GreatestElement
    <3> QED BY <3>1
  <2>3. (1 .. p) \ {p} = 1 .. p - 1
    OBVIOUS
  <2>4. it[1 .. p] = Opt!Combine(it[1 .. p - 1], body[p], x)
    BY <1>3, <2>1, <2>2, <2>3
  <2>5. p - 1 \in 0 .. n /\ p \in 0 .. n
    OBVIOUS
  <2> QED BY <2>4, <2>5
<1> HIDE DEF F
<1> QED BY <1>4, <1>5, <1>6 DEF Runs

(* The elements of two sequences put together. *)
LEMMA JoinedSet ==
  ASSUME NEW t \in Seq(Nat), NEW u \in Seq(Nat)
  PROVE  /\ t \o u \in Seq(Nat) /\ Len(t) \in Nat /\ Len(u) \in Nat
         /\ Len(t \o u) = Len(t) + Len(u)
         /\ Opt!ToSet(t \o u) = Opt!ToSet(t) \cup Opt!ToSet(u)
<1> DEFINE l == Len(t)
           y == Len(u)
           z == t \o u
<1>1. z \in Seq(Nat) /\ Len(z) = l + y /\ l \in Nat /\ y \in Nat
  BY ConcatProperties, LenProperties
<1>2. \A p \in 1 .. l + y : z[p] = IF p <= l THEN t[p] ELSE u[p - l]
  BY ConcatProperties
<1> HIDE DEF z
<1>3. DOMAIN z = 1 .. l + y /\ DOMAIN t = 1 .. l /\ DOMAIN u = 1 .. y
  BY <1>1, LenProperties
<1> HIDE DEF l, y
<1>4. \A p \in 1 .. l : p \in 1 .. l + y /\ z[p] = t[p]
  BY <1>1, <1>2
<1>5. \A p \in 1 .. y : l + p \in 1 .. l + y /\ z[l + p] = u[p]
  <2> SUFFICES ASSUME NEW p \in 1 .. y PROVE l + p \in 1 .. l + y /\ z[l + p] = u[p]
    OBVIOUS
  <2>1. l + p \in 1 .. l + y /\ ~(l + p <= l) /\ (l + p) - l = p
    BY <1>1
  <2> QED BY <1>2, <2>1
<1>6. \A p \in 1 .. l + y : p \in 1 .. l \/ \E q \in 1 .. y : p = l + q
  <2> SUFFICES ASSUME NEW p \in 1 .. l + y, ~(p \in 1 .. l) PROVE \E q \in 1 .. y : p = l + q
    OBVIOUS
  <2>1. p - l \in 1 .. y /\ p = l + (p - l)
    BY <1>1
  <2> QED BY <2>1
<1>7. /\ Opt!ToSet(z) = {z[p] : p \in 1 .. l + y}
      /\ Opt!ToSet(t) = {t[p] : p \in 1 .. l} /\ Opt!ToSet(u) = {u[p] : p \in 1 .. y}
  BY <1>3 DEF Opt!ToSet
<1>8. Opt!ToSet(z) \subseteq Opt!ToSet(t) \cup Opt!ToSet(u)
  <2> SUFFICES ASSUME NEW p \in 1 .. l + y PROVE z[p] \in Opt!ToSet(t) \cup Opt!ToSet(u)
    BY <1>7
  <2>1. CASE p \in 1 .. l
    <3>1. z[p] = t[p] /\ t[p] \in Opt!ToSet(t)
      BY <1>4, <1>7, <2>1
    <3> QED BY ONLY <3>1
  <2>2. CASE ~(p \in 1 .. l)
    <3>1. PICK q \in 1 .. y : p = l + q
      BY <1>6, <2>2
    <3>2. z[p] = u[q] /\ u[q] \in Opt!ToSet(u)
      BY <1>5, <1>7, <3>1
    <3> QED BY ONLY <3>2
  <2> QED BY <2>1, <2>2
<1>9. Opt!ToSet(t) \cup Opt!ToSet(u) \subseteq Opt!ToSet(z)
  BY <1>4, <1>5, <1>7
<1> QED BY <1>1, <1>8, <1>9 DEF l, y, z

(* What FlattenSeq computes with. *)
IsFlat(f, t, n) == f = [p \in 1 .. n |-> IF p = 1 THEN t[p] ELSE f[p - 1] \o t[p]]

LEMMA FlatExists ==
  ASSUME NEW m \in Nat, NEW t
  PROVE  \E f : IsFlat(f, t, m)
<1> DEFINE Good == {n \in Nat : \E f : IsFlat(f, t, n)}
<1>1. ASSUME NEW n \in Nat, \A y \in Nat : y < n => y \in Good
      PROVE  n \in Good
  <2>1. CASE n = 0
    <3> DEFINE f == [p \in 1 .. n |-> t[p]]
    <3>1. IsFlat(f, t, n)
      BY <2>1 DEF IsFlat
    <3> QED BY <3>1
  <2>2. CASE n /= 0
    <3>1. n - 1 \in Nat /\ n - 1 < n
      BY <2>2
    <3>2. PICK g : IsFlat(g, t, n - 1)
      BY <1>1, <3>1
    <3> DEFINE f == [p \in 1 .. n |-> IF p = 1 THEN t[p] ELSE g[p - 1] \o t[p]]
    <3>3. \A p \in 1 .. n - 1 : g[p] = IF p = 1 THEN t[p] ELSE g[p - 1] \o t[p]
      BY <3>2 DEF IsFlat
    <3>4. \A p \in 1 .. n - 1 : f[p] = g[p]
      BY <3>3
    <3>5. ASSUME NEW p \in 1 .. n
          PROVE  f[p] = IF p = 1 THEN t[p] ELSE f[p - 1] \o t[p]
      <4>1. CASE p = 1
        BY <4>1
      <4>2. CASE p /= 1
        <5>1. p - 1 \in 1 .. n - 1
          BY <4>2
        <5>2. f[p] = g[p - 1] \o t[p]
          BY <4>2
        <5>3. f[p - 1] = g[p - 1]
          BY <3>4, <5>1
        <5> HIDE DEF f
        <5> QED BY <4>2, <5>2, <5>3
      <4> QED BY <4>1, <4>2
    <3>6. f = [p \in 1 .. n |-> f[p]]
      OBVIOUS
    <3> HIDE DEF f
    <3>7. IsFlat(f, t, n)
      BY <3>5, <3>6 DEF IsFlat
    <3> QED BY <3>7
  <2> QED BY <2>1, <2>2
<1>2. m \in Good
  <2> HIDE DEF Good
  <2> QED BY <1>1, StrongInduction
<1> QED BY <1>2

(* The sequences of t, one behind the other. *)
LEMMA FlattenIs ==
  ASSUME NEW m \in Nat, m > 0, NEW t, Len(t) = m, \A p \in 1 .. m : t[p] \in Seq(Nat)
  PROVE  /\ Len(Opt!FlattenSeq(t)) = SumOver([p \in 0 .. m - 1 |-> Len(t[p + 1])], 0 .. m - 1)
         /\ Opt!ToSet(Opt!FlattenSeq(t)) = UNION {Opt!ToSet(t[p]) : p \in 1 .. m}
         /\ m = 1 => Opt!FlattenSeq(t) = t[1]
<1> DEFINE f == CHOOSE f : IsFlat(f, t, m)
           h == [p \in 0 .. m - 1 |-> Len(t[p + 1])]
           Sets(n) == UNION {Opt!ToSet(t[p]) : p \in 1 .. n}
<1>1. IsFlat(f, t, m)
  BY FlatExists
<1>2. Opt!FlattenSeq(t) = f[m]
  BY DEF Opt!FlattenSeq, IsFlat
<1> HIDE DEF f
<1>3. \A p \in 1 .. m : f[p] = IF p = 1 THEN t[p] ELSE f[p - 1] \o t[p]
  BY <1>1 DEF IsFlat
<1> DEFINE Right(n) == n \in 1 .. m => /\ f[n] \in Seq(Nat) /\ Opt!ToSet(f[n]) = Sets(n)
           Good == {n \in Nat : Right(n)}
<1>4. ASSUME NEW n \in Nat, \A y \in Nat : y < n => y \in Good
      PROVE  n \in Good
  <2> SUFFICES ASSUME n \in 1 .. m PROVE f[n] \in Seq(Nat) /\ Opt!ToSet(f[n]) = Sets(n)
    OBVIOUS
  <2>1. t[n] \in Seq(Nat)
    OBVIOUS
  <2>2. CASE n = 1
    <3>1. f[n] = t[1]
      BY <1>3, <2>2
    <3>2. 1 .. 1 = {1}
      OBVIOUS
    <3>3. Sets(1) = Opt!ToSet(t[1])
      BY <3>2
    <3> QED BY <2>1, <2>2, <3>1, <3>3
  <2>3. CASE n /= 1
    <3>1. n - 1 \in Nat /\ n - 1 < n /\ n - 1 \in 1 .. m
      BY <2>3
    <3>2. Right(n - 1)
      BY <1>4, <3>1
    <3>3. f[n] = f[n - 1] \o t[n]
      BY <1>3, <2>3
    <3>4. f[n] \in Seq(Nat) /\ Opt!ToSet(f[n]) = Opt!ToSet(f[n - 1]) \cup Opt!ToSet(t[n])
      BY <2>1, <3>1, <3>2, <3>3, JoinedSet
    <3>5. 1 .. n = (1 .. n - 1) \cup {n}
      OBVIOUS
    <3>6. Sets(n) = Sets(n - 1) \cup Opt!ToSet(t[n])
      BY <3>5
    <3> HIDE DEF Sets
    <3> QED BY <3>1, <3>2, <3>4, <3>6
  <2> QED BY <2>2, <2>3
<1>5. \A n \in 1 .. m : f[n] \in Seq(Nat) /\ Opt!ToSet(f[n]) = Sets(n)
  <2> HIDE DEF Right
  <2>1. Nat \subseteq Good
    <3> HIDE DEF Good
    <3> QED BY <1>4, StrongInduction
  <2>2. \A n \in 1 .. m : Right(n)
    BY <2>1
  <2> QED BY <2>2 DEF Right
<1> DEFINE F == [p \in 0 .. m |-> IF p = 0 THEN 0 ELSE Len(f[p])]
<1>6. \A p \in 0 .. m : F[p] \in Int
  BY <1>5, LenProperties
<1>7. ASSUME NEW p \in 0 .. m - 1 PROVE h[p] = F[p + 1] - F[p]
  <2>1. p + 1 \in 1 .. m /\ (p + 1) - 1 = p
    OBVIOUS
  <2>2. t[p + 1] \in Seq(Nat) /\ h[p] = Len(t[p + 1]) /\ F[p + 1] = Len(f[p + 1])
    BY <2>1
  <2>3. Len(t[p + 1]) \in Nat
    BY <2>2, LenProperties
  <2>4. CASE p = 0
    BY <1>3, <2>1, <2>2, <2>3, <2>4
  <2>5. CASE p /= 0
    <3>1. p \in 1 .. m /\ F[p] = Len(f[p])
      BY <2>5
    <3>2. f[p + 1] = f[p] \o t[p + 1]
      <4>1. p + 1 /= 1
        BY <2>5
      <4>2. f[p + 1] = f[(p + 1) - 1] \o t[p + 1]
        BY <1>3, <2>1, <4>1
      <4> QED BY <2>1, <4>2
    <3>3. f[p] \in Seq(Nat)
      BY <1>5, <3>1
    <3>4. Len(f[p + 1]) = Len(f[p]) + Len(t[p + 1]) /\ Len(f[p]) \in Nat
      BY <2>2, <3>2, <3>3, JoinedSet
    <3> HIDE DEF F, h
    <3> QED BY <2>2, <2>3, <3>1, <3>4
  <2> QED BY <2>4, <2>5
<1>8. SumOver(h, 0 .. m - 1) = F[m]
  <2>1. F[0] = 0
    OBVIOUS
  <2> HIDE DEF F, h
  <2> QED BY ONLY <1>6, <1>7, <2>1, m \in Nat, SumTelescopes
<1>9. F[m] = Len(f[m])
  OBVIOUS
<1>10. m = 1 => f[m] = t[1]
  BY <1>3
<1>11. Opt!ToSet(f[m]) = Sets(m)
  <2>1. m \in 1 .. m
    OBVIOUS
  <2> HIDE DEF Sets
  <2> QED BY <1>5, <2>1
<1>12. Len(f[m]) = SumOver(h, 0 .. m - 1)
  BY <1>8, <1>9
<1> HIDE DEF F
<1> QED BY <1>2, <1>10, <1>11, <1>12

--------------------------------------------------------------------------------
(* Halves of a vector. *)
LEMMA HalvesIs ==
  /\ Opt!Halves.step = 1 /\ Opt!Halves.limit = "half" /\ Opt!Halves.aligns = FALSE
  /\ Opt!Halves.rest = 1 /\ Opt!Halves.order = [a \in 1 .. 2 |-> a - 1]
BY DEF Opt!Halves, Opt!Parallel

(* The accumulators of a sensible function. *)
LEMMA OrderIs ==
  ASSUME NEW c, Sensible(c)
  PROVE  /\ c.order \in Seq(Nat) /\ Len(c.order) \in Nat /\ Len(c.order) > 0
         /\ \A p, q \in 1 .. Len(c.order) : c.order[p] = c.order[q] => p = q
         /\ c.rest \in Accs(c) /\ Opt!ToSet(c.order) = Accs(c)
         /\ c = Opt!Halves => Accs(c) = {0, 1} /\ Len(c.order) = 2
<1>1. CASE c = Opt!Halves
  <2> DEFINE t == [a \in 1 .. 2 |-> a - 1]
  <2>1. c.order = t /\ c.rest = 1
    BY <1>1, HalvesIs
  <2>2. t \in Seq(Nat) /\ Len(t) = 2 /\ DOMAIN t = 1 .. 2
    OBVIOUS
  <2>3. 1 .. 2 = {1, 2} /\ t[1] = 0 /\ t[2] = 1
    OBVIOUS
  <2> HIDE DEF t
  <2>4. Accs(c) = {0, 1}
    BY <2>1, <2>2, <2>3 DEF Accs
  <2>5. Opt!ToSet(c.order) = {0, 1}
    BY <2>1, <2>2, <2>3 DEF Opt!ToSet
  <2> QED BY <2>1, <2>2, <2>3, <2>4, <2>5
<1>2. CASE Plain(c)
  <2>1. /\ c.order \in Seq(Nat) /\ Len(c.order) > 0 /\ c.rest \in Accs(c)
        /\ \A p, q \in 1 .. Len(c.order) : c.order[p] = c.order[q] => p = q
    BY <1>2 DEF Plain
  <2>2. Len(c.order) \in Nat /\ DOMAIN c.order = 1 .. Len(c.order)
    BY <2>1, LenProperties
  <2>3. Opt!ToSet(c.order) = Accs(c)
    BY <2>2 DEF Opt!ToSet, Accs
  <2>4. c /= Opt!Halves
    BY <1>2, HalvesIs DEF Plain
  <2> QED BY <2>1, <2>2, <2>3, <2>4
<1> QED BY <1>1, <1>2 DEF Sensible

(* At first nothing has been combined. *)
LEMMA NothingYet ==
  ASSUME NEW c, Sensible(c)
  PROVE  Combined(c, [a \in Opt!ToSet(c.order) |-> << >>], 0, {})
<1> DEFINE accs == [a \in Opt!ToSet(c.order) |-> << >>]
           h == LengthsOf(c, accs)
           S == 0 .. Len(c.order) - 1
<1>1. accs \in [Accs(c) -> Seq(Nat)] /\ \A a \in Accs(c) : accs[a] = << >>
  BY OrderIs
<1>2. \A p \in 1 .. Len(c.order) : accs[c.order[p]] = << >>
  BY <1>1 DEF Accs
<1> HIDE DEF accs
<1>3. \A p \in S : h[p] = 0
  <2>1. \A p \in S : p + 1 \in 1 .. Len(c.order) /\ h[p] = Len(accs[c.order[p + 1]])
    BY OrderIs DEF LengthsOf
  <2> QED BY <1>2, <2>1
<1>4. IsFiniteSet(S)
  BY OrderIs, FS_Interval
<1> HIDE DEF S, h
<1>5. SumOver(h, S) = 0
  BY <1>3, <1>4, SumOfNothing
<1>6. UNION {Opt!ToSet(accs[a]) : a \in Accs(c)} = {}
  <2>1. Opt!ToSet(<< >>) = {}
    BY DEF Opt!ToSet
  <2> QED BY <1>1, <2>1
<1>7. Len(c.order) = 1 => accs[c.order[1]] = [p \in 1 .. 0 |-> p - 1]
  <2>1. << >> = [p \in 1 .. 0 |-> p - 1]
    OBVIOUS
  <2> QED BY <1>2, <2>1
<1> QED BY <1>1, <1>5, <1>6, <1>7 DEF Combined, h, S, accs

(* A statement that adds the next element to its accumulator. *)
LEMMA StatementRight ==
  ASSUME NEW c, Sensible(c), NEW accs, NEW n \in Nat, NEW D, Combined(c, accs, n, D),
         NEW a \in Accs(c), NEW x \in Nat, NEW offset \in Nat, Len(c.order) = 1 => x + offset = n
  PROVE  Combined(c, Opt!Combine(accs, Opt!Into(a, offset), x), n + 1, D \cup {x + offset})
<1>1. Opt!Combine(accs, Opt!Into(a, offset), x) = [accs EXCEPT ![a] = Append(accs[a], x + offset)]
  BY DEF Opt!Combine, Opt!Into, Opt!Statement
<1>2. x + offset \in Nat
  OBVIOUS
<1>3. PICK e \in Nat : e = x + offset
  BY <1>2
<1>4. Combined(c, [accs EXCEPT ![a] = Append(accs[a], e)], n + 1, D \cup {e})
  BY <1>3, OrderIs, OneMore
<1> QED BY <1>1, <1>3, <1>4

(* An iteration of the main loop. *)
LEMMA IterationRight ==
  ASSUME NEW c, Plain(c), NEW accs, NEW x \in Nat, Combined(c, accs, x, 0 .. x - 1),
         NEW z, z = x + c.step
  PROVE  Combined(c, RunOf(accs, c.body, x), z, 0 .. z - 1)
<1>0. PICK body : body = c.body
  OBVIOUS
<1>1. PICK n \in Nat : n = c.step /\ body = c.body
  BY <1>0 DEF Plain
<1>2. DOMAIN body = 1 .. n /\ \A p \in 1 .. n : \E a \in Accs(c) : body[p] = Opt!Into(a, p - 1)
  BY <1>1 DEF Plain
<1>3. PICK F : Runs(F, n, accs, body, x)
  BY <1>2, RunIs
<1> DEFINE Right(p) == p \in 0 .. n => Combined(c, F[p], x + p, 0 .. x + p - 1)
           Good == {p \in Nat : Right(p)}
<1>4. ASSUME NEW p \in Nat, \A y \in Nat : y < p => y \in Good
      PROVE  p \in Good
  <2> SUFFICES ASSUME p \in 0 .. n PROVE Combined(c, F[p], x + p, 0 .. x + p - 1)
    OBVIOUS
  <2>1. CASE p = 0
    BY <1>3, <2>1 DEF Runs
  <2>2. CASE p /= 0
    <3>1. p - 1 \in Nat /\ p - 1 < p /\ p - 1 \in 0 .. n /\ p \in 1 .. n
      BY <2>2
    <3>2. PICK y \in Nat : y = p - 1 /\ y + 1 = p
      BY <3>1
    <3>3. Combined(c, F[y], x + y, 0 .. x + y - 1)
      <4>1. Right(y)
        BY <1>4, <3>1, <3>2
      <4> QED BY <3>1, <3>2, <4>1
    <3>4. PICK a \in Accs(c) : body[p] = Opt!Into(a, y)
      BY <1>2, <3>1, <3>2
    <3>5. F[p] = Opt!Combine(F[y], Opt!Into(a, y), x)
      BY <1>3, <3>1, <3>2, <3>4 DEF Runs
    <3>6. x + y \in Nat /\ Sensible(c)
      BY DEF Sensible
    <3> HIDE DEF Right, Good
    <3>7. Combined(c, F[p], (x + y) + 1, (0 .. x + y - 1) \cup {x + y})
      <4>1. PICK v, y0, D : v = F[y] /\ y0 = x + y /\ D = 0 .. x + y - 1
        OBVIOUS
      <4>2. Combined(c, v, y0, D) /\ y0 \in Nat /\ y \in Nat /\ x \in Nat /\ y0 = x + y
        BY <3>3, <3>6, <4>1
      <4>3. Combined(c, Opt!Combine(v, Opt!Into(a, y), x), y0 + 1, D \cup {x + y})
        BY <3>6, <4>2, StatementRight
      <4> QED BY <3>5, <4>1, <4>3
    <3>8. (x + y) + 1 = x + p /\ (0 .. x + y - 1) \cup {x + y} = 0 .. x + p - 1
      BY <3>2
    <3> QED BY <3>7, <3>8
  <2> QED BY <2>1, <2>2
<1>5. Right(n)
  <2> HIDE DEF Right
  <2>1. Nat \subseteq Good
    <3> HIDE DEF Good
    <3> QED BY <1>4, StrongInduction
  <2> QED BY <2>1
<1> QED BY <1>1, <1>3, <1>5 DEF Runs

(* An iteration of the function that has an accumulator for each half. *)
LEMMA HalvesRight ==
  ASSUME NEW accs, NEW x \in Nat, NEW l \in Nat, NEW D, Combined(Opt!Halves, accs, 2 * x, D),
         NEW body, body = <<Opt!Into(0, 0), Opt!Into(1, l)>>
  PROVE  Combined(Opt!Halves, RunOf(accs, body, x), 2 * (x + 1), D \cup {x, x + l})
<1> DEFINE c == Opt!Halves
<1>1. Sensible(c) /\ Accs(c) = {0, 1} /\ Len(c.order) = 2
  BY OrderIs DEF Sensible
<1>2. DOMAIN body = 1 .. 2 /\ body[1] = Opt!Into(0, 0) /\ body[2] = Opt!Into(1, l)
  OBVIOUS
<1>3. PICK F : Runs(F, 2, accs, body, x)
  BY <1>2, RunIs
<1>4. /\ F[1] = Opt!Combine(accs, Opt!Into(0, 0), x)
      /\ F[2] = Opt!Combine(F[1], Opt!Into(1, l), x) /\ F[2] = RunOf(accs, body, x)
  <2>1. 1 \in 1 .. 2 /\ 2 \in 1 .. 2 /\ 1 - 1 = 0 /\ 2 - 1 = 1
    OBVIOUS
  <2>2. F[1] = Opt!Combine(F[1 - 1], body[1], x) /\ F[2] = Opt!Combine(F[2 - 1], body[2], x)
    BY <1>3, <2>1 DEF Runs
  <2> QED BY <1>2, <1>3, <2>1, <2>2 DEF Runs
<1> HIDE DEF c
<1>5. Combined(c, F[1], 2 * x + 1, D \cup {x})
  <2>0. 2 * x \in Nat /\ 0 \in Nat /\ 0 \in Accs(c)
    BY <1>1
  <2>1. PICK n \in Nat, o \in Nat, a \in Accs(c) : n = 2 * x /\ o = 0 /\ a = 0
    BY ONLY <2>0
  <2>2. Combined(c, accs, n, D) /\ Len(c.order) /= 1
    BY <1>1, <2>1 DEF c
  <2>3. Combined(c, Opt!Combine(accs, Opt!Into(a, o), x), n + 1, D \cup {x + o})
    BY <1>1, <2>2, StatementRight
  <2> QED BY <1>4, <2>1, <2>3
<1>6. Combined(c, F[2], 2 * x + 2, (D \cup {x}) \cup {x + l})
  <2>0. 2 * x + 1 \in Nat /\ 1 \in Accs(c)
    BY <1>1
  <2>5. PICK E : E = D \cup {x}
    OBVIOUS
  <2>1. PICK n \in Nat, a \in Accs(c) : n = 2 * x + 1 /\ a = 1
    BY ONLY <2>0
  <2>2. Combined(c, F[1], n, E) /\ Len(c.order) /= 1
    BY <1>1, <1>5, <2>1, <2>5
  <2>3. Combined(c, Opt!Combine(F[1], Opt!Into(a, l), x), n + 1, E \cup {x + l})
    BY <1>1, <2>2, StatementRight
  <2>4. n + 1 = 2 * x + 2
    BY <2>1
  <2> QED BY <1>4, <2>1, <2>3, <2>4, <2>5
<1>7. (D \cup {x}) \cup {x + l} = D \cup {x, x + l} /\ 2 * x + 2 = 2 * (x + 1)
  OBVIOUS
<1> QED BY <1>4, <1>6, <1>7 DEF c

(* The final expression takes every element. *)
LEMMA FinalRight ==
  ASSUME NEW c, Sensible(c), NEW accs, NEW n \in Nat, Combined(c, accs, n, 0 .. n - 1),
         NEW d, d = Opt!FlattenSeq([p \in DOMAIN c.order |-> accs[c.order[p]]])
  PROVE  /\ Len(d) = n /\ Opt!ToSet(d) = 0 .. n - 1
         /\ Len(c.order) = 1 => d = [p \in 1 .. n |-> p - 1]
<1>0. PICK t : t = [p \in DOMAIN c.order |-> accs[c.order[p]]]
  OBVIOUS
<1>1. PICK m \in Nat : m = Len(c.order) /\ t = [p \in DOMAIN c.order |-> accs[c.order[p]]]
  BY <1>0, OrderIs
<1>2. DOMAIN c.order = 1 .. m /\ m > 0 /\ c.order \in Seq(Nat)
  BY <1>1, OrderIs, LenProperties
<1>3. t = [p \in 1 .. m |-> accs[c.order[p]]] /\ Len(t) = m
      /\ \A p \in 1 .. m : t[p] = accs[c.order[p]]
  BY <1>1, <1>2
<1>4. accs \in [Accs(c) -> Seq(Nat)] /\ Accs(c) = {c.order[p] : p \in 1 .. m}
  BY <1>1 DEF Combined, Accs
<1>5. \A p \in 1 .. m : t[p] \in Seq(Nat)
  BY <1>3, <1>4
<1> DEFINE h == [p \in 0 .. m - 1 |-> Len(t[p + 1])]
<1>6. /\ Len(d) = SumOver(h, 0 .. m - 1)
      /\ Opt!ToSet(d) = UNION {Opt!ToSet(t[p]) : p \in 1 .. m}
      /\ m = 1 => d = t[1]
  BY <1>1, <1>2, <1>3, <1>5, FlattenIs
<1>7. h = LengthsOf(c, accs)
  <2>1. \A p \in 0 .. m - 1 : t[p + 1] = accs[c.order[p + 1]]
    BY <1>3
  <2> QED BY <1>1, <2>1 DEF LengthsOf
<1>8. UNION {Opt!ToSet(t[p]) : p \in 1 .. m} = UNION {Opt!ToSet(accs[a]) : a \in Accs(c)}
  <2>1. {Opt!ToSet(t[p]) : p \in 1 .. m} = {Opt!ToSet(accs[c.order[p]]) : p \in 1 .. m}
    <3> DEFINE L(p) == Opt!ToSet(t[p])
               R(p) == Opt!ToSet(accs[c.order[p]])
    <3>1. \A p \in 1 .. m : L(p) = R(p)
      BY <1>3
    <3> HIDE DEF L, R
    <3>2. {L(p) : p \in 1 .. m} = {R(p) : p \in 1 .. m}
      BY <3>1
    <3> QED BY <3>2 DEF L, R
  <2>2. {Opt!ToSet(accs[c.order[p]]) : p \in 1 .. m} = {Opt!ToSet(accs[a]) : a \in Accs(c)}
    BY <1>4
  <2> QED BY <2>1, <2>2
<1> HIDE DEF h
<1>9. Len(d) = n /\ Opt!ToSet(d) = 0 .. n - 1
  BY <1>1, <1>6, <1>7, <1>8 DEF Combined
<1>10. ASSUME m = 1 PROVE d = [p \in 1 .. n |-> p - 1]
  <2>1. t[1] = accs[c.order[1]]
    BY <1>3, <1>10
  <2> QED BY <1>1, <1>6, <1>10, <2>1 DEF Combined
<1> QED BY <1>1, <1>9, <1>10

(* Where a call is, and what it has combined. *)
CallInv ==
    /\ Sensible(combiner) /\ length \in Nat \ {0} /\ oIndex \in Nat
    /\ phase \in {"align", "main", "rest", "done"}
    /\ phase = "align" /\ ~combiner.aligns => oIndex = 0
    /\ phase = "main" /\ combiner.limit = "whole" => \E q \in Nat : oIndex = combiner.step * q
    /\ phase = "main" /\ combiner = Opt!Halves =>
           /\ oIndex <= length \div 2
           /\ Combined(combiner, acc, 2 * oIndex,
                       (0 .. oIndex - 1) \cup (length \div 2 .. length \div 2 + oIndex - 1))
    /\ phase \in {"align", "rest"} \/ (phase = "main" /\ combiner /= Opt!Halves) =>
           oIndex <= length /\ Combined(combiner, acc, oIndex, 0 .. oIndex - 1)
    /\ phase = "done" => Opt!SameAsCombine1

(* The loop in front. *)
LEMMA AlignRight == ASSUME CallInv, Opt!Align PROVE CallInv'
<1>1. /\ phase = "align" /\ oIndex <= length /\ Combined(combiner, acc, oIndex, 0 .. oIndex - 1)
      /\ Sensible(combiner) /\ length \in Nat \ {0} /\ oIndex \in Nat
      /\ combiner' = combiner /\ length' = length
      /\ ~combiner.aligns => oIndex = 0
  BY DEF CallInv, Opt!Align
<1>2. CASE combiner.aligns /\ oIndex /= ahead /\ oIndex < length
  <2>1. acc' = Opt!Combine(acc, Opt!Into(0, 0), oIndex) /\ oIndex' = oIndex + 1 /\ phase' = phase
    BY <1>2 DEF Opt!Align
  <2>2. 0 \in Accs(combiner)
    BY <1>1, <1>2, HalvesIs DEF Sensible, Plain
  <2>3. Combined(combiner, acc', oIndex', 0 .. oIndex' - 1)
    <3>1. PICK a \in Accs(combiner), o \in Nat : a = 0 /\ o = 0
      <4>1. 0 \in Nat
        OBVIOUS
      <4> QED BY ONLY <2>2, <4>1
    <3>4. PICK D : D = 0 .. oIndex - 1
      OBVIOUS
    <3>2. Combined(combiner, Opt!Combine(acc, Opt!Into(a, o), oIndex), oIndex + 1,
                   D \cup {oIndex + o})
      BY <1>1, <3>1, <3>4, StatementRight
    <3>3. D \cup {oIndex + o} = 0 .. (oIndex + 1) - 1
      BY <1>1, <3>1, <3>4
    <3> QED BY <2>1, <3>1, <3>2, <3>3
  <2>4. oIndex' \in Nat /\ oIndex' <= length
    BY <1>1, <1>2, <2>1
  <2> QED BY <1>1, <1>2, <2>1, <2>3, <2>4 DEF CallInv
<1>3. CASE ~(combiner.aligns /\ oIndex /= ahead /\ oIndex < length)
  <2>1. phase' = "main" /\ acc' = acc /\ oIndex' = oIndex
    BY <1>3 DEF Opt!Align
  <2>2. ASSUME combiner.limit = "whole" PROVE \E q \in Nat : oIndex = combiner.step * q
    <3>1. ~combiner.aligns /\ combiner.step \in Nat
      BY <1>1, <2>2, HalvesIs DEF Sensible, Plain
    <3>2. oIndex = combiner.step * 0
      BY <1>1, <3>1
    <3> QED BY <3>2
  <2>3. ASSUME combiner = Opt!Halves
        PROVE  /\ oIndex <= length \div 2
               /\ Combined(combiner, acc, 2 * oIndex,
                           (0 .. oIndex - 1) \cup (length \div 2 .. length \div 2 + oIndex - 1))
    <3>1. oIndex = 0
      BY <1>1, <2>3, HalvesIs
    <3>2. length \div 2 \in Nat
      BY <1>1
    <3>3. 2 * 0 = 0 /\ (0 .. 0 - 1) \cup (length \div 2 .. length \div 2 + 0 - 1) = 0 .. 0 - 1
      BY <3>2
    <3> QED BY <1>1, <3>1, <3>2, <3>3
  <2> QED BY <1>1, <2>1, <2>2, <2>3 DEF CallInv
<1> QED BY <1>2, <1>3

(* The main loop. *)
LEMMA MainRight == ASSUME CallInv, Opt!MainLoop PROVE CallInv'
<1>1. /\ phase = "main" /\ phase' = "main" /\ oIndex < Opt!Limit
      /\ Sensible(combiner) /\ length \in Nat \ {0} /\ oIndex \in Nat
      /\ combiner' = combiner /\ length' = length /\ oIndex' = oIndex + combiner.step
      /\ acc' = RunOf(acc, Opt!Body, oIndex)
  BY FoldIsRun DEF CallInv, Opt!MainLoop
<1>2. CASE Plain(combiner)
  <2>1. combiner /= Opt!Halves /\ combiner.step \in Nat \ {0}
    BY <1>2, HalvesIs DEF Plain
  <2>2. oIndex <= length /\ Combined(combiner, acc, oIndex, 0 .. oIndex - 1)
    BY <1>1, <2>1 DEF CallInv
  <2>3. Opt!Body = combiner.body
    BY <1>2 DEF Plain, Opt!Body
  <2>4. Combined(combiner, acc', oIndex', 0 .. oIndex' - 1)
    <3>0. PICK accs : accs = acc
      OBVIOUS
    <3>1. PICK x \in Nat : x = oIndex
      BY <1>1
    <3>5. PICK z : z = x + combiner.step
      OBVIOUS
    <3>2. Combined(combiner, RunOf(accs, combiner.body, x), z, 0 .. z - 1)
      BY <1>2, <2>2, <3>0, <3>1, <3>5, IterationRight
    <3>3. acc' = RunOf(accs, combiner.body, x)
      BY <1>1, <2>3, <3>0, <3>1
    <3>4. oIndex' = x + combiner.step
      BY <1>1, <3>1
    <3>7. Combined(combiner, acc', z, 0 .. z - 1)
      BY ONLY <3>3, <3>2
    <3> QED BY <3>4, <3>5, <3>7
  <2>5. PICK n \in Nat : n = combiner.step /\ n > 0
    BY <2>1
  <2>6. CASE combiner.limit = "short"
    <3>1. Opt!Limit = length + 1 - n
      BY <2>5, <2>6 DEF Opt!Limit
    <3>2. oIndex' <= length /\ oIndex' \in Nat
      BY <1>1, <2>5, <3>1
    <3> QED BY <1>1, <2>1, <2>4, <2>6, <3>2 DEF CallInv
  <2>7. CASE combiner.limit = "whole"
    <3>1. PICK q \in Nat : oIndex = n * q
      BY <1>1, <2>5, <2>7 DEF CallInv
    <3>2. Opt!Limit = length - (length % n)
      BY <2>5, <2>7 DEF Opt!Limit
    <3>3. PICK d \in Nat, m \in Nat : length = n * d + m /\ m = length % n
      <4>1. /\ length = n * (length \div n) + (length % n)
            /\ length \div n \in Nat /\ length % n \in Nat
        BY <1>1, <2>5, DivMod
      <4> QED BY ONLY <4>1
    <3>4. n * q < n * d
      <4>1. n * d \in Nat /\ n * q \in Nat
        OBVIOUS
      <4> QED BY <1>1, <3>1, <3>2, <3>3, <4>1
    <3>5. q < d
      <4>1. CASE d < q
        BY <3>4, <4>1, NextMultiple
      <4>2. CASE d = q
        <5>1. n * d \in Nat
          OBVIOUS
        <5> QED BY <3>4, <4>2, <5>1
      <4> QED BY <4>1, <4>2
    <3>6. n * q + n <= n * d /\ n * q \in Nat /\ n * d \in Nat
      BY <3>5, NextMultiple
    <3>7. oIndex' <= length /\ oIndex' \in Nat
      BY <1>1, <2>5, <3>1, <3>3, <3>6
    <3>8. q + 1 \in Nat /\ oIndex' = combiner.step * (q + 1)
      <4>1. n * (q + 1) = n * q + n
        OBVIOUS
      <4> QED BY <1>1, <2>5, <3>1, <4>1
    <3> QED BY <1>1, <2>1, <2>4, <3>7, <3>8 DEF CallInv
  <2> QED BY <1>2, <2>6, <2>7 DEF Plain
<1>3. CASE combiner = Opt!Halves
  <2> DEFINE L == length \div 2
  <2>1. L \in Nat
    BY <1>1
  <2>2. Opt!Limit = L /\ Opt!Body = <<Opt!Into(0, 0), Opt!Into(1, L)>> /\ combiner.step = 1
    BY <1>3, HalvesIs DEF Opt!Limit, Opt!Body
  <2>3. Combined(combiner, acc, 2 * oIndex, (0 .. oIndex - 1) \cup (L .. L + oIndex - 1))
    BY <1>1, <1>3 DEF CallInv
  <2> HIDE DEF L
  <2>4. PICK D, body : /\ D = (0 .. oIndex - 1) \cup (L .. L + oIndex - 1)
                       /\ body = <<Opt!Into(0, 0), Opt!Into(1, L)>>
    OBVIOUS
  <2>5. PICK x \in Nat, l \in Nat : x = oIndex /\ l = L
    BY <1>1, <2>1
  <2>6. Combined(Opt!Halves, acc, 2 * x, D) /\ body = <<Opt!Into(0, 0), Opt!Into(1, l)>>
    BY <1>3, <2>3, <2>4, <2>5
  <2>7. Combined(Opt!Halves, RunOf(acc, body, x), 2 * (x + 1), D \cup {x, x + l})
    BY <2>6, HalvesRight
  <2>8. D \cup {x, x + l} = (0 .. (x + 1) - 1) \cup (l .. l + (x + 1) - 1)
    BY <2>4, <2>5
  <2>9. acc' = RunOf(acc, body, x) /\ oIndex' = x + 1 /\ x + 1 \in Nat /\ x + 1 <= l
    BY <1>1, <2>2, <2>4, <2>5
  <2>10. Combined(combiner, acc', 2 * oIndex', (0 .. oIndex' - 1) \cup (L .. L + oIndex' - 1))
    BY <1>3, <2>5, <2>7, <2>8, <2>9
  <2> QED BY <1>1, <1>3, <2>5, <2>9, <2>10, HalvesIs DEF CallInv, L
<1> QED BY <1>1, <1>2, <1>3 DEF Sensible

(* The end of the main loop. *)
LEMMA MainEndsRight == ASSUME CallInv, Opt!MainEnds PROVE CallInv'
<1>1. /\ phase = "main" /\ phase' = "rest" /\ oIndex >= Opt!Limit
      /\ Sensible(combiner) /\ length \in Nat \ {0} /\ oIndex \in Nat
      /\ combiner' = combiner /\ length' = length /\ acc' = acc
      /\ oIndex' = IF combiner.limit = "half" THEN 2 * Opt!Limit ELSE oIndex
  BY DEF CallInv, Opt!MainEnds
<1>2. CASE combiner /= Opt!Halves
  <2>1. oIndex' = oIndex
    BY <1>1, <1>2 DEF Sensible, Plain
  <2>2. oIndex <= length /\ Combined(combiner, acc, oIndex, 0 .. oIndex - 1)
    BY <1>1, <1>2 DEF CallInv
  <2> QED BY <1>1, <2>1, <2>2 DEF CallInv
<1>3. CASE combiner = Opt!Halves
  <2> DEFINE L == length \div 2
  <2>1. L \in Nat /\ 2 * L <= length
    BY <1>1
  <2>2. Opt!Limit = L /\ combiner.limit = "half"
    BY <1>3, HalvesIs DEF Opt!Limit
  <2>3. /\ oIndex <= L
        /\ Combined(combiner, acc, 2 * oIndex, (0 .. oIndex - 1) \cup (L .. L + oIndex - 1))
    BY <1>1, <1>3 DEF CallInv
  <2> HIDE DEF L
  <2>4. oIndex = L
    BY <1>1, <2>1, <2>2, <2>3
  <2>5. (0 .. L - 1) \cup (L .. L + L - 1) = 0 .. 2 * L - 1
    BY <2>1
  <2>6. oIndex' = 2 * L /\ oIndex' \in Nat
    BY <1>1, <2>1, <2>2
  <2>7. Combined(combiner, acc, oIndex', 0 .. oIndex' - 1)
    BY <2>3, <2>4, <2>5, <2>6
  <2> QED BY <1>1, <2>1, <2>6, <2>7 DEF CallInv
<1> QED BY <1>2, <1>3

(* The loop behind. *)
LEMMA RestRight == ASSUME CallInv, Opt!Rest PROVE CallInv'
<1>1. /\ phase = "rest" /\ phase' = "rest" /\ oIndex < length
      /\ Sensible(combiner) /\ length \in Nat \ {0} /\ oIndex \in Nat
      /\ combiner' = combiner /\ length' = length /\ oIndex' = oIndex + 1
      /\ acc' = Opt!Combine(acc, Opt!Into(combiner.rest, 0), oIndex)
      /\ Combined(combiner, acc, oIndex, 0 .. oIndex - 1)
  BY DEF CallInv, Opt!Rest
<1>2. PICK a \in Accs(combiner), o \in Nat : a = combiner.rest /\ o = 0
  <2>1. combiner.rest \in Accs(combiner) /\ 0 \in Nat
    BY <1>1, OrderIs
  <2> QED BY ONLY <2>1
<1>3. PICK D : D = 0 .. oIndex - 1
  OBVIOUS
<1>4. Combined(combiner, Opt!Combine(acc, Opt!Into(a, o), oIndex), oIndex + 1, D \cup {oIndex + o})
  BY <1>1, <1>2, <1>3, StatementRight
<1>5. D \cup {oIndex + o} = 0 .. (oIndex + 1) - 1
  BY <1>1, <1>2, <1>3
<1>6. Combined(combiner, acc', oIndex', 0 .. oIndex' - 1)
  BY <1>1, <1>2, <1>4, <1>5
<1> QED BY <1>1, <1>6 DEF CallInv

(* The final expression. *)
LEMMA ReturnRight == ASSUME CallInv, Opt!Return PROVE CallInv'
<1>1. /\ phase = "rest" /\ phase' = "done" /\ oIndex >= length /\ oIndex <= length
      /\ Sensible(combiner) /\ length \in Nat \ {0} /\ oIndex \in Nat
      /\ combiner' = combiner /\ length' = length /\ oIndex' = oIndex
      /\ dest' = Opt!FlattenSeq([p \in DOMAIN combiner.order |-> acc[combiner.order[p]]])
      /\ Combined(combiner, acc, oIndex, 0 .. oIndex - 1)
  BY DEF CallInv, Opt!Return
<1>2. oIndex = length
  BY <1>1
<1>3. /\ Len(dest') = length /\ Opt!ToSet(dest') = 0 .. length - 1
      /\ Len(combiner.order) = 1 => dest' = [p \in 1 .. length |-> p - 1]
  <2>1. PICK d : d = Opt!FlattenSeq([p \in DOMAIN combiner.order |-> acc[combiner.order[p]]])
    OBVIOUS
  <2>2. /\ Sensible(combiner) /\ length \in Nat
        /\ Combined(combiner, acc, length, 0 .. length - 1)
    BY <1>1, <1>2
  <2>3. /\ Len(d) = length /\ Opt!ToSet(d) = 0 .. length - 1
        /\ Len(combiner.order) = 1 => d = [p \in 1 .. length |-> p - 1]
    BY ONLY <2>1, <2>2, FinalRight, ZenonT(90)
  <2>4. dest' = d
    BY ONLY <1>1, <2>1
  <2> QED BY ONLY <2>3, <2>4
<1>4. Opt!ToSet([p \in 1 .. length |-> p - 1]) = 0 .. length - 1
  <2>1. PICK n \in Nat : n = length
    BY <1>1
  <2>2. \A e \in 0 .. n - 1 : e + 1 \in 1 .. n /\ (e + 1) - 1 = e
    OBVIOUS
  <2>3. {p - 1 : p \in 1 .. n} = 0 .. n - 1
    BY <2>2
  <2>4. Opt!ToSet([p \in 1 .. n |-> p - 1]) = {p - 1 : p \in 1 .. n}
    BY DEF Opt!ToSet
  <2> QED BY <2>1, <2>3, <2>4
<1>5. Opt!SameAsCombine1'
  BY <1>1, <1>3, <1>4 DEF Opt!SameAsCombine1, Opt!InOrder
<1> QED BY <1>1, <1>5 DEF CallInv

(* A call begins right and ends right. *)
LEMMA CallStarts == ASSUME Opt!Init, Sensible(combiner) PROVE CallInv
<1>1. /\ phase = "align" /\ oIndex = 0 /\ acc = [a \in Opt!ToSet(combiner.order) |-> << >>]
      /\ length \in 1 .. 2 * combiner.step + Spare
  BY DEF Opt!Init
<1>2. length \in Nat \ {0}
  BY <1>1
<1>3. Combined(combiner, acc, 0, {})
  BY <1>1, NothingYet
<1>4. 0 .. 0 - 1 = {}
  OBVIOUS
<1> QED BY <1>1, <1>2, <1>3, <1>4 DEF CallInv

(* And so it goes on. *)
LEMMA CallGoesOn == ASSUME CallInv, Opt!Next \/ UNCHANGED combineVars PROVE CallInv'
<1>1. CASE UNCHANGED combineVars
  BY <1>1 DEF combineVars, CallInv, Opt!SameAsCombine1, Opt!InOrder
<1> QED BY <1>1, AlignRight, MainRight, MainEndsRight, RestRight, ReturnRight DEF Opt!Next

--------------------------------------------------------------------------------
(* The functions of the files. *)

(* Two ways to write a number with a digit below n in the end. *)
LEMMA Digits ==
  ASSUME NEW n \in Nat, n > 0, NEW a \in Nat, NEW b \in Nat,
         NEW l \in 0 .. n - 1, NEW h \in 0 .. n - 1,
         n * a + l = n * b + h
  PROVE  a = b /\ l = h
<1>0. n * a \in Nat /\ n * b \in Nat
  OBVIOUS
<1>1. CASE a < b
  <2>1. n * b >= n * a + n
    BY <1>1, NextMultiple
  <2> QED BY <1>0, <2>1
<1>2. CASE b < a
  <2>1. n * a >= n * b + n
    BY <1>2, NextMultiple
  <2> QED BY <1>0, <2>1
<1>3. CASE a = b
  BY <1>0, <1>3
<1> QED BY <1>1, <1>2, <1>3

(* The quotient and the remainder of such a number. *)
LEMMA DigitsOf ==
  ASSUME NEW n \in Nat, n > 0, NEW a \in Nat, NEW l \in 0 .. n - 1
  PROVE  n * a + l \in Nat /\ (n * a + l) \div n = a /\ (n * a + l) % n = l
<1>1. PICK x \in Nat : x = n * a + l
  <2>1. n * a \in Nat
    OBVIOUS
  <2> QED BY <2>1
<1>2. x = n * (x \div n) + (x % n) /\ x \div n \in Nat /\ x % n \in 0 .. n - 1
  BY DivMod
<1>3. x \div n = a /\ x % n = l
  <2>1. PICK b \in Nat, h \in 0 .. n - 1 : b = x \div n /\ h = x % n
    BY ONLY <1>2
  <2> QED BY <1>1, <1>2, <2>1, Digits
<1> QED BY <1>1, <1>3

(* Up to as many accumulators as elements an iteration takes. *)
LEMMA ParallelRight ==
  ASSUME NEW n \in Nat, NEW m \in Nat, m > 0, m <= n
  PROVE  Plain(Opt!Parallel(n, m)) /\ Accs(Opt!Parallel(n, m)) = 0 .. m - 1
<1> DEFINE c == Opt!Parallel(n, m)
           t == [a \in 1 .. m |-> a - 1]
           body == [j \in 1 .. n |-> Opt!Into((j - 1) % m, j - 1)]
<1>1. /\ c.step = n /\ c.limit = "short" /\ c.aligns = FALSE /\ c.body = body
      /\ c.rest = 0 /\ c.order = t
  BY DEF Opt!Parallel
<1>2. \A p \in 1 .. m : t[p] = p - 1 /\ t[p] \in Nat
  OBVIOUS
<1>3. DOMAIN body = 1 .. n /\ \A p \in 1 .. n : body[p] = Opt!Into((p - 1) % m, p - 1)
  OBVIOUS
<1>4. t \in Seq(Nat) /\ Len(t) = m
  OBVIOUS
<1> HIDE DEF c, t, body
<1>5. Accs(c) = {t[p] : p \in 1 .. m}
  BY <1>1, <1>4 DEF Accs
<1>6. Accs(c) = 0 .. m - 1
  <2>1. \A a \in 0 .. m - 1 : a + 1 \in 1 .. m /\ (a + 1) - 1 = a
    OBVIOUS
  <2>2. \A a \in 0 .. m - 1 : t[a + 1] = a
    BY <1>2, <2>1
  <2>3. \A p \in 1 .. m : t[p] \in 0 .. m - 1
    BY <1>2
  <2> QED BY <1>5, <2>1, <2>2, <2>3
<1>7. \A p \in 1 .. n : \E a \in Accs(c) : c.body[p] = Opt!Into(a, p - 1)
  <2> TAKE p \in 1 .. n
  <2>1. p - 1 \in Nat
    OBVIOUS
  <2>2. (p - 1) % m \in 0 .. m - 1
    BY <2>1, DivMod
  <2> QED BY <1>1, <1>3, <1>6, <2>2
<1>8. Plain(c)
  <2>1. \A p, q \in 1 .. m : t[p] = t[q] => p = q
    BY <1>2
  <2>2. 0 \in Accs(c) /\ n \in Nat \ {0}
    BY <1>6
  <2> QED BY <1>1, <1>3, <1>4, <1>7, <2>1, <2>2 DEF Plain
<1> QED BY <1>6, <1>8 DEF c

(* One accumulator. *)
LEMMA WholeRight ==
  ASSUME NEW n \in Nat, n > 0
  PROVE  Plain(Opt!Unrolled(n)) /\ Plain(Opt!Whole(n))
<1>1. Plain(Opt!Unrolled(n))
  BY ParallelRight DEF Opt!Unrolled
<1> DEFINE c == Opt!Unrolled(n)
           d == Opt!Whole(n)
<1>2. /\ d.step = c.step /\ d.limit = "whole" /\ c.aligns = FALSE /\ d.aligns = FALSE
      /\ d.body = c.body /\ d.rest = c.rest /\ d.order = c.order
  BY DEF Opt!Whole, Opt!Unrolled, Opt!Parallel
<1> HIDE DEF c, d
<1>3. Plain(d)
  BY <1>1, <1>2 DEF Plain, Accs, c
<1> QED BY <1>1, <1>3 DEF d

(* Eight elements for four accumulators, in another order. *)
LEMMA FourRight == Plain(Opt!Unroll8x4) /\ Plain(Opt!OldUnroll8x4)
<1> DEFINE c == Opt!Parallel(8, 4)
           d == Opt!Unroll8x4
           e == Opt!OldUnroll8x4
           t == <<3, 0, 1, 2>>
<1>1. Plain(c) /\ Accs(c) = 0 .. 3
  BY ParallelRight
<1>2. c.step = 8 /\ c.limit = "short" /\ c.aligns = FALSE
  BY DEF Opt!Parallel
<1>3. /\ d.step = c.step /\ d.limit = c.limit /\ d.aligns = c.aligns
      /\ d.body = c.body /\ d.rest = 3 /\ d.order = t
  BY DEF Opt!Unroll8x4, Opt!Parallel
<1>4. /\ e.step = c.step /\ e.limit = c.limit /\ e.aligns = c.aligns
      /\ e.body = [j \in 1 .. 8 |-> Opt!Into((j + 2) % 4, j - 1)] /\ e.rest = 3 /\ e.order = t
  BY DEF Opt!OldUnroll8x4, Opt!Unroll8x4, Opt!Parallel
<1>5. /\ t \in Seq(Nat) /\ Len(t) = 4
      /\ t[1] = 3 /\ t[2] = 0 /\ t[3] = 1 /\ t[4] = 2
  OBVIOUS
<1>6. 1 .. 4 = {1, 2, 3, 4} /\ 0 .. 3 = {0, 1, 2, 3}
  OBVIOUS
<1> HIDE DEF c, d, e, t
<1>7. Accs(d) = {t[p] : p \in 1 .. 4} /\ Accs(e) = {t[p] : p \in 1 .. 4}
  BY <1>3, <1>4, <1>5 DEF Accs
<1>8. Accs(d) = 0 .. 3 /\ Accs(e) = 0 .. 3
  BY <1>5, <1>6, <1>7
<1>9. \A p, q \in 1 .. 4 : t[p] = t[q] => p = q
  BY <1>5, <1>6
<1>10. \A p \in 1 .. 8 : \E a \in Accs(d) : d.body[p] = Opt!Into(a, p - 1)
  BY <1>1, <1>2, <1>3, <1>8 DEF Plain
<1>11. Plain(d)
  <2>1. DOMAIN d.body = 1 .. 8
    BY <1>1, <1>2, <1>3 DEF Plain
  <2> QED BY <1>2, <1>3, <1>5, <1>8, <1>9, <1>10, <2>1 DEF Plain
<1>12. \A p \in 1 .. 8 : \E a \in Accs(e) : e.body[p] = Opt!Into(a, p - 1)
  <2> TAKE p \in 1 .. 8
  <2>1. (p + 2) % 4 \in 0 .. 3
    OBVIOUS
  <2> QED BY <1>4, <1>8, <2>1
<1>13. DOMAIN e.body = 1 .. 8
  BY <1>4
<1>14. Plain(e)
  BY <1>2, <1>4, <1>5, <1>8, <1>9, <1>12, <1>13 DEF Plain
<1> QED BY <1>11, <1>14 DEF d, e

(* The lanes of a number of vector accumulators. *)
LEMMA VectorsRight ==
  ASSUME NEW n \in Nat, n > 0, NEW m \in Nat, m > 0, VSIZE \in Nat \ {0}
  PROVE  Plain(Opt!Vectors(n, m))
<1>1. PICK u \in Nat : u = VSIZE /\ u > 0
  OBVIOUS
<1>2. PICK w \in Nat, s \in Nat : w = m * u /\ s = n * u /\ w > 0 /\ s > 0
  <2>1. m * u \in Nat /\ n * u \in Nat /\ m * u > 0 /\ n * u > 0
    BY <1>1
  <2> QED BY <2>1
<1> DEFINE c == Opt!Vectors(n, m)
           lanes == [j \in 1 .. w |-> Opt!Lane((j - 1) % m, (j - 1) \div m)]
           body == [j \in 1 .. s |-> Opt!Into(Opt!Lane(((j - 1) \div u) % m, (j - 1) % u), j - 1)]
           t == <<0>> \o lanes
<1>3. /\ c.step = s /\ c.limit = "short" /\ c.aligns = TRUE /\ c.rest = 0
      /\ c.body = body /\ c.order = t
  BY <1>1, <1>2 DEF Opt!Vectors
<1>4. \A a, l \in Nat : Opt!Lane(a, l) = 1 + (u * a + l)
  BY <1>1 DEF Opt!Lane
<1>5. ASSUME NEW p \in 1 .. w
      PROVE  /\ (p - 1) % m \in 0 .. m - 1 /\ (p - 1) \div m \in 0 .. u - 1
             /\ p - 1 = m * ((p - 1) \div m) + ((p - 1) % m)
  <2>1. PICK x \in Nat : x = p - 1 /\ x < m * u
    BY <1>2
  <2>2. x = m * (x \div m) + (x % m) /\ x \div m \in Nat /\ x % m \in 0 .. m - 1
    BY DivMod
  <2>3. PICK y \in Nat : y = x \div m
    BY <2>2
  <2>4. ASSUME y >= u PROVE FALSE
    <3>1. m * (y - u) >= 0
      BY <1>1, <2>4
    <3>2. m * y >= m * u /\ m * y \in Nat /\ m * u \in Nat
      BY <3>1
    <3> QED BY <2>1, <2>2, <2>3, <3>2
  <2>5. y \in 0 .. u - 1
    BY <2>4
  <2> QED BY <2>1, <2>2, <2>3, <2>5
<1>6. ASSUME NEW p \in 1 .. w PROVE lanes[p] \in Nat \ {0}
  <2>1. PICK a \in Nat, l \in Nat : a = (p - 1) % m /\ l = (p - 1) \div m
    BY <1>5
  <2>2. lanes[p] = 1 + (u * a + l) /\ u * a \in Nat
    BY <1>4, <2>1
  <2> QED BY <2>2
<1>7. /\ lanes \in Seq(Nat) /\ Len(lanes) = w
  BY <1>6
<1>8. /\ t \in Seq(Nat) /\ Len(t) = w + 1 /\ t[1] = 0
      /\ \A p \in 1 .. w : t[p + 1] = lanes[p]
      /\ \A p \in 1 .. w + 1 : p = 1 \/ (p - 1 \in 1 .. w /\ t[p] = lanes[p - 1])
  <2> HIDE DEF lanes
  <2>1. <<0>> \in Seq(Nat) /\ Len(<<0>>) = 1 /\ <<0>>[1] = 0
    OBVIOUS
  <2>2. /\ t \in Seq(Nat) /\ Len(t) = 1 + w
        /\ \A p \in 1 .. 1 + w : t[p] = IF p <= 1 THEN <<0>>[p] ELSE lanes[p - 1]
    <3>1. /\ t \in Seq(Nat) /\ Len(t) = Len(<<0>>) + Len(lanes)
          /\ \A p \in 1 .. Len(<<0>>) + Len(lanes) :
                t[p] = IF p <= Len(<<0>>) THEN <<0>>[p] ELSE lanes[p - Len(<<0>>)]
      BY <1>7, <2>1, ConcatProperties
    <3> QED BY ONLY <1>7, <2>1, <3>1
  <2> HIDE DEF t
  <2>3. t[1] = 0
    <3>1. 1 \in 1 .. 1 + w /\ 1 <= 1
      OBVIOUS
    <3> QED BY <2>1, <2>2, <3>1
  <2>4. \A p \in 1 .. w : p + 1 \in 1 .. 1 + w /\ ~(p + 1 <= 1) /\ (p + 1) - 1 = p
    OBVIOUS
  <2>5. \A p \in 1 .. w + 1 : p = 1 \/ (p - 1 \in 1 .. w /\ ~(p <= 1))
    OBVIOUS
  <2>6. \A p \in 1 .. w : t[p + 1] = lanes[p]
    BY <2>2, <2>4
  <2>7. \A p \in 1 .. w + 1 : p = 1 \/ (p - 1 \in 1 .. w /\ t[p] = lanes[p - 1])
    BY <2>2, <2>5
  <2> QED BY <2>2, <2>3, <2>6, <2>7
<1>10. DOMAIN body = 1 .. s /\ \A p \in 1 .. s : body[p] =
          Opt!Into(Opt!Lane(((p - 1) \div u) % m, (p - 1) % u), p - 1)
  OBVIOUS
<1>11. \A p \in 1 .. w : lanes[p] = Opt!Lane((p - 1) % m, (p - 1) \div m)
  OBVIOUS
<1> HIDE DEF c, lanes, body, t
<1>12. Accs(c) = {t[p] : p \in 1 .. w + 1}
  BY <1>3, <1>8 DEF Accs
<1>13. ASSUME NEW p \in 1 .. w, NEW q \in 1 .. w, lanes[p] = lanes[q] PROVE p = q
  <2>1. PICK a \in 0 .. m - 1, l \in 0 .. u - 1 :
             a = (p - 1) % m /\ l = (p - 1) \div m /\ p - 1 = m * l + a
    BY <1>5
  <2>2. PICK b \in 0 .. m - 1, h \in 0 .. u - 1 :
             b = (q - 1) % m /\ h = (q - 1) \div m /\ q - 1 = m * h + b
    BY <1>5
  <2>3. lanes[p] = 1 + (u * a + l) /\ lanes[q] = 1 + (u * b + h)
    <3>1. lanes[p] = Opt!Lane(a, l) /\ lanes[q] = Opt!Lane(b, h)
      BY ONLY <1>11, <2>1, <2>2
    <3>2. Opt!Lane(a, l) = 1 + (u * a + l) /\ Opt!Lane(b, h) = 1 + (u * b + h)
      BY <1>4
    <3> QED BY ONLY <3>1, <3>2
  <2>4. u * a + l = u * b + h
    <3>1. u * a \in Nat /\ u * b \in Nat
      OBVIOUS
    <3>2. PICK e \in Nat, f \in Nat : e = u * a /\ f = u * b
      BY ONLY <3>1
    <3>3. 1 + (e + l) = 1 + (f + h)
      BY <1>13, <2>3, <3>2
    <3>4. e + l = f + h
      BY <3>3
    <3> QED BY <3>2, <3>4
  <2>5. a = b /\ l = h
    BY <1>1, <2>4, Digits
  <2>6. p - 1 = q - 1
    BY <2>1, <2>2, <2>5
  <2> QED BY <2>6
<1>14. \A p, q \in 1 .. w + 1 : t[p] = t[q] => p = q
  <2> TAKE p, q \in 1 .. w + 1
  <2>1. CASE p = 1 \/ q = 1
    <3>1. ASSUME NEW x \in 1 .. w + 1, x /= 1 PROVE t[x] /= 0
      <4>1. x - 1 \in 1 .. w /\ t[x] = lanes[x - 1]
        BY <1>8, <3>1
      <4>2. lanes[x - 1] /= 0
        BY <1>6, <4>1
      <4> QED BY <4>1, <4>2
    <3> QED BY <1>8, <2>1, <3>1
  <2>2. CASE p /= 1 /\ q /= 1
    <3>1. p - 1 \in 1 .. w /\ q - 1 \in 1 .. w
      BY <2>2
    <3>2. t[p] = t[q] => lanes[p - 1] = lanes[q - 1]
      BY <1>8, <2>2
    <3>3. t[p] = t[q] => p - 1 = q - 1
      BY <1>13, <3>1, <3>2
    <3> QED BY <3>3
  <2> QED BY <2>1, <2>2
<1>15. 0 \in Accs(c)
  BY <1>8, <1>12
<1>16. \A p \in 1 .. s : \E a \in Accs(c) : c.body[p] = Opt!Into(a, p - 1)
  <2> TAKE p \in 1 .. s
  <2>1. p - 1 \in Nat
    OBVIOUS
  <2>2. (p - 1) \div u \in Nat /\ (p - 1) % u \in 0 .. u - 1
    BY <1>1, <2>1, DivMod
  <2>3. PICK x \in Nat, l \in 0 .. u - 1 : x = (p - 1) \div u /\ l = (p - 1) % u
    BY ONLY <2>2
  <2>4. x % m \in 0 .. m - 1
    BY DivMod
  <2>5. PICK a \in 0 .. m - 1 : a = x % m
    BY ONLY <2>4
  <2>6. PICK y \in Nat : y = m * l + a /\ y % m = a /\ y \div m = l
    BY <1>1, DigitsOf
  <2>7. y + 1 \in 1 .. w /\ (y + 1) - 1 = y
    <3>1. l < u
      BY <1>1
    <3>2. m * u >= m * l + m /\ m * u \in Nat /\ m * l \in Nat
      BY <1>1, <3>1, NextMultiple
    <3>3. PICK e \in Nat, f \in Nat : e = m * l /\ f = m * u
      BY ONLY <3>2
    <3>4. f >= e + m /\ w = f /\ y = e + a
      BY <1>2, <2>6, <3>2, <3>3
    <3> QED BY ONLY <3>3, <3>4, a \in 0 .. m - 1, m \in Nat, y \in Nat
  <2>8. lanes[y + 1] = Opt!Lane(a, l)
    BY <1>11, <2>6, <2>7
  <2>9. Opt!Lane(a, l) \in Accs(c)
    <3>1. t[(y + 1) + 1] = Opt!Lane(a, l)
      BY <1>8, <2>7, <2>8
    <3>2. (y + 1) + 1 \in 1 .. w + 1
      BY <2>7
    <3> QED BY <1>12, <3>1, <3>2
  <2>10. c.body[p] = Opt!Into(Opt!Lane(a, l), p - 1)
    BY <1>3, <1>10, <2>3, <2>5
  <2> QED BY <2>9, <2>10
<1>17. Plain(c)
  BY <1>2, <1>3, <1>8, <1>10, <1>14, <1>15, <1>16 DEF Plain
<1> QED BY <1>17 DEF c

(* What the functions of the files are. *)
Known(c) == c = Opt!OldUnroll8x8 \/ Sensible(c)
TableRight(t) == \A name \in DOMAIN t : Known(t[name])

(* Every shape is one of those. *)
LEMMA ShapesRight ==
  ASSUME VSIZE \in Nat \ {0}
  PROVE  /\ \A n, m \in Nat : 0 < m /\ m <= n => Known(Opt!Parallel(n, m))
         /\ \A n \in Nat : n > 0 => Known(Opt!Unrolled(n)) /\ Known(Opt!Whole(n))
         /\ \A n, m \in Nat : n > 0 /\ m > 0 => Known(Opt!Vectors(n, m))
         /\ Known(Opt!Halves) /\ Known(Opt!Unroll8x4) /\ Known(Opt!OldUnroll8x4)
         /\ Known(Opt!OldUnroll8x8)
<1>1. ASSUME NEW n \in Nat, NEW m \in Nat, 0 < m, m <= n PROVE Known(Opt!Parallel(n, m))
  BY <1>1, ParallelRight DEF Known, Sensible
<1>2. ASSUME NEW n \in Nat, n > 0 PROVE Known(Opt!Unrolled(n)) /\ Known(Opt!Whole(n))
  BY <1>2, WholeRight DEF Known, Sensible
<1>3. ASSUME NEW n \in Nat, NEW m \in Nat, n > 0, m > 0 PROVE Known(Opt!Vectors(n, m))
  BY <1>3, VectorsRight DEF Known, Sensible
<1>4. /\ Known(Opt!Halves) /\ Known(Opt!Unroll8x4) /\ Known(Opt!OldUnroll8x4)
      /\ Known(Opt!OldUnroll8x8)
  BY FourRight DEF Known, Sensible
<1> QED BY <1>1, <1>2, <1>3, <1>4

(* The tables that are written out. *)
LEMMA TablesRight ==
  ASSUME VSIZE \in Nat \ {0}
  PROVE  /\ TableRight(Opt!combine_Loops)
         /\ TableRight(Opt!combine_UnrolledTo4)
         /\ TableRight(Opt!combine_Unrolled5To8)
         /\ TableRight(Opt!combine_Unrolled9To16)
         /\ TableRight(Opt!combine_UnrolledPointers)
         /\ TableRight(Opt!combine_Parallel2To4)
         /\ TableRight(Opt!combine_Parallel12To16)
         /\ TableRight(Opt!combine_Parallel5To20)
         /\ TableRight(Opt!combine_Parallel7To10)
         /\ TableRight(Opt!combine_SplitOrPointers)
         /\ TableRight(Opt!combine_PointersAndGroups)
         /\ TableRight(Opt!combine_Groups5To9)
         /\ TableRight(Opt!combine_Groups10To12)
         /\ TableRight(Opt!combine_Vectors2To8)
         /\ TableRight(Opt!combine_Vectors10To12)
         /\ TableRight(Opt!combine_VectorGroups)
         /\ TableRight(Opt!dpb_Parallel12To16)
         /\ TableRight(Opt!dpb_Parallel5To20)
         /\ TableRight(Opt!dpb_PointersAndGroups)
         /\ TableRight(Opt!dpb_Vectors10To12)
<1>1. TableRight(Opt!combine_Loops)
  BY ShapesRight DEF TableRight, Opt!combine_Loops
<1>2. TableRight(Opt!combine_UnrolledTo4)
  BY ShapesRight DEF TableRight, Opt!combine_UnrolledTo4
<1>3. TableRight(Opt!combine_Unrolled5To8)
  BY ShapesRight DEF TableRight, Opt!combine_Unrolled5To8
<1>4. TableRight(Opt!combine_Unrolled9To16)
  BY ShapesRight DEF TableRight, Opt!combine_Unrolled9To16
<1>5. TableRight(Opt!combine_UnrolledPointers)
  BY ShapesRight DEF TableRight, Opt!combine_UnrolledPointers
<1>6. TableRight(Opt!combine_Parallel2To4)
  BY ShapesRight DEF TableRight, Opt!combine_Parallel2To4
<1>7. TableRight(Opt!combine_Parallel12To16)
  BY ShapesRight DEF TableRight, Opt!combine_Parallel12To16
<1>8. TableRight(Opt!combine_Parallel5To20)
  BY ShapesRight DEF TableRight, Opt!combine_Parallel5To20
<1>9. TableRight(Opt!combine_Parallel7To10)
  BY ShapesRight DEF TableRight, Opt!combine_Parallel7To10
<1>10. TableRight(Opt!combine_SplitOrPointers)
  BY ShapesRight DEF TableRight, Opt!combine_SplitOrPointers
<1>11. TableRight(Opt!combine_PointersAndGroups)
  BY ShapesRight DEF TableRight, Opt!combine_PointersAndGroups
<1>12. TableRight(Opt!combine_Groups5To9)
  BY ShapesRight DEF TableRight, Opt!combine_Groups5To9
<1>13. TableRight(Opt!combine_Groups10To12)
  BY ShapesRight DEF TableRight, Opt!combine_Groups10To12
<1>14. TableRight(Opt!combine_Vectors2To8)
  BY ShapesRight DEF TableRight, Opt!combine_Vectors2To8
<1>15. TableRight(Opt!combine_Vectors10To12)
  BY ShapesRight DEF TableRight, Opt!combine_Vectors10To12
<1>16. TableRight(Opt!combine_VectorGroups)
  BY ShapesRight DEF TableRight, Opt!combine_VectorGroups
<1>17. TableRight(Opt!dpb_Parallel12To16)
  BY ShapesRight DEF TableRight, Opt!dpb_Parallel12To16
<1>18. TableRight(Opt!dpb_Parallel5To20)
  BY ShapesRight DEF TableRight, Opt!dpb_Parallel5To20
<1>19. TableRight(Opt!dpb_PointersAndGroups)
  BY ShapesRight DEF TableRight, Opt!dpb_PointersAndGroups
<1>20. TableRight(Opt!dpb_Vectors10To12)
  BY ShapesRight DEF TableRight, Opt!dpb_Vectors10To12
<1> QED BY <1>1, <1>2, <1>3, <1>4, <1>5, <1>6, <1>7, <1>8, <1>9, <1>10, <1>11, <1>12,
           <1>13, <1>14, <1>15, <1>16, <1>17, <1>18, <1>19, <1>20

(* All the functions of a file. *)
LEMMA FunctionsRight ==
  ASSUME VSIZE \in Nat \ {0}, NEW c \in Opt!Functions
  PROVE  c = Opt!OldUnroll8x8 \/ Sensible(c)
<1>1. PICK t \in Opt!Tables : \E name \in DOMAIN t : c = t[name]
  BY DEF Opt!Functions
<1>2. ASSUME NEW x \in Opt!combine_Functions PROVE TableRight(x)
  BY TablesRight DEF Opt!combine_Functions
<1>3. ASSUME NEW x \in Opt!dpb_Functions PROVE TableRight(x)
  BY TablesRight DEF Opt!dpb_Functions, Opt!dpb_Loops, Opt!dpb_UnrolledTo4,
    Opt!dpb_Unrolled5To8, Opt!dpb_Unrolled9To16, Opt!dpb_UnrolledPointers,
    Opt!dpb_Parallel2To4, Opt!dpb_Parallel7To10, Opt!dpb_SplitOrPointers,
    Opt!dpb_Groups5To9, Opt!dpb_Groups10To12, Opt!dpb_Vectors2To8, Opt!dpb_VectorGroups
<1>4. ASSUME NEW x \in Opt!dpbO1_Functions PROVE TableRight(x)
  BY TablesRight DEF Opt!dpbO1_Functions, Opt!dpbO1_Loops, Opt!dpbO1_UnrolledTo4,
    Opt!dpbO1_Unrolled5To8, Opt!dpbO1_Unrolled9To16, Opt!dpbO1_UnrolledPointers,
    Opt!dpbO1_Parallel2To4, Opt!dpbO1_Parallel12To16, Opt!dpbO1_Parallel5To20,
    Opt!dpbO1_Parallel7To10, Opt!dpbO1_SplitOrPointers, Opt!dpbO1_PointersAndGroups,
    Opt!dpbO1_Groups5To9, Opt!dpbO1_Groups10To12, Opt!dpbO1_Vectors2To8,
    Opt!dpbO1_Vectors10To12, Opt!dpbO1_VectorGroups
<1>5. ASSUME NEW x \in Opt!dpbO2_Functions PROVE TableRight(x)
  BY TablesRight DEF Opt!dpbO2_Functions, Opt!dpbO2_Loops, Opt!dpbO2_UnrolledTo4,
    Opt!dpbO2_Unrolled5To8, Opt!dpbO2_Unrolled9To16, Opt!dpbO2_UnrolledPointers,
    Opt!dpbO2_Parallel2To4, Opt!dpbO2_Parallel12To16, Opt!dpbO2_Parallel5To20,
    Opt!dpbO2_Parallel7To10, Opt!dpbO2_SplitOrPointers, Opt!dpbO2_PointersAndGroups,
    Opt!dpbO2_Groups5To9, Opt!dpbO2_Groups10To12, Opt!dpbO2_Vectors2To8,
    Opt!dpbO2_Vectors10To12, Opt!dpbO2_VectorGroups
<1>6. ASSUME NEW x \in Opt!fpbO1_Functions PROVE TableRight(x)
  BY TablesRight DEF Opt!fpbO1_Functions, Opt!fpbO1_Loops, Opt!fpbO1_UnrolledTo4,
    Opt!fpbO1_Unrolled5To8, Opt!fpbO1_Unrolled9To16, Opt!fpbO1_UnrolledPointers,
    Opt!fpbO1_Parallel2To4, Opt!fpbO1_Parallel12To16, Opt!fpbO1_Parallel5To20,
    Opt!fpbO1_Parallel7To10, Opt!fpbO1_SplitOrPointers, Opt!fpbO1_PointersAndGroups,
    Opt!fpbO1_Groups5To9, Opt!fpbO1_Groups10To12, Opt!fpbO1_Vectors2To8,
    Opt!fpbO1_Vectors10To12, Opt!fpbO1_VectorGroups
<1>7. ASSUME NEW x \in Opt!fpbO2_Functions PROVE TableRight(x)
  BY TablesRight DEF Opt!fpbO2_Functions, Opt!fpbO2_Loops, Opt!fpbO2_UnrolledTo4,
    Opt!fpbO2_Unrolled5To8, Opt!fpbO2_Unrolled9To16, Opt!fpbO2_UnrolledPointers,
    Opt!fpbO2_Parallel2To4, Opt!fpbO2_Parallel12To16, Opt!fpbO2_Parallel5To20,
    Opt!fpbO2_Parallel7To10, Opt!fpbO2_SplitOrPointers, Opt!fpbO2_PointersAndGroups,
    Opt!fpbO2_Groups5To9, Opt!fpbO2_Groups10To12, Opt!fpbO2_Vectors2To8,
    Opt!fpbO2_Vectors10To12, Opt!fpbO2_VectorGroups
<1>8. ASSUME NEW x \in Opt!lsbO1_Functions PROVE TableRight(x)
  BY TablesRight DEF Opt!lsbO1_Functions, Opt!lsbO1_Loops, Opt!lsbO1_UnrolledTo4,
    Opt!lsbO1_Unrolled5To8, Opt!lsbO1_Unrolled9To16, Opt!lsbO1_UnrolledPointers,
    Opt!lsbO1_Parallel2To4, Opt!lsbO1_Parallel12To16, Opt!lsbO1_Parallel5To20,
    Opt!lsbO1_Parallel7To10, Opt!lsbO1_SplitOrPointers, Opt!lsbO1_PointersAndGroups,
    Opt!lsbO1_Groups5To9, Opt!lsbO1_Groups10To12, Opt!lsbO1_Vectors2To8,
    Opt!lsbO1_Vectors10To12, Opt!lsbO1_VectorGroups
<1>9. ASSUME NEW x \in Opt!lpbO1_Functions PROVE TableRight(x)
  BY TablesRight DEF Opt!lpbO1_Functions, Opt!lpbO1_Loops, Opt!lpbO1_UnrolledTo4,
    Opt!lpbO1_Unrolled5To8, Opt!lpbO1_Unrolled9To16, Opt!lpbO1_UnrolledPointers,
    Opt!lpbO1_Parallel2To4, Opt!lpbO1_Parallel12To16, Opt!lpbO1_Parallel5To20,
    Opt!lpbO1_Parallel7To10, Opt!lpbO1_SplitOrPointers, Opt!lpbO1_PointersAndGroups,
    Opt!lpbO1_Groups5To9, Opt!lpbO1_Groups10To12, Opt!lpbO1_Vectors2To8,
    Opt!lpbO1_Vectors10To12, Opt!lpbO1_VectorGroups
<1>10. ASSUME NEW x \in Opt!ipbO1_Functions PROVE TableRight(x)
  BY TablesRight DEF Opt!ipbO1_Functions, Opt!ipbO1_Loops, Opt!ipbO1_UnrolledTo4,
    Opt!ipbO1_Unrolled5To8, Opt!ipbO1_Unrolled9To16, Opt!ipbO1_UnrolledPointers,
    Opt!ipbO1_Parallel2To4, Opt!ipbO1_Parallel12To16, Opt!ipbO1_Parallel5To20,
    Opt!ipbO1_Parallel7To10, Opt!ipbO1_SplitOrPointers, Opt!ipbO1_PointersAndGroups,
    Opt!ipbO1_Groups5To9, Opt!ipbO1_Groups10To12, Opt!ipbO1_Vectors2To8,
    Opt!ipbO1_Vectors10To12, Opt!ipbO1_VectorGroups
<1>11. TableRight(t)
  BY <1>1, <1>2, <1>3, <1>4, <1>5, <1>6, <1>7, <1>8, <1>9, <1>10 DEF Opt!Tables
<1> QED BY <1>1, <1>11 DEF TableRight, Known

(* Where the function that loses elements is not called, the call is right. *)
CallsRight == combiner /= Opt!OldUnroll8x8 => CallInv

(* At first.                                                               *)
LEMMA CallsStart == ProgramsInit => CallsRight
<1> SUFFICES ASSUME ProgramsInit, combiner /= Opt!OldUnroll8x8 PROVE CallInv
  BY DEF CallsRight
<1>1. VSIZE \in Nat \ {0}
  BY ProgramsAssumption DEF ProgramsAssumption, Opt!CombinersAssumption
<1>2. combiner \in Opt!Functions /\ Opt!Init
  BY DEF ProgramsInit
<1> QED BY <1>1, <1>2, FunctionsRight, CallStarts

(* And in each step of the composition. *)
LEMMA CallsGoOn == CallsRight /\ [ProgramsNext]_programVars => CallsRight'
<1> SUFFICES ASSUME CallsRight, [ProgramsNext]_programVars, combiner' /= Opt!OldUnroll8x8'
             PROVE  CallInv'
  BY DEF CallsRight
<1>1. Opt!Next \/ UNCHANGED combineVars
  BY CombinersStep
<1>2. combiner' = combiner /\ Opt!OldUnroll8x8' = Opt!OldUnroll8x8
  BY <1>1 DEF Opt!Next, Opt!Align, Opt!MainLoop, Opt!MainEnds, Opt!Rest, Opt!Return, combineVars
<1> QED BY <1>1, <1>2, CallGoesOn DEF CallsRight

(* Every function of the nine files but the one computes what combine1     *)
(* does, for any length, alignment and number of elements in a vec_t.      *)
THEOREM CombinersRight == ProgramsSpec => []CombinersAgree
<1>1. CallsRight => CombinersAgree
  BY DEF CallsRight, CallInv, CombinersAgree, Opt!CombinersAgree, Opt!SameAsCombine1
<1> QED BY <1>1, CallsStart, CallsGoOn, PTL DEF ProgramsSpec

================================================================================
