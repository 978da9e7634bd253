----------------------------- MODULE SharedCounters -----------------------------
(***************************************************************************)
(* The programs of conc/ in which threads add to shared variables or get   *)
(* their number through a pointer: badcnt.c, goodcnt.c, psum-mutex.c,      *)
(* psum-array.c, psum-local.c, race.c, norace.c, sharing.c.  main creates  *)
(* the threads, joins them and looks at the result; x += e is a load and a *)
(* store.                                                                  *)
(***************************************************************************)
EXTENDS Integers, FiniteSets, FiniteSetsExt

CONSTANTS NThreads,   \* nthreads of psum-*.c; N of race.c, norace.c and sharing.c
          PerThread   \* niters of badcnt.c and goodcnt.c; nelems_per_thread

SharedAssumption == NThreads \in Nat \ {0} /\ PerThread \in Nat

VARIABLES counter,    \* the program
          mainAt, i,  \* main: its next statement and its loop variable
          cell,       \* cell[j]: myid[j] of psum-*.c, *ptr of norace.c
          thr,        \* thr[t]: the next statement of thread t
          myid, k,    \* locals of the threads: number and loop counter
          reg,        \* reg[t]: the register, or sum of psum-local.c
          mutex,      \* the semaphore of goodcnt.c and psum-mutex.c
          sum,        \* sum[Global]: cnt or gsum; sum[j]: psum[j]
          result      \* what main checks

counterVars == <<counter, mainAt, i, cell, thr, myid, k, reg, mutex, sum, result>>

Counting == {"badcnt", "goodcnt"}
Psums == {"psum-mutex", "psum-array", "psum-local"}
Ids == {"race", "norace", "sharing"}
Peers == 0 .. NThreads - 1
Global == -1
Unknown == -1   \* a cell or a number nobody has written yet

Init == /\ counter \in Counting \cup Psums \cup Ids
        /\ mainAt = "create" /\ i = 0
        /\ cell = [j \in Peers |-> Unknown]
        /\ thr = [t \in Peers |-> "new"]
        /\ myid = [t \in Peers |-> Unknown]
        /\ k = [t \in Peers |-> 0]
        /\ reg = [t \in Peers |-> 0]
        /\ mutex = 1
        /\ sum = [j \in {Global} \cup Peers |-> 0]
        /\ result = 0

(* main.  The argument is written just before Pthread_create, which starts *)
(* the thread; i++ is a step of its own, since race.c passes &i.           *)

threadVars == <<myid, k, reg, mutex, sum>>

(* Mutant: norace.c without the Malloc in the loop: one cell for all. *)
OneCell(j) == 0

CellOf(j) == j

Create == /\ mainAt = "create" /\ i < NThreads
          /\ cell' = [cell EXCEPT ![CellOf(i)] = i]
          /\ thr' = [thr EXCEPT ![i] = "entry"]
          /\ mainAt' = "incr"
          /\ UNCHANGED <<counter, i, threadVars, result>>

Incr == /\ mainAt = "incr"
        /\ i' = i + 1 /\ mainAt' = "create"
        /\ UNCHANGED <<counter, cell, thr, threadVars, result>>

(* The joins use i again, which is what a late thread of race.c reads.     *)
(* sharing.c joins nobody: Pthread_exit lets the threads finish.           *)
CreatedAll == /\ mainAt = "create" /\ i = NThreads
              /\ IF counter = "sharing" THEN mainAt' = "exit" /\ i' = i
                                        ELSE mainAt' = "join" /\ i' = 0
              /\ UNCHANGED <<counter, cell, thr, threadVars, result>>

Join == /\ mainAt = "join" /\ i < NThreads
        /\ thr[i] = "done"
        /\ i' = i + 1
        /\ UNCHANGED <<counter, mainAt, cell, thr, threadVars, result>>

(* The partial sums are added up in psum-array.c and psum-local.c. *)
Result == IF counter \in {"psum-array", "psum-local"}
          THEN MapThenSumSet(LAMBDA j : sum[j], Peers) ELSE sum[Global]

Check == /\ mainAt = "join" /\ i = NThreads
         /\ result' = Result
         /\ mainAt' = "exit"
         /\ UNCHANGED <<counter, i, cell, thr, threadVars>>

Main == Create \/ Incr \/ CreatedAll \/ Join \/ Check

(* The threads. *)

Goes(t, from, to) == /\ thr[t] = from /\ thr' = [thr EXCEPT ![t] = to]
                     /\ UNCHANGED <<counter, mainAt, i, result>>

(* myid = *vargp; norace.c then frees the cell.  race.c and norace.c print *)
(* and end here.                                                           *)
Entry(t) == /\ Goes(t, "entry", IF counter \in {"race", "norace"} THEN "done" ELSE "loop")
            /\ myid' = [myid EXCEPT ![t] = IF counter = "race" THEN i ELSE cell[CellOf(t)]]
            /\ cell' = IF counter = "norace" THEN [cell EXCEPT ![CellOf(t)] = Unknown] ELSE cell
            /\ k' = [k EXCEPT ![t] = IF counter \in Psums THEN myid'[t] * PerThread ELSE 0]
            /\ UNCHANGED <<reg, mutex, sum>>

(* start and end of the loop; ++cnt of sharing.c is done once. *)
End(t) == IF counter \in Psums THEN (myid[t] + 1) * PerThread
          ELSE IF counter = "sharing" THEN 1 ELSE PerThread
Element(t) == IF counter \in Psums THEN k[t] ELSE 1
Place(t) == IF counter \in {"psum-array", "psum-local"} THEN myid[t] ELSE Global
Locks == counter \in {"goodcnt", "psum-mutex"}

(* Mutant: P returns at once. *)
LockNoWait(t) == /\ Goes(t, "loop", "load") /\ k[t] < End(t)
                 /\ counter /= "psum-local"
                 /\ mutex' = IF Locks THEN mutex - 1 ELSE mutex
                 /\ UNCHANGED <<cell, myid, k, reg, sum>>

(* The loop goes on: P(&mutex), where there is one. *)
Lock(t) == /\ Goes(t, "loop", "load") /\ k[t] < End(t)
           /\ counter /= "psum-local"
           /\ Locks => mutex > 0
           /\ mutex' = IF Locks THEN mutex - 1 ELSE mutex
           /\ UNCHANGED <<cell, myid, k, reg, sum>>

Load(t) == /\ Goes(t, "load", "store")
           /\ reg' = [reg EXCEPT ![t] = sum[Place(t)]]
           /\ UNCHANGED <<cell, myid, k, mutex, sum>>

Store(t) == /\ Goes(t, "store", IF Locks THEN "V" ELSE "loop")
            /\ sum' = [sum EXCEPT ![Place(t)] = reg[t] + Element(t)]
            /\ k' = [k EXCEPT ![t] = @ + 1]
            /\ UNCHANGED <<cell, myid, reg, mutex>>

Unlock(t) == /\ Goes(t, "V", "loop")
             /\ mutex' = mutex + 1
             /\ UNCHANGED <<cell, myid, k, reg, sum>>

(* psum-local.c adds to its own variable and stores that at the end. *)
AddLocal(t) == /\ Goes(t, "loop", "loop") /\ k[t] < End(t)
               /\ counter = "psum-local"
               /\ reg' = [reg EXCEPT ![t] = @ + Element(t)]
               /\ k' = [k EXCEPT ![t] = @ + 1]
               /\ UNCHANGED <<cell, myid, mutex, sum>>

LoopEnds(t) == /\ Goes(t, "loop", "done") /\ k[t] = End(t)
               /\ sum' = IF counter = "psum-local" THEN [sum EXCEPT ![Place(t)] = reg[t]]
                                                   ELSE sum
               /\ UNCHANGED <<cell, myid, k, reg, mutex>>

Thread(t) == \/ Entry(t) \/ Lock(t) \/ Load(t) \/ Store(t) \/ Unlock(t)
             \/ AddLocal(t) \/ LoopEnds(t)

Next == Main \/ \E t \in Peers : Thread(t)

--------------------------------------------------------------------------------
(* Properties *)

Elements == NThreads * PerThread

(* What main prints is right: the sums of psum-*.c are n(n-1)/2 and        *)
(* goodcnt.c counts every iteration.  badcnt.c loses updates, but never    *)
(* all of them: with two iterations or more it prints at least 2, since    *)
(* the last store of a thread follows a load that saw one of its own or    *)
(* of the other's.                                                         *)
TotalsRight ==
    mainAt = "exit" =>
        /\ counter \in Psums => result = (Elements * (Elements - 1)) \div 2
        /\ counter = "goodcnt" => result = Elements
        /\ counter = "badcnt" => result >= (IF PerThread < 2 THEN PerThread ELSE 2)
                               /\ result <= Elements

(* Each thread gets its own number, although main goes on at once: in all  *)
(* the programs but race.c, which hands out the address of its own i.      *)
OwnIds == counter \in (Psums \cup Ids) \ {"race"} =>
              \A t \in Peers : myid[t] \in {Unknown, t}

ResultsRight == TotalsRight /\ OwnIds

(* main ends, and so do the threads it does not wait for. *)
Ended == mainAt = "exit" /\ \A t \in Peers : thr[t] = "done"

================================================================================
