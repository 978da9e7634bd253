------------------------------- MODULE SbufProofs -------------------------------
(***************************************************************************)
(* The lock and the semaphore accounting of sbuf.c are correct for any     *)
(* number of threads and slots, any int width, and any number of inserts,  *)
(* the wrap of the indices included.  The buffer implements the atomic     *)
(* bounded FIFO as long as fewer than INT_MAX items are inserted.          *)
(***************************************************************************)
EXTENDS Sbuf, NumberLemmas, FiniteSetTheorems, TLAPS

(* The inductive invariant: types without the upper bounds on semaphores,  *)
(* which follow from the accounting, which needs that a thread stores the  *)
(* index it would find now, which needs the lock.                          *)
Typing == /\ buf \in [Cells -> Items \cup {NoItem}]
          /\ front \in IntMin .. IntMax
          /\ rear \in IntMin .. IntMax
          /\ mutex \in Nat /\ slots \in Nat /\ items \in Nat
          /\ pc \in [Threads -> Pcs]
          /\ item \in [Threads -> Items \cup {NoItem}]
          /\ index \in [Threads -> IntMin .. IntMax]
          /\ inserts \in 0 .. MaxInserts

IInv == Typing /\ MutualExclusion /\ SemaphoresCount /\ LoadedIndexIsCurrent

(* The sets of threads at some labels are finite. *)
LEMMA AtFinite == \A L : IsFiniteSet(At(L)) /\ Cardinality(At(L)) \in Nat
<1>1. IsFiniteSet(Threads)
  BY ThreadsAssumption, FS_Union DEF Threads
<1>2. \A L : At(L) \in SUBSET Threads
  BY DEF At
<1>3. \A L : IsFiniteSet(At(L))
  BY <1>1, <1>2, FS_Subset
<1> QED BY <1>3, FS_CardinalityType

(* A set with at most one element does not have two. *)
LEMMA AtMostOne ==
  ASSUME NEW S, IsFiniteSet(S), Cardinality(S) <= 1, NEW a \in S, NEW b \in S
  PROVE  a = b
<1>1. IsFiniteSet(S \ {a}) /\ Cardinality(S \ {a}) = Cardinality(S) - 1
  BY FS_RemoveElement
<1>2. Cardinality(S) \in Nat /\ Cardinality(S \ {a}) \in Nat
  BY <1>1, FS_CardinalityType
<1>3. S \ {a} = {}
  BY <1>1, <1>2, FS_EmptySet
<1> QED BY <1>3

(* One thread moves: how many are at the labels L after the step. *)
LEMMA MoveCounts ==
  ASSUME pc \in [Threads -> Pcs], NEW t \in Threads,
         NEW from \in Pcs, NEW to \in Pcs, Goes(t, from, to), NEW L
  PROVE  /\ (from \in L <=> to \in L) => Cardinality(At(L))' = Cardinality(At(L))
         /\ from \notin L /\ to \in L => Cardinality(At(L))' = Cardinality(At(L)) + 1
         /\ from \in L /\ to \notin L => /\ Cardinality(At(L))' = Cardinality(At(L)) - 1
                                         /\ Cardinality(At(L)) >= 1
<1>1. /\ pc' = [pc EXCEPT ![t] = to] /\ pc[t] = from
      /\ t \in At(L) <=> from \in L
  BY DEF Goes, At
<1>2. (from \in L <=> to \in L) => At(L)' = At(L)
  BY <1>1 DEF At
<1>3. from \notin L /\ to \in L => At(L)' = At(L) \cup {t}
  BY <1>1 DEF At
<1>4. from \in L /\ to \notin L => At(L)' = At(L) \ {t}
  BY <1>1 DEF At
<1>5. IsFiniteSet(At(L)) /\ Cardinality(At(L)) \in Nat
  BY AtFinite
<1>6. /\ Cardinality(At(L) \cup {t}) = IF t \in At(L) THEN Cardinality(At(L))
                                                     ELSE Cardinality(At(L)) + 1
      /\ Cardinality(At(L) \ {t}) = IF t \in At(L) THEN Cardinality(At(L)) - 1
                                                  ELSE Cardinality(At(L))
      /\ IsFiniteSet(At(L) \ {t})
  BY <1>5, FS_AddElement, FS_RemoveElement
<1>7. Cardinality(At(L) \ {t}) \in Nat
  BY <1>6, FS_CardinalityType
<1>8. t \in At(L) => Cardinality(At(L)) >= 1
  BY <1>5, <1>6, <1>7
<1> QED BY <1>1, <1>2, <1>3, <1>4, <1>6, <1>8

(* The classes of labels that the accounting counts. *)
CriticalPcs == {"insert_load", "insert_store", "insert_V_mutex",
                "remove_load", "remove_store", "remove_V_mutex"}
FillingPcs == {"insert_P_mutex", "insert_load", "insert_store"}
FilledPcs  == {"insert_V_mutex", "insert_V_items"}
TakingPcs  == {"remove_P_mutex", "remove_load", "remove_store"}
TakenPcs   == {"remove_V_mutex", "remove_V_slots"}

(* MutualExclusion and SemaphoresCount, over numbers rather than sets. *)
Accounts(mx, sl, it, used, critical, filling, filled, taking, taken) ==
    /\ critical = 1 - mx
    /\ sl + filling + taken + used = N
    /\ it + filled + taking = used

(* Both invariants are the accounts, and the numbers they speak of are     *)
(* natural numbers.                                                        *)
LEMMA AccountsInv ==
    /\ MutualExclusion /\ SemaphoresCount <=>
         Accounts(mutex, slots, items, Used,
                  Cardinality(At(CriticalPcs)), Cardinality(At(FillingPcs)),
                  Cardinality(At(FilledPcs)), Cardinality(At(TakingPcs)),
                  Cardinality(At(TakenPcs)))
    /\ \A L : Cardinality(At(L)) \in Nat
BY AtFinite DEF MutualExclusion, SemaphoresCount, Accounts, Critical, Filling,
     Filled, Taking, Taken, CriticalPcs, FillingPcs, FilledPcs, TakingPcs, TakenPcs

(* The buffer holds as many items as the indices are apart, and advancing  *)
(* one of them, over the wrap or not, changes that number by one.          *)
LEMMA UsedType ==
  ASSUME front \in IntMin .. IntMax, rear \in IntMin .. IntMax
  PROVE  Used \in 0 .. 2 * IntMax + 1
BY SizeAssumption DEF Used, IntMin

(* A store of rear + 1 takes one cell.                                     *)
LEMMA UsedGrows ==
  ASSUME front \in IntMin .. IntMax, rear \in IntMin .. IntMax,
         Used < N, front' = front, rear' = Increment(rear)
  PROVE  Used' = Used + 1 /\ rear' \in IntMin .. IntMax
BY SizeAssumption DEF Used, IntMin, Increment

(* A store of front + 1 frees one.                                         *)
LEMMA UsedShrinks ==
  ASSUME front \in IntMin .. IntMax, rear \in IntMin .. IntMax,
         Used >= 1, rear' = rear, front' = Increment(front)
  PROVE  Used' = Used - 1 /\ front' \in IntMin .. IntMax
BY SizeAssumption DEF Used, IntMin, Increment

(* Two threads are never both in the critical section. *)
LEMMA CriticalIsUnique ==
  ASSUME MutualExclusion, mutex \in Nat,
         NEW t \in Threads, pc[t] \in CriticalPcs,
         NEW u \in Threads, pc[u] \in CriticalPcs
  PROVE  t = u
<1>1. Cardinality(Critical) <= 1
  BY DEF MutualExclusion
<1>2. t \in Critical /\ u \in Critical
  BY DEF Critical, At, CriticalPcs
<1>3. IsFiniteSet(Critical)
  BY AtFinite DEF Critical
<1> QED BY <1>1, <1>2, <1>3, AtMostOne

(* Initially the semaphores count an empty buffer.                         *)
LEMMA InitInv == Init => IInv
<1> SUFFICES ASSUME Init PROVE IInv
  OBVIOUS
<1>1. \A L : L \subseteq Pcs \ {"idle"} => At(L) = {}
  BY DEF Init, At
<1>2. /\ At(CriticalPcs) = {} /\ At(FillingPcs) = {} /\ At(FilledPcs) = {}
      /\ At(TakingPcs) = {} /\ At(TakenPcs) = {}
  BY <1>1 DEF CriticalPcs, FillingPcs, FilledPcs, TakingPcs, TakenPcs,
              Pcs, InsertPcs, RemovePcs
<1>3. Used = 0
  BY DEF Init, Used
<1>4. MutualExclusion /\ SemaphoresCount
  BY <1>2, <1>3, AccountsInv, FS_EmptySet, SizeAssumption DEF Init, Accounts
<1>5. Typing
  BY SizeAssumption, ItemsAssumption DEF Init, Typing, IntMin, Pcs
<1>6. LoadedIndexIsCurrent
  BY DEF Init, LoadedIndexIsCurrent
<1> QED BY <1>4, <1>5, <1>6 DEF IInv

(* Every step preserves the invariant.  <1>move counts, for the thread     *)
(* that moves, each class of labels before and after.                      *)
LEMMA NextInv == IInv /\ [Next]_vars => IInv'
<1> SUFFICES ASSUME IInv, [Next]_vars PROVE IInv'
  OBVIOUS
<1> USE DEF IInv
<1> DEFINE C(L) == Cardinality(At(L))
           Acc == Accounts(mutex, slots, items, Used, C(CriticalPcs), C(FillingPcs),
                           C(FilledPcs), C(TakingPcs), C(TakenPcs))
<1>nat. \A L : C(L) \in Nat
  BY AccountsInv
<1>acc. Acc
  BY AccountsInv
<1>goal. ASSUME Typing', Acc', LoadedIndexIsCurrent' PROVE IInv'
  BY <1>goal, AtFinite DEF MutualExclusion, SemaphoresCount, Accounts, Critical, Filling,
     Filled, Taking, Taken, CriticalPcs, FillingPcs, FilledPcs, TakingPcs, TakenPcs
<1>used. Used \in Nat
  BY UsedType, SizeAssumption DEF Typing
<1>move. ASSUME NEW t \in Threads, NEW from \in Pcs, NEW to \in Pcs, Goes(t, from, to)
         PROVE  \A L : /\ (from \in L <=> to \in L) => C(L)' = C(L)
                       /\ from \notin L /\ to \in L => C(L)' = C(L) + 1
                       /\ from \in L /\ to \notin L => C(L)' = C(L) - 1 /\ C(L) >= 1
  BY <1>move, MoveCounts DEF Typing
<1> HIDE DEF C
<1> USE DEF Accounts, Pcs, InsertPcs, RemovePcs
<1>1. ASSUME NEW t \in Producers, NEW x \in Items, CallInsert(t, x) PROVE IInv'
  <2>0. t \in Threads
    BY DEF Threads
  <2>1. Used' = Used
    BY <1>1 DEF CallInsert, Used
  <2>2. Goes(t, "idle", "insert_P_slots")
    BY <1>1 DEF CallInsert
  <2>3. Acc'
    BY <2>0, <2>1, <2>2, <1>move, <1>acc, <1>nat, <1>1 DEF CallInsert, CriticalPcs, FillingPcs, FilledPcs, TakingPcs, TakenPcs, sem, Typing
  <2>4. Typing'
    BY <2>0, <1>1, ItemsAssumption, SizeAssumption DEF CallInsert, Goes, sem, Typing
  <2>5. LoadedIndexIsCurrent'
    BY <2>0, <1>1 DEF CallInsert, Goes, sem, Typing, LoadedIndexIsCurrent
  <2> QED BY <2>3, <2>4, <2>5, <1>goal
<1>2. ASSUME NEW t \in Consumers, CallRemove(t) PROVE IInv'
  <2>0. t \in Threads
    BY DEF Threads
  <2>1. Used' = Used
    BY <1>2 DEF CallRemove, Used
  <2>2. Goes(t, "idle", "remove_P_items")
    BY <1>2 DEF CallRemove
  <2>3. Acc'
    BY <2>0, <2>1, <2>2, <1>move, <1>acc, <1>nat, <1>2 DEF CallRemove, CriticalPcs, FillingPcs, FilledPcs, TakingPcs, TakenPcs, sem, Typing
  <2>4. Typing'
    BY <2>0, <1>2, ItemsAssumption, SizeAssumption DEF CallRemove, Goes, sem, Typing
  <2>5. LoadedIndexIsCurrent'
    BY <2>0, <1>2 DEF CallRemove, Goes, sem, Typing, LoadedIndexIsCurrent
  <2> QED BY <2>3, <2>4, <2>5, <1>goal
<1>3. ASSUME NEW t \in Threads, PSlots(t) PROVE IInv'
  <2>1. Used' = Used
    BY <1>3 DEF PSlots, Used
  <2>2. Goes(t, "insert_P_slots", "insert_P_mutex")
    BY <1>3 DEF PSlots
  <2>3. Acc'
    BY <2>1, <2>2, <1>move, <1>acc, <1>nat, <1>3 DEF PSlots, CriticalPcs, FillingPcs, FilledPcs, TakingPcs, TakenPcs, sem, Typing
  <2>4. Typing'
    BY <1>3, ItemsAssumption, SizeAssumption DEF PSlots, Goes, sem, Typing
  <2>5. LoadedIndexIsCurrent'
    BY <1>3 DEF PSlots, Goes, sem, Typing, LoadedIndexIsCurrent
  <2> QED BY <2>3, <2>4, <2>5, <1>goal
<1>4. ASSUME NEW t \in Threads, PItems(t) PROVE IInv'
  <2>1. Used' = Used
    BY <1>4 DEF PItems, Used
  <2>2. Goes(t, "remove_P_items", "remove_P_mutex")
    BY <1>4 DEF PItems
  <2>3. Acc'
    BY <2>1, <2>2, <1>move, <1>acc, <1>nat, <1>4 DEF PItems, CriticalPcs, FillingPcs, FilledPcs, TakingPcs, TakenPcs, sem, Typing
  <2>4. Typing'
    BY <1>4, ItemsAssumption, SizeAssumption DEF PItems, Goes, sem, Typing
  <2>5. LoadedIndexIsCurrent'
    BY <1>4 DEF PItems, Goes, sem, Typing, LoadedIndexIsCurrent
  <2> QED BY <2>3, <2>4, <2>5, <1>goal
<1>5. ASSUME NEW t \in Threads, PMutex(t) PROVE IInv'
  <2>1. Used' = Used
    BY <1>5 DEF PMutex, Used
  <2>2. Acc'
    <3>1. CASE Goes(t, "insert_P_mutex", "insert_load")
      BY <2>1, <3>1, <1>move, <1>acc, <1>nat, <1>5 DEF PMutex, CriticalPcs, FillingPcs, FilledPcs, TakingPcs, TakenPcs, sem, Typing
    <3>2. CASE Goes(t, "remove_P_mutex", "remove_load")
      BY <2>1, <3>2, <1>move, <1>acc, <1>nat, <1>5 DEF PMutex, CriticalPcs, FillingPcs, FilledPcs, TakingPcs, TakenPcs, sem, Typing
    <3> QED BY <3>1, <3>2, <1>5 DEF PMutex
  <2>4. Typing'
    BY <1>5, ItemsAssumption, SizeAssumption DEF PMutex, Goes, sem, Typing
  <2>5. LoadedIndexIsCurrent'
    BY <1>5 DEF PMutex, Goes, sem, Typing, LoadedIndexIsCurrent
  <2> QED BY <2>2, <2>4, <2>5, <1>goal
<1>6. ASSUME NEW t \in Threads, LoadRear(t) PROVE IInv'
  <2>1. Used' = Used
    BY <1>6 DEF LoadRear, Used
  <2>2. Goes(t, "insert_load", "insert_store")
    BY <1>6 DEF LoadRear
  <2>3. Acc'
    BY <2>1, <2>2, <1>move, <1>acc, <1>nat, <1>6 DEF LoadRear, CriticalPcs, FillingPcs, FilledPcs, TakingPcs, TakenPcs, sem, Typing
  <2>4. Typing'
    BY <1>6, ItemsAssumption, SizeAssumption DEF LoadRear, Goes, sem, Typing
  <2>5. LoadedIndexIsCurrent'
    BY <1>6 DEF LoadRear, Goes, sem, Typing, LoadedIndexIsCurrent
  <2> QED BY <2>3, <2>4, <2>5, <1>goal
<1>7. ASSUME NEW t \in Threads, LoadFront(t) PROVE IInv'
  <2>1. Used' = Used
    BY <1>7 DEF LoadFront, Used
  <2>2. Goes(t, "remove_load", "remove_store")
    BY <1>7 DEF LoadFront
  <2>3. Acc'
    BY <2>1, <2>2, <1>move, <1>acc, <1>nat, <1>7 DEF LoadFront, CriticalPcs, FillingPcs, FilledPcs, TakingPcs, TakenPcs, sem, Typing
  <2>4. Typing'
    BY <1>7, ItemsAssumption, SizeAssumption DEF LoadFront, Goes, sem, Typing
  <2>5. LoadedIndexIsCurrent'
    BY <1>7 DEF LoadFront, Goes, sem, Typing, LoadedIndexIsCurrent
  <2> QED BY <2>3, <2>4, <2>5, <1>goal
<1>8. ASSUME NEW t \in Threads, StoreRear(t) PROVE IInv'
  <2>1. Used' = Used + 1 /\ rear' \in IntMin .. IntMax
    <3>1. C(FillingPcs) >= 1
      BY <1>8, <1>move DEF StoreRear, FillingPcs, FilledPcs
    <3>2. rear' = Increment(rear) /\ front' = front
      BY <1>8 DEF StoreRear, LoadedIndexIsCurrent, Goes
    <3>3. Used < N
      BY <3>1, <1>acc, <1>nat, <1>used, SizeAssumption DEF Typing
    <3> QED BY <3>2, <3>3, UsedGrows DEF Typing
  <2>2. Goes(t, "insert_store", "insert_V_mutex")
    BY <1>8 DEF StoreRear
  <2>3. Acc'
    BY <2>1, <2>2, <1>move, <1>acc, <1>nat, <1>8 DEF StoreRear, CriticalPcs, FillingPcs, FilledPcs, TakingPcs, TakenPcs, sem, Typing
  <2>4. Typing'
    BY <1>8, <2>1, ItemsAssumption, SizeAssumption DEF StoreRear, Goes, sem, Typing, Cells, IntMin
  <2>5. LoadedIndexIsCurrent'
    <3>1. \A u \in Threads : pc[u] \in CriticalPcs => u = t
      BY <1>8, CriticalIsUnique DEF StoreRear, Goes, Typing, CriticalPcs
    <3>2. \A u \in Threads : pc'[u] \notin {"insert_store", "remove_store"}
      BY <1>8, <3>1 DEF StoreRear, Goes, Typing, CriticalPcs
    <3> QED BY <3>2 DEF LoadedIndexIsCurrent
  <2> QED BY <2>3, <2>4, <2>5, <1>goal
<1>9. ASSUME NEW t \in Threads, StoreFront(t) PROVE IInv'
  <2>1. Used' = Used - 1 /\ front' \in IntMin .. IntMax
    <3>1. C(TakingPcs) >= 1
      BY <1>9, <1>move DEF StoreFront, TakingPcs, TakenPcs
    <3>2. front' = Increment(front) /\ rear' = rear
      BY <1>9 DEF StoreFront, LoadedIndexIsCurrent, Goes
    <3>3. Used >= 1
      BY <3>1, <1>acc, <1>nat, <1>used DEF Typing
    <3> QED BY <3>2, <3>3, UsedShrinks DEF Typing
  <2>2. Goes(t, "remove_store", "remove_V_mutex")
    BY <1>9 DEF StoreFront
  <2>3. Acc'
    BY <2>1, <2>2, <1>move, <1>acc, <1>nat, <1>9 DEF StoreFront, CriticalPcs, FillingPcs, FilledPcs, TakingPcs, TakenPcs, sem, Typing
  <2>4. Typing'
    BY <1>9, <2>1, ItemsAssumption, SizeAssumption DEF StoreFront, Goes, sem, Typing, Cells, IntMin
  <2>5. LoadedIndexIsCurrent'
    <3>1. \A u \in Threads : pc[u] \in CriticalPcs => u = t
      BY <1>9, CriticalIsUnique DEF StoreFront, Goes, Typing, CriticalPcs
    <3>2. \A u \in Threads : pc'[u] \notin {"insert_store", "remove_store"}
      BY <1>9, <3>1 DEF StoreFront, Goes, Typing, CriticalPcs
    <3> QED BY <3>2 DEF LoadedIndexIsCurrent
  <2> QED BY <2>3, <2>4, <2>5, <1>goal
<1>10. ASSUME NEW t \in Threads, VMutex(t) PROVE IInv'
  <2>1. Used' = Used
    BY <1>10 DEF VMutex, Used
  <2>2. Acc'
    <3>1. CASE Goes(t, "insert_V_mutex", "insert_V_items")
      BY <2>1, <3>1, <1>move, <1>acc, <1>nat, <1>10 DEF VMutex, CriticalPcs, FillingPcs, FilledPcs, TakingPcs, TakenPcs, sem, Typing
    <3>2. CASE Goes(t, "remove_V_mutex", "remove_V_slots")
      BY <2>1, <3>2, <1>move, <1>acc, <1>nat, <1>10 DEF VMutex, CriticalPcs, FillingPcs, FilledPcs, TakingPcs, TakenPcs, sem, Typing
    <3> QED BY <3>1, <3>2, <1>10 DEF VMutex
  <2>4. Typing'
    BY <1>10, ItemsAssumption, SizeAssumption DEF VMutex, Goes, sem, Typing
  <2>5. LoadedIndexIsCurrent'
    BY <1>10 DEF VMutex, Goes, sem, Typing, LoadedIndexIsCurrent
  <2> QED BY <2>2, <2>4, <2>5, <1>goal
<1>11. ASSUME NEW t \in Threads, VItems(t) PROVE IInv'
  <2>1. Used' = Used
    BY <1>11 DEF VItems, Used
  <2>2. Goes(t, "insert_V_items", "idle")
    BY <1>11 DEF VItems
  <2>3. Acc'
    BY <2>1, <2>2, <1>move, <1>acc, <1>nat, <1>11 DEF VItems, CriticalPcs, FillingPcs, FilledPcs, TakingPcs, TakenPcs, sem, Typing
  <2>4. Typing'
    BY <1>11, ItemsAssumption, SizeAssumption DEF VItems, Goes, sem, Typing
  <2>5. LoadedIndexIsCurrent'
    BY <1>11 DEF VItems, Goes, sem, Typing, LoadedIndexIsCurrent
  <2> QED BY <2>3, <2>4, <2>5, <1>goal
<1>12. ASSUME NEW t \in Threads, VSlots(t) PROVE IInv'
  <2>1. Used' = Used
    BY <1>12 DEF VSlots, Used
  <2>2. Goes(t, "remove_V_slots", "idle")
    BY <1>12 DEF VSlots
  <2>3. Acc'
    BY <2>1, <2>2, <1>move, <1>acc, <1>nat, <1>12 DEF VSlots, CriticalPcs, FillingPcs, FilledPcs, TakingPcs, TakenPcs, sem, Typing
  <2>4. Typing'
    BY <1>12, ItemsAssumption, SizeAssumption DEF VSlots, Goes, sem, Typing
  <2>5. LoadedIndexIsCurrent'
    BY <1>12 DEF VSlots, Goes, sem, Typing, LoadedIndexIsCurrent
  <2> QED BY <2>3, <2>4, <2>5, <1>goal
<1>13. CASE UNCHANGED vars
  <2>1. Typing' /\ LoadedIndexIsCurrent' /\ Used' = Used
    BY <1>13 DEF vars, sem, Typing, LoadedIndexIsCurrent, Used
  <2>2. \A L : C(L)' = C(L)
    BY <1>13 DEF vars, C, At
  <2>3. Acc'
    BY <1>13, <2>1, <2>2, <1>acc DEF vars, sem
  <2> QED BY <2>1, <2>3, <1>goal
<1> QED
  BY <1>1, <1>2, <1>3, <1>4, <1>5, <1>6, <1>7, <1>8, <1>9, <1>10, <1>11, <1>12, <1>13
  DEF Next, Step, InsertStep, RemoveStep

(* Every reachable state satisfies the inductive invariant. *)
THEOREM Invariance == Spec => []IInv
<1> QED BY InitInv, NextInv, PTL DEF Spec

(* Every field keeps its type; the semaphores stay within 0 .. n.          *)
THEOREM TypeCorrect == Spec => []TypeOK
<1>1. IInv => TypeOK
  <2> SUFFICES ASSUME IInv PROVE TypeOK
    OBVIOUS
  <2>1. \A L : Cardinality(At(L)) \in Nat
    BY AtFinite
  <2>2. Used \in Nat
    BY UsedType, SizeAssumption DEF IInv, Typing
  <2>3. slots <= N /\ items <= N
    BY <2>1, <2>2, SizeAssumption
    DEF IInv, SemaphoresCount, Filling, Filled, Taking, Taken, Typing
  <2>4. mutex <= 1
    BY <2>1 DEF IInv, MutualExclusion, Critical, Typing
  <2> QED BY <2>3, <2>4, SizeAssumption DEF IInv, Typing, TypeOK
<1> QED BY <1>1, Invariance, PTL

(* At most one thread is between P(&sp->mutex) and V(&sp->mutex). *)
THEOREM Locked == Spec => []MutualExclusion
<1>1. IInv => MutualExclusion
  BY DEF IInv
<1> QED BY <1>1, Invariance, PTL

(* slots and items count what the header says, over every interleaving     *)
(* and over the wrap of the indices.                                       *)
THEOREM Accounted == Spec => []SemaphoresCount
<1>1. IInv => SemaphoresCount
  BY DEF IInv
<1> QED BY <1>1, Invariance, PTL

(* No thread stores an index that another thread has advanced meanwhile.   *)
THEOREM NoLostUpdate == Spec => []LoadedIndexIsCurrent
<1>1. IInv => LoadedIndexIsCurrent
  BY DEF IInv
<1> QED BY <1>1, Invariance, PTL

--------------------------------------------------------------------------------
(* The threads inside a call that cannot go on: the P they are at finds 0. *)
Calling == {t \in Threads : pc[t] /= "idle"}
Blocked(t) == \/ pc[t] = "insert_P_slots" /\ slots = 0
              \/ pc[t] = "remove_P_items" /\ items = 0
              \/ pc[t] \in {"insert_P_mutex", "remove_P_mutex"} /\ mutex = 0

(* What a state in which all calls are blocked looks like. *)
WaitForTheOtherEnd ==
    \/ Used = N /\ \A t \in Calling : pc[t] = "insert_P_slots"
    \/ Used = 0 /\ \A t \in Calling : pc[t] = "remove_P_items"

(* The calls of sbuf.c never wait for one another only: when all of them   *)
(* are blocked, the buffer is full and they all insert, or it is empty and *)
(* they all remove, and a call from the other end lets one go on.          *)
THEOREM NoDeadlockInSbuf ==
  Spec => [](Calling /= {} /\ (\A t \in Calling : Blocked(t)) => WaitForTheOtherEnd)
<1>1. ASSUME IInv, Calling /= {}, \A t \in Calling : Blocked(t) PROVE WaitForTheOtherEnd
  <2>1. /\ pc \in [Threads -> Pcs] /\ mutex \in Nat /\ slots \in Nat /\ items \in Nat
        /\ MutualExclusion /\ SemaphoresCount
    BY <1>1 DEF IInv, Typing
  <2>2. \A t \in Threads : pc[t] = "idle" \/ Blocked(t)
    BY <1>1 DEF Calling
  <2>3. Critical = {}
    BY <2>2 DEF Critical, At, Blocked
  <2>4. mutex = 1
    BY <2>1, <2>3, FS_EmptySet DEF MutualExclusion
  <2>5. \A t \in Threads : \/ pc[t] = "idle"
                           \/ pc[t] = "insert_P_slots" /\ slots = 0
                           \/ pc[t] = "remove_P_items" /\ items = 0
    BY <2>2, <2>4 DEF Blocked
  <2>6. Filling = {} /\ Filled = {} /\ Taking = {} /\ Taken = {}
    BY <2>5 DEF Filling, Filled, Taking, Taken, At
  <2>7. slots + Used = N /\ items = Used
    <3>1. Cardinality({}) = 0 /\ Used \in Int
      BY <1>1, FS_EmptySet, UsedType DEF IInv, Typing
    <3>2. /\ slots + Cardinality({}) + Cardinality({}) + Used = N
          /\ items + Cardinality({}) + Cardinality({}) = Used
      BY <2>1, <2>6 DEF SemaphoresCount
    <3> QED BY <2>1, <3>1, <3>2, SizeAssumption
  <2>8. CASE slots = 0
    <3>1. items /= 0 /\ Used = N
      BY <2>1, <2>7, <2>8, SizeAssumption
    <3> QED BY <2>5, <3>1 DEF WaitForTheOtherEnd, Calling
  <2>9. CASE slots /= 0
    <3>1. \A t \in Calling : pc[t] = "remove_P_items" /\ items = 0
      BY <2>5, <2>9 DEF Calling
    <3> QED BY <1>1, <2>7, <3>1 DEF WaitForTheOtherEnd
  <2> QED BY <2>8, <2>9
<1>2. IInv => (Calling /= {} /\ (\A t \in Calling : Blocked(t)) => WaitForTheOtherEnd)
  BY <1>1
<1> QED BY <1>2, Invariance, PTL

--------------------------------------------------------------------------------
(* The buffer as a bounded FIFO *)

(* Without a wrap, the indices are the numbers of items inserted and       *)
(* removed; an insert is counted by `inserts' before it is by rear.        *)
NoWrap == MaxInserts <= IntMax

NotStoredPcs == {"insert_P_slots", "insert_P_mutex", "insert_load", "insert_store"}

IndicesCount == /\ front \in Nat /\ rear \in Nat
                /\ front <= rear
                /\ rear + Cardinality(At(NotStoredPcs)) = inserts

FInv == IInv /\ IndicesCount

--------------------------------------------------------------------------------
(* The indices select cells. *)

(* An index selects a cell. *)
LEMMA SelectsCell ==
  ASSUME NEW a \in Nat
  PROVE  a % N \in Cells
BY SizeAssumption DEF Cells

(* Less than n apart, two indices select different cells. *)
LEMMA DistinctCells ==
  ASSUME NEW a \in Nat, NEW b \in Nat, a < b, b - a < N
  PROVE  a % N /= b % N
BY SizeAssumption, DistinctRemainders

--------------------------------------------------------------------------------
(* The indices count. *)

(* Initially nothing has been stored.                                      *)
LEMMA InitIndices == Init => IndicesCount
<1> SUFFICES ASSUME Init PROVE IndicesCount
  OBVIOUS
<1>1. At(NotStoredPcs) = {}
  BY DEF Init, At, NotStoredPcs
<1> QED BY <1>1, FS_EmptySet DEF Init, IndicesCount

(* Below INT_MAX inserts, ++rear and ++front do not wrap. *)
LEMMA NoWrapFacts ==
  ASSUME NoWrap, FInv
  PROVE  /\ rear <= IntMax /\ front <= IntMax /\ Used = rear - front
         /\ \A t \in Threads : pc[t] = "insert_store" =>
                /\ Increment(index[t]) = rear + 1
                /\ Used < N
         /\ \A t \in Threads : pc[t] = "remove_store" =>
                /\ Increment(index[t]) = front + 1
                /\ Used >= 1
<1>1. \A L : Cardinality(At(L)) \in Nat
  BY AtFinite
<1>2. \A L : \A t \in Threads : pc[t] \in L => Cardinality(At(L)) >= 1
  <2> SUFFICES ASSUME NEW t \in Threads, NEW L, pc[t] \in L
               PROVE  Cardinality(At(L)) >= 1
    OBVIOUS
  <2>1. t \in At(L) /\ IsFiniteSet(At(L))
    BY AtFinite DEF At
  <2> QED BY <2>1, <1>1, FS_EmptySet
<1>3. rear <= inserts /\ inserts <= IntMax /\ inserts \in Nat
  BY <1>1, SizeAssumption DEF FInv, IndicesCount, IInv, Typing, NoWrap
<1>4. rear <= IntMax /\ front <= IntMax /\ Used = rear - front
  BY <1>3, SizeAssumption DEF FInv, IndicesCount, Used
<1>5. ASSUME NEW t \in Threads, pc[t] = "insert_store"
      PROVE  Increment(index[t]) = rear + 1 /\ Used < N
  <2>1. Cardinality(At(NotStoredPcs)) >= 1 /\ Cardinality(Filling) >= 1
    BY <1>2, <1>5 DEF NotStoredPcs, Filling
  <2>2. rear < inserts /\ rear < IntMax
    BY <2>1, <1>1, <1>3, SizeAssumption DEF FInv, IndicesCount
  <2>3. Used < N
    <3> Cardinality(Filling) \in Nat /\ Cardinality(Taken) \in Nat
      BY <1>1 DEF Filling, Taken
    <3> QED BY <2>1, <1>4, SizeAssumption
            DEF FInv, IInv, SemaphoresCount, IndicesCount, Typing
  <2> QED BY <1>5, <2>2, <2>3, SizeAssumption
          DEF FInv, IInv, LoadedIndexIsCurrent, Increment, IndicesCount
<1>6. ASSUME NEW t \in Threads, pc[t] = "remove_store"
      PROVE  Increment(index[t]) = front + 1 /\ Used >= 1
  <2>1. Cardinality(Taking) >= 1
    BY <1>2, <1>6 DEF Taking
  <2>2. Used >= 1
    <3> Cardinality(Filled) \in Nat /\ Cardinality(Taking) \in Nat
      BY <1>1 DEF Filled, Taking
    <3> QED BY <2>1, <1>4 DEF FInv, IInv, SemaphoresCount, IndicesCount, Typing
  <2> QED BY <1>3, <1>4, <1>6, <2>2, SizeAssumption
          DEF FInv, IInv, LoadedIndexIsCurrent, Increment, IndicesCount
<1> QED BY <1>4, <1>5, <1>6

(* Only StoreRear and StoreFront change an index, by one.                  *)
LEMMA NextIndices == NoWrap /\ FInv /\ [Next]_vars => IndicesCount'
<1> SUFFICES ASSUME NoWrap, FInv, [Next]_vars PROVE IndicesCount'
  OBVIOUS
<1> DEFINE C == Cardinality(At(NotStoredPcs))
<1>nat. C \in Nat
  BY AtFinite
<1>move. ASSUME NEW t \in Threads, NEW from \in Pcs, NEW to \in Pcs, Goes(t, from, to)
         PROVE  /\ (from \in NotStoredPcs <=> to \in NotStoredPcs) => C' = C
                /\ from \notin NotStoredPcs /\ to \in NotStoredPcs => C' = C + 1
                /\ from \in NotStoredPcs /\ to \notin NotStoredPcs => C' = C - 1
  BY <1>move, MoveCounts DEF FInv, IInv, Typing
<1> HIDE DEF C
<1> USE DEF Pcs, InsertPcs, RemovePcs, NotStoredPcs
<1>goal. ASSUME front' \in Nat, rear' \in Nat, front' <= rear', rear' + C' = inserts'
         PROVE  IndicesCount'
  BY <1>goal DEF C, IndicesCount
<1>ind. /\ front \in Nat /\ rear \in Nat /\ inserts \in Nat
        /\ front <= rear /\ rear + C = inserts
  BY DEF C, FInv, IInv, IndicesCount, Typing
<1>1. ASSUME NEW t \in Producers, NEW x \in Items, CallInsert(t, x) PROVE IndicesCount'
  BY <1>1, <1>move, <1>nat, <1>ind, <1>goal DEF CallInsert, Threads
<1>2. ASSUME NEW t \in Threads, StoreRear(t) PROVE IndicesCount'
  <2>1. rear' = rear + 1 /\ front' = front /\ inserts' = inserts
    BY <1>2, NoWrapFacts DEF StoreRear, Goes
  <2>2. C' = C - 1
    BY <1>2, <1>move DEF StoreRear
  <2> QED BY <2>1, <2>2, <1>nat, <1>ind, <1>goal
<1>3. ASSUME NEW t \in Threads, StoreFront(t) PROVE IndicesCount'
  <2>1. front' = front + 1 /\ rear' = rear /\ inserts' = inserts /\ front < rear
    BY <1>3, <1>ind, NoWrapFacts DEF StoreFront, Goes
  <2>2. C' = C
    BY <1>3, <1>move DEF StoreFront
  <2> QED BY <2>1, <2>2, <1>nat, <1>ind, <1>goal
<1>4. ASSUME NEW t \in Threads,
             \/ t \in Consumers /\ CallRemove(t)
             \/ PSlots(t) \/ PItems(t) \/ PMutex(t) \/ LoadRear(t) \/ LoadFront(t)
             \/ VMutex(t) \/ VItems(t) \/ VSlots(t)
      PROVE  IndicesCount'
  <2>1. C' = C
    BY <1>4, <1>move DEF CallRemove, PSlots, PItems, PMutex, LoadRear, LoadFront,
                         VMutex, VItems, VSlots
  <2>2. UNCHANGED <<front, rear, inserts>>
    BY <1>4 DEF CallRemove, PSlots, PItems, PMutex, LoadRear, LoadFront,
                VMutex, VItems, VSlots
  <2> QED BY <2>1, <2>2, <1>nat, <1>ind, <1>goal
<1>5. CASE UNCHANGED vars
  <2>1. C' = C
    BY <1>5 DEF vars, C, At
  <2> QED BY <1>5, <2>1, <1>ind, <1>goal DEF vars
<1> QED BY <1>1, <1>2, <1>3, <1>4, <1>5
        DEF Next, Step, InsertStep, RemoveStep, Threads

--------------------------------------------------------------------------------
(* The refinement. *)

AbsCall == [t \in Threads |-> CallState(pc[t])]

(* What the abstract queue is, and how the two stores change it. *)
LEMMA ContentsFacts ==
  ASSUME NoWrap, FInv
  PROVE  /\ Contents = [i \in 1 .. Used |-> buf[(front + i) % N]]
         /\ Contents \in Seq(Items \cup {NoItem})
         /\ Len(Contents) = Used /\ Used \in Nat
<1>1. Used \in Nat /\ front \in Nat
  BY NoWrapFacts DEF FInv, IndicesCount
<1>2. \A i \in 1 .. Used : (front + i) % N \in Cells
  BY <1>1, SelectsCell
<1>3. \A i \in 1 .. Used : buf[(front + i) % N] \in Items \cup {NoItem}
  BY <1>2 DEF FInv, IInv, Typing
<1> QED BY <1>1, <1>3 DEF Contents

(* StoreRear puts the item at the end of the queue.                        *)
LEMMA ContentsGrow ==
  ASSUME NoWrap, FInv, NEW t \in Threads, StoreRear(t)
  PROVE  Contents' = Append(Contents, item[t]) /\ Len(Contents) < N
<1>1. /\ rear' = rear + 1 /\ front' = front /\ Used < N
      /\ Used = rear - front /\ rear \in Nat /\ front \in Nat
  BY NoWrapFacts DEF StoreRear, Goes, FInv, IndicesCount
<1>2. Used' = Used + 1 /\ Used \in Nat
  BY <1>1, ContentsFacts DEF Used
<1>3. Remainder(rear') = (rear + 1) % N /\ (rear + 1) % N \in Cells
  BY <1>1, SelectsCell DEF Remainder
<1>4. buf' = [buf EXCEPT ![(rear + 1) % N] = item[t]]
  BY <1>3 DEF StoreRear
<1>5. \A i \in 1 .. Used : (front + i) % N \in Cells /\ (front + i) % N /= (rear + 1) % N
  <2> SUFFICES ASSUME NEW i \in 1 .. Used
               PROVE  (front + i) % N \in Cells /\ (front + i) % N /= (rear + 1) % N
    OBVIOUS
  <2>1. front + i \in Nat /\ rear + 1 \in Nat /\ front + i < rear + 1
        /\ (rear + 1) - (front + i) < N
    BY <1>1, SizeAssumption
  <2> QED BY <2>1, SelectsCell, DistinctCells
<1>6. \A i \in 1 .. Used : buf'[(front + i) % N] = buf[(front + i) % N]
  BY <1>4, <1>5 DEF FInv, IInv, Typing
<1>7. buf'[(front + Used + 1) % N] = item[t]
  <2>1. front + Used + 1 = rear + 1
    BY <1>1
  <2> QED BY <2>1, <1>3, <1>4 DEF FInv, IInv, Typing
<1>8. Contents' = [i \in 1 .. Used + 1 |-> buf'[(front + i) % N]]
  BY <1>1, <1>2 DEF Contents
<1>9. /\ Contents = [i \in 1 .. Used |-> buf[(front + i) % N]]
      /\ Contents \in Seq(Items \cup {NoItem}) /\ Len(Contents) = Used
  BY ContentsFacts
<1>10. item[t] \in Items \cup {NoItem}
  BY DEF FInv, IInv, Typing
<1>11. Append(Contents, item[t]) =
         [i \in 1 .. Used + 1 |-> IF i = Used + 1 THEN item[t] ELSE Contents[i]]
  BY <1>2, <1>9, <1>10
<1>12. \A i \in 1 .. Used + 1 :
          buf'[(front + i) % N] = IF i = Used + 1 THEN item[t] ELSE Contents[i]
  <2> SUFFICES ASSUME NEW i \in 1 .. Used + 1
               PROVE  buf'[(front + i) % N] = IF i = Used + 1 THEN item[t] ELSE Contents[i]
    OBVIOUS
  <2>1. CASE i = Used + 1
    <3>1. front + i = front + Used + 1
      BY <2>1, <1>1, <1>2
    <3> QED BY <3>1, <2>1, <1>7
  <2>2. CASE i /= Used + 1
    <3>1. i \in 1 .. Used
      BY <2>2, <1>2
    <3> QED BY <3>1, <2>2, <1>6, <1>9
  <2> QED BY <2>1, <2>2
<1> QED BY <1>1, <1>8, <1>9, <1>11, <1>12, ZenonT(60)

(* StoreFront takes the item at the front of the queue.                    *)
LEMMA ContentsShrink ==
  ASSUME NoWrap, FInv, NEW t \in Threads, StoreFront(t)
  PROVE  /\ Contents /= << >>
         /\ Contents' = Tail(Contents)
         /\ item' = [item EXCEPT ![t] = Head(Contents)]
<1>1. /\ front' = front + 1 /\ rear' = rear /\ buf' = buf /\ Used >= 1
      /\ Used = rear - front /\ rear \in Nat /\ front \in Nat
  BY NoWrapFacts DEF StoreFront, Goes, FInv, IndicesCount
<1>2. Used' = Used - 1 /\ Used \in Nat
  BY <1>1, ContentsFacts DEF Used
<1>3. Remainder(front') = (front + 1) % N /\ (front + 1) % N \in Cells
  BY <1>1, SelectsCell DEF Remainder
<1>4. item' = [item EXCEPT ![t] = buf[(front + 1) % N]]
  BY <1>3 DEF StoreFront
<1>5. /\ Contents = [i \in 1 .. Used |-> buf[(front + i) % N]]
      /\ Contents \in Seq(Items \cup {NoItem}) /\ Len(Contents) = Used
  BY ContentsFacts
<1>6. Head(Contents) = buf[(front + 1) % N] /\ Contents /= << >>
  BY <1>1, <1>2, <1>5
<1>7. Tail(Contents) = [i \in 1 .. Used - 1 |-> Contents[i + 1]]
  BY <1>1, <1>2, <1>5, <1>6
<1>8. Contents' = [i \in 1 .. Used - 1 |-> buf[((front + 1) + i) % N]]
  BY <1>1, <1>2 DEF Contents
<1>9. \A i \in 1 .. Used - 1 : buf[((front + 1) + i) % N] = Contents[i + 1]
  <2> SUFFICES ASSUME NEW i \in 1 .. Used - 1
               PROVE  buf[((front + 1) + i) % N] = Contents[i + 1]
    OBVIOUS
  <2>1. (front + 1) + i = front + (i + 1) /\ i + 1 \in 1 .. Used
    BY <1>1, <1>2
  <2> QED BY <2>1, <1>5
<1> QED BY <1>4, <1>6, <1>7, <1>8, <1>9

(* The queue is what lies between the indices.                             *)
LEMMA ContentsSame ==
  ASSUME UNCHANGED <<buf, front, rear>>
  PROVE  Contents' = Contents
BY DEF Contents, Used

(* How far the call of a thread has come, after a move of that thread. *)
LEMMA CallMoves ==
  ASSUME FInv, NEW t \in Threads, NEW from \in Pcs, NEW to \in Pcs, Goes(t, from, to)
  PROVE  /\ AbsCall[t] = CallState(from)
         /\ AbsCall' = [AbsCall EXCEPT ![t] = CallState(to)]
BY DEF Goes, AbsCall, FInv, IInv, Typing

(* The buffer starts as an empty queue.                                    *)
LEMMA InitRefines == Init => Abstract!Init
<1> SUFFICES ASSUME Init PROVE Abstract!Init
  OBVIOUS
<1>1. Used = 0
  BY DEF Init, Used
<1>2. Contents = << >>
  BY <1>1 DEF Contents
<1>3. [t \in Threads |-> CallState(pc[t])] = [t \in Threads |-> "idle"]
  BY DEF Init, CallState
<1> QED BY <1>2, <1>3 DEF Init, Abstract!Init

(* Every step is a step of the abstract buffer, or leaves it unchanged. *)
LEMMA NextRefines == NoWrap /\ FInv /\ [Next]_vars => [Abstract!Next]_(Abstract!vars)
<1> SUFFICES ASSUME NoWrap, FInv, [Next]_vars
             PROVE  [Abstract!Next]_(Abstract!vars)
  OBVIOUS
<1> USE DEF Pcs, InsertPcs, RemovePcs, sem
<1>call. AbsCall = [t \in Threads |-> CallState(pc[t])]
  BY DEF AbsCall
<1>1. ASSUME NEW t \in Producers, NEW x \in Items, CallInsert(t, x)
      PROVE  Abstract!InvokeInsert(t, x)
  <2>1. t \in Threads /\ Contents' = Contents
    BY <1>1, ContentsSame DEF CallInsert, Threads
  <2>2. AbsCall[t] = "idle" /\ AbsCall' = [AbsCall EXCEPT ![t] = "inserting"]
    BY <1>1, <2>1, CallMoves DEF CallInsert, CallState
  <2> QED BY <1>1, <2>1, <2>2 DEF CallInsert, Abstract!InvokeInsert, Abstract!Moves, AbsCall
<1>2. ASSUME NEW t \in Consumers, CallRemove(t)
      PROVE  Abstract!InvokeRemove(t)
  <2>1. t \in Threads /\ Contents' = Contents
    BY <1>2, ContentsSame DEF CallRemove, Threads
  <2>2. AbsCall[t] = "idle" /\ AbsCall' = [AbsCall EXCEPT ![t] = "removing"]
    BY <1>2, <2>1, CallMoves DEF CallRemove, CallState
  <2> QED BY <1>2, <2>1, <2>2 DEF CallRemove, Abstract!InvokeRemove, Abstract!Moves, AbsCall
<1>3. ASSUME NEW t \in Threads, StoreRear(t)
      PROVE  Abstract!Insert(t)
  <2>1. Contents' = Append(Contents, item[t]) /\ Len(Contents) < N
    BY <1>3, ContentsGrow
  <2>2. AbsCall[t] = "inserting" /\ AbsCall' = [AbsCall EXCEPT ![t] = "inserted"]
    BY <1>3, CallMoves DEF StoreRear, CallState
  <2> QED BY <1>3, <2>1, <2>2 DEF StoreRear, Abstract!Insert, Abstract!Moves, AbsCall
<1>4. ASSUME NEW t \in Threads, StoreFront(t)
      PROVE  Abstract!Remove(t)
  <2>1. /\ Contents /= << >> /\ Contents' = Tail(Contents)
        /\ item' = [item EXCEPT ![t] = Head(Contents)]
    BY <1>4, ContentsShrink
  <2>2. AbsCall[t] = "removing" /\ AbsCall' = [AbsCall EXCEPT ![t] = "removed"]
    BY <1>4, CallMoves DEF StoreFront, CallState
  <2> QED BY <2>1, <2>2 DEF Abstract!Remove, Abstract!Moves, AbsCall
<1>5. ASSUME NEW t \in Threads, VItems(t) \/ VSlots(t)
      PROVE  Abstract!Return(t)
  <2>1. Contents' = Contents
    BY <1>5, ContentsSame DEF VItems, VSlots
  <2>2. CASE VItems(t)
    <3>1. AbsCall[t] = "inserted" /\ AbsCall' = [AbsCall EXCEPT ![t] = "idle"]
      BY <2>2, CallMoves DEF VItems, CallState
    <3> QED BY <2>1, <2>2, <3>1 DEF VItems, Abstract!Return, Abstract!Moves, AbsCall
  <2>3. CASE VSlots(t)
    <3>1. AbsCall[t] = "removed" /\ AbsCall' = [AbsCall EXCEPT ![t] = "idle"]
      BY <2>3, CallMoves DEF VSlots, CallState
    <3> QED BY <2>1, <2>3, <3>1 DEF VSlots, Abstract!Return, Abstract!Moves, AbsCall
  <2> QED BY <1>5, <2>2, <2>3
<1>6. ASSUME NEW t \in Threads,
             PSlots(t) \/ PItems(t) \/ PMutex(t) \/ LoadRear(t) \/ LoadFront(t) \/ VMutex(t)
      PROVE  UNCHANGED Abstract!vars
  <2>1. Contents' = Contents /\ item' = item
    BY <1>6, ContentsSame DEF PSlots, PItems, PMutex, LoadRear, LoadFront, VMutex
  <2>2. AbsCall' = AbsCall
    <3>1. PICK from \in Pcs, to \in Pcs : Goes(t, from, to) /\ CallState(from) = CallState(to)
      BY <1>6 DEF PSlots, PItems, PMutex, LoadRear, LoadFront, VMutex, CallState
    <3>2. AbsCall[t] = CallState(from) /\ AbsCall' = [AbsCall EXCEPT ![t] = CallState(to)]
      BY <3>1, CallMoves
    <3> QED BY <3>1, <3>2 DEF AbsCall
  <2> QED BY <2>1, <2>2 DEF Abstract!vars, AbsCall
<1>7. CASE UNCHANGED vars
  <2>1. Contents' = Contents
    BY <1>7, ContentsSame DEF vars
  <2> QED BY <1>7, <2>1 DEF vars, Abstract!vars
<1>8. Next => \/ \E t \in Producers, x \in Items : CallInsert(t, x)
              \/ \E t \in Consumers : CallRemove(t)
              \/ \E t \in Threads : Step(t)
  BY DEF Next
<1>9. ASSUME NEW t \in Threads, Step(t) PROVE Abstract!Next \/ UNCHANGED Abstract!vars
  BY <1>3, <1>4, <1>5, <1>6, <1>9 DEF Step, InsertStep, RemoveStep, Abstract!Next
<1>10. ASSUME NEW t \in Producers, NEW x \in Items, CallInsert(t, x) PROVE Abstract!Next
  BY <1>1, <1>10 DEF Abstract!Next, Threads
<1>11. ASSUME NEW t \in Consumers, CallRemove(t) PROVE Abstract!Next
  BY <1>2, <1>11 DEF Abstract!Next, Threads
<1> QED BY <1>7, <1>8, <1>9, <1>10, <1>11

--------------------------------------------------------------------------------

(* Below INT_MAX inserts, front and rear are the numbers of items removed  *)
(* and inserted, and every index selects a cell of buf.                    *)
THEOREM IndicesStayInBuf == ASSUME NoWrap PROVE Spec => []IndicesSelectCells
<1>1. FInv => IndicesSelectCells
  BY SelectsCell DEF FInv, IndicesCount, IndicesSelectCells, Remainder
<1> QED BY <1>1, InitInv, NextInv, InitIndices, NextIndices, PTL DEF Spec, FInv

(* Below INT_MAX inserts, sbuf_insert and sbuf_remove behave as atomic     *)
(* operations on a bounded FIFO queue.                                     *)
THEOREM FIFORefinement == ASSUME NoWrap PROVE Spec => ImplementsFIFO
<1> QED BY InitInv, NextInv, InitIndices, NextIndices, InitRefines, NextRefines, PTL
        DEF Spec, FInv, ImplementsFIFO, Abstract!Spec

================================================================================
