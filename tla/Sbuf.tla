---------------------------------- MODULE Sbuf ----------------------------------
(***************************************************************************)
(* The bounded buffer of conc/sbuf.c, shared by any number of threads.     *)
(*                                                                         *)
(* A thread's pc names the statement of sbuf_insert or sbuf_remove it runs *)
(* next.  Each P, each V is one step; ++rear and ++front are a load and a  *)
(* store, so that what the mutex is there for can be seen.  The store of   *)
(* an index and the access to the cell it selects are one step: no other   *)
(* thread reads that cell before the V on items (or slots) that follows.   *)
(*                                                                         *)
(* front and rear are C ints that only ever grow.  IntMax stands for       *)
(* INT_MAX: the build (-Og, two's complement adds) wraps at it.            *)
(***************************************************************************)
EXTENDS Integers, Sequences, FiniteSets

CONSTANTS Producers,   \* threads that call sbuf_insert
          Consumers,   \* threads that call sbuf_remove
          Items,       \* the ints inserted
          N,           \* sbuf_t.n, the number of slots
          IntMax,      \* the largest C int
          MaxInserts   \* bound: calls of sbuf_insert in a behaviour

Threads == Producers \cup Consumers

NoItem == 0            \* what Calloc leaves in a cell

ASSUME ThreadsAssumption == IsFiniteSet(Producers) /\ IsFiniteSet(Consumers)
ASSUME ItemsAssumption == Items \subseteq Int
ASSUME SizeAssumption == /\ N \in Nat \ {0}
                         /\ IntMax \in Nat
                         /\ N <= IntMax
                         /\ MaxInserts \in Nat

VARIABLES buf, front, rear,      \* the fields of sbuf_t ...
          mutex, slots, items,   \* ... and its semaphores
          pc,                    \* pc[t]: the next statement of thread t
          item,                  \* item[t]: the argument, or the local of sbuf_remove
          index,                 \* index[t]: the register that holds front or rear
          inserts                \* calls of sbuf_insert so far

sem == <<mutex, slots, items>>
vars == <<buf, front, rear, sem, pc, item, index, inserts>>

--------------------------------------------------------------------------------
(* C's int arithmetic: ++ wraps, % takes the sign of its left operand. *)

IntMin == -(IntMax + 1)
Increment(i) == IF i = IntMax THEN IntMin ELSE i + 1
Remainder(i) == IF i >= 0 THEN i % N ELSE -((-i) % N)

Cells == 0 .. N - 1

--------------------------------------------------------------------------------
(* The statements of the two functions, in order. *)

InsertPcs == {"insert_P_slots", "insert_P_mutex", "insert_load", "insert_store",
              "insert_V_mutex", "insert_V_items"}
RemovePcs == {"remove_P_items", "remove_P_mutex", "remove_load", "remove_store",
              "remove_V_mutex", "remove_V_slots"}
Pcs == {"idle"} \cup InsertPcs \cup RemovePcs

At(labels) == {t \in Threads : pc[t] \in labels}

Goes(t, from, to) == pc[t] = from /\ pc' = [pc EXCEPT ![t] = to]

Init == /\ buf = [c \in Cells |-> NoItem]
        /\ front = 0 /\ rear = 0
        /\ mutex = 1 /\ slots = N /\ items = 0
        /\ pc = [t \in Threads |-> "idle"]
        /\ item = [t \in Threads |-> NoItem]
        /\ index = [t \in Threads |-> 0]
        /\ inserts = 0

CallInsert(t, x) == /\ Goes(t, "idle", "insert_P_slots")
                    /\ inserts < MaxInserts
                    /\ inserts' = inserts + 1
                    /\ item' = [item EXCEPT ![t] = x]
                    /\ UNCHANGED <<buf, front, rear, sem, index>>

CallRemove(t) == /\ Goes(t, "idle", "remove_P_items")
                 /\ UNCHANGED <<buf, front, rear, sem, item, index, inserts>>

PSlots(t) == /\ Goes(t, "insert_P_slots", "insert_P_mutex")
             /\ slots > 0
             /\ slots' = slots - 1
             /\ UNCHANGED <<buf, front, rear, mutex, items, item, index, inserts>>

PItems(t) == /\ Goes(t, "remove_P_items", "remove_P_mutex")
             /\ items > 0
             /\ items' = items - 1
             /\ UNCHANGED <<buf, front, rear, mutex, slots, item, index, inserts>>

(* Mutant: the lock is entered although it is held (sem_trywait, unchecked). *)
PMutexNoWait(t) == /\ \/ Goes(t, "insert_P_mutex", "insert_load")
                      \/ Goes(t, "remove_P_mutex", "remove_load")
                   /\ mutex' = IF mutex > 0 THEN mutex - 1 ELSE mutex
                   /\ UNCHANGED <<buf, front, rear, slots, items, item, index, inserts>>

PMutex(t) == /\ \/ Goes(t, "insert_P_mutex", "insert_load")
                \/ Goes(t, "remove_P_mutex", "remove_load")
             /\ mutex > 0
             /\ mutex' = mutex - 1
             /\ UNCHANGED <<buf, front, rear, slots, items, item, index, inserts>>

LoadRear(t) == /\ Goes(t, "insert_load", "insert_store")
               /\ index' = [index EXCEPT ![t] = rear]
               /\ UNCHANGED <<buf, front, rear, sem, item, inserts>>

LoadFront(t) == /\ Goes(t, "remove_load", "remove_store")
                /\ index' = [index EXCEPT ![t] = front]
                /\ UNCHANGED <<buf, front, rear, sem, item, inserts>>

(* Mutant: buf[(sp->rear++) % n], the cell of the index before. *)
StoreRearPostIncrement(t) ==
    /\ Goes(t, "insert_store", "insert_V_mutex")
    /\ rear' = Increment(index[t])
    /\ buf' = [buf EXCEPT ![Remainder(index[t])] = item[t]]
    /\ index' = [index EXCEPT ![t] = 0]
    /\ UNCHANGED <<front, sem, item, inserts>>

(* A negative remainder selects a word in front of the buffer: a store     *)
(* there leaves the buffer as it is, a load there can find any value.      *)
StoreRear(t) == /\ Goes(t, "insert_store", "insert_V_mutex")
                /\ rear' = Increment(index[t])
                /\ buf' = IF Remainder(rear') \in Cells
                          THEN [buf EXCEPT ![Remainder(rear')] = item[t]]
                          ELSE buf
                /\ index' = [index EXCEPT ![t] = 0]
                /\ UNCHANGED <<front, sem, item, inserts>>

StoreFront(t) == /\ Goes(t, "remove_store", "remove_V_mutex")
                 /\ front' = Increment(index[t])
                 /\ \E x \in IF Remainder(front') \in Cells
                             THEN {buf[Remainder(front')]}
                             ELSE Items \cup {NoItem} :
                       item' = [item EXCEPT ![t] = x]
                 /\ index' = [index EXCEPT ![t] = 0]
                 /\ UNCHANGED <<buf, rear, sem, inserts>>

VMutex(t) == /\ \/ Goes(t, "insert_V_mutex", "insert_V_items")
                \/ Goes(t, "remove_V_mutex", "remove_V_slots")
             /\ mutex' = mutex + 1
             /\ UNCHANGED <<buf, front, rear, slots, items, item, index, inserts>>

(* Mutants: sbuf_insert forgets V(&sp->items); sbuf_remove announces an     *)
(* item instead of a slot.                                                 *)
VItemsForgotten(t) == /\ Goes(t, "insert_V_items", "idle")
                      /\ item' = [item EXCEPT ![t] = NoItem]
                      /\ UNCHANGED <<buf, front, rear, sem, index, inserts>>

VSlotsSwapped(t) == /\ Goes(t, "remove_V_slots", "idle")
                    /\ items' = items + 1
                    /\ item' = [item EXCEPT ![t] = NoItem]
                    /\ UNCHANGED <<buf, front, rear, mutex, slots, index, inserts>>

(* The last V of a function and its return; a value returned is item[t].   *)
VItems(t) == /\ Goes(t, "insert_V_items", "idle")
             /\ items' = items + 1
             /\ item' = [item EXCEPT ![t] = NoItem]
             /\ UNCHANGED <<buf, front, rear, mutex, slots, index, inserts>>

VSlots(t) == /\ Goes(t, "remove_V_slots", "idle")
             /\ slots' = slots + 1
             /\ item' = [item EXCEPT ![t] = NoItem]
             /\ UNCHANGED <<buf, front, rear, mutex, items, index, inserts>>

(* What a thread does inside a call, whatever its caller does next. *)
InsertStep(t) == PSlots(t) \/ LoadRear(t) \/ StoreRear(t) \/ VItems(t)
RemoveStep(t) == PItems(t) \/ LoadFront(t) \/ StoreFront(t) \/ VSlots(t)
Step(t) == InsertStep(t) \/ RemoveStep(t) \/ PMutex(t) \/ VMutex(t)

Next == \/ \E t \in Producers, x \in Items : CallInsert(t, x)
        \/ \E t \in Consumers : CallRemove(t)
        \/ \E t \in Threads : Step(t)

Spec == Init /\ [][Next]_vars

(* The scheduler runs every thread that can run (a P that stays possible   *)
(* is taken in the end), and consumers come back for more; nothing obliges *)
(* a producer to insert.                                                   *)
Fairness == /\ \A t \in Threads : WF_vars(Step(t))
            /\ \A t \in Consumers : WF_vars(CallRemove(t))

FairSpec == Spec /\ Fairness

--------------------------------------------------------------------------------
(* Properties *)

TypeOK == /\ buf \in [Cells -> Items \cup {NoItem}]
          /\ front \in IntMin .. IntMax
          /\ rear \in IntMin .. IntMax
          /\ mutex \in 0 .. 1
          /\ slots \in 0 .. N
          /\ items \in 0 .. N
          /\ pc \in [Threads -> Pcs]
          /\ item \in [Threads -> Items \cup {NoItem}]
          /\ index \in [Threads -> IntMin .. IntMax]
          /\ inserts \in 0 .. MaxInserts

(* The threads between P(mutex) and V(mutex). *)
Critical == At({"insert_load", "insert_store", "insert_V_mutex",
                "remove_load", "remove_store", "remove_V_mutex"})

(* sbuf.h:12, "Protects accesses to buf": at most one thread is between    *)
(* P(&sp->mutex) and V(&sp->mutex), and the semaphore says whether one is. *)
MutualExclusion == Cardinality(Critical) = 1 - mutex

(* The number of items in the buffer, from the two wrapping counters. *)
Used == IF rear >= front THEN rear - front ELSE rear - front + 2 * (IntMax + 1)

(* Threads that own a slot and have not filled it; that filled one and     *)
(* have not announced it; that own an item and have not taken it; that     *)
(* took one and have not announced the slot.                               *)
Filling    == At({"insert_P_mutex", "insert_load", "insert_store"})
Filled     == At({"insert_V_mutex", "insert_V_items"})
Taking     == At({"remove_P_mutex", "remove_load", "remove_store"})
Taken      == At({"remove_V_mutex", "remove_V_slots"})

(* sbuf.h:13-14: slots and items count what is available.  Every slot is   *)
(* free and counted, owned by a thread in the middle of a call, or holds   *)
(* an item that is counted by items or owned by such a thread.  It also    *)
(* holds once the indices have wrapped.                                    *)
SemaphoresCount ==
    /\ slots + Cardinality(Filling) + Cardinality(Taken) + Used = N
    /\ items + Cardinality(Filled) + Cardinality(Taking) = Used

(* What the mutex is for: the index a thread has loaded is still the one   *)
(* in memory when it stores the incremented value.                         *)
LoadedIndexIsCurrent ==
    \A t \in Threads : /\ pc[t] = "insert_store" => index[t] = rear
                       /\ pc[t] = "remove_store" => index[t] = front

(* sbuf.h:10-11: front and rear, reduced modulo n, select a cell of buf.   *)
IndicesSelectCells == Remainder(front) \in Cells /\ Remainder(rear) \in Cells

(* What the buffer holds, from the first item to the last (sbuf.h:10-11). *)
Contents == [i \in 1 .. Used |-> buf[(front + i) % N]]

(* How far a call has come, seen by the caller: it takes effect at a store. *)
CallState(label) ==
    IF label \in {"insert_P_slots", "insert_P_mutex", "insert_load", "insert_store"}
    THEN "inserting"
    ELSE IF label \in {"insert_V_mutex", "insert_V_items"}
    THEN "inserted"
    ELSE IF label \in {"remove_P_items", "remove_P_mutex", "remove_load", "remove_store"}
    THEN "removing"
    ELSE IF label \in {"remove_V_mutex", "remove_V_slots"}
    THEN "removed"
    ELSE "idle"

Abstract == INSTANCE BoundedFIFO
                WITH Capacity <- N, None <- NoItem, queue <- Contents,
                     call <- [t \in Threads |-> CallState(pc[t])], cell <- item

(* The comment at sbuf.c:5: the buffer is a bounded FIFO queue.  Whatever  *)
(* the interleaving, an item inserted is removed once, in insertion order, *)
(* and never overwritten; an insert takes effect at StoreRear, a remove at *)
(* StoreFront.                                                             *)
ImplementsFIFO == Abstract!Spec

(* No wakeup is lost: the k-th item inserted is removed in the end, as     *)
(* long as consumers keep calling sbuf_remove.                             *)
EveryItemRemoved == \A k \in 1 .. MaxInserts : (rear >= k) ~> (front >= k)

================================================================================
