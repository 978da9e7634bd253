------------------------------ MODULE BoundedFIFO ------------------------------
(***************************************************************************)
(* What a bounded, shared FIFO buffer promises its callers (the comment at *)
(* conc/sbuf.c:5).  A call of insert or remove takes effect at one instant *)
(* between its invocation and its return: insert appends to a queue that   *)
(* is not full, remove takes the head of a queue that is not empty, and a  *)
(* call whose condition does not hold waits.                               *)
(***************************************************************************)
EXTENDS Naturals, Sequences

CONSTANTS Threads,   \* the callers
          Items,     \* the values that can be inserted
          Capacity,  \* the number of slots of the buffer
          None       \* the content of a caller's cell outside a call

VARIABLES queue,     \* the items in the buffer, oldest first
          call,      \* call[t]: how far the current call of t has come
          cell       \* cell[t]: the argument or the result of that call

vars == <<queue, call, cell>>

CallStates == {"idle", "inserting", "inserted", "removing", "removed"}

TypeOK == /\ queue \in Seq(Items)
          /\ Len(queue) <= Capacity
          /\ call \in [Threads -> CallStates]
          /\ cell \in [Threads -> Items \cup {None}]

Init == /\ queue = << >>
        /\ call = [t \in Threads |-> "idle"]
        /\ cell = [t \in Threads |-> None]

Moves(t, from, to) == call[t] = from /\ call' = [call EXCEPT ![t] = to]

InvokeInsert(t, item) == /\ Moves(t, "idle", "inserting")
                         /\ cell' = [cell EXCEPT ![t] = item]
                         /\ UNCHANGED queue

Insert(t) == /\ Moves(t, "inserting", "inserted")
             /\ Len(queue) < Capacity
             /\ queue' = Append(queue, cell[t])
             /\ UNCHANGED cell

InvokeRemove(t) == /\ Moves(t, "idle", "removing")
                   /\ UNCHANGED <<queue, cell>>

Remove(t) == /\ Moves(t, "removing", "removed")
             /\ queue /= << >>
             /\ cell' = [cell EXCEPT ![t] = Head(queue)]
             /\ queue' = Tail(queue)

Return(t) == /\ \/ Moves(t, "inserted", "idle")
                \/ Moves(t, "removed", "idle")
             /\ cell' = [cell EXCEPT ![t] = None]
             /\ UNCHANGED queue

Next == \E t \in Threads : \/ \E item \in Items : InvokeInsert(t, item)
                           \/ Insert(t)
                           \/ InvokeRemove(t)
                           \/ Remove(t)
                           \/ Return(t)

Spec == Init /\ [][Next]_vars

================================================================================
