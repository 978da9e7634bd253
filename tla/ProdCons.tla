-------------------------------- MODULE ProdCons --------------------------------
(***************************************************************************)
(* conc/prodconsn.c: a producer and a consumer thread that pass NITEMS     *)
(* items through the buffer of Sbuf, and the main thread that creates      *)
(* them, joins them and frees the buffer.  NITEMS and BUFSIZE (the N of    *)
(* Sbuf) are small enough to be checked as they are.                       *)
(***************************************************************************)
EXTENDS Sbuf

CONSTANTS producer, consumer,   \* the two threads
          NITEMS                \* the items to produce and to consume

ProdConsAssumption == /\ Producers = {producer} /\ Consumers = {consumer}
                      /\ producer /= consumer
                      /\ N \in Nat \ {0} /\ IntMax \in Nat
                      /\ NITEMS \in 0 .. IntMax          \* the loop counters are ints
                      /\ Items = 0 .. NITEMS - 1

VARIABLES main,       \* what main does next
          thread,     \* thread[t]: "new", "running" or "done"
          i,          \* i[t]: the loop counter of t
          consumed,   \* the lines "Consumed %d", in order
          freed       \* sbuf_deinit has freed buf

progVars == <<main, thread, i, consumed, freed>>
allVars == <<vars, progVars>>

PCInit == /\ Init
          /\ main = "create_producer"
          /\ thread = [t \in Threads |-> "new"]
          /\ i = [t \in Threads |-> 0]
          /\ consumed = << >>
          /\ freed = FALSE

MainGoes(from, to) == main = from /\ main' = to /\ UNCHANGED <<vars, i, consumed>>

Create(t, from, to) == /\ MainGoes(from, to)
                       /\ thread' = [thread EXCEPT ![t] = "running"]
                       /\ UNCHANGED freed

(* Mutant: main frees the buffer when the producer is done. *)
JoinNoWait(t, from, to) == /\ MainGoes(from, to)
                           /\ t = producer => thread[t] = "done"
                           /\ UNCHANGED <<thread, freed>>

Join(t, from, to) == /\ MainGoes(from, to)
                     /\ thread[t] = "done"
                     /\ UNCHANGED <<thread, freed>>

Deinit == /\ MainGoes("deinit", "exit")
          /\ freed' = TRUE
          /\ UNCHANGED thread

Main == \/ Create(producer, "create_producer", "create_consumer")
        \/ Create(consumer, "create_consumer", "join_producer")
        \/ Join(producer, "join_producer", "join_consumer")
        \/ Join(consumer, "join_consumer", "deinit")
        \/ Deinit

(* The test of the for loop; the body starts with the call of Sbuf. *)

(* Mutant: the consumer takes one item more than there are. *)
ContinuesOnceMore(t) == i[t] < NITEMS \/ (t = consumer /\ i[t] = NITEMS)

Continues(t) == i[t] < NITEMS

LoopAgain(t) == /\ thread[t] = "running" /\ Continues(t)
                /\ \/ t = producer /\ CallInsert(t, i[t])
                   \/ t = consumer /\ CallRemove(t)
                /\ UNCHANGED progVars

LoopEnds(t) == /\ thread[t] = "running" /\ pc[t] = "idle" /\ ~Continues(t)
               /\ thread' = [thread EXCEPT ![t] = "done"]
               /\ UNCHANGED <<vars, main, i, consumed, freed>>

(* The return from Sbuf ends the body: i++, and the consumer prints. *)
Returns(t) == pc[t] \in {"insert_V_items", "remove_V_slots"}

Inside(t) == /\ Step(t)
             /\ i' = IF Returns(t) THEN [i EXCEPT ![t] = @ + 1] ELSE i
             /\ consumed' = IF Returns(t) /\ t = consumer
                            THEN Append(consumed, item[t]) ELSE consumed
             /\ UNCHANGED <<main, thread, freed>>

PCNext == \/ Main
          \/ \E t \in Threads : LoopAgain(t) \/ LoopEnds(t) \/ Inside(t)

PCSpec == PCInit /\ [][PCNext]_allVars

--------------------------------------------------------------------------------
(* Properties *)

(* The consumer sees what the producer made, in order and without gaps:    *)
(* the k-th item printed is k - 1 (prodconsn.c:18, 32).                    *)
ConsumedInOrder == \A k \in 1 .. Len(consumed) : consumed[k] = k - 1

(* sbuf_deinit (prodconsn.c:45) frees memory no thread uses any more.      *)
NoUseAfterFree == freed => \A t \in Threads : pc[t] = "idle" /\ thread[t] = "done"

(* main returns from both joins and exits, every item consumed.            *)
Completed == main = "exit" /\ Len(consumed) = NITEMS

================================================================================
