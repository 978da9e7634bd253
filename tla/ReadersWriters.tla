----------------------------- MODULE ReadersWriters -----------------------------
(***************************************************************************)
(* conc/rw0.c, rw1.c, rw2.c and rw3.c: four solutions of the               *)
(* readers-writers problem.  The threads call reader() or writer(), which  *)
(* loop for ever; solution says which file was compiled.  P waits until    *)
(* the semaphore is positive, and any waiting thread may be the next.      *)
(***************************************************************************)
EXTENDS Integers, FiniteSets

CONSTANTS Readers, Writers,   \* threads that run reader() and writer()
          N                   \* rw3.c:11, the readers that may be active

ASSUME RWAssumption == /\ IsFiniteSet(Readers) /\ IsFiniteSet(Writers)
                       /\ Readers \cap Writers = {}
                       /\ N \in Nat \ {0}

VARIABLES solution,   \* the file that was compiled
          at,         \* at[t]: the statement t executes next
          sem,        \* the values of the semaphores
          readcnt,    \* readcnt of rw1.c, readcount of rw2.c
          units       \* units[t]: the P(&sem) of t without their V(&sem), in
                      \* rw3.c: i of the first loop, N - i of the second

rwVars == <<solution, at, sem, readcnt, units>>

Solutions == {"rw0", "rw1", "rw2", "rw3"}
RWThreads == Readers \cup Writers
Semaphores == {"mutex", "w", "wg", "sem", "wmutex"}

(* The comments at the declarations: "Initially = 1", "Initially = N". *)
InitialValue(s) == IF s = "sem" THEN N ELSE 1

Init == /\ solution \in Solutions
        /\ at = [t \in RWThreads |-> "start"]
        /\ sem = [s \in Semaphores |-> InitialValue(s)]
        /\ readcnt = 0
        /\ units = [t \in Writers |-> 0]

Goes(t, from, to) == at[t] = from /\ at' = [at EXCEPT ![t] = to]

(* Mutant: wmutex was initialised to let everybody in. *)
PWithoutWmutex(t, s, from, to) == /\ Goes(t, from, to)
                                  /\ s /= "wmutex" => sem[s] > 0
                                  /\ sem' = [sem EXCEPT ![s] = @ - 1]
                                  /\ UNCHANGED <<solution, readcnt>>

P(t, s, from, to) == /\ Goes(t, from, to)
                     /\ sem[s] > 0
                     /\ sem' = [sem EXCEPT ![s] = @ - 1]
                     /\ UNCHANGED <<solution, readcnt>>

V(t, s, from, to) == /\ Goes(t, from, to)
                     /\ sem' = [sem EXCEPT ![s] = @ + 1]
                     /\ UNCHANGED <<solution, readcnt>>

(* The readers of rw0.c and rw3.c. *)
SimpleReader(r, s) == /\ P(r, s, "start", "critical") \/ V(r, s, "critical", "start")
                      /\ UNCHANGED units

(* The readers of rw1.c and rw2.c: the first in takes w, the last out      *)
(* gives it back.                                                          *)
CountIn(r) == /\ Goes(r, "count_in", IF readcnt + 1 = 1 THEN "P_w" ELSE "V_mutex_in")
              /\ readcnt' = readcnt + 1
              /\ UNCHANGED <<solution, sem>>

(* Mutant: the first reader out releases w. *)
FirstOut(r) == /\ Goes(r, "count_out", IF readcnt - 1 <= 1 THEN "V_w" ELSE "V_mutex_out")
               /\ readcnt' = readcnt - 1
               /\ UNCHANGED <<solution, sem>>

CountOut(r) == /\ Goes(r, "count_out", IF readcnt - 1 = 0 THEN "V_w" ELSE "V_mutex_out")
               /\ readcnt' = readcnt - 1
               /\ UNCHANGED <<solution, sem>>

CountingReader(r) == /\ \/ P(r, "mutex", "start", "count_in")
                        \/ CountIn(r)
                        \/ P(r, "w", "P_w", "V_mutex_in")
                        \/ V(r, "mutex", "V_mutex_in", "critical")
                        \/ P(r, "mutex", "critical", "count_out")
                        \/ CountOut(r)
                        \/ V(r, "w", "V_w", "V_mutex_out")
                        \/ V(r, "mutex", "V_mutex_out", "start")
                     /\ UNCHANGED units

Reader(r) == \/ solution = "rw0" /\ SimpleReader(r, "w")
             \/ solution \in {"rw1", "rw2"} /\ CountingReader(r)
             \/ solution = "rw3" /\ SimpleReader(r, "sem")

(* The writers of rw0.c and rw1.c. *)
SimpleWriter(x) == /\ P(x, "w", "start", "critical") \/ V(x, "w", "critical", "start")
                   /\ UNCHANGED units

(* The writers of rw2.c: one of them at a time is in the queue for w. *)
GuardedWriter(x) == /\ \/ P(x, "wg", "start", "P_w")
                       \/ P(x, "w", "P_w", "critical")
                       \/ V(x, "w", "critical", "V_wg")
                       \/ V(x, "wg", "V_wg", "start")
                    /\ UNCHANGED units

(* The writers of rw3.c: one at a time collects the N units. *)

(* Mutant: one unit too few. *)
HasEnough(x) == units[x] = N - 1

HasAll(x) == units[x] = N

CollectingWriter(x) ==
    \/ P(x, "wmutex", "start", "collect") /\ UNCHANGED units
    \/ /\ P(x, "sem", "collect", "collect") /\ ~HasAll(x)
       /\ units' = [units EXCEPT ![x] = @ + 1]
    \/ V(x, "wmutex", "collect", "critical") /\ HasAll(x) /\ UNCHANGED units
    \/ /\ V(x, "sem", "critical", "give")
       /\ units' = [units EXCEPT ![x] = @ - 1]
    \/ /\ V(x, "sem", "give", "give") /\ units[x] > 0
       /\ units' = [units EXCEPT ![x] = @ - 1]
    \/ /\ Goes(x, "give", "start") /\ units[x] = 0
       /\ UNCHANGED <<solution, sem, readcnt, units>>

Writer(x) == \/ solution \in {"rw0", "rw1"} /\ SimpleWriter(x)
             \/ solution = "rw2" /\ GuardedWriter(x)
             \/ solution = "rw3" /\ CollectingWriter(x)

Next == (\E r \in Readers : Reader(r)) \/ (\E x \in Writers : Writer(x))

Spec == Init /\ [][Next]_rwVars

--------------------------------------------------------------------------------
(* Properties *)

InCritical(t) == at[t] = "critical"

TypeOK == /\ solution \in Solutions
          /\ at \in [RWThreads -> {"start", "count_in", "P_w", "V_mutex_in", "critical",
                                 "count_out", "V_w", "V_mutex_out", "V_wg", "collect", "give"}]
          /\ sem \in [Semaphores -> Nat]
          /\ readcnt \in Int
          /\ units \in [Writers -> 0 .. N]

(* A writer is alone: in none of the four programs another thread reads or *)
(* writes while a writer is in its critical section.                       *)
Exclusion == \A x \in Writers : InCritical(x) =>
                 \A t \in RWThreads \ {x} : ~InCritical(t)

(* Who starts gets in, if P is granted to a thread that could have it      *)
(* again and again: readers in all four programs, writers in rw0.c and in  *)
(* rw3.c ("fair to both readers and writers").  In rw1.c and rw2.c a       *)
(* stream of readers keeps the writers out.                                *)
NeverShutOut(threads) == \A t \in threads : []<>InCritical(t)
NoStarvation == /\ NeverShutOut(Readers)
                /\ solution \in {"rw0", "rw3"} => NeverShutOut(Writers)

================================================================================
