----------------------------- MODULE SignalHandlers -----------------------------
(***************************************************************************)
(* The programs of ecf/ whose main flow races its SIGCHLD handler:         *)
(* procmask.c, procmask1.c and procmask2.c (a job list), signal1.c and     *)
(* signal2.c (signal3.c and signal4.c have the control of signal2.c),      *)
(* sigsuspend.c and waitforsignal.c.  One SIGCHLD can be pending; the      *)
(* handler runs between any two statements of main where it is unblocked,  *)
(* and SIGCHLD is blocked while it runs.                                   *)
(***************************************************************************)
EXTENDS Naturals, Sequences, FiniteSets

CONSTANT MaxForks   \* bound of the runs: main forks no more than this

HandlersAssumption == MaxForks \in Nat

VARIABLES prog,      \* the program
          main,      \* the position of main in the text of the program
          asleep,    \* main is inside sigsuspend
          blocked,   \* SIGCHLD is in main's mask
          pending,   \* a SIGCHLD is pending
          handler,   \* "off", or what the handler does next
          got,       \* the child that waitpid has just reported
          child,     \* child[c]: "unborn", "live", "zombie" or "reaped"
          jobs,      \* the job list of procmask*.c
          pid        \* the flag of sigsuspend.c and waitforsignal.c

handlerVars == <<prog, main, asleep, blocked, pending, handler, got, child, jobs, pid>>

Children == 1 .. MaxForks
Unreaped == {c \in Children : child[c] \in {"live", "zombie"}}

(* The statements of main; all but signal1.c and signal2.c start again at  *)
(* the end.  "wait" stands for the loop that ends when pid is set.         *)
procmask == <<"block", "fork", "addjob", "unblock">>
procmask1 == <<"fork", "block", "addjob", "unblock">>

(* Mutant: procmask2.c with the first two calls in the order of procmask1. *)
procmask2Late == <<"fork", "block", "block", "addjob", "unblock">>

procmask2 == <<"block", "fork", "block", "addjob", "unblock">>
signals == <<"fork", "fork", "fork", "read", "stop">>
sigsuspend == <<"block", "fork", "clear", "wait", "unblock">>

(* Mutant: SIGCHLD is unblocked before pid is cleared. *)
waitforsignalLate == <<"block", "fork", "unblock", "clear", "wait">>

waitforsignal == <<"block", "fork", "clear", "unblock", "wait">>

Text == [procmask |-> procmask, procmask1 |-> procmask1, procmask2 |-> procmask2,
         signal1 |-> signals, signal2 |-> signals,
         sigsuspend |-> sigsuspend, waitforsignal |-> waitforsignal]

Procmasks == {"procmask", "procmask1", "procmask2"}
Signals == {"signal1", "signal2"}
Waiters == {"sigsuspend", "waitforsignal"}

Init == /\ prog \in Procmasks \cup Signals \cup Waiters
        /\ main = 1 /\ asleep = FALSE
        /\ blocked = FALSE /\ pending = FALSE
        /\ handler = "off" /\ got = 0
        /\ child = [c \in Children |-> "unborn"]
        /\ jobs = {}
        /\ pid = 0

(* The children are numbered in the order of their creation. *)
Newest == Cardinality({c \in Children : child[c] /= "unborn"})

(* A statement of main, which does not run while the handler does.         *)
Statement(s) == /\ handler = "off" /\ ~asleep
                /\ Text[prog][main] = s
                /\ main = 1 => Newest < MaxForks
                /\ UNCHANGED <<prog, got>>

Done == main' = (IF main = Len(Text[prog]) THEN 1 ELSE main + 1)

Block == /\ Statement("block") /\ Done
         /\ blocked' = TRUE
         /\ UNCHANGED <<asleep, pending, handler, child, jobs, pid>>

(* A signal that was pending is delivered before sigprocmask returns. *)
Unblock == /\ Statement("unblock") /\ Done
           /\ blocked' = FALSE
           /\ pending' = FALSE
           /\ handler' = IF pending THEN "waitpid" ELSE "off"
           /\ UNCHANGED <<asleep, child, jobs, pid>>

Fork == /\ Statement("fork") /\ Done
        /\ child' = [child EXCEPT ![Newest + 1] = "live"]
        /\ UNCHANGED <<asleep, blocked, pending, handler, jobs, pid>>

AddJob == /\ Statement("addjob") /\ Done
          /\ jobs' = jobs \cup {Newest}
          /\ UNCHANGED <<asleep, blocked, pending, handler, child, pid>>

ClearPid == /\ Statement("clear") /\ Done
            /\ pid' = 0
            /\ UNCHANGED <<asleep, blocked, pending, handler, child, jobs>>

(* read returns when there is input, and the loop "while (1);" follows.    *)
ReadInput == /\ Statement("read") /\ Done
             /\ UNCHANGED <<asleep, blocked, pending, handler, child, jobs, pid>>

(* while (!pid): sigsuspend unblocks SIGCHLD and sleeps in one step,       *)
(* waitforsignal.c spins.                                                  *)
PidIsSet == /\ Statement("wait") /\ pid /= 0 /\ Done
            /\ UNCHANGED <<asleep, blocked, pending, handler, child, jobs, pid>>

Suspend == /\ Statement("wait") /\ pid = 0 /\ prog = "sigsuspend"
           /\ asleep' = TRUE /\ blocked' = FALSE
           /\ UNCHANGED <<main, pending, handler, child, jobs, pid>>

(* A SIGINT, whose handler does nothing, also ends sigsuspend; a SIGCHLD   *)
(* that is pending then has been delivered before it returns.              *)
Interrupt == /\ handler = "off" /\ asleep /\ ~pending
             /\ asleep' = FALSE /\ blocked' = TRUE
             /\ UNCHANGED <<prog, main, pending, handler, got, child, jobs, pid>>

Main == Block \/ Unblock \/ Fork \/ AddJob \/ ClearPid \/ ReadInput \/ PidIsSet \/ Suspend

Exit(c) == /\ child[c] = "live"
           /\ child' = [child EXCEPT ![c] = "zombie"]
           /\ pending' = TRUE
           /\ UNCHANGED <<prog, main, asleep, blocked, handler, got, jobs, pid>>

Deliver == /\ pending /\ ~blocked /\ handler = "off"
           /\ pending' = FALSE
           /\ handler' = "waitpid"
           /\ UNCHANGED <<prog, main, asleep, blocked, got, child, jobs, pid>>

(* The handlers that loop until waitpid says ECHILD. *)

(* Mutant: an if where the code has a while. *)
LoopsNever == FALSE

Loops == prog \in Procmasks \cup {"signal2"}

(* waitpid(-1, NULL, 0) blocks until a child is a zombie, and reaps it.    *)
Reap(c) == /\ handler = "waitpid" /\ child[c] = "zombie"
           /\ child' = [child EXCEPT ![c] = "reaped"]
           /\ got' = c
           /\ pid' = IF prog \in Waiters THEN c ELSE pid
           /\ handler' = IF prog \in Procmasks THEN "deletejob"
                         ELSE IF Loops THEN "waitpid" ELSE "return"
           /\ UNCHANGED <<prog, main, asleep, blocked, pending, jobs>>

DeleteJob == /\ handler = "deletejob"
             /\ jobs' = jobs \ {got}
             /\ handler' = IF Loops THEN "waitpid" ELSE "return"
             /\ UNCHANGED <<prog, main, asleep, blocked, pending, got, child, pid>>

(* No children: ECHILD, which a looping handler expects; in the others the *)
(* error function or wrapper exits.                                        *)
NoChild == /\ handler = "waitpid" /\ Unreaped = {}
           /\ handler' = IF Loops THEN "return" ELSE "exited"
           /\ UNCHANGED <<prog, main, asleep, blocked, pending, got, child, jobs, pid>>

(* The return of the handler ends sigsuspend, which restores the mask.     *)
Return == /\ handler = "return"
          /\ handler' = "off"
          /\ asleep' = FALSE
          /\ blocked' = (asleep \/ blocked)
          /\ UNCHANGED <<prog, main, pending, got, child, jobs, pid>>

Handler == Deliver \/ (\E c \in Children : Reap(c)) \/ DeleteJob \/ NoChild \/ Return

Next == Main \/ Interrupt \/ Handler \/ \E c \in Children : Exit(c)

--------------------------------------------------------------------------------
(* Properties *)

(* A job in the list of procmask.c or procmask2.c is a child that has not  *)
(* been reaped (but for the one the handler is about to delete), and every *)
(* such child is in the list once main has left its blocked section.  In   *)
(* procmask1.c the handler may delete a job before main adds it.           *)
JobsMatchChildren ==
    prog \in {"procmask", "procmask2"} =>
        LET deleting == IF handler = "deletejob" THEN {got} ELSE {}
        IN  /\ jobs \subseteq Unreaped \cup deleting
            /\ ~blocked => Unreaped \subseteq jobs

(* Three children may end while one SIGCHLD is pending: the handlers that  *)
(* loop leave no zombie, that of signal1.c may.  And the SIGCHLD is not    *)
(* missed where main waits for it, however early the child ends: main gets *)
(* out of the loop that waits for pid.                                     *)
Reapers == Procmasks \cup {"signal2"}
AllReaped == <>[](prog \in Reapers => \A c \in Children : child[c] /= "zombie")
NothingMissed == /\ AllReaped
                 /\ (prog \in Waiters /\ Text[prog][main] = "wait")
                        ~> (Text[prog][main] /= "wait")

================================================================================
