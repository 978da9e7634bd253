---------------------------------- MODULE Shell ----------------------------------
(***************************************************************************)
(* The job control of ecf/shell.c: the main loop, its SIGCHLD handler, the *)
(* jobs and the keyboard.  The handler interrupts main between any two     *)
(* steps and runs to its end; children and keys go on meanwhile.           *)
(*                                                                         *)
(* The kernel is modelled as the calls of the shell see it (fork, waitpid, *)
(* kill): a child is forked, running, stopped or a zombie, SIGCHLD is      *)
(* pending or not, and a waitpid that blocks is restarted after a handler  *)
(* (the SA_RESTART of Signal in src/csapp.c).  All processes are in the    *)
(* shell's process group, so ctrl-c and ctrl-z reach every child.          *)
(***************************************************************************)
EXTENDS Naturals, FiniteSets, FiniteSetsExt

CONSTANTS PidMax,     \* the kernel gives out the pids 1 .. PidMax, in turn
          MAXJOBS,    \* the entries of the job list
          MaxForks,   \* bound: the commands that fork a child
          PidArgs     \* the arguments of fg and bg, as atoi returns them

ShellAssumption == /\ PidMax \in Nat \ {0} /\ MAXJOBS \in Nat \ {0}
                   /\ MaxForks \in Nat
                   /\ PidArgs \subseteq 0 .. PidMax

VARIABLES jobs,       \* the job list
          pc,         \* what main does next
          pid, st, i, \* main's locals: a pid, a job state, an index into jobs
          exited,     \* "no", or how the shell has exited
          sigchld,    \* SIGCHLD is pending
          handling,   \* sigchld_handler runs
          proc,       \* proc[p]: the state of process p, for the kernel
          collected,  \* collected[p]: a waitpid has reported p's stop
          ignores,    \* ignores[p]: p was started in the background
          lastpid,    \* the pid given out last
          forks       \* the children forked so far

main == <<pc, pid, st, i>>
kernel == <<sigchld, proc, collected, ignores, lastpid, forks>>
vars == <<jobs, main, exited, handling, kernel>>

Pids == 1 .. PidMax
Slots == 0 .. MAXJOBS - 1
FreeSlot == [pid |-> 0, state |-> "UNDEF"]

Init == /\ jobs = [k \in Slots |-> FreeSlot]
        /\ pc = "prompt" /\ pid = 0 /\ st = "UNDEF" /\ i = 0
        /\ exited = "no" /\ sigchld = FALSE /\ handling = FALSE
        /\ proc = [p \in Pids |-> "none"]
        /\ collected = [p \in Pids |-> FALSE]
        /\ ignores = [p \in Pids |-> FALSE]
        /\ lastpid = 0 /\ forks = 0

--------------------------------------------------------------------------------
(* The job list *)

Entries(p) == {k \in Slots : jobs[k].pid = p}

deletejob(p) == jobs' = IF Entries(p) = {} THEN jobs
                        ELSE [jobs EXCEPT ![Min(Entries(p))] = FreeSlot]

--------------------------------------------------------------------------------
(* main and eval.  A step of main needs the handler to be out of its way.  *)

At(l) == exited = "no" /\ ~handling /\ pc = l

(* Where addjob and updatejob return to, by the state they set.            *)
Continue(s) == IF s = "FG" THEN "waitfg" ELSE "prompt"

Unused == {p \in Pids : proc[p] = "none"}
NextPid == LET above == {p \in Unused : p > lastpid}
           IN  Min(IF above /= {} THEN above ELSE Unused)

(* A command that is not built in; s says whether it ended in "&".         *)
Fork(s) == /\ At("prompt") /\ forks < MaxForks /\ Unused /= {}
           /\ pc' = "addjob" /\ pid' = NextPid /\ st' = s /\ i' = 0
           /\ proc' = [proc EXCEPT ![NextPid] = "forked"]
           /\ collected' = [collected EXCEPT ![NextPid] = FALSE]
           /\ ignores' = [ignores EXCEPT ![NextPid] = (s = "BG")]
           /\ lastpid' = NextPid /\ forks' = forks + 1
           /\ UNCHANGED <<jobs, exited, sigchld, handling>>

(* addjob: the loop over the entries, and the two assignments.             *)
AddPid == /\ At("addjob")
          /\ IF i = MAXJOBS THEN pc' = Continue(st) /\ UNCHANGED <<jobs, i>>
             ELSE IF jobs[i].pid = 0
             THEN jobs' = [jobs EXCEPT ![i].pid = pid] /\ pc' = "addstate" /\ UNCHANGED i
             ELSE i' = i + 1 /\ UNCHANGED <<jobs, pc>>
          /\ UNCHANGED <<pid, st, exited, handling, kernel>>

AddState == /\ At("addstate")
            /\ jobs' = [jobs EXCEPT ![i].state = st]
            /\ pc' = Continue(st)
            /\ UNCHANGED <<pid, st, i, exited, handling, kernel>>

(* updatejob: the loop and the assignment.                                 *)
UpdateFind == /\ At("update")
              /\ IF Entries(pid) = {} THEN pc' = Continue(st) /\ UNCHANGED i
                 ELSE i' = Min(Entries(pid)) /\ pc' = "store"
              /\ UNCHANGED <<jobs, pid, st, exited, handling, kernel>>

UpdateStore == /\ At("store")
               /\ jobs' = [jobs EXCEPT ![i].state = st]
               /\ pc' = Continue(st)
               /\ UNCHANGED <<pid, st, i, exited, handling, kernel>>

(* builtin_command: "fg p" and "bg p", when getjob finds an entry; else    *)
(* nothing changes.                                                        *)
JobCommand(p, s) == /\ At("prompt") /\ Entries(p) /= {}
                    /\ pc' = "kill" /\ pid' = p /\ st' = s
                    /\ UNCHANGED <<jobs, i, exited, handling, kernel>>

(* The processes that kill(p, sig) and waitpid(p) mean: 0 is the group.    *)
Matches(p) == {q \in Pids : proc[q] /= "none" /\ (p = 0 \/ q = p)}

(* Mutant: bg does not update the state of the job. *)
KillOnly == /\ At("kill")
            /\ IF pid /= 0 /\ Matches(pid) = {}
               THEN exited' = "error" /\ UNCHANGED <<pc, proc, sigchld>>
               ELSE /\ pc' = IF st = "BG" THEN "prompt" ELSE "update"
                    /\ proc' = [q \in Pids |-> IF q \in Matches(pid) /\ proc[q] = "stopped"
                                               THEN "running" ELSE proc[q]]
                    /\ sigchld' = (sigchld \/ proc' /= proc)
                    /\ UNCHANGED exited
            /\ UNCHANGED <<jobs, pid, st, i, handling, collected, ignores, lastpid, forks>>

(* Kill(pid, SIGCONT): it exits if there is no such process; a child that  *)
(* continues sends SIGCHLD as well.                                        *)
Kill == /\ At("kill")
        /\ IF pid /= 0 /\ Matches(pid) = {}
           THEN exited' = "error" /\ UNCHANGED <<pc, proc, sigchld>>
           ELSE /\ pc' = "update"
                /\ proc' = [q \in Pids |-> IF q \in Matches(pid) /\ proc[q] = "stopped"
                                           THEN "running" ELSE proc[q]]
                /\ sigchld' = (sigchld \/ proc' /= proc)
                /\ UNCHANGED exited
        /\ UNCHANGED <<jobs, pid, st, i, handling, collected, ignores, lastpid, forks>>

Quit == /\ At("prompt") /\ exited' = "quit"
        /\ UNCHANGED <<jobs, main, handling, kernel>>

--------------------------------------------------------------------------------
(* waitfg.  In "waitfg" main is about to call waitpid, in "wait" it is in  *)
(* the kernel: there a status to report comes before a pending signal.     *)

EnterWait == /\ At("waitfg") /\ pc' = "wait"
             /\ UNCHANGED <<jobs, pid, st, i, exited, handling, kernel>>

Zombies(p) == {q \in Matches(p) : proc[q] = "zombie"}

(* Mutant: without WUNTRACED. *)
NoStops(p) == {}

NewStops(p) == {q \in Matches(p) : proc[q] = "stopped" /\ ~collected[q]}

WaitFails == /\ At("wait") /\ Matches(pid) = {}
             /\ exited' = "error"
             /\ UNCHANGED <<jobs, main, handling, kernel>>

WaitTerminated == /\ At("wait")
                  /\ \E q \in Zombies(pid) : proc' = [proc EXCEPT ![q] = "none"]
                  /\ pc' = "delete"
                  /\ UNCHANGED <<jobs, pid, st, i, exited, handling, sigchld, collected,
                                 ignores, lastpid, forks>>

(* Mutant: a stop is taken for a termination. *)
WaitStoppedDeletes == /\ At("wait")
                      /\ \E q \in NewStops(pid) :
                            collected' = [collected EXCEPT ![q] = TRUE]
                      /\ pc' = "delete"
                      /\ UNCHANGED <<jobs, pid, st, i, exited, handling, sigchld, proc,
                                     ignores, lastpid, forks>>

(* Mutant: the stop is not recorded. *)
WaitStoppedForgets == /\ At("wait")
                      /\ \E q \in NewStops(pid) :
                            collected' = [collected EXCEPT ![q] = TRUE]
                      /\ pc' = "prompt"
                      /\ UNCHANGED <<jobs, pid, st, i, exited, handling, sigchld, proc,
                                     ignores, lastpid, forks>>

WaitStopped == /\ At("wait")
               /\ \E q \in NewStops(pid) : collected' = [collected EXCEPT ![q] = TRUE]
               /\ pc' = "update" /\ st' = "ST"
               /\ UNCHANGED <<jobs, pid, i, exited, handling, sigchld, proc, ignores,
                              lastpid, forks>>

Delete == /\ At("delete") /\ deletejob(pid) /\ pc' = "prompt"
          /\ UNCHANGED <<pid, st, i, exited, handling, kernel>>

Eval == \/ AddPid \/ AddState \/ UpdateFind \/ UpdateStore \/ Kill
        \/ EnterWait \/ WaitFails \/ WaitTerminated \/ WaitStopped \/ Delete

--------------------------------------------------------------------------------
(* sigchld_handler *)

MustReturn == Matches(pid) = {} \/ Zombies(pid) /= {} \/ NewStops(pid) /= {}

Deliver == /\ exited = "no" /\ ~handling /\ sigchld
           /\ pc = "wait" => ~MustReturn
           /\ handling' = TRUE /\ sigchld' = FALSE
           /\ pc' = IF pc = "wait" THEN "waitfg" ELSE pc
           /\ UNCHANGED <<jobs, pid, st, i, exited, proc, collected, ignores, lastpid, forks>>

(* Mutant: the handler reaps one child for each signal. *)
ReapOne == /\ exited = "no" /\ handling
           /\ \E p \in Pids : /\ proc[p] = "zombie"
                              /\ proc' = [proc EXCEPT ![p] = "none"]
                              /\ deletejob(p)
           /\ handling' = FALSE
           /\ UNCHANGED <<main, exited, sigchld, collected, ignores, lastpid, forks>>

Reap == /\ exited = "no" /\ handling
        /\ \E p \in Pids : /\ proc[p] = "zombie"
                           /\ proc' = [proc EXCEPT ![p] = "none"]
                           /\ deletejob(p)
        /\ UNCHANGED <<main, exited, handling, sigchld, collected, ignores, lastpid, forks>>

(* waitpid returns 0, or -1 with ECHILD: both end the loop.                *)
HandlerReturns == /\ exited = "no" /\ handling
                  /\ \A p \in Pids : proc[p] /= "zombie"
                  /\ handling' = FALSE
                  /\ UNCHANGED <<jobs, main, exited, kernel>>

Handler == Deliver \/ Reap \/ HandlerReturns

--------------------------------------------------------------------------------
(* The children and the keyboard *)

(* Until execve the child has the handlers of the shell, which return at   *)
(* once; execve resets them, and keeps what a background job ignores.      *)
Exec(p) == /\ proc[p] = "forked" /\ proc' = [proc EXCEPT ![p] = "running"]
           /\ UNCHANGED <<jobs, main, exited, handling, sigchld, collected, ignores,
                          lastpid, forks>>

(* The program ends, or it was not found.                                  *)
Exit(p) == /\ proc[p] \in {"forked", "running"}
           /\ proc' = [proc EXCEPT ![p] = "zombie"] /\ sigchld' = TRUE
           /\ UNCHANGED <<jobs, main, exited, handling, collected, ignores, lastpid, forks>>

(* A ctrl-c that finds a child stopped ends it when it is continued: one   *)
(* of the ways to take Exit.                                               *)
Struck == {p \in Pids : proc[p] = "running" /\ ~ignores[p]}

CtrlC == /\ Struck /= {}
         /\ proc' = [p \in Pids |-> IF p \in Struck THEN "zombie" ELSE proc[p]]
         /\ sigchld' = TRUE
         /\ UNCHANGED <<jobs, main, exited, handling, collected, ignores, lastpid, forks>>

CtrlZ == /\ Struck /= {}
         /\ proc' = [p \in Pids |-> IF p \in Struck THEN "stopped" ELSE proc[p]]
         /\ collected' = [p \in Pids |-> collected[p] /\ p \notin Struck]
         /\ sigchld' = TRUE
         /\ UNCHANGED <<jobs, main, exited, handling, ignores, lastpid, forks>>

Environment == \/ \E p \in Pids : Exec(p) \/ Exit(p)
               \/ CtrlC \/ CtrlZ

Next == \/ \E s \in {"FG", "BG"} : Fork(s)
        \/ \E p \in PidArgs, s \in {"FG", "BG"} : JobCommand(p, s)
        \/ Quit \/ Eval \/ Handler
        \/ exited = "no" /\ Environment

Spec == Init /\ [][Next]_vars

--------------------------------------------------------------------------------
(* Properties *)

Alive(p) == proc[p] \in {"forked", "running", "stopped"}
AtPrompt == exited = "no" /\ pc = "prompt" /\ ~handling

(* A child that is alive has exactly one entry in a job list with room for *)
(* all, so that the user can reach it with fg and bg, from addjob          *)
(* (shell.c:379) to its end, whatever the handler deletes meanwhile.       *)
NoLostJob == \A p \in Pids : Alive(p) /\ ~(pid = p /\ pc = "addjob") =>
                 Cardinality(Entries(p)) = 1

(* "At most 1 job can be in the FG state" (shell.c:24), which holds as     *)
(* long as no pid is used twice, and at the prompt none is.                *)
Foreground == {k \in Slots : jobs[k].pid /= 0 /\ jobs[k].state = "FG"}

AtMostOneFG == Cardinality(Foreground) <= 1

OneForeground == AtMostOneFG /\ (AtPrompt => Foreground = {})

(* At the prompt, the jobs listed as stopped are those whose stop waitfg   *)
(* has seen (shell.c:209) and that nobody has continued since.             *)
StopsRecorded ==
    AtPrompt => \A k \in Slots : jobs[k].pid /= 0 =>
        (jobs[k].state = "ST" <=> /\ proc[jobs[k].pid] = "stopped"
                                  /\ collected[jobs[k].pid])

(* "The handler reaps all available zombie jobs" (shell.c:282), although   *)
(* several ends may raise one SIGCHLD.                                     *)
ZombiesReaped == \A p \in Pids : proc[p] = "zombie" ~> proc[p] = "none" \/ exited /= "no"

(* When the foreground job terminates or stops, the shell prompts again    *)
(* (shell.c:199), if it does not exit.                                     *)
Over(p) == p \in Pids => ~(proc[p] \in {"forked", "running"})

WaitfgReturns == pc = "wait" /\ Over(pid) ~> pc = "prompt" \/ exited /= "no"

--------------------------------------------------------------------------------
(* What the comments say and the code does not do *)

(* "waitfg - block until FG job pid terminates or stops" (shell.c:199):    *)
(* the shell does not exit for want of a child to wait for.                *)
WaitfgWaits == pc = "wait" => exited /= "error"

(* "Background jobs should ignore SIGINT (ctrl-c) and SIGTSTP (ctrl-z)"    *)
(* (shell.c:364-365).                                                      *)
BackgroundIgnoresKeys ==
    AtPrompt => \A k \in Slots : jobs[k].pid /= 0 /\ jobs[k].state = "BG"
                                 /\ proc[jobs[k].pid] = "running" => ignores[jobs[k].pid]

================================================================================
