------------------------------ MODULE ShellProofs ------------------------------
(***************************************************************************)
(* The job list of ecf/shell.c, for any number of children, entries and    *)
(* arguments: what MCPrograms checks of it on an instance.  Where it is    *)
(* said, the kernel has a pid for every child (ShellForks <= PidMax), the  *)
(* list has room for all of them (ShellForks <= MAXJOBS), and no argument  *)
(* of fg or bg is 0.                                                       *)
(***************************************************************************)
EXTENDS MCPrograms, FiniteSetTheorems, NumberLemmas, TLAPS

(* A step of the composition is a step of the shell, or leaves the shell   *)
(* as it is.                                                               *)
LEMMA ShellStep ==
  ASSUME [ProgramsNext]_programVars
  PROVE  Sh!Next \/ UNCHANGED shellVars
BY DEF ProgramsNext, programVars

ShellPlaces == {"prompt", "addjob", "addstate", "update", "store", "kill", "waitfg", "wait",
                "delete"}
JobStates == {"UNDEF", "FG", "BG", "ST"}
ProcStates == {"none", "forked", "running", "stopped", "zombie"}

ShellTypes ==
    /\ sJobs \in [Sh!Slots -> [pid : 0 .. PidMax, state : JobStates]]
    /\ sPc \in ShellPlaces /\ sPid \in 0 .. PidMax /\ st \in JobStates /\ sI \in 0 .. MAXJOBS
    /\ proc \in [Sh!Pids -> ProcStates] /\ collected \in [Sh!Pids -> BOOLEAN]
    /\ DOMAIN ignores = Sh!Pids

(* The pids are given out in turn, and each has one entry at most: none    *)
(* before addjob stores it.                                                *)
Numbered ==
    /\ forks \in Nat /\ lastpid = forks /\ forks <= ShellForks
    /\ \A p \in Sh!Pids : p > lastpid => proc[p] = "none"
    /\ \A k1 \in Sh!Slots : sJobs[k1].pid <= lastpid
    /\ \A k1, k2 \in Sh!Slots : sJobs[k1].pid = sJobs[k2].pid /\ sJobs[k1].pid /= 0 => k1 = k2
    /\ sPc = "addjob" => /\ sPid = lastpid /\ sPid \in Sh!Pids /\ st \in {"FG", "BG"}
                         /\ \A k1 \in Sh!Slots : sJobs[k1].pid /= sPid

NumberedInv == ShellTypes /\ Numbered

(* A child that the kernel knows has an entry, whether its pid is new or   *)
(* used again, and the entries that are taken, and the one addjob looks    *)
(* at, are no further on in the list than children have been started.      *)
Kept == /\ \A p \in Sh!Pids : proc[p] /= "none" /\ ~(sPid = p /\ sPc = "addjob") =>
                                 \E k1 \in Sh!Slots : sJobs[k1].pid = p
        /\ sPc = "delete" => sPid = 0 \/ proc[sPid] = "none"
Room == /\ forks \in Nat /\ forks <= ShellForks
        /\ \A k1 \in Sh!Slots : sJobs[k1].pid /= 0 =>
               k1 < IF sPc = "addjob" THEN forks - 1 ELSE forks
        /\ sPc = "addjob" => sI < forks

KeptInv == ShellTypes /\ Kept /\ Room

(* The entry that main is about to write is that of its job, unless the    *)
(* handler has deleted it.                                                 *)
Working ==
    /\ sPc /= "prompt" => sPid \in Sh!Pids
    /\ sPc \in {"addjob", "addstate", "kill"} => st \in {"FG", "BG"}
    /\ sPc \in {"addjob", "addstate"} => ~collected[sPid]
    /\ sPc \in {"addstate", "store"} =>
          /\ sI \in Sh!Slots
          /\ sJobs[sI].pid = sPid \/ (sJobs[sI].pid = 0 /\ proc[sPid] = "none")
          /\ \A k1 \in Sh!Slots : sJobs[k1].pid = sPid => k1 = sI
    /\ sPc = "delete" => proc[sPid] = "none"

(* An entry says that its job is stopped when waitfg has seen the stop,    *)
(* but for the job whose state main is about to write.                     *)
SeenStopped(p) == proc[p] = "stopped" /\ collected[p]
Updating == sPc \in {"update", "store"}
Stops ==
    /\ \A k1 \in Sh!Slots : sJobs[k1].pid /= 0 /\ ~(Updating /\ sJobs[k1].pid = sPid) =>
          (sJobs[k1].state = "ST" <=> SeenStopped(sJobs[k1].pid))
    /\ \A k1 \in Sh!Slots : sJobs[k1].pid = 0 => sJobs[k1].state /= "ST"
    /\ Updating => (st = "ST" <=> SeenStopped(sPid))

(* Only main's job is in the foreground, while main waits for it and until *)
(* it has written what the wait has told.                                  *)
Front ==
    /\ \A k1 \in Sh!Foreground :
          /\ sJobs[k1].pid = sPid
          /\ sPc \in {"waitfg", "wait", "delete"} \/ (Updating /\ st = "ST")
    /\ \A k1 \in Sh!Slots : sJobs[k1].pid = 0 /\ sJobs[k1].state = "FG" =>
          sPc \in {"waitfg", "wait"} /\ proc[sPid] = "none"

FrontInv == NumberedInv /\ Working /\ Stops /\ Front

--------------------------------------------------------------------------------
(* Lemmas about the job list *)

(* What the constants are.                                                 *)
LEMMA Sizes ==
  /\ PidMax \in Nat /\ MAXJOBS \in Nat /\ ShellForks \in Nat /\ PidArgs \subseteq 0 .. PidMax
  /\ Sh!Slots = 0 .. MAXJOBS - 1 /\ Sh!Pids = 1 .. PidMax
BY ProgramsAssumption DEF Sh!ShellAssumption, Sh!Slots, Sh!Pids

(* The entry that getjob finds for a pid has that pid.                     *)
LEMMA FirstEntry ==
  ASSUME NEW p, Sh!Entries(p) /= {}
  PROVE  Sh!Min(Sh!Entries(p)) \in Sh!Slots /\ sJobs[Sh!Min(Sh!Entries(p))].pid = p
<1>1. Sh!Entries(p) \in SUBSET Nat
  BY Sizes DEF Sh!Entries
<1>2. Sh!Min(Sh!Entries(p)) = Min(Sh!Entries(p))
  BY DEF Sh!Min, Min
<1> QED BY <1>1, <1>2, LeastElement DEF Sh!Entries

(* deletejob frees an entry of its pid, and no other.                      *)
LEMMA DeletedJob ==
  ASSUME ShellTypes, NEW p \in 0 .. PidMax, Sh!deletejob(p)
  PROVE  /\ sJobs' \in [Sh!Slots -> [pid : 0 .. PidMax, state : JobStates]]
         /\ \A k1 \in Sh!Slots : \/ sJobs'[k1] = sJobs[k1]
                                 \/ sJobs[k1].pid = p /\ sJobs'[k1] = Sh!FreeSlot
         /\ NumberedInv /\ p /= 0 => \A k1 \in Sh!Slots : sJobs'[k1].pid /= p
<1> USE DEF ShellTypes
<1>1. CASE Sh!Entries(p) = {}
  BY <1>1 DEF Sh!deletejob, Sh!Entries
<1>2. CASE Sh!Entries(p) /= {}
  <2> DEFINE m == Sh!Min(Sh!Entries(p))
  <2>1. m \in Sh!Slots /\ sJobs[m].pid = p
    BY <1>2, FirstEntry
  <2>2. sJobs' = [sJobs EXCEPT ![m] = Sh!FreeSlot]
    BY <1>2 DEF Sh!deletejob
  <2>3. Sh!FreeSlot \in [pid : 0 .. PidMax, state : JobStates] /\ Sh!FreeSlot.pid = 0
    BY Sizes DEF Sh!FreeSlot, JobStates
  <2> HIDE DEF m
  <2>4. \A k1 \in Sh!Slots : sJobs'[k1] = IF k1 = m THEN Sh!FreeSlot ELSE sJobs[k1]
    BY <2>2
  <2>5. NumberedInv /\ p /= 0 => \A k1 \in Sh!Slots : sJobs[k1].pid = p => k1 = m
    BY <2>1 DEF NumberedInv, Numbered
  <2>6. NumberedInv /\ p /= 0 => \A k1 \in Sh!Slots : sJobs'[k1].pid /= p
    BY <2>3, <2>4, <2>5
  <2> QED BY <2>1, <2>2, <2>3, <2>4, <2>6
<1> QED BY <1>1, <1>2

(* fork gives out the next pid: all the kernel has were never used.        *)
LEMMA NextInTurn ==
  ASSUME ShellForks <= PidMax, NumberedInv, forks < ShellForks
  PROVE  Sh!NextPid = lastpid + 1 /\ lastpid + 1 \in Sh!Pids
<1> DEFINE above == {p \in Sh!Unused : p > lastpid}
<1>1. lastpid \in Nat /\ lastpid + 1 \in Sh!Pids
  BY Sizes DEF NumberedInv, Numbered
<1>2. lastpid + 1 \in above
  BY <1>1, Sizes DEF NumberedInv, Numbered, Sh!Unused
<1>3. above \in SUBSET Nat
  BY Sizes DEF Sh!Unused
<1>4. Sh!Min(above) = Min(above)
  BY DEF Sh!Min, Min
<1>5. Sh!NextPid = Min(above)
  BY <1>2, <1>4 DEF Sh!NextPid
<1>6. Min(above) \in above /\ Min(above) <= lastpid + 1
  BY <1>2, <1>3, LeastElement
<1>7. Min(above) > lastpid /\ Min(above) \in Nat
  BY <1>3, <1>6
<1> QED BY <1>1, <1>5, <1>6, <1>7
--------------------------------------------------------------------------------
(* The numbering is kept by every step *)

(* A step that starts no child and enters no job only frees entries.       *)
OnlyFrees == /\ ShellTypes' /\ UNCHANGED <<lastpid, forks>>
             /\ \A p \in Sh!Pids : proc[p] = "none" => proc'[p] = "none"
             /\ \A k1 \in Sh!Slots : sJobs'[k1].pid \in {sJobs[k1].pid, 0}
             /\ sPc' = "addjob" => sPc = "addjob" /\ UNCHANGED <<sPid, st>>

(* To free entries keeps the numbers.                                      *)
LEMMA FreesKeeps ==
  ASSUME NumberedInv, OnlyFrees
  PROVE  NumberedInv'
<1>1. Sh!Slots' = Sh!Slots /\ Sh!Pids' = Sh!Pids
  BY DEF Sh!Slots, Sh!Pids
<1>2. \A p \in Sh!Pids : p > lastpid' => proc'[p] = "none"
  BY DEF NumberedInv, Numbered, OnlyFrees
<1>3. \A k1 \in Sh!Slots : sJobs'[k1].pid <= lastpid'
  BY DEF NumberedInv, Numbered, OnlyFrees
<1>4. \A k1, k2 \in Sh!Slots : sJobs'[k1].pid = sJobs'[k2].pid /\ sJobs'[k1].pid /= 0 => k1 = k2
  BY DEF NumberedInv, Numbered, OnlyFrees
<1>5. sPc' = "addjob" => /\ sPid' = lastpid' /\ sPid' \in Sh!Pids /\ st' \in {"FG", "BG"}
                         /\ \A k1 \in Sh!Slots : sJobs'[k1].pid /= sPid'
  BY Sizes DEF NumberedInv, Numbered, OnlyFrees
<1> QED BY <1>1, <1>2, <1>3, <1>4, <1>5 DEF NumberedInv, Numbered, OnlyFrees

(* main's steps, other than the start of a child and addjob.               *)
LEMMA MainFrees ==
  ASSUME ShellTypes,
         \/ \E p \in PidArgs, s \in {"FG", "BG"} : Sh!JobCommand(p, s)
         \/ Sh!Quit \/ Sh!AddState \/ Sh!UpdateFind \/ Sh!UpdateStore \/ Sh!Kill
         \/ Sh!EnterWait \/ Sh!WaitFails \/ Sh!WaitTerminated \/ Sh!WaitStopped \/ Sh!Delete
  PROVE  OnlyFrees
<1> USE Sizes DEF ShellTypes, OnlyFrees, ShellPlaces, ProcStates, JobStates
<1>1. ASSUME NEW p \in PidArgs, NEW s \in {"FG", "BG"}, Sh!JobCommand(p, s) PROVE OnlyFrees
  BY <1>1 DEF Sh!JobCommand, Sh!At, Sh!kernel
<1>2. CASE Sh!Quit
  BY <1>2 DEF Sh!Quit, Sh!main, Sh!kernel
<1>3. CASE Sh!AddState \/ Sh!UpdateStore
  <2>1. /\ sJobs' = [sJobs EXCEPT ![sI].state = st] /\ sPc' \in ShellPlaces \ {"addjob"}
        /\ UNCHANGED <<sPid, st, sI, proc, collected, ignores, lastpid, forks>>
    BY <1>3 DEF Sh!AddState, Sh!UpdateStore, Sh!At, Sh!kernel, Sh!Continue
  <2>2. CASE sI \in Sh!Slots
    BY <2>1, <2>2
  <2>3. CASE sI \notin Sh!Slots
    BY <2>1, <2>3
  <2> QED BY <2>2, <2>3
<1>4. CASE Sh!UpdateFind
  <2>1. /\ UNCHANGED <<sJobs, sPid, st, proc, collected, ignores, lastpid, forks>>
        /\ sPc' \in {"waitfg", "prompt", "store"}
        /\ sI' = sI \/ (Sh!Entries(sPid) /= {} /\ sI' = Sh!Min(Sh!Entries(sPid)))
    BY <1>4 DEF Sh!UpdateFind, Sh!At, Sh!kernel, Sh!Continue
  <2>2. sI' \in 0 .. MAXJOBS
    BY <2>1, FirstEntry
  <2> QED BY <2>1, <2>2
<1>5. CASE Sh!Kill
  BY <1>5 DEF Sh!Kill, Sh!At
<1>6. CASE Sh!EnterWait \/ Sh!WaitFails
  BY <1>6 DEF Sh!EnterWait, Sh!WaitFails, Sh!At, Sh!main, Sh!kernel
<1>7. CASE Sh!WaitTerminated
  BY <1>7 DEF Sh!WaitTerminated, Sh!At, Sh!Zombies, Sh!Matches
<1>8. CASE Sh!WaitStopped
  BY <1>8 DEF Sh!WaitStopped, Sh!At, Sh!NewStops, Sh!Matches
<1>9. CASE Sh!Delete
  <2>1. /\ \A k1 \in Sh!Slots : sJobs'[k1] = sJobs[k1] \/ sJobs'[k1] = Sh!FreeSlot
        /\ sJobs' \in [Sh!Slots -> [pid : 0 .. PidMax, state : JobStates]]
    BY <1>9, DeletedJob DEF Sh!Delete
  <2> QED BY <1>9, <2>1 DEF Sh!Delete, Sh!At, Sh!kernel, Sh!FreeSlot
<1> QED BY <1>1, <1>2, <1>3, <1>4, <1>5, <1>6, <1>7, <1>8, <1>9

(* The handler, the children and the keyboard.                             *)
LEMMA OthersFree ==
  ASSUME ShellTypes, Sh!Handler \/ Sh!Environment
  PROVE  OnlyFrees
<1> USE Sizes DEF ShellTypes, OnlyFrees, ShellPlaces, ProcStates, JobStates
<1>1. CASE Sh!Deliver
  BY <1>1 DEF Sh!Deliver
<1>2. CASE Sh!Reap
  <2>1. PICK p \in Sh!Pids : proc' = [proc EXCEPT ![p] = "none"] /\ Sh!deletejob(p)
    BY <1>2 DEF Sh!Reap
  <2>2. /\ \A k1 \in Sh!Slots : sJobs'[k1] = sJobs[k1] \/ sJobs'[k1] = Sh!FreeSlot
        /\ sJobs' \in [Sh!Slots -> [pid : 0 .. PidMax, state : JobStates]]
    BY <2>1, DeletedJob
  <2> QED BY <1>2, <2>1, <2>2 DEF Sh!Reap, Sh!main, Sh!FreeSlot
<1>3. CASE Sh!HandlerReturns
  BY <1>3 DEF Sh!HandlerReturns, Sh!main, Sh!kernel
<1>4. ASSUME NEW p \in Sh!Pids, Sh!Exec(p) \/ Sh!Exit(p) PROVE OnlyFrees
  BY <1>4 DEF Sh!Exec, Sh!Exit, Sh!main
<1>5. CASE Sh!CtrlC
  BY <1>5 DEF Sh!CtrlC, Sh!Struck, Sh!main
<1>6. CASE Sh!CtrlZ
  <2>1. collected' \in [Sh!Pids -> BOOLEAN]
    BY <1>6 DEF Sh!CtrlZ
  <2> QED BY <1>6, <2>1 DEF Sh!CtrlZ, Sh!Struck, Sh!main
<1> QED BY <1>1, <1>2, <1>3, <1>4, <1>5, <1>6 DEF Sh!Handler, Sh!Environment

(* The start of a child.                                                   *)
LEMMA ForkNumbers ==
  ASSUME ShellForks <= PidMax, NumberedInv, NEW s \in {"FG", "BG"}, Sh!Fork(s)
  PROVE  /\ NumberedInv' /\ lastpid + 1 \in Sh!Pids
         /\ sPc = "prompt" /\ sPc' = "addjob" /\ sPid' = lastpid + 1 /\ st' = s /\ sI' = 0
         /\ proc' = [proc EXCEPT ![lastpid + 1] = "forked"]
         /\ collected' = [collected EXCEPT ![lastpid + 1] = FALSE] /\ sJobs' = sJobs
         /\ exited = "no" /\ ~handling
<1>1. Sh!NextPid = lastpid + 1 /\ lastpid + 1 \in Sh!Pids
  BY NextInTurn DEF Sh!Fork
<1>2. /\ sPc = "prompt" /\ sPc' = "addjob" /\ sPid' = lastpid + 1 /\ st' = s /\ sI' = 0
      /\ proc' = [proc EXCEPT ![lastpid + 1] = "forked"]
      /\ collected' = [collected EXCEPT ![lastpid + 1] = FALSE] /\ sJobs' = sJobs
      /\ DOMAIN ignores' = DOMAIN ignores
      /\ forks < ShellForks /\ lastpid' = lastpid + 1 /\ forks' = forks + 1
      /\ exited = "no" /\ ~handling
  BY <1>1 DEF Sh!Fork, Sh!At
<1>3. ShellTypes'
  BY <1>1, <1>2, Sizes DEF NumberedInv, ShellTypes, ShellPlaces, ProcStates, JobStates
<1>4. Numbered'
  BY <1>1, <1>2, Sizes DEF NumberedInv, ShellTypes, Numbered
<1> QED BY <1>1, <1>2, <1>3, <1>4 DEF NumberedInv

(* addjob passes an entry, gives up, or stores the pid.                    *)
LEMMA AddPidNumbers ==
  ASSUME NumberedInv, Sh!AddPid
  PROVE  /\ NumberedInv' /\ sPc = "addjob" /\ exited = "no" /\ ~handling
         /\ UNCHANGED <<sPid, st, proc, collected, exited, handling>>
         /\ \/ sI = MAXJOBS /\ sPc' = Sh!Continue(st) /\ UNCHANGED <<sJobs, sI>>
            \/ sI \in Sh!Slots /\ sJobs[sI].pid /= 0 /\ sI' = sI + 1 /\ UNCHANGED <<sJobs, sPc>>
            \/ /\ sI \in Sh!Slots /\ sJobs[sI].pid = 0 /\ sPc' = "addstate" /\ sI' = sI
               /\ sJobs' = [sJobs EXCEPT ![sI].pid = sPid]
<1>1. /\ sPc = "addjob" /\ exited = "no" /\ ~handling
      /\ UNCHANGED <<sPid, st, exited, handling, proc, collected, ignores, lastpid, forks>>
  BY DEF Sh!AddPid, Sh!At, Sh!kernel
<1>2. \/ sI = MAXJOBS /\ sPc' = Sh!Continue(st) /\ UNCHANGED <<sJobs, sI>>
      \/ sI \in Sh!Slots /\ sJobs[sI].pid /= 0 /\ sI' = sI + 1 /\ UNCHANGED <<sJobs, sPc>>
      \/ /\ sI \in Sh!Slots /\ sJobs[sI].pid = 0 /\ sPc' = "addstate" /\ sI' = sI
         /\ sJobs' = [sJobs EXCEPT ![sI].pid = sPid]
  BY Sizes DEF Sh!AddPid, NumberedInv, ShellTypes
<1>3. /\ ShellTypes /\ Numbered /\ sPid = lastpid /\ sPid \in Sh!Pids
      /\ \A k1 \in Sh!Slots : sJobs[k1].pid /= sPid
  BY <1>1 DEF NumberedInv, Numbered
<1>4. /\ sJobs' \in [Sh!Slots -> [pid : 0 .. PidMax, state : JobStates]]
      /\ \A k1 \in Sh!Slots : sJobs'[k1].pid = sJobs[k1].pid \/ (k1 = sI /\ sJobs'[k1].pid = sPid)
  BY <1>2, <1>3, Sizes, ZenonT(60) DEF ShellTypes
<1>5. sPc' = "addjob" => sJobs' = sJobs
  BY <1>2 DEF Sh!Continue
<1>6. sPc' \in ShellPlaces /\ sI' \in 0 .. MAXJOBS
  BY <1>1, <1>2, <1>3, Sizes DEF Sh!Continue, ShellPlaces, ShellTypes
<1>7. ShellTypes'
  BY <1>1, <1>3, <1>4, <1>6 DEF ShellTypes
<1>8. Numbered'
  <2>1. /\ \A p \in Sh!Pids : p > lastpid' => proc'[p] = "none"
        /\ \A k1 \in Sh!Slots : sJobs'[k1].pid <= lastpid'
    BY <1>1, <1>3, <1>4, Sizes DEF Numbered
  <2>2. \A k1, k2 \in Sh!Slots : sJobs'[k1].pid = sJobs'[k2].pid /\ sJobs'[k1].pid /= 0 => k1 = k2
    BY <1>3, <1>4 DEF Numbered
  <2> QED BY <1>1, <1>3, <1>5, <2>1, <2>2 DEF Numbered
<1> QED BY <1>1, <1>2, <1>7, <1>8 DEF NumberedInv

(* The invariant of the numbering.                                         *)
LEMMA NumberedKeeps ==
  ASSUME ShellForks <= PidMax, NumberedInv, [ProgramsNext]_programVars
  PROVE  NumberedInv'
<1>1. CASE UNCHANGED shellVars
  BY <1>1 DEF shellVars, NumberedInv, ShellTypes, Numbered
<1>2. CASE Sh!Next
  BY <1>2, MainFrees, OthersFree, ForkNumbers, AddPidNumbers, FreesKeeps
     DEF Sh!Next, Sh!Eval, NumberedInv
<1> QED BY <1>1, <1>2, ShellStep

(* It holds at first.                                                      *)
LEMMA InitNumbered ==
  ASSUME ProgramsInit
  PROVE  NumberedInv
<1>1. Sh!Init
  BY DEF ProgramsInit
<1> QED BY <1>1, Sizes DEF Sh!Init, NumberedInv, ShellTypes, Numbered, Sh!FreeSlot, ShellPlaces,
                           JobStates, ProcStates

--------------------------------------------------------------------------------
(* Every child has its entry *)

(* Most steps change no pid of an entry, and start and enter nothing.      *)
Quiet == /\ \A k1 \in Sh!Slots : sJobs'[k1].pid = sJobs[k1].pid
         /\ \A p \in Sh!Pids : proc[p] = "none" => proc'[p] = "none"
         /\ sPc = "addjob" \/ sPc' = "addjob" => UNCHANGED <<sPc, sPid, sI>>
         /\ sPc' = "delete" => sPc = "delete" /\ sPid' = sPid
         /\ forks' = forks

(* Most steps of main are quiet.                                           *)
LEMMA QuietMain ==
  ASSUME ShellTypes,
         \/ \E p \in PidArgs, s \in {"FG", "BG"} : Sh!JobCommand(p, s)
         \/ Sh!Quit \/ Sh!AddState \/ Sh!UpdateFind \/ Sh!UpdateStore \/ Sh!Kill
         \/ Sh!EnterWait \/ Sh!WaitFails \/ Sh!WaitStopped
  PROVE  Quiet
<1> USE DEF ShellTypes, Quiet
<1>1. ASSUME NEW p \in PidArgs, NEW s \in {"FG", "BG"}, Sh!JobCommand(p, s) PROVE Quiet
  BY <1>1 DEF Sh!JobCommand, Sh!At, Sh!kernel
<1>2. CASE Sh!Quit
  BY <1>2 DEF Sh!Quit, Sh!main, Sh!kernel
<1>3. CASE Sh!AddState \/ Sh!UpdateStore
  <2>1. /\ sJobs' = [sJobs EXCEPT ![sI].state = st] /\ sPc \in {"addstate", "store"}
        /\ sPc' \in {"waitfg", "prompt"} /\ UNCHANGED <<proc, forks>>
    BY <1>3 DEF Sh!AddState, Sh!UpdateStore, Sh!At, Sh!kernel, Sh!Continue
  <2>2. \A k1 \in Sh!Slots : sJobs'[k1].pid = sJobs[k1].pid
    BY <2>1
  <2> QED BY <2>1, <2>2
<1>4. CASE Sh!UpdateFind
  BY <1>4 DEF Sh!UpdateFind, Sh!At, Sh!kernel, Sh!Continue
<1>5. CASE Sh!Kill
  BY <1>5 DEF Sh!Kill, Sh!At
<1>6. CASE Sh!EnterWait \/ Sh!WaitFails
  BY <1>6 DEF Sh!EnterWait, Sh!WaitFails, Sh!At, Sh!main, Sh!kernel
<1>7. CASE Sh!WaitStopped
  BY <1>7 DEF Sh!WaitStopped, Sh!At
<1> QED BY <1>1, <1>2, <1>3, <1>4, <1>5, <1>6, <1>7

(* So are those of children, keys and signals.                             *)
LEMMA QuietOthers ==
  ASSUME ShellTypes, Sh!Deliver \/ Sh!HandlerReturns \/ Sh!Environment
  PROVE  Quiet
<1> USE DEF ShellTypes, Quiet
<1>1. CASE Sh!Deliver \/ Sh!HandlerReturns
  BY <1>1 DEF Sh!Deliver, Sh!HandlerReturns, Sh!main, Sh!kernel
<1>2. ASSUME NEW p \in Sh!Pids, Sh!Exec(p) \/ Sh!Exit(p) PROVE Quiet
  BY <1>2 DEF Sh!Exec, Sh!Exit, Sh!main
<1>3. CASE Sh!CtrlC \/ Sh!CtrlZ
  BY <1>3 DEF Sh!CtrlC, Sh!CtrlZ, Sh!Struck, Sh!main
<1> QED BY <1>1, <1>2, <1>3 DEF Sh!Environment

(* A quiet step loses no entry.                                            *)
LEMMA QuietKeeps ==
  ASSUME KeptInv, ShellTypes', Quiet
  PROVE  KeptInv'
<1>1. Kept'
  <2>1. ASSUME NEW p \in Sh!Pids, proc'[p] /= "none", ~(sPid' = p /\ sPc' = "addjob")
        PROVE  \E k1 \in Sh!Slots : sJobs'[k1].pid = p
    BY <2>1 DEF KeptInv, Kept, Quiet
  <2>2. sPc' = "delete" => sPid' = 0 \/ proc'[sPid'] = "none"
    BY Sizes DEF KeptInv, ShellTypes, Kept, Quiet
  <2> QED BY <2>1, <2>2 DEF Kept
<1>2. Room'
  BY Sizes DEF KeptInv, Room, Quiet
<1> QED BY <1>1, <1>2 DEF KeptInv

(* A child is started, with a pid that no child has.                       *)
LEMMA ForkEnters ==
  ASSUME KeptInv, NEW s \in {"FG", "BG"}, Sh!Fork(s)
  PROVE  KeptInv'
<1> USE Sizes
<1>1. ShellTypes /\ Kept /\ Room
  BY DEF KeptInv
<1>2. PICK p \in Sh!Pids : p = Sh!NextPid
  <2> DEFINE above == {p \in Sh!Unused : p > lastpid}
  <2>1. Sh!Unused /= {}
    BY DEF Sh!Fork
  <2>2. Sh!NextPid = Sh!Min(IF above /= {} THEN above ELSE Sh!Unused)
    BY DEF Sh!NextPid
  <2>3. PICK free \in SUBSET Sh!Unused : free /= {} /\ Sh!NextPid = Sh!Min(free)
    <3>1. above \in SUBSET Sh!Unused
      OBVIOUS
    <3> HIDE DEF above
    <3> QED BY <2>1, <2>2, <3>1
  <2>4. free \in SUBSET Sh!Pids /\ free \in SUBSET Nat
    BY <2>3 DEF Sh!Unused
  <2>5. Min(free) \in free
    BY <2>3, <2>4, LeastElement
  <2>6. Sh!Min(free) = Min(free)
    BY DEF Sh!Min, Min
  <2> QED BY <2>3, <2>4, <2>5, <2>6
<1>3. /\ sPc = "prompt" /\ sPc' = "addjob" /\ sPid' = p /\ st' = s /\ sI' = 0 /\ sJobs' = sJobs
      /\ proc' = [proc EXCEPT ![p] = "forked"] /\ collected' = [collected EXCEPT ![p] = FALSE]
      /\ DOMAIN ignores' = DOMAIN ignores /\ forks < ShellForks /\ forks' = forks + 1
  BY <1>2 DEF Sh!Fork, Sh!At
<1>4. ShellTypes'
  BY <1>1, <1>3 DEF ShellTypes, ShellPlaces, ProcStates, JobStates
<1>5. Kept'
  BY <1>1, <1>3 DEF Kept, ShellTypes
<1>6. Room'
  BY <1>1, <1>3 DEF Room
<1> QED BY <1>4, <1>5, <1>6 DEF KeptInv

(* addjob finds a free entry before the list ends.                         *)
LEMMA AddPidEnters ==
  ASSUME ShellForks <= MAXJOBS, KeptInv, Sh!AddPid
  PROVE  KeptInv'
<1> USE Sizes
<1>1. ShellTypes /\ Kept /\ Room
  BY DEF KeptInv
<1>2. /\ sPc = "addjob" /\ sI \in 0 .. MAXJOBS /\ sI < forks /\ forks <= MAXJOBS
      /\ UNCHANGED <<sPid, st, proc, collected, ignores, forks>>
  BY <1>1 DEF Sh!AddPid, Sh!At, Sh!kernel, ShellTypes, Room
<1>3. \/ sI \in Sh!Slots /\ sJobs[sI].pid /= 0 /\ sI' = sI + 1 /\ UNCHANGED <<sJobs, sPc>>
      \/ /\ sI \in Sh!Slots /\ sJobs[sI].pid = 0 /\ sPc' = "addstate" /\ sI' = sI
         /\ sJobs' = [sJobs EXCEPT ![sI].pid = sPid]
  BY <1>1, <1>2 DEF Sh!AddPid, Room
<1>4. /\ sJobs' \in [Sh!Slots -> [pid : 0 .. PidMax, state : JobStates]]
      /\ \A k1 \in Sh!Slots : sJobs'[k1].pid = sJobs[k1].pid
                                \/ (k1 = sI /\ sJobs'[k1].pid = sPid /\ sJobs[k1].pid = 0)
  BY <1>1, <1>3 DEF ShellTypes
<1>5. ShellTypes'
  BY <1>1, <1>2, <1>3, <1>4 DEF ShellTypes, ShellPlaces
<1>6. Room'
  <2>1. sPc' = "addjob" => sI' < forks'
    BY <1>1, <1>2, <1>3 DEF Room
  <2>2. \A k1 \in Sh!Slots : sJobs'[k1].pid /= 0 =>
            k1 < IF sPc' = "addjob" THEN forks' - 1 ELSE forks'
    BY <1>1, <1>2, <1>3, <1>4 DEF Room
  <2> QED BY <1>1, <1>2, <2>1, <2>2 DEF Room
<1>7. sPc' = "addstate" => sI \in Sh!Slots /\ sJobs'[sI].pid = sPid
  BY <1>1, <1>2, <1>3 DEF ShellTypes
<1>8. Kept'
  <2>1. sPc' \in {"addjob", "addstate"}
    BY <1>2, <1>3
  <2>2. ASSUME NEW p \in Sh!Pids, proc'[p] /= "none", ~(sPid' = p /\ sPc' = "addjob")
        PROVE  \E k1 \in Sh!Slots : sJobs'[k1].pid = p
    <3>1. CASE p = sPid
      BY <1>2, <1>7, <2>1, <2>2, <3>1
    <3>2. CASE p /= sPid
      <4>1. PICK k1 \in Sh!Slots : sJobs[k1].pid = p
        BY <1>1, <1>2, <2>2, <3>2 DEF Kept
      <4> QED BY <1>4, <4>1
    <3> QED BY <3>1, <3>2
  <2> QED BY <2>1, <2>2 DEF Kept
<1> QED BY <1>5, <1>6, <1>8 DEF KeptInv

(* A step that frees entries of one pid, or none, and starts nobody keeps  *)
(* the entries of the children that it leaves.                             *)
LEMMA FreeingKeeps ==
  ASSUME KeptInv, ShellTypes', forks' = forks,
         sPc' = "addjob" <=> sPc = "addjob", sPid' = sPid, sI' = sI, NEW q \in 0 .. PidMax,
         \A k1 \in Sh!Slots : sJobs'[k1].pid = sJobs[k1].pid
                                \/ (sJobs[k1].pid = q /\ sJobs'[k1].pid = 0),
         \A p \in Sh!Pids : proc'[p] /= "none" => proc[p] /= "none",
         q = 0 \/ proc'[q] = "none",
         sPc' = "delete" => sPid = 0 \/ proc'[sPid] = "none"
  PROVE  KeptInv'
<1> USE Sizes
<1>1. ASSUME NEW p \in Sh!Pids, proc'[p] /= "none", ~(sPid' = p /\ sPc' = "addjob")
      PROVE  \E k1 \in Sh!Slots : sJobs'[k1].pid = p
  <2>1. PICK k1 \in Sh!Slots : sJobs[k1].pid = p
    BY <1>1 DEF KeptInv, Kept
  <2>2. p /= q
    BY <1>1
  <2> QED BY <2>1, <2>2
<1>2. Kept'
  BY <1>1 DEF Kept
<1>3. Room'
  BY DEF KeptInv, Room
<1> QED BY <1>2, <1>3 DEF KeptInv

(* A child is reaped by main or by the handler.                            *)
LEMMA ReapingKeeps ==
  ASSUME KeptInv, Sh!WaitTerminated \/ Sh!Delete \/ Sh!Reap
  PROVE  KeptInv'
<1> USE Sizes
<1>1. ShellTypes /\ Kept /\ Sh!FreeSlot.pid = 0
  BY DEF KeptInv, Sh!FreeSlot
<1>2. ShellTypes' /\ forks' = forks
  BY <1>1, MainFrees, OthersFree DEF OnlyFrees, Sh!Handler
<1>3. CASE Sh!WaitTerminated
  <2>1. PICK q \in Sh!Pids : /\ proc' = [proc EXCEPT ![q] = "none"] /\ (sPid = 0 \/ q = sPid)
                             /\ sPc = "wait" /\ sPc' = "delete" /\ UNCHANGED <<sJobs, sPid, sI>>
    BY <1>3 DEF Sh!WaitTerminated, Sh!At, Sh!Zombies, Sh!Matches
  <2>2. /\ \A p \in Sh!Pids : proc'[p] /= "none" => proc[p] /= "none"
        /\ sPid = 0 \/ proc'[sPid] = "none"
    BY <1>1, <2>1 DEF ShellTypes
  <2> QED BY <1>2, <2>1, <2>2, FreeingKeeps
<1>4. CASE Sh!Delete
  <2>1. /\ sPc = "delete" /\ sPc' = "prompt" /\ UNCHANGED <<sPid, sI, proc>>
        /\ Sh!deletejob(sPid) /\ sPid \in 0 .. PidMax
    BY <1>1, <1>4 DEF Sh!Delete, Sh!At, Sh!kernel, ShellTypes
  <2>2. \A k1 \in Sh!Slots : sJobs'[k1].pid = sJobs[k1].pid
                               \/ (sJobs[k1].pid = sPid /\ sJobs'[k1].pid = 0)
    BY <1>1, <2>1, DeletedJob
  <2>3. sPid = 0 \/ proc'[sPid] = "none"
    BY <1>1, <2>1 DEF Kept
  <2> QED BY <1>2, <2>1, <2>2, <2>3, FreeingKeeps
<1>5. CASE Sh!Reap
  <2>1. PICK q \in Sh!Pids : proc' = [proc EXCEPT ![q] = "none"] /\ Sh!deletejob(q)
    BY <1>5 DEF Sh!Reap
  <2>2. UNCHANGED <<sPc, sPid, sI>> /\ q \in 0 .. PidMax
    BY <1>5 DEF Sh!Reap, Sh!main
  <2>3. \A k1 \in Sh!Slots : sJobs'[k1].pid = sJobs[k1].pid
                               \/ (sJobs[k1].pid = q /\ sJobs'[k1].pid = 0)
    BY <1>1, <2>1, <2>2, DeletedJob
  <2>4. /\ \A p \in Sh!Pids : proc'[p] /= "none" => proc[p] /= "none"
        /\ proc'[q] = "none"
    BY <1>1, <2>1 DEF ShellTypes
  <2>5. sPc' = "delete" => sPid = 0 \/ proc'[sPid] = "none"
    BY <1>1, <2>1, <2>2 DEF Kept, ShellTypes
  <2> QED BY <1>2, <2>2, <2>3, <2>4, <2>5, FreeingKeeps
<1> QED BY <1>3, <1>4, <1>5

(* Every step of the composition keeps the entries.                        *)
LEMMA KeptKeeps ==
  ASSUME ShellForks <= MAXJOBS, KeptInv, [ProgramsNext]_programVars
  PROVE  KeptInv'
<1>1. CASE UNCHANGED shellVars
  BY <1>1 DEF shellVars, KeptInv, ShellTypes, Kept, Room
<1>2. CASE Sh!Next
  <2>1. ShellTypes
    BY DEF KeptInv
  <2>2. ASSUME \/ \E p \in PidArgs, s \in {"FG", "BG"} : Sh!JobCommand(p, s)
               \/ Sh!Quit \/ Sh!AddState \/ Sh!UpdateFind \/ Sh!UpdateStore \/ Sh!Kill
               \/ Sh!EnterWait \/ Sh!WaitFails \/ Sh!WaitStopped
        PROVE  KeptInv'
    BY <2>1, <2>2, MainFrees, QuietMain, QuietKeeps DEF OnlyFrees
  <2>3. ASSUME Sh!Deliver \/ Sh!HandlerReturns \/ Sh!Environment PROVE KeptInv'
    BY <2>1, <2>3, OthersFree, QuietOthers, QuietKeeps DEF OnlyFrees, Sh!Handler
  <2> QED BY <1>2, <2>2, <2>3, ForkEnters, AddPidEnters, ReapingKeeps
          DEF Sh!Next, Sh!Eval, Sh!Handler
<1> QED BY <1>1, <1>2, ShellStep

(* The list is empty at first.                                             *)
LEMMA InitKept ==
  ASSUME ProgramsInit
  PROVE  KeptInv
<1>1. Sh!Init
  BY DEF ProgramsInit
<1> QED BY <1>1, InitNumbered, Sizes
        DEF Sh!Init, NumberedInv, KeptInv, Kept, Room, Sh!FreeSlot

(* In a list with room for all, fg and bg reach every child that is alive  *)
(* from addjob (shell.c:379) to its end, also when the kernel gives out    *)
(* pids again and the list has stale entries of the same pid: what the     *)
(* handler deletes is never the last entry of a child that lives.          *)
THEOREM JobsReachable ==
  ASSUME ShellForks <= MAXJOBS
  PROVE  ProgramsSpec => [](\A p \in Sh!Pids : Sh!Alive(p) /\ ~(sPid = p /\ sPc = "addjob") =>
                                Sh!Entries(p) /= {})
<1>1. KeptInv => \A p \in Sh!Pids : Sh!Alive(p) /\ ~(sPid = p /\ sPc = "addjob") =>
                     Sh!Entries(p) /= {}
  BY DEF KeptInv, Kept, Sh!Alive, Sh!Entries
<1> QED BY <1>1, InitKept, KeptKeeps, PTL DEF ProgramsSpec

(* In a list with room for all, with a pid for each, a child that is alive *)
(* has exactly one entry from addjob (shell.c:379) to its end, whatever    *)
(* the handler deletes meanwhile and whatever fg and bg are given.         *)
THEOREM JobsKept ==
  ASSUME ShellForks <= PidMax, ShellForks <= MAXJOBS
  PROVE  ProgramsSpec => []NoLostJob
<1>1. NumberedInv /\ KeptInv => NoLostJob
  <2> SUFFICES ASSUME NumberedInv, KeptInv, NEW p \in Sh!Pids, Sh!Alive(p),
                      ~(sPid = p /\ sPc = "addjob")
               PROVE  Sh!Cardinality(Sh!Entries(p)) = 1
    BY DEF NoLostJob, Sh!NoLostJob
  <2>1. PICK k1 \in Sh!Slots : sJobs[k1].pid = p
    BY DEF KeptInv, Kept, Sh!Alive
  <2>2. \A k2 \in Sh!Slots : sJobs[k2].pid = p => k2 = k1
    BY <2>1, Sizes DEF NumberedInv, Numbered
  <2>3. Sh!Entries(p) = {k1}
    BY <2>1, <2>2 DEF Sh!Entries
  <2>4. Sh!Cardinality(Sh!Entries(p)) = Cardinality(Sh!Entries(p))
    BY DEF Sh!Cardinality, Cardinality
  <2> QED BY <2>3, <2>4, FS_Singleton
<1> QED BY <1>1, InitNumbered, NumberedKeeps, InitKept, KeptKeeps, PTL DEF ProgramsSpec

--------------------------------------------------------------------------------
(* The states in the entries *)

(* A step that leaves main and the list as they are, but for a call of     *)
(* waitpid, and continues nobody whose stop waitfg has seen.               *)
Steady ==
    /\ UNCHANGED <<sJobs, sPid, st, sI>>
    /\ sPc' = sPc \/ {sPc, sPc'} \subseteq {"waitfg", "wait"}
    /\ \A p \in Sh!Pids : /\ proc[p] = "none" => proc'[p] = "none"
                          /\ SeenStopped(p)' <=> SeenStopped(p)
                          /\ collected'[p] => collected[p]

(* The steps that are steady.                                              *)
LEMMA SteadySteps ==
  ASSUME NumberedInv,
         \/ Sh!Quit \/ Sh!EnterWait \/ Sh!WaitFails \/ Sh!Deliver \/ Sh!HandlerReturns
         \/ Sh!Environment
  PROVE  Steady
<1> USE DEF NumberedInv, ShellTypes, Steady, SeenStopped
<1>1. CASE Sh!Quit \/ Sh!WaitFails \/ Sh!HandlerReturns
  BY <1>1 DEF Sh!Quit, Sh!WaitFails, Sh!HandlerReturns, Sh!main, Sh!kernel
<1>2. CASE Sh!EnterWait \/ Sh!Deliver
  BY <1>2 DEF Sh!EnterWait, Sh!Deliver, Sh!At, Sh!kernel
<1>3. ASSUME NEW p \in Sh!Pids, Sh!Exec(p) \/ Sh!Exit(p) PROVE Steady
  BY <1>3 DEF Sh!Exec, Sh!Exit, Sh!main
<1>4. CASE Sh!CtrlC
  BY <1>4 DEF Sh!CtrlC, Sh!Struck, Sh!main
<1>5. CASE Sh!CtrlZ
  <2>1. \A p \in Sh!Pids : p \in Sh!Struck => proc[p] = "running"
    BY DEF Sh!Struck
  <2>2. /\ UNCHANGED <<sJobs, sPc, sPid, st, sI>>
        /\ \A p \in Sh!Pids : /\ proc'[p] = IF p \in Sh!Struck THEN "stopped" ELSE proc[p]
                              /\ collected'[p] <=> collected[p] /\ p \notin Sh!Struck
    BY <1>5 DEF Sh!CtrlZ, Sh!main
  <2> QED BY <2>1, <2>2
<1> QED BY <1>1, <1>2, <1>3, <1>4, <1>5 DEF Sh!Environment

(* A steady step keeps what the entries say.                               *)
LEMMA SteadyKeeps ==
  ASSUME FrontInv, NumberedInv', Steady
  PROVE  FrontInv'
<1>1. /\ UNCHANGED <<sJobs, sPid, st, sI>> /\ Updating' = Updating
      /\ sPc' = sPc \/ {sPc, sPc'} \subseteq {"waitfg", "wait"}
  BY DEF Steady, Updating
<1>2. Working'
  BY <1>1 DEF FrontInv, Working, Steady
<1>3. Stops'
  <2>1. \A k1 \in Sh!Slots : sJobs[k1].pid /= 0 => sJobs[k1].pid \in Sh!Pids
    BY Sizes DEF FrontInv, NumberedInv, ShellTypes
  <2>2. Updating => sPid \in Sh!Pids
    BY DEF FrontInv, Working, Updating
  <2> QED BY <1>1, <2>1, <2>2 DEF FrontInv, Stops, Steady
<1>4. Front'
  BY <1>1 DEF FrontInv, Front, Working, Steady, Sh!Foreground
<1> QED BY <1>2, <1>3, <1>4 DEF FrontInv

(* The handler reaps: who is a zombie is not stopped, and its entry goes.  *)
LEMMA ReapKeeps ==
  ASSUME FrontInv, NumberedInv', Sh!Reap
  PROVE  FrontInv'
<1>1. PICK q \in Sh!Pids : /\ proc[q] = "zombie" /\ proc' = [proc EXCEPT ![q] = "none"]
                           /\ Sh!deletejob(q)
  BY DEF Sh!Reap
<1>2. UNCHANGED <<sPc, sPid, st, sI, collected>> /\ Updating' = Updating
  BY DEF Sh!Reap, Sh!main, Updating
<1>3. /\ NumberedInv /\ ShellTypes /\ Working /\ Stops /\ Front
      /\ q \in 0 .. PidMax /\ Sh!FreeSlot.pid = 0 /\ Sh!FreeSlot.state = "UNDEF"
  BY Sizes DEF FrontInv, NumberedInv, Sh!FreeSlot
<1>4. \A k1 \in Sh!Slots : \/ sJobs'[k1] = sJobs[k1]
                           \/ /\ sJobs[k1].pid = q /\ sJobs'[k1].pid = 0
                              /\ sJobs'[k1].state = "UNDEF"
  <2>1. \A k1 \in Sh!Slots : \/ sJobs'[k1] = sJobs[k1]
                             \/ sJobs[k1].pid = q /\ sJobs'[k1] = Sh!FreeSlot
    BY <1>1, <1>3, DeletedJob
  <2> QED BY <1>3, <2>1
<1>5. \A p \in Sh!Pids : (SeenStopped(p)' <=> SeenStopped(p)) /\ proc'[p] = IF p = q THEN "none" ELSE proc[p]
  BY <1>1, <1>2, <1>3 DEF ShellTypes, SeenStopped
<1>6. \A k1 \in Sh!Slots : sJobs[k1].pid /= 0 => sJobs[k1].pid \in Sh!Pids
  BY <1>3, Sizes DEF ShellTypes
<1>7. Working'
  <2>1. sPc \in {"addstate", "store"} =>
           /\ sJobs'[sI].pid = sPid \/ (sJobs'[sI].pid = 0 /\ proc'[sPid] = "none")
           /\ \A k1 \in Sh!Slots : sJobs'[k1].pid = sPid => k1 = sI
    BY <1>3, <1>4, <1>5, Sizes DEF Working
  <2>2. sPc = "delete" => proc'[sPid] = "none"
    BY <1>3, <1>5 DEF Working
  <2> QED BY <1>2, <1>3, <2>1, <2>2 DEF Working
<1>8. Stops'
  <2>1. Updating => sPid \in Sh!Pids
    BY <1>3 DEF Working, Updating
  <2>2. \A k1 \in Sh!Slots : sJobs'[k1].pid /= 0 => sJobs'[k1] = sJobs[k1] /\ sJobs[k1].pid /= 0
    BY <1>4
  <2>3. \A k1 \in Sh!Slots : sJobs'[k1].pid /= 0 /\ ~(Updating' /\ sJobs'[k1].pid = sPid') =>
           (sJobs'[k1].state = "ST" <=> SeenStopped(sJobs[k1].pid)')
    BY <1>2, <1>3, <1>5, <1>6, <2>2, ZenonT(60) DEF Stops
  <2>4. \A k1 \in Sh!Slots : sJobs'[k1].pid = 0 => sJobs'[k1].state /= "ST"
    BY <1>3, <1>4 DEF Stops
  <2>5. Updating' => (st' = "ST" <=> SeenStopped(sPid)')
    BY <1>2, <1>3, <1>5, <2>1 DEF Stops
  <2> QED BY <2>3, <2>4, <2>5 DEF Stops
<1>9. Front'
  BY <1>1, <1>2, <1>3, <1>4, <1>5 DEF Front, Working, Sh!Foreground
<1> QED BY <1>7, <1>8, <1>9 DEF FrontInv

(* main starts a child: nothing is in the foreground.                      *)
LEMMA ForkKeeps ==
  ASSUME ShellForks <= PidMax, FrontInv, NumberedInv', NEW s \in {"FG", "BG"}, Sh!Fork(s)
  PROVE  FrontInv'
<1>1. /\ lastpid + 1 \in Sh!Pids
      /\ sPc = "prompt" /\ sPc' = "addjob" /\ sPid' = lastpid + 1 /\ st' = s
      /\ proc' = [proc EXCEPT ![lastpid + 1] = "forked"]
      /\ collected' = [collected EXCEPT ![lastpid + 1] = FALSE] /\ sJobs' = sJobs
  BY ForkNumbers DEF FrontInv
<1>2. /\ ShellTypes /\ Numbered /\ Working /\ Stops /\ Front /\ ~Updating /\ ~Updating'
  BY <1>1 DEF FrontInv, NumberedInv, Updating
<1>3. \A p \in Sh!Pids : p /= lastpid + 1 => (SeenStopped(p)' <=> SeenStopped(p))
  BY <1>1, <1>2 DEF ShellTypes, SeenStopped
<1>4. ~collected'[sPid'] /\ sPid' \in Sh!Pids
  BY <1>1, <1>2 DEF ShellTypes
<1>5. \A k1 \in Sh!Slots : sJobs[k1].pid /= 0 => sJobs[k1].pid \in Sh!Pids /\ sJobs[k1].pid /= lastpid + 1
  BY <1>2, Sizes DEF ShellTypes, Numbered
<1>6. Working'
  BY <1>1, <1>4 DEF Working
<1>7. Stops'
  BY <1>1, <1>2, <1>3, <1>5 DEF Stops
<1>8. Front'
  BY <1>1, <1>2 DEF Front, Sh!Foreground, Updating
<1> QED BY <1>6, <1>7, <1>8 DEF FrontInv

(* addjob stores the pid, then the state.                                  *)
LEMMA AddPidKeeps ==
  ASSUME FrontInv, NumberedInv', Sh!AddPid
  PROVE  FrontInv'
<1>1. NumberedInv /\ ShellTypes /\ Numbered /\ Working /\ Stops /\ Front
  BY DEF FrontInv, NumberedInv
<1>2. /\ sPc = "addjob" /\ UNCHANGED <<sPid, st, proc, collected>> /\ ~Updating
      /\ \/ sI = MAXJOBS /\ sPc' = Sh!Continue(st) /\ UNCHANGED <<sJobs, sI>>
         \/ sI \in Sh!Slots /\ sJobs[sI].pid /= 0 /\ sI' = sI + 1 /\ UNCHANGED <<sJobs, sPc>>
         \/ /\ sI \in Sh!Slots /\ sJobs[sI].pid = 0 /\ sPc' = "addstate" /\ sI' = sI
            /\ sJobs' = [sJobs EXCEPT ![sI].pid = sPid]
  BY <1>1, AddPidNumbers DEF Updating
<1>3. /\ sPid \in Sh!Pids /\ st \in {"FG", "BG"} /\ ~collected[sPid]
      /\ \A k1 \in Sh!Slots : sJobs[k1].pid /= sPid
      /\ \A p \in Sh!Pids : SeenStopped(p)' <=> SeenStopped(p)
  BY <1>1, <1>2 DEF Working, Numbered, SeenStopped
<1>4. \A k1 \in Sh!Slots : sJobs[k1].pid /= 0 => sJobs[k1].pid \in Sh!Pids
  BY <1>1, Sizes DEF ShellTypes
<1>5. CASE sJobs' = sJobs /\ (sPc' = Sh!Continue(st) \/ sPc' = sPc)
  <2>1. sPc' \in {"addjob", "waitfg", "prompt"} /\ ~Updating'
    BY <1>2, <1>5 DEF Sh!Continue, Updating
  <2>2. Working'
    BY <1>1, <1>2, <1>3, <2>1 DEF Working
  <2>3. Stops'
    BY <1>1, <1>2, <1>3, <1>4, <1>5, <2>1 DEF Stops
  <2>4. Front'
    BY <1>1, <1>2, <1>5, <2>1 DEF Front, Sh!Foreground, Updating
  <2> QED BY <2>2, <2>3, <2>4 DEF FrontInv
<1>6. CASE /\ sI \in Sh!Slots /\ sJobs[sI].pid = 0 /\ sPc' = "addstate" /\ sI' = sI
           /\ sJobs' = [sJobs EXCEPT ![sI].pid = sPid]
  <2>1. /\ \A k1 \in Sh!Slots : k1 /= sI => sJobs'[k1] = sJobs[k1]
        /\ sJobs'[sI].pid = sPid /\ sJobs'[sI].state = sJobs[sI].state /\ ~Updating'
    BY <1>1, <1>6 DEF ShellTypes, Updating
  <2>2. sJobs[sI].state /= "ST" /\ sJobs[sI].state /= "FG"
    BY <1>1, <1>2, <1>6 DEF Stops, Front
  <2>3. Working'
    BY <1>2, <1>3, <1>6, <2>1 DEF Working
  <2>4. Stops'
    BY <1>1, <1>2, <1>3, <1>4, <1>6, <2>1, <2>2 DEF Stops, SeenStopped
  <2>5. Front'
    BY <1>1, <1>2, <1>6, <2>1, <2>2 DEF Front, Sh!Foreground, Updating
  <2> QED BY <2>3, <2>4, <2>5 DEF FrontInv
<1> QED BY <1>2, <1>5, <1>6

(* main writes the state of its job, in addjob or updatejob: if the        *)
(* handler has deleted the entry meanwhile, the job has ended.             *)
LEMMA WriteKeeps ==
  ASSUME FrontInv, NumberedInv', Sh!AddState \/ Sh!UpdateStore
  PROVE  FrontInv'
<1>1. NumberedInv /\ ShellTypes /\ Numbered /\ Working /\ Stops /\ Front
  BY DEF FrontInv, NumberedInv
<1>2. /\ sPc \in {"addstate", "store"} /\ sPc' = IF st = "FG" THEN "waitfg" ELSE "prompt"
      /\ sJobs' = [sJobs EXCEPT ![sI].state = st] /\ UNCHANGED <<sPid, st, sI, proc, collected>>
  BY DEF Sh!AddState, Sh!UpdateStore, Sh!At, Sh!kernel, Sh!Continue
<1>3. /\ sPid \in Sh!Pids /\ sI \in Sh!Slots
      /\ sJobs[sI].pid = sPid \/ (sJobs[sI].pid = 0 /\ proc[sPid] = "none")
      /\ \A k1 \in Sh!Slots : sJobs[k1].pid = sPid => k1 = sI
  BY <1>1, <1>2 DEF Working
<1>4. /\ \A k1 \in Sh!Slots : k1 /= sI => sJobs'[k1] = sJobs[k1]
      /\ sJobs'[sI].pid = sJobs[sI].pid /\ sJobs'[sI].state = st
  BY <1>1, <1>2, <1>3 DEF ShellTypes
<1>5. /\ ~Updating' /\ (Updating => sPc = "store")
      /\ \A p \in Sh!Pids : SeenStopped(p)' <=> SeenStopped(p)
  BY <1>2 DEF Updating, SeenStopped
<1>6. st = "ST" <=> SeenStopped(sPid)
  <2>1. CASE sPc = "addstate"
    BY <1>1, <2>1 DEF Working, SeenStopped
  <2>2. CASE sPc = "store"
    BY <1>1, <2>2 DEF Stops, Updating
  <2> QED BY <1>2, <2>1, <2>2
<1>7. \A k1 \in Sh!Slots : sJobs[k1].pid /= 0 => sJobs[k1].pid \in Sh!Pids
  BY <1>1, Sizes DEF ShellTypes
<1>8. Working'
  BY <1>2, <1>3 DEF Working
<1>9. Stops'
  <2>1. ASSUME NEW k1 \in Sh!Slots, sJobs'[k1].pid /= 0
        PROVE  sJobs'[k1].state = "ST" <=> SeenStopped(sJobs[k1].pid)'
    <3>1. CASE k1 = sI
      BY <1>3, <1>4, <1>5, <1>6, <2>1, <3>1
    <3>2. CASE k1 /= sI
      BY <1>1, <1>3, <1>4, <1>5, <1>7, <2>1, <3>2 DEF Stops
    <3> QED BY <3>1, <3>2
  <2>2. ASSUME NEW k1 \in Sh!Slots, sJobs'[k1].pid = 0 PROVE sJobs'[k1].state /= "ST"
    <3>1. sPid /= 0
      BY <1>3, Sizes
    <3> QED BY <1>1, <1>3, <1>4, <1>6, <2>2, <3>1 DEF Stops, SeenStopped
  <2> QED BY <1>5, <2>1, <2>2 DEF Stops
<1>10. Front'
  <2>1. ASSUME NEW k1 \in Sh!Slots, sJobs'[k1].pid /= 0, sJobs'[k1].state = "FG"
        PROVE  sJobs'[k1].pid = sPid /\ sPc' = "waitfg"
    BY <1>1, <1>2, <1>3, <1>4, <2>1, Sizes DEF Front, Sh!Foreground
  <2>2. ASSUME NEW k1 \in Sh!Slots, sJobs'[k1].pid = 0, sJobs'[k1].state = "FG"
        PROVE  sPc' = "waitfg" /\ proc'[sPid] = "none"
    BY <1>1, <1>2, <1>3, <1>4, <2>2, Sizes DEF Front
  <2> QED BY <1>2, <2>1, <2>2 DEF Front, Sh!Foreground
<1> QED BY <1>8, <1>9, <1>10 DEF FrontInv

(* updatejob looks for the entry.                                          *)
LEMMA FindKeeps ==
  ASSUME FrontInv, NumberedInv', Sh!UpdateFind
  PROVE  FrontInv'
<1>1. NumberedInv /\ ShellTypes /\ Numbered /\ Working /\ Stops /\ Front
  BY DEF FrontInv, NumberedInv
<1>2. /\ sPc = "update" /\ Updating /\ UNCHANGED <<sJobs, sPid, st, proc, collected>>
      /\ sPid \in Sh!Pids
  BY <1>1 DEF Sh!UpdateFind, Sh!At, Sh!kernel, Updating, Working
<1>3. /\ \A p \in Sh!Pids : SeenStopped(p)' <=> SeenStopped(p)
      /\ \A k1 \in Sh!Slots : sJobs[k1].pid /= 0 => sJobs[k1].pid \in Sh!Pids
  BY <1>1, <1>2, Sizes DEF SeenStopped, ShellTypes
<1>4. CASE Sh!Entries(sPid) = {}
  <2>1. sPc' \in {"waitfg", "prompt"} /\ ~Updating'
    BY <1>4 DEF Sh!UpdateFind, Sh!Continue, Updating
  <2>2. \A k1 \in Sh!Slots : sJobs[k1].pid /= sPid
    BY <1>4 DEF Sh!Entries
  <2>3. Working'
    BY <1>2, <2>1 DEF Working
  <2>4. Stops'
    BY <1>1, <1>2, <1>3, <2>1, <2>2 DEF Stops
  <2>5. Front'
    BY <1>1, <1>2, <2>1, <2>2 DEF Front, Sh!Foreground
  <2> QED BY <2>3, <2>4, <2>5 DEF FrontInv
<1>5. CASE Sh!Entries(sPid) /= {}
  <2>1. sPc' = "store" /\ sI' \in Sh!Slots /\ sJobs[sI'].pid = sPid /\ Updating'
    BY <1>5, FirstEntry DEF Sh!UpdateFind, Updating
  <2>2. \A k1 \in Sh!Slots : sJobs[k1].pid = sPid => k1 = sI'
    BY <1>1, <1>2, <2>1, Sizes DEF Numbered
  <2>3. Working'
    BY <1>2, <2>1, <2>2 DEF Working
  <2>4. Stops'
    BY <1>1, <1>2, <1>3, <2>1 DEF Stops
  <2>5. Front'
    BY <1>1, <1>2, <2>1 DEF Front, Sh!Foreground
  <2> QED BY <2>3, <2>4, <2>5 DEF FrontInv
<1> QED BY <1>4, <1>5

(* fg or bg: no argument is 0, so that it is one job that continues.       *)
LEMMA CommandKeeps ==
  ASSUME 0 \notin PidArgs, FrontInv, NumberedInv',
         NEW p \in PidArgs, NEW s \in {"FG", "BG"}, Sh!JobCommand(p, s)
  PROVE  FrontInv'
<1>1. /\ sPc = "prompt" /\ sPc' = "kill" /\ sPid' = p /\ st' = s /\ p \in Sh!Pids
      /\ UNCHANGED <<sJobs, proc, collected>> /\ ~Updating /\ ~Updating'
  BY Sizes DEF Sh!JobCommand, Sh!At, Sh!kernel, Updating
<1>2. ShellTypes /\ Stops /\ Front
  BY DEF FrontInv, NumberedInv
<1>3. Working'
  BY <1>1 DEF Working
<1>4. Stops'
  BY <1>1, <1>2 DEF Stops, SeenStopped
<1>5. Front'
  BY <1>1, <1>2 DEF Front, Sh!Foreground, Updating
<1> QED BY <1>3, <1>4, <1>5 DEF FrontInv

(* kill continues the job, whose entry main writes next.                   *)
LEMMA KillKeeps ==
  ASSUME FrontInv, NumberedInv', Sh!Kill
  PROVE  FrontInv'
<1>1. NumberedInv /\ ShellTypes /\ Working /\ Stops /\ Front
  BY DEF FrontInv, NumberedInv
<1>2. sPc = "kill" /\ UNCHANGED <<sJobs, sPid, st, sI, collected>>
  BY DEF Sh!Kill, Sh!At
<1>3. sPid \in Sh!Pids /\ st \in {"FG", "BG"} /\ sPid /= 0
  BY <1>1, <1>2, Sizes DEF Working
<1>4. CASE UNCHANGED <<sPc, proc>>
  <2>1. Steady
    BY <1>2, <1>4 DEF Steady, SeenStopped
  <2> QED BY <2>1, SteadyKeeps
<1>5. CASE /\ sPc' = "update"
           /\ proc' = [q \in Sh!Pids |-> IF q \in Sh!Matches(sPid) /\ proc[q] = "stopped"
                                         THEN "running" ELSE proc[q]]
  <2>1. \A q \in Sh!Pids : proc'[q] = IF q = sPid /\ proc[q] = "stopped" THEN "running" ELSE proc[q]
    BY <1>3, <1>5 DEF Sh!Matches
  <2>2. /\ \A q \in Sh!Pids : q /= sPid => (SeenStopped(q)' <=> SeenStopped(q))
        /\ ~SeenStopped(sPid)' /\ ~Updating /\ Updating'
    BY <1>2, <1>3, <1>5, <2>1 DEF SeenStopped, Updating
  <2>3. \A k1 \in Sh!Slots : sJobs[k1].pid /= 0 => sJobs[k1].pid \in Sh!Pids
    BY <1>1, Sizes DEF ShellTypes
  <2>4. Working'
    BY <1>2, <1>3, <1>5 DEF Working
  <2>5. Stops'
    BY <1>1, <1>2, <1>3, <2>2, <2>3 DEF Stops
  <2>6. Front'
    BY <1>1, <1>2, <2>2 DEF Front, Sh!Foreground
  <2> QED BY <2>4, <2>5, <2>6 DEF FrontInv
<1> QED BY <1>4, <1>5 DEF Sh!Kill

(* waitfg gets the status of its job.                                      *)
LEMMA WaitKeeps ==
  ASSUME FrontInv, NumberedInv', Sh!WaitTerminated \/ Sh!WaitStopped
  PROVE  FrontInv'
<1>1. NumberedInv /\ ShellTypes /\ Working /\ Stops /\ Front
  BY DEF FrontInv, NumberedInv
<1>2. sPc = "wait" /\ UNCHANGED <<sJobs, sPid, sI>> /\ ~Updating
  BY DEF Sh!WaitTerminated, Sh!WaitStopped, Sh!At, Updating
<1>3. sPid \in Sh!Pids /\ sPid /= 0
  BY <1>1, <1>2, Sizes DEF Working
<1>4. \A k1 \in Sh!Slots : sJobs[k1].pid /= 0 => sJobs[k1].pid \in Sh!Pids
  BY <1>1, Sizes DEF ShellTypes
<1>5. CASE Sh!WaitTerminated
  <2>1. proc[sPid] = "zombie" /\ proc' = [proc EXCEPT ![sPid] = "none"]
    BY <1>3, <1>5 DEF Sh!WaitTerminated, Sh!Zombies, Sh!Matches
  <2>2. sPc' = "delete" /\ UNCHANGED <<st, collected>> /\ ~Updating'
    BY <1>5 DEF Sh!WaitTerminated, Updating
  <2>3. \A p \in Sh!Pids : SeenStopped(p)' <=> SeenStopped(p)
    BY <1>1, <2>1, <2>2 DEF ShellTypes, SeenStopped
  <2>4. Working'
    BY <1>1, <1>2, <1>3, <2>1, <2>2 DEF Working, ShellTypes
  <2>5. Stops'
    BY <1>1, <1>2, <1>4, <2>2, <2>3 DEF Stops
  <2>6. Front'
    BY <1>1, <1>2, <2>1, <2>2 DEF Front, Sh!Foreground
  <2> QED BY <2>4, <2>5, <2>6 DEF FrontInv
<1>6. CASE Sh!WaitStopped
  <2>1. proc[sPid] = "stopped" /\ collected' = [collected EXCEPT ![sPid] = TRUE]
    BY <1>3, <1>6 DEF Sh!WaitStopped, Sh!NewStops, Sh!Matches
  <2>2. sPc' = "update" /\ st' = "ST" /\ proc' = proc /\ Updating'
    BY <1>6 DEF Sh!WaitStopped, Updating
  <2>3. /\ \A p \in Sh!Pids : p /= sPid => (SeenStopped(p)' <=> SeenStopped(p))
        /\ SeenStopped(sPid)'
    BY <1>1, <1>2, <1>3, <2>1, <2>2 DEF ShellTypes, SeenStopped
  <2>4. Working'
    BY <1>2, <1>3, <2>2 DEF Working
  <2>5. Stops'
    BY <1>1, <1>2, <1>4, <2>2, <2>3 DEF Stops
  <2>6. Front'
    BY <1>1, <1>2, <2>1, <2>2 DEF Front, Sh!Foreground
  <2> QED BY <2>4, <2>5, <2>6 DEF FrontInv
<1> QED BY <1>5, <1>6

(* It deletes the job that has terminated.                                 *)
LEMMA DeleteKeeps ==
  ASSUME FrontInv, NumberedInv', Sh!Delete
  PROVE  FrontInv'
<1>1. NumberedInv /\ ShellTypes /\ Working /\ Stops /\ Front
  BY DEF FrontInv, NumberedInv
<1>2. /\ sPc = "delete" /\ sPc' = "prompt" /\ Sh!deletejob(sPid) /\ ~Updating /\ ~Updating'
      /\ UNCHANGED <<sPid, st, sI, proc, collected>>
  BY DEF Sh!Delete, Sh!At, Sh!kernel, Updating
<1>3. /\ sPid \in 0 .. PidMax /\ sPid /= 0
      /\ Sh!FreeSlot.pid = 0 /\ Sh!FreeSlot.state = "UNDEF"
  BY <1>1, <1>2, Sizes DEF ShellTypes, Working, Sh!FreeSlot
<1>4. \A k1 \in Sh!Slots : sJobs'[k1] = sJobs[k1] \/ (sJobs[k1].pid = sPid /\ sJobs'[k1] = Sh!FreeSlot)
  BY <1>1, <1>2, <1>3, DeletedJob
<1>5. \A k1 \in Sh!Slots : sJobs'[k1].pid /= sPid
  BY <1>1, <1>2, <1>3, DeletedJob
<1>6. \A k1 \in Sh!Slots : \/ sJobs'[k1] = sJobs[k1] /\ sJobs[k1].pid /= sPid
                           \/ sJobs'[k1].pid = 0 /\ sJobs'[k1].state = "UNDEF"
  BY <1>3, <1>4, <1>5
<1>7. Working'
  BY <1>2 DEF Working
<1>8. Stops'
  BY <1>1, <1>2, <1>6 DEF Stops, SeenStopped
<1>9. Front'
  BY <1>1, <1>2, <1>6 DEF Front, Sh!Foreground
<1> QED BY <1>7, <1>8, <1>9 DEF FrontInv

(* The invariant of the foreground job.                                    *)
LEMMA FrontAlways ==
  ASSUME ShellForks <= PidMax, 0 \notin PidArgs
  PROVE  ProgramsSpec => []FrontInv
<1>1. ProgramsInit => FrontInv
  <2> SUFFICES ASSUME ProgramsInit PROVE FrontInv
    OBVIOUS
  <2>1. Sh!Init
    BY DEF ProgramsInit
  <2> QED BY <2>1, InitNumbered DEF Sh!Init, FrontInv, Working, Stops, Front, Updating, Sh!FreeSlot,
                                    Sh!Foreground
<1>2. FrontInv /\ [ProgramsNext]_programVars => FrontInv'
  <2> SUFFICES ASSUME FrontInv, [ProgramsNext]_programVars PROVE FrontInv'
    OBVIOUS
  <2>1. NumberedInv /\ NumberedInv'
    BY NumberedKeeps DEF FrontInv
  <2>2. CASE UNCHANGED shellVars
    <3>1. Steady
      BY <2>2 DEF shellVars, Steady, SeenStopped
    <3> QED BY <2>1, <3>1, SteadyKeeps
  <2>3. CASE Sh!Next
    <3>1. Sh!Quit \/ Sh!EnterWait \/ Sh!WaitFails \/ Sh!Deliver \/ Sh!HandlerReturns \/ Sh!Environment
          => FrontInv'
      BY <2>1, SteadySteps, SteadyKeeps
    <3> QED BY <2>1, <2>3, <3>1, ReapKeeps, ForkKeeps, AddPidKeeps, WriteKeeps, FindKeeps, CommandKeeps,
               KillKeeps, WaitKeeps, DeleteKeeps DEF Sh!Next, Sh!Eval, Sh!Handler
  <2> QED BY <2>2, <2>3, ShellStep
<1> QED BY <1>1, <1>2, PTL DEF ProgramsSpec

(* At the prompt the entries that say ST are those of the jobs whose stop  *)
(* waitfg has seen (shell.c:209) and that nobody has continued, whatever   *)
(* the order of signals, keys and commands.                                *)
THEOREM StopsSeen ==
  ASSUME ShellForks <= PidMax, 0 \notin PidArgs
  PROVE  ProgramsSpec => []StopsRecorded
<1>1. FrontInv => StopsRecorded
  BY DEF FrontInv, Stops, Updating, SeenStopped, StopsRecorded, Sh!StopsRecorded, Sh!AtPrompt
<1> QED BY <1>1, FrontAlways, PTL

(* "At most 1 job can be in the FG state" (shell.c:24), and none is when   *)
(* the shell prompts.                                                      *)
THEOREM OneInFront ==
  ASSUME ShellForks <= PidMax, 0 \notin PidArgs
  PROVE  ProgramsSpec => []OneForeground
<1>1. FrontInv => OneForeground
  <2> SUFFICES ASSUME FrontInv PROVE OneForeground
    OBVIOUS
  <2>1. \A k1, k2 \in Sh!Foreground : k1 = k2
    BY Sizes DEF FrontInv, NumberedInv, Numbered, Front, Sh!Foreground
  <2>2. Sh!Cardinality(Sh!Foreground) = Cardinality(Sh!Foreground)
    BY DEF Sh!Cardinality, Cardinality
  <2>3. Cardinality(Sh!Foreground) <= 1
    <3>1. CASE Sh!Foreground = {}
      BY <3>1, FS_EmptySet
    <3>2. CASE Sh!Foreground /= {}
      <4>1. PICK k1 : Sh!Foreground = {k1}
        BY <2>1, <3>2
      <4> QED BY <4>1, FS_Singleton
    <3> QED BY <3>1, <3>2
  <2>4. sPc = "prompt" => Sh!Foreground = {}
    BY DEF FrontInv, Front, Updating
  <2> QED BY <2>2, <2>3, <2>4 DEF OneForeground, Sh!OneForeground, Sh!AtMostOneFG, Sh!AtPrompt
<1> QED BY <1>1, FrontAlways, PTL

================================================================================
