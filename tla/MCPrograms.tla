------------------------------ MODULE MCPrograms ------------------------------
(***************************************************************************)
(* The programs that share nothing with another one, in one run: the       *)
(* readers and writers, the producer and consumer, the shared counters,    *)
(* the signal handlers, the shell, the echo servers with processes and     *)
(* with threads, the Tiny web server, and the functions of opt/.  The      *)
(* initial state chooses one of them; the variables of the others keep one *)
(* initial value.                                                          *)
(***************************************************************************)
EXTENDS ReadersWriters

CONSTANTS NITEMS, BUFSIZE, IntMax,       \* ProdCons
          NThreads, PerThread,           \* SharedCounters
          MaxForks,                      \* SignalHandlers
          PidMax, MAXJOBS, ShellForks, PidArgs,   \* Shell
          Clients, Lines, NFds,          \* EchoServers
          Browsers, Impatient,           \* Tiny
          VSIZE, Spare                   \* Combiners

VARIABLE program

VARIABLES pBuf, pFront, pRear, pMutex, pSlots, pItems, pPc, pItem, pIndex, pInserts,
          pMain, thread, pI, consumed, freed

PC == INSTANCE ProdCons
        WITH producer <- "producer", consumer <- "consumer",
             Producers <- {"producer"}, Consumers <- {"consumer"},
             Items <- 0 .. NITEMS - 1, N <- BUFSIZE, MaxInserts <- NITEMS + 1,
             buf <- pBuf, front <- pFront, rear <- pRear, mutex <- pMutex, slots <- pSlots,
             items <- pItems, pc <- pPc, item <- pItem, index <- pIndex, inserts <- pInserts,
             main <- pMain, i <- pI

VARIABLES counter, cMainAt, i, cell, thr, myid, k, reg, cMutex, sum, result

SC == INSTANCE SharedCounters WITH mainAt <- cMainAt, mutex <- cMutex

VARIABLES prog, main, asleep, blocked, pending, handler, got, child, jobs, pid

SH == INSTANCE SignalHandlers

VARIABLES sJobs, sPc, sPid, st, sI, exited, sigchld, handling, proc, collected, ignores,
          lastpid, forks

Sh == INSTANCE Shell WITH jobs <- sJobs, pc <- sPc, pid <- sPid, i <- sI,
                          MaxForks <- ShellForks

VARIABLES server, mainAt, connfd, table, peer, arg, fd, eBuf, chld, reaping,
          client, input, sent, output

ES == INSTANCE EchoServers WITH buf <- eBuf

VARIABLES tinyAt, conn, lineno, file, cgi, kind, browser, posted, holders, answer

Web == INSTANCE Tiny

VARIABLES combiner, length, ahead, phase, oIndex, acc, dest

Opt == INSTANCE Combiners WITH index <- oIndex

pVars == <<pBuf, pFront, pRear, pMutex, pSlots, pItems, pPc, pItem, pIndex, pInserts,
           pMain, thread, pI, consumed, freed>>
counterVars == <<counter, cMainAt, i, cell, thr, myid, k, reg, cMutex, sum, result>>
handlerVars == <<prog, main, asleep, blocked, pending, handler, got, child, jobs, pid>>
shellVars == <<sJobs, sPc, sPid, st, sI, exited, sigchld, handling, proc, collected, ignores,
               lastpid, forks>>
echoVars == <<server, mainAt, connfd, table, peer, arg, fd, eBuf, chld, reaping,
              client, input, sent, output>>
tinyVars == <<tinyAt, conn, lineno, file, cgi, kind, browser, posted, holders, answer>>
combineVars == <<combiner, length, ahead, phase, oIndex, acc, dest>>
programVars == <<program, rwVars, pVars, counterVars, handlerVars, shellVars, echoVars,
                 tinyVars, combineVars>>

ASSUME ProgramsAssumption ==
    /\ PC!ProdConsAssumption /\ SC!SharedAssumption /\ SH!HandlersAssumption
    /\ Sh!ShellAssumption /\ ES!EchoAssumption /\ Web!TinyAssumption
    /\ Opt!CombinersAssumption

--------------------------------------------------------------------------------
Programs == {"readers_writers", "prodcons", "counters", "handlers", "shell", "echo", "tiny",
             "combiners"}

ProgramsInit ==
    /\ program \in Programs
    /\ Init /\ (program /= "readers_writers" => solution = "rw0")
    /\ PC!PCInit
    /\ SC!Init /\ (program /= "counters" => counter = "badcnt")
    /\ SH!Init /\ (program /= "handlers" => prog = "procmask")
    /\ Sh!Init
    /\ ES!Init /\ (program /= "echo" => server = "threads")
    /\ Web!Init /\ (program /= "tiny" => kind = [c \in Browsers |-> "page"])
    /\ combiner \in Opt!Functions
    /\ program /= "combiners" => combiner = Opt!Halves
    /\ Opt!Init /\ (program /= "combiners" => length = 1)

Is(name) == program = name /\ UNCHANGED program

ProgramsNext ==
    \/ /\ Is("readers_writers") /\ Next
       /\ UNCHANGED <<pVars, counterVars, handlerVars, shellVars, echoVars, tinyVars, combineVars>>
    \/ /\ Is("prodcons") /\ PC!PCNext
       /\ UNCHANGED <<rwVars, counterVars, handlerVars, shellVars, echoVars, tinyVars, combineVars>>
    \/ /\ Is("counters") /\ SC!Next
       /\ UNCHANGED <<rwVars, pVars, handlerVars, shellVars, echoVars, tinyVars, combineVars>>
    \/ /\ Is("handlers") /\ SH!Next
       /\ UNCHANGED <<rwVars, pVars, counterVars, shellVars, echoVars, tinyVars, combineVars>>
    \/ /\ Is("shell") /\ Sh!Next
       /\ UNCHANGED <<rwVars, pVars, counterVars, handlerVars, echoVars, tinyVars, combineVars>>
    \/ /\ Is("echo") /\ ES!Next
       /\ UNCHANGED <<rwVars, pVars, counterVars, handlerVars, shellVars, tinyVars, combineVars>>
    \/ /\ Is("tiny") /\ Web!Next
       /\ UNCHANGED <<rwVars, pVars, counterVars, handlerVars, shellVars, echoVars, combineVars>>
    \/ /\ Is("combiners") /\ Opt!Next
       /\ UNCHANGED <<rwVars, pVars, counterVars, handlerVars, shellVars, echoVars, tinyVars>>

(* Every thread and process runs as long as it can.  More is assumed where *)
(* it says SF: a thread that could have a semaphore again and again gets   *)
(* it in the end, and the shell's pending signal is delivered when a       *)
(* system call returns, even if each call has something else to report at  *)
(* once.  No client has to connect, send a line or close, nobody has to    *)
(* type and no job has to end, but a browser finishes its request, and a   *)
(* child of SignalHandlers or a CGI program ends.                          *)
ReaderOrHandler(r) == \/ Is("readers_writers") /\ Reader(r) /\ UNCHANGED shellVars
                      \/ Is("shell") /\ Sh!Handler /\ UNCHANGED rwVars
PCThread(t) == PC!LoopAgain(t) \/ PC!LoopEnds(t) \/ PC!Inside(t)

ProgramsFairness ==
    /\ WF_pVars(Is("prodcons") /\ PC!Main)
    /\ \A t \in PC!Threads : WF_pVars(Is("prodcons") /\ PCThread(t))
    /\ \A r \in Readers : SF_<<rwVars, shellVars>>(ReaderOrHandler(r))
    /\ \A x \in Writers : SF_rwVars(Is("readers_writers") /\ Writer(x))
    /\ WF_counterVars(Is("counters") /\ SC!Main)
    /\ \A t \in SC!Peers : WF_counterVars(Is("counters") /\ SC!Thread(t))
    /\ WF_handlerVars(Is("handlers") /\ SH!Main)
    /\ WF_handlerVars(Is("handlers") /\ SH!Handler)
    /\ \A c \in SH!Children : WF_handlerVars(Is("handlers") /\ SH!Exit(c))
    /\ WF_shellVars(Is("shell") /\ Sh!Eval)
    /\ WF_echoVars(Is("echo") /\ ES!Main)
    /\ WF_echoVars(Is("echo") /\ ES!Handler)
    /\ \A w \in ES!Workers : WF_echoVars(Is("echo") /\ ES!Worker(w))
    /\ WF_tinyVars(Is("tiny") /\ Web!Server)
    /\ WF_tinyVars(Is("tiny") /\ Web!ProgramEnds)
    /\ \A c \in Browsers : WF_tinyVars(Is("tiny") /\ Web!SendLine(c))

ProgramsSpec == ProgramsInit /\ [][ProgramsNext]_programVars /\ ProgramsFairness

--------------------------------------------------------------------------------
(* Properties.  Each is the property of that name in a component's module; *)
(* Exclusion is there by EXTENDS.                                          *)

(* prodconsn.c: the items are consumed in order, the buffer is freed when  *)
(* nobody uses it, and the program ends; so do those of SharedCounters.    *)
ConsumedInOrder == PC!ConsumedInOrder
NoUseAfterFree == PC!NoUseAfterFree
ProgramsEnd == <>(/\ program = "prodcons" => PC!Completed
                  /\ program = "counters" => SC!Ended)

(* rw0.c to rw3.c: who starts gets in, where the solution promises it.     *)
EveryoneGetsIn == program = "readers_writers" => NoStarvation

(* psum-*.c, goodcnt.c, badcnt.c: the sums; race.c and the others: the ids *)
ResultsRight == SC!ResultsRight

(* procmask*.c: the job list; signal*.c, sigsuspend.c, waitforsignal.c: no *)
(* child and no signal is overlooked.                                      *)
JobsMatchChildren == SH!JobsMatchChildren
NothingMissed == SH!NothingMissed

(* shell.c: jobs are kept, one is in the foreground, stops are recorded,   *)
(* zombies are reaped, and waitfg returns.                                 *)
NoLostJob == Sh!NoLostJob
OneForeground == Sh!OneForeground
StopsRecorded == Sh!StopsRecorded
ZombiesReaped == Sh!ZombiesReaped
WaitfgReturns == Sh!WaitfgReturns

(* echoserverp.c and echoservert.c: connections have one worker each, and  *)
(* are given back.                                                         *)
OwnConnection == ES!OwnConnection
Released == ES!Released

(* tiny.c: the answers fit the requests, and arrive.                       *)
AnswersFit == Web!AnswersFit
AnswerArrives == Web!AnswerArrives

(* The functions of opt/ combine what combine1 combines.                   *)
CombinersAgree == Opt!CombinersAgree

================================================================================
