------------------------------- MODULE EchoServers ------------------------------
(***************************************************************************)
(* conc/echoserverp.c and echoservert.c with echo.c: a process or a thread *)
(* for each client.  A forked child has a descriptor table of its own,     *)
(* which starts as a copy of its parent's; all threads share one.          *)
(***************************************************************************)
EXTENDS Naturals, Sequences, FiniteSets

CONSTANTS Clients,   \* each connects at most once
          Lines,     \* the lines a client may send
          NFds       \* the descriptors a process has for connections

EchoAssumption == /\ IsFiniteSet(Clients) /\ "none" \notin Clients
                  /\ Lines \in Nat /\ NFds \in Nat \ {0}

VARIABLES server,    \* the program
          mainAt,    \* the next statement of main
          connfd,    \* connfd of echoserverp.c, *connfdp of echoservert.c: the
                     \* block that main holds
          table,     \* table[p][d]: the client connected to descriptor d of p
          peer,      \* peer[w]: the next statement of child or thread w
          arg,       \* arg[w]: the block that thread w gets, 0 once it is freed
          fd,        \* fd[w]: the local connfd of w
          buf,       \* buf[w]: the line that w has read
          chld,      \* a SIGCHLD is pending
          reaping,   \* the SIGCHLD handler runs
          client,    \* client[c]: "idle", "backlog", "accepted" or "closed"
          input,     \* input[c]: lines sent and not yet read by the server
          sent,      \* sent[c]: how many lines c has sent
          output     \* output[c]: what the server has sent to c

serverVars == <<server, mainAt, connfd, table, peer, arg, fd, buf, chld, reaping>>
clientVars == <<client, input, sent, output>>
echoVars == <<serverVars, clientVars>>

Fds == 1 .. NFds
NoFd == 0
NoClient == "none"
MainProcess == 0
Workers == 1 .. Cardinality(Clients)
(* A child is a process of its own; a thread belongs to the main process. *)
ProcessOf(w) == IF server = "processes" THEN w ELSE MainProcess
NoTable == [d \in Fds |-> NoClient]

Init == /\ server \in {"processes", "threads"}
        /\ mainAt = "accept" /\ connfd = NoFd
        /\ table = [p \in {MainProcess} \cup Workers |-> NoTable]
        /\ peer = [w \in Workers |-> "new"]
        /\ arg = [w \in Workers |-> NoFd]
        /\ fd = [w \in Workers |-> NoFd]
        /\ buf = [w \in Workers |-> NoClient]
        /\ chld = FALSE /\ reaping = FALSE
        /\ client = [c \in Clients |-> "idle"]
        /\ input = [c \in Clients |-> 0]
        /\ sent = [c \in Clients |-> 0]
        /\ output = [c \in Clients |-> << >>]

(* The clients: connect, send lines, each after the echo of the one        *)
(* before, and close at any time.                                          *)
Connect(c) == /\ client[c] = "idle"
              /\ client' = [client EXCEPT ![c] = "backlog"]
              /\ UNCHANGED <<serverVars, input, sent, output>>

SendLine(c) == /\ client[c] \in {"backlog", "accepted"}
               /\ sent[c] < Lines /\ Len(output[c]) = sent[c]
               /\ input' = [input EXCEPT ![c] = @ + 1]
               /\ sent' = [sent EXCEPT ![c] = @ + 1]
               /\ UNCHANGED <<serverVars, client, output>>

CloseClient(c) == /\ client[c] = "accepted"
                  /\ Len(output[c]) = sent[c]
                  /\ client' = [client EXCEPT ![c] = "closed"]
                  /\ UNCHANGED <<serverVars, input, sent, output>>

(* main, which does not run while its handler does. *)

FreeFds(p) == {d \in Fds : table[p][d] = NoClient}
Lowest(set) == CHOOSE d \in set : \A e \in set : d <= e

(* Accept takes the lowest free descriptor; without one the wrapper exits. *)
Accept(c) == /\ mainAt = "accept" /\ ~reaping
             /\ client[c] = "backlog"
             /\ client' = [client EXCEPT ![c] = "accepted"]
             /\ IF FreeFds(MainProcess) = {}
                THEN mainAt' = "exited" /\ UNCHANGED <<connfd, table>>
                ELSE LET d == Lowest(FreeFds(MainProcess)) IN
                     /\ mainAt' = "start"
                     /\ connfd' = d
                     /\ table' = [table EXCEPT ![MainProcess][d] = c]
             /\ UNCHANGED <<server, peer, arg, fd, buf, chld, reaping, input, sent, output>>

Next1(w) == peer[w] = "new" /\ \A v \in 1 .. w - 1 : peer[v] /= "new"

(* Fork copies the table and the variables. *)
Fork(w) == /\ server = "processes" /\ mainAt = "start" /\ ~reaping
           /\ Next1(w)
           /\ table' = [table EXCEPT ![w] = table[MainProcess]]
           /\ fd' = [fd EXCEPT ![w] = connfd]
           /\ peer' = [peer EXCEPT ![w] = "read"]
           /\ mainAt' = "close"
           /\ UNCHANGED <<server, connfd, arg, buf, chld, reaping, clientVars>>

(* Mutant: the parent keeps the connected descriptor open. *)
ParentKeeps == /\ server = "processes" /\ mainAt = "close" /\ ~reaping
               /\ table' = table
               /\ mainAt' = "accept"
               /\ UNCHANGED <<server, connfd, peer, arg, fd, buf, chld, reaping, clientVars>>

ParentCloses == /\ server = "processes" /\ mainAt = "close" /\ ~reaping
                /\ table' = [table EXCEPT ![MainProcess][connfd] = NoClient]
                /\ mainAt' = "accept"
                /\ UNCHANGED <<server, connfd, peer, arg, fd, buf, chld, reaping, clientVars>>

(* Pthread_create hands the block over; the next Malloc gets a new one.    *)
CreateThread(w) == /\ server = "threads" /\ mainAt = "start"
                   /\ Next1(w)
                   /\ arg' = [arg EXCEPT ![w] = connfd]
                   /\ peer' = [peer EXCEPT ![w] = "entry"]
                   /\ mainAt' = "accept"
                   /\ UNCHANGED <<server, connfd, table, fd, buf, chld, reaping, clientVars>>

(* Mutant: all threads get the address of one connfd of main. *)
SharedConnfd(w) == /\ peer[w] = "entry"
                   /\ fd' = [fd EXCEPT ![w] = connfd]
                   /\ arg' = [arg EXCEPT ![w] = NoFd]
                   /\ peer' = [peer EXCEPT ![w] = "read"]
                   /\ UNCHANGED <<server, mainAt, connfd, table, buf, chld, reaping, clientVars>>

(* connfd = *vargp, and Free. *)
Entry(w) == /\ peer[w] = "entry"
            /\ fd' = [fd EXCEPT ![w] = arg[w]]
            /\ arg' = [arg EXCEPT ![w] = NoFd]
            /\ peer' = [peer EXCEPT ![w] = "read"]
            /\ UNCHANGED <<server, mainAt, connfd, table, buf, chld, reaping, clientVars>>

(* echo.c: Rio_readlineb gives a line, or 0 at the end of the input.       *)
ClientOf(w) == table[ProcessOf(w)][fd[w]]

Read(w) == LET c == ClientOf(w) IN
           /\ peer[w] = "read"
           /\ \/ /\ c /= NoClient /\ input[c] > 0
                 /\ input' = [input EXCEPT ![c] = @ - 1]
                 /\ buf' = [buf EXCEPT ![w] = c]
                 /\ peer' = [peer EXCEPT ![w] = "write"]
              \/ /\ c /= NoClient /\ input[c] = 0 /\ client[c] = "closed"
                 /\ peer' = [peer EXCEPT ![w] = "close"]
                 /\ UNCHANGED <<input, buf>>
           /\ UNCHANGED <<server, mainAt, connfd, table, arg, fd, chld, reaping,
                          client, sent, output>>

Write(w) == /\ peer[w] = "write"
            /\ output' = [output EXCEPT ![ClientOf(w)] = Append(@, buf[w])]
            /\ peer' = [peer EXCEPT ![w] = "read"]
            /\ UNCHANGED <<server, mainAt, connfd, table, arg, fd, buf, chld, reaping,
                           client, input, sent>>

(* Close, and the end of the thread or of the child, whose table the       *)
(* kernel closes; the end of a child raises SIGCHLD.                       *)
CloseConnfd(w) ==
    /\ peer[w] = "close"
    /\ IF server = "processes"
       THEN /\ table' = [table EXCEPT ![w] = NoTable]
            /\ peer' = [peer EXCEPT ![w] = "zombie"]
            /\ chld' = TRUE
       ELSE /\ table' = [table EXCEPT ![MainProcess][fd[w]] = NoClient]
            /\ peer' = [peer EXCEPT ![w] = "gone"]
            /\ chld' = chld
    /\ UNCHANGED <<server, mainAt, connfd, arg, fd, buf, reaping, clientVars>>

(* The handler interrupts main and reaps whatever is there (WNOHANG). *)
Zombies == {w \in Workers : peer[w] = "zombie"}
Alive == {w \in Workers : peer[w] \in {"read", "write", "close", "zombie"}}

HandlerStarts == /\ chld /\ ~reaping
                 /\ chld' = FALSE /\ reaping' = TRUE
                 /\ UNCHANGED <<server, mainAt, connfd, table, peer, arg, fd, buf, clientVars>>

Reap(w) == /\ reaping /\ peer[w] = "zombie"
           /\ peer' = [peer EXCEPT ![w] = "gone"]
           /\ UNCHANGED <<server, mainAt, connfd, table, arg, fd, buf, chld, reaping, clientVars>>

(* Mutant: without WNOHANG waitpid returns when no child is left at all. *)
WaitsForAll == Alive = {}

NothingToReap == Zombies = {}

HandlerReturns == /\ reaping /\ NothingToReap
                  /\ reaping' = FALSE
                  /\ UNCHANGED <<server, mainAt, connfd, table, peer, arg, fd, buf, chld, clientVars>>

Main == (\E c \in Clients : Accept(c)) \/ (\E w \in Workers : Fork(w) \/ CreateThread(w))
        \/ ParentCloses
Worker(w) == Entry(w) \/ Read(w) \/ Write(w) \/ CloseConnfd(w)
Handler == HandlerStarts \/ (\E w \in Workers : Reap(w)) \/ HandlerReturns
Client(c) == Connect(c) \/ SendLine(c) \/ CloseClient(c)

Next == Main \/ (\E w \in Workers : Worker(w)) \/ Handler \/ \E c \in Clients : Client(c)

--------------------------------------------------------------------------------
(* Properties *)

(* Each connection has one thread or child, which sends the client its own *)
(* lines, although main reuses connfd and the kernel reuses descriptors.   *)
Serves(w) == peer[w] \in {"read", "write", "close"}
OwnConnection ==
    /\ \A c \in Clients : \A k \in 1 .. Len(output[c]) : output[c][k] = c
    /\ \A v, w \in Workers : Serves(v) /\ Serves(w) /\ v /= w => ClientOf(v) /= ClientOf(w)
    /\ \A w \in Workers : Serves(w) => ClientOf(w) /= NoClient

(* In the end a client that closes is forgotten: every process closes its  *)
(* descriptor ("important!", echoserverp.c:37), every child is reaped, and *)
(* who connects is accepted.  Other clients may be silent for ever.        *)
Forgotten(c) == \A p \in DOMAIN table : \A d \in Fds : table[p][d] /= c
Released == <>[](/\ \A c \in Clients : /\ client[c] /= "backlog"
                                      /\ client[c] = "closed" => Forgotten(c)
                 /\ Zombies = {})

================================================================================
