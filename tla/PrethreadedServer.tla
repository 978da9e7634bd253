--------------------------- MODULE PrethreadedServer ---------------------------
(***************************************************************************)
(* The prethreaded echo server: main of conc/echoservert_pre.c accepts     *)
(* connections and passes their descriptors through the shared buffer to   *)
(* worker threads, which run echo_cnt of conc/echo_cnt.c and close.        *)
(*                                                                         *)
(* The buffer is BoundedFIFO, the abstraction that Sbuf implements.  The   *)
(* descriptor table, the connections and the clients (netp/echoclient.c)   *)
(* are modelled as far as the server can tell: accept returns the lowest   *)
(* free descriptor, a client sends a line and waits for its echo, closes   *)
(* when its input ends, and may die while it waits.                        *)
(***************************************************************************)
EXTENDS Naturals, Sequences, FiniteSets, FiniteSetsExt

CONSTANTS Clients,
          Aborters,     \* the clients that may die
          Workers,      \* the NTHREADS worker threads
          main,         \* the main thread
          SBUFSIZE,     \* the slots of sbuf
          MaxFd,        \* the descriptors the process may open are 1 .. MaxFd
          Input,        \* Input[c]: the lines that client c sends, at most
          None

ASSUME ServerAssumption == /\ IsFiniteSet(Clients) /\ IsFiniteSet(Workers)
                           /\ Aborters \subseteq Clients
                           /\ main \notin Workers
                           /\ SBUFSIZE \in Nat \ {0}
                           /\ MaxFd \in Nat \ {0}
                           /\ Input \in [Clients -> Nat]
                           /\ None \notin Clients \cup 1 .. MaxFd

VARIABLES queue, call, cell,   \* sbuf, and the calls on it
          backlog,             \* connections that main has not accepted
          open,                \* open[fd]: the client fd is connected to
          pc,                  \* pc[w]: what worker w does next
          connfd, buf,         \* the locals of thread and echo_cnt
          reg,                 \* byte_cnt as w has loaded it
          once,                \* the pthread_once_t
          byte_cnt, mutex,     \* the statics of echo_cnt.c
          exited,              \* an error wrapper has called exit
          client,              \* client[c]: what c does
          sent, got,           \* the lines c has sent, the echoes it has read
          toServer, toClient   \* the bytes under way, as lines

buffer == <<queue, call, cell>>
locals == <<pc, connfd, buf, reg>>
counter == <<once, byte_cnt, mutex>>
network == <<client, sent, got, toServer, toClient>>
vars == <<buffer, backlog, open, locals, counter, exited, network>>

Fds == 1 .. MaxFd

Buffer == INSTANCE BoundedFIFO WITH Threads <- {main} \cup Workers,
                                    Items <- Fds, Capacity <- SBUFSIZE

(* Rio_readlineb's n: the k-th line of a client has k bytes. *)
Length(line) == line[2]

Init == /\ Buffer!Init
        /\ backlog = << >>
        /\ open = [fd \in Fds |-> None]
        /\ pc = [w \in Workers |-> "remove"]
        /\ connfd = [w \in Workers |-> None]
        /\ buf = [w \in Workers |-> None]
        /\ reg = [w \in Workers |-> 0]
        /\ once = "init" /\ byte_cnt = 0 /\ mutex = 0
        /\ exited = FALSE
        /\ client = [c \in Clients |-> "off"]
        /\ sent = [c \in Clients |-> 0]
        /\ got = [c \in Clients |-> << >>]
        /\ toServer = [c \in Clients |-> << >>]
        /\ toClient = [c \in Clients |-> << >>]

--------------------------------------------------------------------------------
(* main *)

FreeFds == {fd \in Fds : open[fd] = None}

(* Accept exits when there is no descriptor left. *)
Accept == /\ ~exited /\ backlog /= << >> /\ call[main] = "idle"
          /\ IF FreeFds = {}
             THEN exited' = TRUE /\ UNCHANGED <<buffer, backlog, open>>
             ELSE /\ Buffer!InvokeInsert(main, Min(FreeFds))
                  /\ open' = [open EXCEPT ![Min(FreeFds)] = Head(backlog)]
                  /\ backlog' = Tail(backlog)
                  /\ UNCHANGED exited
          /\ UNCHANGED <<locals, counter, network>>

SbufInsert == /\ ~exited /\ Buffer!Insert(main)
              /\ UNCHANGED <<backlog, open, locals, counter, exited, network>>

(* Mutant: main closes its descriptor, as the parent of a process-based    *)
(* server does (echoserverp.c:36).                                         *)
InsertReturnsAndCloses == /\ ~exited /\ Buffer!Return(main)
                          /\ open' = [open EXCEPT ![cell[main]] = None]
                          /\ UNCHANGED <<backlog, locals, counter, exited, network>>

InsertReturns == /\ ~exited /\ Buffer!Return(main)
                 /\ UNCHANGED <<backlog, open, locals, counter, exited, network>>

Main == Accept \/ SbufInsert \/ InsertReturns

--------------------------------------------------------------------------------
(* thread and echo_cnt *)

Goes(w, from, to) == ~exited /\ pc[w] = from /\ pc' = [pc EXCEPT ![w] = to]

CallRemove(w) == /\ ~exited /\ pc[w] = "remove" /\ Buffer!InvokeRemove(w)
                 /\ UNCHANGED <<backlog, open, locals, counter, exited, network>>

SbufRemove(w) == /\ ~exited /\ Buffer!Remove(w)
                 /\ UNCHANGED <<backlog, open, locals, counter, exited, network>>

RemoveReturns(w) == /\ Goes(w, "remove", "once")
                    /\ call[w] = "removed" /\ Buffer!Return(w)
                    /\ connfd' = [connfd EXCEPT ![w] = cell[w]]
                    /\ UNCHANGED <<backlog, open, buf, reg, counter, exited, network>>

(* Mutant: a flag that is tested here and set when the work is done. *)
OnceFlag(w) == /\ \/ once = "init" /\ Goes(w, "once", "sem_init")
                  \/ once = "done" /\ Goes(w, "once", "read")
               /\ UNCHANGED <<buffer, backlog, open, connfd, buf, reg, counter, exited,
                              network>>

(* Pthread_once: the first caller runs init_echo_cnt, the others wait.     *)
Once(w) == /\ \/ once = "init" /\ Goes(w, "once", "sem_init") /\ once' = "running"
              \/ once = "done" /\ Goes(w, "once", "read") /\ UNCHANGED once
           /\ UNCHANGED <<buffer, backlog, open, connfd, buf, reg, byte_cnt, mutex, exited,
                          network>>

SemInit(w) == /\ Goes(w, "sem_init", "zero")
              /\ mutex' = 1
              /\ UNCHANGED <<buffer, backlog, open, connfd, buf, reg, once, byte_cnt, exited,
                             network>>

ZeroCount(w) == /\ Goes(w, "zero", "read")
                /\ byte_cnt' = 0 /\ once' = "done"
                /\ UNCHANGED <<buffer, backlog, open, connfd, buf, reg, mutex, exited, network>>

Peer(w) == open[connfd[w]]

(* Mutant: buf is static, and so shared by the workers. *)
ReadLineStatic(w) ==
    /\ Goes(w, "read", "P")
    /\ Peer(w) \in Clients /\ toServer[Peer(w)] /= << >>
    /\ buf' = [v \in Workers |-> Head(toServer[Peer(w)])]
    /\ toServer' = [toServer EXCEPT ![Peer(w)] = Tail(@)]
    /\ UNCHANGED <<buffer, backlog, open, connfd, reg, counter, exited, client, sent, got,
                   toClient>>

ReadLine(w) ==
    /\ Goes(w, "read", "P")
    /\ Peer(w) \in Clients /\ toServer[Peer(w)] /= << >>
    /\ buf' = [buf EXCEPT ![w] = Head(toServer[Peer(w)])]
    /\ toServer' = [toServer EXCEPT ![Peer(w)] = Tail(@)]
    /\ UNCHANGED <<buffer, backlog, open, connfd, reg, counter, exited, client, sent, got,
                   toClient>>

(* Mutant: the end of the input is not noticed. *)
ReadEOFNever(w) == FALSE /\ UNCHANGED vars

ReadEOF(w) == /\ Goes(w, "read", "close")
              /\ Peer(w) \in Clients /\ toServer[Peer(w)] = << >>
              /\ client[Peer(w)] \in {"closed", "dead"}
              /\ UNCHANGED <<buffer, backlog, open, connfd, buf, reg, counter, exited, network>>

(* Mutant: P does not wait. *)
PMutexNoWait(w) == /\ Goes(w, "P", "load")
                   /\ mutex' = 0
                   /\ UNCHANGED <<buffer, backlog, open, connfd, buf, reg, once, byte_cnt,
                                  exited, network>>

PMutex(w) == /\ Goes(w, "P", "load")
             /\ mutex > 0 /\ mutex' = mutex - 1
             /\ UNCHANGED <<buffer, backlog, open, connfd, buf, reg, once, byte_cnt, exited,
                            network>>

(* byte_cnt += n *)
LoadCount(w) == /\ Goes(w, "load", "store")
                /\ reg' = [reg EXCEPT ![w] = byte_cnt]
                /\ UNCHANGED <<buffer, backlog, open, connfd, buf, counter, exited, network>>

StoreCount(w) == /\ Goes(w, "store", "V")
                 /\ byte_cnt' = reg[w] + Length(buf[w])
                 /\ UNCHANGED <<buffer, backlog, open, connfd, buf, reg, once, mutex, exited,
                                network>>

VMutex(w) == /\ Goes(w, "V", "write")
             /\ mutex' = mutex + 1
             /\ UNCHANGED <<buffer, backlog, open, connfd, buf, reg, once, byte_cnt, exited,
                            network>>

Write(w) == /\ Goes(w, "write", "read")
            /\ Peer(w) \in Clients
            /\ toClient' = [toClient EXCEPT ![Peer(w)] = Append(@, buf[w])]
            /\ UNCHANGED <<buffer, backlog, open, connfd, buf, reg, counter, exited, client,
                           sent, got, toServer>>

(* Reading from or writing to a closed descriptor (EBADF), or to a client  *)
(* that is dead (ECONNRESET, EPIPE): the Rio wrappers exit.  The read and  *)
(* the write of a dead client's connection may as well succeed.            *)
Fails(w) == /\ Goes(w, pc[w], pc[w])
            /\ pc[w] \in {"read", "write"}
            /\ Peer(w) = None \/ client[Peer(w)] = "dead"
            /\ exited' = TRUE
            /\ UNCHANGED <<buffer, backlog, open, connfd, buf, reg, counter, network>>

Close(w) == /\ Goes(w, "close", "remove")
            /\ open' = [open EXCEPT ![connfd[w]] = None]
            /\ exited' = (Peer(w) = None)      \* the Close wrapper, EBADF
            /\ UNCHANGED <<buffer, backlog, connfd, buf, reg, counter, network>>

Worker(w) == \/ CallRemove(w) \/ SbufRemove(w) \/ RemoveReturns(w)
             \/ Once(w) \/ SemInit(w) \/ ZeroCount(w)
             \/ ReadLine(w) \/ ReadEOF(w)
             \/ PMutex(w) \/ LoadCount(w) \/ StoreCount(w) \/ VMutex(w)
             \/ Write(w) \/ Fails(w) \/ Close(w)

--------------------------------------------------------------------------------
(* The clients *)

ClientGoes(c, from, to) == client[c] = from /\ client' = [client EXCEPT ![c] = to]

Connect(c) == /\ ~exited /\ ClientGoes(c, "off", "input")
              /\ backlog' = Append(backlog, c)
              /\ UNCHANGED <<buffer, open, locals, counter, exited, sent, got, toServer, toClient>>

SendLine(c) == /\ ClientGoes(c, "input", "reply")
               /\ sent[c] < Input[c]
               /\ sent' = [sent EXCEPT ![c] = @ + 1]
               /\ toServer' = [toServer EXCEPT ![c] = Append(@, <<c, sent[c] + 1>>)]
               /\ UNCHANGED <<buffer, backlog, open, locals, counter, exited, got, toClient>>

ReadEcho(c) == /\ ClientGoes(c, "reply", "input")
               /\ toClient[c] /= << >>
               /\ got' = [got EXCEPT ![c] = Append(@, Head(toClient[c]))]
               /\ toClient' = [toClient EXCEPT ![c] = Tail(@)]
               /\ UNCHANGED <<buffer, backlog, open, locals, counter, exited, sent, toServer>>

CloseClient(c) == /\ ClientGoes(c, "input", "closed")
                  /\ UNCHANGED <<buffer, backlog, open, locals, counter, exited, sent, got,
                                 toServer, toClient>>

Die(c) == /\ c \in Aborters
          /\ ClientGoes(c, "reply", "dead")
          /\ UNCHANGED <<buffer, backlog, open, locals, counter, exited, sent, got,
                         toServer, toClient>>

Client(c) == SendLine(c) \/ ReadEcho(c) \/ CloseClient(c)

Next == \/ Main
        \/ \E w \in Workers : Worker(w)
        \/ \E c \in Clients : Connect(c) \/ Client(c) \/ Die(c)

Spec == Init /\ [][Next]_vars

(* Threads are scheduled, and the semaphore of echo_cnt wakes a waiter; a  *)
(* client that has connected goes on, but nobody needs to connect.         *)
FairSpec == /\ Spec
            /\ WF_vars(Main)
            /\ \A w \in Workers : WF_vars(Worker(w))
            /\ \A c \in Clients : WF_vars(Client(c))

--------------------------------------------------------------------------------
(* Properties *)

(* A connected descriptor has one holder at a time on its way from Accept  *)
(* (echoservert_pre.c:34) through the buffer to Close (line 45), and what  *)
(* is held is open: no worker serves a descriptor that was closed, and     *)
(* perhaps given to another connection, under its hands.  So at most       *)
(* SBUFSIZE + NTHREADS + 1 connections are open, and Accept always finds a *)
(* descriptor.                                                             *)
Holds(t) == IF call[t] \in {"inserting", "removed"} THEN {cell[t]} ELSE {}
Serves(w) == IF pc[w] = "remove" THEN {} ELSE {connfd[w]}
Holders(fd) == Cardinality({t \in {main} \cup Workers : fd \in Holds(t)})
               + Cardinality({w \in Workers : fd \in Serves(w)})
               + Cardinality({k \in 1 .. Len(queue) : queue[k] = fd})

OneHolder == ~exited => \A fd \in Fds : Holders(fd) = IF open[fd] = None THEN 0 ELSE 1

(* Each client reads back its own lines, complete and in order, whatever   *)
(* the other connections do (echo_cnt.c:26-33).                            *)
OwnEchoes == \A c \in Clients : \A k \in 1 .. Len(got[c]) : got[c][k] = <<c, k>>

(* byte_cnt is the total number of bytes received (echo_cnt.c:2), except   *)
(* for the lines a worker has read and not yet added.  And init_echo_cnt   *)
(* runs before the first P and never again (echo_cnt.c:24): the count is   *)
(* never reset, and the lock never created again under a holder.           *)
LinesRead(c) == sent[c] - Len(toServer[c])
BytesRead == MapThenSumSet(LAMBDA c : (LinesRead(c) * (LinesRead(c) + 1)) \div 2, Clients)
BytesPending == MapThenSumSet(LAMBDA w : IF pc[w] \in {"P", "load", "store"}
                                         THEN Length(buf[w]) ELSE 0, Workers)

Updating == {w \in Workers : pc[w] \in {"load", "store", "V"}}

BytesCounted == /\ byte_cnt + BytesPending = BytesRead
                /\ once = "done" => mutex + Cardinality(Updating) = 1

(* A client that connects and goes on until its input ends gets all its    *)
(* echoes, and its connection is closed, also when there are more clients  *)
(* than workers and slots; only the death of a client, which may make the  *)
(* server exit, prevents it.                                               *)
Finished(c) == /\ client[c] = "closed" /\ Len(got[c]) = sent[c]
               /\ \A fd \in Fds : open[fd] /= c
               /\ \A k \in 1 .. Len(backlog) : backlog[k] /= c
SomeoneDied == \E c \in Clients : client[c] = "dead"

EveryClientServed ==
    <>[](\A c \in Clients : client[c] = "off" \/ Finished(c) \/ SomeoneDied)

================================================================================
