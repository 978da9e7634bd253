------------------------------- MODULE EchoSelect -------------------------------
(***************************************************************************)
(* The echo server of conc/echoservers.c: one process that waits with      *)
(* select for the listening descriptor and its clients, and echoes one     *)
(* line of each ready client, read with the buffered Rio functions of      *)
(* src/csapp.c.                                                            *)
(*                                                                         *)
(* A line is two pieces of text, the second ends in a newline; the network *)
(* may deliver them apart.  A client of Pipelined sends its lines without  *)
(* waiting for echoes; the others behave as netp/echoclient.c.             *)
(***************************************************************************)
EXTENDS Integers, Sequences, FiniteSets, FiniteSetsExt, SequencesExt

CONSTANTS Clients, Pipelined,
          Aborters,     \* the clients that may die
          Input,        \* Input[c]: the lines that client c has to send
          FD_SETSIZE,   \* the slots of the pool, and a bound of the descriptors
          None

ASSUME SelectAssumption == /\ Pipelined \subseteq Clients /\ Aborters \subseteq Clients
                           /\ Input \in [Clients -> Nat]
                           /\ FD_SETSIZE \in Nat /\ FD_SETSIZE > 1
                           /\ None \notin Clients

VARIABLES maxfd, read_set, ready_set, nready, maxi, clientfd, clientrio,   \* the pool
          pc, i, rio, buf,         \* where the server is; check_clients' locals
          exited,                  \* an error wrapper has called exit
          open,                    \* open[fd]: the client fd is connected to
          backlog,                 \* the connections not accepted yet
          client, sent, got,       \* client[c]; the lines it has sent; the text read
          wire, sock, echoes       \* text under way, arrived, and on its way back

pool == <<maxfd, read_set, ready_set, nready, maxi, clientfd, clientrio>>
locals == <<i, rio, buf>>
server == <<pc, locals, exited>>
network == <<client, sent, got, wire, sock, echoes>>
vars == <<pool, server, open, backlog, network>>

listenfd == 0
Fds == 1 .. FD_SETSIZE - 1
Slots == 0 .. FD_SETSIZE - 1

Text(c, k) == << <<c, k, "text">>, <<c, k, "newline">> >>
EndsLine(piece) == piece[3] = "newline"

Init == /\ maxi = -1                                             \* init_pool
        /\ clientfd = [k \in Slots |-> -1]
        /\ clientrio = [k \in Slots |-> << >>]
        /\ maxfd = listenfd /\ read_set = {listenfd}
        /\ ready_set = {} /\ nready = 0
        /\ pc = "select" /\ i = 0 /\ rio = << >> /\ buf = << >>
        /\ exited = FALSE
        /\ open = [fd \in Fds |-> None]
        /\ backlog = << >>
        /\ client = [c \in Clients |-> "off"]
        /\ sent = [c \in Clients |-> 0]
        /\ got = [c \in Clients |-> << >>]
        /\ wire = [c \in Clients |-> << >>]
        /\ sock = [c \in Clients |-> << >>]
        /\ echoes = [c \in Clients |-> << >>]

--------------------------------------------------------------------------------
(* main *)

AtEOF(c) == client[c] \in {"closed", "dead"} /\ wire[c] = << >> /\ sock[c] = << >>

Readable(fd) == IF fd = listenfd THEN backlog /= << >>
                ELSE sock[open[fd]] /= << >> \/ AtEOF(open[fd])

Proceeds(from, to) == ~exited /\ pc = from /\ pc' = to
Goes(from, to) == Proceeds(from, to) /\ UNCHANGED exited

Select == /\ Goes("select", "accept")
          /\ ready_set' = {fd \in read_set : fd <= maxfd /\ Readable(fd)}
          /\ ready_set' /= {}
          /\ nready' = Cardinality(ready_set')
          /\ UNCHANGED <<maxfd, read_set, maxi, clientfd, clientrio, i, rio, buf, open,
                         backlog, network>>

FreeFds == {fd \in Fds : open[fd] = None}
FreeSlots == {k \in Slots : clientfd[k] < 0}

(* Mutant: the high-water mark stays where it was. *)
AddClientLow(connfd) ==
    /\ nready' = nready - 1
    /\ clientfd' = [clientfd EXCEPT ![Min(FreeSlots)] = connfd]
    /\ clientrio' = [clientrio EXCEPT ![Min(FreeSlots)] = << >>]
    /\ read_set' = read_set \cup {connfd}
    /\ maxfd' = IF connfd > maxfd THEN connfd ELSE maxfd
    /\ maxi' = IF Min(FreeSlots) - 1 > maxi THEN Min(FreeSlots) - 1 ELSE maxi

add_client(connfd) ==
    /\ nready' = nready - 1
    /\ clientfd' = [clientfd EXCEPT ![Min(FreeSlots)] = connfd]
    /\ clientrio' = [clientrio EXCEPT ![Min(FreeSlots)] = << >>]    \* Rio_readinitb
    /\ read_set' = read_set \cup {connfd}
    /\ maxfd' = IF connfd > maxfd THEN connfd ELSE maxfd
    /\ maxi' = IF Min(FreeSlots) > maxi THEN Min(FreeSlots) ELSE maxi

(* Accept gives the lowest free descriptor.  There is a slot for it, since *)
(* the descriptors are fewer than the slots: add_client's error exit for a *)
(* full pool is out of reach.                                              *)
AcceptClient == /\ Goes("accept", "check") /\ i' = 0
                /\ listenfd \in ready_set /\ FreeFds /= {}
                /\ open' = [open EXCEPT ![Min(FreeFds)] = Head(backlog)]
                /\ backlog' = Tail(backlog)
                /\ add_client(Min(FreeFds))
                /\ UNCHANGED <<ready_set, rio, buf, network>>

(* Accept exits when the process has no descriptor left (EMFILE).          *)
AcceptFails == /\ Proceeds("accept", "accept") /\ exited' = TRUE
               /\ listenfd \in ready_set /\ FreeFds = {}
               /\ UNCHANGED <<pool, locals, open, backlog, network>>

AcceptNobody == /\ Goes("accept", "check") /\ i' = 0
                /\ listenfd \notin ready_set
                /\ UNCHANGED <<pool, rio, buf, open, backlog, network>>

--------------------------------------------------------------------------------
(* check_clients *)

Looping == i <= maxi /\ nready > 0
Ready(k) == clientfd[k] > 0 /\ clientfd[k] \in ready_set

(* Mutant: a descriptor that is ready is not counted off. *)
CheckReadyUncounted == /\ Goes("check", "read")
                       /\ Looping /\ Ready(i)
                       /\ rio' = clientrio[i] /\ buf' = << >>
                       /\ UNCHANGED <<pool, i, open, backlog, network>>

CheckReady == /\ Goes("check", "read")
              /\ Looping /\ Ready(i)
              /\ nready' = nready - 1
              /\ rio' = clientrio[i] /\ buf' = << >>
              /\ UNCHANGED <<maxfd, read_set, ready_set, maxi, clientfd, clientrio, i, open,
                             backlog, network>>

CheckOther == /\ Goes("check", "check")
              /\ Looping /\ ~Ready(i)
              /\ i' = i + 1
              /\ UNCHANGED <<pool, rio, buf, open, backlog, network>>

CheckEnds == /\ Goes("check", "select")
             /\ ~Looping
             /\ UNCHANGED <<pool, i, rio, buf, open, backlog, network>>

Peer == open[clientfd[i]]

(* Mutant: the line read so far is forgotten. *)
RefillRestarts ==
    /\ Goes("read", "read")
    /\ rio = << >> /\ sock[Peer] /= << >>
    /\ rio' = sock[Peer]
    /\ sock' = [sock EXCEPT ![Peer] = << >>]
    /\ buf' = << >>
    /\ UNCHANGED <<pool, i, open, backlog, client, sent, got, wire, echoes>>

(* rio_read with an empty buffer: read blocks until there is text or EOF. *)
Refill == /\ Goes("read", "read")
          /\ rio = << >> /\ sock[Peer] /= << >>
          /\ rio' = sock[Peer]
          /\ sock' = [sock EXCEPT ![Peer] = << >>]
          /\ UNCHANGED <<pool, i, buf, open, backlog, client, sent, got, wire, echoes>>

(* The loop of rio_readlineb: pieces up to a newline go to buf.            *)
TakePiece == /\ rio /= << >>
             /\ buf' = Append(buf, Head(rio)) /\ rio' = Tail(rio)
             /\ IF EndsLine(Head(rio)) THEN Goes("read", "echo") ELSE Goes("read", "read")
             /\ UNCHANGED <<pool, i, open, backlog, network>>

(* What rio still holds is lost: the Rio buffer of the pool is a copy.     *)
Echo == /\ Goes("echo", "check") /\ i' = i + 1
        /\ echoes' = [echoes EXCEPT ![Peer] = @ \o buf]
        /\ UNCHANGED <<pool, rio, buf, open, backlog, client, sent, got, wire, sock>>

(* Mutant: the descriptor stays in read_set. *)
RemoveClientInSet == /\ Goes("read", "check") /\ i' = i + 1
                     /\ rio = << >> /\ AtEOF(Peer)
                     /\ open' = [open EXCEPT ![clientfd[i]] = None]
                     /\ clientfd' = [clientfd EXCEPT ![i] = -1]
                     /\ UNCHANGED <<maxfd, read_set, ready_set, nready, maxi, clientrio, rio,
                                    buf, backlog, network>>

(* A client of the runs closes after whole lines: at EOF buf is empty.     *)
RemoveClient == /\ Goes("read", "check") /\ i' = i + 1
                /\ rio = << >> /\ AtEOF(Peer)
                /\ open' = [open EXCEPT ![clientfd[i]] = None]
                /\ read_set' = read_set \ {clientfd[i]}
                /\ clientfd' = [clientfd EXCEPT ![i] = -1]
                /\ UNCHANGED <<maxfd, ready_set, nready, maxi, clientrio, rio, buf, backlog,
                               network>>

(* The connection of a client that has died may be reset: the Rio wrappers *)
(* exit.  The read and the write may as well succeed.                      *)
Fails == /\ Proceeds(pc, pc) /\ exited' = TRUE
         /\ pc = "echo" \/ (pc = "read" /\ rio = << >>)
         /\ client[Peer] = "dead"
         /\ UNCHANGED <<pool, locals, open, backlog, network>>

Server == \/ Select \/ AcceptClient \/ AcceptFails \/ AcceptNobody
          \/ CheckReady \/ CheckOther \/ CheckEnds
          \/ Refill \/ TakePiece \/ Echo \/ RemoveClient \/ Fails

--------------------------------------------------------------------------------
(* The clients and the network *)

ClientGoes(c, from, to) == client[c] = from /\ client' = [client EXCEPT ![c] = to]

Connect(c) == /\ ~exited /\ ClientGoes(c, "off", "input")
              /\ backlog' = Append(backlog, c)
              /\ UNCHANGED <<pool, server, open, sent, got, wire, sock, echoes>>

SendLine(c) == /\ ClientGoes(c, "input", IF c \in Pipelined THEN "input" ELSE "reply")
               /\ sent[c] < Input[c]
               /\ sent' = [sent EXCEPT ![c] = @ + 1]
               /\ wire' = [wire EXCEPT ![c] = @ \o Text(c, sent[c] + 1)]
               /\ UNCHANGED <<pool, server, open, backlog, got, sock, echoes>>

(* The client reads the echo of a line (Rio_readlineb).                    *)
ReadEcho(c) == /\ c \notin Pipelined /\ ClientGoes(c, "reply", "input")
               /\ echoes[c] /= << >>
               /\ got' = [got EXCEPT ![c] = @ \o echoes[c]]
               /\ echoes' = [echoes EXCEPT ![c] = << >>]
               /\ UNCHANGED <<pool, server, open, backlog, sent, wire, sock>>

CloseClient(c) == /\ ClientGoes(c, "input", "closed") /\ sent[c] = Input[c]
                  /\ UNCHANGED <<pool, server, open, backlog, sent, got, wire, sock, echoes>>

(* A client is killed while it waits for an echo.                          *)
Die(c) == /\ c \in Aborters /\ ClientGoes(c, "reply", "dead")
          /\ UNCHANGED <<pool, server, open, backlog, sent, got, wire, sock, echoes>>

Deliver(c) == /\ wire[c] /= << >>
              /\ sock' = [sock EXCEPT ![c] = Append(@, Head(wire[c]))]
              /\ wire' = [wire EXCEPT ![c] = Tail(@)]
              /\ UNCHANGED <<pool, server, open, backlog, client, sent, got, echoes>>

ClientRuns(c) == SendLine(c) \/ ReadEcho(c) \/ CloseClient(c)

Next == Server \/ \E c \in Clients : Connect(c) \/ ClientRuns(c) \/ Deliver(c) \/ Die(c)

Spec == Init /\ [][Next]_vars

(* The server runs when it can, the network delivers, and a client that    *)
(* has connected goes on.                                                  *)
FairSpec == /\ Spec /\ WF_vars(Server)
            /\ \A c \in Clients : WF_vars(ClientRuns(c)) /\ WF_vars(Deliver(c))

--------------------------------------------------------------------------------
(* Properties *)

(* Between two passes of the main loop the parts of the pool agree (the    *)
(* comments of echoservers.c:8-14): read_set is the listening descriptor   *)
(* and the connected ones, each has one slot, and the high-water marks     *)
(* cover them, so that select and check_clients see every client.          *)
Active == {clientfd[k] : k \in {s \in Slots : clientfd[s] > 0}}

PoolConsistent ==
    pc = "select" => /\ read_set = {listenfd} \cup Active
                     /\ Active = {fd \in Fds : open[fd] /= None}
                     /\ Cardinality({s \in Slots : clientfd[s] > 0}) = Cardinality(Active)
                     /\ \A fd \in read_set : fd <= maxfd
                     /\ \A k \in Slots : clientfd[k] > 0 => k <= maxi

(* check_clients may stop early when nready is 0 (echoservers.c:105): then *)
(* no ready client is left; nready is the number still to be served.       *)
NoReadySkipped ==
    /\ pc = "check" => nready = Cardinality({k \in Slots : k >= i /\ Ready(k)})
    /\ pc = "check" /\ ~Looping => \A k \in Slots : k >= i => ~Ready(k)

(* "Echo a text line from each ready connected descriptor"                 *)
(* (echoservers.c:50): what a client is sent is what it wrote, in order    *)
(* and without gaps.                                                       *)
Written(c) == FlattenSeq([k \in 1 .. sent[c] |-> Text(c, k)])
EchoesInOrder == \A c \in Clients : IsPrefix(got[c] \o echoes[c], Written(c))

(* Each client gets all its echoes and is removed from the pool, whatever  *)
(* the other clients do.  One that dies is removed too, or its reset makes *)
(* the server exit; so does one client more than there are descriptors,    *)
(* and nothing else.                                                       *)
Served(c) == /\ Len(got[c] \o echoes[c]) = 2 * sent[c]
             /\ \A fd \in Fds : open[fd] /= c
             /\ client[c] \in {"closed", "dead"}
Excused == exited /\ (FreeFds = {} \/ \E c \in Clients : client[c] = "dead")
EveryClientServed == <>[](Excused \/ \A c \in Clients : client[c] = "off" \/ Served(c))

================================================================================
