------------------------ MODULE PrethreadedServerProofs ------------------------
(***************************************************************************)
(* Every connected descriptor of the prethreaded server has one holder,    *)
(* each client reads its own echoes, and every byte is counted once, for   *)
(* any number of clients, workers, slots and descriptors.                  *)
(***************************************************************************)
EXTENDS PrethreadedServer, NumberLemmas, FiniteSetTheorems, SequenceTheorems, TLAPS

Threads == {main} \cup Workers
Labels == {"remove", "once", "sem_init", "zero", "read", "P", "load", "store", "V",
           "write", "close"}

(* main only inserts and the workers only remove, each in its place. *)
Types == /\ queue \in Seq(Fds)
         /\ call \in [Threads -> Buffer!CallStates]
         /\ cell \in [Threads -> Fds \cup {None}]
         /\ backlog \in Seq(Clients)
         /\ open \in [Fds -> Clients \cup {None}]
         /\ pc \in [Workers -> Labels]
         /\ connfd \in [Workers -> Fds \cup {None}]
         /\ exited \in BOOLEAN
         /\ call[main] \in {"idle", "inserting", "inserted"}
         /\ \A w \in Workers : /\ call[w] \in {"idle", "removing", "removed"}
                               /\ call[w] /= "idle" => pc[w] = "remove"
                               /\ pc[w] /= "remove" => connfd[w] \in Fds
         /\ \A t \in Threads : call[t] \in {"inserting", "removed"} => cell[t] \in Fds

(* The places where a descriptor can be. *)
Calls(t, fd) == call[t] \in {"inserting", "removed"} /\ cell[t] = fd
Serving(w, fd) == pc[w] /= "remove" /\ connfd[w] = fd
Queued(k, fd) == k \in 1 .. Len(queue) /\ queue[k] = fd

InOnePlace(fd) ==
    /\ \A t, u \in Threads : Calls(t, fd) /\ Calls(u, fd) => t = u
    /\ \A v, w \in Workers : Serving(v, fd) /\ Serving(w, fd) => v = w
    /\ \A j, k \in Nat : Queued(j, fd) /\ Queued(k, fd) => j = k
    /\ \A t \in Threads, w \in Workers : ~(Calls(t, fd) /\ Serving(w, fd))
    /\ \A t \in Threads, k \in Nat : ~(Calls(t, fd) /\ Queued(k, fd))
    /\ \A w \in Workers, k \in Nat : ~(Serving(w, fd) /\ Queued(k, fd))

Held(fd) == \/ \E t \in Threads : Calls(t, fd)
            \/ \E w \in Workers : Serving(w, fd)
            \/ \E k \in Nat : Queued(k, fd)

Owned == ~exited => \A fd \in Fds : InOnePlace(fd) /\ (open[fd] /= None <=> Held(fd))

IInv == Types /\ Owned

--------------------------------------------------------------------------------
(* The invariant counts as OneHolder does *)

(* A set that has no two elements and is not empty has one. *)
LEMMA AtMostOne ==
  ASSUME NEW S, \A x, y \in S : x = y
  PROVE  Cardinality(S) = IF S = {} THEN 0 ELSE 1
<1>1. CASE S = {}
  BY <1>1, FS_EmptySet
<1>2. CASE S /= {}
  <2>1. PICK x \in S : TRUE
    BY <1>2
  <2>2. S = {x}
    BY <2>1
  <2> QED BY <1>2, <2>2, FS_Singleton
<1> QED BY <1>1, <1>2

(* The three sets that Holders counts have one element together, or none. *)
LEMMA OwnedGivesOneHolder ==
  ASSUME IInv
  PROVE  OneHolder
<1> SUFFICES ASSUME ~exited, NEW fd \in Fds
             PROVE  Holders(fd) = IF open[fd] = None THEN 0 ELSE 1
  BY DEF OneHolder
<1> DEFINE C == {t \in {main} \cup Workers : fd \in Holds(t)}
           S == {w \in Workers : fd \in Serves(w)}
           Q == {k \in 1 .. Len(queue) : queue[k] = fd}
<1>1. InOnePlace(fd) /\ (open[fd] /= None <=> Held(fd))
  BY DEF IInv, Owned
<1>2. \A t : t \in C <=> t \in Threads /\ Calls(t, fd)
  BY DEF Holds, Calls, Threads
<1>3. \A w : w \in S <=> w \in Workers /\ Serving(w, fd)
  BY DEF Serves, Serving
<1>4. Len(queue) \in Nat
  BY LenProperties DEF IInv, Types
<1>5. \A k : k \in Q <=> k \in Nat /\ Queued(k, fd)
  BY <1>4 DEF Queued
<1> HIDE DEF C, S, Q
<1>6. /\ \A x, y \in C : x = y
      /\ \A x, y \in S : x = y
      /\ \A x, y \in Q : x = y
  BY <1>1, <1>2, <1>3, <1>5 DEF InOnePlace
<1>7. /\ Cardinality(C) = IF C = {} THEN 0 ELSE 1
      /\ Cardinality(S) = IF S = {} THEN 0 ELSE 1
      /\ Cardinality(Q) = IF Q = {} THEN 0 ELSE 1
  BY <1>6, AtMostOne
<1>8. (C = {} \/ S = {}) /\ (C = {} \/ Q = {}) /\ (S = {} \/ Q = {})
  BY <1>1, <1>2, <1>3, <1>5 DEF InOnePlace
<1>9. open[fd] /= None <=> C /= {} \/ S /= {} \/ Q /= {}
  BY <1>1, <1>2, <1>3, <1>5 DEF Held
<1>10. Holders(fd) = Cardinality(C) + Cardinality(S) + Cardinality(Q)
  BY DEF Holders, C, S, Q
<1> QED BY <1>7, <1>8, <1>9, <1>10

--------------------------------------------------------------------------------
(* Typing *)

(* It holds when the server starts. *)
LEMMA InitTypes == Init => Types
<1> SUFFICES ASSUME Init PROVE Types
  OBVIOUS
<1>1. queue = << >> /\ backlog = << >> /\ queue \in Seq(Fds) /\ backlog \in Seq(Clients)
  BY EmptySeq DEF Init, Buffer!Init
<1>2. /\ call = [t \in Threads |-> "idle"] /\ cell = [t \in Threads |-> None]
      /\ open = [fd \in Fds |-> None] /\ pc = [w \in Workers |-> "remove"]
      /\ connfd = [w \in Workers |-> None] /\ exited = FALSE
  BY DEF Init, Buffer!Init, Threads
<1>3. main \in Threads /\ Workers \subseteq Threads
  BY DEF Threads
<1> QED BY <1>1, <1>2, <1>3 DEF Types, Buffer!CallStates, Labels

(* A worker that only goes on to another label keeps the types. *)
LEMMA GoesKeepsTypes ==
  ASSUME Types, NEW w \in Workers, NEW from \in Labels, NEW to \in Labels \ {"remove"},
         from /= "remove", pc[w] = from, pc' = [pc EXCEPT ![w] = to],
         UNCHANGED <<buffer, backlog, open, connfd>>, exited' \in BOOLEAN
  PROVE  Types'
<1>1. pc' \in [Workers -> Labels] /\ \A v \in Workers : pc'[v] = "remove" <=> pc[v] = "remove"
  BY DEF Types
<1> QED BY <1>1 DEF Types, buffer, Fds

(* main accepts a connection, or its call of sbuf_insert proceeds. *)
LEMMA MainKeepsTypes ==
  ASSUME Types, Main
  PROVE  Types'
<1>1. main \in Threads /\ Workers \subseteq Threads /\ main \notin Workers
  BY ServerAssumption DEF Threads
<1>2. CASE Accept
  <2>1. CASE FreeFds = {}
    BY <1>2, <2>1 DEF Accept, Types, buffer, locals, Fds
  <2>2. CASE FreeFds /= {}
    <3>1. FreeFds \in SUBSET Nat /\ FreeFds \subseteq Fds
      BY ServerAssumption DEF FreeFds, Fds
    <3>2. PICK fd \in Fds : fd = Min(FreeFds)
      BY <2>2, <3>1, LeastElement
    <3>3. /\ call[main] = "idle" /\ call' = [call EXCEPT ![main] = "inserting"]
          /\ cell' = [cell EXCEPT ![main] = fd] /\ queue' = queue
          /\ open' = [open EXCEPT ![fd] = Head(backlog)] /\ backlog' = Tail(backlog)
          /\ backlog /= << >> /\ pc' = pc /\ connfd' = connfd /\ exited' = exited
      BY <1>2, <2>2, <3>2 DEF Accept, Buffer!InvokeInsert, Buffer!Moves, locals
    <3>4. Head(backlog) \in Clients /\ Tail(backlog) \in Seq(Clients)
      BY <3>3, HeadTailProperties DEF Types
    <3> QED BY <1>1, <3>3, <3>4 DEF Types, Buffer!CallStates, Fds
  <2> QED BY <2>1, <2>2
<1>3. CASE SbufInsert
  <2>1. /\ call[main] = "inserting" /\ call' = [call EXCEPT ![main] = "inserted"]
        /\ queue' = Append(queue, cell[main]) /\ cell' = cell
        /\ open' = open /\ backlog' = backlog
        /\ pc' = pc /\ connfd' = connfd /\ exited' = exited
    BY <1>3 DEF SbufInsert, Buffer!Insert, Buffer!Moves, locals
  <2>2. queue' \in Seq(Fds)
    BY <1>1, <2>1, AppendProperties DEF Types
  <2> QED BY <1>1, <2>1, <2>2 DEF Types, Buffer!CallStates, Fds
<1>4. CASE InsertReturns
  <2>1. /\ call' = [call EXCEPT ![main] = "idle"]
        /\ queue' = queue /\ cell' = [cell EXCEPT ![main] = None]
        /\ open' = open /\ backlog' = backlog
        /\ pc' = pc /\ connfd' = connfd /\ exited' = exited
    BY <1>4 DEF InsertReturns, Buffer!Return, Buffer!Moves, locals
  <2> QED BY <1>1, <2>1 DEF Types, Buffer!CallStates, Fds
<1> QED BY <1>2, <1>3, <1>4 DEF Main

(* A worker takes a descriptor from the buffer, or goes on in echo_cnt. *)
LEMMA WorkerKeepsTypes ==
  ASSUME Types, NEW w \in Workers, Worker(w)
  PROVE  Types'
<1>1. w \in Threads /\ main \in Threads /\ w /= main
  BY ServerAssumption DEF Threads
<1>2. CASE CallRemove(w)
  <2>1. /\ pc[w] = "remove" /\ call' = [call EXCEPT ![w] = "removing"]
        /\ queue' = queue /\ cell' = cell /\ open' = open /\ backlog' = backlog
        /\ pc' = pc /\ connfd' = connfd /\ exited' = exited
    BY <1>2 DEF CallRemove, Buffer!InvokeRemove, Buffer!Moves, locals
  <2> QED BY <1>1, <2>1 DEF Types, Buffer!CallStates, Fds
<1>3. CASE SbufRemove(w)
  <2>1. /\ call[w] = "removing" /\ call' = [call EXCEPT ![w] = "removed"]
        /\ queue /= << >> /\ queue' = Tail(queue) /\ cell' = [cell EXCEPT ![w] = Head(queue)]
        /\ open' = open /\ backlog' = backlog
        /\ pc' = pc /\ connfd' = connfd /\ exited' = exited
    BY <1>3 DEF SbufRemove, Buffer!Remove, Buffer!Moves, locals
  <2>2. Head(queue) \in Fds /\ Tail(queue) \in Seq(Fds)
    BY <2>1, HeadTailProperties DEF Types
  <2>3. pc[w] = "remove"
    BY <2>1 DEF Types
  <2> QED BY <1>1, <2>1, <2>2, <2>3 DEF Types, Buffer!CallStates, Fds
<1>4. CASE RemoveReturns(w)
  <2>1. /\ call[w] = "removed" /\ call' = [call EXCEPT ![w] = "idle"]
        /\ queue' = queue /\ cell' = [cell EXCEPT ![w] = None]
        /\ open' = open /\ backlog' = backlog /\ pc' = [pc EXCEPT ![w] = "once"]
        /\ connfd' = [connfd EXCEPT ![w] = cell[w]] /\ exited' = exited
    BY <1>4 DEF RemoveReturns, Goes, Buffer!Return, Buffer!Moves
  <2>2. cell[w] \in Fds
    BY <1>1, <2>1 DEF Types
  <2> QED BY <1>1, <2>1, <2>2 DEF Types, Buffer!CallStates, Labels, Fds
<1>5. CASE Close(w)
  <2>1. /\ pc[w] = "close" /\ pc' = [pc EXCEPT ![w] = "remove"]
        /\ open' = [open EXCEPT ![connfd[w]] = None]
        /\ queue' = queue /\ call' = call /\ cell' = cell /\ backlog' = backlog
        /\ connfd' = connfd /\ exited' \in BOOLEAN
    BY <1>5 DEF Close, Goes, buffer
  <2> QED BY <1>1, <2>1 DEF Types, Labels, Fds
<1>6. CASE Once(w) \/ SemInit(w) \/ ZeroCount(w) \/ ReadLine(w) \/ ReadEOF(w)
           \/ PMutex(w) \/ LoadCount(w) \/ StoreCount(w) \/ VMutex(w) \/ Write(w) \/ Fails(w)
  <2>1. PICK from \in Labels \ {"remove"}, to \in Labels \ {"remove"} : Goes(w, from, to)
    <3>1. CASE Fails(w)
      BY <3>1 DEF Fails, Labels
    <3> QED BY <1>6, <3>1 DEF Once, SemInit, ZeroCount, ReadLine, ReadEOF, PMutex, LoadCount,
                              StoreCount, VMutex, Write, Labels
  <2>2. UNCHANGED <<buffer, backlog, open, connfd>> /\ exited' \in BOOLEAN
    BY <1>6 DEF Once, SemInit, ZeroCount, ReadLine, ReadEOF, PMutex, LoadCount,
                StoreCount, VMutex, Write, Fails, Types
  <2> QED BY <2>1, <2>2, GoesKeepsTypes DEF Goes
<1> QED BY <1>2, <1>3, <1>4, <1>5, <1>6 DEF Worker

(* A client connects, or does what the server only sees on the network. *)
LEMMA ClientKeepsTypes ==
  ASSUME Types, NEW c \in Clients, Connect(c) \/ Client(c) \/ Die(c)
  PROVE  Types'
<1>1. UNCHANGED <<buffer, open, locals, exited>>
  BY DEF Connect, Client, SendLine, ReadEcho, CloseClient, Die
<1>2. backlog' \in Seq(Clients)
  <2>1. backlog \in Seq(Clients) /\ Append(backlog, c) \in Seq(Clients)
    BY AppendProperties DEF Types
  <2>2. backlog' = backlog \/ backlog' = Append(backlog, c)
    BY DEF Connect, Client, SendLine, ReadEcho, CloseClient, Die
  <2> QED BY <2>1, <2>2
<1> QED BY <1>1, <1>2 DEF Types, buffer, locals, Fds

--------------------------------------------------------------------------------
(* One place for every descriptor *)

(* No descriptor is open when the server starts, and none is held. *)
LEMMA InitOwned == Init => Owned
<1> SUFFICES ASSUME Init, NEW fd \in Fds
             PROVE  InOnePlace(fd) /\ (open[fd] /= None <=> Held(fd))
  BY DEF Owned
<1>1. /\ call = [t \in Threads |-> "idle"] /\ pc = [w \in Workers |-> "remove"]
      /\ queue = << >> /\ open[fd] = None
  BY DEF Init, Buffer!Init, Threads
<1>2. \A t \in Threads : ~Calls(t, fd)
  BY <1>1 DEF Calls
<1>3. \A w \in Workers : ~Serving(w, fd)
  BY <1>1 DEF Serving
<1>4. \A k \in Nat : ~Queued(k, fd)
  BY <1>1, EmptySeq DEF Queued
<1> QED BY <1>1, <1>2, <1>3, <1>4 DEF InOnePlace, Held

(* A step that moves no descriptor. *)
LEMMA UnmovedKeepsOwned ==
  ASSUME Owned, ~exited' => ~exited,
         queue' = queue, open' = open, connfd' = connfd,
         \A t \in Threads :
            /\ call'[t] \in {"inserting", "removed"} <=> call[t] \in {"inserting", "removed"}
            /\ call[t] \in {"inserting", "removed"} => cell'[t] = cell[t],
         \A w \in Workers : pc'[w] = "remove" <=> pc[w] = "remove"
  PROVE  Owned'
<1> SUFFICES ASSUME ~exited', NEW fd \in Fds
             PROVE  InOnePlace(fd)' /\ (open'[fd] /= None <=> Held(fd)')
  BY DEF Owned, Fds
<1>1. InOnePlace(fd) /\ (open[fd] /= None <=> Held(fd))
  BY DEF Owned
<1>2. \A t \in Threads : Calls(t, fd)' <=> Calls(t, fd)
  BY DEF Calls
<1>3. \A w \in Workers : Serving(w, fd)' <=> Serving(w, fd)
  BY DEF Serving
<1>4. \A k \in Nat : Queued(k, fd)' <=> Queued(k, fd)
  BY DEF Queued
<1> QED BY <1>1, <1>2, <1>3, <1>4 DEF InOnePlace, Held

(* accept returns a descriptor that is not open, and so has no holder. *)
LEMMA AcceptKeepsOwned ==
  ASSUME Types, Owned, Accept
  PROVE  Owned'
<1> SUFFICES ASSUME ~exited', NEW fd \in Fds
             PROVE  InOnePlace(fd)' /\ (open'[fd] /= None <=> Held(fd)')
  BY DEF Owned, Fds
<1>1. FreeFds /= {} /\ ~exited
  BY DEF Accept
<1>2. PICK new \in Fds : new = Min(FreeFds) /\ open[new] = None
  <2>1. FreeFds \in SUBSET Nat /\ \A f \in FreeFds : f \in Fds /\ open[f] = None
    BY ServerAssumption DEF FreeFds, Fds
  <2> QED BY <1>1, <2>1, LeastElement
<1>3. /\ call[main] = "idle" /\ call' = [call EXCEPT ![main] = "inserting"]
      /\ cell' = [cell EXCEPT ![main] = new] /\ queue' = queue
      /\ open' = [open EXCEPT ![new] = Head(backlog)]
      /\ backlog /= << >> /\ pc' = pc /\ connfd' = connfd
  BY <1>1, <1>2 DEF Accept, Buffer!InvokeInsert, Buffer!Moves, locals
<1>4. Head(backlog) /= None
  BY <1>3, ServerAssumption, HeadTailProperties DEF Types
<1>5. InOnePlace(fd) /\ (open[fd] /= None <=> Held(fd)) /\ ~Held(new)
  BY <1>1, <1>2 DEF Owned
<1>6. \A t \in Threads : Calls(t, fd)' <=> IF t = main THEN fd = new ELSE Calls(t, fd)
  BY <1>3 DEF Calls, Types
<1>7. ~Calls(main, fd) /\ main \in Threads
  BY <1>3 DEF Calls, Threads
<1>8. \A w \in Workers : Serving(w, fd)' <=> Serving(w, fd)
  BY <1>3 DEF Serving
<1>9. \A k \in Nat : Queued(k, fd)' <=> Queued(k, fd)
  BY <1>3 DEF Queued
<1>10. open'[fd] = IF fd = new THEN Head(backlog) ELSE open[fd]
  BY <1>3 DEF Types
<1>11. CASE fd = new
  BY <1>4, <1>5, <1>6, <1>7, <1>8, <1>9, <1>10, <1>11 DEF InOnePlace, Held
<1>12. CASE fd /= new
  BY <1>5, <1>6, <1>7, <1>8, <1>9, <1>10, <1>12 DEF InOnePlace, Held
<1> QED BY <1>11, <1>12

(* sbuf_insert moves the descriptor from main to the end of the buffer. *)
LEMMA InsertKeepsOwned ==
  ASSUME Types, Owned, SbufInsert
  PROVE  Owned'
<1> SUFFICES ASSUME ~exited', NEW fd \in Fds
             PROVE  InOnePlace(fd)' /\ (open'[fd] /= None <=> Held(fd)')
  BY DEF Owned, Fds
<1> DEFINE item == cell[main]
           n == Len(queue)
<1>1. /\ ~exited /\ call[main] = "inserting" /\ call' = [call EXCEPT ![main] = "inserted"]
      /\ queue' = Append(queue, item) /\ cell' = cell
      /\ open' = open /\ pc' = pc /\ connfd' = connfd
  BY DEF SbufInsert, Buffer!Insert, Buffer!Moves, locals
<1>2. main \in Threads /\ item \in Fds /\ n \in Nat /\ queue \in Seq(Fds)
  BY <1>1, LenProperties DEF Types, Threads
<1>3. InOnePlace(fd) /\ (open[fd] /= None <=> Held(fd))
  BY <1>1 DEF Owned
<1>4. \A t \in Threads : Calls(t, fd)' <=> t /= main /\ Calls(t, fd)
  BY <1>1, <1>2 DEF Calls, Types
<1>5. Calls(main, fd) <=> fd = item
  BY <1>1 DEF Calls
<1>6. \A w \in Workers : Serving(w, fd)' <=> Serving(w, fd)
  BY <1>1 DEF Serving
<1>7. \A k \in Nat : Queued(k, fd)' <=> IF k = n + 1 THEN fd = item ELSE Queued(k, fd)
  <2>1. /\ Len(queue') = n + 1
        /\ \A k \in 1 .. n : queue'[k] = queue[k]
        /\ queue'[n + 1] = item
    BY <1>1, <1>2, AppendProperties
  <2> HIDE DEF n
  <2>2. ASSUME NEW k \in Nat PROVE k \in 1 .. n + 1 <=> k \in 1 .. n \/ k = n + 1
    BY <1>2
  <2>3. \A k \in Nat : k = n + 1 => k \notin 1 .. n
    BY <1>2
  <2> QED BY <2>1, <2>2, <2>3 DEF Queued, n
<1>8. ~Queued(n + 1, fd) /\ n + 1 \in Nat
  BY <1>2 DEF Queued
<1> HIDE DEF item, n
<1>9. CASE fd = item
  BY <1>1, <1>2, <1>3, <1>4, <1>5, <1>6, <1>7, <1>8, <1>9 DEF InOnePlace, Held
<1>10. CASE fd /= item
  BY <1>1, <1>2, <1>3, <1>4, <1>5, <1>6, <1>7, <1>8, <1>10 DEF InOnePlace, Held
<1> QED BY <1>9, <1>10

(* sbuf_remove moves the first descriptor of the buffer to the worker. *)
LEMMA RemoveKeepsOwned ==
  ASSUME Types, Owned, NEW w \in Workers, SbufRemove(w)
  PROVE  Owned'
<1> SUFFICES ASSUME ~exited', NEW fd \in Fds
             PROVE  InOnePlace(fd)' /\ (open'[fd] /= None <=> Held(fd)')
  BY DEF Owned, Fds
<1> DEFINE item == Head(queue)
<1>1. /\ ~exited /\ call[w] = "removing" /\ call' = [call EXCEPT ![w] = "removed"]
      /\ queue /= << >> /\ queue' = Tail(queue) /\ cell' = [cell EXCEPT ![w] = item]
      /\ open' = open /\ pc' = pc /\ connfd' = connfd
  BY DEF SbufRemove, Buffer!Remove, Buffer!Moves, locals
<1>2. w \in Threads /\ queue \in Seq(Fds) /\ Len(queue) \in Nat /\ Len(queue) >= 1
  BY <1>1, EmptySeq, LenProperties DEF Types, Threads
<1>3. InOnePlace(fd) /\ (open[fd] /= None <=> Held(fd))
  BY <1>1 DEF Owned
<1>4. \A t \in Threads : Calls(t, fd)' <=> IF t = w THEN fd = item ELSE Calls(t, fd)
  BY <1>1, <1>2 DEF Calls, Types
<1>5. ~Calls(w, fd)
  BY <1>1 DEF Calls
<1>6. \A v \in Workers : Serving(v, fd)' <=> Serving(v, fd)
  BY <1>1 DEF Serving
<1>7. /\ Len(queue') = Len(queue) - 1
      /\ \A k \in 1 .. Len(queue) - 1 : queue'[k] = queue[k + 1]
      /\ item = queue[1]
  BY <1>1, <1>2, HeadTailProperties
<1>8. \A k \in Nat : Queued(k, fd)' <=> k /= 0 /\ Queued(k + 1, fd)
  <2> SUFFICES ASSUME NEW k \in Nat PROVE Queued(k, fd)' <=> k /= 0 /\ Queued(k + 1, fd)
    OBVIOUS
  <2>1. k \in 1 .. Len(queue) - 1 <=> k /= 0 /\ k + 1 \in 1 .. Len(queue)
    BY <1>2
  <2> QED BY <1>7, <2>1 DEF Queued
<1>9. Queued(1, fd) <=> fd = item
  BY <1>2, <1>7 DEF Queued
<1>10. (\E k \in Nat : Queued(k, fd)) <=> fd = item \/ \E k \in Nat : Queued(k, fd)'
  <2>1. ASSUME NEW k \in Nat, Queued(k, fd), fd /= item PROVE \E j \in Nat : Queued(j, fd)'
    <3>1. k /= 0 /\ k /= 1
      BY <1>9, <2>1 DEF Queued
    <3>2. k - 1 \in Nat /\ k - 1 /= 0 /\ (k - 1) + 1 = k
      BY <3>1
    <3>3. Queued(k - 1, fd)'
      BY <1>8, <2>1, <3>2
    <3> QED BY <3>2, <3>3
  <2>2. ASSUME NEW k \in Nat, Queued(k, fd)' PROVE k + 1 \in Nat /\ Queued(k + 1, fd)
    BY <1>8, <2>2
  <2> QED BY <1>9, <2>1, <2>2
<1>11. \A j, k \in Nat : Queued(j, fd)' /\ Queued(k, fd)' => j = k
  <2> SUFFICES ASSUME NEW j \in Nat, NEW k \in Nat, Queued(j, fd)', Queued(k, fd)'
               PROVE  j = k
    OBVIOUS
  <2>1. Queued(j + 1, fd) /\ Queued(k + 1, fd) /\ j + 1 \in Nat /\ k + 1 \in Nat
    BY <1>8
  <2>2. j + 1 = k + 1
    BY <1>3, <2>1 DEF InOnePlace
  <2> QED BY <2>2
<1>12. fd = item => \A k \in Nat : ~Queued(k, fd)'
  <2> SUFFICES ASSUME fd = item, NEW k \in Nat, Queued(k, fd)' PROVE FALSE
    OBVIOUS
  <2>1. Queued(1, fd) /\ Queued(k + 1, fd) /\ k /= 0 /\ k + 1 \in Nat
    BY <1>8, <1>9
  <2>2. k + 1 = 1
    BY <1>3, <2>1 DEF InOnePlace
  <2> QED BY <2>1, <2>2
<1> HIDE DEF item
<1>13. CASE fd = item
  <2>1. /\ Queued(1, fd)
        /\ \A t \in Threads : ~Calls(t, fd)
        /\ \A v \in Workers : ~Serving(v, fd)
    BY <1>3, <1>9, <1>13 DEF InOnePlace
  <2>2. InOnePlace(fd)'
    BY <1>4, <1>6, <1>11, <1>12, <1>13, <2>1 DEF InOnePlace
  <2>3. open'[fd] /= None /\ Held(fd)'
    BY <1>1, <1>2, <1>3, <1>4, <1>13, <2>1 DEF Held
  <2> QED BY <2>2, <2>3
<1>14. CASE fd /= item
  <2>1. \A t \in Threads : Calls(t, fd)' <=> Calls(t, fd)
    BY <1>4, <1>5, <1>14
  <2>2. InOnePlace(fd)'
    <3>1. ASSUME NEW k \in Nat, Queued(k, fd)' PROVE k + 1 \in Nat /\ Queued(k + 1, fd)
      BY <1>8, <3>1
    <3> QED BY <1>3, <1>6, <1>11, <2>1, <3>1 DEF InOnePlace
  <2>3. Held(fd)' <=> Held(fd)
    BY <1>6, <1>10, <1>14, <2>1 DEF Held
  <2> QED BY <1>1, <1>3, <2>2, <2>3
<1> QED BY <1>13, <1>14

(* When sbuf_remove returns, the worker serves the connection. *)
LEMMA RemoveReturnsKeepsOwned ==
  ASSUME Types, Owned, NEW w \in Workers, RemoveReturns(w)
  PROVE  Owned'
<1> SUFFICES ASSUME ~exited', NEW fd \in Fds
             PROVE  InOnePlace(fd)' /\ (open'[fd] /= None <=> Held(fd)')
  BY DEF Owned, Fds
<1>1. /\ ~exited /\ call[w] = "removed" /\ call' = [call EXCEPT ![w] = "idle"]
      /\ queue' = queue /\ cell' = [cell EXCEPT ![w] = None]
      /\ open' = open /\ pc[w] = "remove" /\ pc' = [pc EXCEPT ![w] = "once"]
      /\ connfd' = [connfd EXCEPT ![w] = cell[w]]
  BY DEF RemoveReturns, Goes, Buffer!Return, Buffer!Moves
<1>2. w \in Threads
  BY DEF Threads
<1>3. InOnePlace(fd) /\ (open[fd] /= None <=> Held(fd))
  BY <1>1 DEF Owned
<1>4. \A t \in Threads : Calls(t, fd)' <=> t /= w /\ Calls(t, fd)
  BY <1>1, <1>2 DEF Calls, Types
<1>5. Calls(w, fd) <=> fd = cell[w]
  BY <1>1 DEF Calls
<1>6. \A v \in Workers : Serving(v, fd)' <=> IF v = w THEN fd = cell[w] ELSE Serving(v, fd)
  BY <1>1 DEF Serving, Types
<1>7. ~Serving(w, fd)
  BY <1>1 DEF Serving
<1>8. \A k \in Nat : Queued(k, fd)' <=> Queued(k, fd)
  BY <1>1 DEF Queued
<1>9. CASE fd = cell[w]
  BY <1>1, <1>2, <1>3, <1>4, <1>5, <1>6, <1>7, <1>8, <1>9 DEF InOnePlace, Held
<1>10. CASE fd /= cell[w]
  BY <1>1, <1>3, <1>4, <1>5, <1>6, <1>7, <1>8, <1>10 DEF InOnePlace, Held
<1> QED BY <1>9, <1>10

(* The worker closes the connection it has served. *)
LEMMA CloseKeepsOwned ==
  ASSUME Types, Owned, NEW w \in Workers, Close(w)
  PROVE  Owned'
<1> SUFFICES ASSUME ~exited', NEW fd \in Fds
             PROVE  InOnePlace(fd)' /\ (open'[fd] /= None <=> Held(fd)')
  BY DEF Owned, Fds
<1>1. /\ ~exited /\ queue' = queue /\ call' = call /\ cell' = cell
      /\ pc[w] = "close" /\ pc' = [pc EXCEPT ![w] = "remove"]
      /\ open' = [open EXCEPT ![connfd[w]] = None] /\ connfd' = connfd
  BY DEF Close, Goes, buffer
<1>2. InOnePlace(fd) /\ (open[fd] /= None <=> Held(fd))
  BY <1>1 DEF Owned
<1>3. \A t \in Threads : Calls(t, fd)' <=> Calls(t, fd)
  BY <1>1 DEF Calls
<1>4. \A v \in Workers : Serving(v, fd)' <=> v /= w /\ Serving(v, fd)
  BY <1>1 DEF Serving, Types
<1>5. Serving(w, fd) <=> fd = connfd[w]
  BY <1>1 DEF Serving
<1>6. \A k \in Nat : Queued(k, fd)' <=> Queued(k, fd)
  BY <1>1 DEF Queued
<1>7. open'[fd] = IF fd = connfd[w] THEN None ELSE open[fd]
  BY <1>1 DEF Types
<1>8. CASE fd = connfd[w]
  BY <1>2, <1>3, <1>4, <1>5, <1>6, <1>7, <1>8 DEF InOnePlace, Held
<1>9. CASE fd /= connfd[w]
  BY <1>2, <1>3, <1>4, <1>5, <1>6, <1>7, <1>9 DEF InOnePlace, Held
<1> QED BY <1>8, <1>9

(* When sbuf_insert returns, main has nothing to do with the descriptor. *)
LEMMA InsertReturnsKeepsOwned ==
  ASSUME Types, Owned, InsertReturns
  PROVE  Owned'
<1>1. /\ call[main] \in {"inserted", "removed"} /\ call' = [call EXCEPT ![main] = "idle"]
      /\ cell' = [cell EXCEPT ![main] = None] /\ queue' = queue /\ open' = open
      /\ pc' = pc /\ connfd' = connfd /\ exited' = exited
  BY DEF InsertReturns, Buffer!Return, Buffer!Moves, locals
<1>2. call[main] = "inserted"
  BY <1>1 DEF Types
<1>3. \A t \in Threads :
         /\ call'[t] \in {"inserting", "removed"} <=> call[t] \in {"inserting", "removed"}
         /\ call[t] \in {"inserting", "removed"} => cell'[t] = cell[t]
  BY <1>1, <1>2 DEF Types
<1> QED BY <1>1, <1>3, UnmovedKeepsOwned

(* A worker that calls sbuf_remove holds nothing yet. *)
LEMMA CallRemoveKeepsOwned ==
  ASSUME Types, Owned, NEW w \in Workers, CallRemove(w)
  PROVE  Owned'
<1>1. /\ call[w] = "idle" /\ call' = [call EXCEPT ![w] = "removing"]
      /\ cell' = cell /\ queue' = queue /\ open' = open
      /\ pc' = pc /\ connfd' = connfd /\ exited' = exited
  BY DEF CallRemove, Buffer!InvokeRemove, Buffer!Moves, locals
<1>2. \A t \in Threads :
         call'[t] \in {"inserting", "removed"} <=> call[t] \in {"inserting", "removed"}
  BY <1>1 DEF Types
<1> QED BY <1>1, <1>2, UnmovedKeepsOwned

(* In echo_cnt the worker keeps its connection. *)
LEMMA EchoKeepsOwned ==
  ASSUME Types, Owned, NEW w \in Workers,
         \/ Once(w) \/ SemInit(w) \/ ZeroCount(w) \/ ReadLine(w) \/ ReadEOF(w) \/ PMutex(w)
         \/ LoadCount(w) \/ StoreCount(w) \/ VMutex(w) \/ Write(w)
  PROVE  Owned'
<1>1. PICK from \in Labels \ {"remove"}, to \in Labels \ {"remove"} : Goes(w, from, to)
  BY DEF Once, SemInit, ZeroCount, ReadLine, ReadEOF, PMutex, LoadCount, StoreCount, VMutex,
         Write, Labels
<1>2. UNCHANGED <<buffer, open, connfd, exited>>
  BY DEF Once, SemInit, ZeroCount, ReadLine, ReadEOF, PMutex, LoadCount, StoreCount, VMutex,
         Write
<1>3. \A v \in Workers : pc'[v] = "remove" <=> pc[v] = "remove"
  BY <1>1 DEF Goes, Types
<1> QED BY <1>2, <1>3, UnmovedKeepsOwned DEF buffer

(* The clients do not touch the server's descriptors. *)
LEMMA ClientKeepsOwned ==
  ASSUME Owned, NEW c \in Clients, Connect(c) \/ Client(c) \/ Die(c)
  PROVE  Owned'
<1>1. UNCHANGED <<buffer, open, locals, exited>>
  BY DEF Connect, Client, SendLine, ReadEcho, CloseClient, Die
<1> QED BY <1>1, UnmovedKeepsOwned DEF buffer, locals

--------------------------------------------------------------------------------
(* Theorems *)

(* Every step of main, of a worker and of a client keeps the invariant.    *)
LEMMA NextInvariant ==
  ASSUME IInv, [Next]_vars
  PROVE  IInv'
<1> USE DEF IInv
<1>1. CASE Main
  <2>1. Types'
    BY <1>1, MainKeepsTypes
  <2>2. Owned'
    BY <1>1, AcceptKeepsOwned, InsertKeepsOwned, InsertReturnsKeepsOwned DEF Main
  <2> QED BY <2>1, <2>2
<1>2. ASSUME NEW w \in Workers, Worker(w) PROVE IInv'
  <2>1. Types'
    BY <1>2, WorkerKeepsTypes
  <2>2. Owned'
    <3>1. CASE Fails(w)
      BY <3>1 DEF Fails, Owned
    <3>2. CASE ~Fails(w)
      BY <1>2, <3>2, CallRemoveKeepsOwned, RemoveKeepsOwned, RemoveReturnsKeepsOwned,
         EchoKeepsOwned, CloseKeepsOwned DEF Worker
    <3> QED BY <3>1, <3>2
  <2> QED BY <2>1, <2>2
<1>3. ASSUME NEW c \in Clients, Connect(c) \/ Client(c) \/ Die(c) PROVE IInv'
  BY <1>3, ClientKeepsTypes, ClientKeepsOwned
<1>4. CASE UNCHANGED vars
  <2>1. UNCHANGED <<buffer, backlog, open, locals, exited>>
    BY <1>4 DEF vars
  <2>2. Types'
    BY <2>1 DEF Types, buffer, locals, Fds
  <2>3. Owned'
    BY <2>1, UnmovedKeepsOwned DEF buffer, locals
  <2> QED BY <2>2, <2>3
<1> QED BY <1>1, <1>2, <1>3, <1>4 DEF Next

(* The buffer, the calls on it, the descriptor table and the workers'      *)
(* locals keep their types; main only inserts and the workers only remove. *)
THEOREM ServerType == Spec => []Types
<1>1. Init => IInv
  BY InitTypes, InitOwned DEF IInv
<1>2. IInv => Types
  BY DEF IInv
<1> QED BY <1>1, <1>2, NextInvariant, PTL DEF Spec

(* From Accept to Close every connected descriptor is in one place, main's *)
(* call, the buffer or one worker, and what is in a place is open, for any *)
(* number of clients, dying ones included, of workers, slots and           *)
(* descriptors.                                                            *)
THEOREM OneHolderAlways == Spec => []OneHolder
<1>1. Init => IInv
  BY InitTypes, InitOwned DEF IInv
<1>2. IInv => OneHolder
  BY OwnedGivesOneHolder
<1> QED BY <1>1, <1>2, NextInvariant, PTL DEF Spec

--------------------------------------------------------------------------------
(* The way of a line: to the server, with one worker, and back *)

Waits(c) == client[c] \in {"reply", "dead"}
Line(c) == <<c, sent[c]>>
Carries(w) == pc[w] \in {"P", "load", "store", "V", "write"}

NetTypes == /\ client \in [Clients -> {"off", "input", "reply", "closed", "dead"}]
            /\ sent \in [Clients -> Nat] /\ got \in [Clients -> Seq(Clients \X Nat)]
            /\ DOMAIN toServer = Clients /\ DOMAIN toClient = Clients
            /\ DOMAIN buf = Workers

(* A client that waits has sent one line more than it has got back.        *)
Echoed(c) == /\ \A k \in 1 .. Len(got[c]) : got[c][k] = <<c, k>>
             /\ sent[c] = Len(got[c]) + IF Waits(c) THEN 1 ELSE 0

(* That line is under way in one direction, if no worker has it.           *)
UnderWay(c) == /\ toServer[c] = << >> \/ (Waits(c) /\ toServer[c] = <<Line(c)>>)
               /\ toClient[c] = << >> \/ (Waits(c) /\ toClient[c] = <<Line(c)>>)
               /\ toServer[c] = << >> \/ toClient[c] = << >>

(* A worker that carries a line has the one that its client waits for.     *)
Carried(w) == Carries(w) =>
                /\ Peer(w) \in Clients /\ Waits(Peer(w)) /\ buf[w] = Line(Peer(w))
                /\ toServer[Peer(w)] = << >> /\ toClient[Peer(w)] = << >>
OneCarrier == \A v, w \in Workers : Carries(v) /\ Carries(w) /\ Peer(v) = Peer(w) => v = w

FlowInv == /\ NetTypes
           /\ \A c \in Clients : Echoed(c) /\ UnderWay(c)
           /\ \A w \in Workers : Carried(w)
           /\ OneCarrier

(* A sequence of one line. *)
LEMMA OneLine ==
  ASSUME NEW x
  PROVE  /\ Append(<< >>, x) = <<x>> /\ <<x>> /= << >>
         /\ Head(<<x>>) = x /\ Tail(<<x>>) = << >>
<1>1. <<x>> /= << >> /\ Head(<<x>>) = x
  OBVIOUS
<1>2. Append(<< >>, x) = <<x>>
  OBVIOUS
<1>3. Tail(<<x>>) = << >>
  OBVIOUS
<1> QED BY <1>1, <1>2, <1>3

(* A step that moves no line, and no connection of a worker that has one.  *)
LEMMA UnmovedKeepsFlow ==
  ASSUME FlowInv, UNCHANGED <<buf, network>>,
         \A w \in Workers : Carries(w)' => Carries(w) /\ Peer(w)' = Peer(w)
  PROVE  FlowInv'
<1>1. NetTypes'
  BY DEF FlowInv, NetTypes, network
<1>2. \A c \in Clients : Echoed(c)' /\ UnderWay(c)'
  BY DEF FlowInv, Echoed, UnderWay, Waits, Line, network
<1>3. \A w \in Workers : Carried(w)'
  <2> SUFFICES ASSUME NEW w \in Workers, Carries(w)' PROVE Carried(w)'
    BY DEF Carried
  <2>1. Carries(w) /\ Carried(w) /\ Peer(w)' = Peer(w)
    BY DEF FlowInv
  <2> QED BY <2>1 DEF Carried, Waits, Line, network
<1>4. OneCarrier'
  BY DEF FlowInv, OneCarrier
<1> QED BY <1>1, <1>2, <1>3, <1>4 DEF FlowInv

(* main gives a connection a descriptor that was free: no carrier has it.  *)
LEMMA MainKeepsFlow ==
  ASSUME IInv, FlowInv, Main
  PROVE  FlowInv'
<1>1. UNCHANGED <<locals, network>>
  BY DEF Main, Accept, SbufInsert, InsertReturns
<1>2. \A w \in Workers : Carries(w) => connfd[w] \in Fds /\ open[connfd[w]] /= None
  BY ServerAssumption DEF IInv, Types, FlowInv, Carried, Carries, Peer
<1>3. \A fd \in Fds : open[fd] /= None => open'[fd] = open[fd]
  <2>1. CASE Accept
    <3>1. CASE FreeFds = {}
      BY <2>1, <3>1 DEF Accept
    <3>2. CASE FreeFds /= {}
      <4>1. FreeFds \in SUBSET Nat
        BY ServerAssumption DEF FreeFds, Fds
      <4>2. Min(FreeFds) \in FreeFds
        BY <3>2, <4>1, LeastElement
      <4>3. open' = [open EXCEPT ![Min(FreeFds)] = Head(backlog)]
        BY <2>1, <3>2 DEF Accept
      <4> QED BY <4>2, <4>3 DEF FreeFds, IInv, Types
    <3> QED BY <3>1, <3>2
  <2>2. CASE SbufInsert \/ InsertReturns
    BY <2>2 DEF SbufInsert, InsertReturns
  <2> QED BY <2>1, <2>2 DEF Main
<1>4. \A w \in Workers : Carries(w)' => Carries(w) /\ Peer(w)' = Peer(w)
  BY <1>1, <1>2, <1>3 DEF locals, Carries, Peer
<1> QED BY <1>1, <1>4, UnmovedKeepsFlow DEF locals

(* A worker that neither reads nor writes moves no line; when it closes    *)
(* its connection no other worker has it.                                  *)
LEMMA WorkerKeepsFlow ==
  ASSUME IInv, FlowInv, NEW w \in Workers, Worker(w), ~ReadLine(w), ~Write(w)
  PROVE  FlowInv'
<1>1. UNCHANGED <<buf, network>>
  BY DEF Worker, CallRemove, SbufRemove, RemoveReturns, Once, SemInit, ZeroCount, ReadEOF,
         PMutex, LoadCount, StoreCount, VMutex, Fails, Close, locals
<1>2. CASE CallRemove(w) \/ SbufRemove(w)
  BY <1>1, <1>2, UnmovedKeepsFlow DEF CallRemove, SbufRemove, locals, Carries, Peer
<1>3. CASE RemoveReturns(w)
  <2>1. /\ pc[w] = "remove" /\ pc' = [pc EXCEPT ![w] = "once"]
        /\ connfd' = [connfd EXCEPT ![w] = cell[w]] /\ open' = open
    BY <1>3 DEF RemoveReturns, Goes
  <2>2. \A v \in Workers : Carries(v)' => Carries(v) /\ Peer(v)' = Peer(v)
    BY <2>1 DEF Carries, Peer, IInv, Types
  <2> QED BY <1>1, <2>2, UnmovedKeepsFlow
<1>4. CASE \/ Once(w) \/ SemInit(w) \/ ZeroCount(w) \/ ReadEOF(w) \/ PMutex(w) \/ LoadCount(w)
           \/ StoreCount(w) \/ VMutex(w) \/ Fails(w)
  <2>1. /\ \E to \in Labels : /\ pc' = [pc EXCEPT ![w] = to]
                              /\ to \in {"P", "load", "store", "V", "write"} => Carries(w)
        /\ UNCHANGED <<connfd, open>>
    <3>1. CASE Fails(w)
      BY <3>1 DEF Fails, Goes, Carries, Labels
    <3> QED BY <1>4, <3>1 DEF Once, SemInit, ZeroCount, ReadEOF, PMutex, LoadCount, StoreCount,
                              VMutex, Goes, Carries, Labels
  <2>2. \A v \in Workers : Carries(v)' => Carries(v) /\ Peer(v)' = Peer(v)
    BY <2>1 DEF Carries, Peer, IInv, Types
  <2> QED BY <1>1, <2>2, UnmovedKeepsFlow
<1>5. CASE Close(w)
  <2>1. /\ pc[w] = "close" /\ pc' = [pc EXCEPT ![w] = "remove"] /\ ~exited
        /\ open' = [open EXCEPT ![connfd[w]] = None] /\ connfd' = connfd
    BY <1>5 DEF Close, Goes
  <2>2. ASSUME NEW v \in Workers, Carries(v)' PROVE Carries(v) /\ Peer(v)' = Peer(v)
    <3>1. v /= w /\ Carries(v) /\ pc[v] /= "remove"
      BY <2>1, <2>2 DEF Carries, IInv, Types
    <3>2. connfd[v] \in Fds /\ connfd[w] \in Fds
      BY <2>1, <3>1 DEF IInv, Types
    <3>3. connfd[v] /= connfd[w]
      <4>1. InOnePlace(connfd[w])
        BY <2>1, <3>2 DEF IInv, Owned
      <4>2. Serving(w, connfd[w])
        BY <2>1 DEF Serving
      <4> QED BY <3>1, <4>1, <4>2 DEF InOnePlace, Serving
    <3> QED BY <2>1, <3>1, <3>2, <3>3 DEF Peer, IInv, Types
  <2> QED BY <1>1, <2>2, UnmovedKeepsFlow
<1> QED BY <1>2, <1>3, <1>4, <1>5 DEF Worker

(* A worker reads the line of its client: nobody else has one of it.       *)
LEMMA ReadKeepsFlow ==
  ASSUME IInv, FlowInv, NEW w \in Workers, ReadLine(w)
  PROVE  FlowInv'
<1> DEFINE c == Peer(w)
<1>1. /\ pc[w] = "read" /\ pc' = [pc EXCEPT ![w] = "P"] /\ c \in Clients /\ toServer[c] /= << >>
      /\ buf' = [buf EXCEPT ![w] = Head(toServer[c])]
      /\ toServer' = [toServer EXCEPT ![c] = Tail(@)]
      /\ UNCHANGED <<open, connfd, client, sent, got, toClient>>
  BY DEF ReadLine, Goes
<1>2. \A v \in Workers : Peer(v)' = Peer(v)
  BY <1>1 DEF Peer
<1> HIDE DEF c
<1>3. /\ Waits(c) /\ toServer[c] = <<Line(c)>> /\ toClient[c] = << >>
  BY <1>1 DEF FlowInv, UnderWay
<1>4. toServer'[c] = << >> /\ buf'[w] = Line(c)
  BY <1>1, <1>3, OneLine DEF FlowInv, NetTypes
<1>5. /\ \A b \in Clients : b /= c => toServer'[b] = toServer[b]
      /\ \A v \in Workers : v /= w => buf'[v] = buf[v]
      /\ \A v \in Workers : Carries(v)' <=> Carries(v) \/ v = w
      /\ ~Carries(w)
  BY <1>1 DEF FlowInv, NetTypes, Carries, IInv, Types
<1>6. \A b \in Clients : Line(b)' = Line(b) /\ (Waits(b)' <=> Waits(b))
  BY <1>1 DEF Line, Waits
<1>7. NetTypes'
  BY <1>1 DEF FlowInv, NetTypes
<1>8. \A b \in Clients : Echoed(b)' /\ UnderWay(b)'
  <2> SUFFICES ASSUME NEW b \in Clients PROVE Echoed(b)' /\ UnderWay(b)'
    OBVIOUS
  <2>1. Echoed(b)'
    BY <1>1, <1>6 DEF FlowInv, Echoed
  <2>2. UnderWay(b)'
    BY <1>1, <1>3, <1>4, <1>5, <1>6 DEF FlowInv, UnderWay
  <2> QED BY <2>1, <2>2
<1>9. \A v \in Workers : v /= w /\ Carries(v) => Peer(v) /= c /\ Peer(v) \in Clients
  BY <1>1 DEF FlowInv, Carried
<1>10. \A v \in Workers : Carried(v)'
  <2> SUFFICES ASSUME NEW v \in Workers, Carries(v)' PROVE Carried(v)'
    BY DEF Carried
  <2>1. CASE v = w
    <3>1. Peer(w)' = c
      BY <1>2 DEF c
    <3> QED BY <1>1, <1>3, <1>4, <1>6, <2>1, <3>1 DEF Carried
  <2>2. CASE v /= w
    BY <1>1, <1>2, <1>5, <1>6, <1>9, <2>2 DEF FlowInv, Carried
  <2> QED BY <2>1, <2>2
<1>11. OneCarrier'
  <2>1. Peer(w) = c
    BY DEF c
  <2> QED BY <1>2, <1>5, <1>9, <2>1 DEF FlowInv, OneCarrier
<1> QED BY <1>7, <1>8, <1>10, <1>11 DEF FlowInv

(* It writes the line back to the client it came from.                     *)
LEMMA WriteKeepsFlow ==
  ASSUME IInv, FlowInv, NEW w \in Workers, Write(w)
  PROVE  FlowInv'
<1> DEFINE c == Peer(w)
<1>1. /\ pc[w] = "write" /\ pc' = [pc EXCEPT ![w] = "read"] /\ c \in Clients
      /\ toClient' = [toClient EXCEPT ![c] = Append(@, buf[w])]
      /\ UNCHANGED <<open, connfd, buf, client, sent, got, toServer>>
  BY DEF Write, Goes
<1>2. \A v \in Workers : Peer(v)' = Peer(v)
  BY <1>1 DEF Peer
<1>3. Carries(w) /\ Waits(c) /\ buf[w] = Line(c) /\ toServer[c] = << >> /\ toClient[c] = << >>
  BY <1>1 DEF FlowInv, Carried, Carries
<1>4. \A v \in Workers : v /= w /\ Carries(v) => Peer(v) /= c
  BY <1>3 DEF FlowInv, OneCarrier
<1> HIDE DEF c
<1>5. toClient'[c] = <<Line(c)>>
  BY <1>1, <1>3, OneLine DEF FlowInv, NetTypes
<1>6. /\ \A b \in Clients : b /= c => toClient'[b] = toClient[b]
      /\ \A v \in Workers : Carries(v)' <=> Carries(v) /\ v /= w
  BY <1>1 DEF FlowInv, NetTypes, Carries, IInv, Types
<1>7. \A b \in Clients : Line(b)' = Line(b) /\ (Waits(b)' <=> Waits(b))
  BY <1>1 DEF Line, Waits
<1>8. NetTypes'
  BY <1>1 DEF FlowInv, NetTypes
<1>9. \A b \in Clients : Echoed(b)' /\ UnderWay(b)'
  <2> SUFFICES ASSUME NEW b \in Clients PROVE Echoed(b)' /\ UnderWay(b)'
    OBVIOUS
  <2>1. Echoed(b)'
    BY <1>1, <1>7 DEF FlowInv, Echoed
  <2>2. UnderWay(b)'
    BY <1>1, <1>3, <1>5, <1>6, <1>7 DEF FlowInv, UnderWay
  <2> QED BY <2>1, <2>2
<1>10. \A v \in Workers : Carried(v)'
  BY <1>1, <1>2, <1>4, <1>6, <1>7 DEF FlowInv, Carried
<1>11. OneCarrier'
  BY <1>2, <1>6 DEF FlowInv, OneCarrier
<1> QED BY <1>8, <1>9, <1>10, <1>11 DEF FlowInv

(* A client sends its next line, gets the echo, closes or dies.            *)
LEMMA ClientKeepsFlow ==
  ASSUME FlowInv, NEW c \in Clients, Connect(c) \/ Client(c) \/ Die(c)
  PROVE  FlowInv'
<1>1. UNCHANGED <<open, locals>> /\ \A w \in Workers : Peer(w)' = Peer(w)
  BY DEF Connect, Client, SendLine, ReadEcho, CloseClient, Die, locals, Peer
<1>2. \A w \in Workers : buf'[w] = buf[w] /\ (Carries(w)' <=> Carries(w))
  BY <1>1 DEF locals, Carries
<1>3. OneCarrier'
  BY <1>1, <1>2 DEF FlowInv, OneCarrier
<1>4. SUFFICES /\ NetTypes' /\ Echoed(c)' /\ UnderWay(c)'
               /\ \A b \in Clients : b /= c =>
                    /\ Line(b)' = Line(b) /\ (Waits(b)' <=> Waits(b))
                    /\ UNCHANGED <<sent[b], got[b], toServer[b], toClient[b]>>
               /\ \A w \in Workers : Carries(w) /\ Peer(w) = c =>
                    /\ Line(c)' = Line(c) /\ Waits(c)'
                    /\ toServer'[c] = << >> /\ toClient'[c] = << >>
  <2>1. \A b \in Clients : Echoed(b)' /\ UnderWay(b)'
    <3> SUFFICES ASSUME NEW b \in Clients, b /= c PROVE Echoed(b)' /\ UnderWay(b)'
      BY <1>4
    <3>1. /\ sent'[b] = sent[b] /\ got'[b] = got[b] /\ toServer'[b] = toServer[b]
          /\ toClient'[b] = toClient[b] /\ Line(b)' = Line(b) /\ (Waits(b)' <=> Waits(b))
      BY <1>4
    <3>2. Echoed(b) /\ UnderWay(b)
      BY DEF FlowInv
    <3>3. Echoed(b)'
      BY <3>1, <3>2 DEF Echoed
    <3>4. UnderWay(b)'
      BY <3>1, <3>2 DEF UnderWay
    <3> QED BY <3>3, <3>4
  <2>2. \A w \in Workers : Carried(w)'
    BY <1>1, <1>2, <1>4 DEF FlowInv, Carried
  <2> QED BY <1>3, <1>4, <2>1, <2>2 DEF FlowInv
<1>5. NetTypes /\ Echoed(c) /\ UnderWay(c) /\ \A w \in Workers : Carried(w)
  BY DEF FlowInv
<1>6. CASE Connect(c) \/ CloseClient(c) \/ Die(c)
  <2>1. /\ UNCHANGED <<sent, got, toServer, toClient>>
        /\ client' = [client EXCEPT ![c] = client'[c]]
        /\ client'[c] \in {"input", "closed", "dead"} /\ (Waits(c)' <=> Waits(c))
    BY <1>5, <1>6 DEF Connect, CloseClient, Die, ClientGoes, Waits, NetTypes
  <2>2. NetTypes'
    BY <1>1, <1>5, <2>1 DEF NetTypes, locals
  <2>3. Echoed(c)' /\ UnderWay(c)'
    BY <1>5, <2>1 DEF Echoed, UnderWay, Line
  <2> QED BY <1>5, <2>1, <2>2, <2>3 DEF Line, Waits, Carried, NetTypes
<1>7. CASE SendLine(c)
  <2>1. /\ client[c] = "input" /\ client' = [client EXCEPT ![c] = "reply"]
        /\ sent' = [sent EXCEPT ![c] = @ + 1]
        /\ toServer' = [toServer EXCEPT ![c] = Append(@, <<c, sent[c] + 1>>)]
        /\ UNCHANGED <<got, toClient>>
    BY <1>7 DEF SendLine, ClientGoes
  <2>2. ~Waits(c) /\ Waits(c)' /\ sent'[c] = sent[c] + 1 /\ Line(c)' = <<c, sent[c] + 1>>
    BY <1>5, <2>1 DEF Waits, Line, NetTypes
  <2>3. toServer[c] = << >> /\ toClient[c] = << >> /\ toServer'[c] = <<Line(c)>>'
    BY <1>5, <2>1, <2>2, OneLine DEF UnderWay, NetTypes
  <2>4. NetTypes'
    BY <1>1, <1>5, <2>1 DEF NetTypes, locals
  <2>5. Echoed(c)'
    <3>1. sent[c] = Len(got[c])
      BY <1>5, <2>2 DEF Echoed, NetTypes
    <3> QED BY <1>5, <2>1, <2>2, <3>1 DEF Echoed, NetTypes
  <2>6. UnderWay(c)'
    BY <2>1, <2>2, <2>3 DEF UnderWay
  <2> QED BY <1>5, <2>1, <2>2, <2>4, <2>5, <2>6 DEF Line, Waits, Carried, NetTypes
<1>8. CASE ReadEcho(c)
  <2>1. /\ client[c] = "reply" /\ client' = [client EXCEPT ![c] = "input"] /\ toClient[c] /= << >>
        /\ got' = [got EXCEPT ![c] = Append(@, Head(toClient[c]))]
        /\ toClient' = [toClient EXCEPT ![c] = Tail(@)]
        /\ UNCHANGED <<sent, toServer>>
    BY <1>8 DEF ReadEcho, ClientGoes
  <2>2. Waits(c) /\ ~Waits(c)' /\ toClient[c] = <<Line(c)>> /\ toServer[c] = << >>
    BY <1>5, <2>1 DEF Waits, UnderWay, NetTypes
  <2>3. toClient'[c] = << >> /\ got'[c] = Append(got[c], Line(c))
    BY <1>5, <2>1, <2>2, OneLine DEF NetTypes
  <2>4. /\ got[c] \in Seq(Clients \X Nat) /\ Line(c) \in Clients \X Nat /\ Len(got[c]) \in Nat
        /\ sent[c] = Len(got[c]) + 1
    BY <1>5, <2>2, LenProperties DEF NetTypes, Line, Echoed
  <2>5. /\ got'[c] \in Seq(Clients \X Nat) /\ Len(got'[c]) = Len(got[c]) + 1
        /\ \A k \in 1 .. Len(got[c]) : got'[c][k] = got[c][k]
        /\ got'[c][Len(got[c]) + 1] = Line(c)
    BY <2>3, <2>4, AppendProperties
  <2>6. NetTypes'
    BY <1>1, <1>5, <2>1, <2>5 DEF NetTypes, locals
  <2>7. Echoed(c)'
    <3>1. sent'[c] = Len(got'[c])
      BY <2>1, <2>4, <2>5
    <3>2. \A k \in 1 .. Len(got'[c]) : k \in 1 .. Len(got[c]) \/ k = Len(got[c]) + 1
      BY <2>4, <2>5
    <3>3. \A k \in 1 .. Len(got'[c]) : got'[c][k] = <<c, k>>
      BY <1>5, <2>4, <2>5, <3>2 DEF Echoed, Line
    <3> QED BY <2>2, <2>4, <2>5, <3>1, <3>3 DEF Echoed
  <2>8. UnderWay(c)'
    BY <2>1, <2>2, <2>3 DEF UnderWay
  <2> QED BY <1>5, <2>1, <2>6, <2>7, <2>8 DEF Line, Waits, Carried, NetTypes
<1> QED BY <1>6, <1>7, <1>8 DEF Client

(* Nothing is under way at first.                                          *)
LEMMA InitFlow == Init => FlowInv
<1> SUFFICES ASSUME Init PROVE FlowInv
  OBVIOUS
<1>1. \A c \in Clients : got[c] = << >> /\ sent[c] = 0 /\ client[c] = "off"
                         /\ toServer[c] = << >> /\ toClient[c] = << >>
  BY DEF Init
<1>2. NetTypes
  BY EmptySeq DEF Init, NetTypes
<1>3. \A w \in Workers : ~Carries(w)
  BY DEF Init, Carries
<1>4. \A c \in Clients : Echoed(c) /\ UnderWay(c)
  <2> SUFFICES ASSUME NEW c \in Clients PROVE Echoed(c) /\ UnderWay(c)
    OBVIOUS
  <2>1. got[c] = << >> /\ sent[c] = 0 /\ ~Waits(c) /\ toServer[c] = << >> /\ toClient[c] = << >>
    BY <1>1 DEF Waits
  <2>2. Len(got[c]) = 0
    BY <2>1
  <2> QED BY <2>1, <2>2 DEF Echoed, UnderWay
<1> QED BY <1>2, <1>3, <1>4 DEF FlowInv, Carried, OneCarrier

(* Every step of the server and of its clients keeps the lines in order.   *)
LEMMA NextFlow == IInv /\ FlowInv /\ [Next]_vars => FlowInv'
<1> SUFFICES ASSUME IInv, FlowInv, [Next]_vars PROVE FlowInv'
  OBVIOUS
<1>1. CASE UNCHANGED vars
  BY <1>1, UnmovedKeepsFlow DEF vars, locals, Carries, Peer
<1>2. ASSUME NEW w \in Workers, Worker(w) PROVE FlowInv'
  BY <1>2, WorkerKeepsFlow, ReadKeepsFlow, WriteKeepsFlow
<1> QED BY <1>1, <1>2, MainKeepsFlow, ClientKeepsFlow DEF Next

(* Each client reads back its own lines, complete and in order, for any    *)
(* number of clients, workers, slots and descriptors, whoever dies         *)
(* meanwhile (echo_cnt.c:26-33).                                           *)
THEOREM EchoesAreOwn == Spec => []OwnEchoes
<1>1. Init => IInv /\ FlowInv
  BY InitTypes, InitOwned, InitFlow DEF IInv
<1>2. FlowInv => OwnEchoes
  BY DEF FlowInv, Echoed, OwnEchoes
<1> QED BY <1>1, <1>2, NextFlow, NextInvariant, PTL DEF Spec

--------------------------------------------------------------------------------
(* The descriptors do not run out *)

SomeoneIsDead == \E c \in Clients : client[c] = "dead"

(* Why the server has exited, and how full the buffer can be. *)
Lives == Len(queue) <= SBUFSIZE /\ (exited => SomeoneIsDead)

(* main is about to accept: what is open is in the buffer or with a worker. *)
LEMMA DescriptorLeft ==
  ASSUME IInv, ~exited, call[main] = "idle", Len(queue) <= SBUFSIZE,
         MaxFd > SBUFSIZE + Cardinality(Workers)
  PROVE  FreeFds /= {}
<1> SUFFICES ASSUME FreeFds = {} PROVE FALSE
  OBVIOUS
<1> DEFINE FdOf(w) == IF pc[w] = "remove" THEN cell[w] ELSE connfd[w]
           busy == {w \in Workers : FdOf(w) \in Fds}
           withWorkers == {FdOf(w) : w \in busy}
           inBuffer == {queue[k] : k \in 1 .. Len(queue)}
<1>1. Types /\ Len(queue) \in Nat /\ SBUFSIZE \in Nat /\ MaxFd \in Nat
  BY ServerAssumption, LenProperties DEF IInv, Types
<1>2. ASSUME NEW fd \in Fds PROVE fd \in withWorkers \cup inBuffer
  <2>1. Held(fd)
    BY DEF FreeFds, IInv, Owned
  <2>2. ASSUME NEW t \in Threads, Calls(t, fd) PROVE fd \in withWorkers
    <3>1. t \in Workers
      BY <2>2 DEF Calls, Threads
    <3>2. pc[t] = "remove" /\ cell[t] = fd
      BY <1>1, <2>2, <3>1 DEF Types, Calls
    <3> QED BY <3>1, <3>2
  <2>3. ASSUME NEW w \in Workers, Serving(w, fd) PROVE fd \in withWorkers
    BY <2>3 DEF Serving
  <2>4. ASSUME NEW k \in Nat, Queued(k, fd) PROVE fd \in inBuffer
    BY <2>4 DEF Queued
  <2> QED BY <2>1, <2>2, <2>3, <2>4 DEF Held
<1>3. IsFiniteSet(busy) /\ Cardinality(busy) <= Cardinality(Workers) /\ Cardinality(Workers) \in Nat
  <2>1. busy \in SUBSET Workers
    OBVIOUS
  <2> HIDE DEF busy
  <2> QED BY <2>1, ServerAssumption, FS_Subset, FS_CardinalityType
<1>4. IsFiniteSet(withWorkers) /\ Cardinality(withWorkers) <= Cardinality(busy)
  <2> DEFINE f == [w \in busy |-> FdOf(w)]
  <2>1. f \in Surjection(busy, withWorkers)
    BY DEF Surjection
  <2> HIDE DEF f, busy, withWorkers
  <2> QED BY <1>3, <2>1, FS_Surjection
<1>5. IsFiniteSet(inBuffer) /\ Cardinality(inBuffer) <= Len(queue)
  <2> DEFINE f == [k \in 1 .. Len(queue) |-> queue[k]]
  <2>1. f \in Surjection(1 .. Len(queue), inBuffer)
    BY DEF Surjection
  <2>2. IsFiniteSet(1 .. Len(queue)) /\ Cardinality(1 .. Len(queue)) = Len(queue)
    <3>1. PICK n \in Nat : n = Len(queue)
      BY <1>1
    <3>2. IsFiniteSet(1 .. n) /\ Cardinality(1 .. n) = IF 1 > n THEN 0 ELSE n - 1 + 1
      BY FS_Interval
    <3> QED BY <3>1, <3>2
  <2> HIDE DEF f, inBuffer
  <2> QED BY <2>1, <2>2, FS_Surjection
<1>6. IsFiniteSet(Fds) /\ Cardinality(Fds) = MaxFd
  <2>1. IsFiniteSet(1 .. MaxFd) /\ Cardinality(1 .. MaxFd) = IF 1 > MaxFd THEN 0 ELSE MaxFd - 1 + 1
    BY <1>1, FS_Interval
  <2> QED BY <1>1, <2>1, ServerAssumption DEF Fds
<1> HIDE DEF busy, withWorkers, inBuffer
<1>7. Fds \in SUBSET (withWorkers \cup inBuffer)
  BY <1>2
<1>8. /\ IsFiniteSet(withWorkers \cup inBuffer)
      /\ Cardinality(withWorkers \cup inBuffer) <= Cardinality(withWorkers) + Cardinality(inBuffer)
  <2>1. /\ IsFiniteSet(withWorkers \cup inBuffer)
        /\ Cardinality(withWorkers \cup inBuffer) =
              Cardinality(withWorkers) + Cardinality(inBuffer) - Cardinality(withWorkers \cap inBuffer)
    BY <1>4, <1>5, FS_Union
  <2>2. Cardinality(withWorkers \cap inBuffer) \in Nat
    <3>1. IsFiniteSet(withWorkers \cap inBuffer)
      BY <1>4, FS_Subset
    <3> QED BY <3>1, FS_CardinalityType
  <2>3. Cardinality(withWorkers) \in Nat /\ Cardinality(inBuffer) \in Nat
    BY <1>4, <1>5, FS_CardinalityType
  <2> QED BY <2>1, <2>2, <2>3
<1>9. Cardinality(Fds) <= Cardinality(withWorkers \cup inBuffer)
  BY <1>7, <1>8, FS_Subset
<1>10. /\ Cardinality(withWorkers) \in Nat /\ Cardinality(inBuffer) \in Nat
       /\ Cardinality(withWorkers \cup inBuffer) \in Nat /\ Cardinality(busy) \in Nat
  BY <1>3, <1>4, <1>5, <1>8, FS_CardinalityType
<1> QED BY <1>1, <1>3, <1>4, <1>5, <1>6, <1>8, <1>9, <1>10

(* A worker that reads, writes or closes has an open descriptor. *)
LEMMA PeerIsThere ==
  ASSUME IInv, ~exited, NEW w \in Workers, pc[w] \in {"read", "write", "close"}
  PROVE  Peer(w) \in Clients
<1>1. connfd[w] \in Fds /\ Serving(w, connfd[w])
  BY DEF IInv, Types, Serving
<1>2. open[connfd[w]] /= None
  BY <1>1 DEF IInv, Owned, Held
<1> QED BY <1>1, <1>2 DEF IInv, Types, Peer

(* Only the death of a client makes a wrapper exit. *)
LEMMA NextLives ==
  ASSUME MaxFd > SBUFSIZE + Cardinality(Workers), IInv, FlowInv, Lives, [Next]_vars
  PROVE  Lives'
<1>1. queue \in Seq(Fds) /\ Len(queue) \in Nat /\ SBUFSIZE \in Nat
  BY ServerAssumption, LenProperties DEF IInv, Types
<1>2. SomeoneIsDead => SomeoneIsDead'
  <2> SUFFICES ASSUME NEW c \in Clients, client[c] = "dead" PROVE client'[c] = "dead"
    BY DEF SomeoneIsDead
  <2>1. DOMAIN client = Clients
    BY DEF FlowInv, NetTypes
  <2>2. ASSUME NEW d \in Clients, Connect(d) \/ Client(d) \/ Die(d) PROVE client'[c] = "dead"
    BY <2>1, <2>2 DEF Connect, Client, SendLine, ReadEcho, CloseClient, Die, ClientGoes
  <2>3. (Main \/ \E w \in Workers : Worker(w)) \/ UNCHANGED vars => client' = client
    BY DEF Main, Accept, SbufInsert, InsertReturns, Worker, CallRemove, SbufRemove, RemoveReturns,
           Once, SemInit, ZeroCount, ReadLine, ReadEOF, PMutex, LoadCount, StoreCount, VMutex,
           Write, Fails, Close, vars, network
  <2> QED BY <2>2, <2>3 DEF Next
<1>3. CASE Accept
  <2>1. FreeFds /= {}
    BY <1>3, DescriptorLeft DEF Accept, Lives
  <2>2. queue' = queue /\ exited' = exited
    BY <1>3, <2>1 DEF Accept, Buffer!InvokeInsert
  <2> QED BY <1>2, <2>2 DEF Lives
<1>4. CASE SbufInsert
  <2>1. /\ exited' = exited /\ Len(queue) < SBUFSIZE /\ queue' = Append(queue, cell[main])
        /\ call[main] = "inserting"
    BY <1>4 DEF SbufInsert, Buffer!Insert, Buffer!Moves
  <2>2. cell[main] \in Fds
    BY <2>1 DEF IInv, Types, Threads
  <2>3. Len(queue') = Len(queue) + 1
    BY <1>1, <2>1, <2>2, AppendProperties
  <2> QED BY <1>1, <1>2, <2>1, <2>3 DEF Lives
<1>5. ASSUME NEW w \in Workers, SbufRemove(w) PROVE Lives'
  <2>1. exited' = exited /\ queue /= << >> /\ queue' = Tail(queue)
    BY <1>5 DEF SbufRemove, Buffer!Remove
  <2>2. Len(queue') = Len(queue) - 1
    BY <1>1, <2>1, HeadTailProperties
  <2> QED BY <1>1, <1>2, <2>1, <2>2 DEF Lives
<1>6. ASSUME NEW w \in Workers, Fails(w) PROVE Lives'
  <2>1. queue' = queue /\ Peer(w) \in Clients /\ network' = network
    BY <1>6, PeerIsThere DEF Fails, Goes, buffer
  <2>2. client[Peer(w)] = "dead"
    BY <1>6, <2>1, ServerAssumption DEF Fails
  <2>3. SomeoneIsDead'
    BY <1>2, <2>1, <2>2 DEF SomeoneIsDead
  <2> QED BY <2>1, <2>3 DEF Lives
<1>7. ASSUME NEW w \in Workers, Close(w) PROVE Lives'
  <2>1. queue' = queue /\ Peer(w) \in Clients
    BY <1>7, PeerIsThere DEF Close, Goes, buffer
  <2>2. exited' = FALSE
    BY <1>7, <2>1, ServerAssumption DEF Close
  <2> QED BY <2>1, <2>2 DEF Lives
<1>8. ASSUME UNCHANGED <<queue, exited>> PROVE Lives'
  BY <1>2, <1>8 DEF Lives
<1>9. ASSUME NEW w \in Workers, Worker(w), ~SbufRemove(w), ~Fails(w), ~Close(w)
      PROVE  UNCHANGED <<queue, exited>>
  BY <1>9 DEF Worker, CallRemove, RemoveReturns, Once, SemInit, ZeroCount, ReadLine, ReadEOF,
              PMutex, LoadCount, StoreCount, VMutex, Write, Buffer!InvokeRemove, Buffer!Return, buffer
<1>10. ASSUME InsertReturns \/ (\E c \in Clients : Connect(c) \/ Client(c) \/ Die(c)) \/ UNCHANGED vars
       PROVE  UNCHANGED <<queue, exited>>
  BY <1>10 DEF InsertReturns, Buffer!Return, Connect, Client, SendLine, ReadEcho, CloseClient, Die,
               vars, buffer
<1> QED BY <1>3, <1>4, <1>5, <1>6, <1>7, <1>8, <1>9, <1>10 DEF Next, Main

(* With more descriptors than the buffer and the workers can hold, Accept  *)
(* always finds one and no worker uses a closed one: the server exits only *)
(* after a client has died.                                                *)
THEOREM ServerLivesOn ==
  ASSUME MaxFd > SBUFSIZE + Cardinality(Workers)
  PROVE  Spec => [](exited => \E c \in Clients : client[c] = "dead")
<1>1. Init => IInv /\ FlowInv
  BY InitTypes, InitOwned, InitFlow DEF IInv
<1>2. Init => Lives
  <2> SUFFICES ASSUME Init PROVE Lives
    OBVIOUS
  <2>1. Len(queue) = 0 /\ exited = FALSE
    BY DEF Init, Buffer!Init
  <2> QED BY <2>1, ServerAssumption DEF Lives
<1>3. Lives => (exited => \E c \in Clients : client[c] = "dead")
  BY DEF Lives, SomeoneIsDead
<1> QED BY <1>1, <1>2, <1>3, NextFlow, NextInvariant, NextLives, PTL DEF Spec

--------------------------------------------------------------------------------
(* The bytes that have been received, and the count of them *)

Pending == {"P", "load", "store"}
ReadOf == [c \in Clients |-> (LinesRead(c) * (LinesRead(c) + 1)) \div 2]
PendingOf == [w \in Workers |-> IF pc[w] \in Pending THEN Length(buf[w]) ELSE 0]
Read == SumOver(ReadOf, Clients)
Unadded == SumOver(PendingOf, Workers)

Before == {"remove", "once"}
Initialising == {"sem_init", "zero"}
Locked == {"load", "store", "V"}

(* One worker runs init_echo_cnt, while the others have not got past       *)
(* pthread_once: when it creates the lock and resets the count, nobody     *)
(* holds the one, and the other is 0 already.                              *)
OnceRight ==
    /\ once \in {"init", "running", "done"}
    /\ once = "init" => \A w \in Workers : pc[w] \in Before
    /\ once = "running" => \A w \in Workers : pc[w] \in Before \cup Initialising
    /\ once = "done" => \A w \in Workers : pc[w] \notin Initialising
    /\ once /= "done" => byte_cnt = 0
    /\ \A v, w \in Workers : pc[v] \in Initialising /\ pc[w] \in Initialising => v = w
    /\ \A w \in Workers : pc[w] = "zero" => mutex = 1

(* Then one worker at a time is between P and V, and what it has loaded is *)
(* the count.                                                              *)
LockRight ==
    once = "done" =>
        \/ mutex = 1 /\ \A w \in Workers : pc[w] \notin Locked
        \/ mutex = 0 /\ \E w \in Workers : /\ pc[w] \in Locked
                                           /\ \A v \in Workers : pc[v] \in Locked => v = w

CountInv == /\ DOMAIN reg = Workers /\ byte_cnt \in Int
            /\ OnceRight /\ LockRight
            /\ \A w \in Workers : pc[w] = "store" => reg[w] = byte_cnt
            /\ byte_cnt + Unadded = Read

(* What is summed up are integers. *)
LEMMA BytesType ==
  ASSUME FlowInv
  PROVE  /\ \A c \in Clients : LinesRead(c) \in Int /\ ReadOf[c] \in Int
         /\ \A w \in Workers : PendingOf[w] \in Int
         /\ Read \in Int /\ Unadded \in Int
<1>1. ASSUME NEW c \in Clients
      PROVE  LinesRead(c) \in Int /\ ReadOf[c] \in Int
  <2>1. sent[c] \in Nat /\ Len(toServer[c]) \in Nat
    <3>1. Len(<<Line(c)>>) = 1 /\ Len(<< >>) = 0
      OBVIOUS
    <3> QED BY <3>1 DEF FlowInv, NetTypes, UnderWay
  <2>2. PICK l \in Int : l = LinesRead(c)
    BY <2>1 DEF LinesRead
  <2>3. l * (l + 1) \in Int
    OBVIOUS
  <2>4. (l * (l + 1)) \div 2 \in Int
    BY <2>3
  <2> QED BY <2>2, <2>4 DEF ReadOf
<1>2. ASSUME NEW w \in Workers
      PROVE  PendingOf[w] \in Int
  <2>1. CASE pc[w] \in Pending
    <3>1. Peer(w) \in Clients /\ buf[w] = Line(Peer(w))
      BY <2>1 DEF FlowInv, Carried, Carries, Pending
    <3>2. Length(buf[w]) = sent[Peer(w)]
      BY <3>1 DEF Length, Line
    <3> QED BY <2>1, <3>1, <3>2 DEF PendingOf, FlowInv, NetTypes
  <2>2. CASE pc[w] \notin Pending
    BY <2>2 DEF PendingOf
  <2> QED BY <2>1, <2>2
<1>3. Read \in Int
  BY <1>1, ServerAssumption, SumOfOne DEF Read
<1>4. Unadded \in Int
  BY <1>2, ServerAssumption, SumOfOne DEF Unadded
<1> QED BY <1>1, <1>2, <1>3, <1>4

(* They are the sums of BytesCounted.                                      *)
LEMMA BytesSum ==
  ASSUME FlowInv
  PROVE  BytesRead = Read /\ BytesPending = Unadded
<1>1. BytesRead = Read
  <2> DEFINE e(c) == (LinesRead(c) * (LinesRead(c) + 1)) \div 2
             Sums(it) == it = [s \in SUBSET Clients |->
                                  IF s = {} THEN 0 ELSE e(AnyOf(s)) + it[s \ {AnyOf(s)}]]
  <2>1. BytesRead = (CHOOSE it : Sums(it))[Clients]
    BY DEF BytesRead, MapThenSumSet, MapThenFoldSet, AnyOf
  <2>2. Read = (CHOOSE it : IsSum(it, ReadOf, Clients))[Clients]
    BY DEF Read, SumOver
  <2>3. \A c \in Clients : ReadOf[c] = e(c) /\ ReadOf[c] \in Int
    BY BytesType DEF ReadOf
  <2> HIDE DEF e
  <2>4. ASSUME NEW it PROVE Sums(it) <=> IsSum(it, ReadOf, Clients)
    <3>1. \A s \in SUBSET Clients : s /= {} => ReadOf[AnyOf(s)] = e(AnyOf(s))
      BY <2>3, AnyIsOne
    <3> QED BY <3>1 DEF IsSum
  <2> HIDE DEF Sums
  <2> DEFINE f == CHOOSE it : Sums(it)
             g == CHOOSE it : IsSum(it, ReadOf, Clients)
  <2>5. \E it : IsSum(it, ReadOf, Clients)
    BY <2>3, ServerAssumption, SumExists
  <2>6. Sums(f) /\ IsSum(g, ReadOf, Clients)
    BY <2>4, <2>5
  <2>7. IsSum(f, ReadOf, Clients)
    BY <2>4, <2>6
  <2> HIDE DEF f, g
  <2>8. f[Clients] = g[Clients]
    <3>1. PICK h, S : h = ReadOf /\ S = Clients
      OBVIOUS
    <3>2. /\ IsFiniteSet(S) /\ IsSum(f, h, S) /\ IsSum(g, h, S) /\ \A x \in S : h[x] \in Int
      BY <2>3, <2>6, <2>7, <3>1, ServerAssumption
    <3>3. \A s \in SUBSET (S \cap S) : (\A x \in s : h[x] = h[x]) => f[s] = g[s]
      BY ONLY <3>2, SumUnique
    <3> QED BY <3>1, <3>3
  <2> QED BY <2>1, <2>2, <2>8 DEF f, g
<1>2. BytesPending = Unadded
  <2> DEFINE e(w) == IF pc[w] \in {"P", "load", "store"} THEN Length(buf[w]) ELSE 0
             Sums(it) == it = [s \in SUBSET Workers |->
                                  IF s = {} THEN 0 ELSE e(AnyOf(s)) + it[s \ {AnyOf(s)}]]
  <2>1. BytesPending = (CHOOSE it : Sums(it))[Workers]
    BY DEF BytesPending, MapThenSumSet, MapThenFoldSet, AnyOf
  <2>2. Unadded = (CHOOSE it : IsSum(it, PendingOf, Workers))[Workers]
    BY DEF Unadded, SumOver
  <2>3. \A w \in Workers : PendingOf[w] = e(w) /\ PendingOf[w] \in Int
    BY BytesType DEF PendingOf, Pending
  <2> HIDE DEF e
  <2>4. ASSUME NEW it PROVE Sums(it) <=> IsSum(it, PendingOf, Workers)
    <3>1. \A s \in SUBSET Workers : s /= {} => PendingOf[AnyOf(s)] = e(AnyOf(s))
      BY <2>3, AnyIsOne
    <3> QED BY <3>1 DEF IsSum
  <2> HIDE DEF Sums
  <2> DEFINE f == CHOOSE it : Sums(it)
             g == CHOOSE it : IsSum(it, PendingOf, Workers)
  <2>5. \E it : IsSum(it, PendingOf, Workers)
    BY <2>3, ServerAssumption, SumExists
  <2>6. Sums(f) /\ IsSum(g, PendingOf, Workers)
    BY <2>4, <2>5
  <2>7. IsSum(f, PendingOf, Workers)
    BY <2>4, <2>6
  <2> HIDE DEF f, g
  <2>8. f[Workers] = g[Workers]
    <3>1. PICK h, S : h = PendingOf /\ S = Workers
      OBVIOUS
    <3>2. /\ IsFiniteSet(S) /\ IsSum(f, h, S) /\ IsSum(g, h, S) /\ \A x \in S : h[x] \in Int
      BY <2>3, <2>6, <2>7, <3>1, ServerAssumption
    <3>3. \A s \in SUBSET (S \cap S) : (\A x \in s : h[x] = h[x]) => f[s] = g[s]
      BY ONLY <3>2, SumUnique
    <3> QED BY <3>1, <3>3
  <2> QED BY <2>1, <2>2, <2>8 DEF f, g
<1> QED BY <1>1, <1>2

(* A step that neither reads a line nor adds one to the count.             *)
LEMMA SameBytes ==
  ASSUME FlowInv, UNCHANGED <<sent, toServer, buf>>,
         \A w \in Workers : pc'[w] \in Pending <=> pc[w] \in Pending
  PROVE  Unadded' = Unadded /\ Read' = Read
<1>1. \A c \in Clients : LinesRead(c)' = LinesRead(c)
  BY DEF LinesRead
<1>2. ReadOf' = ReadOf
  BY <1>1 DEF ReadOf
<1>3. \A w \in Workers : PendingOf'[w] = PendingOf[w]
  BY DEF PendingOf, Length
<1>4. PendingOf' = PendingOf
  BY <1>3 DEF PendingOf
<1> QED BY <1>2, <1>4 DEF Unadded, Read

(* A step that leaves the counter and the workers alone.                   *)
LEMMA UnmovedKeepsCount ==
  ASSUME CountInv, UNCHANGED <<counter, pc, reg>>, Unadded' = Unadded /\ Read' = Read
  PROVE  CountInv'
BY DEF CountInv, OnceRight, LockRight, counter

(* A client's step: the line it sends is not read yet.                     *)
LEMMA ClientKeepsCount ==
  ASSUME FlowInv, CountInv, NEW c \in Clients, Connect(c) \/ Client(c) \/ Die(c)
  PROVE  CountInv'
<1>1. UNCHANGED <<counter, pc, reg, buf>>
  BY DEF Connect, Client, SendLine, ReadEcho, CloseClient, Die, locals
<1>2. CASE ~SendLine(c)
  <2>1. UNCHANGED <<sent, toServer>>
    BY <1>2 DEF Connect, Client, ReadEcho, CloseClient, Die, network
  <2> QED BY <1>1, <2>1, SameBytes, UnmovedKeepsCount
<1>3. CASE SendLine(c)
  <2>1. /\ client[c] = "input" /\ sent' = [sent EXCEPT ![c] = @ + 1]
        /\ toServer' = [toServer EXCEPT ![c] = Append(@, <<c, sent[c] + 1>>)]
    BY <1>3 DEF SendLine, ClientGoes
  <2>2. toServer[c] = << >> /\ sent[c] \in Nat
    BY <2>1 DEF FlowInv, UnderWay, Waits, NetTypes
  <2>3. /\ Len(toServer[c]) = 0 /\ Len(toServer'[c]) = 1
        /\ sent'[c] = sent[c] + 1
        /\ \A b \in Clients : b /= c => sent'[b] = sent[b] /\ toServer'[b] = toServer[b]
    <3>1. toServer'[c] = <<(<<c, sent[c] + 1>>)>>
      BY <2>1, <2>2, OneLine DEF FlowInv, NetTypes
    <3> QED BY <2>1, <2>2, <3>1 DEF FlowInv, NetTypes
  <2>4. LinesRead(c)' = LinesRead(c)
    BY <2>2, <2>3 DEF LinesRead
  <2>5. \A b \in Clients : LinesRead(b)' = LinesRead(b)
    BY <2>3, <2>4 DEF LinesRead
  <2>6. ReadOf' = ReadOf
    BY <2>5 DEF ReadOf
  <2>7. PendingOf' = PendingOf
    BY <1>1 DEF PendingOf, Length
  <2>8. Unadded' = Unadded /\ Read' = Read
    BY <2>6, <2>7 DEF Unadded, Read
  <2> QED BY <1>1, <2>8, UnmovedKeepsCount
<1> QED BY <1>2, <1>3

(* A worker's steps between two labels, one by one.                        *)
LEMMA WorkerKeepsOnce ==
  ASSUME IInv, FlowInv, CountInv, NEW w \in Workers, Worker(w)
  PROVE  /\ DOMAIN reg' = Workers /\ OnceRight' /\ LockRight'
         /\ \A v \in Workers : pc'[v] = "store" => reg'[v] = byte_cnt'
<1>0. DOMAIN pc = Workers /\ DOMAIN reg = Workers
  BY DEF IInv, Types, CountInv
<1> USE DEF CountInv
<1>1. CASE CallRemove(w) \/ SbufRemove(w)
  BY <1>1 DEF CallRemove, SbufRemove, locals, counter, OnceRight, LockRight
<1>2. CASE RemoveReturns(w) \/ ReadEOF(w) \/ Close(w) \/ Fails(w) \/ Write(w) \/ ReadLine(w)
  <2>1. /\ UNCHANGED <<reg, once, byte_cnt, mutex>>
        /\ \E to \in {"once", "close", "remove", "read", "P", pc[w]} :
              /\ pc' = [pc EXCEPT ![w] = to]
              /\ to /= pc[w] /\ pc[w] /= "remove" => once = "done"
              /\ to /= pc[w] => pc[w] \in {"remove", "read", "close", "write"}
              /\ to /= pc[w] /\ pc[w] = "remove" => to = "once"
    <3>1. CASE Fails(w)
      BY <3>1 DEF Fails, Goes, counter
    <3>2. CASE RemoveReturns(w)
      BY <3>2 DEF RemoveReturns, Goes, counter
    <3>3. CASE ReadEOF(w) \/ Close(w) \/ Write(w) \/ ReadLine(w)
      <4>1. pc[w] \in {"read", "close", "write"}
        BY <3>3 DEF ReadEOF, Close, Write, ReadLine, Goes
      <4>2. once = "done"
        BY <4>1 DEF OnceRight, Before, Initialising
      <4> QED BY <3>3, <4>1, <4>2 DEF ReadEOF, Close, Write, ReadLine, Goes, counter
    <3> QED BY <1>2, <3>1, <3>2, <3>3
  <2>2. /\ \A v \in Workers : pc'[v] \in Locked <=> pc[v] \in Locked
        /\ \A v \in Workers : pc'[v] \in Initialising => pc'[v] = pc[v]
        /\ \A v \in Workers : pc'[v] = "store" => pc[v] = "store"
        /\ once /= "done" => \A v \in Workers : pc[v] \in Before => pc'[v] \in Before
        /\ once /= "done" => \A v \in Workers : pc[v] \notin Before => pc'[v] = pc[v]
    BY <1>0, <2>1 DEF Locked, Initialising, Before
  <2>3. OnceRight'
    BY <2>1, <2>2 DEF OnceRight, Initialising
  <2>4. LockRight'
    BY <2>1, <2>2 DEF LockRight
  <2> QED BY <1>0, <2>1, <2>2, <2>3, <2>4
<1>3. CASE Once(w)
  <2>1. /\ pc[w] = "once" /\ UNCHANGED <<reg, byte_cnt, mutex>>
        /\ \/ once = "init" /\ pc' = [pc EXCEPT ![w] = "sem_init"] /\ once' = "running"
           \/ once = "done" /\ pc' = [pc EXCEPT ![w] = "read"] /\ once' = once
    BY <1>3 DEF Once, Goes
  <2>2. CASE once = "init"
    BY <1>0, <2>1, <2>2 DEF OnceRight, LockRight, Before, Initialising, Locked
  <2>3. CASE once = "done"
    <3>1. OnceRight'
      BY <1>0, <2>1, <2>3 DEF OnceRight, Initialising
    <3>2. \A v \in Workers : pc'[v] \in Locked <=> pc[v] \in Locked
      BY <1>0, <2>1, <2>3 DEF Locked
    <3>3. LockRight'
      BY <2>1, <2>3, <3>2 DEF LockRight
    <3> QED BY <1>0, <2>1, <2>3, <3>1, <3>3
  <2> QED BY <2>1, <2>2, <2>3
<1>4. CASE SemInit(w)
  BY <1>0, <1>4 DEF SemInit, Goes, OnceRight, LockRight, Before, Initialising, Locked
<1>5. CASE ZeroCount(w)
  <2>1. /\ pc[w] = "zero" /\ pc' = [pc EXCEPT ![w] = "read"] /\ byte_cnt' = 0 /\ once' = "done"
        /\ UNCHANGED <<reg, mutex>>
    BY <1>5 DEF ZeroCount, Goes
  <2>2. once = "running" /\ mutex = 1
    BY <2>1 DEF OnceRight, Before, Initialising
  <2>3. \A v \in Workers : v /= w => pc[v] \in Before
    BY <2>1, <2>2 DEF OnceRight, Initialising
  <2>4. \A v \in Workers : pc'[v] \in Before \cup {"read"}
    BY <1>0, <2>1, <2>3
  <2> QED BY <1>0, <2>1, <2>2, <2>4 DEF OnceRight, LockRight, Before, Initialising, Locked
<1>6. CASE PMutex(w) \/ LoadCount(w) \/ StoreCount(w) \/ VMutex(w)
  <2>1. pc[w] \in {"P", "load", "store", "V"}
    BY <1>6 DEF PMutex, LoadCount, StoreCount, VMutex, Goes
  <2>2. once = "done" /\ once' = once
    BY <1>6, <2>1 DEF OnceRight, Before, Initialising, PMutex, LoadCount, StoreCount, VMutex, counter
  <2>3. OnceRight'
    <3>1. \E to \in {"load", "store", "V", "write"} : pc' = [pc EXCEPT ![w] = to]
      BY <1>6 DEF PMutex, LoadCount, StoreCount, VMutex, Goes
    <3> QED BY <1>0, <2>2, <3>1 DEF OnceRight, Initialising
  <2>4. CASE PMutex(w)
    <3>1. mutex = 1 /\ mutex' = 0 /\ \A v \in Workers : pc[v] \notin Locked
      BY <2>2, <2>4 DEF PMutex, LockRight
    <3>2. pc' = [pc EXCEPT ![w] = "load"] /\ UNCHANGED <<reg, byte_cnt>>
      BY <2>4 DEF PMutex, Goes
    <3>3. pc'[w] = "load" /\ \A v \in Workers : v /= w => pc'[v] = pc[v]
      BY <1>0, <3>2
    <3> QED BY <1>0, <2>3, <3>1, <3>2, <3>3 DEF LockRight, Locked
  <2>5. CASE ~PMutex(w)
    <3>1. pc[w] \in Locked
      BY <1>6, <2>5 DEF LoadCount, StoreCount, VMutex, Goes, Locked
    <3>2. mutex = 0 /\ \A v \in Workers : pc[v] \in Locked => v = w
      BY <2>2, <3>1 DEF LockRight
    <3>3. CASE LoadCount(w)
      <4>1. pc' = [pc EXCEPT ![w] = "store"] /\ reg' = [reg EXCEPT ![w] = byte_cnt] /\ UNCHANGED <<byte_cnt, mutex>>
        BY <3>3 DEF LoadCount, Goes, counter
      <4>2. pc'[w] = "store" /\ reg'[w] = byte_cnt /\ \A v \in Workers : v /= w => pc'[v] = pc[v]
        BY <1>0, <4>1
      <4> QED BY <1>0, <2>3, <3>2, <4>1, <4>2 DEF LockRight, Locked
    <3>4. CASE StoreCount(w)
      <4>1. pc' = [pc EXCEPT ![w] = "V"] /\ UNCHANGED <<reg, mutex>>
        BY <3>4 DEF StoreCount, Goes
      <4>2. pc'[w] = "V" /\ \A v \in Workers : v /= w => pc'[v] = pc[v]
        BY <1>0, <4>1
      <4>3. \A v \in Workers : pc'[v] /= "store"
        BY <3>2, <4>2 DEF Locked
      <4> QED BY <1>0, <2>3, <3>2, <4>1, <4>2, <4>3 DEF LockRight, Locked
    <3>5. CASE VMutex(w)
      <4>1. pc' = [pc EXCEPT ![w] = "write"] /\ mutex' = 1 /\ UNCHANGED <<reg, byte_cnt>>
        BY <3>2, <3>5 DEF VMutex, Goes
      <4>2. pc'[w] = "write" /\ \A v \in Workers : v /= w => pc'[v] = pc[v]
        BY <1>0, <4>1
      <4>3. \A v \in Workers : pc'[v] \notin Locked
        BY <3>2, <4>2 DEF Locked
      <4> QED BY <1>0, <2>3, <4>1, <4>2, <4>3 DEF LockRight, Locked
    <3> QED BY <1>6, <2>5, <3>3, <3>4, <3>5
  <2> QED BY <2>4, <2>5
<1> QED BY <1>1, <1>2, <1>3, <1>4, <1>5, <1>6 DEF Worker

(* A worker that reads a line has its bytes to add; one that stores the    *)
(* count has added them; the others leave both sums alone.                 *)
LEMMA WorkerKeepsSum ==
  ASSUME IInv, FlowInv, FlowInv', CountInv, NEW w \in Workers, Worker(w)
  PROVE  byte_cnt' \in Int /\ byte_cnt' + Unadded' = Read'
<1>0. DOMAIN pc = Workers
  BY DEF IInv, Types
<1>1. CASE ReadLine(w)
  <2>0. PICK c : c = Peer(w)
    OBVIOUS
  <2>1. /\ pc[w] = "read" /\ pc' = [pc EXCEPT ![w] = "P"] /\ c \in Clients
        /\ buf' = [buf EXCEPT ![w] = Head(toServer[c])] /\ toServer[c] /= << >>
        /\ toServer' = [toServer EXCEPT ![c] = Tail(@)]
        /\ UNCHANGED <<byte_cnt, sent>>
    BY <1>1, <2>0 DEF ReadLine, Goes, counter
  <2>2. toServer[c] = <<Line(c)>> /\ sent[c] \in Nat
    BY <2>1 DEF FlowInv, UnderWay, NetTypes
  <2>3. /\ toServer'[c] = << >> /\ buf'[w] = Line(c)
        /\ \A b \in Clients : b /= c => toServer'[b] = toServer[b]
        /\ \A v \in Workers : v /= w => buf'[v] = buf[v] /\ pc'[v] = pc[v]
        /\ pc'[w] = "P"
    BY <1>0, <2>1, <2>2, OneLine DEF FlowInv, NetTypes
  <2>4. /\ PendingOf[w] = 0 /\ PendingOf'[w] = sent[c]
        /\ \A v \in Workers : v /= w => PendingOf'[v] = PendingOf[v]
    BY <2>1, <2>3 DEF PendingOf, Pending, Length, Line
  <2>5. LinesRead(c) = sent[c] - 1 /\ LinesRead(c)' = sent[c]
    <3>1. Len(toServer[c]) = 1 /\ Len(toServer'[c]) = 0
      BY <2>2, <2>3
    <3> QED BY <2>1, <2>2, <3>1 DEF LinesRead
  <2>6. ReadOf'[c] = ReadOf[c] + sent[c]
    <3>1. PICK n \in Nat : n = sent[c]
      BY <2>2
    <3>2. n * (n + 1) = (n - 1) * ((n - 1) + 1) + 2 * n
      OBVIOUS
    <3>3. (n * (n + 1)) \div 2 = ((n - 1) * ((n - 1) + 1)) \div 2 + n
      <4>1. PICK m \in Int : m = (n - 1) * ((n - 1) + 1)
        OBVIOUS
      <4>2. (m + 2 * n) \div 2 = m \div 2 + n
        BY <4>1
      <4> QED BY <3>2, <4>1, <4>2
    <3>4. ReadOf[c] = ((n - 1) * ((n - 1) + 1)) \div 2 /\ ReadOf'[c] = (n * (n + 1)) \div 2
      BY <2>1, <2>5, <3>1 DEF ReadOf
    <3> QED BY <3>1, <3>3, <3>4
  <2>7. \A b \in Clients : b /= c => ReadOf'[b] = ReadOf[b]
    BY <2>1, <2>3 DEF ReadOf, LinesRead
  <2>8. Unadded' = Unadded + sent[c]
    <3>1. PICK h, g, S, x : h = PendingOf /\ g = PendingOf' /\ S = Workers /\ x = w
      OBVIOUS
    <3>2. IsFiniteSet(S) /\ x \in S
      BY <3>1, ServerAssumption
    <3>3. \A v \in S : h[v] \in Int /\ g[v] \in Int
      BY <2>2, <2>4, <3>1, BytesType, ServerAssumption
    <3>4. \A v \in S \ {x} : g[v] = h[v]
      BY <2>2, <2>4, <3>1, BytesType, ServerAssumption
    <3>5. SumOver(g, S) = SumOver(h, S) + g[x] - h[x]
      BY ONLY <3>2, <3>3, <3>4, SumChanges
    <3>6. SumOver(h, S) = Unadded /\ SumOver(g, S) = Unadded'
      BY <3>1 DEF Unadded
    <3> QED BY <2>2, <2>4, <3>1, <3>5, <3>6, BytesType
  <2>9. Read' = Read + sent[c]
    <3>1. PICK h, g, S, x : h = ReadOf /\ g = ReadOf' /\ S = Clients /\ x = c
      OBVIOUS
    <3>2. IsFiniteSet(S) /\ x \in S
      BY <2>1, <3>1, ServerAssumption
    <3>3. \A v \in S : h[v] \in Int /\ g[v] \in Int
      <4>1. ReadOf[c] \in Int /\ ReadOf'[c] \in Int
        BY <2>1, <2>2, <2>6, BytesType
      <4> QED BY <2>1, <2>7, <3>1, <4>1, BytesType
    <3>4. \A v \in S \ {x} : g[v] = h[v]
      BY <2>1, <2>2, <2>6, <2>7, <3>1, BytesType, ServerAssumption
    <3>5. SumOver(g, S) = SumOver(h, S) + g[x] - h[x]
      BY ONLY <3>2, <3>3, <3>4, SumChanges
    <3>6. SumOver(h, S) = Read /\ SumOver(g, S) = Read'
      BY <3>1 DEF Read
    <3> QED BY <2>1, <2>2, <2>6, <3>1, <3>5, <3>6, BytesType
  <2> QED BY <2>1, <2>2, <2>8, <2>9, BytesType DEF CountInv
<1>2. CASE StoreCount(w)
  <2>1. /\ pc[w] = "store" /\ pc' = [pc EXCEPT ![w] = "V"]
        /\ byte_cnt' = reg[w] + Length(buf[w])
        /\ UNCHANGED <<buf, sent, toServer>>
    BY <1>2 DEF StoreCount, Goes, network
  <2>2. /\ PendingOf[w] = Length(buf[w]) /\ PendingOf'[w] = 0
        /\ \A v \in Workers : v /= w => PendingOf'[v] = PendingOf[v]
    BY <1>0, <2>1 DEF PendingOf, Pending, Length
  <2>3. byte_cnt' = byte_cnt + PendingOf[w] /\ byte_cnt \in Int
    BY <2>1, <2>2 DEF CountInv
  <2>4. Unadded' = Unadded - PendingOf[w]
    <3>1. PICK h, g, S, x : h = PendingOf /\ g = PendingOf' /\ S = Workers /\ x = w
      OBVIOUS
    <3>2. IsFiniteSet(S) /\ x \in S
      BY <3>1, ServerAssumption
    <3>3. \A v \in S : h[v] \in Int /\ g[v] \in Int
      BY <2>2, <3>1, BytesType, ServerAssumption
    <3>4. \A v \in S \ {x} : g[v] = h[v]
      BY <2>2, <3>1, BytesType, ServerAssumption
    <3>5. SumOver(g, S) = SumOver(h, S) + g[x] - h[x]
      BY ONLY <3>2, <3>3, <3>4, SumChanges
    <3>6. SumOver(h, S) = Unadded /\ SumOver(g, S) = Unadded'
      BY <3>1 DEF Unadded
    <3> QED BY <2>2, <3>1, <3>5, <3>6, BytesType
  <2>5. Read' = Read
    <3>1. ReadOf' = ReadOf
      BY <2>1 DEF ReadOf, LinesRead
    <3> QED BY <3>1 DEF Read
  <2>6. PendingOf[w] \in Int
    BY BytesType
  <2> QED BY <2>3, <2>4, <2>5, <2>6, BytesType DEF CountInv
<1>3. CASE ~ReadLine(w) /\ ~StoreCount(w)
  <2>1. UNCHANGED <<sent, toServer, buf>>
    BY <1>3 DEF Worker, CallRemove, SbufRemove, RemoveReturns, Once, SemInit, ZeroCount, ReadEOF,
         PMutex, LoadCount, VMutex, Write, Fails, Close, locals, network
  <2>2. \A v \in Workers : pc'[v] \in Pending <=> pc[v] \in Pending
    <3>1. CASE CallRemove(w) \/ SbufRemove(w)
      BY <3>1 DEF CallRemove, SbufRemove, locals
    <3>2. CASE Fails(w)
      BY <1>0, <3>2 DEF Fails, Goes
    <3>3. CASE ~CallRemove(w) /\ ~SbufRemove(w) /\ ~Fails(w)
      <4>1. \E to : pc' = [pc EXCEPT ![w] = to] /\ (to \in Pending <=> pc[w] \in Pending)
        BY <1>3, <3>3 DEF Worker, RemoveReturns, Once, SemInit, ZeroCount, ReadEOF,
           PMutex, LoadCount, VMutex, Write, Close, Goes, Pending
      <4> QED BY <1>0, <4>1
    <3> QED BY <3>1, <3>2, <3>3
  <2>3. byte_cnt' = byte_cnt
    <3>1. CASE ZeroCount(w)
      BY <3>1 DEF ZeroCount, Goes, CountInv, OnceRight, Initialising
    <3>2. CASE ~ZeroCount(w)
      BY <1>3, <3>2 DEF Worker, CallRemove, SbufRemove, RemoveReturns, Once, SemInit, ReadEOF,
         PMutex, LoadCount, VMutex, Write, Fails, Close, counter
    <3> QED BY <3>1, <3>2
  <2> QED BY <2>1, <2>2, <2>3, SameBytes DEF CountInv
<1> QED BY <1>1, <1>2, <1>3

(* At first nothing is read.                                               *)
LEMMA InitCount == Init => CountInv
<1> SUFFICES ASSUME Init PROVE CountInv
  OBVIOUS
<1>1. /\ pc = [w \in Workers |-> "remove"] /\ reg = [w \in Workers |-> 0]
      /\ once = "init" /\ byte_cnt = 0
      /\ \A c \in Clients : sent[c] = 0 /\ toServer[c] = << >>
  BY DEF Init
<1>2. \A w \in Workers : PendingOf[w] = 0
  BY <1>1 DEF PendingOf, Pending
<1>3. \A c \in Clients : ReadOf[c] = 0
  <2> SUFFICES ASSUME NEW c \in Clients PROVE ReadOf[c] = 0
    OBVIOUS
  <2>1. LinesRead(c) = 0
    BY <1>1 DEF LinesRead
  <2> QED BY <2>1 DEF ReadOf
<1>4. Unadded = 0
  BY <1>2, ServerAssumption, SumOfNothing DEF Unadded
<1>5. Read = 0
  BY <1>3, ServerAssumption, SumOfNothing DEF Read
<1> QED BY <1>1, <1>4, <1>5 DEF CountInv, OnceRight, LockRight, Before, Initialising

(* byte_cnt is the number of bytes that the workers have read, but for the *)
(* lines they have not added yet; init_echo_cnt runs once, before all of   *)
(* them, and the lock has one holder at most (echo_cnt.c:2, 24-32).        *)
THEOREM EveryByteCounted == Spec => []BytesCounted
<1>1. Init => IInv /\ FlowInv /\ CountInv
  BY InitTypes, InitOwned, InitFlow, InitCount DEF IInv
<1>2. IInv /\ FlowInv /\ [Next]_vars => FlowInv'
  BY NextFlow
<1>3. IInv /\ FlowInv /\ FlowInv' /\ CountInv /\ [Next]_vars => CountInv'
  <2> SUFFICES ASSUME IInv, FlowInv, FlowInv', CountInv, [Next]_vars PROVE CountInv'
    OBVIOUS
  <2>1. CASE UNCHANGED vars \/ Main
    <3>1. UNCHANGED <<pc, reg, buf, counter, sent, toServer>>
      BY <2>1 DEF Main, Accept, SbufInsert, InsertReturns, vars, locals, network
    <3>2. Unadded' = Unadded /\ Read' = Read
      BY <3>1, SameBytes
    <3> QED BY <3>1, <3>2, UnmovedKeepsCount
  <2>2. ASSUME NEW w \in Workers, Worker(w) PROVE CountInv'
    BY <2>2, WorkerKeepsOnce, WorkerKeepsSum DEF CountInv
  <2> QED BY <2>1, <2>2, ClientKeepsCount DEF Next
<1>4. FlowInv /\ CountInv => BytesCounted
  <2> SUFFICES ASSUME FlowInv, CountInv PROVE BytesCounted
    OBVIOUS
  <2>1. byte_cnt + BytesPending = BytesRead
    BY BytesSum DEF CountInv
  <2>2. Updating = {w \in Workers : pc[w] \in Locked}
    BY DEF Updating, Locked
  <2>3. ASSUME once = "done" PROVE mutex + Cardinality(Updating) = 1
    <3>1. CASE mutex = 1 /\ \A w \in Workers : pc[w] \notin Locked
      <4>1. Updating = {}
        BY <2>2, <3>1
      <4> QED BY <3>1, <4>1, FS_EmptySet
    <3>2. ASSUME NEW w \in Workers, mutex = 0, pc[w] \in Locked,
                 \A v \in Workers : pc[v] \in Locked => v = w
          PROVE  mutex + Cardinality(Updating) = 1
      <4>1. Updating = {w}
        BY <2>2, <3>2
      <4> QED BY <3>2, <4>1, FS_Singleton
    <3> QED BY <2>3, <3>1, <3>2 DEF CountInv, LockRight
  <2> QED BY <2>1, <2>3 DEF BytesCounted
<1> QED BY <1>1, <1>2, <1>3, <1>4, NextInvariant, PTL DEF Spec

================================================================================
