---------------------------- MODULE EchoSelectProofs ----------------------------
(***************************************************************************)
(* The pool of the select server (conc/echoservers.c), for any number of   *)
(* clients, lines and descriptors: its parts agree, and check_clients      *)
(* serves every client that select has found ready; and each client that   *)
(* waits for its echoes is sent what it wrote, in order.                   *)
(***************************************************************************)
EXTENDS EchoSelect, NumberLemmas, FiniteSetTheorems, SequenceTheorems, TLAPS

Places == {"select", "accept", "check", "read", "echo"}

PoolTypes ==
    /\ clientfd \in [Slots -> {-1} \cup Fds]
    /\ open \in [Fds -> Clients \cup {None}] /\ backlog \in Seq(Clients)
    /\ pc \in Places /\ i \in Nat /\ maxfd \in Nat /\ nready \in Int
    /\ maxi \in Int /\ maxi < FD_SETSIZE

(* The parts of the pool agree at every step, not only in select. *)
Agree ==
    /\ read_set = {listenfd} \cup Active
    /\ \A fd \in Fds : open[fd] /= None <=> \E k \in Slots : clientfd[k] = fd
    /\ \A j, k \in Slots : clientfd[j] = clientfd[k] /\ clientfd[k] > 0 => j = k
    /\ \A fd \in read_set : fd <= maxfd
    /\ \A k \in Slots : clientfd[k] > 0 => k <= maxi

(* What is still to be served: all that is ready, then the slots from i,   *)
(* then the slots after i, the one being served.                           *)
ReadyFrom(j) == {k \in Slots : k >= j /\ Ready(k)}
Counted ==
    /\ pc /= "select" => ready_set \subseteq {listenfd} \cup Fds
    /\ pc = "accept" => /\ ready_set \subseteq read_set /\ nready = Cardinality(ready_set)
                        /\ listenfd \in ready_set => backlog /= << >>
    /\ pc = "check" => nready = Cardinality(ReadyFrom(i))
    /\ pc \in {"read", "echo"} => /\ i \in Slots /\ clientfd[i] \in Fds
                                  /\ nready = Cardinality(ReadyFrom(i + 1))

PoolInv == PoolTypes /\ Agree /\ Counted

--------------------------------------------------------------------------------
(* Lemmas about slots and descriptors *)

(* What the constants are. *)
LEMMA Descriptors ==
  /\ FD_SETSIZE \in Nat /\ FD_SETSIZE > 1 /\ Fds = 1 .. FD_SETSIZE - 1
  /\ Slots = 0 .. FD_SETSIZE - 1 /\ listenfd = 0 /\ None \notin Clients
  /\ listenfd \notin Fds /\ Fds \subseteq Nat /\ Slots \subseteq Nat
BY SelectAssumption DEF Fds, Slots, listenfd

(* A one-to-one map preserves the number of elements. *)
LEMMA SameNumber ==
  ASSUME NEW S, IsFiniteSet(S), NEW T, NEW f, \A x \in S : f[x] \in T,
         \A x, y \in S : f[x] = f[y] => x = y,
         \A t \in T : \E x \in S : f[x] = t
  PROVE  IsFiniteSet(T) /\ Cardinality(T) = Cardinality(S)
<1> DEFINE g == [x \in S |-> f[x]]
<1>1. g \in Bijection(S, T)
  BY DEF Bijection, Injection, Surjection, IsInjective
<1> QED BY <1>1, FS_Bijection DEF ExistsBijection

(* The sets that the server counts are finite. *)
LEMMA FiniteSlots ==
  /\ \A S \in SUBSET Slots : IsFiniteSet(S)
  /\ \A S \in SUBSET ({listenfd} \cup Fds) : IsFiniteSet(S)
<1>1. IsFiniteSet(0 .. FD_SETSIZE - 1)
  BY Descriptors, FS_Interval
<1>2. Slots = 0 .. FD_SETSIZE - 1 /\ {listenfd} \cup Fds = 0 .. FD_SETSIZE - 1
  BY Descriptors
<1> QED BY <1>1, <1>2, FS_Subset

(* The active descriptors are those in the slots. *)
LEMMA ActiveAre ==
  ASSUME PoolTypes
  PROVE  /\ Active \subseteq Fds
         /\ \A fd \in Fds : fd \in Active <=> \E k \in Slots : clientfd[k] = fd
         /\ \A k \in Slots : /\ clientfd[k] > 0 <=> clientfd[k] \in Fds
                             /\ clientfd[k] < 0 <=> clientfd[k] = -1
                             /\ clientfd[k] = -1 \/ clientfd[k] \in Fds
<1>1. \A k \in Slots : /\ clientfd[k] > 0 <=> clientfd[k] \in Fds
                       /\ clientfd[k] < 0 <=> clientfd[k] = -1
                       /\ clientfd[k] = -1 \/ clientfd[k] \in Fds
  BY Descriptors DEF PoolTypes
<1>2. Active \subseteq Fds
  BY <1>1 DEF Active
<1>3. \A fd \in Fds : fd \in Active <=> \E k \in Slots : clientfd[k] = fd
  BY <1>1 DEF Active
<1> QED BY <1>1, <1>2, <1>3

(* There are more slots than descriptors: add_client finds one. *)
LEMMA SlotForClient ==
  ASSUME PoolTypes, Agree
  PROVE  FreeSlots /= {}
<1> SUFFICES ASSUME FreeSlots = {} PROVE FALSE
  OBVIOUS
<1>1. \A k \in Slots : clientfd[k] \in Fds /\ clientfd[k] > 0
  BY ActiveAre DEF FreeSlots
<1>2. clientfd \in [Slots -> Fds]
  BY <1>1 DEF PoolTypes
<1>3. IsFiniteSet(Slots) /\ IsFiniteSet(Fds) /\ Cardinality(Fds) < Cardinality(Slots)
  <2>1. /\ IsFiniteSet(0 .. FD_SETSIZE - 1) /\ Cardinality(0 .. FD_SETSIZE - 1) = FD_SETSIZE
        /\ IsFiniteSet(1 .. FD_SETSIZE - 1) /\ Cardinality(1 .. FD_SETSIZE - 1) = FD_SETSIZE - 1
    BY Descriptors, FS_Interval
  <2> QED BY <2>1, Descriptors
<1>4. \E j, k \in Slots : j /= k /\ clientfd[j] = clientfd[k]
  BY <1>2, <1>3, FS_PigeonHole
<1> QED BY <1>1, <1>4 DEF Agree

(* The slots that are ready are as many as the clients that are.           *)
LEMMA ReadySlots ==
  ASSUME PoolTypes, Agree, ready_set \subseteq read_set
  PROVE  Cardinality(ReadyFrom(0)) = Cardinality(ready_set \ {listenfd})
<1> DEFINE S == ReadyFrom(0)
           T == ready_set \ {listenfd}
<1>1. \A k \in Slots : k \in S <=> clientfd[k] \in Fds /\ clientfd[k] \in ready_set
  BY ActiveAre, Descriptors DEF ReadyFrom, Ready
<1>2. S \subseteq Slots /\ IsFiniteSet(S)
  BY FiniteSlots DEF ReadyFrom
<1>3. T \subseteq Active
  BY DEF Agree
<1>4. \A x \in S : clientfd[x] \in T
  BY <1>1, <1>2, Descriptors
<1>5. \A x, y \in S : clientfd[x] = clientfd[y] => x = y
  BY <1>1, <1>2, ActiveAre DEF Agree
<1>6. \A t \in T : \E x \in S : clientfd[x] = t
  BY <1>1, <1>3, ActiveAre
<1> HIDE DEF S, T
<1>7. Cardinality(T) = Cardinality(S)
  BY <1>2, <1>4, <1>5, <1>6, SameNumber
<1> QED BY <1>7 DEF S, T

(* The slots from j are j, if it is ready, and those after it.             *)
LEMMA ReadyNext ==
  ASSUME NEW j \in Slots
  PROVE  Cardinality(ReadyFrom(j)) = Cardinality(ReadyFrom(j + 1)) + IF Ready(j) THEN 1 ELSE 0
<1>1. IsFiniteSet(ReadyFrom(j + 1)) /\ Cardinality(ReadyFrom(j + 1)) \in Nat
  BY FiniteSlots, FS_CardinalityType DEF ReadyFrom
<1>2. j \notin ReadyFrom(j + 1)
  BY Descriptors DEF ReadyFrom
<1>3. CASE Ready(j)
  <2>1. ReadyFrom(j) = ReadyFrom(j + 1) \cup {j}
    BY <1>3, Descriptors DEF ReadyFrom
  <2> QED BY <1>1, <1>2, <1>3, <2>1, FS_AddElement
<1>4. CASE ~Ready(j)
  <2>1. ReadyFrom(j) = ReadyFrom(j + 1)
    <3>1. \A k \in Slots : k >= j /\ Ready(k) <=> k >= j + 1 /\ Ready(k)
      BY <1>4, Descriptors
    <3> QED BY <3>1 DEF ReadyFrom
  <2> QED BY <1>1, <1>4, <2>1
<1> QED BY <1>3, <1>4

--------------------------------------------------------------------------------
(* The invariant holds at first *)

(* init_pool makes an empty pool that agrees. *)
LEMMA PoolInit == Init => PoolInv
<1> SUFFICES ASSUME Init PROVE PoolInv
  OBVIOUS
<1> USE DEF Init
<1>1. PoolTypes
  <2>1. maxi = -1 /\ -1 \in Int /\ -1 < FD_SETSIZE
    BY Descriptors
  <2> QED BY <2>1, Descriptors DEF PoolTypes, Places
<1>2. \A k \in Slots : ~(clientfd[k] > 0) /\ clientfd[k] = -1
  BY Descriptors
<1>3. Agree
  <2>1. Active = {}
    BY <1>2 DEF Active
  <2>2. \A fd \in Fds : open[fd] = None /\ \A k \in Slots : clientfd[k] /= fd
    BY <1>2, Descriptors
  <2>3. \A fd \in read_set : fd <= maxfd
    BY Descriptors
  <2> QED BY <1>2, <2>1, <2>2, <2>3 DEF Agree
<1>4. Counted
  BY DEF Counted
<1> QED BY <1>1, <1>3, <1>4 DEF PoolInv

--------------------------------------------------------------------------------
(* The steps that leave the slots and descriptors alone *)

(* What the pool and the tables of descriptors must be for the parts to agree. *)
LEMMA SameAgree ==
  ASSUME Agree, UNCHANGED <<read_set, clientfd, open, maxfd, maxi>>
  PROVE  Agree'
<1>1. Active' = Active
  BY DEF Active
<1> QED BY <1>1 DEF Agree

(* The slots that are ready stay so. *)
LEMMA SameReady ==
  ASSUME UNCHANGED <<clientfd, ready_set>>, NEW j
  PROVE  ReadyFrom(j)' = ReadyFrom(j)
BY DEF ReadyFrom, Ready

(* Steps of the clients and of the network: no part of the pool changes. *)
LEMMA SamePool ==
  ASSUME PoolInv, UNCHANGED <<pool, pc, i, open>>, backlog' \in Seq(Clients),
         backlog /= << >> => backlog' /= << >>
  PROVE  PoolInv'
<1> USE DEF pool
<1>1. PoolTypes'
  BY DEF PoolInv, PoolTypes
<1>2. Agree'
  BY SameAgree DEF PoolInv
<1>3. ReadyFrom(i)' = ReadyFrom(i) /\ ReadyFrom(i + 1)' = ReadyFrom(i + 1)
  BY DEF ReadyFrom, Ready
<1>4. Counted'
  BY <1>3 DEF PoolInv, Counted
<1> QED BY <1>1, <1>2, <1>4 DEF PoolInv

(* The clients and the network leave the invariant alone. *)
LEMMA OthersKeepPool ==
  ASSUME PoolInv,
         (\E c \in Clients : Connect(c) \/ ClientRuns(c) \/ Deliver(c) \/ Die(c))
           \/ UNCHANGED vars
  PROVE  PoolInv'
<1> USE DEF server, locals
<1>0. backlog \in Seq(Clients)
  BY DEF PoolInv, PoolTypes
<1>1. CASE \E c \in Clients : Connect(c)
  <2>1. PICK c \in Clients : Connect(c)
    BY <1>1
  <2>2. backlog' = Append(backlog, c) /\ UNCHANGED <<pool, pc, i, open>>
    BY <2>1 DEF Connect
  <2>3. backlog' \in Seq(Clients) /\ backlog' /= << >>
    BY <1>0, <2>2
  <2> QED BY <2>2, <2>3, SamePool
<1>2. CASE \E c \in Clients : ClientRuns(c) \/ Deliver(c) \/ Die(c)
  <2>1. UNCHANGED <<pool, pc, i, open, backlog>>
    BY <1>2 DEF ClientRuns, SendLine, ReadEcho, CloseClient, Deliver, Die
  <2> QED BY <1>0, <2>1, SamePool
<1>3. CASE UNCHANGED vars
  <2>1. UNCHANGED <<pool, pc, i, open, backlog>>
    BY <1>3 DEF vars
  <2> QED BY <1>0, <2>1, SamePool
<1> QED BY <1>1, <1>2, <1>3

(* Fails and AcceptFails exit, and Refill reads: nothing of the pool changes. *)
LEMMA ReadsKeepPool ==
  ASSUME PoolInv, AcceptFails \/ Refill \/ Fails
  PROVE  PoolInv'
<1>1. UNCHANGED <<pool, pc, i, open, backlog>>
  BY DEF AcceptFails, Refill, Fails, Goes, Proceeds, locals
<1>2. backlog \in Seq(Clients)
  BY DEF PoolInv, PoolTypes
<1> QED BY <1>1, <1>2, SamePool

(* select returns the descriptors that are ready and their number. *)
LEMMA SelectKeepsPool ==
  ASSUME PoolInv, Select
  PROVE  PoolInv'
<1> USE DEF Select, Goes, Proceeds, PoolInv
<1>1. ready_set' \subseteq read_set /\ nready' = Cardinality(ready_set')
  OBVIOUS
<1>2. ready_set' \subseteq {listenfd} \cup Fds
  BY <1>1, ActiveAre DEF Agree
<1>3. nready' \in Nat
  BY <1>1, <1>2, FiniteSlots, FS_CardinalityType
<1>4. listenfd \in ready_set' => backlog' /= << >>
  BY DEF Readable
<1>5. PoolTypes'
  BY <1>3 DEF PoolTypes, Places
<1>6. Agree'
  BY SameAgree
<1>7. Counted'
  BY <1>1, <1>2, <1>4 DEF Counted
<1> QED BY <1>5, <1>6, <1>7

(* Nobody to accept: the ready descriptors are all of clients. *)
LEMMA AcceptNobodyKeepsPool ==
  ASSUME PoolInv, AcceptNobody
  PROVE  PoolInv'
<1> USE DEF AcceptNobody, Goes, Proceeds, PoolInv, pool
<1>1. PoolTypes'
  BY DEF PoolTypes, Places
<1>2. Agree'
  BY SameAgree
<1>3. nready = Cardinality(ReadyFrom(0))
  <2>1. ready_set \subseteq read_set /\ nready = Cardinality(ready_set)
    BY DEF Counted
  <2>2. ready_set \ {listenfd} = ready_set
    OBVIOUS
  <2> QED BY <2>1, <2>2, ReadySlots
<1>4. ReadyFrom(i)' = ReadyFrom(0)
  BY DEF ReadyFrom, Ready
<1>5. Counted'
  BY <1>3, <1>4 DEF Counted
<1> QED BY <1>1, <1>2, <1>5

--------------------------------------------------------------------------------
(* add_client *)

(* The slot that add_client takes and the descriptor that accept gives are free. *)
LEMMA FreeOnes ==
  ASSUME PoolTypes, Agree, FreeFds /= {}
  PROVE  /\ Min(FreeSlots) \in Slots /\ clientfd[Min(FreeSlots)] = -1
         /\ Min(FreeFds) \in Fds /\ open[Min(FreeFds)] = None
<1>1. FreeSlots \in SUBSET Nat /\ FreeFds \in SUBSET Nat
  BY Descriptors DEF FreeSlots, FreeFds
<1>2. Min(FreeSlots) \in FreeSlots /\ Min(FreeFds) \in FreeFds
  BY <1>1, SlotForClient, LeastElement
<1> QED BY <1>2, ActiveAre DEF FreeSlots, FreeFds

(* A new client gets a slot, a descriptor in read_set and marks above them. *)
LEMMA AcceptClientKeepsPool ==
  ASSUME PoolInv, AcceptClient
  PROVE  PoolInv'
<1> DEFINE s == Min(FreeSlots)
           d == Min(FreeFds)
<1>1. /\ ready_set \subseteq read_set /\ nready = Cardinality(ready_set)
      /\ ready_set \subseteq {listenfd} \cup Fds
      /\ backlog /= << >> /\ listenfd \in ready_set
  BY DEF PoolInv, Counted, AcceptClient, Goes, Proceeds
<1>2. s \in Slots /\ clientfd[s] = -1 /\ d \in Fds /\ open[d] = None
  BY FreeOnes DEF PoolInv, AcceptClient
<1>3. /\ pc' = "check" /\ i' = 0 /\ nready' = nready - 1 /\ ready_set' = ready_set
      /\ clientfd' = [clientfd EXCEPT ![s] = d]
      /\ read_set' = read_set \cup {d}
      /\ maxfd' = (IF d > maxfd THEN d ELSE maxfd)
      /\ maxi' = (IF s > maxi THEN s ELSE maxi)
      /\ open' = [open EXCEPT ![d] = Head(backlog)] /\ backlog' = Tail(backlog)
  BY DEF AcceptClient, Goes, Proceeds, add_client
<1> HIDE DEF s, d
<1>4. /\ clientfd \in [Slots -> {-1} \cup Fds] /\ open \in [Fds -> Clients \cup {None}]
      /\ maxi \in Int /\ maxi < FD_SETSIZE /\ maxfd \in Nat /\ nready \in Int
      /\ backlog \in Seq(Clients)
  BY DEF PoolInv, PoolTypes
<1>5. Head(backlog) \in Clients /\ Tail(backlog) \in Seq(Clients)
  BY <1>1, <1>4
<1>6. /\ clientfd' \in [Slots -> {-1} \cup Fds] /\ clientfd'[s] = d
      /\ \A k \in Slots : k /= s => clientfd'[k] = clientfd[k]
  BY <1>2, <1>3, <1>4
<1>7. /\ open' \in [Fds -> Clients \cup {None}] /\ open'[d] \in Clients
      /\ \A fd \in Fds : fd /= d => open'[fd] = open[fd]
  BY <1>2, <1>3, <1>4, <1>5
<1>8. PoolTypes'
  <2>1. maxi' \in Int /\ maxi' < FD_SETSIZE /\ maxfd' \in Nat /\ nready' \in Int
    BY <1>2, <1>3, <1>4, Descriptors
  <2>2. pc' \in Places /\ i' \in Nat
    BY <1>3 DEF Places
  <2> QED BY <1>3, <1>5, <1>6, <1>7, <2>1, <2>2 DEF PoolTypes
<1>9. /\ read_set = {listenfd} \cup Active
      /\ \A fd \in Fds : open[fd] /= None <=> \E k \in Slots : clientfd[k] = fd
      /\ \A j, k \in Slots : clientfd[j] = clientfd[k] /\ clientfd[k] > 0 => j = k
      /\ \A fd \in read_set : fd <= maxfd
      /\ \A k \in Slots : clientfd[k] > 0 => k <= maxi
  BY DEF PoolInv, Agree
<1>10. \A k \in Slots : clientfd[k] /= d
  BY <1>2, <1>9
<1>11. Active' = Active \cup {d}
  <2>0. PoolTypes
    BY DEF PoolInv
  <2>1. Active \subseteq Fds /\ \A fd \in Fds : fd \in Active <=> \E k \in Slots : clientfd[k] = fd
    BY <2>0, ActiveAre
  <2>2. /\ Active' \subseteq Fds
        /\ \A fd \in Fds : fd \in Active' <=> \E k \in Slots : clientfd'[k] = fd
    <3>1. \A k \in Slots : clientfd'[k] > 0 <=> clientfd'[k] \in Fds
      BY <1>6, Descriptors
    <3>2. Active' = {clientfd'[k] : k \in {q \in Slots : clientfd'[q] > 0}}
      BY DEF Active
    <3> QED BY <3>1, <3>2
  <2>3. \A fd \in Fds : (\E k \in Slots : clientfd'[k] = fd)
                          <=> (fd = d \/ \E k \in Slots : clientfd[k] = fd)
    <3>1. -1 \notin Fds
      BY Descriptors
    <3> QED BY <1>2, <1>6, <3>1
  <2> QED BY <1>2, <2>1, <2>2, <2>3
<1>12. Agree'
  <2>1. read_set' = {listenfd} \cup Active'
    BY <1>3, <1>9, <1>11
  <2>2. \A fd \in Fds : open'[fd] /= None <=> \E k \in Slots : clientfd'[k] = fd
    <3>1. -1 \notin Fds /\ None \notin Clients
      BY Descriptors
    <3> QED BY <1>2, <1>6, <1>7, <1>9, <3>1
  <2>3. \A j, k \in Slots : clientfd'[j] = clientfd'[k] /\ clientfd'[k] > 0 => j = k
    BY <1>6, <1>9, <1>10
  <2>4. \A fd \in read_set' : fd <= maxfd'
    <3>1. read_set \subseteq {listenfd} \cup Fds
      BY <1>9, ActiveAre DEF PoolInv
    <3>2. \A fd \in read_set : fd \in Nat /\ fd <= maxfd
      BY <1>9, <3>1, Descriptors
    <3>3. d \in Nat
      BY <1>2, Descriptors
    <3> QED BY <1>3, <1>4, <3>2, <3>3
  <2>5. \A k \in Slots : clientfd'[k] > 0 => k <= maxi'
    <3>1. Slots \subseteq Nat
      BY Descriptors
    <3> QED BY <1>2, <1>3, <1>4, <1>6, <1>9, <3>1
  <2> QED BY <2>1, <2>2, <2>3, <2>4, <2>5 DEF Agree
<1>13. nready' = Cardinality(ReadyFrom(0))
  <2>1. IsFiniteSet(ready_set) /\ Cardinality(ready_set) \in Nat
    BY <1>1, FiniteSlots, FS_CardinalityType
  <2>2. Cardinality(ready_set \ {listenfd}) = Cardinality(ready_set) - 1
    BY <1>1, <2>1, FS_RemoveElement
  <2> QED BY <1>1, <1>3, <2>2, ReadySlots DEF PoolInv
<1>14. ReadyFrom(i)' = ReadyFrom(0)
  <2>1. d \notin ready_set /\ ~(-1 > 0)
    <3>1. d \notin Active
      BY <1>10 DEF Active
    <3> QED BY <1>1, <1>2, <1>9, <3>1, Descriptors
  <2>2. \A k \in Slots : Ready(k)' <=> Ready(k)
    BY <1>2, <1>3, <1>6, <2>1 DEF Ready
  <2>3. ReadyFrom(i)' = {k \in Slots : k >= 0 /\ Ready(k)'}
    BY <1>3 DEF ReadyFrom
  <2>4. {k \in Slots : k >= 0 /\ Ready(k)'} = {k \in Slots : k >= 0 /\ Ready(k)}
    BY <2>2, Zenon
  <2> QED BY <2>3, <2>4 DEF ReadyFrom
<1>15. Counted'
  BY <1>1, <1>3, <1>13, <1>14 DEF Counted
<1> QED BY <1>8, <1>12, <1>15 DEF PoolInv

--------------------------------------------------------------------------------
(* check_clients *)

(* The steps of the loop that keep the slots: the count goes down with i. *)
LEMMA CheckKeepsPool ==
  ASSUME PoolInv, CheckReady \/ CheckOther \/ CheckEnds \/ TakePiece \/ Echo
  PROVE  PoolInv'
<1>1. /\ UNCHANGED <<read_set, clientfd, open, maxfd, maxi, ready_set, backlog>>
      /\ pc \in {"check", "read", "echo"}
  BY DEF CheckReady, CheckOther, CheckEnds, TakePiece, Echo, Goes, Proceeds, pool
<1>2. Agree'
  BY <1>1, SameAgree DEF PoolInv
<1>3. ready_set' \subseteq {listenfd} \cup Fds
  BY <1>1 DEF PoolInv, Counted
<1>4. PoolTypes
  BY DEF PoolInv
<1>5. ReadyFrom(i)' = {k \in Slots : k >= i' /\ Ready(k)}
  BY <1>1 DEF ReadyFrom, Ready
<1>6. ReadyFrom(i + 1)' = {k \in Slots : k >= i' + 1 /\ Ready(k)}
  BY <1>1 DEF ReadyFrom, Ready
<1>7. CASE CheckReady
  <2>1. /\ pc = "check" /\ pc' = "read" /\ i' = i /\ nready' = nready - 1
        /\ i <= maxi /\ Ready(i)
    BY <1>7 DEF CheckReady, Goes, Proceeds, Looping
  <2>2. i \in Slots /\ clientfd[i] \in Fds
    BY <1>4, <2>1, ActiveAre, Descriptors DEF PoolTypes, Ready
  <2>3. /\ nready = Cardinality(ReadyFrom(i)) /\ Cardinality(ReadyFrom(i + 1)) \in Nat
    BY <2>1, FiniteSlots, FS_CardinalityType DEF PoolInv, Counted, ReadyFrom
  <2>4. nready' = Cardinality(ReadyFrom(i + 1))
    BY <2>1, <2>2, <2>3, ReadyNext
  <2>5. ReadyFrom(i + 1)' = ReadyFrom(i + 1)
    BY <1>6, <2>1 DEF ReadyFrom
  <2>6. PoolTypes'
    BY <1>1, <1>4, <2>1 DEF PoolTypes, Places
  <2>7. Counted'
    BY <1>1, <1>3, <2>1, <2>2, <2>4, <2>5 DEF Counted
  <2> QED BY <1>2, <2>6, <2>7 DEF PoolInv
<1>8. CASE CheckOther
  <2>1. /\ pc = "check" /\ pc' = "check" /\ i' = i + 1 /\ nready' = nready
        /\ i <= maxi /\ ~Ready(i)
    BY <1>8 DEF CheckOther, Goes, Proceeds, Looping, pool
  <2>2. i \in Slots
    BY <1>4, <2>1, Descriptors DEF PoolTypes
  <2>3. nready = Cardinality(ReadyFrom(i)) /\ Cardinality(ReadyFrom(i + 1)) \in Nat
    BY <2>1, FiniteSlots, FS_CardinalityType DEF PoolInv, Counted, ReadyFrom
  <2>4. nready' = Cardinality(ReadyFrom(i + 1))
    BY <2>1, <2>2, <2>3, ReadyNext
  <2>5. ReadyFrom(i)' = ReadyFrom(i + 1)
    BY <1>5, <2>1 DEF ReadyFrom
  <2>6. PoolTypes'
    BY <1>1, <1>4, <2>1 DEF PoolTypes, Places
  <2>7. Counted'
    BY <1>1, <1>3, <2>1, <2>4, <2>5 DEF Counted
  <2> QED BY <1>2, <2>6, <2>7 DEF PoolInv
<1>9. CASE CheckEnds
  <2>1. pc' = "select" /\ i' = i /\ nready' = nready
    BY <1>9 DEF CheckEnds, Goes, Proceeds, pool
  <2>2. PoolTypes'
    BY <1>1, <1>4, <2>1 DEF PoolTypes, Places
  <2>3. Counted'
    BY <2>1 DEF Counted
  <2> QED BY <1>2, <2>2, <2>3 DEF PoolInv
<1>10. CASE TakePiece
  <2>1. pc = "read" /\ pc' \in {"read", "echo"} /\ i' = i /\ nready' = nready
    BY <1>10 DEF TakePiece, Goes, Proceeds, pool
  <2>2. i \in Slots /\ clientfd[i] \in Fds /\ nready = Cardinality(ReadyFrom(i + 1))
    BY <2>1 DEF PoolInv, Counted
  <2>3. ReadyFrom(i + 1)' = ReadyFrom(i + 1)
    BY <1>6, <2>1 DEF ReadyFrom
  <2>4. PoolTypes'
    BY <1>1, <1>4, <2>1 DEF PoolTypes, Places
  <2>5. Counted'
    BY <1>1, <1>3, <2>1, <2>2, <2>3 DEF Counted
  <2> QED BY <1>2, <2>4, <2>5 DEF PoolInv
<1>11. CASE Echo
  <2>1. pc = "echo" /\ pc' = "check" /\ i' = i + 1 /\ nready' = nready
    BY <1>11 DEF Echo, Goes, Proceeds, pool
  <2>2. nready = Cardinality(ReadyFrom(i + 1))
    BY <2>1 DEF PoolInv, Counted
  <2>3. ReadyFrom(i)' = ReadyFrom(i + 1)
    BY <1>5, <2>1 DEF ReadyFrom
  <2>4. PoolTypes'
    BY <1>1, <1>4, <2>1 DEF PoolTypes, Places
  <2>5. Counted'
    BY <1>1, <1>3, <2>1, <2>2, <2>3 DEF Counted
  <2> QED BY <1>2, <2>4, <2>5 DEF PoolInv
<1> QED BY <1>7, <1>8, <1>9, <1>10, <1>11

(* EOF: the client leaves its slot, read_set and the table of descriptors. *)
LEMMA RemoveClientKeepsPool ==
  ASSUME PoolInv, RemoveClient
  PROVE  PoolInv'
<1> DEFINE d == clientfd[i]
<1>1. /\ pc = "read" /\ pc' = "check" /\ i' = i + 1
      /\ open' = [open EXCEPT ![d] = None]
      /\ read_set' = read_set \ {d}
      /\ clientfd' = [clientfd EXCEPT ![i] = -1]
      /\ UNCHANGED <<maxfd, ready_set, nready, maxi, backlog>>
  BY DEF RemoveClient, Goes, Proceeds
<1>2. /\ i \in Slots /\ d \in Fds /\ nready = Cardinality(ReadyFrom(i + 1))
      /\ ready_set \subseteq {listenfd} \cup Fds
  BY <1>1 DEF PoolInv, Counted
<1>3. /\ clientfd \in [Slots -> {-1} \cup Fds] /\ open \in [Fds -> Clients \cup {None}]
      /\ maxi \in Int /\ maxi < FD_SETSIZE /\ maxfd \in Nat /\ nready \in Int
      /\ backlog \in Seq(Clients) /\ i \in Nat
  BY DEF PoolInv, PoolTypes
<1>4. /\ read_set = {listenfd} \cup Active
      /\ \A fd \in Fds : open[fd] /= None <=> \E k \in Slots : clientfd[k] = fd
      /\ \A j, k \in Slots : clientfd[j] = clientfd[k] /\ clientfd[k] > 0 => j = k
      /\ \A fd \in read_set : fd <= maxfd
      /\ \A k \in Slots : clientfd[k] > 0 => k <= maxi
  BY DEF PoolInv, Agree
<1>5. d > 0 /\ \A k \in Slots : clientfd[k] = d => k = i
  <2>1. d > 0
    BY <1>2, Descriptors
  <2> QED BY <1>2, <1>4, <2>1
<1> HIDE DEF d
<1>6. /\ clientfd' \in [Slots -> {-1} \cup Fds] /\ clientfd'[i] = -1
      /\ \A k \in Slots : k /= i => clientfd'[k] = clientfd[k]
  BY <1>1, <1>2, <1>3
<1>7. /\ open' \in [Fds -> Clients \cup {None}] /\ open'[d] = None
      /\ \A fd \in Fds : fd /= d => open'[fd] = open[fd]
  BY <1>1, <1>2, <1>3
<1>8. PoolTypes'
  BY <1>1, <1>3, <1>6, <1>7 DEF PoolTypes, Places
<1>9. clientfd[i] = d /\ -1 \notin Fds
  BY Descriptors DEF d
<1>10. \A fd \in Fds : (\E k \in Slots : clientfd'[k] = fd)
                         <=> (fd /= d /\ \E k \in Slots : clientfd[k] = fd)
  BY <1>2, <1>5, <1>6, <1>9
<1>11. Active' = Active \ {d}
  <2>0. PoolTypes
    BY DEF PoolInv
  <2>1. Active \subseteq Fds /\ \A fd \in Fds : fd \in Active <=> \E k \in Slots : clientfd[k] = fd
    BY <2>0, ActiveAre
  <2>2. /\ Active' \subseteq Fds
        /\ \A fd \in Fds : fd \in Active' <=> \E k \in Slots : clientfd'[k] = fd
    <3>1. \A k \in Slots : clientfd'[k] > 0 <=> clientfd'[k] \in Fds
      BY <1>6, Descriptors
    <3>2. Active' = {clientfd'[k] : k \in {q \in Slots : clientfd'[q] > 0}}
      BY DEF Active
    <3> QED BY <3>1, <3>2
  <2> QED BY <1>10, <2>1, <2>2
<1>12. Agree'
  <2>1. read_set' = {listenfd} \cup Active'
    BY <1>1, <1>2, <1>4, <1>11, Descriptors
  <2>2. \A fd \in Fds : open'[fd] /= None <=> \E k \in Slots : clientfd'[k] = fd
    BY <1>4, <1>7, <1>10
  <2>3. \A j, k \in Slots : clientfd'[j] = clientfd'[k] /\ clientfd'[k] > 0 => j = k
    <3>1. ~(-1 > 0)
      OBVIOUS
    <3> QED BY <1>4, <1>6, <3>1
  <2>4. \A fd \in read_set' : fd <= maxfd'
    BY <1>1, <1>4
  <2>5. \A k \in Slots : clientfd'[k] > 0 => k <= maxi'
    <3>1. ~(-1 > 0)
      OBVIOUS
    <3> QED BY <1>1, <1>4, <1>6, <3>1
  <2> QED BY <2>1, <2>2, <2>3, <2>4, <2>5 DEF Agree
<1>13. ReadyFrom(i)' = ReadyFrom(i + 1)
  <2>1. \A k \in Slots : k >= i + 1 => k /= i
    BY <1>3, Descriptors
  <2>2. \A k \in Slots : (k >= i + 1 /\ Ready(k)') <=> (k >= i + 1 /\ Ready(k))
    BY <1>1, <1>6, <2>1 DEF Ready
  <2>3. ReadyFrom(i)' = {k \in Slots : k >= i + 1 /\ Ready(k)'}
    BY <1>1 DEF ReadyFrom
  <2>4. {k \in Slots : k >= i + 1 /\ Ready(k)'} = {k \in Slots : k >= i + 1 /\ Ready(k)}
    BY <2>2, Zenon
  <2> QED BY <2>3, <2>4 DEF ReadyFrom
<1>14. Counted'
  BY <1>1, <1>2, <1>13 DEF Counted
<1> QED BY <1>8, <1>12, <1>14 DEF PoolInv

--------------------------------------------------------------------------------
(* The theorems *)

(* The invariant holds in every reachable state. *)
LEMMA PoolInvariant == Spec => []PoolInv
<1>1. PoolInv /\ [Next]_vars => PoolInv'
  BY OthersKeepPool, ReadsKeepPool, SelectKeepsPool, AcceptNobodyKeepsPool,
     AcceptClientKeepsPool, CheckKeepsPool, RemoveClientKeepsPool DEF Next, Server
<1> QED BY PoolInit, <1>1, PTL DEF Spec

(* Between two passes of the main loop of echoservers.c the parts of the    *)
(* pool agree: read_set is the listening descriptor and those of the        *)
(* connected clients, each in one slot, and maxfd and maxi cover them, so   *)
(* that select and check_clients overlook no client.                        *)
THEOREM PoolsAgree == Spec => []PoolConsistent
<1>1. PoolInv => PoolConsistent
  <2> SUFFICES ASSUME PoolInv PROVE PoolConsistent
    OBVIOUS
  <2> DEFINE S == {s \in Slots : clientfd[s] > 0}
  <2>1. PoolTypes /\ Agree
    BY DEF PoolInv
  <2>2. Active = {fd \in Fds : open[fd] /= None}
    BY <2>1, ActiveAre DEF Agree
  <2>3. IsFiniteSet(S) /\ Active = {clientfd[k] : k \in S}
    BY FiniteSlots DEF Active
  <2>4. \A x, y \in S : clientfd[x] = clientfd[y] => x = y
    BY <2>1 DEF Agree
  <2> HIDE DEF S
  <2>5. Cardinality(Active) = Cardinality(S)
    BY <2>3, <2>4, SameNumber
  <2> QED BY <2>1, <2>2, <2>5 DEF Agree, PoolConsistent, S
<1> QED BY PoolInvariant, <1>1, PTL

(* check_clients stops when nready is 0 or the slots to maxi are done       *)
(* (echoservers.c:105): by then it has served every client that select      *)
(* found ready, whichever clients it has removed on the way.                *)
THEOREM AllReadyServed == Spec => []NoReadySkipped
<1>1. PoolInv => NoReadySkipped
  <2> SUFFICES ASSUME PoolInv, pc = "check"
               PROVE  /\ nready = Cardinality(ReadyFrom(i))
                      /\ ~Looping => \A k \in Slots : k >= i => ~Ready(k)
    BY DEF NoReadySkipped, ReadyFrom
  <2>1. nready = Cardinality(ReadyFrom(i))
    BY DEF PoolInv, Counted
  <2>2. ASSUME ~Looping, NEW k \in Slots, k >= i
        PROVE  ~Ready(k)
    <3>1. CASE i <= maxi
      <4>1. IsFiniteSet(ReadyFrom(i)) /\ nready \in Nat
        BY <2>1, FiniteSlots, FS_CardinalityType DEF ReadyFrom
      <4>2. nready = 0
        BY <2>2, <3>1, <4>1 DEF Looping
      <4>3. ReadyFrom(i) = {}
        BY <2>1, <4>1, <4>2, FS_EmptySet
      <4> QED BY <2>2, <4>3 DEF ReadyFrom
    <3>2. CASE ~(i <= maxi)
      <4>1. i \in Nat /\ maxi \in Int /\ k \in Nat /\ \A s \in Slots : clientfd[s] > 0 => s <= maxi
        BY Descriptors DEF PoolInv, PoolTypes, Agree
      <4>2. ~(k <= maxi)
        BY <2>2, <3>2, <4>1
      <4> QED BY <4>1, <4>2 DEF Ready
    <3> QED BY <3>1, <3>2
  <2> QED BY <2>1, <2>2
<1> QED BY PoolInvariant, <1>1, PTL

--------------------------------------------------------------------------------
(* The way of a line *)

(* A line of two pieces, p and q: its pieces number x + 1 to y.            *)
Part(p, q, x, y) == CASE x = 0 /\ y = 1 -> <<p>>
                      [] x = 1 /\ y = 2 -> <<q>>
                      [] x = 0 /\ y = 2 -> <<p, q>>
                      [] OTHER -> << >>

(* The parts of a line that was taken apart in three places.               *)
LEMMA Parts ==
  ASSUME NEW p, NEW q, NEW x \in 0 .. 2, NEW y \in 0 .. 2, NEW z \in 0 .. 2, x <= y, y <= z
  PROVE  /\ Part(p, q, x, y) = << >> <=> x = y
         /\ y < z => /\ Head(Part(p, q, y, z)) = IF y = 0 THEN p ELSE q
                     /\ Append(Part(p, q, x, y), Head(Part(p, q, y, z))) = Part(p, q, x, y + 1)
                     /\ Tail(Part(p, q, y, z)) = Part(p, q, y + 1, z)
<1>1. /\ <<p>> /= << >> /\ <<q>> /= << >> /\ <<p, q>> /= << >>
      /\ Head(<<p>>) = p /\ Head(<<q>>) = q /\ Head(<<p, q>>) = p
      /\ Tail(<<p>>) = << >> /\ Tail(<<q>>) = << >> /\ Tail(<<p, q>>) = <<q>>
      /\ Append(<< >>, p) = <<p>> /\ Append(<< >>, q) = <<q>> /\ Append(<<p>>, q) = <<p, q>>
  <2>1. <<p>> /= << >> /\ <<q>> /= << >> /\ <<p, q>> /= << >>
    OBVIOUS
  <2>2. Head(<<p>>) = p /\ Head(<<q>>) = q /\ Head(<<p, q>>) = p
    OBVIOUS
  <2>3. Tail(<<p>>) = << >> /\ Tail(<<q>>) = << >>
    OBVIOUS
  <2>4. Tail(<<p, q>>) = <<q>>
    OBVIOUS
  <2>5. Append(<< >>, p) = <<p>> /\ Append(<< >>, q) = <<q>>
    OBVIOUS
  <2>6. Append(<<p>>, q) = <<p, q>>
    <3>1. <<p>> \in Seq({p, q}) /\ <<p, q>> \in Seq({p, q}) /\ Len(<<p>>) = 1 /\ Len(<<p, q>>) = 2
          /\ <<p, q>>[1] = p /\ <<p, q>>[2] = q /\ <<p>>[1] = p /\ q \in {p, q}
      OBVIOUS
    <3>2. PICK s : s = Append(<<p>>, q)
      OBVIOUS
    <3>3. s \in Seq({p, q}) /\ Len(s) = 2 /\ s[1] = p /\ s[2] = q
      <4>1. 1 \in 1 .. Len(<<p>>) /\ Len(<<p>>) + 1 = 2
        BY <3>1
      <4> QED BY <3>1, <3>2, <4>1, AppendProperties
    <3>4. s = <<p, q>>
      <4>1. \A k \in 1 .. Len(s) : s[k] = <<p, q>>[k]
        <5>1. \A k \in 1 .. 2 : k = 1 \/ k = 2
          OBVIOUS
        <5> QED BY <3>1, <3>3, <5>1
      <4>2. Len(s) = Len(<<p, q>>)
        BY <3>1, <3>3
      <4> QED BY <3>1, <3>3, <4>1, <4>2, SeqEqual
    <3> QED BY <3>2, <3>4
  <2> QED BY <2>1, <2>2, <2>3, <2>4, <2>5, <2>6
<1>2. x \in {0, 1, 2} /\ y \in {0, 1, 2} /\ z \in {0, 1, 2}
  OBVIOUS
<1>3. Part(p, q, x, y) = << >> <=> x = y
  BY <1>1, <1>2 DEF Part
<1>4. CASE y < z
  <2>1. \/ x = 0 /\ y = 0 /\ z = 1
        \/ x = 0 /\ y = 0 /\ z = 2
        \/ x = 0 /\ y = 1 /\ z = 2
        \/ x = 1 /\ y = 1 /\ z = 2
    BY <1>2, <1>4
  <2>2. /\ Part(p, q, 0, 1) = <<p>> /\ Part(p, q, 1, 2) = <<q>> /\ Part(p, q, 0, 2) = <<p, q>>
        /\ Part(p, q, 0, 0) = << >> /\ Part(p, q, 1, 1) = << >> /\ Part(p, q, 2, 2) = << >>
    BY DEF Part
  <2>3. CASE x = 0 /\ y = 0 /\ z = 1
    <3>1. /\ Part(p, q, x, y) = << >> /\ Part(p, q, y, z) = <<p>>
          /\ Part(p, q, x, y + 1) = <<p>> /\ Part(p, q, y + 1, z) = << >>
      BY <2>3 DEF Part
    <3>2. (IF y = 0 THEN p ELSE q) = p
      BY <2>3
    <3>3. Head(Part(p, q, y, z)) = p
      BY <1>1, <3>1
    <3>4. Append(Part(p, q, x, y), p) = Part(p, q, x, y + 1)
      BY <1>1, <3>1
    <3>5. Tail(Part(p, q, y, z)) = Part(p, q, y + 1, z)
      BY <1>1, <3>1
    <3> QED BY <1>3, <3>2, <3>3, <3>4, <3>5
  <2>4. CASE x = 0 /\ y = 0 /\ z = 2
    <3>1. /\ Part(p, q, x, y) = << >> /\ Part(p, q, y, z) = <<p, q>>
          /\ Part(p, q, x, y + 1) = <<p>> /\ Part(p, q, y + 1, z) = <<q>>
      BY <2>4 DEF Part
    <3>2. (IF y = 0 THEN p ELSE q) = p
      BY <2>4
    <3>3. Head(Part(p, q, y, z)) = p
      BY <1>1, <3>1
    <3>4. Append(Part(p, q, x, y), p) = Part(p, q, x, y + 1)
      BY <1>1, <3>1
    <3>5. Tail(Part(p, q, y, z)) = Part(p, q, y + 1, z)
      BY <1>1, <3>1
    <3> QED BY <1>3, <3>2, <3>3, <3>4, <3>5
  <2>5. CASE x = 0 /\ y = 1 /\ z = 2
    <3>1. /\ Part(p, q, x, y) = <<p>> /\ Part(p, q, y, z) = <<q>>
          /\ Part(p, q, x, y + 1) = <<p, q>> /\ Part(p, q, y + 1, z) = << >>
      BY <2>5 DEF Part
    <3>2. (IF y = 0 THEN p ELSE q) = q
      BY <2>5
    <3>3. Head(Part(p, q, y, z)) = q
      BY <1>1, <3>1
    <3>4. Append(Part(p, q, x, y), q) = Part(p, q, x, y + 1)
      BY <1>1, <3>1
    <3>5. Tail(Part(p, q, y, z)) = Part(p, q, y + 1, z)
      BY <1>1, <3>1
    <3> QED BY <1>3, <3>2, <3>3, <3>4, <3>5
  <2>6. CASE x = 1 /\ y = 1 /\ z = 2
    <3>1. /\ Part(p, q, x, y) = << >> /\ Part(p, q, y, z) = <<q>>
          /\ Part(p, q, x, y + 1) = <<q>> /\ Part(p, q, y + 1, z) = << >>
      BY <2>6 DEF Part
    <3>2. (IF y = 0 THEN p ELSE q) = q
      BY <2>6
    <3>3. Head(Part(p, q, y, z)) = q
      BY <1>1, <3>1
    <3>4. Append(Part(p, q, x, y), q) = Part(p, q, x, y + 1)
      BY <1>1, <3>1
    <3>5. Tail(Part(p, q, y, z)) = Part(p, q, y + 1, z)
      BY <1>1, <3>1
    <3> QED BY <1>3, <3>2, <3>3, <3>4, <3>5
  <2> QED BY <2>1, <2>3, <2>4, <2>5, <2>6
<1>5. CASE ~(y < z)
  BY <1>3, <1>5
<1> QED BY <1>4, <1>5

(* The text of a client's first n lines.                                   *)
Piece(c, j) == IF j % 2 = 1 THEN <<c, (j + 1) \div 2, "text">> ELSE <<c, j \div 2, "newline">>
Lines(c, n) == [j \in 1 .. 2 * n |-> Piece(c, j)]

(* One line more.                                                          *)
LEMMA NextLine ==
  ASSUME NEW c, NEW n \in Nat
  PROVE  Lines(c, n) \o Text(c, n + 1) = Lines(c, n + 1) /\ Len(Lines(c, n)) = 2 * n
<1>1. /\ Len(Lines(c, n)) = 2 * n /\ Lines(c, n) \in Seq({Piece(c, j) : j \in 1 .. 2 * n})
  BY DEF Lines
<1>2. /\ Len(Text(c, n + 1)) = 2 /\ Text(c, n + 1)[1] = <<c, n + 1, "text">>
      /\ Text(c, n + 1)[2] = <<c, n + 1, "newline">>
      /\ Text(c, n + 1) \in Seq({<<c, n + 1, "text">>, <<c, n + 1, "newline">>})
  BY DEF Text
<1> DEFINE T == Text(c, n + 1)
           L == Lines(c, n)
           S == {Piece(c, j) : j \in 1 .. 2 * n} \cup {<<c, n + 1, "text">>, <<c, n + 1, "newline">>}
<1>3. L \o T = [j \in 1 .. 2 * n + 2 |-> IF j <= 2 * n THEN L[j] ELSE T[j - 2 * n]]
  <2>1. /\ L \in Seq(S) /\ T \in Seq(S) /\ Len(L) = 2 * n /\ Len(T) = 2
    BY <1>1, <1>2
  <2> HIDE DEF L, T, S
  <2>2. L \o T \in Seq(S) /\ Len(L \o T) = Len(L) + Len(T)
        /\ \A j \in 1 .. Len(L) + Len(T) : (L \o T)[j] = IF j <= Len(L) THEN L[j] ELSE T[j - Len(L)]
    BY <2>1, ConcatProperties
  <2>3. PICK u \in Seq(S) : u = L \o T
    BY <2>2
  <2>4. Len(u) = 2 * n + 2
    BY <2>1, <2>2, <2>3
  <2>5. u = [j \in 1 .. 2 * n + 2 |-> u[j]]
    <3>1. u = [j \in 1 .. Len(u) |-> u[j]]
      BY <2>3, LenProperties
    <3> QED BY <2>4, <3>1
  <2>6. \A j \in 1 .. 2 * n + 2 : u[j] = IF j <= 2 * n THEN L[j] ELSE T[j - 2 * n]
    BY <2>1, <2>2, <2>3
  <2>7. u = [j \in 1 .. 2 * n + 2 |-> IF j <= 2 * n THEN L[j] ELSE T[j - 2 * n]]
    BY <2>5, <2>6
  <2> QED BY <2>3, <2>7
<1>4. ASSUME NEW j \in 1 .. 2 * n + 2
      PROVE  (IF j <= 2 * n THEN L[j] ELSE T[j - 2 * n]) = Piece(c, j)
  <2>1. CASE j <= 2 * n
    BY <2>1 DEF Lines
  <2>2. CASE j = 2 * n + 1
    <3>1. j % 2 = 1 /\ (j + 1) \div 2 = n + 1 /\ j - 2 * n = 1 /\ ~(j <= 2 * n)
      BY <2>2
    <3>2. Piece(c, j) = <<c, n + 1, "text">>
      BY <3>1 DEF Piece
    <3>3. T[j - 2 * n] = <<c, n + 1, "text">>
      BY <1>2, <3>1
    <3> QED BY <3>1, <3>2, <3>3
  <2>3. CASE j = 2 * n + 2
    <3>1. j % 2 = 0 /\ j \div 2 = n + 1 /\ j - 2 * n = 2 /\ ~(j <= 2 * n)
      BY <2>3
    <3>2. Piece(c, j) = <<c, n + 1, "newline">>
      BY <3>1 DEF Piece
    <3>3. T[j - 2 * n] = <<c, n + 1, "newline">>
      BY <1>2, <3>1
    <3> QED BY <3>1, <3>2, <3>3
  <2> QED BY <2>1, <2>2, <2>3
<1>5. 2 * (n + 1) = 2 * n + 2
  OBVIOUS
<1>6. L \o T = [j \in 1 .. 2 * n + 2 |-> Piece(c, j)]
  <2> HIDE DEF L, T
  <2> QED BY <1>3, <1>4
<1> QED BY <1>1, <1>5, <1>6 DEF Lines

(* What a client has written is the text of its lines.                     *)
LEMMA WrittenIs ==
  ASSUME NEW c, sent[c] \in Nat
  PROVE  Written(c) = Lines(c, sent[c])
<1>1. PICK n \in Nat : n = sent[c]
  OBVIOUS
<1> DEFINE t == [k \in 1 .. n |-> Text(c, k)]
           Right(f) == f = [k \in 1 .. n |-> IF k = 1 THEN t[k] ELSE f[k - 1] \o t[k]]
<1>2. Written(c) = FlattenSeq(t)
  BY <1>1 DEF Written
<1>3. Len(t) = n
  OBVIOUS
<1>4. CASE n = 0
  <2>1. FlattenSeq(t) = t
    BY <1>3, <1>4 DEF FlattenSeq
  <2>2. t = Lines(c, 0)
    BY <1>4 DEF Lines
  <2> QED BY <1>1, <1>2, <1>4, <2>1, <2>2
<1>5. CASE n /= 0
  <2>1. FlattenSeq(t) = (CHOOSE f : Right(f))[n]
    <3> HIDE DEF t
    <3> QED BY <1>3, <1>5 DEF FlattenSeq
  <2> DEFINE F == [k \in 1 .. n |-> Lines(c, k)]
  <2>2. Right(F)
    <3>1. ASSUME NEW k \in 1 .. n
          PROVE  Lines(c, k) = IF k = 1 THEN t[k] ELSE F[k - 1] \o t[k]
      <4>1. CASE k = 1
        <5>1. Lines(c, 0) \o Text(c, 0 + 1) = Lines(c, 0 + 1)
          BY NextLine
        <5>2. Lines(c, 0) = << >>
          BY DEF Lines
        <5>3. << >> \o Text(c, 1) = Text(c, 1)
          BY DEF Text
        <5>4. t[1] = Text(c, 1) /\ 0 + 1 = 1
          OBVIOUS
        <5>5. Text(c, 1) = Lines(c, 1)
          BY <5>1, <5>2, <5>3, <5>4
        <5> QED BY <4>1, <5>4, <5>5
      <4>2. CASE k /= 1
        <5>1. k - 1 \in Nat /\ k - 1 \in 1 .. n /\ (k - 1) + 1 = k
          BY <4>2
        <5>2. Lines(c, k - 1) \o Text(c, k) = Lines(c, k)
          BY <5>1, NextLine
        <5> QED BY <4>2, <5>1, <5>2
      <4> QED BY <4>1, <4>2
    <3> HIDE DEF t
    <3> QED BY <3>1
  <2> DEFINE g == CHOOSE f : Right(f)
  <2>3. Right(g)
    <3> HIDE DEF Right, F
    <3> QED BY <2>2
  <2>4. \A k \in 1 .. n : g[k] = IF k = 1 THEN t[k] ELSE g[k - 1] \o t[k]
    <3> HIDE DEF g, t
    <3> QED BY <2>3
  <2>5. \A k \in 1 .. n : F[k] = IF k = 1 THEN t[k] ELSE F[k - 1] \o t[k]
    <3> HIDE DEF F, t
    <3> QED BY <2>2
  <2> DEFINE Good == {k \in Nat : k \in 1 .. n => g[k] = F[k]}
  <2> HIDE DEF g, F, t
  <2>6. ASSUME NEW k \in Nat, \A m \in Nat : m < k => m \in Good
        PROVE  k \in Good
    <3>1. CASE k \in 1 .. n /\ k /= 1
      <4>1. k - 1 \in Nat /\ k - 1 < k /\ k - 1 \in 1 .. n
        BY <3>1
      <4>2. g[k - 1] = F[k - 1]
        BY <2>6, <4>1
      <4> QED BY <2>4, <2>5, <3>1, <4>2
    <3>2. CASE k = 1 \/ k \notin 1 .. n
      BY <2>4, <2>5, <3>2
    <3> QED BY <3>1, <3>2
  <2> HIDE DEF Good
  <2>7. Nat \subseteq Good
    BY <2>6, StrongInduction
  <2>8. g[n] = F[n]
    <3>1. n \in 1 .. n
      BY <1>5
    <3> QED BY <2>7, <3>1 DEF Good
  <2>9. F[n] = Lines(c, n)
    BY <1>5 DEF F
  <2> QED BY <1>1, <1>2, <2>1, <2>8, <2>9 DEF g
<1> QED BY <1>4, <1>5

(* A client's first lines are a prefix of all of them.                     *)
LEMMA FirstLines ==
  ASSUME NEW c, NEW m \in Nat, NEW n \in Nat, m <= n
  PROVE  IsPrefix(Lines(c, m), Lines(c, n))
<1>1. Len(Lines(c, m)) = 2 * m /\ Len(Lines(c, n)) = 2 * n
  BY NextLine
<1>2. SubSeq(Lines(c, m), 1, 2 * m) = [j \in 1 .. 2 * m |-> Lines(c, m)[1 + j - 1]]
  BY <1>1
<1>3. SubSeq(Lines(c, n), 1, 2 * m) = [j \in 1 .. 2 * m |-> Lines(c, n)[1 + j - 1]]
  BY <1>1
<1>4. \A j \in 1 .. 2 * m : Lines(c, m)[1 + j - 1] = Lines(c, n)[1 + j - 1]
  BY DEF Lines
<1> QED BY <1>1, <1>2, <1>3, <1>4 DEF IsPrefix


--------------------------------------------------------------------------------
(* Each line comes back once *)

(* The client whose line check_clients is reading or echoing.              *)
Held(c) == pc \in {"read", "echo"} /\ Peer = c
InBuf(c) == IF Held(c) THEN buf ELSE << >>
InRio(c) == IF Held(c) THEN rio ELSE << >>

(* No text of client c is under way to its echo.                           *)
Nothing(c) == /\ InBuf(c) = << >> /\ InRio(c) = << >> /\ sock[c] = << >> /\ wire[c] = << >>
              /\ ~(Held(c) /\ pc = "echo")

(* The line that a client waits for lies in four places, one behind the    *)
(* other; its pieces are buf's to x, the Rio buffer's to y, the socket's   *)
(* to z.  It goes to the echo when all of it is in buf.                    *)
OnItsWay(c, x, y, z) ==
    LET part(a, b) == Part(<<c, sent[c], "text">>, <<c, sent[c], "newline">>, a, b)
    IN  /\ x <= y /\ y <= z
        /\ InBuf(c) = part(0, x) /\ InRio(c) = part(x, y)
        /\ sock[c] = part(y, z) /\ wire[c] = part(z, 2)
        /\ Held(c) => (pc = "echo" <=> x = 2)

Waiting(c) == \E x, y, z \in 0 .. 2 : OnItsWay(c, x, y, z)

(* A client of netp/echoclient.c has had the echoes of all its lines, or   *)
(* of all but the last, which is on its way or has been echoed.            *)
LineInv(c) ==
    \/ /\ client[c] \in {"off", "input", "closed"} /\ Nothing(c)
       /\ echoes[c] = << >> /\ got[c] = Lines(c, sent[c])
    \/ /\ client[c] \in {"reply", "dead"} /\ sent[c] >= 1
       /\ got[c] = Lines(c, sent[c] - 1)
       /\ \/ echoes[c] = << >> /\ Waiting(c)
          \/ echoes[c] = Text(c, sent[c]) /\ Nothing(c)

EchoTypes ==
    /\ sent \in [Clients -> Nat] /\ DOMAIN client = Clients
    /\ DOMAIN got = Clients /\ DOMAIN echoes = Clients
    /\ DOMAIN wire = Clients /\ DOMAIN sock = Clients
    /\ clientrio = [k \in Slots |-> << >>]

EchoInv == EchoTypes /\ \A c \in Clients \ Pipelined : LineInv(c)

(* What the lines and the parts of one are made of.                        *)
LEMMA WholeLine ==
  ASSUME NEW c, NEW p, NEW q
  PROVE  /\ Text(c, sent[c]) = Part(<<c, sent[c], "text">>, <<c, sent[c], "newline">>, 0, 2)
         /\ Part(p, q, 0, 0) = << >> /\ Part(p, q, 1, 1) = << >> /\ Part(p, q, 2, 2) = << >>
BY DEF Text, Part

(* The server's peer is a client. *)
LEMMA PeerIsClient ==
  ASSUME PoolInv, pc \in {"read", "echo"}
  PROVE  Peer \in Clients /\ i \in Slots /\ clientfd[i] \in Fds
<1>1. i \in Slots /\ clientfd[i] \in Fds
  BY DEF PoolInv, Counted
<1>2. open[clientfd[i]] \in Clients \cup {None} /\ open[clientfd[i]] /= None
  BY <1>1 DEF PoolInv, PoolTypes, Agree
<1> QED BY <1>1, <1>2 DEF Peer

(* Initially no text is under way. *)
LEMMA EchoInit == Init => EchoInv
<1> SUFFICES ASSUME Init PROVE EchoInv
  OBVIOUS
<1>1. EchoTypes
  BY DEF Init, EchoTypes
<1>2. ASSUME NEW c \in Clients \ Pipelined
      PROVE  LineInv(c)
  <2>1. Nothing(c) /\ client[c] = "off" /\ echoes[c] = << >> /\ got[c] = << >> /\ sent[c] = 0
    BY DEF Init, Nothing, InBuf, InRio, Held
  <2>2. Lines(c, 0) = << >>
    BY DEF Lines
  <2> QED BY <2>1, <2>2 DEF LineInv
<1> QED BY <1>1, <1>2 DEF EchoInv

(* A step that leaves a client's texts where they are. *)
LEMMA SameLine ==
  ASSUME NEW c, LineInv(c), client'[c] = client[c], sent'[c] = sent[c], got'[c] = got[c],
         echoes'[c] = echoes[c], wire'[c] = wire[c], sock'[c] = sock[c],
         InBuf(c)' = InBuf(c), InRio(c)' = InRio(c),
         (Held(c) /\ pc = "echo")' <=> (Held(c) /\ pc = "echo")
  PROVE  LineInv(c)'
<1>1. Nothing(c) => Nothing(c)'
  BY DEF Nothing
<1>2. ASSUME NEW x \in 0 .. 2, NEW y \in 0 .. 2, NEW z \in 0 .. 2, OnItsWay(c, x, y, z)
      PROVE  OnItsWay(c, x, y, z)'
  <2>1. Held(c)' => (pc' = "echo" <=> x = 2)
    <3>1. CASE Held(c)' /\ Held(c)
      BY <1>2, <3>1 DEF OnItsWay
    <3>2. CASE Held(c)' /\ ~Held(c)
      <4>1. x = 0
        <5>1. Part(<<c, sent[c], "text">>, <<c, sent[c], "newline">>, 0, x) = << >>
          BY <1>2, <3>2 DEF OnItsWay, InBuf
        <5> QED BY <5>1, Parts
      <4> QED BY <3>2, <4>1
    <3> QED BY <3>1, <3>2
  <2> QED BY <1>2, <2>1 DEF OnItsWay
<1>3. Waiting(c) => Waiting(c)'
  BY <1>2 DEF Waiting
<1> QED BY <1>1, <1>3 DEF LineInv

(* Steps of the server that move no text. *)
LEMMA OthersKeepLines ==
  ASSUME PoolInv, EchoInv,
         \/ Select \/ AcceptClient \/ AcceptFails \/ AcceptNobody \/ CheckOther \/ CheckEnds
         \/ Fails \/ UNCHANGED vars
  PROVE  EchoInv'
<1>1. UNCHANGED network
  BY DEF Select, AcceptClient, AcceptFails, AcceptNobody, CheckOther, CheckEnds, Fails, vars
<1>2. UNCHANGED clientrio \/ clientrio' = [clientrio EXCEPT ![Min(FreeSlots)] = << >>]
  BY DEF Select, AcceptClient, add_client, AcceptFails, AcceptNobody, CheckOther, CheckEnds, Fails,
         vars, pool
<1>3. EchoTypes'
  <2>1. clientrio' = [k \in Slots |-> << >>]
    BY <1>2 DEF EchoInv, EchoTypes
  <2> QED BY <1>1, <2>1 DEF EchoInv, EchoTypes, network
<1>4. \/ pc \notin {"read", "echo"} /\ pc' \notin {"read", "echo"}
      \/ UNCHANGED <<pc, clientfd, i, open, buf, rio>>
  BY DEF Select, AcceptClient, AcceptFails, AcceptNobody, CheckOther, CheckEnds, Fails, vars,
         Goes, Proceeds, pool, locals, server
<1>5. ASSUME NEW c \in Clients \ Pipelined
      PROVE  LineInv(c)'
  <2>1. /\ InBuf(c)' = InBuf(c) /\ InRio(c)' = InRio(c)
        /\ (Held(c) /\ pc = "echo")' <=> (Held(c) /\ pc = "echo")
    BY <1>4 DEF InBuf, InRio, Held, Peer
  <2> QED BY <1>1, <2>1, SameLine DEF EchoInv, network
<1> QED BY <1>3, <1>5 DEF EchoInv

(* check_clients begins to read: nothing is read ahead for its client.     *)
LEMMA CheckReadyKeepsLines ==
  ASSUME PoolInv, EchoInv, CheckReady
  PROVE  EchoInv'
<1>1. i \in Slots
  BY Descriptors DEF CheckReady, Looping, PoolInv, PoolTypes
<1>2. rio' = << >> /\ buf' = << >> /\ pc = "check" /\ pc' = "read" /\ UNCHANGED clientrio
      /\ UNCHANGED network
  BY <1>1 DEF CheckReady, Goes, Proceeds, EchoInv, EchoTypes
<1>3. EchoTypes'
  BY <1>2 DEF EchoInv, EchoTypes, network
<1>4. ASSUME NEW c \in Clients \ Pipelined
      PROVE  LineInv(c)'
  <2>1. /\ InBuf(c)' = InBuf(c) /\ InRio(c)' = InRio(c)
        /\ (Held(c) /\ pc = "echo")' <=> (Held(c) /\ pc = "echo")
    BY <1>2 DEF InBuf, InRio, Held
  <2> QED BY <1>2, <2>1, SameLine DEF EchoInv, network
<1> QED BY <1>3, <1>4 DEF EchoInv

(* A step that moves the text of one client leaves that of the others.     *)
LEMMA OtherLine ==
  ASSUME NEW d, NEW c \in Clients \ Pipelined, c /= d, EchoInv, UNCHANGED <<pc, clientfd, i, open>>,
         ~Held(c) \/ UNCHANGED <<buf, rio>>,
         client'[c] = client[c], sent'[c] = sent[c], got'[c] = got[c],
         echoes'[c] = echoes[c], wire'[c] = wire[c], sock'[c] = sock[c]
  PROVE  LineInv(c)'
<1>1. /\ InBuf(c)' = InBuf(c) /\ InRio(c)' = InRio(c)
      /\ (Held(c) /\ pc = "echo")' <=> (Held(c) /\ pc = "echo")
  BY DEF InBuf, InRio, Held, Peer
<1> QED BY <1>1, SameLine DEF EchoInv

(* The text that has arrived goes to the Rio buffer. *)
LEMMA RefillKeepsLines ==
  ASSUME PoolInv, EchoInv, Refill
  PROVE  EchoInv'
<1>1. PICK d \in Clients : d = Peer
  BY PeerIsClient DEF Refill, Goes, Proceeds
<1>2. /\ pc = "read" /\ rio = << >> /\ sock[d] /= << >> /\ rio' = sock[d]
      /\ sock' = [sock EXCEPT ![d] = << >>] /\ UNCHANGED <<pc, clientfd, i, open, buf, clientrio>>
      /\ UNCHANGED <<client, sent, got, wire, echoes>>
  BY <1>1 DEF Refill, Goes, Proceeds, pool
<1>3. EchoTypes'
  BY <1>2 DEF EchoInv, EchoTypes
<1>4. ASSUME NEW c \in Clients \ Pipelined
      PROVE  LineInv(c)'
  <2>1. CASE c /= d
    <3>1. sock'[c] = sock[c]
      BY <1>2, <2>1 DEF EchoInv, EchoTypes
    <3>2. ~Held(c)
      BY <1>1, <2>1 DEF Held
    <3> QED BY <1>2, <2>1, <3>1, <3>2, OtherLine
  <2>2. CASE c = d
    <3>1. Held(c) /\ Held(c)' /\ sock'[c] = << >>
      BY <1>1, <1>2, <2>2 DEF Held, Peer, EchoInv, EchoTypes
    <3>2. /\ client[c] \in {"reply", "dead"} /\ sent[c] >= 1 /\ got[c] = Lines(c, sent[c] - 1)
          /\ echoes[c] = << >> /\ Waiting(c)
      BY <1>2, <2>2 DEF EchoInv, LineInv, Nothing
    <3>3. PICK x \in 0 .. 2, y \in 0 .. 2, z \in 0 .. 2 : OnItsWay(c, x, y, z)
      BY <3>2 DEF Waiting
    <3>4. PICK p, q : p = <<c, sent[c], "text">> /\ q = <<c, sent[c], "newline">>
      OBVIOUS
    <3>5. /\ x <= y /\ y <= z /\ buf = Part(p, q, 0, x) /\ << >> = Part(p, q, x, y)
          /\ sock[c] = Part(p, q, y, z) /\ wire[c] = Part(p, q, z, 2) /\ x /= 2
      BY <1>2, <3>1, <3>3, <3>4 DEF OnItsWay, InBuf, InRio
    <3>6. x = y
      BY <3>5, Parts
    <3>7. Part(p, q, z, z) = << >> /\ z <= z /\ x <= z
      BY <3>5, Parts
    <3>8. OnItsWay(c, x, z, z)'
      BY <1>2, <2>2, <3>1, <3>4, <3>5, <3>6, <3>7 DEF OnItsWay, InBuf, InRio
    <3> QED BY <1>2, <3>2, <3>8 DEF LineInv, Waiting
  <2> QED BY <2>1, <2>2
<1> QED BY <1>3, <1>4 DEF EchoInv

(* A piece goes from the Rio buffer to buf; the second makes it a line.    *)
LEMMA TakePieceKeepsLines ==
  ASSUME PoolInv, EchoInv, TakePiece
  PROVE  EchoInv'
<1>1. PICK d \in Clients : d = Peer
  BY PeerIsClient DEF TakePiece, Goes, Proceeds
<1>2. /\ pc = "read" /\ rio /= << >> /\ buf' = Append(buf, Head(rio)) /\ rio' = Tail(rio)
      /\ pc' \in {"read", "echo"}
      /\ pc' = "echo" <=> EndsLine(Head(rio))
      /\ UNCHANGED <<clientfd, i, open, clientrio>>
      /\ UNCHANGED network
  BY DEF TakePiece, Goes, Proceeds, pool
<1>3. EchoTypes'
  BY <1>2 DEF EchoInv, EchoTypes, network
<1>4. ASSUME NEW c \in Clients \ Pipelined
      PROVE  LineInv(c)'
  <2>1. CASE c /= d
    <3>1. ~Held(c) /\ ~Held(c)'
      BY <1>1, <1>2, <2>1 DEF Held, Peer
    <3>2. /\ InBuf(c)' = InBuf(c) /\ InRio(c)' = InRio(c)
          /\ (Held(c) /\ pc = "echo")' <=> (Held(c) /\ pc = "echo")
      BY <3>1 DEF InBuf, InRio, Held
    <3> QED BY <1>2, <3>2, SameLine DEF EchoInv, network
  <2>2. CASE c = d
    <3>1. Held(c) /\ Held(c)'
      BY <1>1, <1>2, <2>2 DEF Held, Peer
    <3>2. /\ client[c] \in {"reply", "dead"} /\ sent[c] >= 1 /\ got[c] = Lines(c, sent[c] - 1)
          /\ echoes[c] = << >> /\ Waiting(c)
      BY <1>2, <3>1 DEF EchoInv, LineInv, Nothing, InRio
    <3>3. PICK x \in 0 .. 2, y \in 0 .. 2, z \in 0 .. 2 : OnItsWay(c, x, y, z)
      BY <3>2 DEF Waiting
    <3>4. PICK p, q : p = <<c, sent[c], "text">> /\ q = <<c, sent[c], "newline">>
      OBVIOUS
    <3>5. /\ x <= y /\ y <= z /\ buf = Part(p, q, 0, x) /\ rio = Part(p, q, x, y)
          /\ sock[c] = Part(p, q, y, z) /\ wire[c] = Part(p, q, z, 2) /\ x /= 2
      BY <1>2, <3>1, <3>3, <3>4 DEF OnItsWay, InBuf, InRio
    <3>6. x < y
      <4>1. x /= y
        BY <1>2, <3>5, Parts
      <4> QED BY <3>5, <4>1
    <3>7. /\ Head(rio) = IF x = 0 THEN p ELSE q
          /\ buf' = Part(p, q, 0, x + 1) /\ rio' = Part(p, q, x + 1, y)
      <4>1. 0 \in 0 .. 2 /\ 0 <= x
        OBVIOUS
      <4>2. /\ Head(Part(p, q, x, y)) = IF x = 0 THEN p ELSE q
            /\ Append(Part(p, q, 0, x), Head(Part(p, q, x, y))) = Part(p, q, 0, x + 1)
            /\ Tail(Part(p, q, x, y)) = Part(p, q, x + 1, y)
        BY <3>5, <3>6, <4>1, Parts
      <4> QED BY <1>2, <3>5, <4>2
    <3>8. x + 1 \in 0 .. 2 /\ x + 1 <= y
      BY <3>6
    <3>9. pc' = "echo" <=> x + 1 = 2
      <4>1. ~EndsLine(p) /\ EndsLine(q)
        BY <3>4 DEF EndsLine
      <4>2. x = 0 \/ x = 1
        BY <3>6
      <4> QED BY <1>2, <3>7, <4>1, <4>2
    <3>10. OnItsWay(c, x + 1, y, z)'
      BY <1>2, <3>1, <3>4, <3>5, <3>7, <3>8, <3>9 DEF OnItsWay, InBuf, InRio, network
    <3>11. Waiting(c)'
      BY <3>8, <3>10 DEF Waiting
    <3> QED BY <1>2, <3>2, <3>11 DEF LineInv, network
  <2> QED BY <2>1, <2>2
<1> QED BY <1>3, <1>4 DEF EchoInv

(* The line in buf is the whole line, and becomes the echo.                *)
LEMMA EchoKeepsLines ==
  ASSUME PoolInv, EchoInv, Echo
  PROVE  EchoInv'
<1>1. PICK d \in Clients : d = Peer
  BY PeerIsClient DEF Echo, Goes, Proceeds
<1>2. /\ pc = "echo" /\ pc' = "check" /\ echoes' = [echoes EXCEPT ![d] = @ \o buf]
      /\ UNCHANGED <<clientrio, client, sent, got, wire, sock>>
  BY <1>1 DEF Echo, Goes, Proceeds, pool
<1>3. EchoTypes'
  BY <1>2 DEF EchoInv, EchoTypes
<1>4. ASSUME NEW c \in Clients \ Pipelined
      PROVE  LineInv(c)'
  <2>1. CASE c /= d
    <3>1. ~Held(c) /\ ~Held(c)' /\ echoes'[c] = echoes[c]
      BY <1>1, <1>2, <2>1 DEF Held, EchoInv, EchoTypes
    <3>2. /\ InBuf(c)' = InBuf(c) /\ InRio(c)' = InRio(c)
          /\ (Held(c) /\ pc = "echo")' <=> (Held(c) /\ pc = "echo")
      BY <3>1 DEF InBuf, InRio, Held
    <3> QED BY <1>2, <3>1, <3>2, SameLine DEF EchoInv
  <2>2. CASE c = d
    <3>1. Held(c) /\ ~Held(c)' /\ pc = "echo"
      BY <1>1, <1>2, <2>2 DEF Held
    <3>2. /\ client[c] \in {"reply", "dead"} /\ sent[c] >= 1 /\ got[c] = Lines(c, sent[c] - 1)
          /\ echoes[c] = << >> /\ Waiting(c)
      BY <3>1 DEF EchoInv, LineInv, Nothing
    <3>3. PICK x \in 0 .. 2, y \in 0 .. 2, z \in 0 .. 2 : OnItsWay(c, x, y, z)
      BY <3>2 DEF Waiting
    <3>4. x = 2 /\ y = 2 /\ z = 2
      <4>1. x = 2 /\ x <= y /\ y <= z
        BY <3>1, <3>3 DEF OnItsWay
      <4> QED BY <4>1
    <3>5. buf = Text(c, sent[c]) /\ sock[c] = << >> /\ wire[c] = << >>
      BY <3>1, <3>3, <3>4, WholeLine DEF OnItsWay, InBuf
    <3>6. echoes'[c] = Text(c, sent[c])
      <4>1. << >> \o Text(c, sent[c]) = Text(c, sent[c])
        BY DEF Text
      <4> QED BY <1>2, <2>2, <3>2, <3>5, <4>1 DEF EchoInv, EchoTypes
    <3>7. Nothing(c)'
      BY <1>2, <3>1, <3>5 DEF Nothing, InBuf, InRio
    <3> QED BY <1>2, <3>2, <3>6, <3>7 DEF LineInv
  <2> QED BY <2>1, <2>2
<1> QED BY <1>3, <1>4 DEF EchoInv

(* At EOF all text of the client has been read, and all of it echoed.      *)
LEMMA RemoveClientKeepsLines ==
  ASSUME PoolInv, EchoInv, RemoveClient
  PROVE  EchoInv'
<1>1. PICK d \in Clients : d = Peer
  BY PeerIsClient DEF RemoveClient, Goes, Proceeds
<1>2. /\ pc = "read" /\ pc' = "check" /\ rio = << >> /\ wire[d] = << >> /\ sock[d] = << >>
      /\ UNCHANGED clientrio /\ UNCHANGED network
  BY <1>1 DEF RemoveClient, Goes, Proceeds, AtEOF
<1>3. EchoTypes'
  BY <1>2 DEF EchoInv, EchoTypes, network
<1>4. ASSUME NEW c \in Clients \ Pipelined
      PROVE  LineInv(c)'
  <2>1. InBuf(c) = << >> /\ InRio(c) = << >>
    <3>1. CASE ~Held(c)
      BY <3>1 DEF InBuf, InRio
    <3>2. CASE Held(c) /\ Nothing(c)
      BY <3>2 DEF Nothing
    <3>3. ASSUME Held(c), Waiting(c)
          PROVE  FALSE
      <4>1. PICK x \in 0 .. 2, y \in 0 .. 2, z \in 0 .. 2 : OnItsWay(c, x, y, z)
        BY <3>3 DEF Waiting
      <4>2. PICK p, q : p = <<c, sent[c], "text">> /\ q = <<c, sent[c], "newline">>
        OBVIOUS
      <4>3. /\ x <= y /\ y <= z /\ << >> = Part(p, q, x, y)
            /\ << >> = Part(p, q, y, z) /\ << >> = Part(p, q, z, 2) /\ x /= 2
        <5>1. c = d
          BY <1>1, <3>3 DEF Held
        <5> QED BY <1>2, <3>3, <4>1, <4>2, <5>1 DEF OnItsWay, InRio
      <4>4. x = y /\ y = z
        BY <4>3, Parts
      <4>5. z = 2
        <5>1. 2 \in 0 .. 2 /\ z <= 2
          OBVIOUS
        <5> QED BY <4>3, <5>1, Parts
      <4> QED BY <4>3, <4>4, <4>5
    <3> QED BY <3>1, <3>2, <3>3 DEF EchoInv, LineInv
  <2>2. /\ InBuf(c)' = InBuf(c) /\ InRio(c)' = InRio(c)
        /\ (Held(c) /\ pc = "echo")' <=> (Held(c) /\ pc = "echo")
    BY <1>2, <2>1 DEF InBuf, InRio, Held
  <2> QED BY <1>2, <2>2, SameLine DEF EchoInv, network
<1> QED BY <1>3, <1>4 DEF EchoInv

(* What the clients and the network do. *)
LEMMA ClientsKeepLines ==
  ASSUME EchoInv, NEW d \in Clients, Connect(d) \/ ClientRuns(d) \/ Deliver(d) \/ Die(d)
  PROVE  EchoInv'
<1>1. /\ UNCHANGED <<pc, clientfd, i, open, buf, rio, clientrio>>
      /\ \A c : (Held(c)' <=> Held(c)) /\ InBuf(c)' = InBuf(c) /\ InRio(c)' = InRio(c)
  <2>1. UNCHANGED <<pc, clientfd, i, open, buf, rio, clientrio>>
    BY DEF Connect, ClientRuns, SendLine, ReadEcho, CloseClient, Deliver, Die, pool, server, locals
  <2> QED BY <2>1 DEF Held, Peer, InBuf, InRio
<1>2. EchoTypes'
  <2>1. DOMAIN client' = Clients /\ DOMAIN got' = Clients /\ DOMAIN echoes' = Clients
        /\ DOMAIN wire' = Clients /\ DOMAIN sock' = Clients
    BY DEF Connect, ClientRuns, SendLine, ReadEcho, CloseClient, Deliver, Die, ClientGoes, EchoInv,
           EchoTypes
  <2>2. sent' \in [Clients -> Nat]
    <3>1. UNCHANGED sent \/ sent' = [sent EXCEPT ![d] = @ + 1]
      BY DEF Connect, ClientRuns, SendLine, ReadEcho, CloseClient, Deliver, Die
    <3> QED BY <3>1 DEF EchoInv, EchoTypes
  <2> QED BY <1>1, <2>1, <2>2 DEF EchoInv, EchoTypes
<1>3. ASSUME NEW c \in Clients \ Pipelined, c /= d
      PROVE  LineInv(c)'
  <2>1. /\ client'[c] = client[c] /\ sent'[c] = sent[c] /\ got'[c] = got[c]
        /\ echoes'[c] = echoes[c] /\ wire'[c] = wire[c] /\ sock'[c] = sock[c]
    BY <1>3 DEF Connect, ClientRuns, SendLine, ReadEcho, CloseClient, Deliver, Die, ClientGoes,
                EchoInv, EchoTypes
  <2> QED BY <1>1, <1>3, <2>1, OtherLine
<1>4. ASSUME d \notin Pipelined
      PROVE  LineInv(d)'
  <2>1. LineInv(d) /\ sent[d] \in Nat /\ d \in Clients \ Pipelined
    BY <1>4 DEF EchoInv, EchoTypes
  <2>2. CASE Connect(d) \/ CloseClient(d)
    <3>1. /\ client[d] \in {"off", "input"} /\ client'[d] \in {"input", "closed"}
          /\ UNCHANGED <<sent, got, wire, sock, echoes>>
      BY <2>2 DEF Connect, CloseClient, ClientGoes, EchoInv, EchoTypes
    <3>2. Nothing(d)'
      BY <1>1, <2>1, <3>1 DEF LineInv, Nothing
    <3> QED BY <2>1, <3>1, <3>2 DEF LineInv
  <2>3. CASE Die(d)
    <3>1. client[d] = "reply" /\ client'[d] = "dead" /\ UNCHANGED <<sent, got, wire, sock, echoes>>
      BY <2>3 DEF Die, ClientGoes, EchoInv, EchoTypes
    <3>2. Nothing(d) => Nothing(d)'
      BY <1>1, <3>1 DEF Nothing
    <3>3. \A x, y, z \in 0 .. 2 : OnItsWay(d, x, y, z) => OnItsWay(d, x, y, z)'
      BY <1>1, <3>1 DEF OnItsWay
    <3> QED BY <2>1, <3>1, <3>2, <3>3 DEF LineInv, Waiting
  <2>4. CASE SendLine(d)
    <3>1. /\ client[d] = "input" /\ client'[d] = "reply" /\ sent'[d] = sent[d] + 1
          /\ wire'[d] = wire[d] \o Text(d, sent[d] + 1) /\ UNCHANGED <<got, sock, echoes>>
      BY <1>4, <2>4 DEF SendLine, ClientGoes, EchoInv, EchoTypes
    <3>2. Nothing(d) /\ echoes[d] = << >> /\ got[d] = Lines(d, sent[d])
      BY <2>1, <3>1 DEF LineInv
    <3>3. wire'[d] = Text(d, sent'[d])
      <4>1. << >> \o Text(d, sent[d] + 1) = Text(d, sent[d] + 1)
        BY DEF Text
      <4> QED BY <3>1, <3>2, <4>1 DEF Nothing
    <3>4. wire'[d] = Part(<<d, sent'[d], "text">>, <<d, sent'[d], "newline">>, 0, 2)
      BY <3>3 DEF Text, Part
    <3>5. OnItsWay(d, 0, 0, 0)'
      <4>1. PICK p, q : p = <<d, sent'[d], "text">> /\ q = <<d, sent'[d], "newline">>
        OBVIOUS
      <4>2. InBuf(d)' = Part(p, q, 0, 0) /\ InRio(d)' = Part(p, q, 0, 0)
            /\ sock'[d] = Part(p, q, 0, 0) /\ wire'[d] = Part(p, q, 0, 2)
        BY <1>1, <3>1, <3>2, <3>4, <4>1, WholeLine DEF Nothing
      <4>3. ~(Held(d)' /\ pc' = "echo") /\ 0 /= 2
        BY <1>1, <3>2 DEF Nothing
      <4> QED BY <4>1, <4>2, <4>3 DEF OnItsWay
    <3>6. sent'[d] >= 1 /\ sent'[d] - 1 = sent[d]
      BY <2>1, <3>1
    <3> QED BY <3>1, <3>2, <3>5, <3>6 DEF LineInv, Waiting
  <2>5. CASE ReadEcho(d)
    <3>1. /\ client[d] = "reply" /\ client'[d] = "input" /\ echoes[d] /= << >>
          /\ got'[d] = got[d] \o echoes[d] /\ echoes'[d] = << >> /\ UNCHANGED <<sent, wire, sock>>
      BY <2>5 DEF ReadEcho, ClientGoes, EchoInv, EchoTypes
    <3>2. /\ sent[d] >= 1 /\ got[d] = Lines(d, sent[d] - 1) /\ echoes[d] = Text(d, sent[d])
          /\ Nothing(d)
      BY <2>1, <3>1 DEF LineInv
    <3>3. sent[d] - 1 \in Nat /\ (sent[d] - 1) + 1 = sent[d]
      BY <2>1, <3>2
    <3>4. Lines(d, sent[d] - 1) \o Text(d, sent[d]) = Lines(d, sent[d])
      <4>1. Lines(d, sent[d] - 1) \o Text(d, (sent[d] - 1) + 1) = Lines(d, (sent[d] - 1) + 1)
        BY <3>3, NextLine
      <4> QED BY <3>3, <4>1
    <3>5. got'[d] = Lines(d, sent[d])
      BY <3>1, <3>2, <3>4
    <3>6. Nothing(d)'
      BY <1>1, <3>1, <3>2 DEF Nothing
    <3> QED BY <3>1, <3>5, <3>6 DEF LineInv
  <2>6. CASE Deliver(d)
    <3>1. /\ wire[d] /= << >> /\ sock'[d] = Append(sock[d], Head(wire[d]))
          /\ wire'[d] = Tail(wire[d]) /\ UNCHANGED <<client, sent, got, echoes>>
      BY <2>6 DEF Deliver, EchoInv, EchoTypes
    <3>2. /\ client[d] \in {"reply", "dead"} /\ sent[d] >= 1 /\ got[d] = Lines(d, sent[d] - 1)
          /\ echoes[d] = << >> /\ Waiting(d)
      BY <2>1, <3>1 DEF LineInv, Nothing
    <3>3. PICK x \in 0 .. 2, y \in 0 .. 2, z \in 0 .. 2 : OnItsWay(d, x, y, z)
      BY <3>2 DEF Waiting
    <3>4. PICK p, q : p = <<d, sent[d], "text">> /\ q = <<d, sent[d], "newline">>
      OBVIOUS
    <3>5. /\ x <= y /\ y <= z /\ InBuf(d) = Part(p, q, 0, x) /\ InRio(d) = Part(p, q, x, y)
          /\ sock[d] = Part(p, q, y, z) /\ wire[d] = Part(p, q, z, 2)
          /\ Held(d) => (pc = "echo" <=> x = 2)
      BY <3>3, <3>4 DEF OnItsWay
    <3>6. z < 2
      <4>1. z /= 2
        BY <3>1, <3>5, WholeLine
      <4> QED BY <4>1
    <3>7. z + 1 \in 0 .. 2 /\ y <= z + 1
      BY <3>5, <3>6
    <3>8. /\ Append(Part(p, q, y, z), Head(Part(p, q, z, 2))) = Part(p, q, y, z + 1)
          /\ Tail(Part(p, q, z, 2)) = Part(p, q, z + 1, 2)
      <4>1. 2 \in 0 .. 2 /\ z <= 2
        OBVIOUS
      <4> QED BY <3>5, <3>6, <4>1, Parts
    <3>9. OnItsWay(d, x, y, z + 1)'
      BY <1>1, <3>1, <3>4, <3>5, <3>7, <3>8 DEF OnItsWay
    <3> QED BY <3>1, <3>2, <3>7, <3>9 DEF LineInv, Waiting
  <2> QED BY <2>2, <2>3, <2>4, <2>5, <2>6 DEF ClientRuns
<1>5. ASSUME NEW c \in Clients \ Pipelined
      PROVE  LineInv(c)'
  BY <1>3, <1>4, <1>5
<1> QED BY <1>2, <1>5 DEF EchoInv

(* The invariant. *)
LEMMA EchoInvariant == Spec => []EchoInv
<1>1. PoolInv /\ EchoInv /\ [Next]_vars => EchoInv'
  <2> SUFFICES ASSUME PoolInv, EchoInv, [Next]_vars PROVE EchoInv'
    OBVIOUS
  <2>1. CASE UNCHANGED vars
    BY <2>1, OthersKeepLines
  <2>2. CASE Server
    BY <2>2, OthersKeepLines, CheckReadyKeepsLines, RefillKeepsLines, TakePieceKeepsLines,
       EchoKeepsLines, RemoveClientKeepsLines DEF Server
  <2>3. CASE \E c \in Clients : Connect(c) \/ ClientRuns(c) \/ Deliver(c) \/ Die(c)
    BY <2>3, ClientsKeepLines
  <2> QED BY <2>1, <2>2, <2>3 DEF Next
<1> QED BY EchoInit, PoolInvariant, <1>1, PTL DEF Spec

(* A client of the invariant is sent what it wrote. *)
LEMMA InOrder ==
  ASSUME EchoInv, NEW c \in Clients \ Pipelined
  PROVE  IsPrefix(got[c] \o echoes[c], Written(c))
<1>1. sent[c] \in Nat /\ LineInv(c)
  BY DEF EchoInv, EchoTypes
<1>2. PICK m \in Nat : m <= sent[c] /\ got[c] \o echoes[c] = Lines(c, m)
  <2>1. ASSUME NEW n \in Nat
        PROVE  Lines(c, n) \o << >> = Lines(c, n)
    <3>1. Lines(c, n) \in Seq({Piece(c, j) : j \in 1 .. 2 * n})
      BY DEF Lines
    <3> QED BY <3>1, ConcatEmptySeq
  <2>2. CASE got[c] = Lines(c, sent[c]) /\ echoes[c] = << >>
    BY <1>1, <2>1, <2>2
  <2>3. CASE sent[c] >= 1 /\ got[c] = Lines(c, sent[c] - 1) /\ echoes[c] = << >>
    <3>1. sent[c] - 1 \in Nat /\ sent[c] - 1 <= sent[c]
      BY <1>1, <2>3
    <3> QED BY <2>1, <2>3, <3>1
  <2>4. CASE sent[c] >= 1 /\ got[c] = Lines(c, sent[c] - 1) /\ echoes[c] = Text(c, sent[c])
    <3>1. sent[c] - 1 \in Nat /\ (sent[c] - 1) + 1 = sent[c]
      BY <1>1, <2>4
    <3>2. Lines(c, sent[c] - 1) \o Text(c, (sent[c] - 1) + 1) = Lines(c, (sent[c] - 1) + 1)
      BY <3>1, NextLine
    <3>3. got[c] \o echoes[c] = Lines(c, sent[c])
      BY <2>4, <3>1, <3>2
    <3> QED BY <1>1, <3>3
  <2> QED BY <1>1, <2>2, <2>3, <2>4 DEF LineInv
<1> QED BY <1>1, <1>2, WrittenIs, FirstLines

(* Every client that waits for the echo of a line before it sends the next *)
(* (netp/echoclient.c) is sent what it wrote, in order and without gaps,   *)
(* however the network delivers it and whatever the other clients do, the  *)
(* pipelined ones included: the Rio buffer that check_clients drops after  *)
(* its line (echoservers.c:107) is empty.                                  *)
THEOREM WaitersInOrder ==
  Spec => [](\A c \in Clients \ Pipelined : IsPrefix(got[c] \o echoes[c], Written(c)))
<1>1. EchoInv => \A c \in Clients \ Pipelined : IsPrefix(got[c] \o echoes[c], Written(c))
  BY InOrder
<1> QED BY EchoInvariant, <1>1, PTL

(* So when no client is pipelined, "Echo a text line from each ready       *)
(* connected descriptor" (echoservers.c:50) holds of all of them.          *)
THEOREM AllEchoesInOrder ==
  ASSUME Pipelined = {}
  PROVE  Spec => []EchoesInOrder
<1>1. EchoInv => EchoesInOrder
  BY InOrder DEF EchoesInOrder
<1> QED BY EchoInvariant, <1>1, PTL

================================================================================
