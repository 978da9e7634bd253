-------------------------------- MODULE RioProofs --------------------------------
(***************************************************************************)
(* The Rio functions lose no byte and return what they promise, for any    *)
(* input, any size of the buffer and any sequence of calls.                *)
(***************************************************************************)
EXTENDS Rio, NumberLemmas, SequenceTheorems, TLAPS

Modes == {"buffered", "unbuffered", "write"}
Ops == {"readn", "readnb", "readlineb", "writen"}

Types == /\ newlines \subseteq Bytes
         /\ mode \in Modes
         /\ taken \in 0 .. Length
         /\ rio_cnt \in Int /\ rio_bufptr \in Nat /\ rio_buf \in Seq(Nat)
         /\ count \in Nat /\ start \in Nat
         /\ usrbuf \in Seq(Nat) /\ written \in Seq(Nat)
         /\ op \in Ops \cup {"idle"}
         /\ op = "readn" => mode = "unbuffered"
         /\ op \in {"readnb", "readlineb"} => mode = "buffered"
         /\ op = "writen" => mode = "write"
         /\ op = "readlineb" => count >= 1

(* The bytes delivered, those in the caller's buffer and the unread ones   *)
(* are adjacent, and end with the last one taken.                          *)
Held == IF op = "idle" THEN 0 ELSE Len(usrbuf)
UnreadCount == IF rio_cnt > 0 THEN rio_cnt ELSE 0

Placed == mode /= "write" =>
    /\ start + Held + UnreadCount = taken
    /\ mode = "unbuffered" => rio_cnt = 0
    /\ rio_cnt > 0 =>
          /\ rio_bufptr + rio_cnt <= Len(rio_buf)
          /\ \A k \in 1 .. rio_cnt : rio_buf[rio_bufptr + k] = taken - rio_cnt + k

(* What the call in progress has stored: the next bytes, not too many, and *)
(* rio_readlineb has not passed a newline.                                 *)
Stored == op /= "idle" =>
    /\ \A k \in 1 .. Len(usrbuf) : usrbuf[k] = start + k
    /\ op /= "readlineb" => Len(usrbuf) <= count
    /\ op = "readlineb" => /\ Len(usrbuf) <= count - 1
                           /\ \A k \in 1 .. Len(usrbuf) - 1 : start + k \notin newlines

(* The bytes written are those of the calls of rio_writen so far. *)
InWriting == /\ \A k \in 1 .. Len(written) : written[k] = k
             /\ mode = "write" => Len(written) = start + Held
             /\ mode = "write" /\ last.op = "writen" /\ last.ret >= 0 /\ op = "idle" =>
                   last.ret = last.count
             /\ last.op = "writen" => mode = "write"

IInv == Types /\ Placed /\ Stored /\ InWriting /\ Reads

--------------------------------------------------------------------------------
(* Sequences of consecutive numbers *)

(* An interval is a sequence, and its elements are consecutive. *)
LEMMA IntervalElements ==
  ASSUME NEW a \in Nat, NEW b \in Int, b >= a - 1
  PROVE  /\ Interval(a, b) \in Seq(Nat)
         /\ Len(Interval(a, b)) = b - a + 1
         /\ \A k \in 1 .. b - a + 1 : Interval(a, b)[k] = a + k - 1
<1>1. b - a + 1 \in Nat
  OBVIOUS
<1>2. Interval(a, b) \in [1 .. b - a + 1 -> Nat]
  BY <1>1 DEF Interval
<1> QED BY <1>1, <1>2 DEF Interval

(* A sequence of consecutive numbers is an interval. *)
LEMMA Consecutive ==
  ASSUME NEW s \in Seq(Nat), NEW a \in Nat,
         \A k \in 1 .. Len(s) : s[k] = a + k
  PROVE  s = Interval(a + 1, a + Len(s))
<1>1. /\ a + 1 \in Nat /\ a + Len(s) \in Int /\ a + Len(s) >= (a + 1) - 1
      /\ (a + Len(s)) - (a + 1) + 1 = Len(s) /\ Len(s) \in Nat
  BY LenProperties
<1>2. /\ Interval(a + 1, a + Len(s)) \in Seq(Nat)
      /\ Len(Interval(a + 1, a + Len(s))) = Len(s)
      /\ \A k \in 1 .. Len(s) : Interval(a + 1, a + Len(s))[k] = (a + 1) + k - 1
  BY <1>1, IntervalElements
<1>3. \A k \in 1 .. Len(s) : s[k] = Interval(a + 1, a + Len(s))[k]
  BY <1>1, <1>2
<1> QED BY <1>2, <1>3, SeqEqual

(* Consecutive numbers followed by the next ones are consecutive. *)
LEMMA ConsecutiveConcat ==
  ASSUME NEW s \in Seq(Nat), NEW t \in Seq(Nat), NEW a \in Nat,
         \A k \in 1 .. Len(s) : s[k] = a + k,
         \A k \in 1 .. Len(t) : t[k] = a + Len(s) + k
  PROVE  /\ s \o t \in Seq(Nat)
         /\ Len(s \o t) = Len(s) + Len(t)
         /\ \A k \in 1 .. Len(s \o t) : (s \o t)[k] = a + k
<1>1. Len(s) \in Nat /\ Len(t) \in Nat
  BY LenProperties
<1>2. /\ s \o t \in Seq(Nat)
      /\ Len(s \o t) = Len(s) + Len(t)
      /\ \A i \in 1 .. Len(s) + Len(t) : (s \o t)[i] =
                     IF i <= Len(s) THEN s[i] ELSE t[i - Len(s)]
  BY ConcatProperties
<1>3. ASSUME NEW k \in 1 .. Len(s \o t) PROVE (s \o t)[k] = a + k
  <2>1. CASE k <= Len(s)
    BY <1>1, <1>2, <2>1
  <2>2. CASE k > Len(s)
    <3>1. k - Len(s) \in 1 .. Len(t)
      BY <1>1, <1>2, <2>2
    <3>2. (s \o t)[k] = t[k - Len(s)]
      BY <1>1, <1>2, <2>2
    <3> QED BY <1>1, <3>1, <3>2
  <2> QED BY <1>1, <2>1, <2>2
<1> QED BY <1>2, <1>3

(* Taking the next numbers of the input appends an interval. *)
LEMMA ConsecutiveMore ==
  ASSUME NEW s \in Seq(Nat), NEW a \in Nat, NEW n \in Nat,
         \A k \in 1 .. Len(s) : s[k] = a + k
  PROVE  LET t == s \o Interval(a + Len(s) + 1, a + Len(s) + n)
         IN  /\ t \in Seq(Nat)
             /\ Len(t) = Len(s) + n
             /\ \A k \in 1 .. Len(t) : t[k] = a + k
<1>1. Len(s) \in Nat
  BY LenProperties
<1> DEFINE b == a + Len(s)
           u == Interval(b + 1, b + n)
<1>2. /\ b + 1 \in Nat /\ b + n \in Int /\ b + n >= (b + 1) - 1 /\ (b + n) - (b + 1) + 1 = n
  BY <1>1
<1>3. /\ u \in Seq(Nat) /\ Len(u) = n /\ \A k \in 1 .. n : u[k] = (b + 1) + k - 1
  BY <1>2, IntervalElements
<1>4. \A k \in 1 .. Len(u) : u[k] = a + Len(s) + k
  BY <1>1, <1>3
<1> HIDE DEF u
<1>5. /\ s \o u \in Seq(Nat) /\ Len(s \o u) = Len(s) + Len(u)
      /\ \A k \in 1 .. Len(s \o u) : (s \o u)[k] = a + k
  BY <1>3, <1>4, ConsecutiveConcat
<1> QED BY <1>3, <1>5 DEF u

--------------------------------------------------------------------------------
(* The end of a line *)

(* NextNewline is the first newline behind from, or the last byte. *)
LEMMA NextNewlineIsFirst ==
  ASSUME Types, NEW from \in Nat
  PROVE  LET S == {k \in newlines : k > from} \cup {Length}
         IN  NextNewline(from) \in S /\ \A y \in S : NextNewline(from) <= y
<1> DEFINE S == {k \in newlines : k > from} \cup {Length}
<1>1. S \in SUBSET Nat /\ S /= {}
  <2>1. newlines \subseteq 1 .. Length /\ Length \in Nat
    BY RioAssumption DEF Types, Bytes
  <2>2. newlines \subseteq Nat
    BY <2>1
  <2> QED BY <2>1, <2>2
<1>2. NextNewline(from) = Min(S)
  BY DEF NextNewline
<1> HIDE DEF S
<1>3. Min(S) \in S /\ \A y \in S : Min(S) <= y
  BY <1>1, LeastElement
<1> QED BY <1>2, <1>3 DEF S

--------------------------------------------------------------------------------
(* What a call has stored when it returns *)

(* The caller's buffer holds an interval. *)
LEMMA StoredInterval ==
  ASSUME Types, Stored, op /= "idle"
  PROVE  /\ Len(usrbuf) \in Nat
         /\ usrbuf = Interval(start + 1, start + Len(usrbuf))
BY LenProperties, Consecutive DEF Types, Stored

(* When a loop ends, or at EOF, the call has stored what it promises. *)
LEMMA StoredAsExpected ==
  ASSUME Types, Placed, Stored, op \in {"readn", "readnb", "readlineb"},
         Full \/ (Reading /\ taken = Length),
         NEW c, c.op = op, c.count = count, c.start = start
  PROVE  usrbuf = Expected(c)
<1>1. /\ Len(usrbuf) \in Nat /\ start \in Nat /\ count \in Nat /\ Length \in Nat
      /\ usrbuf = Interval(start + 1, start + Len(usrbuf))
  BY StoredInterval, RioAssumption DEF Types
<1>2. mode /= "write"
  BY DEF Types
<1>3. start + Len(usrbuf) + UnreadCount = taken /\ taken \in 0 .. Length /\ UnreadCount \in Nat
  <2>1. rio_cnt \in Int /\ taken \in 0 .. Length
    BY DEF Types
  <2>2. UnreadCount \in Nat
    BY <2>1 DEF UnreadCount
  <2>3. start + Held + UnreadCount = taken
    BY <1>2 DEF Placed
  <2> QED BY <1>1, <2>1, <2>2, <2>3 DEF Held
<1>4. ASSUME ~Full, taken = Length, Reading PROVE start + Len(usrbuf) = Length
  <2>1. rio_cnt <= 0
    BY <1>4, <1>2 DEF Reading, Placed, Types
  <2> QED BY <1>1, <1>3, <1>4, <2>1 DEF UnreadCount
<1>5. CASE op /= "readlineb"
  <2>1. Len(usrbuf) <= count
    BY <1>5 DEF Stored
  <2>2. Full => Len(usrbuf) = count
    BY <1>5 DEF Full
  <2>3. start + Len(usrbuf) = Least(start + count, Length)
    BY <1>1, <1>3, <1>4, <2>1, <2>2 DEF Least
  <2> QED BY <1>1, <1>5, <2>3 DEF Expected
<1>6. CASE op = "readlineb"
  <2> DEFINE S == {k \in newlines : k > start} \cup {Length}
             e == start + Len(usrbuf)
             N == NextNewline(start)
  <2>1. N \in S /\ \A y \in S : N <= y
    BY <1>1, NextNewlineIsFirst
  <2>2. /\ Len(usrbuf) <= count - 1
        /\ \A k \in 1 .. Len(usrbuf) - 1 : start + k \notin newlines
        /\ \A k \in 1 .. Len(usrbuf) : usrbuf[k] = start + k
    BY <1>6 DEF Stored
  <2>3. newlines \subseteq 1 .. Length /\ S \subseteq Nat
    <3>1. newlines \subseteq 1 .. Length
      BY DEF Types, Bytes
    <3>2. newlines \subseteq Nat
      BY <1>1, <3>1
    <3> QED BY <1>1, <3>1, <3>2
  <2>4. \A k \in S : k >= e
    <3> SUFFICES ASSUME NEW k \in S, k < e PROVE FALSE
      BY <1>1, <2>3
    <3>1. k \in newlines /\ k > start
      BY <1>1, <1>3, <2>3
    <3>2. k - start \in 1 .. Len(usrbuf) - 1 /\ start + (k - start) = k
      BY <1>1, <2>3, <3>1
    <3> QED BY <2>2, <3>1, <3>2
  <2>5. usrbuf /= << >> <=> Len(usrbuf) >= 1
    BY <1>1, EmptySeq DEF Types
  <2>6. CASE Full /\ Len(usrbuf) = count - 1
    <3>1. e = Least(start + count - 1, N)
      BY <1>1, <2>1, <2>3, <2>4, <2>6 DEF Least
    <3> QED BY <1>1, <1>6, <3>1 DEF Expected
  <2>7. CASE Full /\ Len(usrbuf) /= count - 1
    <3>1. Len(usrbuf) >= 1 /\ usrbuf[Len(usrbuf)] \in newlines
      BY <1>6, <2>5, <2>7 DEF Full
    <3>2. e \in S
      BY <1>1, <2>2, <3>1
    <3>3. N = e
      BY <1>1, <2>1, <2>3, <2>4, <3>2
    <3>4. e = Least(start + count - 1, N)
      BY <1>1, <2>2, <3>3 DEF Least
    <3> QED BY <1>1, <1>6, <3>4 DEF Expected
  <2>8. CASE ~Full
    <3>1. e = Length
      BY <1>4, <2>8
    <3>2. N = e
      BY <1>1, <2>1, <2>3, <2>4, <3>1
    <3>3. e = Least(start + count - 1, N)
      BY <1>1, <2>2, <3>2 DEF Least
    <3> QED BY <1>1, <1>6, <3>3 DEF Expected
  <2> QED BY <2>6, <2>7, <2>8
<1> QED BY <1>5, <1>6

--------------------------------------------------------------------------------
(* The invariant is inductive *)

(* It holds when a connection has been set up, with any input to come. *)
LEMMA InitInvariant == Init => IInv
<1> SUFFICES ASSUME Init PROVE IInv
  OBVIOUS
<1>1. << >> \in Seq(Nat) /\ Len(<< >>) = 0
  BY EmptySeq
<1>2. Types
  BY <1>1, RioAssumption DEF Init, Types, Modes, Ops
<1>3. Placed
  BY DEF Init, Placed, Held, UnreadCount
<1>4. Stored
  BY DEF Init, Stored
<1>5. InWriting
  BY <1>1 DEF Init, InWriting, Held, None
<1>6. Reads
  BY DEF Init, Reads, None
<1> QED BY <1>2, <1>3, <1>4, <1>5, <1>6 DEF IInv

(* The program calls a function: nothing is stored yet. *)
LEMMA CallsKeep ==
  ASSUME IInv, Calls
  PROVE  IInv'
<1>1. << >> \in Seq(Nat) /\ Len(<< >>) = 0
  BY EmptySeq
<1>2. PICK f \in Ops, n \in 0 .. MaxCount :
         /\ Call(f, n)
         /\ f = "readn" => mode = "unbuffered"
         /\ f \in {"readnb", "readlineb"} => mode = "buffered"
         /\ f = "writen" => mode = "write"
         /\ f = "readlineb" => n >= 1
  BY DEF Calls, Ops
<1>3. n \in Nat
  BY RioAssumption
<1>4. /\ op = "idle" /\ op' = f /\ count' = n /\ usrbuf' = << >> /\ start' = start
      /\ newlines' = newlines /\ mode' = mode /\ taken' = taken /\ last' = last
      /\ rio_cnt' = rio_cnt /\ rio_bufptr' = rio_bufptr /\ rio_buf' = rio_buf
      /\ written' = written
  BY <1>2 DEF Call, buffer
<1>5. op' /= "idle" /\ Len(usrbuf') = 0
  BY <1>1, <1>2, <1>4 DEF Ops
<1>6. Types'
  BY <1>1, <1>2, <1>3, <1>4 DEF IInv, Types, Bytes
<1>7. Held' = Held /\ UnreadCount' = UnreadCount
  BY <1>4, <1>5 DEF Held, UnreadCount
<1>8. Placed'
  BY <1>4, <1>7 DEF IInv, Placed
<1>9. Stored'
  BY <1>2, <1>3, <1>4, <1>5 DEF Stored
<1>10. InWriting'
  BY <1>4, <1>5, <1>7 DEF IInv, InWriting
<1>11. Reads'
  BY <1>4 DEF IInv, Reads, Expected, NextNewline
<1> QED BY <1>6, <1>8, <1>9, <1>10, <1>11 DEF IInv

(* A call returns, with whatever it has stored. *)
LEMMA ReturnKeeps ==
  ASSUME IInv, op /= "idle", NEW ret, Return(ret),
         taken' = taken, rio_bufptr' = rio_bufptr, rio_buf' = rio_buf,
         \/ rio_cnt' = rio_cnt
         \/ /\ op \in {"readnb", "readlineb"} /\ rio_cnt <= 0
            /\ rio_cnt' \in Int /\ rio_cnt' <= 0
  PROVE  Types' /\ Placed' /\ Stored'
<1>1. /\ op' = "idle" /\ count' = count /\ usrbuf' = usrbuf
      /\ start' = start + Len(usrbuf)
      /\ newlines' = newlines /\ mode' = mode /\ written' = written
  BY DEF Return
<1>2. Len(usrbuf) \in Nat /\ start \in Nat
  BY LenProperties DEF IInv, Types
<1>3. rio_cnt \in Int /\ rio_cnt' \in Int
  BY DEF IInv, Types
<1>4. Types'
  <2>1. start' \in Nat
    BY <1>1, <1>2
  <2> QED BY <1>1, <1>3, <2>1 DEF IInv, Types, Bytes
<1>5. UnreadCount' = UnreadCount /\ (rio_cnt' > 0 => rio_cnt' = rio_cnt)
  BY <1>3 DEF UnreadCount
<1>6. start' + Held' + UnreadCount' = start + Held + UnreadCount
  <2>1. Held = Len(usrbuf) /\ Held' = 0
    BY <1>1 DEF Held
  <2>2. UnreadCount \in Int
    BY <1>3 DEF UnreadCount
  <2> QED BY <1>1, <1>2, <1>5, <2>1, <2>2
<1>7. Placed'
  <2> SUFFICES ASSUME mode' /= "write"
               PROVE  /\ start' + Held' + UnreadCount' = taken'
                      /\ mode' = "unbuffered" => rio_cnt' = 0
                      /\ rio_cnt' > 0 =>
                            /\ rio_bufptr' + rio_cnt' <= Len(rio_buf')
                            /\ \A k \in 1 .. rio_cnt' :
                                  rio_buf'[rio_bufptr' + k] = taken' - rio_cnt' + k
    BY DEF Placed
  <2>1. mode /= "write" /\ Placed
    BY <1>1 DEF IInv
  <2>2. mode' = "unbuffered" => rio_cnt' = 0
    BY <1>1, <2>1 DEF Placed, IInv, Types
  <2>3. start' + Held' + UnreadCount' = taken'
    BY <1>6, <2>1 DEF Placed
  <2> QED BY <1>5, <2>1, <2>2, <2>3 DEF Placed
<1>8. Stored'
  BY <1>1 DEF Stored
<1> QED BY <1>4, <1>7, <1>8

(* A call that does not fail returns at the end of its loop or at EOF, and  *)
(* rio_writen when all is written: then the record of it is as promised.   *)
LEMMA ReturnRecords ==
  ASSUME IInv, op /= "idle", NEW ret, Return(ret),
         op \in {"readn", "readnb", "readlineb"} /\ ret >= 0 =>
            ret = Len(usrbuf) /\ (Full \/ (Reading /\ taken = Length)),
         op = "writen" /\ ret >= 0 => ret = count
  PROVE  InWriting' /\ Reads'
<1>1. /\ op' = "idle" /\ usrbuf' = usrbuf /\ start' = start + Len(usrbuf)
      /\ newlines' = newlines /\ mode' = mode /\ written' = written
      /\ last' = [op |-> op, count |-> count, start |-> start, ret |-> ret, bytes |-> usrbuf]
  BY DEF Return
<1>2. /\ last'.op = op /\ last'.count = count /\ last'.start = start
      /\ last'.ret = ret /\ last'.bytes = usrbuf
  BY <1>1
<1>3. InWriting'
  <2>1. Len(usrbuf) \in Nat /\ start \in Nat
    BY LenProperties DEF IInv, Types
  <2>2. start' + Held' = start + Held
    BY <1>1, <2>1 DEF Held
  <2>3. op = "writen" => mode = "write"
    BY DEF IInv, Types
  <2> QED BY <1>1, <1>2, <2>2, <2>3 DEF IInv, InWriting
<1>4. Reads'
  <2> SUFFICES ASSUME last'.op \in {"readn", "readnb", "readlineb"}, last'.ret >= 0
               PROVE  last'.bytes = Expected(last)' /\ last'.ret = Len(last'.bytes)
    BY DEF Reads
  <2>1. usrbuf = Expected(last')
    BY <1>2, StoredAsExpected DEF IInv
  <2>2. Expected(last)' = Expected(last')
    BY <1>1 DEF Expected, NextNewline
  <2> QED BY <1>2, <2>1, <2>2
<1> QED BY <1>3, <1>4

(* The loop ends. *)
LEMMA ReturnFullKeeps ==
  ASSUME IInv, ReturnFull
  PROVE  IInv'
<1>1. /\ Full /\ Return(Len(usrbuf)) /\ taken' = taken /\ op /= "idle"
      /\ rio_bufptr' = rio_bufptr /\ rio_buf' = rio_buf /\ rio_cnt' = rio_cnt
  BY DEF ReturnFull, Full, buffer
<1>2. op = "writen" => Len(usrbuf) = count
  BY <1>1 DEF Full
<1>3. Types' /\ Placed' /\ Stored'
  BY <1>1, ReturnKeeps
<1>4. InWriting' /\ Reads'
  BY <1>1, <1>2, ReturnRecords
<1> QED BY <1>3, <1>4 DEF IInv

(* read returns 0: the call returns what it has. *)
LEMMA ReadEOFKeeps ==
  ASSUME IInv, ReadEOF
  PROVE  IInv'
<1>1. /\ Reading /\ taken = Length /\ Return(Len(usrbuf)) /\ taken' = taken
      /\ rio_bufptr' = rio_bufptr /\ rio_buf' = rio_buf
      /\ rio_cnt' = IF op = "readn" THEN rio_cnt ELSE 0
  BY DEF ReadEOF
<1>2. op = "readn" \/ (op \in {"readnb", "readlineb"} /\ rio_cnt <= 0)
  BY <1>1 DEF Reading
<1>3. Types' /\ Placed' /\ Stored'
  <2>1. CASE op = "readn"
    BY <1>1, <2>1, ReturnKeeps
  <2>2. CASE op \in {"readnb", "readlineb"} /\ rio_cnt <= 0
    BY <1>1, <2>2, ReturnKeeps
  <2> QED BY <1>2, <2>1, <2>2
<1>4. InWriting' /\ Reads'
  BY <1>1, <1>2, ReturnRecords
<1> QED BY <1>3, <1>4 DEF IInv

(* read or write fails: the call returns -1. *)
LEMMA FailsKeeps ==
  ASSUME IInv, Fails
  PROVE  IInv'
<1>1. /\ Reading \/ (op = "writen" /\ ~Full)
      /\ Return(-1) /\ taken' = taken
      /\ rio_bufptr' = rio_bufptr /\ rio_buf' = rio_buf
      /\ rio_cnt' = IF op \in {"readnb", "readlineb"} THEN -1 ELSE rio_cnt
  BY DEF Fails
<1>2. op \in {"readn", "writen"} \/ (op \in {"readnb", "readlineb"} /\ rio_cnt <= 0)
  BY <1>1 DEF Reading
<1>3. Types' /\ Placed' /\ Stored'
  <2>1. CASE op \in {"readn", "writen"}
    BY <1>1, <2>1, ReturnKeeps
  <2>2. CASE op \in {"readnb", "readlineb"} /\ rio_cnt <= 0
    BY <1>1, <2>2, ReturnKeeps
  <2> QED BY <1>2, <2>1, <2>2
<1>4. InWriting' /\ Reads'
  <2>1. op /= "idle" /\ ~(-1 >= 0)
    BY <1>2
  <2> QED BY <1>1, <2>1, ReturnRecords
<1> QED BY <1>3, <1>4 DEF IInv

(* An interrupt before the first byte leaves everything where it is. *)
LEMMA InterruptedKeeps ==
  ASSUME IInv, Interrupted
  PROVE  IInv'
<1>1. /\ newlines' = newlines /\ mode' = mode /\ taken' = taken /\ last' = last
      /\ rio_bufptr' = rio_bufptr /\ rio_buf' = rio_buf /\ written' = written
      /\ op' = op /\ count' = count /\ usrbuf' = usrbuf /\ start' = start
  BY DEF Interrupted, call
<1>2. \/ rio_cnt' = rio_cnt
      \/ op \in {"readnb", "readlineb"} /\ rio_cnt <= 0 /\ rio_cnt' = -1
  BY DEF Interrupted, Reading
<1>3. Types' /\ Stored' /\ Reads'
  <2>1. rio_cnt' \in Int
    BY <1>2 DEF IInv, Types
  <2>2. Types'
    BY <1>1, <2>1 DEF IInv, Types, Bytes
  <2>3. Stored'
    BY <1>1 DEF IInv, Stored
  <2>4. Reads'
    BY <1>1 DEF IInv, Reads, Expected, NextNewline
  <2> QED BY <2>2, <2>3, <2>4
<1>4. Held' = Held /\ UnreadCount' = UnreadCount
  <2>1. rio_cnt \in Int
    BY DEF IInv, Types
  <2> QED BY <1>1, <1>2, <2>1 DEF Held, UnreadCount
<1>5. Placed'
  <2>1. CASE rio_cnt' = rio_cnt
    BY <1>1, <1>4, <2>1 DEF IInv, Placed
  <2>2. CASE op \in {"readnb", "readlineb"} /\ rio_cnt' = -1
    <3>1. mode = "buffered"
      BY <2>2 DEF IInv, Types
    <3> QED BY <1>1, <1>4, <2>2, <3>1 DEF IInv, Placed
  <2> QED BY <1>2, <2>1, <2>2
<1>6. InWriting'
  BY <1>1, <1>4 DEF IInv, InWriting
<1> QED BY <1>3, <1>5, <1>6 DEF IInv

(* rio_writen hands the next bytes to write. *)
LEMMA WriteKeeps ==
  ASSUME IInv, Write
  PROVE  IInv'
<1>1. /\ op = "writen" /\ op' = op /\ count' = count /\ start' = start
      /\ newlines' = newlines /\ mode' = mode /\ taken' = taken /\ last' = last
      /\ rio_cnt' = rio_cnt /\ rio_bufptr' = rio_bufptr /\ rio_buf' = rio_buf
  BY DEF Write, buffer
<1> DEFINE L == Len(usrbuf)
<1>2. PICK n \in 1 .. count - L :
         /\ usrbuf' = usrbuf \o Interval(start + L + 1, start + L + n)
         /\ written' = written \o Interval(start + L + 1, start + L + n)
  BY DEF Write
<1>3. L \in Nat /\ n \in Nat /\ L + n <= count /\ Len(written) \in Nat /\ mode = "write"
  BY <1>1, LenProperties DEF IInv, Types
<1>4. Len(written) = start + L
  BY <1>1, <1>3 DEF IInv, InWriting, Held
<1>5. /\ usrbuf' \in Seq(Nat) /\ Len(usrbuf') = L + n
      /\ \A k \in 1 .. Len(usrbuf') : usrbuf'[k] = start + k
  <2>1. /\ usrbuf \in Seq(Nat) /\ start \in Nat
        /\ \A k \in 1 .. Len(usrbuf) : usrbuf[k] = start + k
    BY <1>1 DEF IInv, Types, Stored
  <2> HIDE DEF L
  <2> QED BY <1>2, <1>3, <2>1, ConsecutiveMore DEF L
<1>6. /\ written' \in Seq(Nat) /\ Len(written') = Len(written) + n
      /\ \A k \in 1 .. Len(written') : written'[k] = k
  <2>1. PICK a \in Nat : a = 0
    OBVIOUS
  <2>2. /\ written \in Seq(Nat) /\ start \in Nat
        /\ \A k \in 1 .. Len(written) : written[k] = a + k
    BY <2>1 DEF IInv, Types, InWriting
  <2>3. written' = written \o Interval(a + Len(written) + 1, a + Len(written) + n)
    BY <1>2, <1>3, <1>4, <2>1, <2>2, SMTT(30)
  <2>4. /\ written' \in Seq(Nat) /\ Len(written') = Len(written) + n
        /\ \A k \in 1 .. Len(written') : written'[k] = a + k
    BY <1>3, <2>2, <2>3, ConsecutiveMore
  <2> QED BY <2>1, <2>4, LenProperties
<1>7. Types'
  BY <1>1, <1>5, <1>6 DEF IInv, Types, Bytes
<1>8. Placed'
  BY <1>1, <1>3 DEF Placed
<1>9. Stored'
  BY <1>1, <1>3, <1>5 DEF Stored
<1>10. InWriting'
  <2>1. start \in Nat
    BY DEF IInv, Types
  <2>2. Len(written') = start' + Held'
    BY <1>1, <1>3, <1>4, <1>5, <1>6, <2>1 DEF Held
  <2> QED BY <1>1, <1>6, <2>2 DEF IInv, InWriting
<1>11. Reads'
  BY <1>1 DEF IInv, Reads, Expected, NextNewline
<1> QED BY <1>7, <1>8, <1>9, <1>10, <1>11 DEF IInv

(* rio_readn reads into the caller's buffer. *)
LEMMA ReadDirectKeeps ==
  ASSUME IInv, ReadDirect
  PROVE  IInv'
<1>1. /\ op = "readn" /\ op' = op /\ count' = count /\ start' = start
      /\ newlines' = newlines /\ mode' = mode /\ last' = last /\ written' = written
      /\ rio_cnt' = rio_cnt /\ rio_bufptr' = rio_bufptr /\ rio_buf' = rio_buf
  BY DEF ReadDirect, buffer
<1>2. PICK n \in 1 .. Least(count - Len(usrbuf), Length - taken) :
         /\ usrbuf' = usrbuf \o Interval(taken + 1, taken + n)
         /\ taken' = taken + n
  BY DEF ReadDirect
<1>3. /\ Len(usrbuf) \in Nat /\ count \in Nat /\ start \in Nat /\ taken \in 0 .. Length
      /\ Length \in Nat /\ usrbuf \in Seq(Nat) /\ mode = "unbuffered"
  BY <1>1, RioAssumption, LenProperties DEF IInv, Types
<1>4. n \in Nat /\ Len(usrbuf) + n <= count /\ taken + n <= Length
  BY <1>2, <1>3 DEF Least
<1>5. rio_cnt = 0 /\ taken = start + Len(usrbuf)
  BY <1>1, <1>3 DEF IInv, Placed, Held, UnreadCount
<1>6. /\ usrbuf' \in Seq(Nat) /\ Len(usrbuf') = Len(usrbuf) + n
      /\ \A k \in 1 .. Len(usrbuf') : usrbuf'[k] = start + k
  <2>1. \A k \in 1 .. Len(usrbuf) : usrbuf[k] = start + k
    BY <1>1 DEF IInv, Stored
  <2>2. usrbuf' = usrbuf \o Interval(start + Len(usrbuf) + 1, start + Len(usrbuf) + n)
    BY <1>2, <1>5
  <2> QED BY <1>3, <1>4, <2>1, <2>2, ConsecutiveMore
<1>7. Types'
  BY <1>1, <1>2, <1>3, <1>4, <1>6 DEF IInv, Types, Bytes
<1>8. Placed'
  <2>1. Held' = Len(usrbuf) + n /\ UnreadCount' = 0 /\ rio_cnt' = 0
    BY <1>1, <1>5, <1>6 DEF Held, UnreadCount
  <2>2. start' + Held' + UnreadCount' = taken'
    BY <1>1, <1>2, <1>3, <1>4, <1>5, <2>1
  <2> QED BY <2>1, <2>2 DEF Placed
<1>9. Stored'
  BY <1>1, <1>3, <1>4, <1>6 DEF Stored
<1>10. InWriting'
  BY <1>1, <1>3 DEF IInv, InWriting
<1>11. Reads'
  BY <1>1 DEF IInv, Reads, Expected, NextNewline
<1> QED BY <1>7, <1>8, <1>9, <1>10, <1>11 DEF IInv

(* rio_read fills the empty buffer from its start. *)
LEMMA RefillKeeps ==
  ASSUME IInv, Refill
  PROVE  IInv'
<1>1. /\ op \in {"readnb", "readlineb"} /\ rio_cnt <= 0
      /\ op' = op /\ count' = count /\ start' = start /\ usrbuf' = usrbuf
      /\ newlines' = newlines /\ mode' = mode /\ last' = last /\ written' = written
      /\ rio_bufptr' = 0
  BY DEF Refill, Reading, call
<1>2. PICK n \in 1 .. Least(RIO_BUFSIZE, Length - taken) :
         /\ rio_cnt' = n
         /\ rio_buf' = Interval(taken + 1, taken + n) \o SubSeq(rio_buf, n + 1, Len(rio_buf))
         /\ taken' = taken + n
  BY DEF Refill
<1>3. /\ start \in Nat /\ taken \in 0 .. Length /\ rio_cnt \in Int
      /\ Length \in Nat /\ rio_buf \in Seq(Nat) /\ mode = "buffered"
  BY <1>1, RioAssumption DEF IInv, Types
<1>4. n \in Nat /\ n > 0 /\ taken + n <= Length
  BY <1>2, <1>3, RioAssumption DEF Least
<1>5. taken = start + Held /\ Held \in Nat /\ Held' = Held
  <2>1. Held \in Nat /\ Held' = Held
    BY <1>1, LenProperties DEF IInv, Types, Held
  <2>2. UnreadCount = 0
    BY <1>1, <1>3 DEF UnreadCount
  <2> QED BY <1>3, <2>1, <2>2 DEF IInv, Placed
<1>6. /\ rio_buf' \in Seq(Nat) /\ n <= Len(rio_buf')
      /\ \A k \in 1 .. n : rio_buf'[k] = taken + k
  <2> DEFINE new == Interval(taken + 1, taken + n)
             rest == SubSeq(rio_buf, n + 1, Len(rio_buf))
  <2>1. new \in Seq(Nat) /\ Len(new) = n /\ \A k \in 1 .. n : new[k] = taken + k
    <3>1. taken + 1 \in Nat /\ taken + n \in Int /\ taken + n >= (taken + 1) - 1
          /\ (taken + n) - (taken + 1) + 1 = n
      BY <1>3, <1>4
    <3>2. new \in Seq(Nat) /\ Len(new) = n
          /\ \A k \in 1 .. n : new[k] = (taken + 1) + k - 1
      BY <3>1, IntervalElements
    <3> QED BY <1>3, <1>4, <3>2
  <2>2. rest \in Seq(Nat) /\ Len(rest) \in Nat
    <3>1. Len(rio_buf) \in Nat
      BY <1>3, LenProperties
    <3>2. \A i \in n + 1 .. Len(rio_buf) : rio_buf[i] \in Nat
      BY <1>3, <1>4, <3>1, ElementOfSeq
    <3>3. rest \in Seq(Nat)
      BY <1>4, <3>1, <3>2, SubSeqProperties
    <3> QED BY <3>3, LenProperties
  <2>3. rio_buf' = new \o rest
    BY <1>2
  <2> HIDE DEF new, rest
  <2>4. /\ new \o rest \in Seq(Nat)
        /\ Len(new \o rest) = Len(new) + Len(rest)
        /\ \A i \in 1 .. Len(new) + Len(rest) :
              (new \o rest)[i] = IF i <= Len(new) THEN new[i] ELSE rest[i - Len(new)]
    BY <2>1, <2>2, ConcatProperties
  <2> QED BY <1>4, <2>1, <2>2, <2>3, <2>4
<1>7. Types'
  BY <1>1, <1>2, <1>3, <1>4, <1>6 DEF IInv, Types, Bytes
<1>8. Placed'
  <2>1. UnreadCount' = n
    BY <1>2, <1>4 DEF UnreadCount
  <2>2. start' + Held' + UnreadCount' = taken'
    BY <1>1, <1>2, <1>3, <1>4, <1>5, <2>1
  <2>3. rio_bufptr' + rio_cnt' <= Len(rio_buf')
    <3>1. 0 + n = n
      BY <1>4
    <3> QED BY <1>1, <1>2, <1>6, <3>1
  <2>4. ASSUME NEW k \in 1 .. n PROVE rio_buf'[rio_bufptr' + k] = taken' - rio_cnt' + k
    <3>1. rio_bufptr' + k = k /\ taken' - rio_cnt' + k = taken + k
      BY <1>1, <1>2, <1>3, <1>4
    <3> QED BY <1>6, <3>1
  <2> QED BY <1>1, <1>2, <1>3, <2>2, <2>3, <2>4 DEF Placed
<1>9. Stored'
  BY <1>1 DEF IInv, Stored
<1>10. InWriting'
  BY <1>1, <1>3 DEF IInv, InWriting
<1>11. Reads'
  BY <1>1 DEF IInv, Reads, Expected, NextNewline
<1> QED BY <1>7, <1>8, <1>9, <1>10, <1>11 DEF IInv

(* rio_readnb and rio_readlineb copy the next unread bytes. *)
LEMMA CopyKeeps ==
  ASSUME IInv, Copy
  PROVE  IInv'
<1> DEFINE L == Len(usrbuf)
           m == IF op = "readnb" THEN Least(count - L, rio_cnt) ELSE 1
           copied == SubSeq(rio_buf, rio_bufptr + 1, rio_bufptr + m)
<1>1. /\ op \in {"readnb", "readlineb"} /\ rio_cnt > 0 /\ ~Full
      /\ usrbuf' = usrbuf \o copied
      /\ rio_bufptr' = rio_bufptr + m /\ rio_cnt' = rio_cnt - m
      /\ op' = op /\ count' = count /\ start' = start /\ taken' = taken
      /\ newlines' = newlines /\ mode' = mode /\ last' = last /\ written' = written
      /\ rio_buf' = rio_buf
  BY DEF Copy, CopyOut
<1>2. /\ start \in Nat /\ taken \in 0 .. Length /\ rio_cnt \in Int /\ rio_bufptr \in Nat
      /\ count \in Nat /\ L \in Nat /\ usrbuf \in Seq(Nat)
      /\ Length \in Nat /\ rio_buf \in Seq(Nat) /\ mode = "buffered"
  BY <1>1, RioAssumption, LenProperties DEF IInv, Types
<1>3. /\ \A k \in 1 .. L : usrbuf[k] = start + k
      /\ op = "readnb" => L < count
      /\ op = "readlineb" => /\ L < count - 1
                             /\ L >= 1 => usrbuf[L] \notin newlines
                             /\ \A k \in 1 .. L - 1 : start + k \notin newlines
  <2>1. L >= 1 => usrbuf /= << >>
    BY EmptySeq
  <2> QED BY <1>1, <1>2, <2>1, SMTT(30) DEF IInv, Stored, Full
<1>4. m \in 1 .. rio_cnt /\ (op = "readnb" => L + m <= count) /\ (op = "readlineb" => m = 1)
  BY <1>1, <1>2, <1>3 DEF Least
<1>5. /\ start + L + rio_cnt = taken
      /\ rio_bufptr + rio_cnt <= Len(rio_buf)
      /\ \A k \in 1 .. rio_cnt : rio_buf[rio_bufptr + k] = taken - rio_cnt + k
  BY <1>1, <1>2 DEF IInv, Placed, Held, UnreadCount
<1> HIDE DEF m
<1>6. copied \in Seq(Nat) /\ Len(copied) = m /\ \A k \in 1 .. m : copied[k] = start + L + k
  <2>1. \A i \in rio_bufptr + 1 .. rio_bufptr + m : rio_buf[i] \in Nat
    BY <1>2, <1>4, <1>5, LenProperties, ElementOfSeq
  <2>2. /\ copied \in Seq(Nat)
        /\ Len(copied) = IF rio_bufptr + 1 <= rio_bufptr + m
                         THEN rio_bufptr + m - (rio_bufptr + 1) + 1 ELSE 0
        /\ \A i \in 1 .. rio_bufptr + m - (rio_bufptr + 1) + 1 :
              copied[i] = rio_buf[rio_bufptr + 1 + i - 1]
    BY <1>2, <1>4, <2>1, SubSeqProperties
  <2> HIDE DEF copied
  <2>3. Len(copied) = m
    BY <1>2, <1>4, <2>2
  <2>4. ASSUME NEW k \in 1 .. m PROVE copied[k] = start + L + k
    <3>1. copied[k] = rio_buf[rio_bufptr + k]
      BY <1>2, <1>4, <2>2
    <3>2. k \in Int /\ k \in 1 .. rio_cnt
      BY <1>2, <1>4
    <3>3. rio_buf[rio_bufptr + k] = taken - rio_cnt + k
      BY <1>5, <3>2
    <3>4. taken - rio_cnt + k = start + L + k
      <4> HIDE DEF L
      <4> QED BY <1>2, <1>5, <3>2
    <3> QED BY <3>1, <3>3, <3>4
  <2> QED BY <2>2, <2>3, <2>4
<1>7. /\ usrbuf' \in Seq(Nat) /\ Len(usrbuf') = L + m
      /\ \A k \in 1 .. Len(usrbuf') : usrbuf'[k] = start + k
  <2> HIDE DEF copied
  <2>1. \A k \in 1 .. Len(copied) : copied[k] = start + Len(usrbuf) + k
    BY <1>6
  <2>2. /\ usrbuf \o copied \in Seq(Nat)
        /\ Len(usrbuf \o copied) = Len(usrbuf) + Len(copied)
        /\ \A k \in 1 .. Len(usrbuf \o copied) : (usrbuf \o copied)[k] = start + k
    BY <1>2, <1>3, <1>6, <2>1, ConsecutiveConcat
  <2> QED BY <1>1, <1>6, <2>2
<1> HIDE DEF copied
<1>8. Types'
  BY <1>1, <1>2, <1>4, <1>7 DEF IInv, Types, Bytes
<1>9. Placed'
  <2>1. Held' = L + m
    BY <1>1, <1>7 DEF Held
  <2>2. UnreadCount' = rio_cnt - m
    BY <1>1, <1>2, <1>4 DEF UnreadCount
  <2>3. ASSUME NEW k \in 1 .. rio_cnt'
        PROVE  rio_buf'[rio_bufptr' + k] = taken' - rio_cnt' + k
    <3>1. m + k \in 1 .. rio_cnt /\ rio_bufptr + (m + k) = rio_bufptr' + k
          /\ taken - rio_cnt + (m + k) = taken' - rio_cnt' + k
      BY <1>1, <1>2, <1>4
    <3> QED BY <1>1, <1>5, <3>1
  <2>4. rio_bufptr' + rio_cnt' <= Len(rio_buf') /\ start' + Held' + UnreadCount' = taken'
    <3>1. rio_bufptr' + rio_cnt' = rio_bufptr + rio_cnt
      BY <1>1, <1>2, <1>4
    <3>2. start + (L + m) + (rio_cnt - m) = start + L + rio_cnt
      <4> HIDE DEF L
      <4> QED BY <1>2, <1>4
    <3> QED BY <1>1, <1>5, <2>1, <2>2, <3>1, <3>2
  <2> QED BY <1>1, <1>2, <2>3, <2>4 DEF Placed
<1>10. Stored'
  <2>1. op' = "readnb" => Len(usrbuf') <= count'
    BY <1>1, <1>4, <1>7
  <2>2. ASSUME op = "readlineb"
        PROVE  Len(usrbuf') <= count' - 1
               /\ \A k \in 1 .. Len(usrbuf') - 1 : start' + k \notin newlines'
    <3>1. Len(usrbuf') = L + 1 /\ L + 1 <= count - 1
      BY <1>2, <1>3, <1>4, <1>7, <2>2
    <3>2. ASSUME NEW k \in 1 .. L PROVE start + k \notin newlines
      <4>1. CASE k = L
        BY <1>2, <1>3, <2>2, <4>1
      <4>2. CASE k /= L
        <5>1. k \in 1 .. L - 1
          <6> HIDE DEF L
          <6> QED BY <1>2, <4>2
        <5> QED BY <1>3, <2>2, <5>1
      <4> QED BY <4>1, <4>2
    <3>3. Len(usrbuf') - 1 = L
      BY <1>2, <3>1
    <3> QED BY <1>1, <3>1, <3>2, <3>3
  <2> QED BY <1>1, <1>7, <2>1, <2>2 DEF Stored
<1>11. InWriting'
  BY <1>1, <1>2 DEF IInv, InWriting
<1>12. Reads'
  BY <1>1 DEF IInv, Reads, Expected, NextNewline
<1> QED BY <1>8, <1>9, <1>10, <1>11, <1>12 DEF IInv

(* Every step keeps the invariant. *)
LEMMA NextInvariant ==
  ASSUME IInv, [Next]_vars
  PROVE  IInv'
<1>1. CASE Calls
  BY <1>1, CallsKeep
<1>2. CASE ReturnFull
  BY <1>2, ReturnFullKeeps
<1>3. CASE Refill
  BY <1>3, RefillKeeps
<1>4. CASE ReadDirect
  BY <1>4, ReadDirectKeeps
<1>5. CASE Interrupted
  BY <1>5, InterruptedKeeps
<1>6. CASE ReadEOF
  BY <1>6, ReadEOFKeeps
<1>7. CASE Fails
  BY <1>7, FailsKeeps
<1>8. CASE Write
  BY <1>8, WriteKeeps
<1>9. CASE Copy
  BY <1>9, CopyKeeps
<1>10. CASE UNCHANGED vars
  BY <1>10 DEF vars, buffer, call, IInv, Types, Bytes, Placed, Held, UnreadCount, Stored,
               InWriting, Reads, Expected, NextNewline
<1> QED BY <1>1, <1>2, <1>3, <1>4, <1>5, <1>6, <1>7, <1>8, <1>9, <1>10 DEF Next

--------------------------------------------------------------------------------
(* Theorems *)

(* Adjacent parts that end at the last byte taken leave no byte out. *)
LEMMA InvariantNothingLost == IInv => NothingLost
<1> SUFFICES ASSUME IInv, mode /= "write"
             PROVE  (IF op = "idle" THEN << >> ELSE usrbuf) \o Unread
                       = Interval(start + 1, taken)
  BY DEF NothingLost
<1> DEFINE s == IF op = "idle" THEN << >> ELSE usrbuf
<1>1. /\ start \in Nat /\ taken \in 0 .. Length /\ Length \in Nat /\ rio_cnt \in Int
      /\ rio_bufptr \in Nat /\ rio_buf \in Seq(Nat)
  BY RioAssumption DEF IInv, Types
<1>2. /\ s \in Seq(Nat) /\ Len(s) = Held /\ Held \in Nat
      /\ \A k \in 1 .. Len(s) : s[k] = start + k
  BY EmptySeq, LenProperties DEF IInv, Types, Stored, Held
<1>3. start + Held + UnreadCount = taken
  BY DEF IInv, Placed
<1>4. /\ Unread \in Seq(Nat) /\ Len(Unread) = UnreadCount
      /\ \A k \in 1 .. Len(Unread) : Unread[k] = start + Len(s) + k
  <2>1. CASE rio_cnt > 0
    <3>1. /\ UnreadCount = rio_cnt
          /\ rio_bufptr + rio_cnt <= Len(rio_buf)
          /\ \A k \in 1 .. rio_cnt : rio_buf[rio_bufptr + k] = taken - rio_cnt + k
      BY <2>1 DEF IInv, Placed, UnreadCount
    <3>2. \A i \in rio_bufptr + 1 .. rio_bufptr + rio_cnt : rio_buf[i] \in Nat
      BY <1>1, <3>1, LenProperties, ElementOfSeq
    <3>3. Unread = SubSeq(rio_buf, rio_bufptr + 1, rio_bufptr + rio_cnt)
      BY <2>1 DEF Unread
    <3>4. /\ Unread \in Seq(Nat) /\ Len(Unread) = rio_cnt
          /\ \A i \in 1 .. rio_cnt : Unread[i] = rio_buf[rio_bufptr + i]
      <4> DEFINE a == rio_bufptr + 1
                 b == rio_bufptr + rio_cnt
      <4>1. a \in Int /\ b \in Int /\ \A i \in a .. b : rio_buf[i] \in Nat
        BY <1>1, <3>2
      <4> HIDE DEF a, b
      <4>2. /\ SubSeq(rio_buf, a, b) \in Seq(Nat)
            /\ Len(SubSeq(rio_buf, a, b)) = IF a <= b THEN b - a + 1 ELSE 0
            /\ \A i \in 1 .. b - a + 1 : SubSeq(rio_buf, a, b)[i] = rio_buf[a + i - 1]
        BY <4>1, SubSeqProperties
      <4>3. Unread = SubSeq(rio_buf, a, b)
        BY <3>3 DEF a, b
      <4>4. /\ Unread \in Seq(Nat)
            /\ Len(Unread) = IF a <= b THEN b - a + 1 ELSE 0
            /\ \A i \in 1 .. b - a + 1 : Unread[i] = rio_buf[a + i - 1]
        BY <4>2, <4>3
      <4>5. a <= b /\ b - a + 1 = rio_cnt /\ \A i \in Int : a + i - 1 = rio_bufptr + i
        BY <1>1, <2>1 DEF a, b
      <4>6. Len(Unread) = rio_cnt
        BY <4>4, <4>5
      <4>7. ASSUME NEW i \in 1 .. rio_cnt PROVE Unread[i] = rio_buf[rio_bufptr + i]
        <5>1. i \in Int /\ i \in 1 .. b - a + 1
          BY <1>1, <4>5
        <5>2. Unread[i] = rio_buf[a + i - 1]
          BY <4>4, <5>1
        <5>3. a + i - 1 = rio_bufptr + i
          BY <4>5, <5>1
        <5> QED BY <5>2, <5>3
      <4> QED BY <4>4, <4>6, <4>7
    <3>6. ASSUME NEW k \in 1 .. rio_cnt PROVE Unread[k] = start + Len(s) + k
      <4>1. Unread[k] = rio_buf[rio_bufptr + k]
        BY <3>4
      <4>2. k \in Int /\ rio_buf[rio_bufptr + k] = taken - rio_cnt + k
        <5>1. k \in Int
          BY <1>1
        <5> QED BY <3>1, <5>1, Zenon
      <4> HIDE DEF s
      <4>3. taken - rio_cnt + k = start + Len(s) + k
        BY <1>1, <1>2, <1>3, <3>1, <4>2
      <4> QED BY <4>1, <4>2, <4>3
    <3> QED BY <3>1, <3>4, <3>6
  <2>2. CASE rio_cnt <= 0
    <3>1. Unread = << >> /\ UnreadCount = 0
      BY <1>1, <2>2 DEF Unread, UnreadCount
    <3> QED BY <3>1, EmptySeq
  <2> QED BY <1>1, <2>1, <2>2
<1> HIDE DEF s
<1>5. /\ s \o Unread \in Seq(Nat) /\ Len(s \o Unread) = Held + UnreadCount
      /\ \A k \in 1 .. Len(s \o Unread) : (s \o Unread)[k] = start + k
  BY <1>1, <1>2, <1>4, ConsecutiveConcat
<1>6. s \o Unread = Interval(start + 1, start + Len(s \o Unread))
  BY <1>1, <1>5, Consecutive
<1>7. start + (Held + UnreadCount) = taken
  <2>1. UnreadCount \in Nat
    BY <1>4, LenProperties
  <2> QED BY <1>1, <1>2, <1>3, <2>1
<1> QED BY <1>5, <1>6, <1>7 DEF s

(* The record of the call before, and the bytes written when none runs. *)
LEMMA InvariantReturnsNext == IInv => ReturnsNext
<1> SUFFICES ASSUME IInv PROVE Reads /\ Writes
  BY DEF ReturnsNext
<1>1. written = Interval(1, Len(written))
  <2>1. PICK a \in Nat : a = 0
    OBVIOUS
  <2>2. \A k \in 1 .. Len(written) : written[k] = a + k
    BY <2>1, LenProperties DEF IInv, Types, InWriting
  <2>3. written = Interval(a + 1, a + Len(written))
    BY <2>2, Consecutive DEF IInv, Types
  <2> QED BY <2>1, <2>3, LenProperties DEF IInv, Types
<1>2. ASSUME last.op = "writen", last.ret >= 0, op = "idle"
      PROVE  last.ret = last.count /\ Len(written) = start
  BY <1>2 DEF IInv, Types, InWriting, Held
<1> QED BY <1>1, <1>2 DEF IInv, Writes

(* The invariant holds in every state of every program that uses the       *)
(* functions of one connection.                                            *)
THEOREM RioInvariant == Spec => []IInv
<1> QED BY InitInvariant, NextInvariant, PTL DEF Spec

(* At any time, for any input, every byte that read has handed out is      *)
(* delivered, in the caller's buffer, or unread in rio_buf.                *)
THEOREM BytesAreKept == Spec => []NothingLost
<1> QED BY RioInvariant, InvariantNothingLost, PTL

(* Every call that does not fail returns what rio_readn, rio_readnb,       *)
(* rio_readlineb or rio_writen promises, for any input, newlines, buffer   *)
(* size, counts, short counts and interrupts.                              *)
THEOREM CallsAreRobust == Spec => []ReturnsNext
<1> QED BY RioInvariant, InvariantReturnsNext, PTL

================================================================================
