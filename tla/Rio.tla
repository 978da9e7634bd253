----------------------------------- MODULE Rio -----------------------------------
(***************************************************************************)
(* The Rio functions of src/csapp.c on one connection: rio_readn, or       *)
(* rio_readnb and rio_readlineb in any order on one rio_t, and rio_writen. *)
(* read and write transfer any part of what they are asked for, are        *)
(* interrupted by signal handlers and fail.                                *)
(*                                                                         *)
(* The bytes that arrive are numbered 1 .. Length; newlines says which of  *)
(* them are '\n'.  A read may return fewer bytes than have arrived, so the *)
(* times of arrival need no action of their own.                           *)
(***************************************************************************)
EXTENDS Integers, Sequences, FiniteSetsExt

CONSTANTS Length,        \* the bytes before EOF
          RIO_BUFSIZE,   \* the size of rio_buf
          MaxCount       \* bound: the counts that callers ask for

ASSUME RioAssumption == /\ Length \in Nat /\ RIO_BUFSIZE \in Nat \ {0}
                        /\ MaxCount \in Nat

VARIABLES newlines,
          mode,          \* which reading functions the program uses
          taken,         \* the bytes read has handed out
          rio_cnt, rio_bufptr, rio_buf,   \* the rio_t; rio_bufptr as an offset
          op, count,     \* the call in progress and its n or maxlen
          usrbuf,        \* what it has stored so far
          start,         \* the bytes delivered before it
          last,          \* the call before, and what it returned
          written        \* the bytes write has taken

buffer == <<rio_cnt, rio_bufptr, rio_buf>>
call == <<op, count, usrbuf, start>>
vars == <<newlines, mode, taken, buffer, call, last, written>>

Bytes == 1 .. Length
None == [op |-> "none", count |-> 0, start |-> 0, ret |-> 0, bytes |-> << >>]

Init == /\ newlines \in SUBSET Bytes
        /\ mode \in {"buffered", "unbuffered", "write"}
        /\ taken = 0
        /\ rio_cnt = 0 /\ rio_bufptr = 0 /\ rio_buf = << >>      \* rio_readinitb
        /\ op = "idle" /\ count = 0 /\ usrbuf = << >> /\ start = 0
        /\ last = None
        /\ written = << >>

Interval(a, b) == [k \in 1 .. b - a + 1 |-> a + k - 1]
Least(a, b) == IF a < b THEN a ELSE b

--------------------------------------------------------------------------------
(* A call and its return *)

Call(f, n) == /\ op = "idle" /\ last.ret >= 0
              /\ op' = f /\ count' = n /\ usrbuf' = << >> /\ start' = start
              /\ UNCHANGED <<newlines, mode, taken, buffer, last, written>>

Calls == \/ \E n \in 0 .. MaxCount : mode = "unbuffered" /\ Call("readn", n)
         \/ \E n \in 0 .. MaxCount : mode = "buffered" /\ Call("readnb", n)
         \/ \E n \in 1 .. MaxCount : mode = "buffered" /\ Call("readlineb", n)
         \/ \E n \in 0 .. MaxCount : mode = "write" /\ Len(written) < Length
                                     /\ Call("writen", n)

Return(ret) == /\ last' = [op |-> op, count |-> count, start |-> start, ret |-> ret,
                           bytes |-> usrbuf]
               /\ start' = start + Len(usrbuf)
               /\ op' = "idle" /\ UNCHANGED <<newlines, mode, count, usrbuf, written>>

(* Mutant: the loop counts to maxlen, and leaves no room for the final zero. *)
FullAtMaxlen == \/ op \in {"readn", "readnb", "writen"} /\ Len(usrbuf) = count
                \/ op = "readlineb" /\ \/ Len(usrbuf) = count
                                       \/ usrbuf /= << >> /\ usrbuf[Len(usrbuf)] \in newlines

(* The loops end: nleft is 0, the line is complete, or maxlen is reached.  *)
Full == \/ op \in {"readn", "readnb", "writen"} /\ Len(usrbuf) = count
        \/ op = "readlineb" /\ \/ Len(usrbuf) = count - 1
                               \/ usrbuf /= << >> /\ usrbuf[Len(usrbuf)] \in newlines

ReturnFull == Full /\ Return(Len(usrbuf)) /\ UNCHANGED <<taken, buffer>>

--------------------------------------------------------------------------------
(* The system calls.  Reading is true while a function is about to read:   *)
(* those with a buffer only when it is empty.                              *)

Reading == /\ ~Full
           /\ op = "readn" \/ (op \in {"readnb", "readlineb"} /\ rio_cnt <= 0)

(* rio_read: the buffer is filled from its start. *)
Refill == /\ Reading /\ op /= "readn"
          /\ \E n \in 1 .. Least(RIO_BUFSIZE, Length - taken) :
                /\ rio_cnt' = n
                /\ rio_buf' = Interval(taken + 1, taken + n)
                              \o SubSeq(rio_buf, n + 1, Len(rio_buf))
                /\ taken' = taken + n
          /\ rio_bufptr' = 0
          /\ UNCHANGED <<newlines, mode, call, last, written>>

(* rio_readn: into the caller's buffer, no more than nleft. *)
ReadDirect == /\ Reading /\ op = "readn"
              /\ \E n \in 1 .. Least(count - Len(usrbuf), Length - taken) :
                    /\ usrbuf' = usrbuf \o Interval(taken + 1, taken + n)
                    /\ taken' = taken + n
              /\ UNCHANGED <<newlines, mode, buffer, op, count, start, last, written>>

(* Mutant: an interrupted call starts over. *)
InterruptedRestarts ==
    /\ Reading \/ (op = "writen" /\ ~Full)
    /\ rio_cnt' = IF op \in {"readnb", "readlineb"} THEN -1 ELSE rio_cnt
    /\ usrbuf' = << >>
    /\ UNCHANGED <<newlines, mode, taken, rio_bufptr, rio_buf, op, count, start, last, written>>

(* EINTR: nothing is transferred, and the loops go on; rio_cnt takes the   *)
(* result of read.                                                         *)
Interrupted == /\ Reading \/ (op = "writen" /\ ~Full)
               /\ rio_cnt' = IF op \in {"readnb", "readlineb"} THEN -1 ELSE rio_cnt
               /\ UNCHANGED <<newlines, mode, taken, rio_bufptr, rio_buf, call, last, written>>

ReadEOF == /\ Reading /\ taken = Length
           /\ rio_cnt' = IF op = "readn" THEN rio_cnt ELSE 0
           /\ Return(Len(usrbuf))
           /\ UNCHANGED <<taken, rio_bufptr, rio_buf>>

(* Any other error: -1, whatever usrbuf already holds. *)
Fails == /\ Reading \/ (op = "writen" /\ ~Full)
         /\ rio_cnt' = IF op \in {"readnb", "readlineb"} THEN -1 ELSE rio_cnt
         /\ Return(-1)
         /\ UNCHANGED <<taken, rio_bufptr, rio_buf>>

(* The bytes of a writen are numbered from start + 1. *)
Write == /\ op = "writen" /\ ~Full
         /\ \E n \in 1 .. count - Len(usrbuf) :
               /\ usrbuf' = usrbuf \o Interval(start + Len(usrbuf) + 1, start + Len(usrbuf) + n)
               /\ written' = written \o Interval(start + Len(usrbuf) + 1,
                                                 start + Len(usrbuf) + n)
         /\ UNCHANGED <<newlines, mode, taken, buffer, op, count, start, last>>

--------------------------------------------------------------------------------
(* rio_read's copy from the internal buffer: min(n, rio_cnt) bytes for     *)
(* rio_readnb, one for each turn of rio_readlineb's loop.                  *)

(* Mutant: what the buffer holds beyond the copy is dropped. *)
CopyDrops(n) == /\ usrbuf' = usrbuf \o SubSeq(rio_buf, rio_bufptr + 1, rio_bufptr + n)
                /\ rio_bufptr' = rio_bufptr + n /\ rio_cnt' = 0

CopyOut(n) == /\ usrbuf' = usrbuf \o SubSeq(rio_buf, rio_bufptr + 1, rio_bufptr + n)
              /\ rio_bufptr' = rio_bufptr + n /\ rio_cnt' = rio_cnt - n

Copy == /\ op \in {"readnb", "readlineb"} /\ ~Full /\ rio_cnt > 0
        /\ CopyOut(IF op = "readnb" THEN Least(count - Len(usrbuf), rio_cnt) ELSE 1)
        /\ UNCHANGED <<newlines, mode, taken, rio_buf, op, count, start, last, written>>

Next == \/ Calls \/ ReturnFull
        \/ Refill \/ ReadDirect \/ Interrupted \/ ReadEOF \/ Fails \/ Write
        \/ Copy

Spec == Init /\ [][Next]_vars

--------------------------------------------------------------------------------
(* Properties *)

(* Between the calls, and in the middle of one, every byte that read has   *)
(* handed out is in one place: delivered, in the caller's buffer, or       *)
(* unread in rio_buf; readnb and readlineb on the same rio_t share it      *)
(* without loss.                                                           *)
Unread == IF rio_cnt > 0 THEN SubSeq(rio_buf, rio_bufptr + 1, rio_bufptr + rio_cnt) ELSE << >>

NothingLost == mode /= "write" =>
    (IF op = "idle" THEN << >> ELSE usrbuf) \o Unread = Interval(start + 1, taken)

(* What a call returns, by its specification: the next bytes, as many as   *)
(* were asked for; for rio_readlineb up to the first newline and at most   *)
(* maxlen - 1; fewer only at EOF.  Short counts and interrupts do not show *)
(* (csapp.c:742, "Robust I/O functions").                                  *)
NextNewline(from) == Min({k \in newlines : k > from} \cup {Length})

Expected(c) == IF c.op = "readlineb"
               THEN Interval(c.start + 1,
                             Least(c.start + c.count - 1, NextNewline(c.start)))
               ELSE Interval(c.start + 1, Least(c.start + c.count, Length))

Reads == last.op \in {"readn", "readnb", "readlineb"} /\ last.ret >= 0 =>
             last.bytes = Expected(last) /\ last.ret = Len(last.bytes)

(* "Robustly write n bytes" (csapp.c:772): when rio_writen returns n, the  *)
(* n bytes have been written, in order and once, also after a signal.      *)
Writes == /\ written = Interval(1, Len(written))
          /\ last.op = "writen" /\ last.ret >= 0 /\ op = "idle" =>
                last.ret = last.count /\ Len(written) = start

ReturnsNext == Reads /\ Writes

================================================================================
