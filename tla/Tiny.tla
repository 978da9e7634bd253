----------------------------------- MODULE Tiny ----------------------------------
(***************************************************************************)
(* netp/tiny/tiny.c: a web server that serves one client at a time, and a  *)
(* child process for a CGI program, which writes to the connection itself. *)
(* A request is a request line, a header and an empty line; its kind says  *)
(* what the server finds out about it on the way.  Header lines that are   *)
(* written one after the other are one piece of the answer.                *)
(***************************************************************************)
EXTENDS Naturals, Sequences, SequencesExt

CONSTANTS Browsers,    \* the clients, one request each
          Impatient    \* those that may be gone before they have the answer

TinyAssumption == Impatient \subseteq Browsers /\ "none" \notin Browsers

VARIABLES tinyAt,    \* the next statement of the server, or "exited"
          conn,      \* the client it serves
          lineno,    \* lines of the request that it has read
          file,      \* what serve_static has opened and mapped
          cgi,       \* the child: "none", "running", "zombie"
          kind,      \* kind[c]: the request of c
          browser,   \* browser[c]: "idle", "backlog", "connected" or "gone"
          posted,    \* posted[c]: lines that c has sent
          holders,   \* holders[c]: the processes with the connection open
          answer     \* answer[c]: what c has been sent

tinyVars == <<tinyAt, conn, lineno, file, cgi, kind, browser, posted, holders, answer>>

Nobody == "none"
RequestLines == 3

(* The answers: static content, clienterror's four cases, dynamic content. *)
Answers == [page |-> <<"200", "body">>, empty |-> <<"200", "body">>,
            unreadable |-> <<"403">>, missing |-> <<"404">>, post |-> <<"501">>,
            program |-> <<"200", "output">>, crashing |-> <<"200">>, notexec |-> <<"403">>]
Dynamic == {"program", "crashing", "notexec"}

Init == /\ tinyAt = "accept" /\ conn = Nobody /\ lineno = 0
        /\ file = {} /\ cgi = "none"
        /\ kind \in [Browsers -> DOMAIN Answers]
        /\ browser = [c \in Browsers |-> "idle"]
        /\ posted = [c \in Browsers |-> 0]
        /\ holders = [c \in Browsers |-> {}]
        /\ answer = [c \in Browsers |-> << >>]

--------------------------------------------------------------------------------
(* The clients *)

clientVars == <<browser, posted>>
serverVars == <<tinyAt, conn, lineno, file, cgi, kind, holders, answer>>

Connect(c) == /\ browser[c] = "idle"
              /\ browser' = [browser EXCEPT ![c] = "backlog"]
              /\ UNCHANGED <<serverVars, posted>>

SendLine(c) == /\ browser[c] \in {"backlog", "connected"} /\ posted[c] < RequestLines
               /\ posted' = [posted EXCEPT ![c] = @ + 1]
               /\ UNCHANGED <<serverVars, browser>>

Leave(c) == /\ browser[c] = "connected" /\ c \in Impatient
            /\ browser' = [browser EXCEPT ![c] = "gone"]
            /\ UNCHANGED <<serverVars, posted>>

--------------------------------------------------------------------------------
(* The server *)

Goes(from, to) == tinyAt = from /\ tinyAt' = to

Accept(c) == /\ Goes("accept", "request")
             /\ browser[c] = "backlog"
             /\ browser' = [browser EXCEPT ![c] = "connected"]
             /\ conn' = c /\ lineno' = 0
             /\ holders' = [holders EXCEPT ![c] = {"server"}]
             /\ UNCHANGED <<file, cgi, kind, posted, answer>>

(* Rio_readlineb: a line, or 0 at the end of the input. *)
HasLine == posted[conn] > lineno
AtEnd == browser[conn] = "gone" /\ ~HasLine

(* The request line; anything but GET is answered at once. *)
ReadRequest == /\ \/ /\ tinyAt = "request" /\ HasLine
                     /\ tinyAt' = IF kind[conn] = "post" THEN "clienterror" ELSE "headers"
                     /\ lineno' = 1
                  \/ Goes("request", "close") /\ AtEnd /\ UNCHANGED lineno
               /\ UNCHANGED <<conn, file, cgi, kind, clientVars, holders, answer>>

(* read_requesthdrs ends with the empty line only: at the end of the input *)
(* buf keeps what it had, and the loop goes on for ever.                   *)
ReadHeader == /\ tinyAt = "headers" /\ HasLine
              /\ tinyAt' = IF lineno + 1 = RequestLines THEN "stat" ELSE "headers"
              /\ lineno' = lineno + 1
              /\ UNCHANGED <<conn, file, cgi, kind, clientVars, holders, answer>>

(* A read from a client that is gone may also fail, and Rio_readlineb      *)
(* exits.  It need not: ReadFails is no part of Server, whose steps are    *)
(* fair, since the loop of read_requesthdrs may find the end for ever.     *)
ReadFails == /\ tinyAt \in {"request", "headers"} /\ tinyAt' = "exited"
             /\ browser[conn] = "gone"
             /\ UNCHANGED <<conn, lineno, file, cgi, kind, clientVars, holders, answer>>

(* Mutant: serve_static and serve_dynamic without the tests of the mode. *)
FailsSoon == {"missing"}

Fails == {"missing", "unreadable", "notexec"}

(* parse_uri, stat and the tests of the mode. *)
Examine == /\ tinyAt = "stat"
           /\ tinyAt' = IF kind[conn] \in Fails THEN "clienterror"
                        ELSE IF kind[conn] \in Dynamic THEN "dynamic" ELSE "static"
           /\ UNCHANGED <<conn, lineno, file, cgi, kind, clientVars, holders, answer>>

(* Rio_writen to a client that is gone may go unnoticed, or the server     *)
(* dies of the signal or of the error.                                     *)
Writes(piece, from, to) ==
    /\ \/ Goes(from, to)
       \/ Goes(from, "exited") /\ browser[conn] = "gone"
    /\ answer' = [answer EXCEPT ![conn] = Append(@, piece)]
    /\ UNCHANGED <<conn, lineno, kind, clientVars>>

ClientError == /\ tinyAt = "clienterror"
               /\ Writes(Answers[kind[conn]][1], "clienterror", "close")
               /\ UNCHANGED <<file, cgi, holders>>

StaticHeaders == Writes("200", "static", "open") /\ UNCHANGED <<file, cgi, holders>>

(* mmap refuses a length of 0, and the wrapper exits. *)
OpenAndMap == /\ \/ Goes("open", "exited") /\ kind[conn] = "empty"
                    /\ file' = {"descriptor"}
                 \/ Goes("open", "body") /\ kind[conn] /= "empty"
                    /\ file' = {"mapping"}
              /\ UNCHANGED <<conn, lineno, cgi, kind, clientVars, holders, answer>>

StaticBody == Writes("body", "body", "munmap") /\ UNCHANGED <<file, cgi, holders>>

Unmap == /\ Goes("munmap", "close")
         /\ file' = {}
         /\ UNCHANGED <<conn, lineno, cgi, kind, clientVars, holders, answer>>

DynamicHeaders == Writes("200", "dynamic", "fork") /\ UNCHANGED <<file, cgi, holders>>

ForkProgram == /\ Goes("fork", "wait")
               /\ cgi' = "running"
               /\ holders' = [holders EXCEPT ![conn] = @ \cup {"cgi"}]
               /\ UNCHANGED <<conn, lineno, file, kind, clientVars, answer>>

(* Mutant: the server goes on while the child runs. *)
WaitNoWait == /\ Goes("wait", "close")
              /\ UNCHANGED <<conn, lineno, file, cgi, kind, clientVars, holders, answer>>

WaitForProgram == /\ Goes("wait", "close")
                  /\ cgi = "zombie" /\ cgi' = "none"
                  /\ UNCHANGED <<conn, lineno, file, kind, clientVars, holders, answer>>

(* Mutant: main without Close. *)
CloseForgotten == /\ Goes("close", "accept")
                  /\ UNCHANGED <<conn, lineno, file, cgi, kind, clientVars, holders, answer>>

CloseConnection == /\ Goes("close", "accept")
                   /\ holders' = [holders EXCEPT ![conn] = @ \ {"server"}]
                   /\ UNCHANGED <<conn, lineno, file, cgi, kind, clientVars, answer>>

(* The child, which has the connection as its standard output. *)
ProgramEnds == /\ cgi = "running"
               /\ cgi' = "zombie"
               /\ holders' = [holders EXCEPT ![conn] = @ \ {"cgi"}]
               /\ answer' = IF kind[conn] = "program"
                            THEN [answer EXCEPT ![conn] = Append(@, "output")] ELSE answer
               /\ UNCHANGED <<tinyAt, conn, lineno, file, kind, clientVars>>

Server == \/ \E c \in Browsers : Accept(c)
          \/ ReadRequest \/ ReadHeader \/ Examine \/ ClientError
          \/ StaticHeaders \/ OpenAndMap \/ StaticBody \/ Unmap
          \/ DynamicHeaders \/ ForkProgram \/ WaitForProgram \/ CloseConnection

Browser(c) == Connect(c) \/ SendLine(c) \/ Leave(c)

Next == Server \/ ReadFails \/ ProgramEnds \/ \E c \in Browsers : Browser(c)

--------------------------------------------------------------------------------
(* Properties *)

(* Between two clients the server holds nothing of the last one: no        *)
(* connection, no file, no mapping, no child and no zombie.                *)
NothingKept == tinyAt = "accept" =>
                   /\ file = {} /\ cgi = "none"
                   /\ \A c \in Browsers : holders[c] = {}

(* What a client gets is the answer to its own request, piece by piece and *)
(* complete when the connection is closed; it is sent after the request,   *)
(* and the output of a CGI program after the headers of the server.        *)
AnswersFit ==
    /\ \A c \in Browsers :
           /\ IsPrefix(answer[c], Answers[kind[c]])
           /\ answer[c] /= << >> => posted[c] = RequestLines \/ kind[c] = "post"
           /\ (answer[c] /= << >> /\ holders[c] = {}) => answer[c] = Answers[kind[c]]
    /\ NothingKept

(* A complete request is answered and the connection closed, whatever the  *)
(* clients before it asked for, unless the server has exited (an empty     *)
(* file, a client that is gone) or hangs in read_requesthdrs.              *)
Hangs == tinyAt = "headers" /\ AtEnd
Answered(c) == answer[c] /= << >> /\ holders[c] = {}
AnswerArrives ==
    <>[](\/ tinyAt = "exited" \/ Hangs
         \/ \A c \in Browsers : posted[c] = RequestLines => Answered(c))

================================================================================
