------------------------------ MODULE Response ------------------------------
(***************************************************************************)
(* One call of http_module_handler_response() (http_module/http_module.h): *)
(* accept_request() looks the file up, then response_ok(), unknow() or     *)
(* error_method() writes a page to the client's non-blocking socket, while *)
(* the client reads, other programs change the file, and the connection    *)
(* may be reset.  Or one call of bad_request(), Conti_request(),           *)
(* wrong_path(), toolongUrl() or bad_http(), which accept_request() leads  *)
(* to in no case, or of http_module_error().                               *)
(*                                                                         *)
(* A page is a number of lines, some written by one unchecked send(), the  *)
(* others by http_send(), which repeats until all is written.  A line is   *)
(* one unit: a line that is cut short counts as a line that is lost.  A    *)
(* body is written through http_send() in pieces of BUFFER_SIZE units.     *)
(* The five pages pass sizeof(buf) for the length: what is left of buf     *)
(* behind the line, whatever it holds, goes out as well, as one more unit. *)
(***************************************************************************)
EXTENDS Integers, Sequences, FiniteSets

CONSTANTS PARTSIZE,      \* the size of method[] and url[] in accept_request()
          Lengths,       \* bound: the lengths of a request's method and url
          BUFFER_SIZE,   \* units one fread() asks for
          SockCap,       \* units the socket's send buffer holds
          Sizes,         \* bound: the sizes a file may have
          MaxChanges     \* bound: changes other programs make to the file

Methods == {"GET", "POST", "other"}

\* The buffers "method url" is put together in, and copied to.
BUFFSIZE == 2 * PARTSIZE

\* What stat() and fopen() find at the path of the request: the prefix, the
\* url, and index.html if that ends in a slash.  A directory is found only
\* without the slash; its path is used as it is, because sprintf() writes
\* over the name that strcat() has just extended.  A locked file can be
\* looked up but not opened.
Files == [kind : {"absent", "dir", "locked"}, size : {0}]
         \cup [kind : {"file"}, size : Sizes]

\* accept_request() answers 200, 404 (HTTP_ERROR_NOT_FIND) or 500
\* (HTTP_ERROR_METHOD); 0 stands for no answer yet.
Flags == {0, 200, 404, 500}

\* The pages whose lines are written with all of buf.
Padded == {100, 303, 400, 411, 505}

\* The lines of each page, and which of them are written by a bare send().
PageLen(f) == CASE f = 200 -> 5 [] f = 404 -> 10 [] f = 500 -> 8
                [] f \in Padded -> 5 [] OTHER -> 0
Bare(f) == CASE f = 200 -> 1..5 [] f = 404 -> {4} [] f = 500 -> 1..8 [] OTHER -> {}

\* The send buffer holds the lines of any page (some kilobytes against some
\* hundred bytes), and it is empty when the response begins.
ASSUME ResponseAssumption ==
  /\ PARTSIZE \in Nat \ {0} /\ Lengths \subseteq Nat
  /\ BUFFER_SIZE \in Nat \ {0}
  /\ SockCap \in Nat /\ SockCap >= 10
  /\ Sizes \subseteq Nat
  /\ MaxChanges \in Nat

VARIABLES method,    \* the method of the request that is answered
          chars,     \* how many characters its method and its url have
          disk,      \* what is at the path of the request
          changes,   \* how often other programs have changed it
          sock,      \* the state of clientfd
          stream,    \* the units the kernel accepted, in order
          seen,      \* how many of them the client has read
          pc,        \* where the call is
          flag,      \* the result of accept_request()
          line,      \* the lines of the page tried so far
          fp,        \* what fopen() returned, and whether disk still names it
          iDataNum,  \* the announced Content-Length
          pos,       \* units fread() has returned
          ateof,     \* feof(fp)
          nleft      \* units http_send() has still to write

request == <<method, chars>>
env == <<disk, changes, fp>>
wire == <<sock, stream, seen>>
vars == <<method, chars, disk, changes, sock, stream, seen, pc, flag, line, fp,
          iDataNum, pos, ateof, nleft>>

\* clientfd is a connection, or a number that is not a descriptor.  A reset
\* is reported once as an error; writing after that raises SIGPIPE.
SockStates == {"open", "bad", "reset", "pipe"}

Pcs == {"accept", "open", "stat", "line", "pad", "loop", "body", "error", "done",
        "crashed", "killed", "exited"}
Ended == pc \in {"done", "crashed", "killed", "exited"}

Unit == [what : {"line", "pad", "body"}, n : Nat]
Line(i) == [what |-> "line", n |-> i]
Pad(i) == [what |-> "pad", n |-> i]
Body(k) == [what |-> "body", n |-> k]

TypeOK == /\ method \in Methods
          /\ chars \in [method : Nat, url : Nat]
          /\ disk \in Files
          /\ changes \in 0..MaxChanges
          /\ sock \in SockStates
          /\ stream \in Seq(Unit)
          /\ seen \in 0..Len(stream)
          /\ pc \in Pcs
          /\ flag \in Flags \cup Padded
          /\ line \in 0..10
          /\ fp \in [kind : {"none", "null", "dir", "file"}, size : Nat,
                     linked : BOOLEAN]
          /\ iDataNum \in Nat
          /\ pos \in Nat
          /\ ateof \in BOOLEAN
          /\ nleft \in 0..BUFFER_SIZE

NoFile(k) == [kind |-> k, size |-> 0, linked |-> FALSE]

Init == /\ method \in Methods
        /\ disk \in Files
        /\ changes = 0
        /\ sock \in {"open", "bad"}
        /\ stream = << >>
        /\ seen = 0
        /\ \/ pc = "accept" /\ flag = 0
              /\ chars \in [method : Lengths, url : Lengths]
              /\ (method = "GET" => chars.method = 3)
              /\ (method = "POST" => chars.method = 4)
           \/ /\ \/ pc = "line" /\ flag \in Padded
                 \/ pc = "error" /\ flag = 0
              /\ method = "other" /\ disk.kind = "absent"
              /\ chars = [method |-> 0, url |-> 0]
        /\ line = 0
        /\ fp = NoFile("none")
        /\ iDataNum = 0
        /\ pos = 0
        /\ ateof = FALSE
        /\ nleft = 0

----------------------------------------------------------------------------
(* The environment.                                                        *)

\* Another program creates, removes, replaces or resizes what is at the path.
\* A resize in place is seen through an open fp, the others are not.
DiskChanges ==
  /\ ~Ended /\ flag \notin Padded /\ pc # "error"
  /\ changes < MaxChanges
  /\ changes' = changes + 1
  /\ \E f \in Files :
       /\ disk' = f
       /\ \/ fp' = [fp EXCEPT !.linked = FALSE]
          \/ /\ fp.linked /\ fp.kind = "file" /\ f.kind = "file"
             /\ fp' = [fp EXCEPT !.size = f.size]
  /\ UNCHANGED <<request, wire, pc, flag, line, iDataNum, pos, ateof, nleft>>

ClientReads == /\ sock = "open"
               /\ seen < Len(stream)
               /\ seen' = seen + 1
               /\ UNCHANGED <<request, env, sock, stream, pc, flag, line, iDataNum, pos,
                              ateof, nleft>>

ClientResets == /\ sock = "open" /\ ~Ended
                /\ sock' = "reset"
                /\ UNCHANGED <<request, env, stream, seen, pc, flag, line, iDataNum, pos,
                               ateof, nleft>>

room == SockCap - (Len(stream) - seen)

----------------------------------------------------------------------------
(* Looking the file up.                                                    *)

\* The request does not fit into the buffers it is put together in: what lies
\* behind them on the stack is overwritten.
TooLong == flag \notin Padded /\ chars.method + chars.url + 2 > BUFFSIZE

\* Mutant: the result of stat() is not looked at.
accept_request_NoStat(d) == IF method \in {"GET", "POST"} THEN {200} ELSE {500}

\* The answers that are possible.  A url of PARTSIZE characters ends in a '\0'
\* behind url[], which is method[0], and what is then no method gets a 500.
\* So may any request: the loop over the url does not stop at the end of the
\* string but at white space, and what it meets behind it was never written.
accept_request(d) ==
  {500} \cup IF method \in {"GET", "POST"} /\ chars.url < PARTSIZE
             THEN {IF d.kind = "absent" THEN 404 ELSE 200} ELSE {}

AcceptRequest == /\ pc = "accept"
                 /\ flag' \in accept_request(disk)
                 /\ pc' = IF flag' = 200 THEN "open" ELSE "line"
                 /\ UNCHANGED <<request, env, wire, line, iDataNum, pos, ateof, nleft>>

\* A stack that was overwritten: accept_request(), a call for the page, or the
\* response itself may not return.
StackSmashed == /\ TooLong /\ pc \in {"accept", "line", "done"}
                /\ pc' = "crashed"
                /\ UNCHANGED <<request, env, wire, flag, line, iDataNum, pos, ateof, nleft>>

\* fopen() may fail although stat() succeeded before: fp is then null.
Fopen == /\ pc = "open"
         /\ fp' = IF disk.kind \in {"dir", "file"}
                  THEN [kind |-> disk.kind, size |-> disk.size, linked |-> TRUE]
                  ELSE NoFile("null")
         /\ pc' = "stat"
         /\ UNCHANGED <<request, disk, changes, wire, flag, line, iDataNum, pos, ateof,
                        nleft>>

\* The second stat(), unchecked: if it fails the length is whatever was on
\* the stack.
StatSize == /\ pc = "stat"
            /\ iDataNum' \in IF disk.kind = "absent" THEN Sizes ELSE {disk.size}
            /\ pc' = "line"
            /\ UNCHANGED <<request, env, wire, flag, line, pos, ateof, nleft>>

----------------------------------------------------------------------------
(* Writing to the socket.                                                  *)

Put(units) == stream' = stream \o units /\ UNCHANGED <<sock, seen>>
Lost == UNCHANGED wire

\* A write to a connection that was reset fails, and a later one (or that
\* same one) raises SIGPIPE, which the server leaves at its default.
WriteError == \/ sock = "bad" /\ Lost
              \/ sock = "reset" /\ sock' = "pipe" /\ UNCHANGED <<stream, seen>>

Sigpipe == /\ sock \in {"reset", "pipe"}
           /\ \/ pc = "line" \/ pc = "pad" \/ pc = "body"
           /\ pc' = "killed"
           /\ UNCHANGED <<request, env, wire, flag, line, iDataNum, pos, ateof, nleft>>

\* Mutant: one line more than the page has.
NextLine_TooFar ==
  /\ line' = line + 1
  /\ pc' = CASE line' <= PageLen(flag) -> "line" [] flag = 200 -> "loop"
             [] OTHER -> "done"
  /\ UNCHANGED <<request, env, flag, iDataNum, pos, ateof, nleft>>

NextLine == /\ line' = line + 1
            /\ pc' = CASE line' < PageLen(flag) -> "line"
                       [] flag = 200 -> "loop"
                       [] OTHER -> "done"
            /\ UNCHANGED <<request, env, flag, iDataNum, pos, ateof, nleft>>

\* A bare send(): its result is dropped, also when the buffer is full.
SendLine == /\ pc = "line" /\ line + 1 \in Bare(flag)
            /\ \/ sock = "open" /\ IF room > 0 THEN Put(<<Line(line + 1)>>) ELSE Lost
               \/ WriteError
            /\ NextLine

\* http_send() of a line: EAGAIN is retried, so it waits for room.
HttpSendLine == /\ pc = "line" /\ line + 1 \notin Bare(flag) /\ flag \notin Padded
                /\ \/ sock = "open" /\ room > 0 /\ Put(<<Line(line + 1)>>)
                   \/ WriteError
                /\ NextLine

\* http_send() of a line with all of buf: as above, or the line went out and
\* the rest is still to be written.
PaddedLine == /\ pc = "line" /\ flag \in Padded
              /\ \/ /\ sock = "open" /\ room > 0 /\ Put(<<Line(line + 1)>>)
                    /\ pc' = "pad"
                    /\ UNCHANGED <<request, env, flag, line, iDataNum, pos, ateof, nleft>>
                 \/ WriteError /\ NextLine

SendPad == /\ pc = "pad"
           /\ \/ sock = "open" /\ room > 0 /\ Put(<<Pad(line + 1)>>)
              \/ WriteError
           /\ NextLine

\* Where get_file_length() leads: it closes the file and runs on into its error
\* exits, whether or not there was an error.
get_file_length == "exited"

\* http_module_error() therefore ends the process before it writes its page.
http_module_error == /\ pc = "error"
                     /\ pc' = get_file_length
                     /\ UNCHANGED <<request, env, wire, flag, line, iDataNum, pos, ateof,
                                    nleft>>

----------------------------------------------------------------------------
(* The loop over the file.                                                 *)

Smaller(a, b) == IF a <= b THEN a ELSE b
Larger(a, b) == IF a >= b THEN a ELSE b

\* fread(): what is left of the file, at most BUFFER_SIZE units; a short
\* count sets the end-of-file indicator.
fread == Smaller(BUFFER_SIZE, Larger(0, fp.size - pos))

ReadPiece == /\ pc = "loop" /\ fp.kind = "file" /\ ~ateof
             /\ ateof' = (fread < BUFFER_SIZE)
             /\ nleft' = fread
             /\ pos' = pos + fread
             /\ pc' = IF fread = 0 THEN "loop" ELSE "body"
             /\ UNCHANGED <<request, env, wire, flag, line, iDataNum>>

\* A directory can be opened and not read: no data, no end of file, and the
\* loop goes on for ever.
ReadDirectory == /\ pc = "loop" /\ fp.kind = "dir"
                 /\ UNCHANGED vars

\* feof() of a null pointer.
ReadNull == /\ pc = "loop" /\ fp.kind = "null"
            /\ pc' = "crashed"
            /\ UNCHANGED <<request, env, wire, flag, line, iDataNum, pos, ateof, nleft>>

\* Mutant: the pointer is not moved after a partial write.
HttpSendPiece_SamePtr ==
  /\ pc = "body" /\ sock = "open"
  /\ \E n \in 1..Smaller(nleft, room) :
       /\ Put([i \in 1..n |-> Body(pos - BUFFER_SIZE + i)])
       /\ nleft' = nleft - n
  /\ pc' = IF nleft' = 0 THEN "loop" ELSE "body"
  /\ UNCHANGED <<request, env, flag, line, iDataNum, pos, ateof>>

\* One send() of http_send(): any part of what is left that fits; without
\* room it waits (EAGAIN, EINTR: again).
HttpSendPiece ==
  /\ pc = "body" /\ sock = "open"
  /\ \E n \in 1..Smaller(nleft, room) :
       /\ Put([i \in 1..n |-> Body(pos - nleft + i)])
       /\ nleft' = nleft - n
  /\ pc' = IF nleft' = 0 THEN "loop" ELSE "body"
  /\ UNCHANGED <<request, env, flag, line, iDataNum, pos, ateof>>

\* Mutant: every error is retried, not only EAGAIN and EINTR.
HttpSendFails_Retry == pc = "body" /\ sock # "open" /\ UNCHANGED vars

\* http_send() returns -1, which nobody looks at: the loop reads on.
HttpSendFails == /\ pc = "body"
                 /\ WriteError
                 /\ nleft' = 0
                 /\ pc' = "loop"
                 /\ UNCHANGED <<request, env, flag, line, iDataNum, pos, ateof>>

\* How a call of log_err() ends: logOut() does not look whether its file
\* opened, and crashes if it did not.
log_err == {"done", "crashed"}

\* After the last piece: log_err() and fclose().
Finish == /\ pc = "loop" /\ fp.kind = "file" /\ ateof
          /\ pc' \in log_err
          /\ UNCHANGED <<request, env, wire, flag, line, iDataNum, pos, ateof, nleft>>

----------------------------------------------------------------------------

Runs == \/ AcceptRequest \/ Fopen \/ StatSize \/ SendLine \/ HttpSendLine
        \/ PaddedLine \/ SendPad \/ http_module_error
        \/ ReadPiece \/ ReadDirectory \/ ReadNull \/ HttpSendPiece
        \/ HttpSendFails \/ Finish

Next == Runs \/ Sigpipe \/ StackSmashed \/ DiskChanges \/ ClientReads \/ ClientResets

Spec == Init /\ [][Next]_vars

\* The child is scheduled; nothing is assumed of the client or the disk.
FairSpec == Spec /\ WF_vars(Runs \/ Sigpipe)

----------------------------------------------------------------------------
(* Properties.                                                             *)

Sent(w) == {stream[i].n : i \in {j \in DOMAIN stream : stream[j].what = w}}
BodySent == Sent("body")

\* Lines come before the body; a line's padding comes directly behind it.
Before(u, v) == \/ u.what # "body" /\ v.what = "body"
                \/ (u.what = "body") = (v.what = "body") /\ u.n < v.n
                \/ u.what = "line" /\ v.what = "pad" /\ u.n = v.n

\* What the client receives is the page in order, nothing twice, however the
\* partial writes of http_send() and the unchecked send()s fall.
InOrder == \A i, j \in DOMAIN stream : i < j => Before(stream[i], stream[j])

\* As long as the connection stands nothing that was tried is missing: not the
\* body, which http_send() repeats until it fits, nor the lines, although the
\* result of most send()s is dropped (they come first, into an empty buffer).
NothingMissing ==
  sock = "open" =>
    /\ Sent("line") = 1..(IF pc = "pad" THEN line + 1 ELSE line)
    /\ Sent("pad") = 1..(IF flag \in Padded THEN line ELSE 0)
    /\ BodySent = 1..(pos - nleft)

\* The Content-Length that was announced is the number of units sent, unless
\* another program changes the file between fopen(), stat() and fread().
LengthHonest ==
  pc = "done" /\ flag = 200 /\ sock = "open" /\ changes = 0
    => BodySent = 1..iDataNum

\* The client of http_do_function() receives the page: in order, nothing twice,
\* nothing missing and as long as was announced.
Received == InOrder /\ NothingMissing /\ LengthHonest

\* The child crashes in a response only over a file that was there and could
\* then not be opened, because it may not be or was changed in between, after
\* the whole body over its log, or over a request longer than its buffers.
CrashesExplained ==
  pc = "crashed" => \/ fp.kind = "null" /\ (changes > 0 \/ disk.kind = "locked")
                    \/ fp.kind = "file" /\ ateof /\ nleft = 0
                    \/ TooLong

\* A response ends, whether the client keeps up or resets the connection,
\* unless the path turned out to be a directory.
Finishes == []<>(sock # "open" \/ seen = Len(stream))
              => <>(Ended \/ (pc = "loop" /\ fp.kind = "dir"))
=============================================================================
