------------------------------- MODULE Worker -------------------------------
(***************************************************************************)
(* The child processes: jump_task_pool_obj() of inc/http_task.h with what  *)
(* it calls: Sock_fd_read(), http_tcp_alloc(), callback(), onRecv(),       *)
(* analasy() and http_module_handler_response().                           *)
(*                                                                         *)
(* A child numbers the descriptors it has received 1, 2, ... and never     *)
(* closes one: close() is always applied to the integer that shares a      *)
(* union with a pointer.  PIPE stands for fd[0], Junk for any integer that *)
(* is not an open descriptor (-1, or the low half of a heap pointer).      *)
(***************************************************************************)
EXTENDS Channel

CONSTANTS READ_COUNT,   \* units one onRecv() call asks for
          MaxNleft,     \* bound: where the EAGAIN spin stops counting
          EPOLLEVENTS,  \* events one epoll_wait() returns at most
          ChildFdRoom,  \* descriptors a child may receive
          Target        \* Target[c]: what the request of c asks for

\* What a request can ask for, by what happens when it is served.
\*   page: a file, a missing file (404) or an unknown method (501);
\*   dir:  a directory, which response_ok() reads for ever;
\*   bad:  a file, or the log, that cannot be opened (a null FILE pointer), a
\*         url too long for the buffers of accept_request(), or a request the
\*         strtok() calls of analasy() cannot split: the child crashes.
Targets == {"page", "dir", "bad"}

ASSUME WorkerAssumption == /\ READ_COUNT \in Nat \ {0}
                           /\ MaxNleft \in Nat /\ MaxNleft > READ_COUNT
                           /\ EPOLLEVENTS \in Nat \ {0}
                           /\ ChildFdRoom \in Nat
                           /\ Target \in [Conns -> Targets]

PIPE == 0
Junk == -1

\* epoll_data is a union: an event carries a descriptor, an http_tcp (tcp,
\* for descriptor id) or an http_request (req, read through descriptor id).
Data == [kind : {"fd", "tcp", "req"}, id : Nat, target : Targets]
Event == [mask : {"IN", "OUT", "CLOSED"}, data : Data]

VARIABLES wpc,          \* where the child is
          got,          \* got[w]: the connections of descriptors 1, 2, ...
          reg,          \* reg[w]: what epoll knows of descriptors 1, 2, ...
          clientfd,     \* the local variable of the event loop
          batch,        \* the events still to handle, current one first
          rcvd,         \* rcvd[w][k]: the units in the tcp->buf of k, in their order there
          nleft,        \* the local variable of onRecv()
          answered      \* connections to which a response was written

workerVars == <<wpc, got, reg, clientfd, batch, rcvd, nleft, answered>>

WorkerPcs == {"none", "sleep", "wait", "event", "recv", "parse", "hung", "dead"}

WorkerTypeOK == /\ wpc \in [Workers -> WorkerPcs]
                /\ got \in [Workers -> Seq(Conns)]
                /\ reg \in [Workers -> Seq(Event)]
                /\ clientfd \in [Workers -> Int]
                /\ batch \in [Workers -> Seq(Event)]
                /\ rcvd \in [Workers -> Seq(Seq(1..ReqLen))]
                /\ nleft \in [Workers -> 0..MaxNleft]
                /\ answered \in SUBSET Conns

WorkerInit == /\ wpc = [w \in Workers |-> "none"]
              /\ got = [w \in Workers |-> << >>]
              /\ reg = [w \in Workers |-> << >>]
              /\ clientfd = [w \in Workers |-> Junk]
              /\ batch = [w \in Workers |-> << >>]
              /\ rcvd = [w \in Workers |-> << >>]
              /\ nleft = [w \in Workers |-> READ_COUNT]
              /\ answered = {}

At(w, pc) == wpc[w] = pc
Goto(w, pc) == wpc' = [wpc EXCEPT ![w] = pc]

----------------------------------------------------------------------------
(* epoll, as the code uses it.                                             *)

\* What the union holds: a descriptor, the http_tcp of http_tcp_alloc(), or
\* the http_request of analasy().
FdData(fd) == [kind |-> "fd", id |-> fd, target |-> "page"]
TcpData(k) == [kind |-> "tcp", id |-> k, target |-> "page"]
ReqData(k, t) == [kind |-> "req", id |-> k, target |-> t]

\* events[i].data.fd: the descriptor, or the low half of the pointer that
\* was stored over it.
data_fd(d) == IF d.kind = "fd" THEN d.id ELSE Junk

PipeEvent == [mask |-> "IN", data |-> FdData(PIPE)]

PipeReady == chan # << >> \/ ChannelEof

\* Nothing is ever written to a client, so its socket is always writable.
SocketReady(w, k) == \/ /\ reg[w][k].mask = "IN"
                        /\ avail(got[w][k]) > 0 \/ eof[got[w][k]]
                     \/ reg[w][k].mask = "OUT"

\* The descriptors epoll would report, and what it reports of one.
Ready(w) == {k \in DOMAIN reg[w] : SocketReady(w, k)}
            \cup (IF PipeReady THEN {PIPE} ELSE {})
EventOf(w, k) == IF k = PIPE THEN PipeEvent ELSE reg[w][k]

\* epoll_wait(): up to EPOLLEVENTS different ready descriptors, in any order.
Batches(R) == {b \in UNION {[1..n -> R] : n \in 1..EPOLLEVENTS} :
                 /\ \A i, j \in DOMAIN b : b[i] = b[j] => i = j
                 /\ \/ Len(b) = EPOLLEVENTS
                    \/ \A k \in R : \E i \in DOMAIN b : b[i] = k}

\* EPOLL_CTL_MOD and EPOLL_CTL_DEL + close(); both fail, harmlessly, on a
\* number that is not a registered descriptor.
EpollMod(r, fd, e) == [k \in DOMAIN r |-> IF k = fd THEN e ELSE r[k]]
EpollDelClose(r, fd) ==
  [k \in DOMAIN r |-> IF k = fd THEN [r[k] EXCEPT !.mask = "CLOSED"] ELSE r[k]]

\* The loop over the batch goes on with the next event, or waits again.
Proceed(w) == /\ batch' = [batch EXCEPT ![w] = Tail(@)]
              /\ Goto(w, IF Len(batch[w]) = 1 THEN "wait" ELSE "event")

\* `break': the rest of the batch is dropped.
BreakBatch(w) == /\ batch' = [batch EXCEPT ![w] = << >>]
                 /\ Goto(w, "wait")

Die(w) == /\ Goto(w, "dead")
          /\ batch' = [batch EXCEPT ![w] = << >>]

cure(w) == Head(batch[w])
curk(w) == cure(w).data.id
curc(w) == got[w][curk(w)]

----------------------------------------------------------------------------
(* Starting, waiting and receiving descriptors.                            *)

\* Mutant: the child keeps fd[1] open.
Start_KeepsWriteEnd(w) ==
  /\ At(w, "sleep")
  /\ Goto(w, "wait")
  /\ UNCHANGED <<netVars, chanVars, got, reg, clientfd, batch, rcvd, nleft, answered>>

\* After sleep(2): close(fd[1]), create the epoll instance, register fd[0].
Start(w) == /\ At(w, "sleep")
            /\ Goto(w, "wait")
            /\ CloseWriteEnd(w)
            /\ UNCHANGED <<netVars, chan, got, reg, clientfd, batch, rcvd, nleft,
                           answered>>

WorkerWait(w) == /\ At(w, "wait")
                 /\ \E b \in Batches(Ready(w)) :
                      batch' = [batch EXCEPT ![w] =
                                  [i \in DOMAIN b |-> EventOf(w, b[i])]]
                 /\ Goto(w, "event")
                 /\ UNCHANGED <<netVars, chanVars, got, reg, clientfd, rcvd, nleft,
                                answered>>

AtPipe(w) == At(w, "event") /\ data_fd(cure(w).data) = PIPE

\* A descriptor arrives: http_tcp_alloc(), Setnoblock(), EPOLL_CTL_ADD.
RecvFd(w) == /\ AtPipe(w)
             /\ Len(got[w]) < ChildFdRoom
             /\ Sock_fd_read
             /\ got' = [got EXCEPT ![w] = Append(@, Head(chan))]
             /\ clientfd' = [clientfd EXCEPT ![w] = Len(got[w]) + 1]
             /\ reg' = [reg EXCEPT ![w] = Append(@,
                          [mask |-> "IN", data |-> TcpData(Len(got[w]) + 1)])]
             /\ rcvd' = [rcvd EXCEPT ![w] = Append(@, << >>)]
             /\ Proceed(w)
             /\ UNCHANGED <<netVars, wend, nleft, answered>>

\* The descriptor table is full: the kernel discards the descriptor and
\* delivers a truncated message, clientfd becomes -1, Setnoblock() exits.
RecvFdFull(w) == /\ AtPipe(w)
                 /\ Len(got[w]) >= ChildFdRoom
                 /\ Sock_fd_read
                 /\ clientfd' = [clientfd EXCEPT ![w] = Junk]
                 /\ Die(w)
                 /\ UNCHANGED <<netVars, wend, got, reg, rcvd, nleft, answered>>

\* What Sock_fd_read() leaves in clientfd when recvmsg() fails: it inspects
\* the control buffer all the same, which holds stack garbage, possibly the
\* previous message.
Clobber(w) == {Junk} \cup (IF got[w] = << >> THEN {} ELSE {Len(got[w])})

\* EAGAIN: another child was faster.  The batch is abandoned.
RecvAgain(w) == /\ AtPipe(w)
                /\ chan = << >> /\ ~ChannelEof
                /\ \E x \in Clobber(w) : clientfd' = [clientfd EXCEPT ![w] = x]
                /\ BreakBatch(w)
                /\ UNCHANGED <<netVars, chanVars, got, reg, rcvd, nleft, answered>>

\* End of file: not an error for the code, which takes -1 as a descriptor;
\* Setnoblock(-1) makes the child exit.
RecvEof(w) == /\ AtPipe(w)
              /\ ChannelEof
              /\ clientfd' = [clientfd EXCEPT ![w] = Junk]
              /\ Die(w)
              /\ UNCHANGED <<netVars, chanVars, got, reg, rcvd, nleft, answered>>

\* Any other error is not told from success: the child goes on with the
\* garbage, and exits unless it is a descriptor (already registered).
RecvError(w) == /\ "recvmsg" \in Faults
                /\ AtPipe(w)
                /\ \E x \in Clobber(w) :
                     /\ clientfd' = [clientfd EXCEPT ![w] = x]
                     /\ IF x = Junk THEN Die(w) ELSE Proceed(w)
                /\ UNCHANGED <<netVars, chanVars, got, reg, rcvd, nleft, answered>>

----------------------------------------------------------------------------
(* Reading and parsing a request.                                          *)

BeginRead(w) == /\ At(w, "event") /\ ~AtPipe(w)
                /\ cure(w).mask = "IN"
                /\ nleft' = [nleft EXCEPT ![w] = READ_COUNT]
                /\ Goto(w, "recv")
                /\ UNCHANGED <<netVars, chanVars, got, reg, clientfd, batch, rcvd,
                               answered>>

\* onRecv() returns: its locals are gone and callback() parses the buffer.
ReturnFromRecv(w) == /\ Goto(w, "parse")
                     /\ nleft' = [nleft EXCEPT ![w] = READ_COUNT]

Smaller(a, b) == IF a <= b THEN a ELSE b

\* The next n units of a connection.
Piece(c, n) == [i \in 1..n |-> taken[c] + i]

\* Mutant: read() is asked for the whole buffer, not for what is left.
ReadSome_Greedy(w) ==
  LET c == curc(w)
      n == avail(c)
  IN /\ At(w, "recv")
     /\ n > 0
     /\ taken' = [taken EXCEPT ![c] = @ + n]
     /\ rcvd' = [rcvd EXCEPT ![w][curk(w)] = @ \o Piece(c, n)]
     /\ IF n = nleft[w]
        THEN ReturnFromRecv(w)
        ELSE nleft' = [nleft EXCEPT ![w] = @ - n] /\ UNCHANGED wpc
     /\ UNCHANGED <<listening, backlog, opened, sent, eof, chanVars, got, reg,
                    clientfd, batch, answered>>

\* Mutant: the data is copied and left in the socket.
ReadSome_Peek(w) ==
  LET c == curc(w)
  IN /\ At(w, "recv")
     /\ avail(c) > 0
     /\ rcvd' = [rcvd EXCEPT ![w][curk(w)] = @ \o Piece(c, 1)]
     /\ ReturnFromRecv(w)
     /\ UNCHANGED <<netVars, chanVars, got, reg, clientfd, batch, answered>>

\* read() returns data, which strncat() puts behind what is in tcp->buf.
ReadSome(w) ==
  LET c == curc(w)
      n == Smaller(avail(c), nleft[w])
  IN /\ At(w, "recv")
     /\ avail(c) > 0
     /\ taken' = [taken EXCEPT ![c] = @ + n]
     /\ rcvd' = [rcvd EXCEPT ![w][curk(w)] = @ \o Piece(c, n)]
     /\ IF n = nleft[w]
        THEN ReturnFromRecv(w)
        ELSE nleft' = [nleft EXCEPT ![w] = @ - n] /\ UNCHANGED wpc
     /\ UNCHANGED <<listening, backlog, opened, sent, eof, chanVars, got, reg,
                    clientfd, batch, answered>>

ReadEof(w) == /\ At(w, "recv")
              /\ avail(curc(w)) = 0 /\ eof[curc(w)]
              /\ ReturnFromRecv(w)
              /\ UNCHANGED <<netVars, chanVars, got, reg, clientfd, batch, rcvd,
                             answered>>

\* EAGAIN: nread is unsigned, so the error test never holds; nleft grows by
\* one, the pointer moves back by one, and read() is called again.
ReadAgain(w) == /\ At(w, "recv")
                /\ avail(curc(w)) = 0 /\ ~eof[curc(w)]
                /\ nleft' = [nleft EXCEPT ![w] = Smaller(@ + 1, MaxNleft)]
                /\ UNCHANGED <<netVars, chanVars, wpc, got, reg, clientfd, batch,
                               rcvd, answered>>

\* memset(ptr, 0, READ_COUNT_BUF) with ptr moved off the start of the array
\* overwrites the stack.  Observed outcomes: none (the other actions), a
\* crash, or nleft zeroed so that the loop ends.
Smash(w) == /\ At(w, "recv")
            /\ nleft[w] # READ_COUNT
            /\ \/ Die(w) /\ UNCHANGED nleft
               \/ ReturnFromRecv(w) /\ UNCHANGED batch
            /\ UNCHANGED <<netVars, chanVars, got, reg, clientfd, rcvd, answered>>

Units(s) == {s[i] : i \in DOMAIN s}

\* The first n units of a request, each in its place.
Upto(n) == [i \in 1..n |-> i]

HasBlankLine(w, k) == ReqLen \in Units(rcvd[w][k])
IsWhole(w, k) == rcvd[w][k] = Upto(ReqLen)

\* analasy() finds no blank line: NULL, and the batch is abandoned.
ParseIncomplete(w) == /\ At(w, "parse")
                      /\ ~HasBlankLine(w, curk(w))
                      /\ BreakBatch(w)
                      /\ UNCHANGED <<netVars, chanVars, got, reg, clientfd, rcvd,
                                     nleft, answered>>

\* What a parsed request asks for: that of its client, or anything at all
\* when part of it was read through another descriptor.
Parsed(w, k) == IF IsWhole(w, k) THEN {Target[got[w][k]]} ELSE Targets

\* Mutant: a buffer without a blank line is parsed as well.
ParseComplete_Early(w) ==
  /\ At(w, "parse")
  /\ reg' = [reg EXCEPT ![w] = EpollMod(@, clientfd[w],
                [mask |-> "OUT", data |-> ReqData(curk(w), "page")])]
  /\ Proceed(w)
  /\ UNCHANGED <<netVars, chanVars, got, clientfd, rcvd, nleft, answered>>

\* The interest of clientfd, the last descriptor received, is changed to
\* EPOLLOUT; the descriptor the request came from keeps its own.
ParseComplete(w) ==
  /\ At(w, "parse")
  /\ HasBlankLine(w, curk(w))
  /\ \E t \in Parsed(w, curk(w)) :
       reg' = [reg EXCEPT ![w] = EpollMod(@, clientfd[w],
                 [mask |-> "OUT", data |-> ReqData(curk(w), t)])]
  /\ Proceed(w)
  /\ UNCHANGED <<netVars, chanVars, got, clientfd, rcvd, nleft, answered>>

\* strtok() runs out of tokens: a null pointer is copied from.
ParseCrash(w) == /\ At(w, "parse")
                 /\ HasBlankLine(w, curk(w))
                 /\ "bad" \in Parsed(w, curk(w))
                 /\ Die(w)
                 /\ UNCHANGED <<netVars, chanVars, got, reg, clientfd, rcvd, nleft,
                                answered>>

----------------------------------------------------------------------------
(* Answering a request.                                                    *)

AtOut(w) == At(w, "event") /\ ~AtPipe(w) /\ cure(w).mask = "OUT"

\* Response, EPOLL_CTL_DEL and close(), all on data.fd.  An event that is neither
\* EPOLLIN nor EPOLLOUT, for which fd[0] would be deleted and closed, needs a reset,
\* and clients do not reset here; Response has resets.
Respond(w) ==
  LET fd == data_fd(cure(w).data)
  IN /\ AtOut(w)
     /\ cure(w).data.target = "page"
     /\ answered' = answered \cup {got[w][k] : k \in DOMAIN got[w] \cap {fd}}
     /\ reg' = [reg EXCEPT ![w] = EpollDelClose(@, fd)]
     /\ Proceed(w)
     /\ UNCHANGED <<netVars, chanVars, got, clientfd, rcvd, nleft>>

\* fread() on a directory fails without reaching end of file: for ever.
RespondDir(w) == /\ AtOut(w)
                 /\ cure(w).data.target = "dir"
                 /\ Goto(w, "hung")
                 /\ UNCHANGED <<netVars, chanVars, got, reg, clientfd, batch, rcvd,
                                nleft, answered>>

RespondCrash(w) == /\ AtOut(w)
                   /\ cure(w).data.target = "bad"
                   /\ Die(w)
                   /\ UNCHANGED <<netVars, chanVars, got, reg, clientfd, rcvd,
                                  nleft, answered>>

----------------------------------------------------------------------------
\* SIGINT or SIGQUIT (the handlers are inherited), or epoll_wait() failing.
WorkerQuits(w) == /\ "signal" \in Faults
                  /\ wpc[w] \notin {"none", "dead"}
                  /\ Die(w)
                  /\ CloseWriteEnd(w)
                  /\ UNCHANGED <<netVars, chan, got, reg, clientfd, rcvd, nleft,
                                 answered>>

\* What a child does by itself.
WorkerRuns(w) == \/ Start(w) \/ WorkerWait(w)
                 \/ RecvFd(w) \/ RecvFdFull(w) \/ RecvAgain(w) \/ RecvEof(w)
                 \/ BeginRead(w) \/ ReadSome(w) \/ ReadEof(w) \/ ReadAgain(w)
                 \/ ParseIncomplete(w) \/ ParseComplete(w)
                 \/ Respond(w) \/ RespondDir(w) \/ RespondCrash(w)

WorkerFails(w) == RecvError(w) \/ Smash(w) \/ ParseCrash(w) \/ WorkerQuits(w)
=============================================================================
