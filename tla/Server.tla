------------------------------- MODULE Server -------------------------------
(***************************************************************************)
(* The running server: main, its children, the channel between them and    *)
(* the clients, interleaved at the granularity of system calls.            *)
(***************************************************************************)
EXTENDS Master, Worker

\* A child holds four descriptors of its own where main holds five, from the
\* same limit: a child can receive whatever main can accept.
ASSUME ServerAssumption == MainFdRoom <= ChildFdRoom

vars == <<netVars, chanVars, masterVars, workerVars>>

Init == NetInit /\ ChannelInit /\ MasterInit /\ WorkerInit

\* fork() and insert_pool_obj(): main records the child, the child starts with
\* sleep(2).  One step, as nobody but main sees the table between the two.
ForkChild(w) == /\ Fork(w)
                /\ Goto(w, "sleep")
                /\ UNCHANGED <<got, reg, clientfd, batch, rcvd, nleft, answered>>

MainRuns == \/ MasterRuns /\ UNCHANGED workerVars
            \/ \E w \in Workers : ForkChild(w)

ChildRuns(w) == WorkerRuns(w) /\ UNCHANGED masterVars

Next == \/ ClientStep /\ UNCHANGED <<chanVars, masterVars, workerVars>>
        \/ MainRuns
        \/ MasterFails /\ UNCHANGED workerVars
        \/ \E w \in Workers : \/ ChildRuns(w)
                              \/ WorkerFails(w) /\ UNCHANGED masterVars

Spec == Init /\ [][Next]_vars

\* Every process that can run does run: the kernel schedules processes
\* fairly.  Clients, signals and failing calls promise nothing.
Fairness == /\ WF_vars(MainRuns)
            /\ \A w \in Workers : WF_vars(ChildRuns(w))

FairSpec == Spec /\ Fairness

----------------------------------------------------------------------------
(* Safety.                                                                 *)

\* Every variable has its type (all of start() and jump_task_pool_obj()).
TypeOK == NetTypeOK /\ ChannelTypeOK /\ MasterTypeOK /\ WorkerTypeOK

InSeq(x, s) == \E i \in DOMAIN s : s[i] = x

Lossless == "sendmsg" \notin Faults

\* The connection main has accepted and not finished handing over.
Pending == IF mpc \in {"write", "retry"} THEN {cur} ELSE {}

\* No accepted connection is lost between main and the children: each is
\* being handed over, in the channel, or held by a child.  An exit of main
\* loses at most the one it was handing over; a connection can be lost later
\* only if sendmsg() fails, and then only together with a child.
NothingLost ==
  \A i \in DOMAIN accepted :
     \/ accepted[i] \in Pending
     \/ mpc = "exited" /\ accepted[i] = cur
     \/ InSeq(accepted[i], chan)
     \/ \E w \in Workers : InSeq(accepted[i], got[w])
     \/ ~Lossless /\ \E w \in Workers : At(w, "dead")

\* A connection is served by one child only: the channel and the children's
\* descriptor tables never hold the same connection twice, although every
\* child waits on the same socket.
ServedOnce ==
  Lossless =>
    /\ \A i, j \in DOMAIN chan : chan[i] = chan[j] => i = j
    /\ \A w \in Workers : \A i, j \in DOMAIN got[w] :
          got[w][i] = got[w][j] => i = j
    /\ \A w \in Workers : \A i \in DOMAIN got[w] :
          /\ ~InSeq(got[w][i], chan)
          /\ got[w][i] \notin Pending
          /\ \A v \in Workers \ {w} : ~InSeq(got[w][i], got[v])
    /\ \A i \in DOMAIN chan : chan[i] \notin Pending

\* Main runs out of descriptors before any child does: a child never meets a
\* message whose descriptor it has no room for (and would exit).
ChildHasRoom ==
  Lossless => \A w \in Workers : chan # << >> => Len(got[w]) < ChildFdRoom

Increasing(s) == \A i, j \in DOMAIN s : i < j => s[i] < s[j]

\* No byte of a client is read into two request buffers or twice into one,
\* whichever children hold the connection; none is made up; and a buffer has
\* its bytes in the order they were sent, however the reads were cut.
BytesReadOnce ==
  \A w, v \in Workers : \A j \in DOMAIN got[w], k \in DOMAIN got[v] :
     /\ Increasing(rcvd[w][j])
     /\ Units(rcvd[w][j]) \subseteq 1..taken[got[w][j]]
     /\ got[w][j] = got[v][k] /\ <<w, j>> # <<v, k>>
          => Units(rcvd[w][j]) \cap Units(rcvd[v][k]) = {}

\* A request that was parsed has its blank line in the buffer it was parsed
\* from, and when no hand-over was repeated that buffer has exactly what the
\* client sent, in order, from the first byte on: no other child has taken a
\* part, no repeated read() has put one there twice.
OnlyWholeRequests ==
  \A w \in Workers : \A k \in DOMAIN reg[w] :
     reg[w][k].data.kind = "req" =>
        /\ HasBlankLine(w, reg[w][k].data.id)
        /\ Lossless => IsWhole(w, reg[w][k].data.id)

\* Once the fork loop is running the process table names exactly the children
\* that were forked, and the counter in its head counts them.
PoolHoldsEveryChild ==
  mpc \notin {"pipe", "exited"} => /\ Pids(pool) = forked
                                   /\ n_proc = Cardinality(forked)

\* Every event a child handles, and every interest it has registered, names
\* the channel or a descriptor the child has received.
Backed(e, n) == IF e.data.kind = "fd" THEN e.data.id = PIPE ELSE e.data.id \in 1..n

\* The tables of a child go together, its program counter agrees with the
\* batch it is in, and every index it will use is one it received.
ChildConsistent(w) ==
  /\ Len(reg[w]) = Len(got[w]) /\ Len(rcvd[w]) = Len(got[w])
  /\ clientfd[w] \in {Junk} \cup 1..Len(got[w])
  /\ \A k \in DOMAIN reg[w] : /\ Backed(reg[w][k], Len(got[w]))
                              /\ reg[w][k].data.kind # "fd"
  /\ \A i \in DOMAIN batch[w] : Backed(batch[w][i], Len(got[w]))
  /\ wpc[w] \in {"event", "recv", "parse", "hung"} => batch[w] # << >>
  /\ wpc[w] \in {"recv", "parse"} => cure(w).data.kind # "fd"

\* Main hands over a connection only after it has accepted one.
MainConsistent == mpc \in {"write", "retry"} => cur \in Conns

ChildrenConsistent == \A w \in Workers : ChildConsistent(w)

----------------------------------------------------------------------------
(* What makes the delivery properties inductive.                           *)

Injective(s) == \A i, j \in DOMAIN s : s[i] = s[j] => i = j

\* A connection enters the backlog once and leaves it by being accepted.
Arrivals ==
  /\ Injective(backlog) /\ Injective(accepted)
  /\ \A i \in DOMAIN backlog : backlog[i] \in opened
  /\ \A i \in DOMAIN accepted : accepted[i] \in opened
  /\ \A i \in DOMAIN backlog, j \in DOMAIN accepted : backlog[i] # accepted[j]

\* Only what main has accepted travels.
Known ==
  /\ Pending \subseteq {accepted[i] : i \in DOMAIN accepted}
  /\ \A i \in DOMAIN chan : InSeq(chan[i], accepted)
  /\ \A w \in Workers : \A i \in DOMAIN got[w] : InSeq(got[w][i], accepted)

NoRetry == Lossless => mpc # "retry"

\* How many connections main is handing over.
InHand == IF Pending = {} THEN 0 ELSE 1

\* No child can have received more than main has sent, nor main accepted more
\* than it had descriptors for.
Room ==
  /\ Len(accepted) <= MainFdRoom
  /\ Lossless => \A w \in Workers :
        Len(got[w]) + Len(chan) + InHand <= Len(accepted)

\* A child that main has not forked has done nothing.
Born == \A w \in Workers : w \notin forked => At(w, "none")

DeliveryInv == Arrivals /\ Known /\ NoRetry /\ Room /\ Born

----------------------------------------------------------------------------
(* What makes the request and table properties inductive.                  *)

\* As long as no hand-over is repeated, a buffer holds exactly what was read
\* from its connection, and what no child holds has not been read.
BufferIsStream ==
  Lossless =>
    /\ \A w \in Workers : \A k \in DOMAIN got[w] : rcvd[w][k] = Upto(taken[got[w][k]])
    /\ \A c \in Conns : (\A w \in Workers : ~InSeq(c, got[w])) => taken[c] = 0

\* A stored request keeps the blank line it was recognised by.
StoredHasBlankLine ==
  \A w \in Workers : \A k \in DOMAIN reg[w] :
     reg[w][k].data.kind = "req" => HasBlankLine(w, reg[w][k].data.id)

RequestInv == BytesReadOnce /\ BufferIsStream /\ StoredHasBlankLine

\* The table is filled from its head, one node for each child.
TableFilled ==
  /\ mpc = "pipe" => forked = {} /\ n_proc = 0
  /\ mpc \notin {"pipe", "exited"} =>
       /\ Len(pool) = NPROC_MAX_NUM
       /\ n_proc = Cardinality(forked)
       /\ \A i \in DOMAIN pool : pool[i].pid \in (IF i <= n_proc THEN forked ELSE {NoPid})
       /\ \A w \in forked : HasPid(pool, w)

----------------------------------------------------------------------------
(* Refinement.                                                             *)

\* Main and the children implement Delivery: the queue is the channel with
\* the connection main is still handing over behind it.
Queue == IF mpc \in {"write", "retry"} THEN Append(chan, cur) ELSE chan

D == INSTANCE Delivery WITH Lossy <- ~Lossless, queue <- Queue, held <- got,
                            halted <- (mpc = "exited")

\* The hand-over of descriptors behaves as the queue of module Delivery.
ImplementsDelivery == D!Spec

----------------------------------------------------------------------------
(* Liveness.                                                               *)

\* A child that holds a connection whose client has closed before completing
\* the request: level-triggered EPOLLIN with a parser that breaks the loop.
Starved(w) == \E k \in DOMAIN got[w] : eof[got[w][k]] /\ ~HasBlankLine(w, k)

\* A child inside onRecv() on a socket with nothing to read.
Spinning(w) == At(w, "recv") /\ avail(curc(w)) = 0 /\ ~eof[curc(w)]

Healthy(w) == /\ wpc[w] \notin {"none", "dead", "hung"}
              /\ ~Starved(w) /\ ~Spinning(w)

\* When main is gone each child finds the end of the channel and exits,
\* unless a client keeps it busy for ever.
OrphansExit ==
  \A w \in Workers :
    <>[](mpc = "exited" /\ ~Starved(w) /\ ~Spinning(w) /\ wpc[w] # "hung")
      => <>[](wpc[w] \in {"none", "dead"})

\* As long as some child stays healthy, a connection in the backlog reaches a
\* child, or main exits.
BacklogDelivered ==
  \A c \in Conns :
    (\E w \in Workers : <>[]Healthy(w)) =>
      (InSeq(c, backlog) ~>
         (mpc = "exited" \/ \E w \in Workers : InSeq(c, got[w])))

----------------------------------------------------------------------------
(* What the repository says of itself, and the code does not do.           *)

\* "http server can provide download files many times" (README.md:2): a
\* client that has sent its request gets an answer.
Downloaded ==
  \A c \in Conns : (c \in opened /\ sent[c] = ReqLen) ~> c \in answered

\* "clientfd writeable" (inc/http_task.h:215): the socket that is polled for
\* writing a response is the one the request was read from.
PolledForItsOwnRequest ==
  \A w \in Workers : \A k \in DOMAIN reg[w] :
     reg[w][k].mask = "OUT" => got[w][reg[w][k].data.id] = got[w][k]
=============================================================================
