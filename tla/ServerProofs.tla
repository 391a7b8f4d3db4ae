---------------------------- MODULE ServerProofs ----------------------------
(***************************************************************************)
(* The server, for any number of children, connections and units per       *)
(* request, in three parts.                                                *)
(*                                                                         *)
(* 1. The invariant IInv: the types and what relates the tables of a       *)
(*    child, by one lemma for each action of a child and one for main.     *)
(* 2. What happens to an accepted connection: nothing is lost, it is       *)
(*    served once, a child always has room for the next one, and the       *)
(*    server implements Delivery.  Only seven kinds of step concern the    *)
(*    hand-over (FlowStep); everything else is Idle for it.                *)
(* 3. What the children read and parse, and what main writes down about    *)
(*    them: no byte is read twice, only whole requests are parsed, and the *)
(*    process table has every child.  Only read() and the receipt of a     *)
(*    descriptor touch the buffers (BufferStep), only the parser and the   *)
(*    response touch the interests (InterestStep), only fork() touches the *)
(*    table (TableStep).                                                   *)
(***************************************************************************)
EXTENDS Server, TLAPS, FiniteSetTheorems, SequenceTheorems

\* A function on 1..n is a sequence of length n.
LEMMA FunctionIsSeq ==
  ASSUME NEW S, NEW n \in Nat, NEW f \in [1..n -> S]
  PROVE  f \in Seq(S) /\ Len(f) = n
OBVIOUS

\* Append() spelled out by index.
LEMMA AppendSeq ==
  ASSUME NEW S, NEW s \in Seq(S), NEW x \in S
  PROVE  /\ Append(s, x) \in Seq(S) /\ Len(Append(s, x)) = Len(s) + 1
         /\ \A i \in DOMAIN Append(s, x) :
              \/ i \in DOMAIN s /\ Append(s, x)[i] = s[i]
              \/ i = Len(s) + 1 /\ Append(s, x)[i] = x
         /\ \A i \in DOMAIN s : i \in DOMAIN Append(s, x) /\ Append(s, x)[i] = s[i]
         /\ Len(s) + 1 \in DOMAIN Append(s, x) /\ Append(s, x)[Len(s) + 1] = x
         /\ Len(s) \in Nat /\ DOMAIN s = 1..Len(s)
OBVIOUS

\* The table create_proc_pool() builds has only well-formed nodes.
LEMMA CreateType == create_proc_pool \in Seq(Node(Workers))
BY PoolAssumption, SMT DEF create_proc_pool, proc_alloc, Node

\* insert_pool_obj() keeps the nodes of the table well-formed.
LEMMA InsertType ==
  ASSUME NEW l \in Seq(Node(Workers)), NEW p \in Workers
  PROVE  insert_pool_obj(l, p) \in Seq(Node(Workers))
<1>1. \A x \in Node(Workers) : [x EXCEPT !.pid = p] \in Node(Workers)
  BY DEF Node
<1>2. \A i \in DOMAIN l : l[i] \in Node(Workers)
  OBVIOUS
<1>3. DOMAIN l = 1..Len(l) /\ Len(l) \in Nat
  OBVIOUS
<1>4. insert_pool_obj(l, p) \in [DOMAIN l -> Node(Workers)]
  BY <1>1, <1>2, Zenon DEF insert_pool_obj
<1> QED  BY <1>3, <1>4, FunctionIsSeq

\* The exit of main keeps the types.
LEMMA ExitType ==
  ASSUME TypeOK, Exit
  PROVE  NetTypeOK' /\ ChannelTypeOK' /\ MasterTypeOK'
<1> USE DEF TypeOK, Exit
<1>0. << >> \in Seq(Conns)  OBVIOUS
<1>1. NetTypeOK'  BY <1>0, Zenon DEF NetTypeOK
<1>2. ChannelTypeOK'  BY DEF ChannelTypeOK, CloseWriteEnd
<1>3. MasterTypeOK'  BY DEF MasterTypeOK, MasterPcs
<1> QED  BY <1>1, <1>2, <1>3

\* No step of main but fork() breaks a type.
LEMMA MasterType ==
  ASSUME TypeOK, MainConsistent, MasterRuns \/ MasterFails
  PROVE  NetTypeOK' /\ ChannelTypeOK' /\ MasterTypeOK'
<1> USE DEF TypeOK, MainConsistent, NetTypeOK, ChannelTypeOK, MasterTypeOK, netVars,
            chanVars, MasterPcs
<1>1. CASE SPipe
  BY <1>1, CreateType DEF SPipe
<1>2. CASE OpenListen
  BY <1>2 DEF OpenListen
<1>3. CASE EpollWait
  BY <1>3 DEF EpollWait
<1>4. CASE AcceptOne
  <2>1. Head(backlog) \in Conns /\ Tail(backlog) \in Seq(Conns)
    BY <1>4 DEF AcceptOne
  <2>2. Append(accepted, Head(backlog)) \in Seq(Conns)
    BY <2>1
  <2>3. NetTypeOK'
    BY <1>4, <2>1, Zenon DEF AcceptOne
  <2>4. ChannelTypeOK'
    BY <1>4, Zenon DEF AcceptOne
  <2>5. MasterTypeOK'
    BY <1>4, <2>1, <2>2 DEF AcceptOne
  <2> QED  BY <2>3, <2>4, <2>5
<1>5. CASE AcceptNone
  BY <1>5 DEF AcceptNone
<1>6. CASE WriteOk
  BY <1>6 DEF WriteOk, Sock_fd_write
<1>7. CASE RetryOk
  BY <1>7 DEF RetryOk, Sock_fd_write
<1>9. CASE RetryFails
  BY <1>9 DEF RetryFails
<1>10. CASE WriteFails
  BY <1>10 DEF WriteFails
<1>8. CASE AcceptFails \/ ForkFails \/ ListenFails \/ MainQuits
  BY <1>8, ExitType DEF AcceptFails, ForkFails, ListenFails, MainQuits
<1> QED
  BY <1>1, <1>2, <1>3, <1>4, <1>5, <1>6, <1>7, <1>8, <1>9, <1>10
  DEF MasterRuns, MasterFails

----------------------------------------------------------------------------
(* The epoll operators.                                                    *)

\* The events the code builds are events.
LEMMA DataType ==
  /\ \A k \in Nat : [mask |-> "IN", data |-> TcpData(k)] \in Event
  /\ \A k \in Nat, t \in Targets : [mask |-> "OUT", data |-> ReqData(k, t)] \in Event
  /\ PipeEvent \in Event
BY DEF Event, Data, TcpData, ReqData, FdData, PipeEvent, PIPE, Targets

\* Which member of the epoll_data union each constructor stores.
LEMMA DataKind ==
  /\ \A k : TcpData(k).kind = "tcp" /\ TcpData(k).id = k
  /\ \A k, t : ReqData(k, t).kind = "req" /\ ReqData(k, t).id = k
  /\ PipeEvent.data.kind = "fd" /\ PipeEvent.data.id = PIPE
BY DEF TcpData, ReqData, FdData, PipeEvent

\* EPOLL_CTL_MOD changes one entry of the interest table at most.
LEMMA EpollModType ==
  ASSUME NEW r \in Seq(Event), NEW fd, NEW e \in Event
  PROVE  /\ EpollMod(r, fd, e) \in Seq(Event)
         /\ Len(EpollMod(r, fd, e)) = Len(r)
         /\ \A k \in 1..Len(r) :
               EpollMod(r, fd, e)[k] = IF k = fd THEN e ELSE r[k]
<1>1. DOMAIN r = 1..Len(r) /\ Len(r) \in Nat /\ \A k \in DOMAIN r : r[k] \in Event
  OBVIOUS
<1>2. EpollMod(r, fd, e) \in [DOMAIN r -> Event]
  BY <1>1, Zenon DEF EpollMod
<1>3. \A k \in DOMAIN r : EpollMod(r, fd, e)[k] = IF k = fd THEN e ELSE r[k]
  BY Zenon DEF EpollMod
<1> QED  BY <1>1, <1>2, <1>3, FunctionIsSeq

\* EPOLL_CTL_DEL changes a mask at most, never the data of an entry.
LEMMA EpollDelCloseType ==
  ASSUME NEW r \in Seq(Event), NEW fd
  PROVE  /\ EpollDelClose(r, fd) \in Seq(Event)
         /\ Len(EpollDelClose(r, fd)) = Len(r)
         /\ \A k \in 1..Len(r) : EpollDelClose(r, fd)[k].data = r[k].data
<1>1. DOMAIN r = 1..Len(r) /\ Len(r) \in Nat /\ \A k \in DOMAIN r : r[k] \in Event
  OBVIOUS
<1>2. \A e \in Event : /\ [e EXCEPT !.mask = "CLOSED"] \in Event
                       /\ [e EXCEPT !.mask = "CLOSED"].data = e.data
  BY DEF Event
<1>3. EpollDelClose(r, fd) \in [DOMAIN r -> Event]
  BY <1>1, <1>2, Zenon DEF EpollDelClose
<1>4. \A k \in DOMAIN r : EpollDelClose(r, fd)[k].data = r[k].data
  BY <1>1, <1>2, Zenon DEF EpollDelClose
<1> QED  BY <1>1, <1>3, <1>4, FunctionIsSeq

----------------------------------------------------------------------------
(* The children.                                                           *)

IInv == TypeOK /\ MainConsistent /\ ChildrenConsistent

\* A child none of whose variables changes stays consistent.
LEMMA SameChild ==
  ASSUME NEW v \in Workers, ChildConsistent(v),
         wpc'[v] = wpc[v], got'[v] = got[v], reg'[v] = reg[v],
         clientfd'[v] = clientfd[v], batch'[v] = batch[v], rcvd'[v] = rcvd[v]
  PROVE  ChildConsistent(v)'
BY DEF ChildConsistent, cure

\* A sequence with a positive length is not empty.
LEMMA LongIsNotEmpty ==
  ASSUME NEW S, NEW s \in Seq(S), Len(s) > 0
  PROVE  s # << >>
OBVIOUS

\* What Proceed leaves of a batch: all events but the current one.
LEMMA TailBatch ==
  ASSUME NEW b \in Seq(Event), b # << >>
  PROVE  /\ Tail(b) \in Seq(Event)
         /\ Len(b) # 1 => Tail(b) # << >>
         /\ \A i \in DOMAIN Tail(b) : i + 1 \in DOMAIN b /\ Tail(b)[i] = b[i + 1]
<1>1. Len(b) \in Nat /\ Len(b) > 0 /\ Tail(b) \in Seq(Event) /\ Len(Tail(b)) = Len(b) - 1
  OBVIOUS
<1>2. Len(b) # 1 => Tail(b) # << >>
  <2>1. ASSUME Len(b) # 1 PROVE Len(Tail(b)) > 0
    BY <1>1, <2>1
  <2> QED  BY <1>1, <2>1, LongIsNotEmpty
<1>3. \A i \in DOMAIN Tail(b) : i + 1 \in DOMAIN b /\ Tail(b)[i] = b[i + 1]
  BY <1>1
<1> QED  BY <1>1, <1>2, <1>3

\* The child leaves sleep(2) and closes fd[1].
LEMMA StartStep ==
  ASSUME IInv, NEW w \in Workers, Start(w)
  PROVE  WorkerTypeOK' /\ ChildrenConsistent'
<1> USE DEF IInv, TypeOK
<1>1. WorkerTypeOK'
  BY WorkerAssumption DEF Start, Goto, At, WorkerTypeOK, WorkerPcs,
                          ChildrenConsistent, ChildConsistent, CloseWriteEnd, Junk
<1>2. ChildConsistent(w)'
  BY WorkerAssumption DEF Start, Goto, At, WorkerTypeOK, ChildConsistent,
                          ChildrenConsistent, cure, CloseWriteEnd, Backed, Junk, PIPE
<1>3. ASSUME NEW v \in Workers, v # w PROVE ChildConsistent(v)'
  BY <1>3, SameChild DEF Start, Goto, WorkerTypeOK, ChildrenConsistent, CloseWriteEnd
<1> QED  BY <1>1, <1>2, <1>3 DEF ChildrenConsistent

\* A descriptor arrives for which the child has no room.
LEMMA RecvFdFullStep ==
  ASSUME IInv, NEW w \in Workers, RecvFdFull(w)
  PROVE  WorkerTypeOK' /\ ChildrenConsistent'
<1> USE DEF IInv, TypeOK
<1>1. WorkerTypeOK'
  BY WorkerAssumption DEF RecvFdFull, Goto, At, WorkerTypeOK, WorkerPcs,
                          ChildrenConsistent, ChildConsistent, Die, AtPipe, Junk
<1>2. ChildConsistent(w)'
  BY WorkerAssumption DEF RecvFdFull, Goto, At, WorkerTypeOK, ChildConsistent,
                          ChildrenConsistent, cure, Die, AtPipe, Backed, Junk, PIPE
<1>3. ASSUME NEW v \in Workers, v # w PROVE ChildConsistent(v)'
  BY <1>3, SameChild DEF RecvFdFull, Goto, WorkerTypeOK, ChildrenConsistent, Die, AtPipe
<1> QED  BY <1>1, <1>2, <1>3 DEF ChildrenConsistent

\* Another child took the descriptor first.
LEMMA RecvAgainStep ==
  ASSUME IInv, NEW w \in Workers, RecvAgain(w)
  PROVE  WorkerTypeOK' /\ ChildrenConsistent'
<1> USE DEF IInv, TypeOK
<1>1. WorkerTypeOK'
  BY WorkerAssumption DEF RecvAgain, Goto, At, WorkerTypeOK, WorkerPcs,
                          ChildrenConsistent, ChildConsistent, BreakBatch, Clobber,
                          AtPipe, Junk
<1>2. ChildConsistent(w)'
  BY WorkerAssumption DEF RecvAgain, Goto, At, WorkerTypeOK, ChildConsistent,
                          ChildrenConsistent, cure, BreakBatch, Clobber, AtPipe,
                          Backed, Junk, PIPE
<1>3. ASSUME NEW v \in Workers, v # w PROVE ChildConsistent(v)'
  BY <1>3, SameChild DEF RecvAgain, Goto, WorkerTypeOK, ChildrenConsistent,
                         BreakBatch, Clobber, AtPipe
<1> QED  BY <1>1, <1>2, <1>3 DEF ChildrenConsistent

\* The channel is at its end.
LEMMA RecvEofStep ==
  ASSUME IInv, NEW w \in Workers, RecvEof(w)
  PROVE  WorkerTypeOK' /\ ChildrenConsistent'
<1> USE DEF IInv, TypeOK
<1>1. WorkerTypeOK'
  BY WorkerAssumption DEF RecvEof, Goto, At, WorkerTypeOK, WorkerPcs,
                          ChildrenConsistent, ChildConsistent, Die, AtPipe, Junk
<1>2. ChildConsistent(w)'
  BY WorkerAssumption DEF RecvEof, Goto, At, WorkerTypeOK, ChildConsistent,
                          ChildrenConsistent, cure, Die, AtPipe, Backed, Junk, PIPE
<1>3. ASSUME NEW v \in Workers, v # w PROVE ChildConsistent(v)'
  BY <1>3, SameChild DEF RecvEof, Goto, WorkerTypeOK, ChildrenConsistent, Die, AtPipe
<1> QED  BY <1>1, <1>2, <1>3 DEF ChildrenConsistent

\* callback() enters onRecv().
LEMMA BeginReadStep ==
  ASSUME IInv, NEW w \in Workers, BeginRead(w)
  PROVE  WorkerTypeOK' /\ ChildrenConsistent'
<1> USE DEF IInv, TypeOK
<1>1. WorkerTypeOK'
  BY WorkerAssumption DEF BeginRead, Goto, At, WorkerTypeOK, WorkerPcs,
                          ChildrenConsistent, ChildConsistent, AtPipe, data_fd, Junk
<1>2. ChildConsistent(w)'
  BY WorkerAssumption DEF BeginRead, Goto, At, WorkerTypeOK, ChildConsistent,
                          ChildrenConsistent, cure, AtPipe, data_fd, Backed, Junk, PIPE
<1>3. ASSUME NEW v \in Workers, v # w PROVE ChildConsistent(v)'
  BY <1>3, SameChild DEF BeginRead, Goto, WorkerTypeOK, ChildrenConsistent, AtPipe,
                         data_fd
<1> QED  BY <1>1, <1>2, <1>3 DEF ChildrenConsistent

\* read() finds the end of the client's stream.
LEMMA ReadEofStep ==
  ASSUME IInv, NEW w \in Workers, ReadEof(w)
  PROVE  WorkerTypeOK' /\ ChildrenConsistent'
<1> USE DEF IInv, TypeOK
<1>1. WorkerTypeOK'
  BY WorkerAssumption DEF ReadEof, Goto, At, WorkerTypeOK, WorkerPcs,
                          ChildrenConsistent, ChildConsistent, ReturnFromRecv, Junk
<1>2. ChildConsistent(w)'
  BY WorkerAssumption DEF ReadEof, Goto, At, WorkerTypeOK, ChildConsistent,
                          ChildrenConsistent, cure, ReturnFromRecv, Backed, Junk, PIPE
<1>3. ASSUME NEW v \in Workers, v # w PROVE ChildConsistent(v)'
  BY <1>3, SameChild DEF ReadEof, Goto, WorkerTypeOK, ChildrenConsistent, ReturnFromRecv
<1> QED  BY <1>1, <1>2, <1>3 DEF ChildrenConsistent

\* read() fails with EAGAIN and the unsigned nleft grows.
LEMMA ReadAgainStep ==
  ASSUME IInv, NEW w \in Workers, ReadAgain(w)
  PROVE  WorkerTypeOK' /\ ChildrenConsistent'
<1> USE DEF IInv, TypeOK
<1>1. WorkerTypeOK'
  BY WorkerAssumption DEF ReadAgain, Goto, At, WorkerTypeOK, WorkerPcs,
                          ChildrenConsistent, ChildConsistent, Smaller, Junk
<1>2. ChildConsistent(w)'
  BY WorkerAssumption DEF ReadAgain, Goto, At, WorkerTypeOK, ChildConsistent,
                          ChildrenConsistent, cure, Smaller, Backed, Junk, PIPE
<1>3. ASSUME NEW v \in Workers, v # w PROVE ChildConsistent(v)'
  BY <1>3, SameChild DEF ReadAgain, Goto, WorkerTypeOK, ChildrenConsistent, Smaller
<1> QED  BY <1>1, <1>2, <1>3 DEF ChildrenConsistent

\* analasy() finds no blank line.
LEMMA ParseIncompleteStep ==
  ASSUME IInv, NEW w \in Workers, ParseIncomplete(w)
  PROVE  WorkerTypeOK' /\ ChildrenConsistent'
<1> USE DEF IInv, TypeOK
<1>1. WorkerTypeOK'
  BY WorkerAssumption DEF ParseIncomplete, Goto, At, WorkerTypeOK, WorkerPcs,
                          ChildrenConsistent, ChildConsistent, BreakBatch, Junk
<1>2. ChildConsistent(w)'
  BY WorkerAssumption DEF ParseIncomplete, Goto, At, WorkerTypeOK, ChildConsistent,
                          ChildrenConsistent, cure, BreakBatch, Backed, Junk, PIPE
<1>3. ASSUME NEW v \in Workers, v # w PROVE ChildConsistent(v)'
  BY <1>3, SameChild DEF ParseIncomplete, Goto, WorkerTypeOK, ChildrenConsistent,
                         BreakBatch
<1> QED  BY <1>1, <1>2, <1>3 DEF ChildrenConsistent

\* analasy() copies from a null pointer.
LEMMA ParseCrashStep ==
  ASSUME IInv, NEW w \in Workers, ParseCrash(w)
  PROVE  WorkerTypeOK' /\ ChildrenConsistent'
<1> USE DEF IInv, TypeOK
<1>1. WorkerTypeOK'
  BY WorkerAssumption DEF ParseCrash, Goto, At, WorkerTypeOK, WorkerPcs,
                          ChildrenConsistent, ChildConsistent, Die, Junk
<1>2. ChildConsistent(w)'
  BY WorkerAssumption DEF ParseCrash, Goto, At, WorkerTypeOK, ChildConsistent,
                          ChildrenConsistent, cure, Die, Backed, Junk, PIPE
<1>3. ASSUME NEW v \in Workers, v # w PROVE ChildConsistent(v)'
  BY <1>3, SameChild DEF ParseCrash, Goto, WorkerTypeOK, ChildrenConsistent, Die
<1> QED  BY <1>1, <1>2, <1>3 DEF ChildrenConsistent

\* response_ok() does not get out of a directory.
LEMMA RespondDirStep ==
  ASSUME IInv, NEW w \in Workers, RespondDir(w)
  PROVE  WorkerTypeOK' /\ ChildrenConsistent'
<1> USE DEF IInv, TypeOK
<1>1. WorkerTypeOK'
  BY WorkerAssumption DEF RespondDir, Goto, At, WorkerTypeOK, WorkerPcs,
                          ChildrenConsistent, ChildConsistent, AtOut, Junk
<1>2. ChildConsistent(w)'
  BY WorkerAssumption DEF RespondDir, Goto, At, WorkerTypeOK, ChildConsistent,
                          ChildrenConsistent, cure, AtOut, Backed, Junk, PIPE
<1>3. ASSUME NEW v \in Workers, v # w PROVE ChildConsistent(v)'
  BY <1>3, SameChild DEF RespondDir, Goto, WorkerTypeOK, ChildrenConsistent, AtOut
<1> QED  BY <1>1, <1>2, <1>3 DEF ChildrenConsistent

\* response_ok() uses a null FILE pointer.
LEMMA RespondCrashStep ==
  ASSUME IInv, NEW w \in Workers, RespondCrash(w)
  PROVE  WorkerTypeOK' /\ ChildrenConsistent'
<1> USE DEF IInv, TypeOK
<1>1. WorkerTypeOK'
  BY WorkerAssumption DEF RespondCrash, Goto, At, WorkerTypeOK, WorkerPcs,
                          ChildrenConsistent, ChildConsistent, AtOut, Die, Junk
<1>2. ChildConsistent(w)'
  BY WorkerAssumption DEF RespondCrash, Goto, At, WorkerTypeOK, ChildConsistent,
                          ChildrenConsistent, cure, AtOut, Die, Backed, Junk, PIPE
<1>3. ASSUME NEW v \in Workers, v # w PROVE ChildConsistent(v)'
  BY <1>3, SameChild DEF RespondCrash, Goto, WorkerTypeOK, ChildrenConsistent, AtOut,
                         Die
<1> QED  BY <1>1, <1>2, <1>3 DEF ChildrenConsistent

\* A signal ends the child.
LEMMA WorkerQuitsStep ==
  ASSUME IInv, NEW w \in Workers, WorkerQuits(w)
  PROVE  WorkerTypeOK' /\ ChildrenConsistent'
<1> USE DEF IInv, TypeOK
<1>1. WorkerTypeOK'
  BY WorkerAssumption DEF WorkerQuits, Goto, At, WorkerTypeOK, WorkerPcs,
                          ChildrenConsistent, ChildConsistent, Die, Junk
<1>2. ChildConsistent(w)'
  BY WorkerAssumption DEF WorkerQuits, Goto, At, WorkerTypeOK, ChildConsistent,
                          ChildrenConsistent, cure, Die, Backed, Junk, PIPE
<1>3. ASSUME NEW v \in Workers, v # w PROVE ChildConsistent(v)'
  BY <1>3, SameChild DEF WorkerQuits, Goto, WorkerTypeOK, ChildrenConsistent, Die
<1> QED  BY <1>1, <1>2, <1>3 DEF ChildrenConsistent

\* recvmsg() fails and the child goes on with a stale clientfd.
LEMMA RecvErrorStep ==
  ASSUME IInv, NEW w \in Workers, RecvError(w)
  PROVE  WorkerTypeOK' /\ ChildrenConsistent'
<1> USE DEF IInv, TypeOK
<1>0. PICK x \in Clobber(w) : /\ clientfd' = [clientfd EXCEPT ![w] = x]
                              /\ IF x = Junk THEN Die(w) ELSE Proceed(w)
  BY DEF RecvError
<1>x. x \in Int /\ x \in {Junk} \cup 1..Len(got[w])
  BY <1>0 DEF Clobber, Junk, WorkerTypeOK
<1>u. UNCHANGED <<got, reg, rcvd, nleft, answered>> /\ AtPipe(w)
  BY DEF RecvError
<1>1. CASE Die(w)
  <2>1. WorkerTypeOK'
    BY <1>0, <1>x, <1>u, <1>1 DEF Die, Goto, At, WorkerTypeOK, WorkerPcs,
                                  ChildrenConsistent, ChildConsistent, Junk
  <2>2. ChildConsistent(w)'
    BY <1>0, <1>x, <1>u, <1>1 DEF Die, Goto, At, WorkerTypeOK, ChildConsistent,
                                  ChildrenConsistent, cure, Backed, Junk, PIPE
  <2>3. ASSUME NEW v \in Workers, v # w PROVE ChildConsistent(v)'
    BY <1>0, <1>u, <1>1, <2>3, SameChild DEF Die, Goto, WorkerTypeOK, ChildrenConsistent
  <2> QED  BY <2>1, <2>2, <2>3 DEF ChildrenConsistent
<1>2. CASE Proceed(w)
  <2>1. batch[w] \in Seq(Event) /\ batch[w] # << >>
    BY <1>u DEF AtPipe, At, WorkerTypeOK, ChildrenConsistent, ChildConsistent
  <2>2. WorkerTypeOK'
    <3>1. /\ wpc' \in [Workers -> WorkerPcs] /\ batch' \in [Workers -> Seq(Event)]
          /\ clientfd' \in [Workers -> Int]
      BY <1>0, <1>x, <1>2, <2>1, TailBatch DEF Proceed, Goto, WorkerTypeOK, WorkerPcs
    <3> QED  BY <1>u, <3>1 DEF WorkerTypeOK
  <2>3. ChildConsistent(w)'
    <3>1. \A i \in DOMAIN batch'[w] : Backed(batch'[w][i], Len(got[w]))
      BY <1>2, <2>1, TailBatch DEF Proceed, WorkerTypeOK, ChildrenConsistent,
         ChildConsistent
    <3>2. /\ wpc'[w] \notin {"recv", "parse", "hung"}
          /\ wpc'[w] = "event" => batch'[w] # << >>
      BY <1>2, <2>1, TailBatch DEF Proceed, Goto, WorkerTypeOK
    <3>3. clientfd'[w] \in {Junk} \cup 1..Len(got[w])
      BY <1>0, <1>x DEF WorkerTypeOK
    <3> QED  BY <1>u, <3>1, <3>2, <3>3 DEF ChildrenConsistent, ChildConsistent
  <2>4. ASSUME NEW v \in Workers, v # w PROVE ChildConsistent(v)'
    BY <1>0, <1>u, <1>2, <2>4, SameChild DEF Proceed, Goto, WorkerTypeOK,
       ChildrenConsistent
  <2> QED  BY <2>2, <2>3, <2>4 DEF ChildrenConsistent
<1> QED  BY <1>0, <1>1, <1>2

\* memset() in onRecv() overwrites the stack.
LEMMA SmashStep ==
  ASSUME IInv, NEW w \in Workers, Smash(w)
  PROVE  WorkerTypeOK' /\ ChildrenConsistent'
<1> USE DEF IInv, TypeOK
<1>1. ASSUME Die(w), UNCHANGED nleft PROVE WorkerTypeOK'
  BY <1>1 DEF Smash, Die, Goto, WorkerTypeOK, WorkerPcs
<1>2. ASSUME ReturnFromRecv(w), UNCHANGED batch PROVE WorkerTypeOK'
  <2>1. READ_COUNT \in 0..MaxNleft
    BY WorkerAssumption
  <2>2. nleft' \in [Workers -> 0..MaxNleft]
    BY <1>2, <2>1, Zenon DEF ReturnFromRecv, WorkerTypeOK
  <2>3. wpc' \in [Workers -> WorkerPcs]
    BY <1>2 DEF ReturnFromRecv, Goto, WorkerTypeOK, WorkerPcs
  <2> QED  BY <1>2, <2>2, <2>3 DEF Smash, WorkerTypeOK
<1>3. WorkerTypeOK'
  BY <1>1, <1>2 DEF Smash
<1>4. ChildConsistent(w)'
  BY DEF Smash, ReturnFromRecv, Die, Goto, At, WorkerTypeOK, ChildConsistent,
         ChildrenConsistent, cure, Backed, Junk, PIPE
<1>5. ASSUME NEW v \in Workers, v # w PROVE ChildConsistent(v)'
  BY <1>5, SameChild DEF Smash, ReturnFromRecv, Die, Goto, WorkerTypeOK,
                         ChildrenConsistent
<1> QED  BY <1>3, <1>4, <1>5 DEF ChildrenConsistent

\* A descriptor is received: the three tables grow together.
LEMMA RecvFdStep ==
  ASSUME IInv, NEW w \in Workers, RecvFd(w)
  PROVE  WorkerTypeOK' /\ ChildrenConsistent'
<1> USE DEF IInv, TypeOK
<1> DEFINE n == Len(got[w]) + 1
           e == [mask |-> "IN", data |-> TcpData(n)]
<1>0. /\ batch[w] \in Seq(Event) /\ batch[w] # << >>
      /\ got[w] \in Seq(Conns) /\ Len(got[w]) \in Nat
      /\ chan \in Seq(Conns) /\ chan # << >> /\ Head(chan) \in Conns
  BY DEF RecvFd, Sock_fd_read, ChannelTypeOK, AtPipe, At, WorkerTypeOK,
         ChildrenConsistent, ChildConsistent
<1>1. e \in Event /\ Backed(e, n) /\ e.data.kind # "fd"
  BY <1>0, DataType, DataKind DEF Backed
<1> HIDE DEF e
<1>2. /\ got' = [got EXCEPT ![w] = Append(@, Head(chan))]
      /\ reg' = [reg EXCEPT ![w] = Append(@, e)]
      /\ rcvd' = [rcvd EXCEPT ![w] = Append(@, << >>)]
      /\ clientfd' = [clientfd EXCEPT ![w] = n]
      /\ batch' = [batch EXCEPT ![w] = Tail(@)]
      /\ wpc' = [wpc EXCEPT ![w] = IF Len(batch[w]) = 1 THEN "wait" ELSE "event"]
      /\ UNCHANGED <<nleft, answered>>
  BY DEF RecvFd, Proceed, Goto, e
<1>3. WorkerTypeOK'
  <2>1. got' \in [Workers -> Seq(Conns)] /\ reg' \in [Workers -> Seq(Event)]
    BY <1>0, <1>1, <1>2 DEF WorkerTypeOK
  <2>2. rcvd' \in [Workers -> Seq(Seq(1..ReqLen))]
    <3>1. Append(rcvd[w], << >>) \in Seq(Seq(1..ReqLen))
      <4> DEFINE B == Seq(1..ReqLen)
      <4>1. rcvd[w] \in Seq(B) /\ << >> \in B  BY DEF WorkerTypeOK
      <4> HIDE DEF B
      <4>2. Append(rcvd[w], << >>) \in Seq(B)  BY <4>1
      <4> QED  BY <4>2 DEF B
    <3> QED  BY <1>2, <3>1, Zenon DEF WorkerTypeOK
  <2>3. /\ clientfd' \in [Workers -> Int] /\ batch' \in [Workers -> Seq(Event)]
        /\ wpc' \in [Workers -> WorkerPcs] /\ nleft' \in [Workers -> 0..MaxNleft]
        /\ answered' \in SUBSET Conns
    BY <1>0, <1>2, TailBatch DEF WorkerTypeOK, WorkerPcs
  <2> QED  BY <2>1, <2>2, <2>3 DEF WorkerTypeOK
<1>4. ChildConsistent(w)'
  <2>1. Len(reg'[w]) = n /\ Len(got'[w]) = n /\ Len(rcvd'[w]) = n
    <3>1. Len(reg[w]) = Len(got[w]) /\ Len(rcvd[w]) = Len(got[w])
      BY DEF ChildrenConsistent, ChildConsistent
    <3>2. /\ reg'[w] = Append(reg[w], e) /\ got'[w] = Append(got[w], Head(chan))
          /\ rcvd'[w] = Append(rcvd[w], << >>)
      BY <1>2 DEF WorkerTypeOK
    <3>3. reg[w] \in Seq(Event) /\ rcvd[w] \in Seq(Seq(1..ReqLen))
      BY DEF WorkerTypeOK
    <3>4. Len(Append(rcvd[w], << >>)) = Len(rcvd[w]) + 1
      BY <3>3
    <3> QED  BY <1>0, <1>1, <3>1, <3>2, <3>3, <3>4, AppendSeq
  <2>2. ASSUME NEW k \in DOMAIN reg'[w]
        PROVE  Backed(reg'[w][k], n) /\ reg'[w][k].data.kind # "fd"
    <3>1. reg[w] \in Seq(Event) /\ reg'[w] = Append(reg[w], e)
      BY <1>2 DEF WorkerTypeOK
    <3>2. (k \in DOMAIN reg[w] /\ reg'[w][k] = reg[w][k]) \/ reg'[w][k] = e
      BY <1>1, <2>2, <3>1, AppendSeq
    <3>3. CASE k \in DOMAIN reg[w] /\ reg'[w][k] = reg[w][k]
      <4>1. Backed(reg[w][k], Len(got[w])) /\ reg[w][k].data.kind # "fd"
        BY <3>3 DEF ChildrenConsistent, ChildConsistent
      <4> QED  BY <1>0, <3>3, <4>1 DEF Backed
    <3>4. CASE reg'[w][k] = e
      BY <1>1, <3>4
    <3> QED  BY <3>2, <3>3, <3>4
  <2>3. \A i \in DOMAIN batch'[w] : Backed(batch'[w][i], n)
    BY <1>0, <1>2, TailBatch DEF WorkerTypeOK, ChildrenConsistent, ChildConsistent,
                                 Backed
  <2>4. clientfd'[w] \in {Junk} \cup 1..n
    BY <1>0, <1>2 DEF WorkerTypeOK
  <2>5. /\ wpc'[w] \notin {"recv", "parse", "hung"}
        /\ wpc'[w] = "event" => batch'[w] # << >>
    BY <1>0, <1>2, TailBatch DEF WorkerTypeOK
  <2> QED  BY <2>1, <2>2, <2>3, <2>4, <2>5 DEF ChildConsistent
<1>5. ASSUME NEW v \in Workers, v # w PROVE ChildConsistent(v)'
  BY <1>2, <1>5, SameChild DEF WorkerTypeOK, ChildrenConsistent
<1> QED  BY <1>3, <1>4, <1>5 DEF ChildrenConsistent

\* epoll_wait() returns events of registered descriptors only.
LEMMA WorkerWaitStep ==
  ASSUME IInv, NEW w \in Workers, WorkerWait(w)
  PROVE  WorkerTypeOK' /\ ChildrenConsistent'
<1> USE DEF IInv, TypeOK
<1>1. PICK b \in Batches(Ready(w)) :
        batch' = [batch EXCEPT ![w] = [i \in DOMAIN b |-> EventOf(w, b[i])]]
  BY DEF WorkerWait
<1>2. PICK n \in 1..EPOLLEVENTS : b \in [1..n -> Ready(w)]
  BY <1>1 DEF Batches
<1> DEFINE evs == [i \in DOMAIN b |-> EventOf(w, b[i])]
<1>3. reg[w] \in Seq(Event)
  BY DEF WorkerTypeOK
<1>4. \A k \in Ready(w) : EventOf(w, k) \in Event /\ Backed(EventOf(w, k), Len(got[w]))
  <2>1. SUFFICES ASSUME NEW k \in Ready(w), k # PIPE
                 PROVE  reg[w][k] \in Event /\ Backed(reg[w][k], Len(got[w]))
    BY DataType, DataKind DEF EventOf, Backed
  <2>2. k \in DOMAIN reg[w]
    BY <2>1, Zenon DEF Ready
  <2> QED  BY <1>3, <2>2 DEF ChildrenConsistent, ChildConsistent
<1>5. evs \in [1..n -> Event] /\ \A i \in 1..n : Backed(evs[i], Len(got[w]))
  BY <1>2, <1>4, Zenon
<1>6. n \in Nat /\ n > 0
  BY <1>2, WorkerAssumption
<1>7. evs \in Seq(Event) /\ Len(evs) = n
  BY <1>5, <1>6, FunctionIsSeq
<1>8. batch'[w] = evs
  BY <1>1 DEF WorkerTypeOK
<1> HIDE DEF evs
<1>9. evs # << >>
  BY <1>6, <1>7, LongIsNotEmpty
<1>10. WorkerTypeOK'
  <2>1. batch' \in [Workers -> Seq(Event)]
    BY <1>1, <1>7, Zenon DEF WorkerTypeOK, evs
  <2> QED  BY <2>1 DEF WorkerWait, Goto, WorkerTypeOK, WorkerPcs
<1>11. ChildConsistent(w)'
  BY <1>5, <1>7, <1>8, <1>9
  DEF WorkerWait, Goto, WorkerTypeOK, ChildrenConsistent, ChildConsistent
<1>12. ASSUME NEW v \in Workers, v # w PROVE ChildConsistent(v)'
  BY <1>1, <1>12, SameChild DEF WorkerWait, Goto, WorkerTypeOK, ChildrenConsistent
<1> QED  BY <1>10, <1>11, <1>12 DEF ChildrenConsistent

\* At recv and parse the current event names a descriptor the child holds.
LEMMA CurrentSocket ==
  ASSUME IInv, NEW w \in Workers, wpc[w] \in {"recv", "parse"}
  PROVE  /\ batch[w] \in Seq(Event) /\ batch[w] # << >>
         /\ curk(w) \in 1..Len(got[w]) /\ curk(w) \in Nat
         /\ curk(w) \in DOMAIN rcvd[w] /\ curk(w) \in DOMAIN got[w]
         /\ curc(w) \in Conns
<1>1. batch[w] \in Seq(Event) /\ batch[w] # << >> /\ got[w] \in Seq(Conns)
  BY DEF IInv, TypeOK, WorkerTypeOK, ChildrenConsistent, ChildConsistent
<1>2. 1 \in DOMAIN batch[w] /\ Head(batch[w]) = batch[w][1] /\ batch[w][1] \in Event
  BY <1>1
<1>3. Backed(batch[w][1], Len(got[w])) /\ batch[w][1].data.kind # "fd"
  BY <1>2 DEF IInv, ChildrenConsistent, ChildConsistent, cure
<1>4. curk(w) \in 1..Len(got[w]) /\ curk(w) \in Nat
  BY <1>1, <1>2, <1>3 DEF Backed, curk, cure
<1>5. curk(w) \in DOMAIN rcvd[w]
  BY <1>4 DEF IInv, TypeOK, WorkerTypeOK, ChildrenConsistent, ChildConsistent
<1> QED  BY <1>1, <1>4, <1>5 DEF curc

\* read() returns data for a descriptor the child holds.
LEMMA ReadSomeStep ==
  ASSUME IInv, NEW w \in Workers, ReadSome(w)
  PROVE  NetTypeOK' /\ WorkerTypeOK' /\ ChildrenConsistent'
<1> USE DEF IInv, TypeOK
<1> DEFINE c == curc(w)
           k == curk(w)
           n == Smaller(avail(c), nleft[w])
           u == Piece(c, n)
<1>1. /\ c \in Conns /\ k \in DOMAIN rcvd[w] /\ k \in 1..Len(got[w])
  BY CurrentSocket DEF ReadSome, At
<1>2. /\ sent[c] \in 0..ReqLen /\ taken[c] \in 0..ReqLen /\ nleft[w] \in 0..MaxNleft
      /\ sent[c] - taken[c] > 0
  BY <1>1 DEF ReadSome, NetTypeOK, WorkerTypeOK, avail
<1>3. /\ n \in 0..nleft[w] /\ taken[c] + n \in 0..ReqLen /\ nleft[w] - n \in 0..MaxNleft
      /\ u \in Seq(1..ReqLen)
  <2>1. /\ n \in 0..nleft[w] /\ taken[c] + n \in 0..ReqLen /\ nleft[w] - n \in 0..MaxNleft
    BY <1>2, NetAssumption, WorkerAssumption DEF Smaller, avail
  <2> HIDE DEF n, c
  <2>2. u \in [1..n -> 1..ReqLen]
    BY <1>2, <2>1, NetAssumption DEF Piece
  <2>3. n \in Nat
    BY <1>2, <2>1
  <2>4. \A S, m : \A f \in [1..m -> S] : m \in Nat => f \in Seq(S)
    OBVIOUS
  <2> HIDE DEF u
  <2>5. u \in Seq(1..ReqLen)
    BY <2>2, <2>3, <2>4, Zenon
  <2> QED  BY <2>1, <2>5
<1>4. /\ taken' = [taken EXCEPT ![c] = taken[c] + n]
      /\ rcvd' = [rcvd EXCEPT ![w] = [rcvd[w] EXCEPT ![k] = rcvd[w][k] \o u]]
      /\ UNCHANGED <<listening, backlog, opened, sent, eof, got, reg, clientfd, batch,
                     answered>>
      /\ IF n = nleft[w]
         THEN ReturnFromRecv(w)
         ELSE nleft' = [nleft EXCEPT ![w] = nleft[w] - n] /\ UNCHANGED wpc
  BY DEF ReadSome
<1> HIDE DEF n, u, c, k
<1>5. NetTypeOK'
  BY <1>1, <1>3, <1>4 DEF NetTypeOK
<1>6. wpc' \in [Workers -> WorkerPcs] /\ nleft' \in [Workers -> 0..MaxNleft]
  <2>1. READ_COUNT \in 0..MaxNleft  BY WorkerAssumption
  <2> QED  BY <1>3, <1>4, <2>1 DEF ReturnFromRecv, Goto, WorkerTypeOK, WorkerPcs
<1>7. /\ rcvd'[w] \in Seq(Seq(1..ReqLen)) /\ Len(rcvd'[w]) = Len(rcvd[w])
      /\ rcvd' \in [Workers -> Seq(Seq(1..ReqLen))]
  <2> DEFINE B == Seq(1..ReqLen)
             r == [rcvd[w] EXCEPT ![k] = rcvd[w][k] \o u]
  <2>1. rcvd[w] \in Seq(B) /\ rcvd \in [Workers -> Seq(B)]  BY DEF WorkerTypeOK
  <2>2. rcvd[w][k] \in B  BY <1>1, <2>1
  <2>3. rcvd[w][k] \o u \in B  BY <1>3, <2>2
  <2> HIDE DEF B
  <2>4. r \in Seq(B) /\ Len(r) = Len(rcvd[w])  BY <1>1, <2>1, <2>3
  <2> HIDE DEF r
  <2>5. rcvd' = [rcvd EXCEPT ![w] = r]  BY <1>4 DEF r
  <2>6. rcvd'[w] = r /\ rcvd' \in [Workers -> Seq(B)]  BY <2>1, <2>4, <2>5
  <2> QED  BY <2>4, <2>6 DEF B
<1>8. WorkerTypeOK'
  BY <1>4, <1>6, <1>7 DEF WorkerTypeOK
<1>9. ChildConsistent(w)'
  <2>1. wpc'[w] \in {"recv", "parse"}
    BY <1>4 DEF ReadSome, At, ReturnFromRecv, Goto, WorkerTypeOK
  <2>2. /\ batch[w] # << >> /\ cure(w).data.kind # "fd"
    BY DEF ReadSome, At, ChildrenConsistent, ChildConsistent
  <2> QED  BY <1>4, <1>7, <2>1, <2>2 DEF ChildrenConsistent, ChildConsistent, cure
<1>10. ASSUME NEW v \in Workers, v # w PROVE ChildConsistent(v)'
  BY <1>4, <1>10, SameChild DEF ReturnFromRecv, Goto, WorkerTypeOK, ChildrenConsistent
<1> QED  BY <1>5, <1>8, <1>9, <1>10 DEF ChildrenConsistent

\* Leaving the current event of a non-empty batch, with the same descriptors.
LEMMA ProceedStep ==
  ASSUME IInv, NEW w \in Workers, batch[w] # << >>, Proceed(w),
         reg' \in [Workers -> Seq(Event)], Len(reg'[w]) = Len(reg[w]),
         \A k \in DOMAIN reg'[w] : /\ Backed(reg'[w][k], Len(got[w]))
                                   /\ reg'[w][k].data.kind # "fd",
         \A v \in Workers \ {w} : reg'[v] = reg[v],
         UNCHANGED <<got, clientfd, rcvd>>
  PROVE  /\ batch' \in [Workers -> Seq(Event)] /\ wpc' \in [Workers -> WorkerPcs]
         /\ ChildrenConsistent'
<1> USE DEF IInv, TypeOK
<1>1. batch[w] \in Seq(Event)
  BY DEF WorkerTypeOK
<1>2. batch' \in [Workers -> Seq(Event)] /\ wpc' \in [Workers -> WorkerPcs]
  BY <1>1, TailBatch DEF Proceed, Goto, WorkerTypeOK, WorkerPcs
<1>3. ChildConsistent(w)'
  <2>1. \A i \in DOMAIN batch'[w] : Backed(batch'[w][i], Len(got[w]))
    BY <1>1, TailBatch DEF Proceed, WorkerTypeOK, ChildrenConsistent, ChildConsistent
  <2>2. /\ wpc'[w] \notin {"recv", "parse", "hung"}
        /\ wpc'[w] = "event" => batch'[w] # << >>
    BY <1>1, TailBatch DEF Proceed, Goto, WorkerTypeOK
  <2> QED  BY <2>1, <2>2 DEF ChildrenConsistent, ChildConsistent
<1>4. ASSUME NEW v \in Workers, v # w PROVE ChildConsistent(v)'
  BY <1>4, SameChild DEF Proceed, Goto, WorkerTypeOK, ChildrenConsistent
<1> QED  BY <1>2, <1>3, <1>4 DEF ChildrenConsistent

\* A request is parsed and stored in the interest of clientfd.
LEMMA ParseCompleteStep ==
  ASSUME IInv, NEW w \in Workers, ParseComplete(w)
  PROVE  WorkerTypeOK' /\ ChildrenConsistent'
<1> USE DEF IInv, TypeOK
<1>1. curk(w) \in 1..Len(got[w]) /\ curk(w) \in Nat /\ batch[w] # << >> /\ curc(w) \in Conns
  BY CurrentSocket DEF ParseComplete, At
<1>2. Parsed(w, curk(w)) \subseteq Targets
  BY <1>1, WorkerAssumption DEF Parsed, curc
<1>3. PICK t \in Parsed(w, curk(w)) :
        reg' = [reg EXCEPT ![w] = EpollMod(@, clientfd[w],
                  [mask |-> "OUT", data |-> ReqData(curk(w), t)])]
  BY DEF ParseComplete
<1> DEFINE e == [mask |-> "OUT", data |-> ReqData(curk(w), t)]
           r == EpollMod(reg[w], clientfd[w], e)
<1>4. e \in Event /\ Backed(e, Len(got[w])) /\ e.data.kind # "fd"
  BY <1>1, <1>2, DataType, DataKind DEF Backed
<1>5. reg[w] \in Seq(Event) /\ reg' = [reg EXCEPT ![w] = r]
  BY <1>3 DEF WorkerTypeOK
<1> HIDE DEF e
<1>6. /\ r \in Seq(Event) /\ Len(r) = Len(reg[w])
      /\ \A k \in 1..Len(reg[w]) : r[k] = IF k = clientfd[w] THEN e ELSE reg[w][k]
  BY <1>4, <1>5, EpollModType
<1> HIDE DEF r
<1>7. /\ reg' \in [Workers -> Seq(Event)] /\ reg'[w] = r
      /\ \A v \in Workers \ {w} : reg'[v] = reg[v]
  BY <1>5, <1>6 DEF WorkerTypeOK
<1>8. \A k \in DOMAIN r : Backed(r[k], Len(got[w])) /\ r[k].data.kind # "fd"
  BY <1>4, <1>5, <1>6 DEF ChildrenConsistent, ChildConsistent
<1>9. /\ batch' \in [Workers -> Seq(Event)] /\ wpc' \in [Workers -> WorkerPcs]
      /\ ChildrenConsistent'
  BY <1>1, <1>6, <1>7, <1>8, ProceedStep DEF ParseComplete
<1> QED  BY <1>7, <1>9 DEF ParseComplete, WorkerTypeOK

\* The response is written and data.fd closed.
LEMMA RespondStep ==
  ASSUME IInv, NEW w \in Workers, Respond(w)
  PROVE  WorkerTypeOK' /\ ChildrenConsistent'
<1> USE DEF IInv, TypeOK
<1> DEFINE fd == data_fd(cure(w).data)
           r == EpollDelClose(reg[w], fd)
<1>1. batch[w] # << >>
  BY DEF Respond, AtOut, At, ChildrenConsistent, ChildConsistent
<1>2. reg[w] \in Seq(Event) /\ reg' = [reg EXCEPT ![w] = r]
  BY DEF Respond, WorkerTypeOK
<1>3. answered' \in SUBSET Conns
  BY DEF Respond, WorkerTypeOK
<1> HIDE DEF fd
<1>4. /\ r \in Seq(Event) /\ Len(r) = Len(reg[w])
      /\ \A k \in 1..Len(reg[w]) : r[k].data = reg[w][k].data
  BY <1>2, EpollDelCloseType
<1> HIDE DEF r
<1>5. /\ reg' \in [Workers -> Seq(Event)] /\ reg'[w] = r
      /\ \A v \in Workers \ {w} : reg'[v] = reg[v]
  BY <1>2, <1>4 DEF WorkerTypeOK
<1>6. \A k \in DOMAIN r : Backed(r[k], Len(got[w])) /\ r[k].data.kind # "fd"
  BY <1>2, <1>4 DEF ChildrenConsistent, ChildConsistent, Backed
<1>7. /\ batch' \in [Workers -> Seq(Event)] /\ wpc' \in [Workers -> WorkerPcs]
      /\ ChildrenConsistent'
  BY <1>1, <1>4, <1>5, <1>6, ProceedStep DEF Respond
<1> QED  BY <1>3, <1>5, <1>7 DEF Respond, WorkerTypeOK

\* Every step of a child keeps the invariant.
LEMMA WorkerStep ==
  ASSUME IInv, NEW w \in Workers, WorkerRuns(w) \/ WorkerFails(w), UNCHANGED masterVars
  PROVE  IInv'
<1>1. WorkerTypeOK' /\ ChildrenConsistent'
  BY StartStep, WorkerWaitStep, RecvFdStep, RecvFdFullStep, RecvAgainStep, RecvEofStep,
     RecvErrorStep, BeginReadStep, ReadSomeStep, ReadEofStep, ReadAgainStep, SmashStep,
     ParseIncompleteStep, ParseCompleteStep, ParseCrashStep, RespondStep,
     RespondDirStep, RespondCrashStep, WorkerQuitsStep
  DEF WorkerRuns, WorkerFails
<1>2. MasterTypeOK' /\ MainConsistent'
  BY DEF IInv, TypeOK, MasterTypeOK, MainConsistent, masterVars
<1>3. ChannelTypeOK'
  <2>1. chan \in Seq(Conns) /\ (chan # << >> => Tail(chan) \in Seq(Conns))
    BY DEF IInv, TypeOK, ChannelTypeOK
  <2>2. UNCHANGED chan \/ Sock_fd_read
    BY DEF WorkerRuns, WorkerFails, Start, WorkerWait, RecvFd, RecvFdFull, RecvAgain,
           RecvEof, RecvError, BeginRead, ReadSome, ReadEof, ReadAgain, Smash,
           ParseIncomplete, ParseComplete, ParseCrash, Respond, RespondDir,
           RespondCrash, WorkerQuits, chanVars
  <2>3. UNCHANGED wend \/ CloseWriteEnd(w)
    BY DEF WorkerRuns, WorkerFails, Start, WorkerWait, RecvFd, RecvFdFull, RecvAgain,
           RecvEof, RecvError, BeginRead, ReadSome, ReadEof, ReadAgain, Smash,
           ParseIncomplete, ParseComplete, ParseCrash, Respond, RespondDir,
           RespondCrash, WorkerQuits, chanVars
  <2> QED  BY <2>1, <2>2, <2>3
           DEF IInv, TypeOK, ChannelTypeOK, Sock_fd_read, CloseWriteEnd
<1>4. NetTypeOK'
  <2>1. CASE ReadSome(w)
    BY <2>1, ReadSomeStep
  <2>2. CASE UNCHANGED netVars
    BY <2>2, Zenon DEF IInv, TypeOK, NetTypeOK, netVars
  <2> QED
    BY <2>1, <2>2
    DEF WorkerRuns, WorkerFails, Start, WorkerWait, RecvFd, RecvFdFull, RecvAgain,
        RecvEof, RecvError, BeginRead, ReadEof, ReadAgain, Smash, ParseIncomplete,
        ParseComplete, ParseCrash, Respond, RespondDir, RespondCrash, WorkerQuits
<1> QED  BY <1>1, <1>2, <1>3, <1>4 DEF IInv, TypeOK

----------------------------------------------------------------------------
(* The clients, main, and the invariant of the whole server.               *)

\* Every step of a client keeps the invariant.
LEMMA ClientsStep ==
  ASSUME IInv, ClientStep, UNCHANGED <<chanVars, masterVars, workerVars>>
  PROVE  IInv'
<1> USE DEF IInv, TypeOK
<1>1. NetTypeOK'
  <2>1. PICK c \in Conns : Connect(c) \/ ClientSend(c) \/ ClientShutdown(c)
    BY DEF ClientStep
  <2>2. CASE Connect(c)
    BY <2>2 DEF Connect, NetTypeOK
  <2>3. CASE ClientSend(c)
    BY <2>3, NetAssumption DEF ClientSend, NetTypeOK
  <2>4. CASE ClientShutdown(c)
    BY <2>4, Zenon DEF ClientShutdown, NetTypeOK
  <2> QED  BY <2>1, <2>2, <2>3, <2>4
<1>2. ChannelTypeOK' /\ MasterTypeOK' /\ MainConsistent'
  BY DEF ChannelTypeOK, MasterTypeOK, MainConsistent, chanVars, masterVars
<1>3. WorkerTypeOK'
  BY DEF WorkerTypeOK, workerVars
<1>4. ASSUME NEW v \in Workers PROVE ChildConsistent(v)'
  BY <1>4, SameChild DEF ChildrenConsistent, workerVars
<1> QED  BY <1>1, <1>2, <1>3, <1>4 DEF ChildrenConsistent

\* Every step of main but fork() keeps the invariant.
LEMMA MasterStep ==
  ASSUME IInv, MasterRuns \/ MasterFails, UNCHANGED workerVars
  PROVE  IInv'
<1>1. NetTypeOK' /\ ChannelTypeOK' /\ MasterTypeOK'
  BY MasterType DEF IInv
<1>2. MainConsistent'
  <2>1. backlog # << >> => Head(backlog) \in Conns
    BY DEF IInv, TypeOK, NetTypeOK
  <2> QED
    BY <2>1
    DEF IInv, MainConsistent, MasterRuns, MasterFails, SPipe, OpenListen, EpollWait,
        AcceptOne, AcceptNone, AcceptFails, WriteOk, RetryOk, RetryFails, ForkFails,
        ListenFails, WriteFails, MainQuits, Exit
<1>3. WorkerTypeOK'
  BY DEF IInv, TypeOK, WorkerTypeOK, workerVars
<1>4. ASSUME NEW v \in Workers PROVE ChildConsistent(v)'
  BY <1>4, SameChild DEF IInv, ChildrenConsistent, workerVars
<1> QED  BY <1>1, <1>2, <1>3, <1>4 DEF IInv, TypeOK, ChildrenConsistent

\* fork() keeps the invariant.
LEMMA ForkStep ==
  ASSUME IInv, NEW w \in Workers, ForkChild(w)
  PROVE  IInv'
<1> USE DEF IInv, TypeOK
<1>1. NetTypeOK'
  BY Zenon DEF ForkChild, Fork, NetTypeOK, netVars
<1>2. ChannelTypeOK' /\ MainConsistent'
  BY DEF ForkChild, Fork, ChannelTypeOK, MainConsistent
<1>3. MasterTypeOK'
  <2>1. n_proc' \in Nat
    BY DEF ForkChild, Fork, MasterTypeOK, insert_pool_obj_n
  <2> QED  BY <2>1, InsertType DEF ForkChild, Fork, MasterTypeOK, MasterPcs
<1>4. WorkerTypeOK'
  BY DEF ForkChild, Goto, WorkerTypeOK, WorkerPcs
<1>5. ChildConsistent(w)'
  BY DEF ForkChild, Goto, WorkerTypeOK, ChildrenConsistent, ChildConsistent
<1>6. ASSUME NEW v \in Workers, v # w PROVE ChildConsistent(v)'
  BY <1>6, SameChild DEF ForkChild, Goto, WorkerTypeOK, ChildrenConsistent
<1> QED  BY <1>1, <1>2, <1>3, <1>4, <1>5, <1>6 DEF ChildrenConsistent

\* The invariant holds initially.
LEMMA InitIInv == Init => IInv
<1> SUFFICES ASSUME Init PROVE IInv
  OBVIOUS
<1> USE DEF Init, NetInit, ChannelInit, MasterInit, WorkerInit
<1>1. NetTypeOK
  <2>1. << >> \in Seq(Conns) /\ 0 \in 0..ReqLen  BY NetAssumption
  <2> QED  BY <2>1, Zenon DEF NetTypeOK
<1>2. ChannelTypeOK /\ MasterTypeOK /\ MainConsistent
  BY DEF ChannelTypeOK, MasterTypeOK, MasterPcs, MainConsistent
<1>3. WorkerTypeOK
  BY WorkerAssumption DEF WorkerTypeOK, WorkerPcs, Junk
<1>4. ChildrenConsistent
  BY DEF ChildrenConsistent, ChildConsistent, Junk
<1> QED  BY <1>1, <1>2, <1>3, <1>4 DEF IInv, TypeOK

\* Every step keeps the invariant.
LEMMA NextIInv == IInv /\ [Next]_vars => IInv'
<1> SUFFICES ASSUME IInv, [Next]_vars PROVE IInv'
  OBVIOUS
<1>1. CASE ClientStep /\ UNCHANGED <<chanVars, masterVars, workerVars>>
  BY <1>1, ClientsStep
<1>2. CASE (MasterRuns \/ MasterFails) /\ UNCHANGED workerVars
  BY <1>2, MasterStep
<1>3. ASSUME NEW w \in Workers, ForkChild(w) PROVE IInv'
  BY <1>3, ForkStep
<1>4. ASSUME NEW w \in Workers, WorkerRuns(w) \/ WorkerFails(w), UNCHANGED masterVars
      PROVE  IInv'
  BY <1>4, WorkerStep
<1>5. CASE UNCHANGED vars
  <2>1. NetTypeOK'
    BY <1>5, Zenon DEF IInv, TypeOK, NetTypeOK, vars, netVars
  <2>2. ChannelTypeOK' /\ MasterTypeOK' /\ MainConsistent'
    BY <1>5 DEF IInv, TypeOK, ChannelTypeOK, MasterTypeOK, MainConsistent, vars,
               chanVars, masterVars
  <2>3. WorkerTypeOK'
    BY <1>5 DEF IInv, TypeOK, WorkerTypeOK, vars, workerVars
  <2>4. ASSUME NEW v \in Workers PROVE ChildConsistent(v)'
    BY <1>5, <2>4, SameChild DEF IInv, ChildrenConsistent, vars, workerVars
  <2> QED  BY <2>1, <2>2, <2>3, <2>4 DEF IInv, TypeOK, ChildrenConsistent
<1> QED
  BY <1>1, <1>2, <1>3, <1>4, <1>5 DEF Next, MainRuns, ChildRuns

\* Every variable of the server has its type, and every event a child handles
\* names a descriptor it received, for any number of children, connections,
\* units per request, and whatever calls may fail.
THEOREM TypeCorrect == Spec => []TypeOK
<1>1. IInv => TypeOK
  BY DEF IInv
<1> QED  BY <1>1, InitIInv, NextIInv, PTL DEF Spec

\* The inductive invariant of main and the children: besides the types, the
\* descriptor, interest and buffer tables of a child have the same length,
\* every event it handles and every clientfd it stores names a descriptor it
\* has received, and main hands over only what it has accepted.
THEOREM Invariance == Spec => []IInv
BY InitIInv, NextIInv, PTL DEF Spec

----------------------------------------------------------------------------
(* The delivery of connections.                                            *)

HandingOver == mpc \in {"write", "retry"}

\* A step that moves no connection.
Idle == /\ UNCHANGED <<accepted, chan, got, cur>>
        /\ HandingOver' = HandingOver
        /\ (mpc' = "exited") = (mpc = "exited")

\* The kinds of step, by what they do to accepted connections.
LEMMA FlowStep ==
  ASSUME [Next]_vars
  PROVE  \/ Idle
         \/ AcceptOne /\ UNCHANGED got
         \/ WriteOk /\ UNCHANGED got
         \/ RetryOk /\ UNCHANGED got
         \/ mpc # "exited" /\ Exit /\ UNCHANGED got
         \/ \E w \in Workers : (RecvFd(w) \/ RecvFdFull(w)) /\ UNCHANGED masterVars
<1>1. CASE ClientStep /\ UNCHANGED <<chanVars, masterVars, workerVars>>
  BY <1>1 DEF Idle, HandingOver, chanVars, masterVars, workerVars
<1>2. CASE MasterRuns /\ UNCHANGED workerVars
  BY <1>2 DEF Idle, HandingOver, MasterRuns, SPipe, OpenListen, EpollWait, AcceptNone,
              AcceptFails, RetryFails, workerVars, chanVars
<1>3. CASE MasterFails /\ UNCHANGED workerVars
  BY <1>3 DEF Idle, HandingOver, MasterFails, ForkFails, ListenFails, WriteFails,
              MainQuits, workerVars, chanVars
<1>4. ASSUME NEW w \in Workers, ForkChild(w) PROVE Idle
  BY <1>4 DEF Idle, HandingOver, ForkChild, Fork
<1>5. ASSUME NEW w \in Workers, WorkerRuns(w) \/ WorkerFails(w), UNCHANGED masterVars,
             ~RecvFd(w), ~RecvFdFull(w)
      PROVE  Idle
  BY <1>5
  DEF Idle, HandingOver, masterVars, chanVars, WorkerRuns, WorkerFails, Start,
      WorkerWait, RecvAgain, RecvEof, RecvError, BeginRead, ReadSome, ReadEof,
      ReadAgain, Smash, ParseIncomplete, ParseComplete, ParseCrash, Respond,
      RespondDir, RespondCrash, WorkerQuits
<1>6. CASE UNCHANGED vars
  BY <1>6 DEF Idle, HandingOver, vars, chanVars, masterVars, workerVars
<1> QED  BY <1>1, <1>2, <1>3, <1>4, <1>5, <1>6 DEF Next, MainRuns, ChildRuns

----------------------------------------------------------------------------
(* Sequences.                                                              *)

\* Head() and Tail() spelled out by index.
LEMMA TailSeq ==
  ASSUME NEW S, NEW s \in Seq(S), s # << >>
  PROVE  /\ Tail(s) \in Seq(S) /\ Len(Tail(s)) = Len(s) - 1 /\ Len(s) \in Nat
         /\ \A i \in DOMAIN Tail(s) :
              i \in Int /\ i + 1 \in DOMAIN s /\ i + 1 # 1 /\ Tail(s)[i] = s[i + 1]
         /\ \A i \in DOMAIN s : i = 1 \/ (i - 1 \in DOMAIN Tail(s) /\ Tail(s)[i - 1] = s[i])
         /\ 1 \in DOMAIN s /\ Head(s) = s[1] /\ s[1] \in S
<1>1. Len(s) \in Nat /\ Len(s) > 0 /\ Tail(s) \in Seq(S) /\ Len(Tail(s)) = Len(s) - 1
  OBVIOUS
<1>2. DOMAIN s = 1..Len(s) /\ DOMAIN Tail(s) = 1..(Len(s) - 1)
  BY <1>1
<1>3. \A i \in 1..(Len(s) - 1) : Tail(s)[i] = s[i + 1]
  BY <1>1
<1>4. \A i \in DOMAIN Tail(s) : i \in Int /\ i + 1 \in DOMAIN s /\ i + 1 # 1
  BY <1>1, <1>2
<1>5. \A i \in DOMAIN s : i = 1 \/ i - 1 \in DOMAIN Tail(s)
  BY <1>1, <1>2
<1>6. \A i \in DOMAIN s : i = 1 \/ Tail(s)[i - 1] = s[i]
  BY <1>1, <1>2, <1>3
<1>7. 1 \in DOMAIN s /\ Head(s) = s[1] /\ s[1] \in S
  BY <1>1, <1>2
<1> QED  BY <1>1, <1>2, <1>3, <1>4, <1>5, <1>6, <1>7

\* Appending and dropping the head commute.
LEMMA TailOfAppend ==
  ASSUME NEW S, NEW s \in Seq(S), NEW x \in S, s # << >>
  PROVE  Tail(Append(s, x)) = Append(Tail(s), x)
OBVIOUS

\* Appending keeps the head of a sequence that has one.
LEMMA HeadOfAppend ==
  ASSUME NEW S, NEW s \in Seq(S), NEW x \in S, s # << >>
  PROVE  Head(Append(s, x)) = Head(s) /\ Append(s, x) # << >>
OBVIOUS

\* Membership in a sequence that has grown.
LEMMA InSeqAppend ==
  ASSUME NEW S, NEW s \in Seq(S), NEW x \in S, NEW y
  PROVE  InSeq(y, Append(s, x)) <=> InSeq(y, s) \/ y = x
BY AppendSeq DEF InSeq

\* Membership in a sequence that has lost its head.
LEMMA InSeqTail ==
  ASSUME NEW S, NEW s \in Seq(S), s # << >>, NEW y
  PROVE  /\ InSeq(y, Tail(s)) => InSeq(y, s)
         /\ InSeq(y, s) => InSeq(y, Tail(s)) \/ y = Head(s)
         /\ InSeq(Head(s), s)
<1> USE TailSeq
<1>1. InSeq(y, Tail(s)) => InSeq(y, s)
  BY DEF InSeq
<1>2. ASSUME InSeq(y, s) PROVE InSeq(y, Tail(s)) \/ y = Head(s)
  <2>1. PICK i \in DOMAIN s : s[i] = y
    BY <1>2 DEF InSeq
  <2> QED  BY <2>1 DEF InSeq
<1>3. InSeq(Head(s), s)
  BY DEF InSeq
<1> QED  BY <1>1, <1>2, <1>3

\* Appending a new element keeps a sequence free of repetitions.
LEMMA InjectiveAppend ==
  ASSUME NEW S, NEW s \in Seq(S), NEW x \in S, Injective(s), ~InSeq(x, s)
  PROVE  Injective(Append(s, x))
BY AppendSeq DEF InSeq, Injective

\* So does dropping the head, which then occurs no more.
LEMMA InjectiveTail ==
  ASSUME NEW S, NEW s \in Seq(S), s # << >>, Injective(s)
  PROVE  Injective(Tail(s)) /\ ~InSeq(Head(s), Tail(s))
<1> USE TailSeq
<1>1. Injective(Tail(s))
  <2> SUFFICES ASSUME NEW i \in DOMAIN Tail(s), NEW j \in DOMAIN Tail(s),
                      Tail(s)[i] = Tail(s)[j]
               PROVE  i = j
    BY DEF Injective
  <2>1. i + 1 = j + 1 /\ i \in Int /\ j \in Int
    BY DEF Injective
  <2> QED  BY <2>1
<1>2. ~InSeq(Head(s), Tail(s))
  BY DEF InSeq, Injective
<1> QED  BY <1>1, <1>2

----------------------------------------------------------------------------
(* The strengthening.                                                      *)

\* What a step can do to the backlog of the listening socket.
LEMMA BacklogStep ==
  ASSUME [Next]_vars
  PROVE  \/ UNCHANGED <<backlog, opened, accepted>>
         \/ \E c \in Conns : Connect(c) /\ UNCHANGED accepted
         \/ AcceptOne
         \/ backlog' = << >> /\ UNCHANGED <<opened, accepted>>
<1>1. CASE ClientStep /\ UNCHANGED <<chanVars, masterVars, workerVars>>
  BY <1>1 DEF ClientStep, ClientSend, ClientShutdown, masterVars
<1>2. CASE (MasterRuns \/ MasterFails) /\ UNCHANGED workerVars
  BY <1>2 DEF MasterRuns, MasterFails, SPipe, OpenListen, EpollWait, AcceptNone,
              AcceptFails, WriteOk, RetryOk, RetryFails, ForkFails, ListenFails,
              WriteFails, MainQuits, Exit, netVars
<1>3. ASSUME NEW w \in Workers, ForkChild(w) PROVE UNCHANGED <<backlog, opened, accepted>>
  BY <1>3 DEF ForkChild, Fork, netVars
<1>4. ASSUME NEW w \in Workers, WorkerRuns(w) \/ WorkerFails(w), UNCHANGED masterVars
      PROVE  UNCHANGED <<backlog, opened, accepted>>
  BY <1>4
  DEF masterVars, netVars, WorkerRuns, WorkerFails, Start, WorkerWait, RecvFd,
      RecvFdFull, RecvAgain, RecvEof, RecvError, BeginRead, ReadSome, ReadEof,
      ReadAgain, Smash, ParseIncomplete, ParseComplete, ParseCrash, Respond,
      RespondDir, RespondCrash, WorkerQuits
<1>5. CASE UNCHANGED vars
  BY <1>5 DEF vars, netVars, masterVars
<1> QED  BY <1>1, <1>2, <1>3, <1>4, <1>5 DEF Next, MainRuns, ChildRuns

\* Every step keeps Arrivals: accept() takes the head of the backlog once.
LEMMA ArrivalsStep ==
  ASSUME IInv, Arrivals, [Next]_vars
  PROVE  Arrivals'
<1>0. backlog \in Seq(Conns) /\ accepted \in Seq(Conns) /\ opened \subseteq Conns
  BY DEF IInv, TypeOK, NetTypeOK, MasterTypeOK
<1>1. CASE UNCHANGED <<backlog, opened, accepted>>
  BY <1>1 DEF Arrivals, Injective
<1>2. ASSUME NEW c \in Conns, Connect(c), UNCHANGED accepted PROVE Arrivals'
  <2>1. /\ backlog' = Append(backlog, c) /\ opened' = opened \cup {c} /\ c \notin opened
        /\ accepted' = accepted
    BY <1>2 DEF Connect
  <2>2. ~InSeq(c, backlog)
    BY <2>1 DEF Arrivals, InSeq
  <2>3. Injective(backlog') /\ Injective(accepted')
    BY <1>0, <2>1, <2>2, InjectiveAppend DEF Arrivals
  <2>4. \A i \in DOMAIN backlog' : (i \in DOMAIN backlog /\ backlog'[i] = backlog[i])
                                   \/ backlog'[i] = c
    BY <1>0, <2>1, AppendSeq
  <2> QED  BY <2>1, <2>3, <2>4 DEF Arrivals
<1>3. CASE AcceptOne
  <2>1. /\ backlog # << >> /\ backlog' = Tail(backlog) /\ opened' = opened
        /\ accepted' = Append(accepted, Head(backlog))
    BY <1>3 DEF AcceptOne
  <2>2. Head(backlog) \in Conns /\ InSeq(Head(backlog), backlog) /\ Head(backlog) \in opened
    BY <1>0, <2>1, InSeqTail, TailSeq DEF Arrivals
  <2>3. ~InSeq(Head(backlog), accepted)
    BY <2>2 DEF Arrivals, InSeq
  <2>4. Injective(backlog') /\ ~InSeq(Head(backlog), backlog')
    BY <1>0, <2>1, InjectiveTail DEF Arrivals
  <2>5. Injective(accepted')
    BY <1>0, <2>1, <2>2, <2>3, InjectiveAppend DEF Arrivals
  <2>6. \A i \in DOMAIN accepted' :
          (i \in DOMAIN accepted /\ accepted'[i] = accepted[i]) \/ accepted'[i] = Head(backlog)
    BY <1>0, <2>1, <2>2, AppendSeq
  <2>7. \A i \in DOMAIN backlog' : \E j \in DOMAIN backlog : backlog'[i] = backlog[j]
    BY <1>0, <2>1, TailSeq
  <2>8. \A i \in DOMAIN backlog' : backlog'[i] \in opened /\ backlog'[i] # Head(backlog)
    BY <2>4, <2>7 DEF Arrivals, InSeq
  <2> QED  BY <2>1, <2>2, <2>4, <2>5, <2>6, <2>7, <2>8 DEF Arrivals
<1>4. CASE backlog' = << >> /\ UNCHANGED <<opened, accepted>>
  BY <1>4 DEF Arrivals, Injective
<1> QED  BY <1>1, <1>2, <1>3, <1>4, BacklogStep

\* Every step keeps Known: only accepted connections travel.
LEMMA KnownStep ==
  ASSUME IInv, Known, [Next]_vars
  PROVE  Known'
<1>0. /\ chan \in Seq(Conns) /\ accepted \in Seq(Conns) /\ got \in [Workers -> Seq(Conns)]
      /\ backlog \in Seq(Conns)
      /\ HandingOver => cur \in Conns /\ InSeq(cur, accepted)
  BY DEF IInv, TypeOK, NetTypeOK, ChannelTypeOK, MasterTypeOK, WorkerTypeOK,
         MainConsistent, HandingOver, Known, Pending, InSeq
<1> DEFINE K(q, g, a) == /\ \A x : InSeq(x, q) => InSeq(x, a)
                         /\ \A w \in Workers : \A x : InSeq(x, g[w]) => InSeq(x, a)
<1>1. K(chan, got, accepted)
  BY DEF Known, InSeq
<1>2. SUFFICES K(chan', got', accepted') /\ (HandingOver' => InSeq(cur', accepted'))
  <2>1. ASSUME K(chan', got', accepted') PROVE \A i \in DOMAIN chan' : InSeq(chan'[i], accepted')
    BY <2>1 DEF InSeq
  <2>2. ASSUME K(chan', got', accepted')
        PROVE  \A w \in Workers : \A i \in DOMAIN got'[w] : InSeq(got'[w][i], accepted')
    BY <2>2 DEF InSeq
  <2>3. ASSUME HandingOver' => InSeq(cur', accepted')
        PROVE  Pending' \subseteq {accepted'[i] : i \in DOMAIN accepted'}
    BY <2>3 DEF HandingOver, Pending, InSeq
  <2> QED  BY <2>1, <2>2, <2>3 DEF Known
<1>3. CASE Idle
  BY <1>0, <1>1, <1>3 DEF Idle, HandingOver
<1>4. CASE AcceptOne /\ UNCHANGED got
  <2>1. /\ chan' = chan /\ got' = got /\ cur' \in Conns
        /\ accepted' = Append(accepted, cur')
    BY <1>0, <1>4, TailSeq DEF AcceptOne, chanVars
  <2>2. \A x : InSeq(x, accepted) => InSeq(x, accepted')
    BY <1>0, <2>1, InSeqAppend
  <2>3. InSeq(cur', accepted')
    BY <1>0, <2>1, InSeqAppend
  <2> QED  BY <1>1, <2>1, <2>2, <2>3
<1>5. CASE (WriteOk \/ RetryOk) /\ UNCHANGED got
  <2>1. /\ chan' = Append(chan, cur) /\ got' = got /\ HandingOver
        /\ accepted' = accepted /\ cur' = cur
    BY <1>5 DEF WriteOk, RetryOk, Sock_fd_write, HandingOver
  <2>2. \A x : InSeq(x, chan') => InSeq(x, chan) \/ x = cur
    BY <1>0, <2>1, InSeqAppend
  <2> QED  BY <1>0, <1>1, <2>1, <2>2
<1>6. CASE Exit /\ UNCHANGED got
  BY <1>1, <1>6 DEF Exit, HandingOver
<1>7. ASSUME NEW w \in Workers, RecvFd(w) \/ RecvFdFull(w), UNCHANGED masterVars
      PROVE  K(chan', got', accepted') /\ (HandingOver' => InSeq(cur', accepted'))
  <2>1. /\ chan # << >> /\ chan' = Tail(chan) /\ accepted' = accepted /\ cur' = cur
        /\ mpc' = mpc /\ Head(chan) \in Conns
        /\ got' = got \/ got' = [got EXCEPT ![w] = Append(@, Head(chan))]
    BY <1>0, <1>7, TailSeq DEF RecvFd, RecvFdFull, Sock_fd_read, masterVars
  <2>2. InSeq(Head(chan), accepted) /\ \A x : InSeq(x, chan') => InSeq(x, accepted)
    BY <1>0, <1>1, <2>1, InSeqTail
  <2>3. ASSUME NEW v \in Workers, NEW x, InSeq(x, got'[v]) PROVE InSeq(x, accepted)
    <3>1. CASE got'[v] = got[v]
      BY <1>1, <2>3, <3>1
    <3>2. CASE got'[v] = Append(got[v], Head(chan))
      BY <1>0, <1>1, <2>1, <2>2, <2>3, <3>2, InSeqAppend
    <3> QED  BY <1>0, <2>1, <3>1, <3>2
  <2> QED  BY <1>0, <2>1, <2>2, <2>3 DEF HandingOver
<1> QED  BY <1>3, <1>4, <1>5, <1>6, <1>7, FlowStep

\* Without failing sendmsg() calls main never repeats a hand-over.
LEMMA NoRetryStep ==
  ASSUME NoRetry, [Next]_vars
  PROVE  NoRetry'
<1> SUFFICES ASSUME Lossless, mpc # "retry" PROVE mpc' # "retry"
  BY DEF NoRetry, Lossless
<1>1. CASE ClientStep /\ UNCHANGED <<chanVars, masterVars, workerVars>>
  BY <1>1 DEF masterVars
<1>2. CASE (MasterRuns \/ MasterFails) /\ UNCHANGED workerVars
  BY <1>2 DEF MasterRuns, MasterFails, SPipe, OpenListen, EpollWait, AcceptOne,
              AcceptNone, AcceptFails, WriteOk, RetryOk, RetryFails, ForkFails,
              ListenFails, WriteFails, MainQuits, Exit, Lossless
<1>3. ASSUME NEW w \in Workers, ForkChild(w) PROVE mpc' # "retry"
  BY <1>3 DEF ForkChild, Fork
<1>4. CASE UNCHANGED masterVars
  BY <1>4 DEF masterVars
<1>5. CASE UNCHANGED vars
  BY <1>5 DEF vars, masterVars
<1> QED  BY <1>1, <1>2, <1>3, <1>4, <1>5 DEF Next, MainRuns, ChildRuns

\* Every step keeps Room: a child has at most what main has accepted.
LEMMA RoomStep ==
  ASSUME IInv, NoRetry, Room, [Next]_vars
  PROVE  Room'
<1>0. /\ chan \in Seq(Conns) /\ accepted \in Seq(Conns) /\ got \in [Workers -> Seq(Conns)]
      /\ Len(chan) \in Nat /\ Len(accepted) \in Nat
      /\ \A w \in Workers : Len(got[w]) \in Nat
      /\ backlog \in Seq(Conns) /\ (HandingOver => cur \in Conns)
      /\ MainFdRoom \in Nat
  BY MasterAssumption
  DEF IInv, TypeOK, NetTypeOK, ChannelTypeOK, MasterTypeOK, WorkerTypeOK,
      MainConsistent, HandingOver
<1>1. /\ InHand = IF HandingOver THEN 1 ELSE 0
      /\ InHand' = IF HandingOver' THEN 1 ELSE 0
  BY DEF InHand, Pending, HandingOver
<1>2. CASE Idle
  BY <1>1, <1>2 DEF Idle, Room, Lossless
<1>3. CASE AcceptOne /\ UNCHANGED got
  <2>1. /\ chan' = chan /\ got' = got /\ cur' \in Conns /\ ~HandingOver /\ HandingOver'
        /\ accepted' = Append(accepted, cur') /\ Len(accepted) < MainFdRoom
    BY <1>0, <1>3, TailSeq DEF AcceptOne, chanVars, HandingOver, FdsLeft
  <2>2. Len(accepted') = Len(accepted) + 1
    BY <1>0, <2>1
  <2> QED  BY <1>0, <1>1, <2>1, <2>2 DEF Room, Lossless
<1>4. CASE WriteOk /\ UNCHANGED got
  <2>1. /\ chan' = Append(chan, cur) /\ got' = got /\ HandingOver /\ ~HandingOver'
        /\ accepted' = accepted
    BY <1>4 DEF WriteOk, Sock_fd_write, HandingOver
  <2>2. Len(chan') = Len(chan) + 1
    BY <1>0, <2>1
  <2> QED  BY <1>0, <1>1, <2>1, <2>2 DEF Room, Lossless
<1>5. CASE RetryOk /\ UNCHANGED got
  BY <1>5 DEF RetryOk, NoRetry, Room, Lossless
<1>6. CASE Exit /\ UNCHANGED got
  BY <1>0, <1>1, <1>6 DEF Exit, HandingOver, Room, Lossless
<1>7. ASSUME NEW w \in Workers, RecvFd(w) \/ RecvFdFull(w), UNCHANGED masterVars
      PROVE  Room'
  <2>1. /\ chan # << >> /\ chan' = Tail(chan) /\ accepted' = accepted
        /\ mpc' = mpc /\ Head(chan) \in Conns
        /\ got' = got \/ got' = [got EXCEPT ![w] = Append(@, Head(chan))]
    BY <1>0, <1>7, TailSeq DEF RecvFd, RecvFdFull, Sock_fd_read, masterVars
  <2>2. Len(chan') = Len(chan) - 1
    BY <1>0, <2>1, TailSeq
  <2>3. \A v \in Workers : Len(got'[v]) <= Len(got[v]) + 1 /\ Len(got'[v]) \in Nat
    <3>1. Len(Append(got[w], Head(chan))) = Len(got[w]) + 1
      BY <1>0, <2>1, AppendSeq
    <3>2. ASSUME NEW v \in Workers
          PROVE  Len(got'[v]) <= Len(got[v]) + 1 /\ Len(got'[v]) \in Nat
      <4>1. Len(got[v]) \in Nat
        BY <1>0
      <4>2. got'[v] = got[v] \/ (v = w /\ got'[v] = Append(got[w], Head(chan)))
        <5>1. CASE got' = got
          BY <5>1
        <5>2. CASE got' = [got EXCEPT ![w] = Append(@, Head(chan))]
          BY <1>0, <5>2, Zenon
        <5> QED  BY <2>1, <5>1, <5>2
      <4> QED  BY <3>1, <4>1, <4>2
    <3> QED  BY <3>2
  <2>4. InHand' = InHand /\ InHand \in Nat
    BY <1>1, <2>1 DEF HandingOver
  <2>5. Len(accepted') <= MainFdRoom
    BY <2>1 DEF Room
  <2>6. ASSUME Lossless, NEW v \in Workers
        PROVE  Len(got'[v]) + Len(chan') + InHand' <= Len(accepted')
    <3>1. Len(got[v]) + Len(chan) + InHand <= Len(accepted)
      BY <2>6 DEF Room
    <3> QED  BY <1>0, <2>1, <2>2, <2>3, <2>4, <3>1
  <2> QED  BY <2>5, <2>6 DEF Room, Lossless
<1> QED  BY <1>2, <1>3, <1>4, <1>5, <1>6, <1>7, FlowStep

\* A dead child stays dead, and a child that was not forked does not move.
LEMMA ChildLifeStep ==
  ASSUME IInv, Born, [Next]_vars
  PROVE  Born' /\ \A v \in Workers : At(v, "dead") => At(v, "dead")'
<1>0. wpc \in [Workers -> WorkerPcs]
  BY DEF IInv, TypeOK, WorkerTypeOK
<1>1. CASE UNCHANGED <<wpc, forked>>
  BY <1>1 DEF Born, At
<1>2. ASSUME NEW w \in Workers, ForkChild(w)
      PROVE  Born' /\ \A v \in Workers : At(v, "dead") => At(v, "dead")'
  BY <1>0, <1>2 DEF ForkChild, Fork, Goto, Born, At
<1>3. ASSUME NEW w \in Workers, WorkerRuns(w) \/ WorkerFails(w), UNCHANGED masterVars
      PROVE  Born' /\ \A v \in Workers : At(v, "dead") => At(v, "dead")'
  <2>1. wpc[w] \notin {"none", "dead"} /\ \A v \in Workers \ {w} : wpc'[v] = wpc[v]
    BY <1>0, <1>3
    DEF WorkerRuns, WorkerFails, Start, WorkerWait, RecvFd, RecvFdFull, RecvAgain,
        RecvEof, RecvError, BeginRead, ReadSome, ReadEof, ReadAgain, Smash,
        ParseIncomplete, ParseComplete, ParseCrash, Respond, RespondDir, RespondCrash,
        WorkerQuits, AtPipe, AtOut, At, Goto, Proceed, BreakBatch, Die, ReturnFromRecv
  <2> QED  BY <1>3, <2>1 DEF Born, At, masterVars
<1>4. ASSUME MasterRuns \/ MasterFails PROVE UNCHANGED forked
  BY <1>4 DEF MasterRuns, MasterFails, SPipe, OpenListen, EpollWait, AcceptOne,
              AcceptNone, AcceptFails, WriteOk, RetryOk, RetryFails, ForkFails,
              ListenFails, WriteFails, MainQuits, Exit
<1> QED  BY <1>1, <1>2, <1>3, <1>4
         DEF Next, MainRuns, ChildRuns, workerVars, masterVars, vars

\* The strengthening holds initially.
LEMMA InitDeliveryInv == Init => DeliveryInv
<1> SUFFICES ASSUME Init PROVE DeliveryInv
  OBVIOUS
<1> USE DEF Init, NetInit, ChannelInit, MasterInit, WorkerInit
<1>1. Arrivals /\ NoRetry
  BY DEF Arrivals, Injective, NoRetry
<1>2. Known /\ Born
  BY DEF Known, Pending, InSeq, Born, At
<1>3. Room
  BY MasterAssumption DEF Room, InHand, Pending
<1> QED  BY <1>1, <1>2, <1>3 DEF DeliveryInv

\* Every step keeps the strengthening.
LEMMA NextDeliveryInv == IInv /\ DeliveryInv /\ [Next]_vars => DeliveryInv'
BY ArrivalsStep, KnownStep, NoRetryStep, RoomStep, ChildLifeStep DEF DeliveryInv

----------------------------------------------------------------------------
(* The theorems.                                                           *)

\* Every step keeps NothingLost.
LEMMA NothingLostStep ==
  ASSUME IInv, DeliveryInv, NothingLost, [Next]_vars
  PROVE  NothingLost'
<1>0. /\ chan \in Seq(Conns) /\ accepted \in Seq(Conns) /\ got \in [Workers -> Seq(Conns)]
      /\ backlog \in Seq(Conns) /\ (HandingOver => cur \in Conns)
  BY DEF IInv, TypeOK, NetTypeOK, ChannelTypeOK, MasterTypeOK, WorkerTypeOK,
         MainConsistent, HandingOver
<1> DEFINE Safe(x) == \/ HandingOver /\ x = cur
                      \/ mpc = "exited" /\ x = cur
                      \/ InSeq(x, chan)
                      \/ \E w \in Workers : InSeq(x, got[w])
                      \/ ~Lossless /\ \E w \in Workers : At(w, "dead")
<1>1. \A x : InSeq(x, accepted) => Safe(x)
  BY DEF NothingLost, InSeq, Pending, HandingOver
<1>2. SUFFICES \A x : InSeq(x, accepted') => Safe(x)'
  BY DEF NothingLost, InSeq, Pending, HandingOver, Lossless
<1>3. \A w \in Workers : At(w, "dead") => At(w, "dead")'
  BY ChildLifeStep DEF DeliveryInv
<1>4. CASE Idle
  BY <1>1, <1>3, <1>4 DEF Idle, Lossless
<1>5. CASE AcceptOne /\ UNCHANGED got
  <2>1. /\ chan' = chan /\ got' = got /\ cur' \in Conns /\ ~HandingOver /\ HandingOver'
        /\ accepted' = Append(accepted, cur') /\ mpc # "exited"
    BY <1>0, <1>5, TailSeq DEF AcceptOne, chanVars, HandingOver
  <2>2. \A x : InSeq(x, accepted') => InSeq(x, accepted) \/ x = cur'
    BY <1>0, <2>1, InSeqAppend
  <2> QED  BY <1>1, <1>3, <2>1, <2>2 DEF Lossless
<1>6. CASE (WriteOk \/ RetryOk) /\ UNCHANGED got
  <2>1. /\ chan' = Append(chan, cur) /\ got' = got /\ HandingOver /\ accepted' = accepted
        /\ mpc # "exited"
    BY <1>6 DEF WriteOk, RetryOk, Sock_fd_write, HandingOver
  <2>2. \A x : InSeq(x, chan') <=> InSeq(x, chan) \/ x = cur
    BY <1>0, <2>1, InSeqAppend
  <2> QED  BY <1>1, <1>3, <2>1, <2>2 DEF Lossless
<1>7. CASE mpc # "exited" /\ Exit /\ UNCHANGED got
  BY <1>1, <1>3, <1>7 DEF Exit, Lossless
<1>8. ASSUME NEW w \in Workers, RecvFd(w), UNCHANGED masterVars, NEW x, InSeq(x, accepted')
      PROVE  Safe(x)'
  <2>1. /\ chan # << >> /\ chan' = Tail(chan) /\ accepted' = accepted
        /\ mpc' = mpc /\ cur' = cur /\ Head(chan) \in Conns
        /\ got' = [got EXCEPT ![w] = Append(@, Head(chan))]
    BY <1>0, <1>8, TailSeq DEF RecvFd, Sock_fd_read, masterVars
  <2>2. \A y : InSeq(y, chan) => InSeq(y, chan') \/ InSeq(y, got'[w])
    BY <1>0, <2>1, InSeqTail, InSeqAppend
  <2>3. \A v \in Workers : \A y : InSeq(y, got[v]) => InSeq(y, got'[v])
    BY <1>0, <2>1, InSeqAppend
  <2> QED  BY <1>1, <1>3, <1>8, <2>1, <2>2, <2>3 DEF Lossless, HandingOver
<1>9. ASSUME NEW w \in Workers, RecvFdFull(w), UNCHANGED masterVars 
      PROVE  ~Lossless /\ At(w, "dead")'
  <2>1. chan # << >> /\ Len(got[w]) >= ChildFdRoom /\ At(w, "dead")'
    BY <1>9 DEF RecvFdFull, Sock_fd_read, Die, Goto, At, IInv, TypeOK, WorkerTypeOK
  <2>2. Len(chan) > 0 /\ Len(chan) \in Nat /\ Len(got[w]) \in Nat /\ Len(accepted) \in Nat
    BY <1>0, <2>1
  <2>3. ASSUME Lossless PROVE FALSE
    <3>1. Len(got[w]) + Len(chan) + InHand <= Len(accepted)
      BY <2>3 DEF DeliveryInv, Room
    <3>3. InHand \in Nat
      BY DEF InHand
    <3>2. Len(accepted) <= MainFdRoom
      BY DEF DeliveryInv, Room
    <3> QED  BY <2>1, <2>2, <3>1, <3>2, <3>3, MasterAssumption, WorkerAssumption,
       ServerAssumption
  <2> QED  BY <2>1, <2>3
<1> QED  BY <1>4, <1>5, <1>6, <1>7, <1>8, <1>9, FlowStep DEF Lossless

\* Nothing is lost before anything is accepted.
LEMMA InitNothingLost == Init => NothingLost
BY DEF Init, MasterInit, NothingLost

\* Whatever the number of children and connections, and whatever fails, an
\* accepted connection is in the channel, in a child, or in main's hands; it
\* can be lost only by the exit of main that was handing it over or, when
\* sendmsg() fails, along with a child.
THEOREM NoConnectionLost == Spec => []NothingLost
<1>1. Init => IInv /\ DeliveryInv /\ NothingLost
  BY InitIInv, InitDeliveryInv, InitNothingLost
<1>2. (IInv /\ DeliveryInv /\ NothingLost) /\ [Next]_vars
        => (IInv /\ DeliveryInv /\ NothingLost)'
  BY NextIInv, NextDeliveryInv, NothingLostStep
<1> QED  BY <1>1, <1>2, PTL DEF Spec

\* Room for main's descriptors is room for the child's.
LEMMA RoomImpliesHasRoom == IInv /\ DeliveryInv => ChildHasRoom
<1> SUFFICES ASSUME IInv, DeliveryInv, Lossless, NEW w \in Workers, chan # << >>
             PROVE  Len(got[w]) < ChildFdRoom
  BY DEF ChildHasRoom
<1>1. Len(chan) > 0 /\ Len(chan) \in Nat /\ Len(got[w]) \in Nat /\ Len(accepted) \in Nat
  BY DEF IInv, TypeOK, ChannelTypeOK, MasterTypeOK, WorkerTypeOK
<1>2. Len(got[w]) + Len(chan) + InHand <= Len(accepted)
  BY DEF DeliveryInv, Room
<1>3. Len(accepted) <= MainFdRoom
  BY DEF DeliveryInv, Room
<1>4. InHand \in Nat
  BY DEF InHand
<1> QED  BY <1>1, <1>2, <1>3, <1>4, MasterAssumption, WorkerAssumption, ServerAssumption

\* Main always runs out of descriptors before a child does.
THEOREM ChildrenHaveRoom == Spec => []ChildHasRoom
BY InitIInv, InitDeliveryInv, NextIInv, NextDeliveryInv, RoomImpliesHasRoom,
   PTL DEF Spec

\* Every step keeps ServedOnce.
LEMMA ServedOnceStep ==
  ASSUME IInv, DeliveryInv, ServedOnce, [Next]_vars
  PROVE  ServedOnce'
<1>0. /\ chan \in Seq(Conns) /\ accepted \in Seq(Conns) /\ got \in [Workers -> Seq(Conns)]
      /\ backlog \in Seq(Conns) /\ (HandingOver => cur \in Conns)
  BY DEF IInv, TypeOK, NetTypeOK, ChannelTypeOK, MasterTypeOK, WorkerTypeOK,
         MainConsistent, HandingOver
<1> DEFINE Once == /\ Injective(chan)
                   /\ \A w \in Workers : Injective(got[w])
                   /\ HandingOver => ~InSeq(cur, chan)
                   /\ \A w \in Workers : HandingOver => ~InSeq(cur, got[w])
                   /\ \A w \in Workers : \A x : InSeq(x, got[w]) => ~InSeq(x, chan)
                   /\ \A w, v \in Workers : \A x :
                         w # v /\ InSeq(x, got[w]) => ~InSeq(x, got[v])
<1>1. SUFFICES ASSUME Lossless PROVE Once'
  <2>1. ASSUME Once' PROVE ServedOnce'
    BY <2>1 DEF ServedOnce, Injective, InSeq, Pending, HandingOver
  <2>2. ASSUME ~Lossless PROVE ServedOnce'
    BY <2>2 DEF ServedOnce, Lossless
  <2> QED  BY <2>1, <2>2
<1>2. Once
  <2>1. Injective(chan) /\ \A w \in Workers : Injective(got[w])
    BY <1>1 DEF ServedOnce, Injective
  <2>2. HandingOver => ~InSeq(cur, chan) /\ \A w \in Workers : ~InSeq(cur, got[w])
    BY <1>1 DEF ServedOnce, InSeq, Pending, HandingOver
  <2>3. /\ \A w \in Workers : \A x : InSeq(x, got[w]) => ~InSeq(x, chan)
        /\ \A w, v \in Workers : \A x : w # v /\ InSeq(x, got[w]) => ~InSeq(x, got[v])
    BY <1>1 DEF ServedOnce, InSeq
  <2> QED  BY <2>1, <2>2, <2>3
<1>3. CASE Idle
  BY <1>2, <1>3 DEF Idle
<1>4. CASE AcceptOne /\ UNCHANGED got
  <2>1. /\ chan' = chan /\ got' = got /\ cur' = Head(backlog) /\ backlog # << >>
    BY <1>4 DEF AcceptOne, chanVars
  <2>2. ~InSeq(cur', accepted)
    BY <1>0, <2>1, TailSeq DEF DeliveryInv, Arrivals, InSeq
  <2>3. ~InSeq(cur', chan) /\ \A w \in Workers : ~InSeq(cur', got[w])
    BY <2>2 DEF DeliveryInv, Known, InSeq
  <2> QED  BY <1>2, <2>1, <2>3
<1>5. CASE WriteOk /\ UNCHANGED got
  <2>1. /\ chan' = Append(chan, cur) /\ got' = got /\ HandingOver /\ ~HandingOver'
    BY <1>5 DEF WriteOk, Sock_fd_write, HandingOver
  <2>2. Injective(chan') /\ \A x : InSeq(x, chan') <=> InSeq(x, chan) \/ x = cur
    BY <1>0, <1>2, <2>1, InSeqAppend, InjectiveAppend
  <2> QED  BY <1>2, <2>1, <2>2
<1>6. CASE RetryOk /\ UNCHANGED got
  BY <1>1, <1>6 DEF RetryOk, DeliveryInv, NoRetry
<1>7. CASE mpc # "exited" /\ Exit /\ UNCHANGED got
  BY <1>2, <1>7 DEF Exit, HandingOver
<1>8. ASSUME NEW w \in Workers, RecvFd(w) \/ RecvFdFull(w), UNCHANGED masterVars
      PROVE  Once'
  <2>1. /\ chan # << >> /\ chan' = Tail(chan) /\ cur' = cur
        /\ mpc' = mpc /\ Head(chan) \in Conns
        /\ got' = got \/ got' = [got EXCEPT ![w] = Append(@, Head(chan))]
    BY <1>0, <1>8, TailSeq DEF RecvFd, RecvFdFull, Sock_fd_read, masterVars
  <2>2. /\ Injective(chan') /\ ~InSeq(Head(chan), chan')
        /\ \A x : InSeq(x, chan') => InSeq(x, chan)
        /\ InSeq(Head(chan), chan)
    BY <1>0, <1>2, <2>1, InjectiveTail, InSeqTail
  <2>3. \A v \in Workers : ~InSeq(Head(chan), got[v])
    BY <1>2, <2>2
  <2>4. CASE got' = got
    BY <1>2, <2>1, <2>2, <2>4 DEF HandingOver
  <2>5. CASE got' = [got EXCEPT ![w] = Append(@, Head(chan))]
    <3>1. /\ Injective(got'[w])
          /\ \A x : InSeq(x, got'[w]) <=> InSeq(x, got[w]) \/ x = Head(chan)
          /\ \A v \in Workers \ {w} : got'[v] = got[v]
      BY <1>0, <1>2, <2>1, <2>3, <2>5, InSeqAppend, InjectiveAppend
    <3>2. HandingOver' = HandingOver /\ (HandingOver => cur # Head(chan))
      BY <1>2, <2>1, <2>2 DEF HandingOver
    <3> QED  BY <1>2, <2>1, <2>2, <2>3, <3>1, <3>2, ZenonT(40)
  <2> QED  BY <2>1, <2>4, <2>5
<1> QED  BY <1>3, <1>4, <1>5, <1>6, <1>7, <1>8, FlowStep

\* No connection is held twice initially.
LEMMA InitServedOnce == Init => ServedOnce
BY DEF Init, ChannelInit, MasterInit, WorkerInit, ServedOnce, InSeq, Pending

\* As long as sendmsg() does not fail, no connection is ever in two places:
\* twice in the channel, in two children, or in a child and in main's hands.
THEOREM EachConnectionServedOnce == Spec => []ServedOnce
<1>1. Init => IInv /\ DeliveryInv /\ ServedOnce
  BY InitIInv, InitDeliveryInv, InitServedOnce
<1>2. (IInv /\ DeliveryInv /\ ServedOnce) /\ [Next]_vars
        => (IInv /\ DeliveryInv /\ ServedOnce)'
  BY NextIInv, NextDeliveryInv, ServedOnceStep
<1> QED  BY <1>1, <1>2, PTL DEF Spec

\* Every step of the server is a step of Delivery or leaves it unchanged.
LEMMA DeliveryStep ==
  ASSUME IInv, DeliveryInv, [Next]_vars
  PROVE  [D!Next]_(D!vars)
<1>0. /\ chan \in Seq(Conns) /\ accepted \in Seq(Conns) /\ got \in [Workers -> Seq(Conns)]
      /\ backlog \in Seq(Conns) /\ (HandingOver => cur \in Conns)
  BY DEF IInv, TypeOK, NetTypeOK, ChannelTypeOK, MasterTypeOK, WorkerTypeOK,
         MainConsistent, HandingOver
<1>1. /\ Queue = IF HandingOver THEN Append(chan, cur) ELSE chan
      /\ Queue' = IF HandingOver' THEN Append(chan', cur') ELSE chan'
  BY DEF Queue, HandingOver
<1>2. CASE Idle
  BY <1>1, <1>2 DEF Idle, D!vars
<1>3. CASE AcceptOne /\ UNCHANGED got
  <2>1. /\ chan' = chan /\ got' = got /\ cur' = Head(backlog) /\ backlog # << >>
        /\ ~HandingOver /\ HandingOver' /\ accepted' = Append(accepted, cur')
        /\ mpc # "exited" /\ mpc' # "exited" /\ cur' \in Conns
    BY <1>0, <1>3, TailSeq DEF AcceptOne, chanVars, HandingOver
  <2>2. ~InSeq(cur', accepted)
    BY <1>0, <2>1, TailSeq DEF DeliveryInv, Arrivals, InSeq
  <2>3. \A i \in 1..Len(accepted) : accepted[i] # cur'
    BY <1>0, <2>2 DEF InSeq
  <2>4. D!Accept(cur')
    BY <1>1, <2>1, <2>3 DEF D!Accept
  <2> QED  BY <2>1, <2>4 DEF D!Next
<1>4. CASE WriteOk /\ UNCHANGED got
  <2>1. /\ chan' = Append(chan, cur) /\ got' = got /\ HandingOver /\ ~HandingOver'
        /\ accepted' = accepted /\ mpc # "exited" /\ mpc' # "exited"
    BY <1>4 DEF WriteOk, Sock_fd_write, HandingOver
  <2> QED  BY <1>1, <2>1 DEF D!vars
<1>5. CASE RetryOk /\ UNCHANGED got
  <2>1. /\ chan' = Append(chan, cur) /\ got' = got /\ HandingOver /\ HandingOver'
        /\ accepted' = accepted /\ mpc # "exited" /\ mpc' # "exited" /\ cur' = cur
    BY <1>5 DEF RetryOk, Sock_fd_write, HandingOver
  <2>2. ~Lossless
    BY <1>5 DEF RetryOk, DeliveryInv, NoRetry
  <2>3. Queue # << >> /\ Queue[Len(Queue)] = cur
    <3>1. Queue = Append(chan, cur) /\ cur \in Conns
      BY <1>0, <1>1, <2>1
    <3>2. /\ Append(chan, cur) \in Seq(Conns)
          /\ Len(Append(chan, cur)) = Len(chan) + 1 /\ Len(chan) \in Nat
          /\ Append(chan, cur)[Len(chan) + 1] = cur
      BY <1>0, <3>1
    <3>3. Append(chan, cur) # << >>
      BY <3>2, LongIsNotEmpty
    <3> QED  BY <3>1, <3>2, <3>3
  <2>4. Queue' = Append(Queue, Queue[Len(Queue)])
    BY <1>1, <2>1, <2>3
  <2>5. D!QueueAgain
    BY <2>1, <2>2, <2>3, <2>4 DEF D!QueueAgain
  <2> QED  BY <2>5 DEF D!Next
<1>6. CASE mpc # "exited" /\ Exit /\ UNCHANGED got
  <2>1. /\ chan' = chan /\ got' = got /\ accepted' = accepted /\ mpc # "exited"
        /\ mpc' = "exited" /\ ~HandingOver'
    BY <1>6 DEF Exit, HandingOver
  <2>2. CASE ~HandingOver
    BY <1>1, <2>1, <2>2 DEF D!Next, D!Halt
  <2>3. CASE HandingOver
    <3>1. Queue # << >> /\ Queue' = SubSeq(Queue, 1, Len(Queue) - 1)
      <4>1. Queue = Append(chan, cur) /\ Queue' = chan
        BY <1>1, <2>1, <2>3
      <4>2. Len(Append(chan, cur)) - 1 = Len(chan)
        BY <1>0, <2>3
      <4>3. SubSeq(Append(chan, cur), 1, Len(chan)) = chan
        BY <1>0, <2>3
      <4>4. Queue # << >>
        <5>1. /\ Append(chan, cur) \in Seq(Conns)
              /\ Len(Append(chan, cur)) = Len(chan) + 1 /\ Len(chan) \in Nat
          BY <1>0, <2>3
        <5> QED  BY <4>1, <5>1, LongIsNotEmpty
      <4> QED  BY <4>1, <4>2, <4>3, <4>4
    <3> QED  BY <2>1, <3>1 DEF D!Next, D!Halt
  <2> QED  BY <2>2, <2>3
<1>7. ASSUME NEW w \in Workers, RecvFd(w) \/ RecvFdFull(w), UNCHANGED masterVars
      PROVE  [D!Next]_(D!vars)
  <2>1. /\ chan # << >> /\ chan' = Tail(chan) /\ cur' = cur /\ accepted' = accepted
        /\ mpc' = mpc /\ Head(chan) \in Conns
    BY <1>0, <1>7, TailSeq DEF RecvFd, RecvFdFull, Sock_fd_read, masterVars
  <2>2. Queue # << >> /\ Head(Queue) = Head(chan) /\ Queue' = Tail(Queue)
    <3>1. CASE ~HandingOver
      BY <1>1, <2>1, <3>1 DEF HandingOver
    <3>2. CASE HandingOver
      <4>1. Queue = Append(chan, cur) /\ Queue' = Append(Tail(chan), cur)
        BY <1>1, <2>1, <3>2 DEF HandingOver
      <4>2. Tail(Append(chan, cur)) = Append(Tail(chan), cur)
        BY <1>0, <2>1, <3>2, TailOfAppend
      <4>3. Head(Append(chan, cur)) = Head(chan) /\ Append(chan, cur) # << >>
        BY <1>0, <2>1, <3>2, HeadOfAppend
      <4> QED  BY <4>1, <4>2, <4>3
    <3> QED  BY <3>1, <3>2
  <2>3. CASE RecvFd(w)
    <3>1. got' = [got EXCEPT ![w] = Append(@, Head(chan))]
      BY <2>3 DEF RecvFd
    <3>2. D!Deliver(w)
      BY <2>1, <2>2, <3>1 DEF D!Deliver
    <3> QED  BY <3>2 DEF D!Next
  <2>4. CASE RecvFdFull(w)
    <3>1. ~Lossless
      <4>1. Lossless => Len(got[w]) < ChildFdRoom
        BY <2>1, RoomImpliesHasRoom DEF ChildHasRoom
      <4>2. Len(got[w]) \in Nat /\ Len(got[w]) >= ChildFdRoom
        BY <1>0, <2>4 DEF RecvFdFull
      <4> QED  BY <4>1, <4>2, WorkerAssumption
    <3>2. got' = got
      BY <2>4 DEF RecvFdFull
    <3>3. D!Drop
      BY <2>1, <2>2, <3>1, <3>2 DEF D!Drop
    <3> QED  BY <3>3 DEF D!Next
  <2> QED  BY <1>7, <2>3, <2>4
<1> QED  BY <1>2, <1>3, <1>4, <1>5, <1>6, <1>7, FlowStep

\* Main and the children implement the queue of module Delivery, whatever the
\* interleaving and whatever fails.
THEOREM DeliveryImplemented == Spec => ImplementsDelivery
<1>1. Init => D!Init
  BY DEF Init, ChannelInit, MasterInit, WorkerInit, D!Init, Queue
<1>2. Spec => [](IInv /\ DeliveryInv)
  <2>1. Init => IInv /\ DeliveryInv
    BY InitIInv, InitDeliveryInv
  <2>2. (IInv /\ DeliveryInv) /\ [Next]_vars => (IInv /\ DeliveryInv)'
    BY NextIInv, NextDeliveryInv
  <2> QED  BY <2>1, <2>2, PTL DEF Spec
<1>3. IInv /\ DeliveryInv /\ [Next]_vars => [D!Next]_(D!vars)
  BY DeliveryStep
<1> QED  BY <1>1, <1>2, <1>3, PTL DEF Spec, ImplementsDelivery, D!Spec

----------------------------------------------------------------------------
(* Requests and the process table.                                         *)

\* Which steps change a buffer, the tables of a child or the bytes read.
LEMMA BufferStep ==
  ASSUME [Next]_vars
  PROVE  \/ UNCHANGED <<got, rcvd, taken>>
         \/ \E w \in Workers : RecvFd(w)
         \/ \E w \in Workers : ReadSome(w)
<1>1. CASE ClientStep /\ UNCHANGED <<chanVars, masterVars, workerVars>>
  BY <1>1 DEF ClientStep, Connect, ClientSend, ClientShutdown, workerVars
<1>2. CASE (MasterRuns \/ MasterFails) /\ UNCHANGED workerVars
  BY <1>2 DEF MasterRuns, MasterFails, SPipe, OpenListen, EpollWait, AcceptOne,
              AcceptNone, AcceptFails, WriteOk, RetryOk, RetryFails, ForkFails,
              ListenFails, WriteFails, MainQuits, Exit, workerVars, netVars
<1>3. ASSUME NEW w \in Workers, ForkChild(w) PROVE UNCHANGED <<got, rcvd, taken>>
  BY <1>3 DEF ForkChild, Fork, netVars
<1>4. ASSUME NEW w \in Workers, WorkerRuns(w) \/ WorkerFails(w),
             ~RecvFd(w), ~ReadSome(w)
      PROVE  UNCHANGED <<got, rcvd, taken>>
  BY <1>4
  DEF netVars, WorkerRuns, WorkerFails, Start, WorkerWait, RecvFdFull, RecvAgain,
      RecvEof, RecvError, BeginRead, ReadEof, ReadAgain, Smash, ParseIncomplete,
      ParseComplete, ParseCrash, Respond, RespondDir, RespondCrash, WorkerQuits
<1>5. CASE UNCHANGED vars
  BY <1>5 DEF vars, netVars, workerVars
<1> QED  BY <1>1, <1>2, <1>3, <1>4, <1>5 DEF Next, MainRuns, ChildRuns

\* The tables of the children, as the invariant types them.
LEMMA BufferTypes ==
  ASSUME IInv
  PROVE  /\ got \in [Workers -> Seq(Conns)] /\ taken \in [Conns -> 0..ReqLen]
         /\ rcvd \in [Workers -> Seq(Seq(1..ReqLen))]
         /\ reg \in [Workers -> Seq(Event)]
         /\ \A w \in Workers : /\ DOMAIN rcvd[w] = DOMAIN got[w]
                               /\ DOMAIN reg[w] = DOMAIN got[w]
                               /\ \A k \in DOMAIN got[w] : got[w][k] \in Conns
BY DEF IInv, TypeOK, NetTypeOK, WorkerTypeOK, ChildrenConsistent, ChildConsistent

\* A descriptor arrives: an empty buffer behind the others.
LEMMA RecvFdEffect ==
  ASSUME IInv, NEW w \in Workers, RecvFd(w)
  PROVE  /\ taken' = taken /\ chan # << >> /\ Head(chan) \in Conns
         /\ InSeq(Head(chan), chan)
         /\ \A v \in Workers \ {w} : got'[v] = got[v] /\ rcvd'[v] = rcvd[v]
         /\ \A k \in DOMAIN got'[w] :
              \/ k \in DOMAIN got[w] /\ got'[w][k] = got[w][k] /\ rcvd'[w][k] = rcvd[w][k]
              \/ got'[w][k] = Head(chan) /\ rcvd'[w][k] = << >> /\ k \notin DOMAIN got[w]
         /\ \A k \in DOMAIN got[w] :
              /\ k \in DOMAIN got'[w]
              /\ got'[w][k] = got[w][k] /\ rcvd'[w][k] = rcvd[w][k]
<1>1. /\ got' = [got EXCEPT ![w] = Append(got[w], Head(chan))]
      /\ rcvd' = [rcvd EXCEPT ![w] = Append(rcvd[w], << >>)]
      /\ taken' = taken /\ chan # << >>
  BY DEF RecvFd, Sock_fd_read, netVars
<1>2. /\ chan \in Seq(Conns) /\ got[w] \in Seq(Conns)
      /\ rcvd[w] \in Seq(Seq(1..ReqLen)) /\ Len(rcvd[w]) = Len(got[w])
  BY DEF IInv, TypeOK, ChannelTypeOK, WorkerTypeOK, ChildrenConsistent, ChildConsistent
<1>3. Head(chan) \in Conns /\ InSeq(Head(chan), chan)
  BY <1>1, <1>2, TailSeq, InSeqTail
<1>4. got'[w] = Append(got[w], Head(chan)) /\ rcvd'[w] = Append(rcvd[w], << >>)
  BY <1>1, BufferTypes
<1>5. \A v \in Workers \ {w} : got'[v] = got[v] /\ rcvd'[v] = rcvd[v]
  BY <1>1, BufferTypes
<1>6. \A k \in DOMAIN got'[w] :
        \/ k \in DOMAIN got[w] /\ got'[w][k] = got[w][k] /\ rcvd'[w][k] = rcvd[w][k]
        \/ got'[w][k] = Head(chan) /\ rcvd'[w][k] = << >> /\ k \notin DOMAIN got[w]
  BY <1>2, <1>3, <1>4
<1>7. \A k \in DOMAIN got[w] : /\ k \in DOMAIN got'[w]
                               /\ got'[w][k] = got[w][k] /\ rcvd'[w][k] = rcvd[w][k]
  BY <1>2, <1>3, <1>4
<1> QED  BY <1>1, <1>3, <1>5, <1>6, <1>7

\* What a buffer s becomes by n units behind the first t of the connection.
Grows(s, r, t, n) ==
  /\ Units(r) = Units(s) \cup (t + 1)..(t + n)
  /\ Increasing(s) /\ Units(s) \subseteq 1..t => Increasing(r)
  /\ s = Upto(t) => r = Upto(t + n)

LEMMA PieceAppended ==
  ASSUME NEW s \in Seq(Nat), NEW t \in Nat, NEW n \in Nat
  PROVE  Grows(s, s \o [i \in 1..n |-> t + i], t, n)
<1> DEFINE p == [i \in 1..n |-> t + i]
           r == s \o p
<1>1. p \in Seq(Nat) /\ Len(p) = n /\ Len(s) \in Nat /\ \A i \in 1..n : p[i] = t + i
  OBVIOUS
<1> HIDE DEF p
<1>2. /\ r \in Seq(Nat) /\ Len(r) = Len(s) + n
      /\ \A i \in 1..(Len(s) + n) : r[i] = IF i <= Len(s) THEN s[i] ELSE p[i - Len(s)]
  BY <1>1, ConcatProperties
<1> HIDE DEF r
<1>3. /\ DOMAIN r = 1..(Len(s) + n) /\ DOMAIN s = 1..Len(s)
      /\ \A i \in 1..Len(s) : i \in DOMAIN r /\ r[i] = s[i]
  BY <1>1, <1>2
<1>4. \A i \in DOMAIN r : i > Len(s) => i - Len(s) \in 1..n /\ r[i] = t + (i - Len(s))
  BY <1>1, <1>2, <1>3
<1>5. Units(r) = Units(s) \cup (t + 1)..(t + n)
  <2>1. ASSUME NEW x \in Units(r) PROVE x \in Units(s) \cup (t + 1)..(t + n)
    <3>1. PICK i \in DOMAIN r : x = r[i]
      BY <2>1 DEF Units
    <3>2. CASE i <= Len(s)
      BY <1>1, <1>3, <3>1, <3>2 DEF Units
    <3>3. CASE i > Len(s)
      BY <1>4, <3>1, <3>3
    <3> QED  BY <1>1, <1>3, <3>2, <3>3
  <2>2. ASSUME NEW x \in Units(s) PROVE x \in Units(r)
    BY <1>3, <2>2 DEF Units
  <2>3. ASSUME NEW x \in (t + 1)..(t + n) PROVE x \in Units(r)
    <3>1. (x - t) + Len(s) \in DOMAIN r /\ (x - t) + Len(s) > Len(s)
          /\ t + (((x - t) + Len(s)) - Len(s)) = x
      BY <1>1, <1>3
    <3>2. r[(x - t) + Len(s)] = x
      BY <1>4, <3>1
    <3> QED  BY <3>1, <3>2 DEF Units
  <2> QED  BY <2>1, <2>2, <2>3
<1>6. ASSUME Increasing(s), Units(s) \subseteq 1..t PROVE Increasing(r)
  <2> SUFFICES ASSUME NEW i \in DOMAIN r, NEW j \in DOMAIN r, i < j PROVE r[i] < r[j]
    BY DEF Increasing
  <2>1. CASE j <= Len(s)
    <3>1. i \in DOMAIN s /\ j \in DOMAIN s
      BY <1>1, <1>3, <2>1
    <3> QED  BY <1>3, <1>6, <3>1 DEF Increasing
  <2>2. CASE i <= Len(s) /\ j > Len(s)
    <3>1. i \in DOMAIN s
      BY <1>1, <1>3, <2>2
    <3>2. s[i] \in 1..t /\ r[i] = s[i]
      BY <1>3, <1>6, <3>1 DEF Units
    <3>3. j - Len(s) \in 1..n /\ r[j] = t + (j - Len(s))
      BY <1>4, <2>2
    <3> QED  BY <3>2, <3>3
  <2>3. CASE i > Len(s)
    <3>1. r[i] = t + (i - Len(s)) /\ r[j] = t + (j - Len(s))
      BY <1>1, <1>3, <1>4, <2>3
    <3> QED  BY <1>1, <1>3, <3>1
  <2> QED  BY <1>1, <1>3, <2>1, <2>2, <2>3
<1>7. ASSUME s = Upto(t) PROVE r = Upto(t + n)
  <2>1. Len(s) = t /\ \A i \in 1..t : s[i] = i
    BY <1>7 DEF Upto
  <2>2. Upto(t + n) \in Seq(Nat) /\ Len(Upto(t + n)) = t + n
        /\ \A i \in 1..(t + n) : Upto(t + n)[i] = i
    BY DEF Upto
  <2>3. \A i \in 1..(t + n) : r[i] = i
    BY <1>3, <1>4, <2>1
  <2> QED  BY <1>2, <2>1, <2>2, <2>3, SeqEqual
<1> QED  BY <1>5, <1>6, <1>7 DEF Grows, r, p

\* read() moves the next n units of a connection into the current buffer.
LEMMA ReadSomeEffect ==
  ASSUME IInv, NEW w \in Workers, ReadSome(w)
  PROVE  \E n \in Nat :
           LET c == curc(w)
               k == curk(w)
           IN  /\ c \in Conns /\ k \in DOMAIN got[w] /\ c = got[w][k]
               /\ got' = got /\ reg' = reg
               /\ taken[c] \in Nat /\ taken' = [taken EXCEPT ![c] = taken[c] + n]
               /\ Grows(rcvd[w][k], rcvd'[w][k], taken[c], n)
               /\ \A j \in DOMAIN got[w] : j # k => rcvd'[w][j] = rcvd[w][j]
               /\ \A v \in Workers \ {w} : rcvd'[v] = rcvd[v]
<1> DEFINE c == curc(w)
           k == curk(w)
           n == Smaller(avail(c), nleft[w])
<1>1. c \in Conns /\ k \in DOMAIN rcvd[w] /\ k \in DOMAIN got[w] /\ c = got[w][k]
  BY CurrentSocket, BufferTypes DEF ReadSome, At, curc
<1>2. /\ sent[c] \in Nat /\ taken[c] \in Nat /\ nleft[w] \in Nat /\ sent[c] - taken[c] > 0
  BY <1>1, WorkerAssumption, NetAssumption
  DEF IInv, TypeOK, ReadSome, NetTypeOK, WorkerTypeOK, avail
<1>3. n \in Nat
  BY <1>2 DEF Smaller, avail
<1>4. /\ taken' = [taken EXCEPT ![c] = taken[c] + n]
      /\ rcvd' = [rcvd EXCEPT ![w] = [rcvd[w] EXCEPT ![k] =
                    rcvd[w][k] \o [i \in 1..n |-> taken[c] + i]]]
      /\ got' = got /\ reg' = reg
  BY DEF ReadSome, Piece
<1> HIDE DEF n, c, k
<1>5. /\ rcvd'[w][k] = rcvd[w][k] \o [i \in 1..n |-> taken[c] + i]
      /\ \A j \in DOMAIN got[w] : j # k => rcvd'[w][j] = rcvd[w][j]
      /\ \A v \in Workers \ {w} : rcvd'[v] = rcvd[v]
  BY <1>1, <1>4, BufferTypes
<1>7. Grows(rcvd[w][k], rcvd'[w][k], taken[c], n)
  <2>1. rcvd[w][k] \in Seq(1..ReqLen) /\ 1..ReqLen \subseteq Nat
    BY <1>1, BufferTypes
  <2>2. rcvd[w][k] \in Seq(Nat)
    BY <2>1, SeqMonotonic
  <2> QED  BY <1>2, <1>3, <1>5, <2>2, PieceAppended
<1>6. /\ c \in Conns /\ k \in DOMAIN got[w] /\ c = got[w][k]
      /\ got' = got /\ reg' = reg
      /\ taken[c] \in Nat /\ taken' = [taken EXCEPT ![c] = taken[c] + n]
      /\ Grows(rcvd[w][k], rcvd'[w][k], taken[c], n)
      /\ \A j \in DOMAIN got[w] : j # k => rcvd'[w][j] = rcvd[w][j]
      /\ \A v \in Workers \ {w} : rcvd'[v] = rcvd[v]
  BY <1>1, <1>2, <1>4, <1>5, <1>7
<1> QED  BY <1>3, <1>6 DEF c, k

----------------------------------------------------------------------------
(* Bytes.                                                                  *)

\* Every step keeps BytesReadOnce.
LEMMA BytesReadOnceStep ==
  ASSUME IInv, BytesReadOnce, [Next]_vars
  PROVE  BytesReadOnce'
<1> USE BufferTypes
<1>1. CASE UNCHANGED <<got, rcvd, taken>>
  BY <1>1 DEF BytesReadOnce
<1>2. ASSUME NEW w \in Workers, RecvFd(w) PROVE BytesReadOnce'
  <2> SUFFICES ASSUME NEW u \in Workers, NEW v \in Workers,
                      NEW j \in DOMAIN got'[u], NEW k \in DOMAIN got'[v]
               PROVE  /\ Increasing(rcvd'[u][j])
                      /\ Units(rcvd'[u][j]) \subseteq 1..taken'[got'[u][j]]
                      /\ got'[u][j] = got'[v][k] /\ <<u, j>> # <<v, k>>
                           => Units(rcvd'[u][j]) \cap Units(rcvd'[v][k]) = {}
    BY DEF BytesReadOnce
  <2>1. taken' = taken
    BY <1>2, RecvFdEffect
  <2>2. \/ j \in DOMAIN got[u] /\ got'[u][j] = got[u][j] /\ rcvd'[u][j] = rcvd[u][j]
        \/ rcvd'[u][j] = << >>
    BY <1>2, RecvFdEffect
  <2>3. \/ k \in DOMAIN got[v] /\ got'[v][k] = got[v][k] /\ rcvd'[v][k] = rcvd[v][k]
        \/ rcvd'[v][k] = << >>
    BY <1>2, RecvFdEffect
  <2>4. Units(<< >>) = {} /\ Increasing(<< >>)
    BY DEF Units, Increasing
  <2> QED  BY <2>1, <2>2, <2>3, <2>4 DEF BytesReadOnce
<1>3. ASSUME NEW w \in Workers, ReadSome(w) PROVE BytesReadOnce'
  <2> DEFINE c == curc(w)
             x == curk(w)
  <2>1. PICK n \in Nat :
          /\ c \in Conns /\ x \in DOMAIN got[w] /\ c = got[w][x]
          /\ got' = got
          /\ taken[c] \in Nat /\ taken' = [taken EXCEPT ![c] = taken[c] + n]
          /\ Grows(rcvd[w][x], rcvd'[w][x], taken[c], n)
          /\ \A j \in DOMAIN got[w] : j # x => rcvd'[w][j] = rcvd[w][j]
          /\ \A v \in Workers \ {w} : rcvd'[v] = rcvd[v]
    BY <1>3, ReadSomeEffect
  <2> HIDE DEF c, x
  <2>2. /\ taken'[c] = taken[c] + n
        /\ \A d \in Conns : taken[d] \in Nat /\ taken'[d] \in Nat /\ taken[d] <= taken'[d]
    BY <2>1
  <2>3. \A v \in Workers : \A k \in DOMAIN got[v] :
           /\ Units(rcvd[v][k]) \subseteq 1..taken[got[v][k]] /\ Increasing(rcvd[v][k])
           /\ <<v, k>> # <<w, x>> => rcvd'[v][k] = rcvd[v][k]
    BY <2>1 DEF BytesReadOnce
  <2>4. ASSUME NEW v \in Workers, NEW k \in DOMAIN got[v]
        PROVE  /\ Units(rcvd'[v][k]) \subseteq 1..taken'[got[v][k]]
               /\ Increasing(rcvd'[v][k])
    <3>1. got[v][k] \in Conns
      OBVIOUS
    <3>2. CASE <<v, k>> = <<w, x>>
      <4>1. Units(rcvd[w][x]) \subseteq 1..taken[c] /\ Increasing(rcvd[w][x])
        BY <2>1, <2>3
      <4> QED  BY <2>1, <2>2, <3>2, <4>1 DEF Grows
    <3>3. CASE <<v, k>> # <<w, x>>
      <4>1. rcvd'[v][k] = rcvd[v][k] /\ Increasing(rcvd[v][k])
            /\ Units(rcvd[v][k]) \subseteq 1..taken[got[v][k]]
        BY <2>3, <3>3
      <4>2. 1..taken[got[v][k]] \subseteq 1..taken'[got[v][k]]
        BY <2>2, <3>1
      <4> QED  BY <4>1, <4>2
    <3> QED  BY <3>2, <3>3
  <2>5. ASSUME NEW v \in Workers, NEW k \in DOMAIN got[v], got[v][k] = c,
               <<v, k>> # <<w, x>>
        PROVE  Units(rcvd'[w][x]) \cap Units(rcvd'[v][k]) = {}
    <3>1. Units(rcvd[v][k]) \subseteq 1..taken[c] /\ rcvd'[v][k] = rcvd[v][k]
      BY <2>3, <2>5
    <3>2. Units(rcvd[w][x]) \cap Units(rcvd[v][k]) = {}
      BY <2>1, <2>5 DEF BytesReadOnce
    <3> QED  BY <2>1, <3>1, <3>2 DEF Grows
  <2>6. ASSUME NEW u \in Workers, NEW v \in Workers,
               NEW j \in DOMAIN got[u], NEW k \in DOMAIN got[v],
               got[u][j] = got[v][k], <<u, j>> # <<v, k>>
        PROVE  Units(rcvd'[u][j]) \cap Units(rcvd'[v][k]) = {}
    <3>1. CASE <<u, j>> = <<w, x>>
      BY <2>1, <2>5, <2>6, <3>1
    <3>2. CASE <<v, k>> = <<w, x>>
      BY <2>1, <2>5, <2>6, <3>2
    <3>3. CASE <<u, j>> # <<w, x>> /\ <<v, k>> # <<w, x>>
      BY <2>3, <2>6, <3>3 DEF BytesReadOnce
    <3> QED  BY <3>1, <3>2, <3>3
  <2> QED  BY <2>1, <2>4, <2>6 DEF BytesReadOnce
<1> QED  BY <1>1, <1>2, <1>3, BufferStep

\* Every step keeps BufferIsStream, because a connection that arrives at a
\* child was never read and one that is read is in no other buffer.
LEMMA BufferIsStreamStep ==
  ASSUME IInv, ServedOnce, BufferIsStream, [Next]_vars
  PROVE  BufferIsStream'
<1> USE BufferTypes
<1>1. SUFFICES ASSUME Lossless
               PROVE  /\ \A v \in Workers : \A k \in DOMAIN got'[v] :
                           rcvd'[v][k] = Upto(taken'[got'[v][k]])
                      /\ \A d \in Conns : (\A v \in Workers : ~InSeq(d, got'[v]))
                                            => taken'[d] = 0
  BY DEF BufferIsStream, Lossless, InSeq
<1>2. /\ \A v \in Workers : \A k \in DOMAIN got[v] : rcvd[v][k] = Upto(taken[got[v][k]])
      /\ \A d \in Conns : (\A v \in Workers : ~InSeq(d, got[v])) => taken[d] = 0
  BY <1>1 DEF BufferIsStream
<1>3. CASE UNCHANGED <<got, rcvd, taken>>
  BY <1>2, <1>3
<1>4. CASE \E w \in Workers : RecvFd(w)
  <2>0. PICK w \in Workers : RecvFd(w)
    BY <1>4
  <2>1. \A v \in Workers : ~InSeq(Head(chan), got[v])
    BY <1>1, <2>0, RecvFdEffect DEF ServedOnce, InSeq
  <2>2. taken[Head(chan)] = 0 /\ taken' = taken
    BY <1>2, <2>0, <2>1, RecvFdEffect
  <2>3. \A v \in Workers : \A k \in DOMAIN got'[v] :
          rcvd'[v][k] = Upto(taken'[got'[v][k]])
    <3> SUFFICES ASSUME NEW v \in Workers, NEW k \in DOMAIN got'[v]
                 PROVE  rcvd'[v][k] = Upto(taken'[got'[v][k]])
      OBVIOUS
    <3>1. \/ k \in DOMAIN got[v] /\ got'[v][k] = got[v][k] /\ rcvd'[v][k] = rcvd[v][k]
          \/ got'[v][k] = Head(chan) /\ rcvd'[v][k] = << >>
      <4>1. CASE v = w
        BY <2>0, <4>1, RecvFdEffect
      <4>2. CASE v # w
        BY <2>0, <4>2, RecvFdEffect
      <4> QED  BY <4>1, <4>2
    <3>2. Upto(0) = << >>
      BY DEF Upto
    <3> QED  BY <1>2, <2>2, <3>1, <3>2
  <2>4. \A v \in Workers, d \in Conns : InSeq(d, got[v]) => InSeq(d, got'[v])
    <3> SUFFICES ASSUME NEW v \in Workers, NEW d \in Conns, NEW i \in DOMAIN got[v],
                        got[v][i] = d
                 PROVE  i \in DOMAIN got'[v] /\ got'[v][i] = d
      BY DEF InSeq
    <3>1. CASE v = w
      BY <2>0, <3>1, RecvFdEffect
    <3>2. CASE v # w
      BY <2>0, <3>2, RecvFdEffect
    <3> QED  BY <3>1, <3>2
  <2> QED  BY <1>2, <2>2, <2>3, <2>4
<1>5. CASE \E w \in Workers : ReadSome(w)
  <2>0. PICK w \in Workers : ReadSome(w)
    BY <1>5
  <2> DEFINE c == curc(w)
             x == curk(w)
  <2>1. PICK n \in Nat :
          /\ c \in Conns /\ x \in DOMAIN got[w] /\ c = got[w][x]
          /\ got' = got
          /\ taken[c] \in Nat /\ taken' = [taken EXCEPT ![c] = taken[c] + n]
          /\ Grows(rcvd[w][x], rcvd'[w][x], taken[c], n)
          /\ \A j \in DOMAIN got[w] : j # x => rcvd'[w][j] = rcvd[w][j]
          /\ \A v \in Workers \ {w} : rcvd'[v] = rcvd[v]
    BY <2>0, ReadSomeEffect
  <2> HIDE DEF c, x
  <2>2. \A v \in Workers : \A k \in DOMAIN got[v] : got[v][k] = c => v = w /\ k = x
    BY <1>1, <2>1 DEF ServedOnce, InSeq
  <2>3. rcvd'[w][x] = Upto(taken'[c])
    <3>1. rcvd[w][x] = Upto(taken[c]) /\ taken'[c] = taken[c] + n
      BY <1>2, <2>1
    <3> QED  BY <2>1, <3>1 DEF Grows
  <2>4. ASSUME NEW v \in Workers, NEW k \in DOMAIN got[v], got[v][k] # c
        PROVE  rcvd'[v][k] = Upto(taken'[got[v][k]])
    <3>1. taken'[got[v][k]] = taken[got[v][k]] /\ rcvd'[v][k] = rcvd[v][k]
      BY <2>1, <2>4
    <3> QED  BY <1>2, <3>1
  <2>5. InSeq(c, got[w])
    BY <2>1 DEF InSeq
  <2>6. \A d \in Conns : (\A v \in Workers : ~InSeq(d, got[v])) => taken'[d] = 0
    BY <1>2, <2>1, <2>5
  <2> QED  BY <2>1, <2>2, <2>3, <2>4, <2>6
<1> QED  BY <1>3, <1>4, <1>5, BufferStep

----------------------------------------------------------------------------
(* Requests.                                                               *)

\* Which steps change what a child has registered with epoll.
LEMMA InterestStep ==
  ASSUME [Next]_vars
  PROVE  \/ UNCHANGED reg
         \/ \E w \in Workers : RecvFd(w)
         \/ \E w \in Workers : ParseComplete(w)
         \/ \E w \in Workers : Respond(w)
<1>1. CASE ClientStep /\ UNCHANGED <<chanVars, masterVars, workerVars>>
  BY <1>1 DEF workerVars
<1>2. CASE (MasterRuns \/ MasterFails) /\ UNCHANGED workerVars
  BY <1>2 DEF workerVars
<1>3. ASSUME NEW w \in Workers, ForkChild(w) PROVE UNCHANGED reg
  BY <1>3 DEF ForkChild
<1>4. ASSUME NEW w \in Workers, WorkerRuns(w) \/ WorkerFails(w),
             ~RecvFd(w), ~ParseComplete(w), ~Respond(w)
      PROVE  UNCHANGED reg
  BY <1>4
  DEF WorkerRuns, WorkerFails, Start, WorkerWait, RecvFdFull, RecvAgain, RecvEof,
      RecvError, BeginRead, ReadSome, ReadEof, ReadAgain, Smash, ParseIncomplete,
      ParseCrash, RespondDir, RespondCrash, WorkerQuits
<1>5. CASE UNCHANGED vars
  BY <1>5 DEF vars, workerVars
<1> QED  BY <1>1, <1>2, <1>3, <1>4, <1>5 DEF Next, MainRuns, ChildRuns

\* A buffer never loses what was read into it.
LEMMA BuffersGrow ==
  ASSUME IInv, [Next]_vars, NEW v \in Workers, NEW k \in DOMAIN got[v]
  PROVE  Units(rcvd[v][k]) \subseteq Units(rcvd'[v][k])
<1>1. CASE UNCHANGED <<got, rcvd, taken>>
  BY <1>1
<1>2. ASSUME NEW w \in Workers, RecvFd(w) PROVE Units(rcvd[v][k]) \subseteq Units(rcvd'[v][k])
  <2>1. CASE v = w
    BY <1>2, <2>1, RecvFdEffect
  <2>2. CASE v # w
    BY <1>2, <2>2, RecvFdEffect
  <2> QED  BY <2>1, <2>2
<1>3. ASSUME NEW w \in Workers, ReadSome(w) PROVE Units(rcvd[v][k]) \subseteq Units(rcvd'[v][k])
  <2>1. /\ Units(rcvd[w][curk(w)]) \subseteq Units(rcvd'[w][curk(w)])
        /\ \A j \in DOMAIN got[w] : j # curk(w) => rcvd'[w][j] = rcvd[w][j]
        /\ \A u \in Workers \ {w} : rcvd'[u] = rcvd[u]
    BY <1>3, ReadSomeEffect DEF Grows
  <2> QED  BY <2>1
<1> QED  BY <1>1, <1>2, <1>3, BufferStep

\* An http_request that is registered names a buffer of the child.
LEMMA StoredIsBacked ==
  ASSUME IInv, NEW v \in Workers, NEW k \in DOMAIN reg[v], reg[v][k].data.kind = "req"
  PROVE  reg[v][k].data.id \in DOMAIN got[v]
BY BufferTypes DEF IInv, ChildrenConsistent, ChildConsistent, Backed

\* Every step keeps StoredHasBlankLine.
LEMMA StoredStep ==
  ASSUME IInv, StoredHasBlankLine, [Next]_vars
  PROVE  StoredHasBlankLine'
<1> SUFFICES ASSUME NEW v \in Workers, NEW k \in DOMAIN reg'[v],
                    reg'[v][k].data.kind = "req"
             PROVE  ReqLen \in Units(rcvd'[v][reg'[v][k].data.id])
  BY DEF StoredHasBlankLine, HasBlankLine
<1>1. ASSUME k \in DOMAIN reg[v], reg'[v][k].data = reg[v][k].data
      PROVE  ReqLen \in Units(rcvd'[v][reg'[v][k].data.id])
  <2>1. ReqLen \in Units(rcvd[v][reg[v][k].data.id])
    BY <1>1 DEF StoredHasBlankLine, HasBlankLine
  <2>2. reg[v][k].data.id \in DOMAIN got[v]
    BY <1>1, StoredIsBacked
  <2> QED  BY <1>1, <2>1, <2>2, BuffersGrow
<1>2. CASE UNCHANGED reg
  BY <1>1, <1>2
<1>3. ASSUME NEW w \in Workers, RecvFd(w) PROVE ReqLen \in Units(rcvd'[v][reg'[v][k].data.id])
  <2> DEFINE e == [mask |-> "IN", data |-> TcpData(Len(got[w]) + 1)]
  <2>1. /\ reg' = [reg EXCEPT ![w] = Append(reg[w], e)]
        /\ reg[w] \in Seq(Event) /\ reg \in [Workers -> Seq(Event)]
    BY <1>3, BufferTypes DEF RecvFd
  <2>2. e \in Event /\ e.data.kind # "req"
    <3>1. Len(got[w]) + 1 \in Nat
      BY BufferTypes
    <3> QED  BY <3>1, DataType, DataKind
  <2> HIDE DEF e
  <2>3. CASE v # w
    BY <1>1, <2>1, <2>3
  <2>4. CASE v = w
    <3>1. \/ k \in DOMAIN reg[v] /\ reg'[v][k] = reg[v][k]
          \/ reg'[v][k] = e
      BY <2>1, <2>2, <2>4, AppendSeq
    <3> QED  BY <1>1, <2>2, <3>1
  <2> QED  BY <2>3, <2>4
<1>4. ASSUME NEW w \in Workers, ParseComplete(w)
      PROVE  ReqLen \in Units(rcvd'[v][reg'[v][k].data.id])
  <2>1. curk(w) \in Nat
    BY <1>4, CurrentSocket DEF ParseComplete, At
  <2>2. Parsed(w, curk(w)) \subseteq Targets
    <3>1. curk(w) \in 1..Len(got[w]) /\ curc(w) \in Conns
      BY <1>4, CurrentSocket DEF ParseComplete, At
    <3> QED  BY <3>1, WorkerAssumption DEF Parsed, curc
  <2>3. PICK t \in Parsed(w, curk(w)) :
          reg' = [reg EXCEPT ![w] = EpollMod(reg[w], clientfd[w],
                    [mask |-> "OUT", data |-> ReqData(curk(w), t)])]
    BY <1>4 DEF ParseComplete
  <2> DEFINE e == [mask |-> "OUT", data |-> ReqData(curk(w), t)]
  <2>4. e \in Event /\ e.data.id = curk(w)
    BY <2>1, <2>2, <2>3, DataType, DataKind
  <2>5. rcvd' = rcvd /\ ReqLen \in Units(rcvd[w][curk(w)])
    BY <1>4 DEF ParseComplete, HasBlankLine
  <2>6. reg' = [reg EXCEPT ![w] = EpollMod(reg[w], clientfd[w], e)]
    BY <2>3
  <2> HIDE DEF e
  <2>7. CASE v # w
    BY <1>1, <2>6, <2>7, BufferTypes
  <2>8. CASE v = w
    <3>0. reg[w] \in Seq(Event) /\ reg'[w] = EpollMod(reg[w], clientfd[w], e)
      BY <2>6, BufferTypes
    <3>1. /\ DOMAIN reg'[w] = DOMAIN reg[w]
          /\ \A i \in DOMAIN reg[w] : reg'[w][i] = IF i = clientfd[w] THEN e ELSE reg[w][i]
      BY <2>4, <3>0, EpollModType
    <3> QED  BY <1>1, <2>4, <2>5, <2>8, <3>1
  <2> QED  BY <2>7, <2>8
<1>5. ASSUME NEW w \in Workers, Respond(w) PROVE ReqLen \in Units(rcvd'[v][reg'[v][k].data.id])
  <2> DEFINE fd == data_fd(cure(w).data)
  <2>1. reg' = [reg EXCEPT ![w] = EpollDelClose(reg[w], fd)]
    BY <1>5 DEF Respond
  <2> HIDE DEF fd
  <2>2. k \in DOMAIN reg[v] /\ reg'[v][k].data = reg[v][k].data
    <3>1. CASE v # w
      BY <2>1, <3>1, BufferTypes
    <3>2. CASE v = w
      <4>1. reg[w] \in Seq(Event) /\ reg'[w] = EpollDelClose(reg[w], fd)
        BY <2>1, BufferTypes
      <4>2. /\ DOMAIN reg'[w] = DOMAIN reg[w]
            /\ \A i \in DOMAIN reg[w] : reg'[w][i].data = reg[w][i].data
        BY <4>1, EpollDelCloseType
      <4> QED  BY <3>2, <4>2
    <3> QED  BY <3>1, <3>2
  <2> QED  BY <1>1, <2>2
<1> QED  BY <1>2, <1>3, <1>4, <1>5, InterestStep

\* With the three parts the property holds: a buffer that is a prefix of the
\* stream and contains its last unit is the whole stream.
LEMMA StoredIsWhole ==
  ASSUME IInv, RequestInv
  PROVE  OnlyWholeRequests
<1> SUFFICES ASSUME NEW v \in Workers, NEW k \in DOMAIN reg[v],
                    reg[v][k].data.kind = "req"
             PROVE  /\ HasBlankLine(v, reg[v][k].data.id)
                    /\ Lossless => IsWhole(v, reg[v][k].data.id)
  BY DEF OnlyWholeRequests
<1> DEFINE j == reg[v][k].data.id
<1>1. HasBlankLine(v, j)
  BY DEF RequestInv, StoredHasBlankLine
<1>2. j \in DOMAIN got[v]
  BY StoredIsBacked
<1> HIDE DEF j
<1>3. ASSUME Lossless PROVE rcvd[v][j] = Upto(ReqLen)
  <2>1. rcvd[v][j] = Upto(taken[got[v][j]])
    BY <1>2, <1>3 DEF RequestInv, BufferIsStream
  <2>2. taken[got[v][j]] \in 0..ReqLen
    BY <1>2, BufferTypes
  <2>3. ReqLen \in 1..taken[got[v][j]]
    BY <1>1, <2>1, <2>2 DEF HasBlankLine, Units, Upto
  <2>4. taken[got[v][j]] = ReqLen
    BY <2>2, <2>3, NetAssumption
  <2> QED  BY <2>1, <2>4
<1> QED  BY <1>1, <1>3 DEF j, IsWhole

\* No child has read anything initially.
LEMMA InitRequestInv == Init => RequestInv
BY DEF Init, NetInit, WorkerInit, RequestInv, BytesReadOnce, BufferIsStream,
       StoredHasBlankLine

\* Every step keeps the invariant of the requests.
LEMMA NextRequestInv ==
  IInv /\ ServedOnce /\ RequestInv /\ [Next]_vars => RequestInv'
BY BytesReadOnceStep, BufferIsStreamStep, StoredStep DEF RequestInv

\* The invariants of the delivery and of the requests hold together.
LEMMA RequestInvariance == Spec => [](IInv /\ RequestInv)
<1> DEFINE Inv == IInv /\ DeliveryInv /\ ServedOnce /\ RequestInv
<1>1. Init => Inv
  BY InitIInv, InitDeliveryInv, InitServedOnce, InitRequestInv
<1>2. Inv /\ [Next]_vars => Inv'
  BY NextIInv, NextDeliveryInv, ServedOnceStep, NextRequestInv
<1>3. Inv => IInv /\ RequestInv
  OBVIOUS
<1> HIDE DEF Inv
<1> QED  BY <1>1, <1>2, <1>3, PTL DEF Spec

\* No byte of a client is read into two buffers, nor one that was not sent,
\* also when main has handed the same connection to several children.
THEOREM EachByteReadOnce == Spec => []BytesReadOnce
<1>1. IInv /\ RequestInv => BytesReadOnce
  BY DEF RequestInv
<1> QED  BY <1>1, RequestInvariance, PTL

\* A request that analasy() accepted has its blank line in the buffer it was
\* read into, and is whole unless sendmsg() fails.
THEOREM WholeRequestsOnly == Spec => []OnlyWholeRequests
BY StoredIsWhole, RequestInvariance, PTL

----------------------------------------------------------------------------
(* The process table.                                                      *)

\* Which steps change the table, and where main goes in the others.
LEMMA TableStep ==
  ASSUME [Next]_vars
  PROVE  \/ /\ UNCHANGED <<forked, pool, n_proc>>
            /\ mpc' # "pipe" \/ mpc = "pipe"
            /\ mpc = "pipe" => mpc' \in {"pipe", "exited"}
            /\ mpc = "exited" => mpc' = "exited"
         \/ SPipe
         \/ \E w \in Workers : Fork(w)
<1>1. CASE ClientStep /\ UNCHANGED <<chanVars, masterVars, workerVars>>
  BY <1>1 DEF masterVars
<1>2. CASE (MasterRuns \/ MasterFails) /\ UNCHANGED workerVars
  BY <1>2 DEF MasterRuns, MasterFails, OpenListen, EpollWait, AcceptOne,
              AcceptNone, AcceptFails, WriteOk, RetryOk, RetryFails, ForkFails,
              ListenFails, WriteFails, MainQuits, Exit
<1>3. ASSUME NEW w \in Workers, ForkChild(w) PROVE Fork(w)
  BY <1>3 DEF ForkChild
<1>4. ASSUME NEW w \in Workers, WorkerRuns(w) \/ WorkerFails(w), UNCHANGED masterVars
      PROVE  UNCHANGED <<mpc, forked, pool, n_proc>>
  BY <1>4 DEF masterVars
<1>5. CASE UNCHANGED vars
  BY <1>5 DEF vars, masterVars
<1> QED  BY <1>1, <1>2, <1>3, <1>4, <1>5 DEF Next, MainRuns, ChildRuns

\* fork() fills the next node, which is there as long as a child is missing.
LEMMA ForkFills ==
  ASSUME IInv, TableFilled, NEW w \in Workers, Fork(w)
  PROVE  TableFilled'
<1>1. /\ mpc = "fork" /\ w \notin forked /\ forked' = forked \cup {w}
      /\ mpc' \in {"listen", "fork"}
      /\ pool' = insert_pool_obj(pool, w) /\ n_proc' = insert_pool_obj_n(pool, n_proc)
  BY DEF Fork
<1>2. /\ Len(pool) = NPROC_MAX_NUM /\ n_proc = Cardinality(forked)
      /\ \A i \in DOMAIN pool : pool[i].pid \in (IF i <= n_proc THEN forked ELSE {NoPid})
      /\ \A v \in forked : HasPid(pool, v)
  BY <1>1 DEF TableFilled
<1>3. pool \in Seq(Node(Workers)) /\ forked \subseteq Workers /\ NoPid \notin Workers
  BY MasterAssumption DEF IInv, TypeOK, MasterTypeOK
<1>4. /\ IsFiniteSet(forked) /\ Cardinality(forked') = Cardinality(forked) + 1
      /\ Cardinality(forked) \in Nat /\ Cardinality(forked') <= NPROC_MAX_NUM
  <2>1. IsFiniteSet(forked)
    BY <1>3, MasterAssumption, FS_Subset
  <2>2. Cardinality(forked') = Cardinality(forked) + 1 /\ Cardinality(forked) \in Nat
    BY <1>1, <2>1, FS_AddElement, FS_CardinalityType
  <2>3. Cardinality(forked \cup {w}) <= Cardinality(Workers)
    <3>1. forked \cup {w} \in SUBSET Workers
      BY <1>3
    <3> QED  BY <3>1, MasterAssumption, FS_Subset
  <2> QED  BY <1>1, <2>1, <2>2, <2>3, MasterAssumption
<1> DEFINE n == n_proc + 1
<1>5. DOMAIN pool = 1..NPROC_MAX_NUM /\ n \in DOMAIN pool /\ n_proc \in Nat
  BY <1>2, <1>3, <1>4, PoolAssumption
<1>6. \A i \in DOMAIN pool : pool[i].pid = NoPid <=> i > n_proc
  BY <1>2, <1>3, <1>5, PoolAssumption
<1>7. \A i \in DOMAIN pool : IsFirst(pool, NoPid, i) <=> i = n
  BY <1>5, <1>6, PoolAssumption DEF IsFirst
<1>8. n_proc' = n
  BY <1>1, <1>5, <1>6 DEF insert_pool_obj_n, HasPid
<1>9. /\ DOMAIN pool' = DOMAIN pool
      /\ \A i \in DOMAIN pool : i # n => pool'[i] = pool[i]
      /\ pool'[n].pid = w
  <2>1. pool' = [i \in DOMAIN pool |-> IF i = n THEN [pool[i] EXCEPT !.pid = w] ELSE pool[i]]
    BY <1>1, <1>7 DEF insert_pool_obj
  <2>2. pool[n] \in Node(Workers)
    <3>1. \A i \in DOMAIN pool : pool[i] \in Node(Workers)
      BY <1>3
    <3> HIDE DEF n
    <3> QED  BY <1>5, <3>1
  <2>3. [pool[n] EXCEPT !.pid = w].pid = w
    BY <2>2 DEF Node
  <2> HIDE DEF n
  <2> QED  BY <1>5, <2>1, <2>3
<1>10. Len(pool') = NPROC_MAX_NUM
  <2>1. pool' \in Seq(Node(Workers))
    BY <1>1, <1>3, InsertType
  <2> QED  BY <1>5, <1>9, <2>1, PoolAssumption
<1>11. ASSUME NEW i \in DOMAIN pool'
       PROVE  pool'[i].pid \in (IF i <= n_proc' THEN forked' ELSE {NoPid})
  <2>1. CASE i = n
    BY <1>1, <1>5, <1>8, <1>9, <2>1
  <2>2. CASE i # n
    BY <1>1, <1>2, <1>5, <1>8, <1>9, <1>11, <2>2, PoolAssumption
  <2> QED  BY <2>1, <2>2
<1>12. ASSUME NEW v \in forked' PROVE HasPid(pool', v)
  <2>1. CASE v = w
    BY <1>5, <1>9, <2>1 DEF HasPid
  <2>2. CASE v \in forked
    <3>1. PICK i \in DOMAIN pool : pool[i].pid = v
      BY <1>2, <2>2 DEF HasPid
    <3>2. i # n
      BY <1>3, <1>5, <1>6, <2>2, <3>1
    <3> QED  BY <1>9, <3>1, <3>2 DEF HasPid
  <2> QED  BY <1>1, <1>12, <2>1, <2>2
<1> HIDE DEF n
<1> QED  BY <1>1, <1>2, <1>4, <1>8, <1>10, <1>11, <1>12 DEF TableFilled, n

\* Every step keeps TableFilled.
LEMMA TableFilledStep ==
  ASSUME IInv, TableFilled, [Next]_vars
  PROVE  TableFilled'
<1>1. CASE /\ UNCHANGED <<forked, pool, n_proc>>
           /\ mpc' # "pipe" \/ mpc = "pipe"
           /\ mpc = "pipe" => mpc' \in {"pipe", "exited"}
           /\ mpc = "exited" => mpc' = "exited"
  BY <1>1 DEF TableFilled, HasPid
<1>2. CASE SPipe
  <2>1. /\ mpc' = "fork" /\ pool' = create_proc_pool /\ forked' = {} /\ n_proc' = 0
    BY <1>2 DEF SPipe, TableFilled
  <2>2. /\ Len(pool') = NPROC_MAX_NUM
        /\ \A i \in DOMAIN pool' : i \in Nat \ {0} /\ pool'[i].pid = NoPid
    BY <2>1, PoolAssumption DEF create_proc_pool, proc_alloc
  <2>3. Cardinality({}) = 0
    BY FS_EmptySet
  <2> QED  BY <2>1, <2>2, <2>3 DEF TableFilled
<1> QED  BY <1>1, <1>2, ForkFills, TableStep

\* What a filled table says.
LEMMA FilledHoldsAll ==
  ASSUME IInv, TableFilled
  PROVE  PoolHoldsEveryChild
<1> SUFFICES ASSUME mpc \notin {"pipe", "exited"}
             PROVE  Pids(pool) = forked /\ n_proc = Cardinality(forked)
  BY DEF PoolHoldsEveryChild
<1>1. forked \subseteq Workers /\ NoPid \notin Workers
  BY MasterAssumption DEF IInv, TypeOK, MasterTypeOK
<1>2. \A i \in DOMAIN pool : pool[i].pid \in forked \cup {NoPid}
  BY DEF TableFilled
<1>3. \A w \in forked : \E i \in DOMAIN pool : pool[i].pid = w
  BY DEF TableFilled, HasPid
<1>4. n_proc = Cardinality(forked)
  BY DEF TableFilled
<1> QED  BY <1>1, <1>2, <1>3, <1>4 DEF Pids

\* From the first fork() on, whatever the size of the pool, main's process
\* table has exactly the children it has forked, and their number.
THEOREM EveryChildInPool == Spec => []PoolHoldsEveryChild
<1>1. Init => IInv /\ TableFilled
  BY InitIInv DEF Init, MasterInit, TableFilled
<1>2. IInv /\ TableFilled /\ [Next]_vars => (IInv /\ TableFilled)'
  BY NextIInv, TableFilledStep
<1> QED  BY <1>1, <1>2, FilledHoldsAll, PTL DEF Spec
=============================================================================
