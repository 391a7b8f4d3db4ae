------------------------------- MODULE Master -------------------------------
(***************************************************************************)
(* The main process: start() of src/core/epoll_circle.h.  It makes the     *)
(* channel, forks the pool, opens the listening socket and then, for ever, *)
(* waits for the listening socket, accepts every pending connection and    *)
(* hands each descriptor to whichever child reads the channel first.       *)
(*                                                                         *)
(* It never closes the descriptors it has handed over, so each accepted    *)
(* connection uses up one of its descriptors for good (MainFdRoom).        *)
(* Forking also sets the child's own state: Fork(w) says what happens here *)
(* and module Server adds the child's half.                                *)
(***************************************************************************)
EXTENDS Channel, Pool

CONSTANTS MainFdRoom,   \* descriptors left to main once it listens
          NoConn        \* clientfd before the first accept()

ASSUME MasterAssumption == /\ MainFdRoom \in Nat \ {0}
                           /\ IsFiniteSet(Workers)
                           /\ Cardinality(Workers) = NPROC_MAX_NUM
                           /\ NoPid \notin Workers
                           /\ NoConn \notin Conns

VARIABLES mpc,          \* where main is in start()
          cur,          \* the clientfd being handed over
          accepted,     \* connections accepted so far, in order
          forked,       \* the children forked so far
          pool, n_proc  \* the process table

masterVars == <<mpc, cur, accepted, forked, pool, n_proc>>

MasterPcs == {"pipe", "fork", "listen", "wait", "accept", "write", "retry",
              "exited"}

MasterTypeOK == /\ mpc \in MasterPcs
                /\ cur \in Conns \cup {NoConn}
                /\ accepted \in Seq(Conns)
                /\ forked \in SUBSET Workers
                /\ pool \in Seq(Node(Workers))
                /\ n_proc \in Nat

MasterInit == /\ mpc = "pipe"
              /\ cur = NoConn
              /\ accepted = << >>
              /\ forked = {}
              /\ pool = << >>
              /\ n_proc = 0

\* exit(): the kernel closes what main holds, the listening socket and its
\* backlog included; the children live on.
Exit == /\ mpc' = "exited"
        /\ listening' = FALSE
        /\ backlog' = << >>
        /\ CloseWriteEnd(Main)
        /\ UNCHANGED <<opened, sent, taken, eof>>
        /\ UNCHANGED <<chan, cur, accepted, forked, pool, n_proc>>

\* S_pipe() until it succeeds, then the first lines of init_manager_proc().
SPipe == /\ mpc = "pipe"
         /\ mpc' = "fork"
         /\ wend' = {Main}
         /\ pool' = create_proc_pool
         /\ UNCHANGED <<netVars, chan, cur, accepted, forked, n_proc>>

\* One round of the fork loop: the child inherits both ends of the channel.
Fork(w) == /\ mpc = "fork"
           /\ w \notin forked
           /\ forked' = forked \cup {w}
           /\ mpc' = IF forked' = Workers THEN "listen" ELSE "fork"
           /\ wend' = wend \cup {w}
           /\ pool' = insert_pool_obj(pool, w)
           /\ n_proc' = insert_pool_obj_n(pool, n_proc)
           /\ UNCHANGED <<netVars, chan, cur, accepted>>

ForkFails == /\ "fork" \in Faults
             /\ mpc = "fork"
             /\ Exit

\* open_listenfd(), Setnoblock(), setsockopt() and the epoll registration.
OpenListen == /\ mpc = "listen"
              /\ mpc' = "wait"
              /\ listening' = TRUE
              /\ UNCHANGED <<backlog, opened, sent, taken, eof, chanVars>>
              /\ UNCHANGED <<cur, accepted, forked, pool, n_proc>>

\* bind() or listen() fails, or setsockopt() rejects the length it is given,
\* which start() never initialises: exit either way.
ListenFails == /\ "listen" \in Faults
               /\ mpc = "listen"
               /\ Exit

\* Mutant: the listening socket is registered for one event only.
EpollWait_OneShot ==
  /\ mpc = "wait"
  /\ backlog # << >> /\ accepted = << >>
  /\ mpc' = "accept"
  /\ UNCHANGED <<netVars, chanVars, cur, accepted, forked, pool, n_proc>>

\* epoll_wait() reports the listening socket, level triggered.
EpollWait == /\ mpc = "wait"
             /\ backlog # << >>
             /\ mpc' = "accept"
             /\ UNCHANGED <<netVars, chanVars, cur, accepted, forked, pool, n_proc>>

FdsLeft == Len(accepted) < MainFdRoom

AcceptOne == /\ mpc = "accept"
             /\ FdsLeft
             /\ backlog # << >>
             /\ cur' = Head(backlog)
             /\ backlog' = Tail(backlog)
             /\ accepted' = Append(accepted, cur')
             /\ mpc' = "write"
             /\ UNCHANGED <<listening, opened, sent, taken, eof, chanVars>>
             /\ UNCHANGED <<forked, pool, n_proc>>

\* Accept() turns EAGAIN into 0, which ends the inner loop.
AcceptNone == /\ mpc = "accept"
              /\ FdsLeft
              /\ backlog = << >>
              /\ mpc' = "wait"
              /\ UNCHANGED <<netVars, chanVars, cur, accepted, forked, pool, n_proc>>

\* Any other error is fatal.  With no descriptor left accept() fails with
\* EMFILE before it even looks at the backlog.
AcceptFails == /\ mpc = "accept"
               /\ ~FdsLeft \/ "accept" \in Faults
               /\ Exit

\* Mutant: the loop condition is inverted, a success is repeated.
WriteOk_Inverted ==
  /\ mpc = "write"
  /\ Sock_fd_write(cur)
  /\ mpc' = "retry"
  /\ UNCHANGED <<netVars, wend, cur, accepted, forked, pool, n_proc>>

\* The condition of the hand-over loop: a successful write leaves it.
WriteOk == /\ mpc = "write"
           /\ Sock_fd_write(cur)
           /\ mpc' = "accept"
           /\ UNCHANGED <<netVars, wend, cur, accepted, forked, pool, n_proc>>

\* Mutant: a failed hand-over is given up.
WriteFails_GiveUp ==
  /\ "sendmsg" \in Faults
  /\ mpc = "write"
  /\ mpc' = "accept"
  /\ UNCHANGED <<netVars, chanVars, cur, accepted, forked, pool, n_proc>>

WriteFails == /\ "sendmsg" \in Faults
              /\ mpc = "write"
              /\ mpc' = "retry"
              /\ UNCHANGED <<netVars, chanVars, cur, accepted, forked, pool, n_proc>>

\* The body of the loop writes again and drops the result: after a success
\* the condition sends the same descriptor once more.
RetryOk == /\ mpc = "retry"
           /\ Sock_fd_write(cur)
           /\ mpc' = "write"
           /\ UNCHANGED <<netVars, wend, cur, accepted, forked, pool, n_proc>>

RetryFails == /\ mpc = "retry"
              /\ mpc' = "write"
              /\ UNCHANGED <<netVars, chanVars, cur, accepted, forked, pool, n_proc>>

\* SIGINT, SIGQUIT or a failed epoll_wait(): exit(0), without tell_chld_exit().
MainQuits == /\ "signal" \in Faults
             /\ mpc # "exited"
             /\ Exit

\* What main does by itself; the failures above are not forced to happen.
MasterRuns == \/ SPipe \/ OpenListen \/ EpollWait \/ AcceptOne \/ AcceptNone
              \/ AcceptFails \/ WriteOk \/ RetryOk \/ RetryFails

MasterFails == ForkFails \/ ListenFails \/ WriteFails \/ MainQuits
=============================================================================
