------------------------------ MODULE Channel ------------------------------
(***************************************************************************)
(* The AF_UNIX stream socket pair made by S_pipe(), over which the main    *)
(* process passes accepted descriptors (SCM_RIGHTS) to the children.  All  *)
(* children read the same end fd[0]; every process that still holds fd[1]  *)
(* keeps the channel open for writing.  One message is the two-byte buffer *)
(* with one descriptor, so messages neither merge nor split.               *)
(***************************************************************************)
EXTENDS Net

CONSTANTS Workers,      \* the child processes
          Main,         \* the main process
          ChanCap,      \* messages the socket buffer holds
          Faults        \* the system calls that may fail: see FaultKinds

\* The failures the code has a path for.  "signal" is SIGINT or SIGQUIT, or
\* an interrupted epoll_wait(), which the wrappers also turn into exit(0).
FaultKinds == {"fork", "listen", "accept", "sendmsg", "recvmsg", "signal"}

ASSUME ChannelAssumption == /\ Main \notin Workers
                            /\ ChanCap \in Nat \ {0}
                            /\ Faults \subseteq FaultKinds

VARIABLES chan,         \* the descriptors in flight, oldest first
          wend          \* the processes that hold the writing end fd[1]

chanVars == <<chan, wend>>

ChannelTypeOK == /\ chan \in Seq(Conns)
                 /\ wend \in SUBSET (Workers \cup {Main})

ChannelInit == /\ chan = << >>
               /\ wend = {}

\* recvmsg() on fd[0] returns 0: nothing is queued and nobody can write.
ChannelEof == chan = << >> /\ wend = {}

\* Mutant: the newest message overtakes the others.
Sock_fd_write_Lifo(c) == Len(chan) < ChanCap /\ chan' = <<c>> \o chan

\* sendmsg() of one descriptor; fd[1] is blocking, so it waits for room.
Sock_fd_write(c) == /\ Len(chan) < ChanCap
                    /\ chan' = Append(chan, c)

\* recvmsg() of one descriptor, by whichever child comes first.
Sock_fd_read == /\ chan # << >>
                /\ chan' = Tail(chan)

\* A process closes fd[1], explicitly or by exiting.
CloseWriteEnd(p) == wend' = wend \ {p}
=============================================================================
