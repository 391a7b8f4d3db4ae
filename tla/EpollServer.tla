---------------------------- MODULE EpollServer ----------------------------
(***************************************************************************)
(* The threaded server that inc/http_epoll.h is for: Open_listen(), and    *)
(* then threads that share the events of their connections.                *)
(***************************************************************************)
EXTENDS EventLoop, OpenListen

vars == <<startvars, loopvars, openvars>>

TypeOK == StartTypeOK /\ LoopTypeOK /\ OpenTypeOK

Init == StartInit /\ LoopInit /\ OpenInit

Opening == OpenNext /\ UNCHANGED <<startvars, loopvars>>

Starts(t) == /\ Listening
             /\ StartStep(t)
             /\ UNCHANGED <<loopvars, openvars>>

Loops(t) == Listening /\ Loop(t) /\ UNCHANGED openvars

Surrounds == Listening /\ Around /\ UNCHANGED openvars

\* Epoll_create() and Epoll_wait() exit on failure, an interrupted wait
\* included, with all threads.
EpollFails == /\ Listening
              /\ \E t \in Threads : pc[t] \in {"create", "wait"}
              /\ Exits
              /\ UNCHANGED <<startvars, loopvars>>

\* As in Response, a write after a reset may raise SIGPIPE instead.
Sigpipe == /\ Listening
           /\ \E t \in Threads : \E r \in events[t] :
                pc[t] = "handle" /\ r.ev = "out" /\ r.n \in open \cap reset
           /\ Exits
           /\ UNCHANGED <<startvars, loopvars>>

Next == \/ Opening \/ Surrounds \/ EpollFails \/ Sigpipe
        \/ \E t \in Threads : Starts(t) \/ Loops(t)

Spec == Init /\ [][Next]_vars

\* The threads are scheduled; nothing is assumed of the clients, of the rest of
\* the program, or of Open_listen().
FairSpec == Spec /\ \A t \in Threads : WF_vars(Loops(t))

----------------------------------------------------------------------------

\* What arrives on a connection that is registered with EPOLLET is handled,
\* unless the threads raced to create the instance; the connection may be
\* modified, and the process may exit, before.
EventsHandled ==
  \A n \in Fds :
    (n \in due /\ ~raced /\ Listening /\ MaskNow(n) = "once")
      ~> (n \notin due \/ raced \/ ~Listening \/ MaskNow(n) # "once")
=============================================================================
