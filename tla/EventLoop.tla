----------------------------- MODULE EventLoop -----------------------------
(***************************************************************************)
(* The loop of do_epoll(), with handle_events(), do_read(), do_write(),    *)
(* handle_accpet() and the functions that change a registration            *)
(* (inc/http_io_base.h and their wrappers in inc/http_epoll.h).  The       *)
(* threads of DoEpoll wait on the instance and handle what it reports; the *)
(* program around them accepts connections with http_handle_accpet() and   *)
(* asks for EPOLLOUT with Modify_event().                                  *)
(*                                                                         *)
(* do_read() calls http_module_handler_request(), which does not read from *)
(* the socket, so data stay there for ever; and buf is always empty, so    *)
(* do_write() writes nothing, which fails only after a reset.              *)
(***************************************************************************)
EXTENDS DoEpoll, FiniteSetsExt

CONSTANTS MaxOutside     \* bound: what happens around the threads, in all

ASSUME EventLoopAssumption == MaxOutside \in Nat

VARIABLES open,          \* the descriptors that are open
          reset,         \* those whose client has reset the connection
          data,          \* those on which something has arrived
          owed,          \* owed[n]: arrivals less calls of do_read(); not
                         \* counted below -1
          due,           \* those with an arrival and no do_read() since
          edge,          \* those with an arrival that was not yet reported
          on,            \* the instance t waits on or calls handlers with
          events,        \* the events t has still to handle
          target,        \* the descriptor t is closing; 0: none
          outside,       \* arrivals, accepts and modifications so far
          acc,           \* accepted and not yet added; 0: none
          crossed        \* was a number given to a new connection while a
                         \* thread was about to close or delete it?

loopvars == <<open, reset, data, owed, due, edge, on, events, target, outside, acc,
              crossed>>
conns == <<open, reset, data, owed, due, edge>>
started == <<epollfd, flag_x, made, tmp, raced>>

LoopTypeOK == /\ open \subseteq Fds /\ reset \subseteq Fds
              /\ data \subseteq Fds
              /\ owed \in [Fds -> -1..MaxOutside]
              /\ due \subseteq Fds /\ edge \subseteq Fds
              /\ on \in [Threads -> 0..Cardinality(Threads)]
              /\ events \in [Threads -> SUBSET [n : Fds, ev : {"in", "out"}]]
              /\ target \in [Threads -> Fds \cup {0}]
              /\ pc \in [Threads -> Pcs \cup {"wait", "call", "handle", "close", "del"}]
              /\ outside \in 0..MaxOutside
              /\ acc \in open \cup {0}
              /\ crossed \in BOOLEAN

LoopInit == /\ open = Threads /\ reset = {}
            /\ data = {} /\ owed = [n \in Fds |-> 0]
            /\ due = {} /\ edge = {}
            /\ on = [t \in Threads |-> 0]
            /\ events = [t \in Threads |-> {}]
            /\ target = [t \in Threads |-> 0]
            /\ outside = 0 /\ acc = 0
            /\ crossed = FALSE

----------------------------------------------------------------------------
(* The clients.                                                            *)

Outside == outside < MaxOutside /\ outside' = outside + 1

Arrive(n) == /\ n \in open /\ n \notin reset
             /\ Outside
             /\ owed' = [owed EXCEPT ![n] = @ + 1]
             /\ data' = data \cup {n}
             /\ due' = due \cup {n} /\ edge' = edge \cup {n}
             /\ reset' \in {reset, reset \cup {n}}
             /\ UNCHANGED <<startvars, open, on, events, target, acc, crossed>>

----------------------------------------------------------------------------
(* epoll_wait() and handle_events()                                        *)

WaitCall(t) == /\ Goto(t, "loop", "wait")
               /\ on' = [on EXCEPT ![t] = epollfd]
               /\ UNCHANGED <<started, mask, conns, events, target, outside, acc, crossed>>

\* What instance e has to report: arrivals once with EPOLLET and as long as
\* there are data without; a socket can be written to at any time.
Ready(e) ==
  {[n |-> n, ev |-> "in"] : n \in {m \in open : \/ mask[e][m] = "once" /\ m \in edge
                                                \/ mask[e][m] = "in" /\ m \in data}}
  \cup {[n |-> n, ev |-> "out"] : n \in {m \in open : mask[e][m] = "out"}}

\* Mutant: the report does not use up the arrival, as without EPOLLET.
Reported_Level(rep) == edge

\* The arrivals still to be reported, after rep is.
Reported(rep) == edge \ {r.n : r \in {s \in rep : s.ev = "in"}}

WaitReturns(t) == /\ Goto(t, "wait", "call")
                  /\ on[t] # 0 /\ Ready(on[t]) # {}
                  /\ events' = [events EXCEPT ![t] = Ready(on[t])]
                  /\ edge' = Reported(Ready(on[t]))
                  /\ on' = [on EXCEPT ![t] = 0]
                  /\ UNCHANGED <<started, mask, open, reset, data, owed, due, target,
                                 outside, acc, crossed>>

\* The call of handle_events() reads the global again.
HandleEvents(t) == /\ Goto(t, "call", "handle")
                   /\ on' = [on EXCEPT ![t] = epollfd]
                   /\ UNCHANGED <<started, mask, conns, events, target, outside, acc, crossed>>

\* Mutant: the loop ends one event early.
Rest_Short(t, r) == IF Cardinality(events[t]) = 2 THEN {} ELSE events[t] \ {r}

\* What is left of the batch after r.
Rest(t, r) == events[t] \ {r}

Continue(t, evs) == /\ events' = [events EXCEPT ![t] = evs]
                    /\ pc' = [pc EXCEPT ![t] = IF evs = {} THEN "loop" ELSE "handle"]
                    /\ on' = [on EXCEPT ![t] = IF evs = {} THEN 0 ELSE @]
                    /\ UNCHANGED <<started, outside, acc, crossed>>

\* do_read(): an answer is looked up for an empty name, and dropped, with the
\* info_t it was put in; that malloc() finds no memory for it is left out.
do_read(t, r) ==
  /\ pc[t] = "handle" /\ r \in events[t] /\ r.ev = "in"
  /\ owed' = [owed EXCEPT ![r.n] = Max({-1, @ - 1})]
  /\ due' = due \ {r.n}
  /\ Continue(t, Rest(t, r))
  /\ UNCHANGED <<mask, open, reset, data, edge, target>>

\* Mutant: delete_event() is not in the braces.
AfterWrite_Deleted == ""

\* After a write, modify_event(epollfd, fd, EPOLLIN): EPOLLET is not asked for again.
AfterWrite == "in"

do_write(t, r) ==
  /\ pc[t] = "handle" /\ r \in events[t] /\ r.ev = "out"
  /\ r.n \in open \ reset
  /\ IF mask[on[t]][r.n] = "" THEN UNCHANGED mask ELSE Ctl(on[t], r.n, AfterWrite)
  /\ Continue(t, Rest(t, r))
  /\ UNCHANGED <<conns, target>>

\* The write fails: close(), and then delete_event() for the same number.
WriteFails(t, r) ==
  /\ pc[t] = "handle" /\ r \in events[t] /\ r.ev = "out"
  /\ r.n \notin open \ reset
  /\ events' = [events EXCEPT ![t] = Rest(t, r)]
  /\ target' = [target EXCEPT ![t] = r.n]
  /\ pc' = [pc EXCEPT ![t] = "close"]
  /\ UNCHANGED <<started, mask, conns, on, outside, acc, crossed>>

\* A closed descriptor leaves every instance; a number that is not open gives
\* EBADF, and one that another connection has got by now is closed.
Close(t) ==
  /\ Goto(t, "close", "del")
  /\ open' = open \ {target[t]}
  /\ reset' = reset \ {target[t]}
  /\ due' = due \ {target[t]} /\ edge' = edge \ {target[t]}
  /\ data' = data \ {target[t]}
  /\ owed' = [owed EXCEPT ![target[t]] = 0]
  /\ mask' = [e \in Instances |-> [mask[e] EXCEPT ![target[t]] = ""]]
  /\ acc' = IF acc = target[t] THEN 0 ELSE acc
  /\ UNCHANGED <<started, on, events, target, outside, crossed>>

\* EPOLL_CTL_DEL fails, unless another connection has the number by now.
delete_event(t) ==
  /\ pc[t] = "del"
  /\ Ctl(on[t], target[t], "")
  /\ target' = [target EXCEPT ![t] = 0]
  /\ Continue(t, events[t])
  /\ UNCHANGED conns

----------------------------------------------------------------------------
(* The rest of the program.                                                *)

\* accept() takes the lowest free number.  A failure changes nothing.
handle_accpet == /\ Outside
                 /\ acc = 0 /\ Fds \ open # {} /\ epollfd # 0
                 /\ acc' = Min(Fds \ open)
                 /\ open' = open \cup {acc'}
                 /\ crossed' = (crossed \/ \E t \in Threads : target[t] = acc')
                 /\ UNCHANGED <<startvars, reset, data, owed, due, edge, on, events,
                                target>>

\* add_event(epollfd, clifd, EPOLLIN).
AddAccepted == /\ acc # 0
               /\ Ctl(epollfd, acc, "in")
               /\ acc' = 0
               /\ UNCHANGED <<started, pc, conns, on, events, target, outside, crossed>>

\* Modify_event(epollfd, n, EPOLLOUT): fails if n is not registered there.
Modify_event(n) == /\ Outside
                   /\ MaskNow(n) \in {"once", "in"}
                   /\ Ctl(epollfd, n, "out")
                   /\ UNCHANGED <<started, pc, conns, on, events, target, acc, crossed>>

\* The steps of thread t in its loop.
Loop(t) == \/ WaitCall(t) \/ WaitReturns(t) \/ HandleEvents(t)
           \/ \E r \in events[t] : do_read(t, r) \/ do_write(t, r) \/ WriteFails(t, r)
           \/ Close(t) \/ delete_event(t)

Around == \/ \E n \in Fds : Arrive(n) \/ Modify_event(n)
          \/ handle_accpet \/ AddAccepted

----------------------------------------------------------------------------
(* Properties.                                                             *)

\* Every open connection that was added stays in the instance the threads wait
\* on, unless the threads raced to create it, or the number was given to a new
\* connection between a thread's failed write and its delete_event().
NoneForgotten ==
  ~raced /\ ~crossed =>
    \A n \in open \ {acc} :
      n \notin {t \in Threads : ~InLoop(t)} => MaskNow(n) # ""

\* However many threads wait, an arrival on a connection that is registered
\* with EPOLLET is handled by one of them only.
HandledOnce ==
  \A e \in Instances, n \in Fds : mask[e][n] = "once" => owed[n] >= 0
=============================================================================
