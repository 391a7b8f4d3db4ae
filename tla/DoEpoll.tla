------------------------------ MODULE DoEpoll ------------------------------
(***************************************************************************)
(* The threaded loop of inc/http_io_base.h.  Each pthread_handler() thread *)
(* (inc/http_task.h) calls do_epoll() with its own connfd: the first one is *)
(* to create the epoll instance, kept in the global epollfd and guarded by *)
(* the global flag_x; all register their connfd in it and wait on it.      *)
(* Neither global is protected by a lock, and epollfd is read again each   *)
(* time it is used, so the threads interleave between any two accesses.    *)
(* What a thread does in its loop is in EventLoop.                         *)
(***************************************************************************)
EXTENDS Integers, FiniteSets

CONSTANTS Threads,       \* the threads, numbered as their connfds are
          Fds            \* the descriptor numbers of connections

ASSUME DoEpollAssumption == /\ IsFiniteSet(Threads)
                            /\ Threads \subseteq Fds /\ Fds \subseteq Nat \ {0}

VARIABLES epollfd,       \* the instance the global names; 0: none
          flag_x,        \* the other global
          made,          \* instances created so far, numbered 1, 2, ...
          mask,          \* mask[e][n]: the events of n that e reports, with
                         \* "once" for EPOLLIN|EPOLLET; "": n is not in e
          pc,            \* where each thread is
          tmp,           \* a value a thread has read, or is about to store
          raced          \* were two threads ever between test and increment?

startvars == <<epollfd, flag_x, made, mask, pc, tmp, raced>>

Pcs == {"off", "test", "create", "store", "load", "incr", "add", "loop"}
Instances == 1..Cardinality(Threads)
Masks == {"", "once", "in", "out"}

StartTypeOK == /\ epollfd \in 0..Cardinality(Threads)
               /\ flag_x \in 0..Cardinality(Threads)
               /\ made \in 0..Cardinality(Threads)
               /\ mask \in [Instances -> [Fds -> Masks]]
               /\ tmp \in [Threads -> 0..Cardinality(Threads)]
               /\ raced \in BOOLEAN

StartInit == /\ epollfd = 0
             /\ flag_x = 0
             /\ made = 0
             /\ mask = [e \in Instances |-> [n \in Fds |-> ""]]
             /\ pc = [t \in Threads |-> "off"]
             /\ tmp = [t \in Threads |-> 0]
             /\ raced = FALSE

Goto(t, from, to) == pc[t] = from /\ pc' = [pc EXCEPT ![t] = to]

Inside == {t \in Threads : pc[t] \in {"test", "create", "store", "load", "incr"}}

\* pthread_create(): the thread enters do_epoll().
Begin(t) == /\ Goto(t, "off", "test")
            /\ raced' = (raced \/ Inside # {})
            /\ UNCHANGED <<epollfd, flag_x, made, mask, tmp>>

\* if(flag_x==0)
TestFlag(t) == /\ Goto(t, "test", IF flag_x = 0 THEN "create" ELSE "load")
               /\ UNCHANGED <<epollfd, flag_x, made, mask, tmp, raced>>

\* Mutant: one instance for the thread and one for the global.
Create_Twice(t) == /\ Goto(t, "create", "store")
                   /\ made' = made + 2
                   /\ tmp' = [tmp EXCEPT ![t] = made + 2]
                   /\ UNCHANGED <<epollfd, flag_x, mask, raced>>

\* Mutant: the flag is set before the instance is stored.
Create_FlagFirst(t) == /\ Goto(t, "create", "store")
                       /\ made' = made + 1
                       /\ tmp' = [tmp EXCEPT ![t] = made + 1]
                       /\ flag_x' = 1
                       /\ UNCHANGED <<epollfd, mask, raced>>

\* Epoll_create(), and then the assignment to the global.
Create(t) == /\ Goto(t, "create", "store")
             /\ made' = made + 1
             /\ tmp' = [tmp EXCEPT ![t] = made + 1]
             /\ UNCHANGED <<epollfd, flag_x, mask, raced>>

Store(t) == /\ Goto(t, "store", "load")
            /\ epollfd' = tmp[t]
            /\ UNCHANGED <<flag_x, made, mask, tmp, raced>>

\* flag_x++ is a load and a store.
Load(t) == /\ Goto(t, "load", "incr")
           /\ tmp' = [tmp EXCEPT ![t] = flag_x]
           /\ UNCHANGED <<epollfd, flag_x, made, mask, raced>>

Incr(t) == /\ Goto(t, "incr", "add")
           /\ flag_x' = tmp[t] + 1
           /\ tmp' = [tmp EXCEPT ![t] = 0]
           /\ UNCHANGED <<epollfd, made, mask, raced>>

\* epoll_ctl() of instance e: fails where it does not apply.
Ctl(e, n, m) == mask' = IF e = 0 THEN mask ELSE [mask EXCEPT ![e][n] = m]

\* add_event(epollfd, listenfd, EPOLLIN|EPOLLET): the global as it is now;
\* without an instance epoll_ctl() fails, and add_event() does not look.
AddEvent(t) == /\ Goto(t, "add", "loop")
               /\ Ctl(epollfd, t, "once")
               /\ UNCHANGED <<epollfd, flag_x, made, tmp, raced>>

StartStep(t) == \/ Begin(t) \/ TestFlag(t) \/ Create(t) \/ Store(t)
                \/ Load(t) \/ Incr(t) \/ AddEvent(t)

----------------------------------------------------------------------------

\* What the global instance reports of n.
MaskNow(n) == IF epollfd = 0 THEN "" ELSE mask[epollfd][n]

InLoop(t) == pc[t] \notin Pcs \ {"loop"}

\* Threads that enter do_epoll() one after the other share one instance.
OneInstance == ~raced => made <= 1

\* However the threads race, an instance exists before anyone registers or
\* waits: flag_x becomes positive only after epollfd was stored.
NeverWithout ==
  \A t \in Threads : pc[t] \in {"load", "incr", "add"} \/ InLoop(t) => epollfd # 0

\* do_epoll() gives the threads their instance: always one, and the same for all
\* that do not race to create it.
InstanceReady == OneInstance /\ NeverWithout
=============================================================================
