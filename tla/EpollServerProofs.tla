-------------------------- MODULE EpollServerProofs --------------------------
(***************************************************************************)
(* The threaded epoll loop, for any number of threads and connections, any *)
(* addresses and any number of events around the threads.                  *)
(*                                                                         *)
(* StartInv is about the two globals of do_epoll(): flag_x is positive     *)
(* only after epollfd was stored, and threads that do not race create one  *)
(* instance.  RegInv says which connections are in which instance: each in *)
(* one at most, none that is closed, none whose thread has not added it.   *)
(* CountInv counts, for a connection with EPOLLET, the threads that have   *)
(* its arrival still to handle.  SocketInv is about Open_listen(),         *)
(* ConfigInv about file_param() in it.                                     *)
(***************************************************************************)
EXTENDS EpollServer, CStringProofs, FiniteSetTheorems, SequenceTheorems, TLAPS

AllPcs == Pcs \cup {"wait", "call", "handle", "close", "del"}
LoopPcs == {"loop", "wait", "call", "handle", "close", "del"}

\* The threads that may have created an instance, and those that have counted
\* flag_x up.
Passed == {t \in Threads : pc[t] \notin {"off", "test", "create"}}
Counted == {t \in Threads : pc[t] \notin {"off", "test", "create", "store", "load", "incr"}}

\* What threads that never raced have done: they passed one by one, and the
\* first of them created the instance.
InTurn ==
  /\ \A t, u \in Inside : t = u
  /\ made <= 1
  /\ made > 0 => flag_x > 0 \/ \E t \in Threads : pc[t] \in {"store", "load", "incr"}
  /\ \A t \in Threads : pc[t] = "create" => made = 0

StartInv ==
  /\ StartTypeOK /\ pc \in [Threads -> AllPcs]
  /\ epollfd <= made /\ made <= Cardinality(Passed) /\ flag_x <= Cardinality(Counted)
  /\ flag_x # 0 => epollfd # 0
  /\ \A t \in Threads : /\ pc[t] = "store" => tmp[t] \in 1..made
                        /\ pc[t] = "incr" => tmp[t] \in 0..Cardinality(Counted)
  /\ NeverWithout
  /\ ~raced => InTurn

\* The connection of a thread that is not in its loop yet: nobody knows it.
Untouched(t) == /\ t \in open /\ acc # t
                /\ \A e \in Instances : mask[e][t] = ""
                /\ \A u \in Threads : /\ target[u] # t
                                      /\ \A r \in events[u] : r.n # t

\* A connection is in one instance at most, and in none once it is closed or
\* before it was added.
InOne ==
  \A n \in Fds : \A e, f \in Instances : mask[e][n] # "" /\ mask[f][n] # "" => e = f
ClosedOut == \A n \in Fds \ open : \A e \in Instances : mask[e][n] = ""
AcceptedOut == acc # 0 => epollfd # 0 /\ \A e \in Instances : mask[e][acc] = ""
NewOut == \A t \in Threads : ~InLoop(t) => Untouched(t)

\* A batch is handled to its end before the thread waits again, and a descriptor
\* that was closed is not open when it is deleted, unless the number was reused.
BatchDone == \A t \in Threads :
  /\ pc[t] \notin {"call", "handle", "close", "del"} => events[t] = {}
  /\ pc[t] = "del" /\ ~crossed => target[t] \notin open

RegInv == InOne /\ ClosedOut /\ AcceptedOut /\ NewOut /\ BatchDone

\* The threads that have an arrival on n still to handle.
Pending(n) == {u \in Threads : [n |-> n, ev |-> "in"] \in events[u]}

\* The arrivals on n that are reported once each: by EPOLLET, or when the thread
\* of n has added it.
Once(n) == (n \in Threads /\ ~InLoop(n)) \/ \E e \in Instances : mask[e][n] = "once"

CountInv ==
  \A n \in Fds : /\ owed[n] <= outside
                 /\ Once(n) => Cardinality(Pending(n)) + (IF n \in edge THEN 1 ELSE 0)
                                 <= owed[n]

\* How many sockets open_listenfd() or open_clientfd() has open, where.
SocketInv ==
  /\ rest \in Seq(Lines)
  /\ at \in {"conf", "line", "lookup", "next", "crashed", "exited"} => socks = 0 /\ ~ok
  /\ at \in {"setup", "bound"} => socks = 1 /\ ~ok /\ left > 0
  /\ OneSocket

IInv == /\ TypeOK /\ StartInv /\ RegInv /\ CountInv /\ SocketInv
        /\ NoneForgotten

----------------------------------------------------------------------------
(* Operators.                                                              *)

LEMMA ThreadCount == Cardinality(Threads) \in Nat
BY FS_CardinalityType, DoEpollAssumption

\* The size of a set of threads.
LEMMA ThreadSet ==
  ASSUME NEW S \in SUBSET Threads
  PROVE  /\ IsFiniteSet(S) /\ Cardinality(S) \in Nat
         /\ Cardinality(S) <= Cardinality(Threads)
BY FS_Subset, FS_CardinalityType, DoEpollAssumption

\* One thread more or less.
LEMMA OneMore ==
  ASSUME NEW S \in SUBSET Threads, NEW t \in Threads
  PROVE  /\ t \notin S => Cardinality(S \cup {t}) = Cardinality(S) + 1
         /\ t \in S => Cardinality(S \ {t}) = Cardinality(S) - 1
BY ThreadSet, FS_AddElement, FS_RemoveElement

LEMMA MaxPair ==
  ASSUME NEW x \in Int
  PROVE  Max({-1, x}) = IF x < -1 THEN -1 ELSE x
<1>1. CASE x < -1
  <2>1. /\ -1 \in {-1, x} /\ \A y \in {-1, x} : -1 >= y
        /\ ~ \A y \in {-1, x} : x >= y
    BY <1>1
  <2> QED  BY <1>1, <2>1 DEF Max
<1>2. CASE ~(x < -1)
  <2>1. /\ x \in {-1, x} /\ \A y \in {-1, x} : x >= y
        /\ \A z \in {-1, x} : (\A y \in {-1, x} : z >= y) => z = x
    BY <1>2
  <2> QED  BY <1>2, <2>1 DEF Max
<1> QED  BY <1>1, <1>2

----------------------------------------------------------------------------
(* do_epoll() up to its loop.                                              *)

\* Which threads have passed, by what a step does to pc.
LEMMA PassedSize ==
  /\ Passed \in SUBSET Threads /\ Counted \in SUBSET Threads
  /\ Cardinality(Passed) \in Nat /\ Cardinality(Passed) <= Cardinality(Threads)
  /\ Cardinality(Counted) \in Nat /\ Cardinality(Counted) <= Cardinality(Threads)
<1>1. Passed \in SUBSET Threads /\ Counted \in SUBSET Threads
  BY DEF Passed, Counted
<1> QED  BY <1>1, ThreadSet

LEMMA PassedSizeNext ==
  /\ Passed' \in SUBSET Threads /\ Counted' \in SUBSET Threads
  /\ Cardinality(Passed') \in Nat /\ Cardinality(Passed') <= Cardinality(Threads)
  /\ Cardinality(Counted') \in Nat /\ Cardinality(Counted') <= Cardinality(Threads)
<1>1. Passed' \in SUBSET Threads /\ Counted' \in SUBSET Threads
  BY DEF Passed, Counted
<1> QED  BY <1>1, ThreadSet

LEMMA StartInitially == StartInit => StartInv
<1> SUFFICES ASSUME StartInit PROVE StartInv
  OBVIOUS
<1>0. epollfd = 0 /\ flag_x = 0 /\ made = 0 /\ raced \in BOOLEAN
  BY DEF StartInit
<1>1. StartTypeOK
  <2>1. mask \in [Instances -> [Fds -> Masks]]
    BY DEF StartInit, Masks
  <2>2. 0 \in 0..Cardinality(Threads)
    BY ThreadCount
  <2>3. tmp \in [Threads -> 0..Cardinality(Threads)]
    BY <2>2, Zenon DEF StartInit
  <2> QED  BY <1>0, <2>1, <2>2, <2>3 DEF StartTypeOK
<1>2. pc \in [Threads -> AllPcs] /\ \A t \in Threads : pc[t] = "off"
  BY DEF StartInit, AllPcs, Pcs
<1>3. NeverWithout
  BY <1>2 DEF NeverWithout, InLoop, Pcs
<1>4. InTurn
  BY <1>0, <1>2 DEF InTurn, Inside
<1> QED  BY <1>0, <1>1, <1>2, <1>3, <1>4, PassedSize DEF StartInv

\* A step of do_epoll() before its loop: what its threads have done.
LEMMA StartKeeps ==
  ASSUME StartInv, NEW t \in Threads, StartStep(t)
  PROVE  StartInv'
<1> DEFINE n == Cardinality(Threads)
<1>1. /\ epollfd \in Nat /\ epollfd <= made /\ made \in Nat /\ flag_x \in Nat
      /\ made <= Cardinality(Passed) /\ flag_x <= Cardinality(Counted)
      /\ n \in Nat /\ tmp \in [Threads -> 0..n] /\ raced \in BOOLEAN
      /\ mask \in [Instances -> [Fds -> Masks]]
      /\ pc \in [Threads -> AllPcs] /\ pc[t] \in AllPcs
      /\ flag_x # 0 => epollfd # 0
  BY ThreadCount DEF StartInv, StartTypeOK
<1>2. /\ \A u \in Threads : pc[u] = "store" => tmp[u] \in 1..made
      /\ \A u \in Threads : pc[u] = "incr" => tmp[u] \in 0..Cardinality(Counted)
  BY DEF StartInv
<1>3. NeverWithout /\ (~raced => InTurn)
  BY DEF StartInv
<1>4. /\ pc' \in [Threads -> AllPcs]
      /\ \A u \in Threads \ {t} : pc'[u] = pc[u]
  BY <1>1 DEF StartStep, Begin, TestFlag, Create, Store, Load, Incr, AddEvent, Goto,
              AllPcs, Pcs
<1>5. CASE Begin(t)
  <2>1. pc[t] = "off" /\ pc'[t] = "test" /\ raced' = (raced \/ Inside # {})
        /\ UNCHANGED <<epollfd, flag_x, made, mask, tmp>>
    BY <1>1, <1>5 DEF Begin, Goto
  <2>2. Passed' = Passed /\ Counted' = Counted
    BY <1>4, <2>1 DEF Passed, Counted
  <2>3. NeverWithout'
    BY <1>3, <1>4, <2>1 DEF NeverWithout, InLoop, Pcs
  <2>4. ~raced' => InTurn'
    BY <1>3, <1>4, <2>1 DEF InTurn, Inside
  <2>5. \A u \in Threads : /\ pc'[u] = "store" => tmp'[u] \in 1..made'
                           /\ pc'[u] = "incr" => tmp'[u] \in 0..Cardinality(Counted)
    BY <1>2, <1>4, <2>1
  <2>6. StartTypeOK'
    BY <2>1 DEF StartInv, StartTypeOK, Instances
  <2> QED  BY <1>1, <1>4, <2>1, <2>2, <2>3, <2>4, <2>5, <2>6 DEF StartInv
<1>6. CASE TestFlag(t)
  <2>1. /\ pc[t] = "test" /\ pc'[t] = IF flag_x = 0 THEN "create" ELSE "load"
        /\ UNCHANGED <<epollfd, flag_x, made, mask, tmp, raced>>
    BY <1>1, <1>6 DEF TestFlag, Goto
  <2>2. /\ Counted' = Counted
        /\ \/ Passed' = Passed
           \/ Passed' = Passed \cup {t} /\ t \notin Passed
    BY <1>4, <2>1 DEF Passed, Counted
  <2>3. made <= Cardinality(Passed')
    BY <1>1, <2>2, OneMore, PassedSize
  <2>4. NeverWithout'
    BY <1>1, <1>3, <1>4, <2>1 DEF NeverWithout, InLoop, Pcs
  <2>5. ~raced' => InTurn'
    <3> SUFFICES ASSUME ~raced PROVE InTurn'
      BY <2>1
    <3>1. Inside' = Inside /\ t \in Inside
      BY <1>4, <2>1 DEF Inside
    <3>2. made > 0 => flag_x > 0
      BY <1>3, <2>1 DEF InTurn, Inside
    <3>3. flag_x = 0 => made = 0
      BY <1>1, <3>2
    <3> QED  BY <1>3, <1>4, <2>1, <3>1, <3>2, <3>3 DEF InTurn
  <2>6. \A u \in Threads : /\ pc'[u] = "store" => tmp'[u] \in 1..made'
                           /\ pc'[u] = "incr" => tmp'[u] \in 0..Cardinality(Counted)
    BY <1>2, <1>4, <2>1
  <2>7. StartTypeOK'
    BY <2>1 DEF StartInv, StartTypeOK, Instances
  <2> QED  BY <1>1, <1>4, <2>1, <2>2, <2>3, <2>4, <2>5, <2>6, <2>7 DEF StartInv
<1>7. CASE Create(t)
  <2>1. /\ pc[t] = "create" /\ pc'[t] = "store" /\ made' = made + 1
        /\ tmp' = [tmp EXCEPT ![t] = made + 1]
        /\ UNCHANGED <<epollfd, flag_x, mask, raced>>
    BY <1>1, <1>7 DEF Create, Goto
  <2>2. Counted' = Counted /\ Passed' = Passed \cup {t} /\ t \notin Passed
    BY <1>4, <2>1 DEF Passed, Counted
  <2>3. made' <= Cardinality(Passed') /\ made' <= n
    BY <1>1, <2>1, <2>2, OneMore, PassedSize, PassedSizeNext
  <2>4. NeverWithout'
    BY <1>1, <1>3, <1>4, <2>1 DEF NeverWithout, InLoop, Pcs
  <2>5. ~raced' => InTurn'
    <3> SUFFICES ASSUME ~raced PROVE InTurn'
      BY <2>1
    <3>1. Inside' = Inside /\ t \in Inside
      BY <1>4, <2>1 DEF Inside
    <3>2. made = 0 /\ made' = 1
      BY <1>3, <2>1 DEF InTurn
    <3>3. \A u \in Threads : pc'[u] # "create"
      BY <1>3, <1>4, <2>1, <3>1 DEF InTurn, Inside
    <3> QED  BY <1>3, <2>1, <3>1, <3>2, <3>3 DEF InTurn
  <2>6. \A u \in Threads : /\ pc'[u] = "store" => tmp'[u] \in 1..made'
                           /\ pc'[u] = "incr" => tmp'[u] \in 0..Cardinality(Counted)
    BY <1>1, <1>2, <1>4, <2>1
  <2>7. StartTypeOK'
    <3>1. made' \in 0..n /\ epollfd' \in 0..n /\ flag_x' \in 0..n
      BY <1>1, <2>1, <2>3 DEF StartInv, StartTypeOK
    <3>2. tmp' \in [Threads -> 0..n]
      BY <1>1, <2>1, <3>1
    <3> QED  BY <1>1, <2>1, <3>1, <3>2 DEF StartTypeOK, Instances
  <2>8. epollfd' <= made'
    BY <1>1, <2>1
  <2> QED  BY <1>1, <1>4, <2>1, <2>2, <2>3, <2>4, <2>5, <2>6, <2>7, <2>8 DEF StartInv
<1>8. CASE Store(t)
  <2>1. /\ pc[t] = "store" /\ pc'[t] = "load" /\ epollfd' = tmp[t]
        /\ tmp[t] \in 1..made
        /\ UNCHANGED <<flag_x, made, mask, tmp, raced>>
    BY <1>1, <1>2, <1>8 DEF Store, Goto
  <2>2. Counted' = Counted /\ Passed' = Passed
    BY <1>4, <2>1 DEF Passed, Counted
  <2>3. epollfd' # 0 /\ epollfd' <= made /\ epollfd' \in Nat
    BY <1>1, <2>1
  <2>4. NeverWithout'
    BY <2>3 DEF NeverWithout
  <2>5. ~raced' => InTurn'
    <3> SUFFICES ASSUME ~raced PROVE InTurn'
      BY <2>1
    <3>1. Inside' = Inside /\ t \in Inside
      BY <1>4, <2>1 DEF Inside
    <3> QED  BY <1>3, <1>4, <2>1, <3>1 DEF InTurn
  <2>6. \A u \in Threads : /\ pc'[u] = "store" => tmp'[u] \in 1..made'
                           /\ pc'[u] = "incr" => tmp'[u] \in 0..Cardinality(Counted)
    BY <1>2, <1>4, <2>1
  <2>7. StartTypeOK'
    BY <1>1, <2>1 DEF StartInv, StartTypeOK, Instances
  <2> QED  BY <1>1, <1>4, <2>1, <2>2, <2>3, <2>4, <2>5, <2>6, <2>7 DEF StartInv
<1>9. CASE Load(t)
  <2>1. /\ pc[t] = "load" /\ pc'[t] = "incr" /\ tmp' = [tmp EXCEPT ![t] = flag_x]
        /\ UNCHANGED <<epollfd, flag_x, made, mask, raced>>
    BY <1>1, <1>9 DEF Load, Goto
  <2>2. Counted' = Counted /\ Passed' = Passed
    BY <1>4, <2>1 DEF Passed, Counted
  <2>4. NeverWithout'
    BY <1>3, <1>4, <2>1 DEF NeverWithout, InLoop, Pcs
  <2>5. ~raced' => InTurn'
    <3> SUFFICES ASSUME ~raced PROVE InTurn'
      BY <2>1
    <3>1. Inside' = Inside /\ t \in Inside
      BY <1>4, <2>1 DEF Inside
    <3> QED  BY <1>3, <1>4, <2>1, <3>1 DEF InTurn
  <2>6. \A u \in Threads : /\ pc'[u] = "store" => tmp'[u] \in 1..made'
                           /\ pc'[u] = "incr" => tmp'[u] \in 0..Cardinality(Counted)
    BY <1>1, <1>2, <1>4, <2>1, PassedSize
  <2>7. StartTypeOK'
    BY <1>1, <2>1 DEF StartInv, StartTypeOK, Instances
  <2> QED  BY <1>1, <1>4, <2>1, <2>2, <2>4, <2>5, <2>6, <2>7 DEF StartInv
<1>10. CASE Incr(t)
  <2>1. /\ pc[t] = "incr" /\ pc'[t] = "add" /\ flag_x' = tmp[t] + 1
        /\ tmp' = [tmp EXCEPT ![t] = 0] /\ tmp[t] \in 0..Cardinality(Counted)
        /\ UNCHANGED <<epollfd, made, mask, raced>>
    BY <1>1, <1>2, <1>10 DEF Incr, Goto
  <2>2. Counted' = Counted \cup {t} /\ t \notin Counted /\ Passed' = Passed
    BY <1>4, <2>1 DEF Passed, Counted
  <2>3. /\ Cardinality(Counted') = Cardinality(Counted) + 1
        /\ Cardinality(Counted) \in Nat /\ Cardinality(Counted') <= n
    BY <2>2, OneMore, PassedSize, PassedSizeNext
  <2>4. flag_x' \in Nat /\ flag_x' > 0 /\ flag_x' <= Cardinality(Counted') /\ flag_x' <= n
    BY <1>1, <2>1, <2>3
  <2>5. NeverWithout' /\ epollfd' # 0
    BY <1>3, <1>4, <2>1 DEF NeverWithout, InLoop, Pcs
  <2>6. ~raced' => InTurn'
    <3> SUFFICES ASSUME ~raced PROVE InTurn'
      BY <2>1
    <3>1. \A u \in Inside' : u \in Inside
      BY <1>4, <2>1 DEF Inside
    <3> QED  BY <1>3, <1>4, <2>1, <2>4, <3>1 DEF InTurn
  <2>7. \A u \in Threads : /\ pc'[u] = "store" => tmp'[u] \in 1..made'
                           /\ pc'[u] = "incr" => tmp'[u] \in 0..Cardinality(Counted')
    <3>1. \A x \in 0..Cardinality(Counted) : x \in 0..Cardinality(Counted')
      BY <2>3
    <3>2. \A u \in Threads \ {t} : tmp'[u] = tmp[u]
      BY <1>1, <2>1
    <3> HIDE DEF n
    <3> QED  BY <1>2, <1>4, <2>1, <3>1, <3>2
  <2>8. StartTypeOK'
    <3>1. flag_x' \in 0..n /\ 0 \in 0..n
      BY <1>1, <2>4
    <3>2. tmp' \in [Threads -> 0..n]
      BY <1>1, <2>1, <3>1
    <3> QED  BY <1>1, <2>1, <3>1, <3>2 DEF StartInv, StartTypeOK, Instances
  <2> QED  BY <1>1, <1>4, <2>1, <2>2, <2>4, <2>5, <2>6, <2>7, <2>8 DEF StartInv
<1>11. CASE AddEvent(t)
  <2>1. /\ pc[t] = "add" /\ pc'[t] = "loop"
        /\ mask' = IF epollfd = 0 THEN mask ELSE [mask EXCEPT ![epollfd][t] = "once"]
        /\ UNCHANGED <<epollfd, flag_x, made, tmp, raced>>
    BY <1>1, <1>11 DEF AddEvent, Goto, Ctl
  <2>2. Counted' = Counted /\ Passed' = Passed
    BY <1>4, <2>1 DEF Passed, Counted
  <2>3. mask' \in [Instances -> [Fds -> Masks]]
    BY <1>1, <2>1 DEF Masks
  <2>4. NeverWithout'
    BY <1>3, <1>4, <2>1 DEF NeverWithout, InLoop, Pcs
  <2>5. ~raced' => InTurn'
    <3> SUFFICES ASSUME ~raced PROVE InTurn'
      BY <2>1
    <3>1. Inside' = Inside
      BY <1>4, <2>1 DEF Inside
    <3> QED  BY <1>3, <1>4, <2>1, <3>1 DEF InTurn
  <2>6. \A u \in Threads : /\ pc'[u] = "store" => tmp'[u] \in 1..made'
                           /\ pc'[u] = "incr" => tmp'[u] \in 0..Cardinality(Counted)
    BY <1>2, <1>4, <2>1
  <2>7. StartTypeOK'
    BY <1>1, <2>1, <2>3 DEF StartInv, StartTypeOK, Instances
  <2> QED  BY <1>1, <1>4, <2>1, <2>2, <2>3, <2>4, <2>5, <2>6, <2>7 DEF StartInv
<1> QED  BY <1>5, <1>6, <1>7, <1>8, <1>9, <1>10, <1>11 DEF StartStep

\* A step that leaves the start alone, and threads in their loops there.
LoopFrame == /\ UNCHANGED started
             /\ mask' \in [Instances -> [Fds -> Masks]]
             /\ pc' \in [Threads -> AllPcs]
             /\ \A t \in Threads : pc'[t] # pc[t] => pc[t] \in LoopPcs /\ pc'[t] \in LoopPcs

LEMMA FrameKeeps ==
  ASSUME StartInv, LoopFrame
  PROVE  StartInv' /\ \A t \in Threads : InLoop(t)' = InLoop(t)
<1>1. /\ \A t \in Threads : pc'[t] # pc[t] => pc[t] \in LoopPcs /\ pc'[t] \in LoopPcs
      /\ UNCHANGED <<epollfd, flag_x, made, tmp, raced>>
  BY DEF LoopFrame, started
<1>2. Passed' = Passed /\ Counted' = Counted /\ Inside' = Inside
  BY <1>1 DEF Passed, Counted, Inside, LoopPcs
<1>3. \A t \in Threads : InLoop(t)' = InLoop(t)
  BY <1>1 DEF InLoop, LoopPcs, Pcs
<1>4. NeverWithout'
  BY <1>1, <1>3 DEF StartInv, NeverWithout, LoopPcs
<1>5. ~raced' => InTurn'
  BY <1>1, <1>2 DEF StartInv, InTurn, LoopPcs
<1>6. StartTypeOK' /\ pc' \in [Threads -> AllPcs]
  BY <1>1 DEF LoopFrame, StartInv, StartTypeOK, Instances
<1>7. \A u \in Threads : /\ pc'[u] = "store" => tmp'[u] \in 1..made'
                         /\ pc'[u] = "incr" => tmp'[u] \in 0..Cardinality(Counted)
  BY <1>1 DEF StartInv, LoopPcs
<1> QED  BY <1>1, <1>2, <1>3, <1>4, <1>5, <1>6, <1>7 DEF StartInv

----------------------------------------------------------------------------
(* What the steps of do_epoll() before its loop do to the connections.     *)

LoopInv == LoopTypeOK /\ RegInv /\ CountInv /\ NoneForgotten

\* The size of the set of threads that have an arrival to handle.
LEMMA PendingSize ==
  ASSUME NEW n
  PROVE  /\ Pending(n) \in SUBSET Threads /\ Pending(n)' \in SUBSET Threads
         /\ Cardinality(Pending(n)) \in Nat /\ Cardinality(Pending(n)') \in Nat
<1>1. Pending(n) \in SUBSET Threads /\ Pending(n)' \in SUBSET Threads
  BY DEF Pending
<1> QED  BY <1>1, ThreadSet

\* CountInv, where no arrival is counted, reported or handled.
LEMMA CountKept ==
  ASSUME CountInv, LoopTypeOK, UNCHANGED <<owed, edge>>,
         \A n \in Fds : Pending(n)' = Pending(n),
         outside' \in Nat, outside <= outside',
         \A n \in Fds : Once(n)' => Once(n)
  PROVE  CountInv'
<1>1. \A n \in Fds : owed[n] <= outside'
  BY EventLoopAssumption DEF CountInv, LoopTypeOK
<1> QED  BY <1>1 DEF CountInv

LEMMA CountFrame ==
  ASSUME CountInv, LoopTypeOK, UNCHANGED <<owed, edge, events>>,
         outside' \in Nat, outside <= outside',
         \A n \in Fds : Once(n)' => Once(n)
  PROVE  CountInv'
<1>1. \A n \in Fds : Pending(n)' = Pending(n)
  BY DEF Pending
<1> QED  BY <1>1, CountKept

\* RegInv, where no registration changes.
LEMMA RegFrame ==
  ASSUME RegInv, UNCHANGED <<mask, open, events, target, acc, crossed>>,
         acc # 0 => epollfd' # 0,
         \A u \in Threads : InLoop(u)' = InLoop(u),
         \A u \in Threads : pc'[u] \in {"call", "handle", "close", "del"} <=>
                              pc[u] \in {"call", "handle", "close", "del"},
         \A u \in Threads : pc'[u] = "del" => pc[u] = "del"
  PROVE  RegInv'
<1>1. \A u \in Threads : Untouched(u) => Untouched(u)'
  BY DEF Untouched, Instances
<1>2. NewOut'
  BY <1>1 DEF RegInv, NewOut
<1>3. BatchDone'
  BY DEF RegInv, BatchDone
<1>4. InOne' /\ ClosedOut' /\ AcceptedOut'
  BY DEF RegInv, InOne, ClosedOut, AcceptedOut, Instances
<1> QED  BY <1>2, <1>3, <1>4 DEF RegInv

LEMMA StartKeepsLoop ==
  ASSUME StartInv, LoopInv, StartInv', UNCHANGED loopvars,
         NEW t \in Threads, StartStep(t)
  PROVE  LoopInv'
<1>1. /\ UNCHANGED <<open, reset, data, owed, due, edge, on, events, target>>
      /\ UNCHANGED <<outside, acc, crossed>>
  BY DEF loopvars
<1>2. pc \in [Threads -> AllPcs] /\ pc' \in [Threads -> AllPcs]
  BY DEF StartInv
<1>3. LoopTypeOK'
  BY <1>1, <1>2 DEF LoopInv, LoopTypeOK, AllPcs, Instances
<1>4. /\ LoopTypeOK /\ RegInv /\ CountInv /\ NoneForgotten
      /\ t \in Fds /\ Threads \in SUBSET Fds
  BY DoEpollAssumption DEF LoopInv
<1>5. outside \in Nat /\ outside' \in Nat /\ outside <= outside'
  BY <1>1, <1>4, EventLoopAssumption DEF LoopTypeOK
<1>6. CASE ~AddEvent(t)
  <2>1. /\ mask' = mask /\ \A u \in Threads \ {t} : pc'[u] = pc[u]
        /\ pc[t] \in Pcs \ {"loop", "add"} /\ pc'[t] \in Pcs \ {"loop"}
    BY <1>2, <1>6 DEF StartStep, Begin, TestFlag, Create, Store, Load, Incr, Goto, Pcs
  <2>0. ~raced' => ~raced
    BY <1>6, Zenon DEF StartStep, Begin, TestFlag, Create, Store, Load, Incr
  <2>2. \A u \in Threads : InLoop(u)' = InLoop(u)
    BY <2>1 DEF InLoop
  <2>3. \A u \in Threads : pc'[u] \in {"call", "handle", "close", "del"} <=>
                             pc[u] \in {"call", "handle", "close", "del"}
    BY <2>1 DEF Pcs
  <2>4. \A u \in Threads : pc'[u] = "del" => pc[u] = "del"
    BY <2>1 DEF Pcs
  <2>5. acc # 0 => epollfd' # 0
    <3>1. CASE Store(t)
      <4>1. pc'[t] = "load"
        BY <1>2, <3>1 DEF Store, Goto
      <4> QED  BY <4>1 DEF StartInv, NeverWithout
    <3>2. CASE ~Store(t)
      BY <1>4, <1>6, <3>2
      DEF StartStep, Begin, TestFlag, Create, Load, Incr, RegInv, AcceptedOut
    <3> QED  BY <3>1, <3>2
  <2>6. RegInv'
    BY <1>1, <1>4, <2>1, <2>2, <2>3, <2>4, <2>5, RegFrame
  <2>7. CountInv'
    BY <1>1, <1>4, <1>5, <2>1, <2>2, CountFrame DEF Once, Instances
  <2>8. NoneForgotten'
    <3> SUFFICES ASSUME ~raced', ~crossed,
                        NEW n \in open \ {acc},
                        n \notin {u \in Threads : ~InLoop(u)}
                 PROVE  MaskNow(n)' # ""
      BY <1>1, <2>2 DEF NoneForgotten
    <3>1. MaskNow(n) # ""
      BY <1>4, <2>0 DEF NoneForgotten
    <3>2. epollfd # 0 /\ mask[epollfd][n] # ""
      BY <3>1 DEF MaskNow
    <3>3. epollfd' = epollfd
      <4>1. CASE Store(t)
        <5>1. /\ epollfd' = tmp[t] /\ tmp[t] \in 1..made /\ made \in Nat /\ made <= 1
              /\ epollfd \in Nat /\ epollfd <= made
          BY <2>0, <4>1, ThreadCount DEF Store, Goto, StartInv, StartTypeOK, InTurn
        <5>2. epollfd # 0
          BY <3>2
        <5> QED  BY <5>1, <5>2
      <4>2. CASE ~Store(t)
        BY <1>6, <4>2 DEF StartStep, Begin, TestFlag, Create, Load, Incr
      <4> QED  BY <4>1, <4>2
    <3> QED  BY <2>1, <3>2, <3>3 DEF MaskNow
  <2> QED  BY <1>3, <2>6, <2>7, <2>8 DEF LoopInv
<1>7. CASE AddEvent(t)
  <2>1. /\ \A u \in Threads \ {t} : pc'[u] = pc[u]
        /\ pc[t] = "add" /\ pc'[t] = "loop" /\ UNCHANGED <<epollfd, raced>>
    BY <1>2, <1>7 DEF AddEvent, Goto
  <2>2. epollfd # 0 /\ epollfd \in Instances
    BY <2>1, ThreadCount DEF StartInv, StartTypeOK, NeverWithout, Instances
  <2>3. ~InLoop(t) /\ InLoop(t)' /\ \A u \in Threads \ {t} : InLoop(u)' = InLoop(u)
    BY <2>1 DEF InLoop, Pcs
  <2>4. /\ \A e \in Instances, n \in Fds :
             mask'[e][n] = IF e = epollfd /\ n = t THEN "once" ELSE mask[e][n]
    BY <1>7, <1>4, <2>2 DEF AddEvent, Ctl, StartInv, StartTypeOK
  <2>5. /\ t \in open /\ acc # t /\ \A e \in Instances : mask[e][t] = ""
    BY <1>4, <2>3 DEF RegInv, NewOut, Untouched
  <2>6. RegInv'
    <3>1. ASSUME NEW u \in Threads, ~InLoop(u)' PROVE Untouched(u)'
      <4>1. u # t /\ ~InLoop(u) /\ u \in Fds
        BY <1>4, <2>3, <3>1
      <4>2. Untouched(u)
        BY <1>4, <4>1 DEF RegInv, NewOut
      <4>3. \A e \in Instances : mask'[e][u] = ""
        BY <2>4, <4>1, <4>2 DEF Untouched
      <4> QED  BY <1>1, <4>2, <4>3 DEF Untouched, Instances
    <3>2. InOne'
      <4>1. InOne
        BY <1>4 DEF RegInv
      <4>2. ASSUME NEW n \in Fds, NEW e \in Instances, NEW f \in Instances,
                   mask'[e][n] # "", mask'[f][n] # ""
            PROVE  e = f
        <5>1. CASE n = t
          BY <2>4, <2>5, <4>2, <5>1
        <5>2. CASE n # t
          <6>1. mask'[e][n] = mask[e][n] /\ mask'[f][n] = mask[f][n]
            BY <2>4, <5>2
          <6> QED  BY <4>1, <4>2, <6>1 DEF InOne
        <5> QED  BY <5>1, <5>2
      <4> QED  BY <4>2 DEF InOne, Instances
    <3>3. ClosedOut'
      <4>1. ASSUME NEW n \in Fds \ open, NEW e \in Instances PROVE mask'[e][n] = ""
        <5>1. n # t /\ mask'[e][n] = mask[e][n]
          BY <2>4, <2>5
        <5> QED  BY <1>4, <5>1 DEF RegInv, ClosedOut
      <4> QED  BY <1>1, <4>1 DEF ClosedOut, Instances
    <3>4. AcceptedOut'
      <4>1. acc # 0 => acc \in Fds
        BY <1>4 DEF LoopTypeOK
      <4> QED  BY <1>1, <1>4, <2>1, <2>4, <2>5, <4>1 DEF RegInv, AcceptedOut, Instances
    <3>5. BatchDone'
      BY <1>1, <1>4, <2>1 DEF RegInv, BatchDone
    <3> QED  BY <3>1, <3>2, <3>3, <3>4, <3>5 DEF RegInv, NewOut
  <2>7. CountInv'
    <3>1. \A n \in Fds : Once(n)' => Once(n)
      BY <2>3, <2>4 DEF Once, Instances
    <3> QED  BY <1>1, <1>4, <1>5, <3>1, CountFrame
  <2>8. NoneForgotten'
    <3> SUFFICES ASSUME ~raced, ~crossed,
                        NEW n \in open \ {acc},
                        n \notin {u \in Threads : ~InLoop(u)'}
                 PROVE  MaskNow(n)' # ""
      BY <1>1, <2>1 DEF NoneForgotten
    <3>1. n \in Fds
      BY <1>4 DEF LoopTypeOK
    <3>2. n = t \/ MaskNow(n) # ""
      BY <1>4, <2>3 DEF NoneForgotten
    <3> QED  BY <2>1, <2>2, <2>4, <3>1, <3>2 DEF MaskNow
  <2> QED  BY <1>3, <2>6, <2>7, <2>8 DEF LoopInv
<1> QED  BY <1>6, <1>7

----------------------------------------------------------------------------
(* One registration changes.                                               *)

LEMMA MaskSet ==
  ASSUME mask \in [Instances -> [Fds -> Masks]],
         NEW e \in Instances, NEW n, NEW m \in Masks, Ctl(e, n, m)
  PROVE  /\ mask' \in [Instances -> [Fds -> Masks]]
         /\ \A f \in Instances, k \in Fds :
              mask'[f][k] = IF f = e /\ k = n THEN m ELSE mask[f][k]
<1>1. e # 0
  BY ThreadCount DEF Instances
<1> QED  BY <1>1 DEF Ctl

\* A connection that is in no other instance is added, or one is removed.
LEMMA MaskOut ==
  ASSUME InOne, ClosedOut, open' = open,
         NEW e \in Instances, NEW n \in Fds \cup {0}, NEW m \in Masks,
         \A f \in Instances, k \in Fds :
           mask'[f][k] = IF f = e /\ k = n THEN m ELSE mask[f][k],
         m # "" => n \in open /\ \A f \in Instances \ {e} : mask[f][n] = ""
  PROVE  InOne' /\ ClosedOut'
<1>1. ASSUME NEW k \in Fds, NEW f \in Instances, NEW g \in Instances,
             mask'[f][k] # "", mask'[g][k] # ""
      PROVE  f = g
  <2>1. CASE k = n /\ m # ""
    BY <1>1, <2>1
  <2>2. CASE k # n \/ m = ""
    <3>1. mask[f][k] # "" /\ mask[g][k] # ""
      BY <1>1, <2>2
    <3> QED  BY <3>1 DEF InOne
  <2> QED  BY <2>1, <2>2
<1>2. ASSUME NEW k \in Fds \ open, NEW f \in Instances PROVE mask'[f][k] = ""
  <2>1. mask[f][k] = ""
    BY DEF ClosedOut
  <2> QED  BY <2>1
<1> QED  BY <1>1, <1>2 DEF InOne, ClosedOut, Instances

\* A thread in its loop takes a step: what all such steps leave alone.
LEMMA LoopTypes ==
  ASSUME StartInv, LoopInv
  PROVE  /\ mask \in [Instances -> [Fds -> Masks]] /\ pc \in [Threads -> AllPcs]
         /\ epollfd \in 0..Cardinality(Threads) /\ Cardinality(Threads) \in Nat
         /\ \A e \in 0..Cardinality(Threads) : e # 0 => e \in Instances
         /\ LoopTypeOK /\ RegInv /\ CountInv /\ NoneForgotten
         /\ InOne /\ ClosedOut /\ AcceptedOut /\ NewOut /\ BatchDone
         /\ Threads \in SUBSET Fds /\ Fds \in SUBSET (Nat \ {0}) /\ 0 \notin open
         /\ outside \in 0..MaxOutside /\ MaxOutside \in Nat
         /\ \A n \in Fds : owed[n] \in Int /\ -1 <= owed[n] /\ owed[n] <= outside
         /\ open \in SUBSET Fds
         /\ \A u \in Threads : pc[u] = "loop" \/ pc[u] \notin Pcs => epollfd # 0
<1>1. /\ mask \in [Instances -> [Fds -> Masks]] /\ pc \in [Threads -> AllPcs]
      /\ epollfd \in 0..Cardinality(Threads) /\ Cardinality(Threads) \in Nat
  BY ThreadCount DEF StartInv, StartTypeOK
<1>2. \A e \in 0..Cardinality(Threads) : e # 0 => e \in Instances
  BY <1>1 DEF Instances
<1>3. /\ LoopTypeOK /\ RegInv /\ CountInv /\ NoneForgotten
      /\ InOne /\ ClosedOut /\ AcceptedOut /\ NewOut /\ BatchDone
  BY DEF LoopInv, RegInv
<1>4. /\ Threads \in SUBSET Fds /\ Fds \in SUBSET (Nat \ {0}) /\ open \in SUBSET Fds
      /\ 0 \notin open
  BY <1>3, DoEpollAssumption DEF LoopTypeOK
<1>5. outside \in 0..MaxOutside /\ MaxOutside \in Nat
  BY <1>3, EventLoopAssumption DEF LoopTypeOK
<1>6. \A n \in Fds : owed[n] \in -1..MaxOutside /\ owed[n] <= outside
  BY <1>3 DEF LoopTypeOK, CountInv
<1>7. \A n \in Fds : owed[n] \in Int /\ -1 <= owed[n] /\ owed[n] <= outside
  BY <1>5, <1>6
<1>8. \A u \in Threads : pc[u] = "loop" \/ pc[u] \notin Pcs => epollfd # 0
  BY DEF StartInv, NeverWithout, InLoop
<1> QED  BY <1>1, <1>2, <1>3, <1>4, <1>5, <1>7, <1>8

\* NoneForgotten, where registrations of open connections stay.
LEMMA ForgottenFrame ==
  ASSUME NoneForgotten, epollfd' = epollfd, raced' = raced, ~crossed' => ~crossed,
         open \in SUBSET Fds,
         \A u \in Threads : InLoop(u)' = InLoop(u),
         \A n \in open' \ {acc'} :
           (n \in open \ {acc} /\ (~crossed' /\ MaskNow(n) # "" => MaskNow(n)' # ""))
             \/ MaskNow(n)' # ""
  PROVE  NoneForgotten'
BY DEF NoneForgotten

----------------------------------------------------------------------------
(* The clients, and the program around the threads.                        *)

LEMMA ArriveKeeps ==
  ASSUME StartInv, LoopInv, NEW n \in Fds, Arrive(n)
  PROVE  LoopFrame /\ LoopInv'
<1>1. /\ UNCHANGED <<epollfd, flag_x, made, mask, pc, tmp, raced>>
      /\ UNCHANGED <<open, on, events, target, acc, crossed>>
      /\ outside < MaxOutside /\ outside' = outside + 1
      /\ owed' = [owed EXCEPT ![n] = @ + 1]
      /\ data' = data \cup {n} /\ due' = due \cup {n} /\ edge' = edge \cup {n}
      /\ reset' \in {reset, reset \cup {n}}
  BY DEF Arrive, Outside, startvars
<1>2. LoopFrame
  BY <1>1, LoopTypes DEF LoopFrame, started
<1>3. \A u \in Threads : InLoop(u)' = InLoop(u)
  BY <1>1 DEF InLoop
<1>4. LoopTypeOK'
  <2>1. outside' \in 0..MaxOutside /\ owed[n] + 1 \in -1..MaxOutside
    BY <1>1, LoopTypes
  <2>2. owed' \in [Fds -> -1..MaxOutside]
    BY <1>1, <2>1, LoopTypes DEF LoopTypeOK
  <2> QED  BY <1>1, <2>1, <2>2, LoopTypes DEF LoopTypeOK
<1>5. RegInv'
  BY <1>1, <1>3, LoopTypes, RegFrame DEF AcceptedOut
<1>6. CountInv'
  <2> SUFFICES ASSUME NEW k \in Fds
               PROVE  /\ owed'[k] <= outside'
                      /\ Once(k)' => Cardinality(Pending(k)') + (IF k \in edge' THEN 1 ELSE 0)
                                       <= owed'[k]
    BY DEF CountInv
  <2>1. Pending(k)' = Pending(k) /\ Once(k)' = Once(k)
    BY <1>1, <1>3 DEF Pending, Once, Instances
  <2>2. owed'[k] = IF k = n THEN owed[k] + 1 ELSE owed[k]
    BY <1>1, LoopTypes DEF LoopTypeOK
  <2>3. owed'[k] <= outside'
    BY <1>1, <2>2, LoopTypes
  <2>4. Once(k) => Cardinality(Pending(k)) + (IF k \in edge THEN 1 ELSE 0) <= owed[k]
    BY LoopTypes DEF CountInv
  <2>5. k \in edge' <=> k \in edge \/ k = n
    BY <1>1
  <2>6. owed[k] \in Int /\ Cardinality(Pending(k)) \in Nat
    BY LoopTypes, PendingSize
  <2> QED  BY <2>1, <2>2, <2>3, <2>4, <2>5, <2>6
<1>7. NoneForgotten'
  BY <1>1, <1>3, LoopTypes, ForgottenFrame DEF MaskNow
<1> QED  BY <1>2, <1>4, <1>5, <1>6, <1>7 DEF LoopInv

LEMMA AcceptKeeps ==
  ASSUME StartInv, LoopInv, handle_accpet
  PROVE  LoopFrame /\ LoopInv'
<1>1. /\ UNCHANGED <<epollfd, flag_x, made, mask, pc, tmp, raced>>
      /\ UNCHANGED <<reset, data, owed, due, edge, on, events, target>>
      /\ outside < MaxOutside /\ outside' = outside + 1
      /\ acc = 0 /\ Fds \ open # {} /\ epollfd # 0
      /\ acc' = Min(Fds \ open) /\ open' = open \cup {acc'}
      /\ crossed' = (crossed \/ \E t \in Threads : target[t] = acc')
  BY DEF handle_accpet, Outside, startvars
<1>2. LoopFrame
  BY <1>1, LoopTypes DEF LoopFrame, started
<1>3. \A u \in Threads : InLoop(u)' = InLoop(u)
  BY <1>1 DEF InLoop
<1>4. acc' \in Fds \ open
  <2>1. Fds \ open \in SUBSET Nat
    BY LoopTypes
  <2> QED  BY <1>1, <2>1, MinIn
<1>5. LoopTypeOK'
  <2>1. outside' \in 0..MaxOutside
    BY <1>1, LoopTypes
  <2>2. crossed' \in BOOLEAN /\ open' \subseteq Fds /\ acc' \in open' \cup {0}
    BY <1>1, <1>4, LoopTypes
  <2> QED  BY <1>1, <2>1, <2>2, LoopTypes DEF LoopTypeOK
<1>6. ~crossed' => ~crossed /\ \A t \in Threads : target[t] # acc'
  BY <1>1
<1>7. RegInv'
  <2>1. ASSUME NEW u \in Threads, ~InLoop(u)' PROVE Untouched(u)'
    <3>1. Untouched(u)
      BY <1>3, <2>1, LoopTypes DEF NewOut
    <3> QED  BY <1>1, <1>4, <3>1 DEF Untouched, Instances
  <2>2. InOne' /\ ClosedOut' /\ AcceptedOut'
    BY <1>1, <1>4, LoopTypes DEF InOne, ClosedOut, AcceptedOut, Instances
  <2>3. BatchDone'
    BY <1>1, <1>6, LoopTypes DEF BatchDone
  <2> QED  BY <2>1, <2>2, <2>3 DEF RegInv, NewOut
<1>8. CountInv'
  <2>1. \A k \in Fds : Once(k)' => Once(k)
    BY <1>1, <1>3 DEF Once, Instances
  <2>2. outside' \in Nat /\ outside <= outside'
    BY <1>1, LoopTypes
  <2> QED  BY <1>1, <2>1, <2>2, LoopTypes, CountFrame
<1>9. NoneForgotten'
  <2>1. \A k \in open' \ {acc'} : k \in open \ {acc} /\ MaskNow(k)' = MaskNow(k)
    BY <1>1, LoopTypes DEF MaskNow
  <2> QED  BY <1>1, <1>3, <1>6, <2>1, LoopTypes, ForgottenFrame
<1> QED  BY <1>2, <1>5, <1>7, <1>8, <1>9 DEF LoopInv

\* One registration is changed and nothing else: add_event() of an accepted
\* connection, and Modify_event().
ChangesOne(n, m) ==
  /\ n \in open /\ m \in {"in", "out"} /\ epollfd # 0 /\ Ctl(epollfd, n, m)
  /\ \A f \in Instances \ {epollfd} : mask[f][n] = ""
  /\ \A u \in Threads : ~InLoop(u) => u # n
  /\ UNCHANGED <<started, pc, conns, on, events, target, crossed>>
  /\ acc' = IF acc = n THEN 0 ELSE acc
  /\ outside' \in 0..MaxOutside /\ outside <= outside'

LEMMA CtlKeeps ==
  ASSUME StartInv, LoopInv, NEW n, NEW m, ChangesOne(n, m)
  PROVE  LoopFrame /\ LoopInv'
<1>1. /\ UNCHANGED <<epollfd, flag_x, made, pc, tmp, raced, crossed>>
      /\ UNCHANGED <<open, reset, data, owed, due, edge, on, events, target>>
      /\ n \in open /\ epollfd # 0 /\ acc' = IF acc = n THEN 0 ELSE acc
      /\ outside' \in 0..MaxOutside /\ outside <= outside' /\ m # "" /\ m # "once"
  BY DEF ChangesOne, started, conns
<1>2. n \in Fds /\ epollfd \in Instances /\ m \in Masks /\ n # 0
  BY <1>1, LoopTypes DEF Masks, ChangesOne
<1>3. /\ mask' \in [Instances -> [Fds -> Masks]]
      /\ \A f \in Instances, k \in Fds :
           mask'[f][k] = IF f = epollfd /\ k = n THEN m ELSE mask[f][k]
  <2>1. Ctl(epollfd, n, m) /\ mask \in [Instances -> [Fds -> Masks]]
    BY LoopTypes DEF ChangesOne
  <2> QED  BY <1>2, <2>1, MaskSet
<1>4. LoopFrame
  BY <1>1, <1>3, LoopTypes DEF LoopFrame, started
<1>5. \A u \in Threads : InLoop(u)' = InLoop(u)
  BY <1>1 DEF InLoop
<1>6. LoopTypeOK'
  BY <1>1, LoopTypes DEF LoopTypeOK
<1>7. RegInv'
  <2>1. ASSUME NEW u \in Threads, ~InLoop(u)' PROVE Untouched(u)'
    <3>1. Untouched(u) /\ u # n /\ u \in Fds /\ u # 0
      BY <1>5, <2>1, LoopTypes DEF NewOut, ChangesOne
    <3>2. \A f \in Instances : mask'[f][u] = ""
      BY <1>3, <3>1 DEF Untouched
    <3> QED  BY <1>1, <3>1, <3>2 DEF Untouched, Instances
  <2>2. InOne' /\ ClosedOut'
    <3>1. /\ InOne /\ ClosedOut /\ open' = open
          /\ m # "" => n \in open /\ \A f \in Instances \ {epollfd} : mask[f][n] = ""
      BY <1>1, LoopTypes DEF ChangesOne
    <3>2. \A f \in Instances, k \in Fds :
            mask'[f][k] = IF f = epollfd /\ k = n THEN m ELSE mask[f][k]
      BY <1>3
    <3>3. epollfd \in Instances /\ n \in Fds \cup {0} /\ m \in Masks
      BY <1>2
    <3> QED  BY <3>1, <3>2, <3>3, MaskOut, Zenon
  <2>3. AcceptedOut'
    <3> SUFFICES ASSUME acc' # 0, NEW f \in Instances PROVE mask'[f][acc'] = ""
      BY <1>1 DEF AcceptedOut, Instances
    <3>1. acc' = acc /\ acc # n /\ acc \in Fds
      BY <1>1, LoopTypes DEF LoopTypeOK
    <3> QED  BY <1>3, <3>1, LoopTypes DEF AcceptedOut
  <2>4. BatchDone'
    BY <1>1, LoopTypes DEF BatchDone
  <2> QED  BY <2>1, <2>2, <2>3, <2>4 DEF RegInv, NewOut
<1>8. CountInv'
  <2>1. \A k \in Fds : Once(k)' => Once(k)
    BY <1>1, <1>3, <1>5 DEF Once, Instances
  <2>2. outside' \in 0..MaxOutside
    BY <1>1
  <2>3. outside' \in Nat
    BY <2>2, EventLoopAssumption
  <2> QED  BY <1>1, <2>1, <2>3, LoopTypes, CountFrame
<1>9. NoneForgotten'
  <2>1. ASSUME NEW k \in open' \ {acc'}
        PROVE  (k \in open \ {acc} /\ (~crossed' /\ MaskNow(k) # "" => MaskNow(k)' # ""))
                 \/ MaskNow(k)' # ""
    <3>1. k \in Fds
      BY <1>1, LoopTypes
    <3>2. CASE k = n
      BY <1>1, <1>2, <1>3, <3>2 DEF MaskNow
    <3>3. CASE k # n
      <4>1. MaskNow(k)' = MaskNow(k) /\ k # acc
        BY <1>1, <1>2, <1>3, <3>1, <3>3 DEF MaskNow
      <4> QED  BY <1>1, <4>1
    <3> QED  BY <3>2, <3>3
  <2> QED  BY <1>1, <1>5, <2>1, LoopTypes, ForgottenFrame
<1> QED  BY <1>4, <1>6, <1>7, <1>8, <1>9 DEF LoopInv

LEMMA AroundKeeps ==
  ASSUME StartInv, LoopInv, Around
  PROVE  LoopFrame /\ LoopInv'
<1>1. CASE AddAccepted
  <2>1. /\ acc # 0 /\ Ctl(epollfd, acc, "in") /\ acc' = 0 /\ outside' = outside
        /\ UNCHANGED <<started, pc, conns, on, events, target, crossed>>
    BY <1>1 DEF AddAccepted
  <2>2. /\ acc \in open /\ epollfd # 0 /\ \A e \in Instances : mask[e][acc] = ""
        /\ \A u \in Threads : ~InLoop(u) => u # acc
    BY <2>1, LoopTypes DEF LoopTypeOK, AcceptedOut, NewOut, Untouched
  <2>4. outside' \in 0..MaxOutside /\ outside <= outside'
    BY <2>1, LoopTypes
  <2>3. ChangesOne(acc, "in")
    BY <2>1, <2>2, <2>4 DEF ChangesOne
  <2> QED  BY <2>3, CtlKeeps
<1>2. ASSUME NEW n \in Fds, Modify_event(n) PROVE LoopFrame /\ LoopInv'
  <2>1. /\ outside < MaxOutside /\ outside' = outside + 1
        /\ MaskNow(n) \in {"once", "in"} /\ Ctl(epollfd, n, "out") /\ acc' = acc
        /\ UNCHANGED <<started, pc, conns, on, events, target, crossed>>
    BY <1>2 DEF Modify_event, Outside
  <2>2. epollfd # 0 /\ epollfd \in Instances /\ mask[epollfd][n] # ""
    BY <2>1, LoopTypes DEF MaskNow
  <2>3. /\ n \in open /\ acc # n
        /\ \A f \in Instances \ {epollfd} : mask[f][n] = ""
        /\ \A u \in Threads : ~InLoop(u) => u # n
    BY <2>2, LoopTypes DEF InOne, ClosedOut, AcceptedOut, NewOut, Untouched
  <2>4. outside' \in 0..MaxOutside /\ outside <= outside'
    BY <2>1, LoopTypes
  <2>5. ChangesOne(n, "out")
    BY <2>1, <2>2, <2>3, <2>4 DEF ChangesOne
  <2> QED  BY <2>5, CtlKeeps
<1> QED  BY <1>1, <1>2, ArriveKeeps, AcceptKeeps DEF Around

----------------------------------------------------------------------------
(* A thread in its loop.                                                   *)

\* Only thread t moves, from a place in its loop to another.
Moves(t) == /\ UNCHANGED <<epollfd, flag_x, made, tmp, raced>>
            /\ pc[t] \in LoopPcs /\ pc'[t] \in LoopPcs
            /\ pc' \in [Threads -> AllPcs]
            /\ \A u \in Threads \ {t} : pc'[u] = pc[u]

LEMMA MovesFrame ==
  ASSUME NEW t \in Threads, Moves(t), mask' \in [Instances -> [Fds -> Masks]]
  PROVE  LoopFrame /\ \A u \in Threads : InLoop(u)' = InLoop(u)
<1>1. \A u \in Threads : pc'[u] # pc[u] => pc[u] \in LoopPcs /\ pc'[u] \in LoopPcs
  BY DEF Moves
<1>2. \A u \in Threads : InLoop(u)' = InLoop(u)
  BY <1>1 DEF InLoop, LoopPcs, Pcs
<1> QED  BY <1>1, <1>2 DEF Moves, LoopFrame, started

LEMMA WaitKeeps ==
  ASSUME StartInv, LoopInv, NEW t \in Threads, WaitCall(t) \/ HandleEvents(t)
  PROVE  LoopFrame /\ LoopInv'
<1>1. /\ UNCHANGED <<epollfd, flag_x, made, tmp, raced, mask>>
      /\ UNCHANGED <<open, reset, data, owed, due, edge, events, target>>
      /\ UNCHANGED <<outside, acc, crossed>>
      /\ on' = [on EXCEPT ![t] = epollfd]
      /\ \/ pc[t] = "loop" /\ pc'[t] = "wait"
         \/ pc[t] = "call" /\ pc'[t] = "handle"
      /\ pc' \in [Threads -> AllPcs] /\ \A u \in Threads \ {t} : pc'[u] = pc[u]
  BY LoopTypes DEF WaitCall, HandleEvents, Goto, started, conns, AllPcs, Pcs
<1>2. Moves(t)
  BY <1>1 DEF Moves, LoopPcs
<1>3. LoopFrame /\ \A u \in Threads : InLoop(u)' = InLoop(u)
  BY <1>1, <1>2, LoopTypes, MovesFrame
<1>4. LoopTypeOK'
  <2>1. on' \in [Threads -> 0..Cardinality(Threads)]
    BY <1>1, LoopTypes DEF LoopTypeOK
  <2> QED  BY <1>1, <2>1, LoopTypes DEF LoopTypeOK, AllPcs
<1>5. RegInv'
  <2>1. \A u \in Threads : /\ pc'[u] \in {"call", "handle", "close", "del"} <=>
                                pc[u] \in {"call", "handle", "close", "del"}
                           /\ pc'[u] = "del" => pc[u] = "del"
    BY <1>1
  <2> QED  BY <1>1, <1>3, <2>1, LoopTypes, RegFrame DEF AcceptedOut
<1>6. CountInv'
  <2>1. \A k \in Fds : Once(k)' => Once(k)
    BY <1>1, <1>3 DEF Once, Instances
  <2>2. outside' \in Nat /\ outside <= outside'
    BY <1>1, LoopTypes
  <2> QED  BY <1>1, <2>1, <2>2, LoopTypes, CountFrame
<1>7. NoneForgotten'
  BY <1>1, <1>3, LoopTypes, ForgottenFrame DEF MaskNow
<1> QED  BY <1>3, <1>4, <1>5, <1>6, <1>7 DEF LoopInv

\* What an instance reports: only what is registered in it, and an arrival with
\* EPOLLET only if it was not reported before.
LEMMA ReadyFacts ==
  ASSUME StartInv, LoopInv, NEW e \in Instances
  PROVE  /\ Ready(e) \in SUBSET [n : Fds, ev : {"in", "out"}]
         /\ \A r \in Ready(e) : r.n \in open /\ mask[e][r.n] # ""
         /\ \A n \in Fds : [n |-> n, ev |-> "in"] \in Ready(e) =>
                             \/ mask[e][n] = "once" /\ n \in edge
                             \/ mask[e][n] = "in"
<1>1. ASSUME NEW r \in Ready(e)
      PROVE  /\ r \in [n : Fds, ev : {"in", "out"}] /\ r.n \in open /\ mask[e][r.n] # ""
             /\ r.ev = "in" => (mask[e][r.n] = "once" /\ r.n \in edge) \/ mask[e][r.n] = "in"
  <2>1. \/ \E n \in open : /\ r = [n |-> n, ev |-> "in"]
                           /\ (mask[e][n] = "once" /\ n \in edge) \/ mask[e][n] = "in"
        \/ \E n \in open : r = [n |-> n, ev |-> "out"] /\ mask[e][n] = "out"
    BY <1>1 DEF Ready
  <2>2. open \in SUBSET Fds
    BY LoopTypes
  <2>3. ASSUME NEW n \in open, r = [n |-> n, ev |-> "in"],
               (mask[e][n] = "once" /\ n \in edge) \/ mask[e][n] = "in"
        PROVE  /\ r \in [n : Fds, ev : {"in", "out"}] /\ r.n \in open /\ mask[e][r.n] # ""
               /\ (mask[e][r.n] = "once" /\ r.n \in edge) \/ mask[e][r.n] = "in"
    <3>1. r.n = n /\ r.ev = "in" /\ n \in Fds
      BY <2>2, <2>3
    <3> QED  BY <2>3, <3>1
  <2>4. ASSUME NEW n \in open, r = [n |-> n, ev |-> "out"], mask[e][n] = "out"
        PROVE  /\ r \in [n : Fds, ev : {"in", "out"}] /\ r.n \in open /\ mask[e][r.n] # ""
               /\ r.ev # "in"
    <3>1. r.n = n /\ r.ev = "out" /\ n \in Fds
      BY <2>2, <2>4
    <3> QED  BY <2>4, <3>1
  <2> QED  BY <2>1, <2>3, <2>4, Zenon
<1>2. ASSUME NEW n \in Fds, [n |-> n, ev |-> "in"] \in Ready(e)
      PROVE  (mask[e][n] = "once" /\ n \in edge) \/ mask[e][n] = "in"
  BY <1>1, <1>2
<1>3. Ready(e) \in SUBSET [n : Fds, ev : {"in", "out"}]
  <2>1. \A r \in Ready(e) : r \in [n : Fds, ev : {"in", "out"}]
    BY <1>1
  <2> QED  BY <2>1, Zenon
<1>4. \A r \in Ready(e) : r.n \in open /\ mask[e][r.n] # ""
  BY <1>1
<1> QED  BY <1>2, <1>3, <1>4, Zenon

LEMMA ReturnKeeps ==
  ASSUME StartInv, LoopInv, NEW t \in Threads, WaitReturns(t)
  PROVE  LoopFrame /\ LoopInv'
<1> DEFINE rep == Ready(on[t])
<1>1. /\ UNCHANGED <<epollfd, flag_x, made, tmp, raced, mask>>
      /\ UNCHANGED <<open, reset, data, owed, due, target>>
      /\ UNCHANGED <<outside, acc, crossed>>
      /\ on[t] # 0 /\ on' = [on EXCEPT ![t] = 0]
      /\ events' = [events EXCEPT ![t] = rep] /\ edge' = Reported(rep)
      /\ pc[t] = "wait" /\ pc'[t] = "call"
      /\ pc' \in [Threads -> AllPcs] /\ \A u \in Threads \ {t} : pc'[u] = pc[u]
  BY LoopTypes DEF WaitReturns, Goto, started, AllPcs, Pcs
<1>2. Moves(t)
  BY <1>1 DEF Moves, LoopPcs
<1>3. LoopFrame /\ \A u \in Threads : InLoop(u)' = InLoop(u)
  BY <1>1, <1>2, LoopTypes, MovesFrame
<1>4. on[t] \in Instances
  BY <1>1, LoopTypes DEF LoopTypeOK
<1>5. /\ rep \in SUBSET [n : Fds, ev : {"in", "out"}]
      /\ \A r \in rep : r.n \in open /\ mask[on[t]][r.n] # ""
      /\ \A n \in Fds : [n |-> n, ev |-> "in"] \in rep =>
                          \/ mask[on[t]][n] = "once" /\ n \in edge
                          \/ mask[on[t]][n] = "in"
  BY <1>4, ReadyFacts
<1> HIDE DEF rep
<1>6. events \in [Threads -> SUBSET [n : Fds, ev : {"in", "out"}]] /\ events[t] = {}
  BY <1>1, LoopTypes DEF LoopTypeOK, BatchDone
<1>7. events'[t] = rep /\ \A u \in Threads \ {t} : events'[u] = events[u]
  BY <1>1, <1>6
<1>8. LoopTypeOK'
  <2>1. on' \in [Threads -> 0..Cardinality(Threads)]
    BY <1>1, LoopTypes DEF LoopTypeOK
  <2>2. events' \in [Threads -> SUBSET [n : Fds, ev : {"in", "out"}]]
    BY <1>1, <1>5, <1>6
  <2>3. edge' \subseteq Fds
    BY <1>1, LoopTypes DEF LoopTypeOK, Reported
  <2> QED  BY <1>1, <2>1, <2>2, <2>3, LoopTypes DEF LoopTypeOK, AllPcs
<1>9. RegInv'
  <2>1. ASSUME NEW u \in Threads, ~InLoop(u)' PROVE Untouched(u)'
    <3>1. Untouched(u)
      BY <1>3, <2>1, LoopTypes DEF NewOut
    <3>2. \A r \in rep : r.n # u
      BY <1>4, <1>5, <3>1 DEF Untouched
    <3>3. \A v \in Threads : \A r \in events'[v] : r.n # u
      BY <1>7, <3>1, <3>2 DEF Untouched
    <3> QED  BY <1>1, <3>1, <3>3 DEF Untouched, Instances
  <2>2. InOne' /\ ClosedOut' /\ AcceptedOut'
    BY <1>1, LoopTypes DEF InOne, ClosedOut, AcceptedOut, Instances
  <2>3. BatchDone'
    BY <1>1, <1>7, LoopTypes DEF BatchDone
  <2> QED  BY <2>1, <2>2, <2>3 DEF RegInv, NewOut
<1>10. CountInv'
  <2> SUFFICES ASSUME NEW k \in Fds
               PROVE  /\ owed'[k] <= outside'
                      /\ Once(k)' => Cardinality(Pending(k)') + (IF k \in edge' THEN 1 ELSE 0)
                                       <= owed'[k]
    BY DEF CountInv
  <2>1. owed'[k] = owed[k] /\ owed[k] \in Int /\ owed'[k] <= outside'
    BY <1>1, LoopTypes
  <2>2. Once(k)' = Once(k)
    BY <1>1, <1>3 DEF Once, Instances
  <2>3. Once(k) => Cardinality(Pending(k)) + (IF k \in edge THEN 1 ELSE 0) <= owed[k]
    BY LoopTypes DEF CountInv
  <2>4. t \notin Pending(k)
    BY <1>6 DEF Pending
  <2>5. k \in edge' => k \in edge
    BY <1>1 DEF Reported
  <2>6. CASE [n |-> k, ev |-> "in"] \notin rep
    <3>1. Pending(k)' = Pending(k)
      BY <1>6, <1>7, <2>6 DEF Pending
    <3>2. Cardinality(Pending(k)) \in Nat
      BY PendingSize
    <3> QED  BY <2>1, <2>2, <2>3, <2>5, <3>1, <3>2
  <2>7. CASE [n |-> k, ev |-> "in"] \in rep
    <3>1. Pending(k)' = Pending(k) \cup {t}
      BY <1>7, <2>7 DEF Pending
    <3>2. Cardinality(Pending(k)') = Cardinality(Pending(k)) + 1
      BY <2>4, <3>1, OneMore, PendingSize
    <3>3. k \notin edge'
      <4>1. [n |-> k, ev |-> "in"].ev = "in" /\ [n |-> k, ev |-> "in"].n = k
        OBVIOUS
      <4> QED  BY <1>1, <2>7, <4>1 DEF Reported
    <3>4. Once(k) => k \in edge
      <4>1. mask[on[t]][k] # "" /\ (mask[on[t]][k] = "in" \/ k \in edge)
        BY <1>5, <2>7
      <4>2. k \in Threads => InLoop(k)
        BY <1>4, <4>1, LoopTypes DEF NewOut, Untouched
      <4>3. ASSUME NEW e \in Instances, mask[e][k] = "once" PROVE e = on[t]
        <5>1. mask[e][k] # ""
          BY <4>3
        <5> QED  BY <1>4, <4>1, <5>1, LoopTypes DEF InOne
      <4> QED  BY <4>1, <4>2, <4>3 DEF Once
    <3>5. Cardinality(Pending(k)) \in Nat
      BY PendingSize
    <3> QED  BY <2>1, <2>2, <2>3, <3>2, <3>3, <3>4, <3>5
  <2> QED  BY <2>6, <2>7
<1>11. NoneForgotten'
  BY <1>1, <1>3, LoopTypes, ForgottenFrame DEF MaskNow
<1> QED  BY <1>3, <1>8, <1>9, <1>10, <1>11 DEF LoopInv

\* The rest of a batch: the thread handles it, or goes back to the loop.
LEMMA ContinueFacts ==
  ASSUME StartInv, LoopInv, NEW t \in Threads, pc[t] \in {"handle", "del"},
         NEW evs \in SUBSET events[t], Continue(t, evs)
  PROVE  /\ Moves(t) /\ UNCHANGED <<outside, acc, crossed>>
         /\ pc'[t] \in {"handle", "loop"} /\ (pc'[t] = "loop" => evs = {})
         /\ events' = [events EXCEPT ![t] = evs]
         /\ events'[t] = evs /\ \A u \in Threads \ {t} : events'[u] = events[u]
         /\ \A u \in Threads : events'[u] \in SUBSET events[u]
         /\ events' \in [Threads -> SUBSET [n : Fds, ev : {"in", "out"}]]
         /\ on' \in [Threads -> 0..Cardinality(Threads)]
<1>1. /\ UNCHANGED <<epollfd, flag_x, made, tmp, raced, outside, acc, crossed>>
      /\ events' = [events EXCEPT ![t] = evs]
      /\ pc' = [pc EXCEPT ![t] = IF evs = {} THEN "loop" ELSE "handle"]
      /\ on' = [on EXCEPT ![t] = IF evs = {} THEN 0 ELSE @]
  BY DEF Continue, started
<1>2. /\ pc \in [Threads -> AllPcs]
      /\ events \in [Threads -> SUBSET [n : Fds, ev : {"in", "out"}]]
      /\ on \in [Threads -> 0..Cardinality(Threads)] /\ Cardinality(Threads) \in Nat
  BY LoopTypes DEF LoopTypeOK
<1>3. Moves(t) /\ pc'[t] \in {"handle", "loop"} /\ (pc'[t] = "loop" => evs = {})
  BY <1>1, <1>2 DEF Moves, LoopPcs, AllPcs, Pcs
<1>4. events'[t] = evs /\ \A u \in Threads \ {t} : events'[u] = events[u]
  BY <1>1, <1>2
<1>5. \A u \in Threads : events'[u] \in SUBSET events[u]
  BY <1>4
<1>6. events' \in [Threads -> SUBSET [n : Fds, ev : {"in", "out"}]]
  BY <1>1, <1>2
<1>7. on' \in [Threads -> 0..Cardinality(Threads)]
  BY <1>1, <1>2
<1> QED  BY <1>1, <1>3, <1>4, <1>5, <1>6, <1>7

\* BatchDone, when thread t has come to a place in the middle or to the end of
\* its batch.
LEMMA BatchFrame ==
  ASSUME BatchDone, NEW t \in Threads, Moves(t), open' = open, crossed' = crossed,
         \A u \in Threads \ {t} : events'[u] = events[u] /\ target'[u] = target[u],
         pc'[t] \in {"handle", "close", "loop"}, pc'[t] = "loop" => events'[t] = {}
  PROVE  BatchDone'
BY DEF BatchDone, Moves

\* NewOut, where no connection is opened or closed, and the batches shrink.
LEMMA NewFrame ==
  ASSUME NewOut, \A u \in Threads : InLoop(u)' = InLoop(u), UNCHANGED <<open, acc>>,
         \A u \in Threads : events'[u] \in SUBSET events[u],
         \A u \in Threads : target'[u] = target[u] \/ (\E r \in events[u] : target'[u] = r.n)
                              \/ target'[u] = 0,
         \A u \in Threads : (\A e \in Instances : mask[e][u] = "")
                              => \A e \in Instances : mask'[e][u] = "",
         0 \notin open
  PROVE  NewOut'
<1> SUFFICES ASSUME NEW u \in Threads, ~InLoop(u) PROVE Untouched(u)'
  BY DEF NewOut
<1>1. /\ u \in open /\ acc # u /\ \A e \in Instances : mask[e][u] = ""
      /\ \A v \in Threads : target[v] # u
      /\ \A v \in Threads : \A r \in events[v] : r.n # u
  BY DEF NewOut, Untouched
<1>2. \A v \in Threads : target'[v] # u
  BY <1>1
<1>3. \A v \in Threads : \A r \in events'[v] : r.n # u
  BY <1>1
<1>4. \A e \in Instances : mask'[e][u] = ""
  BY <1>1
<1> QED  BY <1>1, <1>2, <1>3, <1>4 DEF Untouched, Instances

\* The rest of RegInv, where no registration changes.
LEMMA OutFrame ==
  ASSUME InOne, ClosedOut, AcceptedOut, UNCHANGED <<mask, open, acc, epollfd>>
  PROVE  InOne' /\ ClosedOut' /\ AcceptedOut'
BY DEF InOne, ClosedOut, AcceptedOut, Instances

LEMMA ReadKeeps ==
  ASSUME StartInv, LoopInv, NEW t \in Threads, NEW r \in events[t], do_read(t, r)
  PROVE  LoopFrame /\ LoopInv'
<1>1. /\ UNCHANGED <<mask, open, reset, data, edge, target>>
      /\ pc[t] = "handle" /\ r.ev = "in" /\ Continue(t, Rest(t, r))
      /\ owed' = [owed EXCEPT ![r.n] = Max({-1, @ - 1})] /\ due' = due \ {r.n}
      /\ Rest(t, r) = events[t] \ {r}
  BY DEF do_read, Rest
<1>2. r \in [n : Fds, ev : {"in", "out"}]
  BY LoopTypes DEF LoopTypeOK
<1>3. r.n \in Fds /\ r = [n |-> r.n, ev |-> "in"]
  BY <1>1, <1>2
<1>4. Rest(t, r) \in SUBSET events[t]
  BY <1>1
<1>5. /\ Moves(t) /\ UNCHANGED <<outside, acc, crossed>>
      /\ pc'[t] \in {"handle", "loop"} /\ (pc'[t] = "loop" => Rest(t, r) = {})
      /\ events'[t] = Rest(t, r) /\ \A u \in Threads \ {t} : events'[u] = events[u]
      /\ \A u \in Threads : events'[u] \in SUBSET events[u]
      /\ events' \in [Threads -> SUBSET [n : Fds, ev : {"in", "out"}]]
      /\ on' \in [Threads -> 0..Cardinality(Threads)]
  BY <1>1, <1>4, ContinueFacts
<1>6. LoopFrame /\ \A u \in Threads : InLoop(u)' = InLoop(u)
  BY <1>1, <1>5, LoopTypes, MovesFrame
<1>7. /\ \A k \in Fds : owed'[k] = IF k = r.n THEN Max({-1, owed[k] - 1}) ELSE owed[k]
      /\ owed[r.n] \in Int
      /\ Max({-1, owed[r.n] - 1}) = IF owed[r.n] - 1 < -1 THEN -1 ELSE owed[r.n] - 1
  <2>1. owed \in [Fds -> -1..MaxOutside] /\ owed[r.n] \in Int /\ owed[r.n] - 1 \in Int
    BY <1>3, LoopTypes DEF LoopTypeOK
  <2> QED  BY <1>1, <1>3, <2>1, MaxPair
<1>8. LoopTypeOK'
  <2>1. Max({-1, owed[r.n] - 1}) \in -1..MaxOutside
    BY <1>3, <1>7, LoopTypes
  <2>2. owed' \in [Fds -> -1..MaxOutside]
    BY <1>1, <1>3, <2>1, LoopTypes DEF LoopTypeOK
  <2> QED  BY <1>1, <1>5, <2>2, LoopTypes DEF LoopTypeOK, AllPcs, Moves
<1>9. RegInv'
  <2>1. InOne' /\ ClosedOut' /\ AcceptedOut'
    BY <1>1, <1>5, LoopTypes, OutFrame DEF Moves
  <2>2. BatchDone'
    BY <1>1, <1>5, LoopTypes, BatchFrame
  <2>3. NewOut'
    BY <1>1, <1>5, <1>6, LoopTypes, NewFrame
  <2> QED  BY <2>1, <2>2, <2>3 DEF RegInv
<1>10. CountInv'
  <2> SUFFICES ASSUME NEW k \in Fds
               PROVE  /\ owed'[k] <= outside'
                      /\ Once(k)' => Cardinality(Pending(k)') + (IF k \in edge' THEN 1 ELSE 0)
                                       <= owed'[k]
    BY DEF CountInv
  <2>1. Once(k)' = Once(k)
    BY <1>1, <1>6 DEF Once, Instances
  <2>2. Once(k) => Cardinality(Pending(k)) + (IF k \in edge THEN 1 ELSE 0) <= owed[k]
    BY LoopTypes DEF CountInv
  <2>3. /\ Cardinality(Pending(k)) \in Nat /\ owed[k] \in Int /\ edge' = edge
        /\ outside' = outside /\ outside \in Nat /\ owed[k] <= outside
    BY <1>1, <1>5, LoopTypes, PendingSize
  <2>4. CASE k # r.n
    <3>1. Pending(k)' = Pending(k)
      BY <1>1, <1>3, <1>5, <2>4 DEF Pending
    <3>2. owed'[k] = owed[k]
      BY <1>7, <2>4
    <3> QED  BY <2>1, <2>2, <2>3, <3>1, <3>2
  <2>5. CASE k = r.n
    <3>1. Pending(k)' = Pending(k) \ {t} /\ t \in Pending(k)
      BY <1>1, <1>3, <1>5, <2>5 DEF Pending
    <3>2. Cardinality(Pending(k)') = Cardinality(Pending(k)) - 1
      BY <3>1, OneMore, PendingSize
    <3>3. owed'[k] = IF owed[k] - 1 < -1 THEN -1 ELSE owed[k] - 1
      BY <1>7, <2>5
    <3>4. Cardinality(Pending(k)') \in Nat
      BY PendingSize
    <3> QED  BY <2>1, <2>2, <2>3, <3>2, <3>3, <3>4
  <2> QED  BY <2>4, <2>5
<1>11. NoneForgotten'
  BY <1>1, <1>5, <1>6, LoopTypes, ForgottenFrame DEF MaskNow, Moves
<1> QED  BY <1>6, <1>8, <1>9, <1>10, <1>11 DEF LoopInv

\* modify_event() after a write: the connection stays in the instance.
LEMMA WriteKeeps ==
  ASSUME StartInv, LoopInv, NEW t \in Threads, NEW r \in events[t], do_write(t, r)
  PROVE  LoopFrame /\ LoopInv'
<1>1. /\ UNCHANGED <<open, reset, data, owed, due, edge, target>>
      /\ pc[t] = "handle" /\ r.ev = "out" /\ Continue(t, Rest(t, r))
      /\ r.n \in open /\ Rest(t, r) = events[t] \ {r}
      /\ IF mask[on[t]][r.n] = "" THEN mask' = mask ELSE Ctl(on[t], r.n, "in")
  BY DEF do_write, Rest, conns, AfterWrite
<1>2. Rest(t, r) \in SUBSET events[t]
  BY <1>1
<1>3. /\ Moves(t) /\ UNCHANGED <<outside, acc, crossed>>
      /\ pc'[t] \in {"handle", "loop"} /\ (pc'[t] = "loop" => Rest(t, r) = {})
      /\ events'[t] = Rest(t, r) /\ \A u \in Threads \ {t} : events'[u] = events[u]
      /\ \A u \in Threads : events'[u] \in SUBSET events[u]
      /\ events' \in [Threads -> SUBSET [n : Fds, ev : {"in", "out"}]]
      /\ on' \in [Threads -> 0..Cardinality(Threads)]
  BY <1>1, <1>2, ContinueFacts
<1>4. mask' \in [Instances -> [Fds -> Masks]]
      /\ \A f \in Instances, k \in Fds :
           mask'[f][k] = IF mask[f][k] # "" /\ k = r.n /\ f = on[t] THEN "in" ELSE mask[f][k]
  <2>1. on[t] \in 0..Cardinality(Threads) /\ mask \in [Instances -> [Fds -> Masks]]
    BY LoopTypes DEF LoopTypeOK
  <2>2. CASE mask[on[t]][r.n] = ""
    BY <1>1, <2>1, <2>2
  <2>3. CASE on[t] = 0
    <3>1. mask' = mask
      BY <1>1, <2>3 DEF Ctl
    <3>2. \A f \in Instances : f # on[t]
      BY <2>3, ThreadCount DEF Instances
    <3> QED  BY <2>1, <3>1, <3>2
  <2>4. CASE mask[on[t]][r.n] # "" /\ on[t] # 0
    <3>1. on[t] \in Instances /\ "in" \in Masks /\ Ctl(on[t], r.n, "in")
      BY <1>1, <2>1, <2>4, LoopTypes DEF Masks
    <3>2. /\ mask' \in [Instances -> [Fds -> Masks]]
          /\ \A f \in Instances, k \in Fds :
               mask'[f][k] = IF f = on[t] /\ k = r.n THEN "in" ELSE mask[f][k]
      BY <2>1, <3>1, MaskSet
    <3> QED  BY <2>4, <3>2
  <2> QED  BY <2>2, <2>3, <2>4
<1>5. LoopFrame /\ \A u \in Threads : InLoop(u)' = InLoop(u)
  BY <1>3, <1>4, MovesFrame
<1>6. \A f \in Instances, k \in Fds : mask'[f][k] = "" <=> mask[f][k] = ""
  BY <1>4
<1>7. LoopTypeOK'
  BY <1>1, <1>3, LoopTypes DEF LoopTypeOK, AllPcs, Moves
<1>8. RegInv'
  <2>1. InOne' /\ ClosedOut'
    BY <1>1, <1>6, LoopTypes DEF InOne, ClosedOut, Instances
  <2>2. AcceptedOut'
    <3>1. acc # 0 => acc \in Fds
      BY LoopTypes DEF LoopTypeOK
    <3> QED  BY <1>3, <1>6, <3>1, LoopTypes DEF AcceptedOut, Instances, Moves
  <2>3. BatchDone'
    BY <1>1, <1>3, LoopTypes, BatchFrame
  <2>4. NewOut'
    <3>1. \A u \in Threads : (\A e \in Instances : mask[e][u] = "")
                               => \A e \in Instances : mask'[e][u] = ""
      BY <1>6, LoopTypes
    <3> QED  BY <1>1, <1>3, <1>5, <3>1, LoopTypes, NewFrame
  <2> QED  BY <2>1, <2>2, <2>3, <2>4 DEF RegInv
<1>9. CountInv'
  <2>1. \A k \in Fds : Once(k)' => Once(k)
    BY <1>4, <1>5 DEF Once, Instances
  <2>2. outside' \in Nat /\ outside <= outside'
    BY <1>3, LoopTypes
  <2>3. \A k \in Fds : Pending(k)' = Pending(k)
    <3>1. events'[t] = events[t] \ {r} /\ r.ev = "out"
      BY <1>1, <1>3
    <3> QED  BY <1>3, <3>1 DEF Pending
  <2> QED  BY <1>1, <2>1, <2>2, <2>3, LoopTypes, CountKept
<1>10. NoneForgotten'
  <2>1. ASSUME NEW k \in open' \ {acc'}
        PROVE  k \in open \ {acc} /\ (~crossed' /\ MaskNow(k) # "" => MaskNow(k)' # "")
    <3>1. k \in open \ {acc} /\ k \in Fds
      BY <1>1, <1>3, LoopTypes
    <3>2. epollfd' = epollfd /\ (epollfd # 0 => epollfd \in Instances)
      BY <1>3, LoopTypes DEF Moves
    <3> QED  BY <1>6, <3>1, <3>2 DEF MaskNow
  <2> QED  BY <1>3, <1>5, <2>1, LoopTypes, ForgottenFrame DEF Moves
<1> QED  BY <1>5, <1>7, <1>8, <1>9, <1>10 DEF LoopInv

LEMMA FailKeeps ==
  ASSUME StartInv, LoopInv, NEW t \in Threads, NEW r \in events[t], WriteFails(t, r)
  PROVE  LoopFrame /\ LoopInv'
<1>1. /\ UNCHANGED <<epollfd, flag_x, made, tmp, raced, mask>>
      /\ UNCHANGED <<open, reset, data, owed, due, edge, on, outside, acc, crossed>>
      /\ r.ev = "out" /\ events' = [events EXCEPT ![t] = events[t] \ {r}]
      /\ target' = [target EXCEPT ![t] = r.n]
      /\ pc[t] = "handle" /\ pc'[t] = "close"
      /\ pc' \in [Threads -> AllPcs] /\ \A u \in Threads \ {t} : pc'[u] = pc[u]
  BY LoopTypes DEF WriteFails, Rest, started, conns, AllPcs, Pcs
<1>2. /\ events \in [Threads -> SUBSET [n : Fds, ev : {"in", "out"}]]
      /\ target \in [Threads -> Fds \cup {0}]
      /\ r \in [n : Fds, ev : {"in", "out"}] /\ r.n \in Fds
  BY LoopTypes DEF LoopTypeOK
<1>3. /\ events'[t] = events[t] \ {r} /\ \A u \in Threads \ {t} : events'[u] = events[u]
      /\ target'[t] = r.n /\ \A u \in Threads \ {t} : target'[u] = target[u]
      /\ events' \in [Threads -> SUBSET [n : Fds, ev : {"in", "out"}]]
      /\ target' \in [Threads -> Fds \cup {0}]
  BY <1>1, <1>2
<1>4. Moves(t)
  BY <1>1 DEF Moves, LoopPcs
<1>5. LoopFrame /\ \A u \in Threads : InLoop(u)' = InLoop(u)
  BY <1>1, <1>4, LoopTypes, MovesFrame
<1>6. LoopTypeOK'
  BY <1>1, <1>3, LoopTypes DEF LoopTypeOK, AllPcs
<1>7. RegInv'
  <2>1. InOne' /\ ClosedOut' /\ AcceptedOut'
    BY <1>1, LoopTypes, OutFrame
  <2>2. BatchDone'
    BY <1>1, <1>3, <1>4, LoopTypes, BatchFrame
  <2>3. NewOut'
    <3>1. \A u \in Threads : events'[u] \in SUBSET events[u]
      BY <1>3
    <3>2. \A u \in Threads : target'[u] = target[u] \/ (\E q \in events[u] : target'[u] = q.n)
                               \/ target'[u] = 0
      BY <1>3
    <3> QED  BY <1>1, <1>5, <3>1, <3>2, LoopTypes, NewFrame
  <2> QED  BY <2>1, <2>2, <2>3 DEF RegInv
<1>8. CountInv'
  <2>1. \A k \in Fds : Once(k)' => Once(k)
    BY <1>1, <1>5 DEF Once, Instances
  <2>2. outside' \in Nat /\ outside <= outside'
    BY <1>1, LoopTypes
  <2>3. \A k \in Fds : Pending(k)' = Pending(k)
    BY <1>1, <1>3 DEF Pending
  <2> QED  BY <1>1, <2>1, <2>2, <2>3, LoopTypes, CountKept
<1>9. NoneForgotten'
  BY <1>1, <1>5, LoopTypes, ForgottenFrame DEF MaskNow
<1> QED  BY <1>5, <1>6, <1>7, <1>8, <1>9 DEF LoopInv

LEMMA CloseKeeps ==
  ASSUME StartInv, LoopInv, NEW t \in Threads, Close(t)
  PROVE  LoopFrame /\ LoopInv'
<1> DEFINE n == target[t]
<1>1. /\ UNCHANGED <<epollfd, flag_x, made, tmp, raced>>
      /\ UNCHANGED <<on, events, target, outside, crossed>>
      /\ open' = open \ {n} /\ reset' = reset \ {n} /\ due' = due \ {n}
      /\ edge' = edge \ {n} /\ data' = data \ {n} /\ owed' = [owed EXCEPT ![n] = 0]
      /\ acc' = IF acc = n THEN 0 ELSE acc
      /\ mask' = [e \in Instances |-> [mask[e] EXCEPT ![n] = ""]]
      /\ pc[t] = "close" /\ pc'[t] = "del"
      /\ pc' \in [Threads -> AllPcs] /\ \A u \in Threads \ {t} : pc'[u] = pc[u]
  BY LoopTypes DEF Close, Goto, started, AllPcs, Pcs
<1>2. n \in Fds \cup {0}
  BY LoopTypes DEF LoopTypeOK
<1>3. /\ mask' \in [Instances -> [Fds -> Masks]]
      /\ \A f \in Instances, k \in Fds : mask'[f][k] = IF k = n THEN "" ELSE mask[f][k]
  <2>1. mask \in [Instances -> [Fds -> Masks]] /\ "" \in Masks
    BY LoopTypes DEF Masks
  <2> HIDE DEF n
  <2> QED  BY <1>1, <2>1
<1>4. /\ owed' \in [Fds -> -1..MaxOutside]
      /\ \A k \in Fds : owed'[k] = IF k = n THEN 0 ELSE owed[k]
  <2>1. owed \in [Fds -> -1..MaxOutside] /\ 0 \in -1..MaxOutside
    BY LoopTypes DEF LoopTypeOK
  <2> HIDE DEF n
  <2> QED  BY <1>1, <2>1
<1>5. Moves(t)
  BY <1>1 DEF Moves, LoopPcs
<1>6. LoopFrame /\ \A u \in Threads : InLoop(u)' = InLoop(u)
  BY <1>3, <1>5, MovesFrame
<1>7. \A u \in Threads : ~InLoop(u) => n # u
  BY LoopTypes DEF NewOut, Untouched
<1> HIDE DEF n
<1>8. LoopTypeOK'
  <2>1. acc' \in open' \cup {0}
    BY <1>1, LoopTypes DEF LoopTypeOK
  <2> QED  BY <1>1, <1>4, <2>1, LoopTypes DEF LoopTypeOK, AllPcs
<1>9. RegInv'
  <2>1. InOne'
    <3>1. ASSUME NEW k \in Fds, NEW f \in Instances, NEW g \in Instances,
                 mask'[f][k] # "", mask'[g][k] # ""
          PROVE  f = g
      <4>1. mask[f][k] # "" /\ mask[g][k] # ""
        BY <1>3, <3>1
      <4> QED  BY <4>1, LoopTypes DEF InOne
    <3> QED  BY <3>1 DEF InOne, Instances
  <2>2. ClosedOut'
    <3>1. ASSUME NEW k \in Fds \ open', NEW f \in Instances PROVE mask'[f][k] = ""
      <4>1. k = n \/ mask[f][k] = ""
        BY <1>1, <3>1, LoopTypes DEF ClosedOut
      <4> QED  BY <1>3, <4>1
    <3> QED  BY <3>1 DEF ClosedOut, Instances
  <2>3. AcceptedOut'
    <3> SUFFICES ASSUME acc' # 0 PROVE epollfd # 0 /\ \A f \in Instances : mask'[f][acc'] = ""
      BY <1>1 DEF AcceptedOut, Instances
    <3>1. acc' = acc /\ acc \in Fds
      BY <1>1, LoopTypes DEF LoopTypeOK
    <3> QED  BY <1>3, <3>1, LoopTypes DEF AcceptedOut
  <2>4. BatchDone'
    <3>1. n \notin open' /\ target'[t] = n
      BY <1>1 DEF n
    <3>2. \A u \in Threads \ {t} : pc'[u] = "del" /\ ~crossed => target'[u] \notin open'
      BY <1>1, LoopTypes DEF BatchDone
    <3> QED  BY <1>1, <3>1, <3>2, LoopTypes DEF BatchDone
  <2>5. ASSUME NEW u \in Threads, ~InLoop(u)' PROVE Untouched(u)'
    <3>1. Untouched(u) /\ n # u /\ u \in Fds /\ u # 0
      BY <1>6, <1>7, <2>5, LoopTypes DEF NewOut
    <3>2. \A f \in Instances : mask'[f][u] = ""
      BY <1>3, <3>1 DEF Untouched
    <3>3. u \in open' /\ acc' # u
      BY <1>1, <3>1 DEF Untouched
    <3> QED  BY <1>1, <3>1, <3>2, <3>3 DEF Untouched, Instances
  <2> QED  BY <2>1, <2>2, <2>3, <2>4, <2>5 DEF RegInv, NewOut
<1>10. CountInv'
  <2> SUFFICES ASSUME NEW k \in Fds
               PROVE  /\ owed'[k] <= outside'
                      /\ Once(k)' => Cardinality(Pending(k)') + (IF k \in edge' THEN 1 ELSE 0)
                                       <= owed'[k]
    BY DEF CountInv
  <2>0. outside' = outside
    BY <1>1
  <2>1. outside' = outside /\ outside \in Nat /\ owed[k] <= outside
    BY <2>0, LoopTypes
  <2>2. CASE k = n
    <3>1. ~Once(k)'
      BY <1>3, <1>6, <1>7, <2>2 DEF Once, Instances
    <3>2. owed'[k] = 0
      BY <1>4, <2>2
    <3> QED  BY <2>1, <3>1, <3>2
  <2>3. CASE k # n
    <3>1. Once(k)' => Once(k)
      BY <1>3, <1>6, <2>3 DEF Once, Instances
    <3>2. Pending(k)' = Pending(k)
      BY <1>1 DEF Pending
    <3>3. owed'[k] = owed[k] /\ (k \in edge' <=> k \in edge)
      BY <1>1, <1>4, <2>3
    <3>4. Once(k) => Cardinality(Pending(k)) + (IF k \in edge THEN 1 ELSE 0) <= owed[k]
      BY LoopTypes DEF CountInv
    <3> QED  BY <2>1, <3>1, <3>2, <3>3, <3>4
  <2> QED  BY <2>2, <2>3
<1>11. NoneForgotten'
  <2>1. ASSUME NEW k \in open' \ {acc'}
        PROVE  k \in open \ {acc} /\ MaskNow(k)' = MaskNow(k)
    <3>1. k \in open \ {acc} /\ k # n /\ k \in Fds
      BY <1>1, LoopTypes
    <3>2. epollfd' = epollfd /\ (epollfd # 0 => epollfd \in Instances)
      BY <1>1, LoopTypes
    <3> QED  BY <1>3, <3>1, <3>2 DEF MaskNow
  <2> QED  BY <1>1, <1>6, <2>1, LoopTypes, ForgottenFrame
<1> QED  BY <1>6, <1>8, <1>9, <1>10, <1>11 DEF LoopInv

LEMMA DeleteKeeps ==
  ASSUME StartInv, LoopInv, NEW t \in Threads, delete_event(t)
  PROVE  LoopFrame /\ LoopInv'
<1>1. /\ UNCHANGED <<open, reset, data, owed, due, edge>>
      /\ pc[t] = "del" /\ Continue(t, events[t]) /\ Ctl(on[t], target[t], "")
      /\ target' = [target EXCEPT ![t] = 0]
  BY DEF delete_event, conns
<1>2. events[t] \in SUBSET events[t]
  OBVIOUS
<1>3. /\ Moves(t) /\ UNCHANGED <<outside, acc, crossed>>
      /\ pc'[t] \in {"handle", "loop"} /\ (pc'[t] = "loop" => events[t] = {})
      /\ events'[t] = events[t] /\ \A u \in Threads \ {t} : events'[u] = events[u]
      /\ \A u \in Threads : events'[u] \in SUBSET events[u]
      /\ events' \in [Threads -> SUBSET [n : Fds, ev : {"in", "out"}]]
      /\ on' \in [Threads -> 0..Cardinality(Threads)]
  BY <1>1, <1>2, ContinueFacts
<1>4. /\ target \in [Threads -> Fds \cup {0}] /\ target' \in [Threads -> Fds \cup {0}]
      /\ target'[t] = 0 /\ \A u \in Threads \ {t} : target'[u] = target[u]
  BY <1>1, LoopTypes DEF LoopTypeOK
<1>5. mask' \in [Instances -> [Fds -> Masks]]
      /\ \A f \in Instances, k \in Fds :
           mask'[f][k] = mask[f][k] \/ (mask'[f][k] = "" /\ k = target[t])
  <2>1. on[t] \in 0..Cardinality(Threads) /\ mask \in [Instances -> [Fds -> Masks]]
    BY LoopTypes DEF LoopTypeOK
  <2>2. CASE on[t] = 0
    <3>1. mask' = mask
      BY <1>1, <2>2 DEF Ctl
    <3> QED  BY <2>1, <3>1
  <2>3. CASE on[t] # 0
    <3>1. on[t] \in Instances /\ "" \in Masks /\ Ctl(on[t], target[t], "")
      BY <1>1, <2>1, <2>3, LoopTypes DEF Masks
    <3>2. /\ mask' \in [Instances -> [Fds -> Masks]]
          /\ \A f \in Instances, k \in Fds :
               mask'[f][k] = IF f = on[t] /\ k = target[t] THEN "" ELSE mask[f][k]
      <4> DEFINE e == on[t]
      <4> DEFINE n == target[t]
      <4>1. e \in Instances /\ mask' = [mask EXCEPT ![e][n] = ""]
        BY <2>3, <3>1 DEF Ctl
      <4> HIDE DEF e, n
      <4>2. /\ mask' \in [Instances -> [Fds -> Masks]]
            /\ \A f \in Instances, k \in Fds :
                 mask'[f][k] = IF f = e /\ k = n THEN "" ELSE mask[f][k]
        BY <2>1, <3>1, <4>1
      <4> QED  BY <4>2 DEF e, n
    <3> QED  BY <3>2
  <2> QED  BY <2>2, <2>3
<1>6. LoopFrame /\ \A u \in Threads : InLoop(u)' = InLoop(u)
  BY <1>3, <1>5, MovesFrame
<1>7. LoopTypeOK'
  BY <1>1, <1>3, <1>4, LoopTypes DEF LoopTypeOK, AllPcs, Moves
<1>8. RegInv'
  <2>1. InOne'
    <3>1. ASSUME NEW k \in Fds, NEW f \in Instances, NEW g \in Instances,
                 mask'[f][k] # "", mask'[g][k] # ""
          PROVE  f = g
      <4>1. mask[f][k] # "" /\ mask[g][k] # ""
        BY <1>5, <3>1
      <4> QED  BY <4>1, LoopTypes DEF InOne
    <3> QED  BY <3>1 DEF InOne, Instances
  <2>2. ClosedOut'
    <3>1. ASSUME NEW k \in Fds \ open, NEW f \in Instances PROVE mask'[f][k] = ""
      <4>1. mask[f][k] = ""
        BY <3>1, LoopTypes DEF ClosedOut
      <4> QED  BY <1>5, <4>1
    <3> QED  BY <1>1, <3>1 DEF ClosedOut, Instances
  <2>3. AcceptedOut'
    <3>1. acc # 0 => acc \in Fds
      BY LoopTypes DEF LoopTypeOK
    <3> QED  BY <1>3, <1>5, <3>1, LoopTypes DEF AcceptedOut, Instances, Moves
  <2>4. BatchDone'
    BY <1>1, <1>3, <1>4, LoopTypes, BatchFrame
  <2>5. NewOut'
    <3>1. \A u \in Threads : (\A e \in Instances : mask[e][u] = "")
                               => \A e \in Instances : mask'[e][u] = ""
      BY <1>5, LoopTypes
    <3>2. \A u \in Threads : target'[u] = target[u] \/ target'[u] = 0
      BY <1>4
    <3> QED  BY <1>1, <1>3, <1>6, <3>1, <3>2, LoopTypes, NewFrame
  <2> QED  BY <2>1, <2>2, <2>3, <2>4, <2>5 DEF RegInv
<1>9. CountInv'
  <2>1. \A k \in Fds : Once(k)' => Once(k)
    BY <1>5, <1>6 DEF Once, Instances
  <2>2. outside' \in Nat /\ outside <= outside'
    BY <1>3, LoopTypes
  <2>3. \A k \in Fds : Pending(k)' = Pending(k)
    BY <1>3 DEF Pending
  <2> QED  BY <1>1, <2>1, <2>2, <2>3, LoopTypes, CountKept
<1>10. NoneForgotten'
  <2>1. ASSUME NEW k \in open' \ {acc'}
        PROVE  k \in open \ {acc} /\ (~crossed' /\ MaskNow(k) # "" => MaskNow(k)' # "")
    <3>1. k \in open \ {acc} /\ k \in Fds
      BY <1>1, <1>3, LoopTypes
    <3>2. epollfd' = epollfd /\ (epollfd # 0 => epollfd \in Instances)
      BY <1>3, LoopTypes DEF Moves
    <3>3. ~crossed' => target[t] # k
      <4>1. ~crossed => target[t] \notin open
        BY <1>1, LoopTypes DEF BatchDone
      <4> QED  BY <1>3, <3>1, <4>1
    <3> QED  BY <1>5, <3>1, <3>2, <3>3 DEF MaskNow
  <2> QED  BY <1>3, <1>6, <2>1, LoopTypes, ForgottenFrame DEF Moves
<1> QED  BY <1>6, <1>7, <1>8, <1>9, <1>10 DEF LoopInv

LEMMA LoopKeeps ==
  ASSUME StartInv, LoopInv, NEW t \in Threads, Loop(t)
  PROVE  LoopFrame /\ LoopInv'
<1>1. CASE \E r \in events[t] : do_read(t, r) \/ do_write(t, r) \/ WriteFails(t, r)
  BY <1>1, ReadKeeps, WriteKeeps, FailKeeps
<1> QED  BY <1>1, WaitKeeps, ReturnKeeps, CloseKeeps, DeleteKeeps DEF Loop

----------------------------------------------------------------------------
(* Open_listen() and open_clientfd().                                      *)

\* What IsSuffix() says of the elements.
LEMMA SuffixIff ==
  ASSUME NEW S, NEW s \in Seq(S), NEW t \in Seq(S)
  PROVE  IsSuffix(s, t) <=> /\ Len(s) <= Len(t)
                            /\ \A i \in 1..Len(s) : s[i] = t[i + (Len(t) - Len(s))]
<1> DEFINE m == Len(s)
<1> DEFINE n == Len(t)
<1> DEFINE rs == Reverse(s)
<1> DEFINE rt == Reverse(t)
<1>1. m \in Nat /\ n \in Nat
  OBVIOUS
<1>2. /\ rs = [i \in 1..m |-> s[(m - i) + 1]] /\ rt = [i \in 1..n |-> t[(n - i) + 1]]
      /\ \A i \in 1..m : s[i] \in S
      /\ \A i \in 1..n : t[i] \in S
  BY DEF Reverse
<1> HIDE DEF m, n, rs, rt
<1>3. rs \in Seq(S) /\ Len(rs) = m /\ \A i \in 1..m : rs[i] = s[(m - i) + 1]
  <2>1. \A i \in 1..m : (m - i) + 1 \in 1..m
    BY <1>1
  <2>2. rs \in [1..m -> S]
    BY <1>2, <2>1
  <2> QED  BY <1>1, <1>2, <2>2
<1>4. rt \in Seq(S) /\ Len(rt) = n /\ \A i \in 1..n : rt[i] = t[(n - i) + 1]
  <2>1. \A i \in 1..n : (n - i) + 1 \in 1..n
    BY <1>1
  <2>2. rt \in [1..n -> S]
    BY <1>2, <2>1
  <2> QED  BY <1>1, <1>2, <2>2
<1>5. m <= n => (SubSeq(rs, 1, m) = SubSeq(rt, 1, m) <=> \A i \in 1..m : rs[i] = rt[i])
  <2> HAVE m <= n
  <2>1. SubSeq(rs, 1, m) = [i \in 1..m |-> rs[i]] /\ SubSeq(rt, 1, m) = [i \in 1..m |-> rt[i]]
    BY <1>1, <1>3, <1>4
  <2> QED  BY <2>1
<1>6. m <= n => ((\A i \in 1..m : rs[i] = rt[i]) <=> \A i \in 1..m : s[i] = t[i + (n - m)])
  <2> HAVE m <= n
  <2>1. \A i \in 1..m : /\ (m - i) + 1 \in 1..m /\ (m - ((m - i) + 1)) + 1 = i
                        /\ i \in 1..n /\ (n - i) + 1 = ((m - i) + 1) + (n - m)
                        /\ (n - ((m - i) + 1)) + 1 = i + (n - m)
    BY <1>1
  <2>2. ASSUME \A i \in 1..m : rs[i] = rt[i], NEW i \in 1..m PROVE s[i] = t[i + (n - m)]
    <3> DEFINE j == (m - i) + 1
    <3>1. j \in 1..m /\ j \in 1..n /\ (m - j) + 1 = i /\ (n - j) + 1 = i + (n - m)
      BY <2>1
    <3> HIDE DEF j
    <3>2. rs[j] = s[(m - j) + 1] /\ rt[j] = t[(n - j) + 1] /\ rs[j] = rt[j]
      BY <1>3, <1>4, <2>2, <3>1
    <3> QED  BY <3>1, <3>2
  <2>3. ASSUME \A i \in 1..m : s[i] = t[i + (n - m)], NEW i \in 1..m PROVE rs[i] = rt[i]
    <3> DEFINE j == (m - i) + 1
    <3>1. i \in 1..n /\ j \in 1..m /\ (n - i) + 1 = j + (n - m)
      BY <2>1
    <3>2. rs[i] = s[j] /\ rt[i] = t[(n - i) + 1]
      BY <1>3, <1>4, <3>1
    <3> HIDE DEF j
    <3>3. s[j] = t[j + (n - m)]
      BY <2>3, <3>1
    <3> QED  BY <3>1, <3>2, <3>3
  <2> QED  BY <2>2, <2>3
<1>7. IsSuffix(s, t) <=> Len(rs) <= Len(rt) /\ SubSeq(rs, 1, Len(rs)) = SubSeq(rt, 1, Len(rs))
  BY DEF IsSuffix, IsPrefix, rs, rt
<1> QED  BY <1>1, <1>3, <1>4, <1>5, <1>6, <1>7 DEF m, n

LEMMA SuffixTail ==
  ASSUME NEW S, NEW s \in Seq(S), NEW t \in Seq(S), IsSuffix(s, t), s # << >>
  PROVE  Tail(s) \in Seq(S) /\ IsSuffix(Tail(s), t)
<1>1. /\ Tail(s) \in Seq(S) /\ Len(Tail(s)) = Len(s) - 1
      /\ \A i \in 1..Len(Tail(s)) : Tail(s)[i] = s[i + 1]
      /\ Len(s) \in Nat /\ Len(t) \in Nat
  OBVIOUS
<1>2. Len(s) <= Len(t) /\ \A i \in 1..Len(s) : s[i] = t[i + (Len(t) - Len(s))]
  BY SuffixIff
<1>3. ASSUME NEW i \in 1..Len(Tail(s))
      PROVE  Tail(s)[i] = t[i + (Len(t) - Len(Tail(s)))]
  <2>1. i + 1 \in 1..Len(s) /\ (i + 1) + (Len(t) - Len(s)) = i + (Len(t) - Len(Tail(s)))
    BY <1>1
  <2> QED  BY <1>1, <1>2, <2>1
<1>4. Len(Tail(s)) <= Len(t)
  BY <1>1, <1>2
<1> QED  BY <1>1, <1>3, <1>4, SuffixIff

LEMMA SuffixSelf ==
  ASSUME NEW S, NEW s \in Seq(S)
  PROVE  IsSuffix(s, s)
<1>1. Len(s) \in Nat /\ \A i \in 1..Len(s) : i + (Len(s) - Len(s)) = i
  OBVIOUS
<1> QED  BY <1>1, SuffixIff

OpenInv == OpenTypeOK /\ SocketInv

LEMMA OpenInitially == OpenInit => OpenInv
<1> SUFFICES ASSUME OpenInit PROVE OpenInv
  OBVIOUS
<1>1. config \in Seq(Lines) /\ Len(config) <= MaxLines
  <2>1. \E L \in SUBSET Lines : config \in UNION {[1..m -> L] : m \in 0..MaxLines}
    <3>1. config \in BoundedSeq(Lines, MaxLines)
      BY DEF OpenInit
    <3> QED  BY <3>1 DEF BoundedSeq, SeqOf
  <2>2. PICK L \in SUBSET Lines : \E m \in 0..MaxLines : config \in [1..m -> L]
    BY <2>1
  <2>3. PICK m \in 0..MaxLines : config \in [1..m -> L]
    BY <2>2
  <2>4. m \in Nat /\ m <= MaxLines
    BY OpenListenAssumption
  <2>5. config \in [1..m -> Lines]
    BY <2>2, <2>3
  <2> QED  BY <2>4, <2>5
<1>2. /\ call \in {"listen", "start", "client"} /\ rest = config /\ left = 0 /\ socks = 0
      /\ ok = FALSE /\ at \in {"conf", "lookup"}
  BY DEF OpenInit
<1>3. IsSuffix(rest, config)
  BY <1>1, <1>2, SuffixSelf
<1>4. SocketInv
  BY <1>1, <1>2 DEF SocketInv, OneSocket
<1>5. left \in 0..MaxAddrs /\ socks \in 0..1
  BY <1>2, OpenListenAssumption
<1> QED  BY <1>1, <1>2, <1>3, <1>4, <1>5 DEF OpenInv, OpenTypeOK

\* The call ends: nothing is left of the file.
LEMMA EndsKeeps ==
  ASSUME OpenInv, NEW how \in {"done", "exited"}, Ends(how),
         socks' \in 0..1, ok' \in BOOLEAN,
         how = "exited" => socks' = 0 /\ ~ok',
         how = "done" => socks' = IF ok' THEN 1 ELSE 0
  PROVE  OpenInv'
<1>1. /\ at' = how /\ config' = << >> /\ rest' = << >> /\ left' = 0 /\ call' = call
  BY DEF Ends
<1>2. /\ config' \in Seq(Lines) /\ rest' \in Seq(Lines) /\ Len(config') <= MaxLines
      /\ left' \in 0..MaxAddrs
  BY <1>1, OpenListenAssumption
<1>3. IsSuffix(rest', config')
  BY <1>1, <1>2, SuffixSelf
<1>4. OpenTypeOK'
  BY <1>1, <1>2, <1>3 DEF OpenInv, OpenTypeOK
<1>5. SocketInv'
  BY <1>1, <1>2 DEF SocketInv, OneSocket
<1> QED  BY <1>4, <1>5 DEF OpenInv

LEMMA ExitsKeeps ==
  ASSUME OpenInv, Exits
  PROVE  OpenInv'
<1>1. Ends("exited") /\ socks' = 0 /\ ok' = FALSE
  BY DEF Exits
<1>2. ok' \in BOOLEAN /\ ~ok'
  BY <1>1, Zenon
<1>3. socks' \in 0..1
  BY <1>1
<1> QED  BY <1>1, <1>2, <1>3, EndsKeeps

LEMMA OpenKeeps ==
  ASSUME OpenInv, OpenNext
  PROVE  OpenInv'
<1>1. /\ call \in {"listen", "start", "client"} /\ config \in Seq(Lines) /\ Len(config) <= MaxLines
      /\ IsSuffix(rest, config) /\ rest \in Seq(Lines)
      /\ left \in 0..MaxAddrs /\ MaxAddrs \in Nat /\ socks \in 0..1 /\ ok \in BOOLEAN
  BY OpenListenAssumption DEF OpenInv, OpenTypeOK, SocketInv
<1>2. SocketInv
  BY DEF OpenInv
<1>3. ASSUME UNCHANGED <<call, config, rest, ip, port, left, socks, ok>>,
             at' \in {"line", "lookup"}, at \in {"conf", "line"}
      PROVE  OpenInv'
  <2>1. SocketInv'
    BY <1>1, <1>2, <1>3 DEF SocketInv, OneSocket
  <2>2. OpenTypeOK'
    BY <1>1, <1>3 DEF OpenTypeOK
  <2> QED  BY <2>1, <2>2 DEF OpenInv
<1>4. CASE ReadLine
  <2>1. /\ at = "line" /\ rest # << >> /\ UNCHANGED <<call, config, left, socks, ok>>
        /\ \/ rest' = Tail(rest) /\ at' = at
           \/ rest' = rest /\ at' = "crashed"
    BY <1>4 DEF ReadLine
  <2>2. rest' \in Seq(Lines) /\ IsSuffix(rest', config')
    BY <1>1, <2>1, SuffixTail
  <2>3. SocketInv'
    BY <1>2, <2>1, <2>2 DEF SocketInv, OneSocket
  <2>4. OpenTypeOK'
    BY <1>1, <2>1, <2>2 DEF OpenTypeOK
  <2> QED  BY <2>3, <2>4 DEF OpenInv
<1>5. ASSUME UNCHANGED <<call, config, rest, ok>>, left' \in 0..MaxAddrs,
             ~ok, (at' = "next" /\ socks' = 0) \/ (at' = "setup" /\ socks' = 1 /\ left' > 0)
      PROVE  OpenInv'
  <2>1. SocketInv'
    BY <1>1, <1>5 DEF SocketInv, OneSocket
  <2>2. OpenTypeOK'
    BY <1>1, <1>5 DEF OpenTypeOK
  <2> QED  BY <2>1, <2>2 DEF OpenInv
<1>6. CASE Getaddrinfo
  <2>1. CASE left' \in 1..MaxAddrs /\ at' = "next" /\ UNCHANGED <<call, config, rest, ok, socks>>
    <3>1. socks' = 0 /\ ~ok
      BY <1>2, <1>6, <2>1 DEF Getaddrinfo, SocketInv
    <3>2. left' \in 0..MaxAddrs
      BY <1>1, <2>1
    <3> QED  BY <1>5, <2>1, <3>1, <3>2
  <2> QED  BY <1>6, <2>1, ExitsKeeps DEF Getaddrinfo
<1>7. CASE NextAddress
  <2>1. at = "next" /\ left > 0 /\ socks = 0 /\ ~ok /\ UNCHANGED <<call, config, rest, ok>>
    BY <1>2, <1>7 DEF NextAddress, SocketInv
  <2>2. \/ left' = left - 1 /\ socks' = socks /\ at' = at
        \/ left' = left /\ socks' = socks + 1 /\ at' = "setup"
    BY <1>7 DEF NextAddress
  <2>3. left' \in 0..MaxAddrs
    BY <1>1, <2>1, <2>2
  <2> QED  BY <1>5, <2>1, <2>2, <2>3
<1>8. CASE NoAddress
  <2>1. Ends("done") /\ socks' = 0 /\ ok' = FALSE
    BY <1>1, <1>2, <1>8 DEF NoAddress, SocketInv
  <2>2. ok' \in BOOLEAN /\ socks' = IF ok' THEN 1 ELSE 0
    BY <2>1, Zenon
  <2>3. socks' \in 0..1
    BY <2>1
  <2> QED  BY <2>1, <2>2, <2>3, EndsKeeps
<1>9. CASE Bind
  <2>1. CASE at' = "bound" /\ UNCHANGED <<call, config, rest, ip, port, left, socks, ok>>
    <3>1. at = "setup"
      BY <1>9 DEF Bind
    <3>2. SocketInv'
      BY <1>1, <1>2, <2>1, <3>1 DEF SocketInv, OneSocket
    <3>3. OpenTypeOK'
      BY <1>1, <2>1 DEF OpenTypeOK
    <3> QED  BY <3>2, <3>3 DEF OpenInv
  <2> QED  BY <1>9, <2>1, ExitsKeeps DEF Bind
<1>10. CASE Listen \/ Connect
  <2>1. CASE Ends("done") /\ ok' = TRUE /\ UNCHANGED socks
    <3>1. socks' = 1
      BY <1>2, <1>10, <2>1 DEF Listen, Connect, SocketInv
    <3>2. socks' \in 0..1 /\ ok' \in BOOLEAN /\ socks' = IF ok' THEN 1 ELSE 0
      BY <2>1, <3>1
    <3> QED  BY <2>1, <3>2, EndsKeeps
  <2> QED  BY <1>10, <2>1, ExitsKeeps DEF Listen, Connect
<1>11. CASE ConnectFails
  <2>1. /\ at = "setup" /\ socks = 1 /\ left > 0 /\ ~ok /\ UNCHANGED <<call, config, rest, ok>>
        /\ socks' = socks - 1 /\ left' = left - 1 /\ at' = "next"
    BY <1>2, <1>11 DEF ConnectFails, SocketInv
  <2>2. left' \in 0..MaxAddrs /\ socks' = 0
    BY <1>1, <2>1
  <2> QED  BY <1>5, <2>1, <2>2
<1>12. CASE OpenConf \/ EndOfConf
  BY <1>3, <1>12 DEF OpenConf, EndOfConf
<1>13. CASE NoConf
  BY <1>13, ExitsKeeps DEF NoConf
<1> QED  BY <1>4, <1>6, <1>7, <1>8, <1>9, <1>10, <1>11, <1>12, <1>13 DEF OpenNext

----------------------------------------------------------------------------
(* file_param()                                                            *)

\* The characters of the lines that have the form.
Chars == {"@", ":", LF, SP} \cup UNION {ToSet(x) : x \in Hosts \cup Ports}

LEMMA CharsAre == /\ "@" \in Chars /\ ":" \in Chars /\ LF \in Chars /\ SP \in Chars
                  /\ Hosts \cup Ports \subseteq Seq(Chars)
<1>1. "@" \in Chars /\ ":" \in Chars /\ LF \in Chars /\ SP \in Chars
  BY DEF Chars
<1>2. ASSUME NEW x \in Hosts \cup Ports PROVE x \in Seq(Chars)
  <2>1. x \in Seq(ToSet(x))
    BY NamesAssumption
  <2>2. ToSet(x) \subseteq Chars
    BY DEF Chars
  <2> QED  BY <2>1, <2>2, SeqMonotonic
<1> QED  BY <1>1, <1>2

\* The characters of a name that can be written.
LEMMA NamesAre ==
  ASSUME NEW h \in Hosts, NEW p \in Ports
  PROVE  /\ h \in Seq(Chars) /\ p \in Seq(Chars)
         /\ Len(h) \in Nat \ {0} /\ Len(p) \in Nat \ {0}
         /\ h[1] # "@"
         /\ \A i \in 1..Len(h) : h[i] # ":"
         /\ \A i \in 1..Len(p) : p[i] # "@"
<1>1. h \in Seq(Chars) /\ p \in Seq(Chars) /\ h # << >> /\ p # << >>
  BY CharsAre, NamesAssumption
<1>2. /\ Len(h) \in Nat \ {0} /\ Len(p) \in Nat \ {0}
      /\ DOMAIN h = 1..Len(h) /\ DOMAIN p = 1..Len(p)
  BY <1>1
<1>3. h[1] # "@" /\ ":" \notin ToSet(h) /\ "@" \notin ToSet(p)
  BY NamesAssumption
<1> QED  BY <1>1, <1>2, <1>3 DEF ToSet

\* The characters of the beginning of a line, up to the colon.
Begins(s, k, h) ==
  /\ Len(s) = Len(h) + k + 1
  /\ \A i \in 1..k : s[i] = SP
  /\ s[k + 1] = "@"
  /\ \A i \in 1..Len(h) : s[i + (k + 1)] = h[i]

LEMMA BeginningIs ==
  ASSUME NEW k \in Nat, NEW h \in Seq(Chars)
  PROVE  Beginning(k, h) \in Seq(Chars) /\ Begins(Beginning(k, h), k, h)
<1> DEFINE B == [i \in 1..k |-> SP]
<1> DEFINE A == <<"@">>
<1> DEFINE a == B \o A
<1> DEFINE s == a \o h
<1>1. /\ B \in Seq(Chars) /\ Len(B) = k /\ (\A i \in 1..k : B[i] = SP)
      /\ A \in Seq(Chars) /\ Len(A) = 1 /\ A[1] = "@" /\ Len(h) \in Nat
  BY CharsAre
<1>2. s = Beginning(k, h)
  BY DEF Beginning
<1> HIDE DEF A, B
<1>3. /\ a \in Seq(Chars) /\ Len(a) = k + 1 /\ a[k + 1] = "@"
      /\ \A i \in 1..k : a[i] = SP
  <2>0. a \in Seq(Chars) /\ Joined(a, B, A)
    BY <1>1, ConcatAt
  <2>1. /\ Len(a) = Len(B) + Len(A)
        /\ \A i \in 1..Len(B) : a[i] = B[i]
        /\ \A i \in 1..Len(A) : a[i + Len(B)] = A[i]
    BY <2>0 DEF Joined
  <2>2. a[1 + Len(B)] = A[1]
    BY <1>1, <2>1
  <2>3. 1 + Len(B) = k + 1
    BY <1>1
  <2> QED  BY <1>1, <2>0, <2>1, <2>2, <2>3
<1> HIDE DEF a
<1>4. /\ s \in Seq(Chars) /\ Len(s) = Len(h) + k + 1
      /\ \A i \in 1..(k + 1) : s[i] = a[i]
      /\ \A i \in 1..Len(h) : s[i + (k + 1)] = h[i]
  <2>0. s \in Seq(Chars) /\ Joined(s, a, h)
    BY <1>3, ConcatAt
  <2>1. /\ Len(s) = Len(a) + Len(h)
        /\ \A i \in 1..Len(a) : s[i] = a[i]
        /\ \A i \in 1..Len(h) : s[i + Len(a)] = h[i]
    BY <2>0 DEF Joined
  <2> QED  BY <1>1, <1>3, <2>0, <2>1
<1> HIDE DEF s
<1>5. s[k + 1] = "@" /\ \A i \in 1..k : s[i] = SP
  <2>1. k + 1 \in 1..(k + 1) /\ \A i \in 1..k : i \in 1..(k + 1)
    OBVIOUS
  <2> QED  BY <1>3, <1>4, <2>1
<1> QED  BY <1>2, <1>4, <1>5 DEF Begins

Line(b, p, e) == b \o <<":">> \o p \o <<"@">> \o e

\* The characters of a line, behind its beginning.
Continues(s, b, p) ==
  /\ Len(s) >= Len(b) + Len(p) + 2
  /\ \A i \in 1..Len(b) : s[i] = b[i]
  /\ s[Len(b) + 1] = ":" /\ s[Len(b) + Len(p) + 2] = "@"
  /\ \A i \in 1..Len(p) : s[i + (Len(b) + 1)] = p[i]

LEMMA LineIs ==
  ASSUME NEW a \in Seq(Chars), NEW p \in Seq(Chars), NEW e \in Seq(Chars)
  PROVE  Line(a, p, e) \in Seq(Chars) /\ Continues(Line(a, p, e), a, p)
<1> DEFINE A == <<"@">>
<1> DEFINE C == <<":">>
<1>1. /\ A \in Seq(Chars) /\ Len(A) = 1 /\ A[1] = "@"
      /\ C \in Seq(Chars) /\ Len(C) = 1 /\ C[1] = ":"
      /\ Len(a) \in Nat /\ Len(p) \in Nat /\ Len(e) \in Nat
  BY CharsAre
<1> DEFINE b == a \o C
<1> DEFINE c == b \o p
<1> DEFINE d == c \o A
<1> DEFINE s == d \o e
<1>2. s = Line(a, p, e)
  BY DEF Line
<1> HIDE DEF A, C
<1>4. /\ b \in Seq(Chars) /\ Len(b) = Len(a) + 1 /\ b[Len(a) + 1] = ":"
      /\ \A i \in 1..Len(a) : b[i] = a[i]
  <2>0. b \in Seq(Chars) /\ Joined(b, a, C)
    BY <1>1, ConcatAt
  <2>1. /\ b \in Seq(Chars) /\ Len(b) = Len(a) + Len(C)
        /\ \A i \in 1..Len(a) : b[i] = a[i]
        /\ \A i \in 1..Len(C) : b[i + Len(a)] = C[i]
    BY <2>0 DEF Joined
  <2>2. 1 + Len(a) = Len(a) + 1 /\ Len(a) + Len(C) = Len(a) + 1
    BY <1>1
  <2>3. b[1 + Len(a)] = C[1]
    BY <1>1, <2>1
  <2> QED  BY <1>1, <2>1, <2>2, <2>3
<1> HIDE DEF b
<1>5. /\ c \in Seq(Chars) /\ Len(c) = Len(a) + Len(p) + 1
      /\ \A i \in 1..(Len(a) + 1) : c[i] = b[i]
      /\ \A i \in 1..Len(p) : c[i + (Len(a) + 1)] = p[i]
  <2>0. c \in Seq(Chars) /\ Joined(c, b, p)
    BY <1>1, <1>4, ConcatAt
  <2>1. /\ c \in Seq(Chars) /\ Len(c) = Len(b) + Len(p)
        /\ \A i \in 1..Len(b) : c[i] = b[i]
        /\ \A i \in 1..Len(p) : c[i + Len(b)] = p[i]
    BY <2>0 DEF Joined
  <2>2. Len(b) + Len(p) = Len(a) + Len(p) + 1
    BY <1>1, <1>4
  <2> QED  BY <1>4, <2>1, <2>2
<1> HIDE DEF c
<1>6. /\ d \in Seq(Chars) /\ Len(d) = Len(a) + Len(p) + 2 /\ d[Len(a) + Len(p) + 2] = "@"
      /\ \A i \in 1..(Len(a) + Len(p) + 1) : d[i] = c[i]
  <2>0. d \in Seq(Chars) /\ Joined(d, c, A)
    BY <1>1, <1>5, ConcatAt
  <2>1. /\ d \in Seq(Chars) /\ Len(d) = Len(c) + Len(A)
        /\ \A i \in 1..Len(c) : d[i] = c[i]
        /\ \A i \in 1..Len(A) : d[i + Len(c)] = A[i]
    BY <2>0 DEF Joined
  <2>2. 1 + Len(c) = Len(a) + Len(p) + 2 /\ Len(c) + Len(A) = Len(a) + Len(p) + 2
    BY <1>1, <1>5
  <2>3. d[1 + Len(c)] = A[1]
    BY <1>1, <2>1
  <2> QED  BY <1>1, <1>5, <2>1, <2>2, <2>3
<1> HIDE DEF d
<1>7. /\ s \in Seq(Chars) /\ Len(s) = Len(a) + Len(p) + Len(e) + 2
      /\ \A i \in 1..(Len(a) + Len(p) + 2) : s[i] = d[i]
  <2>0. s \in Seq(Chars) /\ Joined(s, d, e)
    BY <1>1, <1>6, ConcatAt
  <2>1. /\ s \in Seq(Chars) /\ Len(s) = Len(d) + Len(e)
        /\ \A i \in 1..Len(d) : s[i] = d[i]
    BY <2>0 DEF Joined
  <2>2. Len(d) + Len(e) = Len(a) + Len(p) + Len(e) + 2
    BY <1>1, <1>6
  <2> QED  BY <1>6, <2>1, <2>2
<1> HIDE DEF s
<1>8. \A i \in 1..(Len(a) + 1) : s[i] = b[i]
  <2>1. \A i \in 1..(Len(a) + 1) : /\ i \in 1..(Len(a) + Len(p) + 1)
                                   /\ i \in 1..(Len(a) + Len(p) + 2)
    BY <1>1
  <2> QED  BY <1>5, <1>6, <1>7, <2>1
<1>9. \A i \in 1..Len(a) : s[i] = a[i]
  <2>1. \A i \in 1..Len(a) : i \in 1..(Len(a) + 1)
    BY <1>1
  <2> QED  BY <1>4, <1>8, <2>1
<1>10. s[Len(a) + 1] = ":" /\ s[Len(a) + Len(p) + 2] = "@"
  <2>1. /\ Len(a) + 1 \in 1..(Len(a) + 1)
        /\ Len(a) + Len(p) + 2 \in 1..(Len(a) + Len(p) + 2)
    BY <1>1
  <2> QED  BY <1>4, <1>6, <1>7, <1>8, <2>1
<1>12. \A i \in 1..Len(p) : s[i + (Len(a) + 1)] = p[i]
  <2>1. \A i \in 1..Len(p) : /\ i + (Len(a) + 1) \in 1..(Len(a) + Len(p) + 1)
                             /\ i + (Len(a) + 1) \in 1..(Len(a) + Len(p) + 2)
    BY <1>1
  <2> QED  BY <1>5, <1>6, <1>7, <2>1
<1>13. Len(s) >= Len(a) + Len(p) + 2
  BY <1>1, <1>7
<1> QED  BY <1>2, <1>7, <1>9, <1>10, <1>12, <1>13 DEF Continues

\* file_param() skips one character of such a line: the second strspn() finds
\* one @ behind the blanks, however many the first has found.
LEMMA OneSkipped ==
  ASSUME NEW s \in Seq(Chars), NEW k \in Nat, k + 2 <= Len(s),
         \A i \in 1..k : s[i] = SP, s[k + 1] = "@", s[k + 2] # "@"
  PROVE  SkipFront(s) = 1
<1>1. Len(s) \in Nat
  OBVIOUS
<1>2. strspn(s, {SP}) = k
  <2>1. s[k + 1] \in ToSet(s) \ {SP}
    <3>1. k + 1 \in DOMAIN s
      BY <1>1
    <3>2. "@" # SP
      BY DEF SP
    <3> QED  BY <3>1, <3>2 DEF ToSet
  <2>2. \A i \in 1..Len(s) : i < k + 1 => s[i] \notin ToSet(s) \ {SP}
    <3>1. \A i \in 1..Len(s) : i < k + 1 => i \in 1..k
      BY <1>1
    <3> QED  BY <3>1
  <2>3. FirstIn(s, 1, ToSet(s) \ {SP}) = k + 1
    <3>1. 1 \in Nat \ {0} /\ k + 1 \in 1..Len(s)
      BY <1>1
    <3> QED  BY <1>1, <2>1, <2>2, <3>1, FirstInIs
  <2>4. FirstNotIn(s, 1, {SP}) = k + 1
    BY <2>3 DEF FirstNotIn
  <2>5. k + 1 # 0 /\ (k + 1) - 1 = k
    OBVIOUS
  <2> QED  BY <2>4, <2>5 DEF strspn
<1> DEFINE u == SubSeq(s, k + 1, Len(s))
<1>3. /\ u \in Seq(Chars) /\ Len(u) = Len(s) - k
      /\ \A i \in 1..(Len(s) - k) : u[i] = s[i + k]
  BY <1>1
<1> HIDE DEF u
<1>4. 2 <= Len(u) /\ u[1] = "@" /\ u[2] # "@"
  <2>1. /\ 1 \in 1..(Len(s) - k) /\ 2 \in 1..(Len(s) - k) /\ 1 + k = k + 1 /\ 2 + k = k + 2
        /\ 2 <= Len(u)
    BY <1>1, <1>3
  <2>2. u[1] = s[1 + k] /\ u[2] = s[2 + k]
    BY <1>3, <2>1
  <2> QED  BY <2>1, <2>2
<1>5. FirstNotIn(u, 1, {"@"}) = 2
  <2>1. Len(u) \in Nat /\ 2 \in 1..Len(u)
    BY <1>3, <1>4
  <2>2. u[2] \in ToSet(u) \ {"@"}
    BY <1>3, <1>4, <2>1 DEF ToSet
  <2>3. \A i \in 1..Len(u) : i < 2 => u[i] \notin ToSet(u) \ {"@"}
    BY <1>4
  <2>4. FirstIn(u, 1, ToSet(u) \ {"@"}) = 2
    BY <1>3, <2>1, <2>2, <2>3, FirstInIs
  <2> QED  BY <2>4 DEF FirstNotIn
<1>6. strspn(u, {"@"}) = 1
  BY <1>5 DEF strspn
<1> QED  BY <1>2, <1>6 DEF SkipFront, u

\* file_param() takes such a line apart: one character is skipped, the address
\* ends at the first colon and the port at the next @.
LEMMA LineRead ==
  ASSUME NEW k \in Nat, NEW h \in Hosts, NEW p \in Ports, NEW s \in Form(k, h, p)
  PROVE  /\ FirstToken(s).ok /\ SecondToken(s).ok
         /\ FirstToken(s).tok = IF k = 0 THEN h ELSE Tail(Beginning(k, h))
         /\ SecondToken(s).tok = p
<1>2. /\ h \in Seq(Chars) /\ p \in Seq(Chars) /\ Len(h) \in Nat \ {0} /\ Len(p) \in Nat \ {0}
      /\ h[1] # "@"
      /\ \A i \in 1..Len(h) : h[i] # ":"
      /\ \A i \in 1..Len(p) : p[i] # "@"
  BY NamesAre
<1> DEFINE b == Beginning(k, h)
<1>b. b \in Seq(Chars) /\ Begins(b, k, h)
  BY <1>2, BeginningIs
<1>1. s \in Seq(Chars) /\ Continues(s, b, p)
  <2>1. PICK e \in {<< >>, <<LF>>} : s = Line(b, p, e)
    BY DEF Form, Line
  <2>3. << >> \in Seq(Chars) /\ <<LF>> \in Seq(Chars)
    BY CharsAre
  <2>4. e \in Seq(Chars)
    BY <2>3
  <2> QED  BY <1>2, <1>b, <2>1, <2>4, LineIs
<1> HIDE DEF b
<1> DEFINE m == Len(b) + 1
<1> DEFINE n == Len(b) + Len(p) + 2
<1>3. /\ Len(b) = Len(h) + k + 1 /\ Len(b) \in Nat
      /\ Len(s) \in Nat /\ m \in Nat /\ n \in Nat /\ 2 < m /\ m < n /\ n <= Len(s) /\ m + 1 < n
  <2>1. Len(b) = Len(h) + k + 1 /\ Len(s) >= Len(b) + Len(p) + 2
    BY <1>1, <1>b DEF Begins, Continues
  <2> QED  BY <1>1, <1>2, <1>b, <2>1
<1>4. \A i \in 1..Len(b) : b[i] # ":"
  <2> SUFFICES ASSUME NEW i \in 1..Len(b) PROVE b[i] # ":"
    OBVIOUS
  <2>1. CASE i \in 1..k
    BY <1>b, <2>1 DEF Begins, SP
  <2>2. CASE i = k + 1
    BY <1>b, <2>2 DEF Begins
  <2>3. CASE i > k + 1
    <3>1. i - (k + 1) \in 1..Len(h) /\ (i - (k + 1)) + (k + 1) = i
      BY <1>2, <1>3, <2>3
    <3>2. b[(i - (k + 1)) + (k + 1)] = h[i - (k + 1)]
      BY <1>b, <3>1 DEF Begins
    <3> QED  BY <1>2, <3>1, <3>2
  <2> QED  BY <1>3, <2>1, <2>2, <2>3
<1>5. s[m] = ":" /\ s[n] = "@" /\ s[m + 1] # "@" /\ \A i \in 1..Len(b) : s[i] = b[i]
  <2>1. s[m] = ":" /\ s[n] = "@" /\ \A i \in 1..Len(b) : s[i] = b[i]
    BY <1>1 DEF Continues
  <2>2. 1 \in 1..Len(p) /\ 1 + m = m + 1
    BY <1>2, <1>3
  <2>3. s[1 + m] = p[1]
    BY <1>1, <2>2 DEF Continues
  <2> QED  BY <1>2, <2>1, <2>2, <2>3
<1>6. \A i \in (m + 1)..Len(s) : i < n => s[i] # "@"
  <2> SUFFICES ASSUME NEW i \in (m + 1)..Len(s), i < n PROVE s[i] # "@"
    OBVIOUS
  <2>1. i - m \in 1..Len(p) /\ (i - m) + m = i
    BY <1>2, <1>3
  <2>2. s[(i - m) + m] = p[i - m]
    BY <1>1, <2>1 DEF Continues
  <2> QED  BY <1>2, <2>1, <2>2
<1>7. SubSeq(s, 2, m - 1) = IF k = 0 THEN h ELSE Tail(b)
  <2>1. m - 1 <= Len(s) /\ m - 1 = Len(b) /\ Len(b) - 1 = Len(h) + k
    BY <1>2, <1>3
  <2>2. SubSeq(s, 2, m - 1) \in Seq(Chars) /\ Len(SubSeq(s, 2, m - 1)) = Len(b) - 1
        /\ \A i \in 1..(Len(b) - 1) : SubSeq(s, 2, m - 1)[i] = s[i + 1]
    BY <1>1, <1>2, <1>3, <2>1
  <2>3. \A i \in 1..(Len(b) - 1) : i + 1 \in 1..Len(b)
    BY <1>3
  <2>4. \A i \in 1..(Len(b) - 1) : SubSeq(s, 2, m - 1)[i] = b[i + 1]
    BY <1>5, <2>2, <2>3
  <2>5. CASE k = 0
    <3>1. Len(b) - 1 = Len(h) /\ k + 1 = 1
      BY <1>2, <1>3, <2>1, <2>5
    <3>2. \A i \in 1..Len(h) : b[i + 1] = h[i]
      BY <1>b, <3>1 DEF Begins
    <3> QED  BY <1>2, <2>2, <2>4, <2>5, <3>1, <3>2, SeqEqual
  <2>6. CASE k # 0
    <3>1. Tail(b) \in Seq(Chars) /\ Len(Tail(b)) = Len(b) - 1
          /\ \A i \in 1..(Len(b) - 1) : Tail(b)[i] = b[i + 1]
      BY <1>b, <1>3
    <3> QED  BY <2>2, <2>4, <2>6, <3>1, SeqEqual
  <2> QED  BY <2>5, <2>6
<1>8. SubSeq(s, m + 1, n - 1) = p
  <2>1. n - 1 <= Len(s) /\ n - 1 = m + Len(p) /\ m + 1 <= n - 1
    BY <1>2, <1>3
  <2>2. SubSeq(s, m + 1, n - 1) \in Seq(Chars) /\ Len(SubSeq(s, m + 1, n - 1)) = Len(p)
        /\ \A i \in 1..Len(p) : SubSeq(s, m + 1, n - 1)[i] = s[i + m]
    BY <1>1, <1>2, <1>3, <2>1
  <2>3. \A i \in 1..Len(p) : SubSeq(s, m + 1, n - 1)[i] = p[i]
    BY <1>1, <2>2 DEF Continues
  <2> QED  BY <1>2, <2>2, <2>3, SeqEqual
<1>9. SkipFront(s) = 1
  <2>1. /\ k + 2 <= Len(s) /\ k + 1 \in 1..Len(b) /\ k + 2 \in 1..Len(b)
        /\ 1 \in 1..Len(h) /\ 1 + (k + 1) = k + 2
        /\ \A i \in 1..k : i \in 1..Len(b)
    BY <1>2, <1>3
  <2>2. \A i \in 1..k : s[i] = SP
    BY <1>b, <1>5, <2>1 DEF Begins
  <2>3. s[k + 1] = "@"
    BY <1>b, <1>5, <2>1 DEF Begins
  <2>4. b[1 + (k + 1)] = h[1]
    BY <1>b, <2>1 DEF Begins
  <2>5. s[k + 2] # "@"
    BY <1>2, <1>5, <2>1, <2>4
  <2> QED  BY <1>1, <2>1, <2>2, <2>3, <2>5, OneSkipped
<1>10. FirstToken(s) = [ok |-> TRUE, tok |-> SubSeq(s, 2, m - 1), save |-> m + 1]
  <2>1. 2 \in 1..Len(s) /\ m \in 1..Len(s) /\ 2 < m /\ 2 \in 1..Len(b)
        /\ \A i \in 2..Len(s) : i < m => i \in 1..Len(b)
    BY <1>3
  <2>2. s[2] \notin {":"} /\ s[m] \in {":"} /\ \A i \in 2..Len(s) : i < m => s[i] \notin {":"}
    BY <1>4, <1>5, <2>1
  <2>3. strtok(s, 2, {":"}) = [ok |-> TRUE, tok |-> SubSeq(s, 2, m - 1), save |-> m + 1]
    BY <1>1, <2>1, <2>2, TokenIs
  <2>4. SkipFront(s) + 1 = 2
    BY <1>9
  <2> QED  BY <2>3, <2>4 DEF FirstToken
<1> HIDE DEF m, n
<1>11. SecondToken(s) = [ok |-> TRUE, tok |-> p, save |-> n + 1]
  <2>1. m + 1 \in 1..Len(s) /\ n \in 1..Len(s) /\ m + 1 < n
    BY <1>3
  <2>2. s[m + 1] \notin {"@"} /\ s[n] \in {"@"}
        /\ \A i \in (m + 1)..Len(s) : i < n => s[i] \notin {"@"}
    BY <1>5, <1>6
  <2>3. strtok(s, m + 1, {"@"}) = [ok |-> TRUE, tok |-> SubSeq(s, m + 1, n - 1), save |-> n + 1]
    BY <1>1, <2>1, <2>2, TokenIs
  <2>4. FirstToken(s).save = m + 1
    BY <1>10
  <2> QED  BY <1>8, <2>3, <2>4 DEF SecondToken
<1>12. FirstToken(s).tok = IF k = 0 THEN h ELSE Tail(Beginning(k, h))
  <2>1. FirstToken(s).tok = SubSeq(s, 2, m - 1)
    <3> DEFINE t == SubSeq(s, 2, m - 1)
    <3>1. FirstToken(s) = [ok |-> TRUE, tok |-> t, save |-> m + 1]
      BY <1>10
    <3> HIDE DEF t
    <3>2. FirstToken(s).tok = t
      BY <3>1
    <3> QED  BY <3>2 DEF t
  <2>2. SubSeq(s, 2, m - 1) = IF k = 0 THEN h ELSE Tail(Beginning(k, h))
    BY <1>7 DEF b
  <2> QED  BY <2>1, <2>2
<1>13. FirstToken(s).ok /\ SecondToken(s).ok /\ SecondToken(s).tok = p
  BY <1>10, <1>11
<1> QED  BY <1>12, <1>13

\* Up to the end of the file sockpair has the address of the last line read,
\* if the lines have the form; start() has its own.
ConfigInv ==
  /\ at = "conf" => rest = config
  /\ at = "lookup" /\ call = "listen" => rest = << >>
  /\ call = "listen" /\ (\A i \in DOMAIN config : WellFormed(config[i])) =>
       /\ at # "crashed"
       /\ at \in {"line", "lookup"} /\ Len(rest) < Len(config) =>
            ReadAs(config[Len(config) - Len(rest)], ip, port)
  /\ call = "start" =>
       /\ at \notin {"conf", "line"}
       /\ at = "lookup" => ip = StartHost /\ port = StartPort

LEMMA ConfigInitially == OpenInit => ConfigInv
<1> SUFFICES ASSUME OpenInit PROVE ConfigInv
  OBVIOUS
<1>1. OpenInv
  BY OpenInitially
<1>2. Len(config) \in Nat
  BY <1>1 DEF OpenInv, OpenTypeOK
<1>3. /\ rest = config
      /\ (at = "conf" /\ call = "listen") \/ (at = "lookup" /\ call # "listen")
      /\ call = "start" => ip = StartHost /\ port = StartPort
  BY DEF OpenInit
<1>4. ~(Len(rest) < Len(config))
  BY <1>2, <1>3
<1> QED  BY <1>3, <1>4 DEF ConfigInv

LEMMA ReadLineKeeps ==
  ASSUME OpenInv, ConfigInv, ReadLine
  PROVE  ConfigInv'
<1>1. /\ at = "line" /\ rest # << >> /\ call' = call /\ config' = config
      /\ \/ /\ FirstToken(Head(rest)).ok /\ SecondToken(Head(rest)).ok
            /\ ip' = FirstToken(Head(rest)).tok /\ port' = SecondToken(Head(rest)).tok
            /\ rest' = Tail(rest) /\ at' = at
         \/ /\ ~(FirstToken(Head(rest)).ok /\ SecondToken(Head(rest)).ok)
            /\ at' = "crashed"
  BY DEF ReadLine
<1>2. config \in Seq(Lines) /\ rest \in Seq(Lines) /\ IsSuffix(rest, config)
  BY DEF OpenInv, OpenTypeOK, SocketInv
<1>3. /\ Len(rest) \in Nat /\ Len(config) \in Nat /\ Len(rest) > 0 /\ Head(rest) = rest[1]
      /\ Len(Tail(rest)) = Len(rest) - 1 /\ DOMAIN config = 1..Len(config)
  BY <1>1, <1>2
<1>4. /\ Len(rest) <= Len(config)
      /\ rest[1] = config[1 + (Len(config) - Len(rest))]
  <2>1. Len(rest) <= Len(config)
        /\ \A i \in 1..Len(rest) : rest[i] = config[i + (Len(config) - Len(rest))]
    BY <1>2, SuffixIff
  <2>2. 1 \in 1..Len(rest)
    BY <1>3
  <2> QED  BY <2>1, <2>2
<1> DEFINE k == 1 + (Len(config) - Len(rest))
<1>5. k \in DOMAIN config /\ Len(config) - (Len(rest) - 1) = k
  BY <1>3, <1>4
<1> HIDE DEF k
<1>6. Head(rest) = config[k]
  BY <1>3, <1>4 DEF k
<1>7. ASSUME call = "listen", \A i \in DOMAIN config : WellFormed(config[i])
      PROVE  at' = "line" /\ ReadAs(config[Len(config) - Len(rest')], ip', port')
  <2>1. WellFormed(Head(rest))
    BY <1>5, <1>6, <1>7
  <2>2. PICK b \in 0..Len(Head(rest)), h \in Hosts, p \in Ports :
               Head(rest) \in Form(b, h, p)
    BY <2>1 DEF WellFormed
  <2>3. b \in Nat
    OBVIOUS
  <2>4. /\ FirstToken(Head(rest)).ok /\ SecondToken(Head(rest)).ok
        /\ FirstToken(Head(rest)).tok = IF b = 0 THEN h ELSE Tail(Beginning(b, h))
        /\ SecondToken(Head(rest)).tok = p
    BY <2>2, <2>3, LineRead
  <2>5. /\ ip' = IF b = 0 THEN h ELSE Tail(Beginning(b, h))
        /\ port' = p /\ rest' = Tail(rest) /\ at' = "line"
    BY <1>1, <2>4
  <2>6. Len(config) - Len(rest') = k
    BY <1>3, <1>5, <2>5
  <2>7. ReadAs(Head(rest), ip', port')
    BY <2>2, <2>5 DEF ReadAs
  <2> QED  BY <1>6, <2>5, <2>6, <2>7
<1>8. at' \notin {"conf", "lookup"} /\ call' # "start"
  BY <1>1 DEF ConfigInv
<1> QED  BY <1>1, <1>7, <1>8 DEF ConfigInv

LEMMA ConfigKeeps ==
  ASSUME OpenInv, ConfigInv, OpenNext
  PROVE  ConfigInv'
<1>1. ASSUME at' \in {"next", "setup", "bound", "done", "exited"} PROVE ConfigInv'
  BY <1>1 DEF ConfigInv
<1>2. CASE ReadLine
  BY <1>2, ReadLineKeeps
<1>3. CASE OpenConf
  <2>1. /\ at = "conf" /\ at' = "line" /\ rest' = rest /\ config' = config
        /\ call' = call /\ call # "start"
    BY <1>3 DEF OpenConf, ConfigInv
  <2>2. rest' = config' /\ Len(config) \in Nat
    BY <2>1 DEF ConfigInv, OpenInv, OpenTypeOK
  <2>3. ~(Len(rest') < Len(config'))
    BY <2>1, <2>2
  <2> QED  BY <2>1, <2>3 DEF ConfigInv
<1>4. CASE EndOfConf
  BY <1>4 DEF EndOfConf, ConfigInv
<1>5. CASE NoConf \/ Getaddrinfo \/ NextAddress \/ NoAddress \/ Bind \/ Listen
           \/ Connect \/ ConnectFails
  <2>1. at' \in {"next", "setup", "bound", "done", "exited"}
    BY <1>5 DEF NoConf, Getaddrinfo, NextAddress, NoAddress, Bind, Listen, Connect,
                ConnectFails, Ends, Exits
  <2> QED  BY <1>1, <2>1
<1> QED  BY <1>2, <1>3, <1>4, <1>5 DEF OpenNext

----------------------------------------------------------------------------
(* The specification.                                                      *)

LEMMA LoopInitially ==
  ASSUME StartInit, LoopInit
  PROVE  LoopInv
<1>1. /\ open = Threads /\ reset = {} /\ data = {} /\ due = {} /\ edge = {}
      /\ owed = [n \in Fds |-> 0] /\ on = [t \in Threads |-> 0]
      /\ events = [t \in Threads |-> {}] /\ target = [t \in Threads |-> 0]
      /\ outside = 0 /\ acc = 0 /\ crossed = FALSE
  BY DEF LoopInit
<1>2. /\ mask = [e \in Instances |-> [n \in Fds |-> ""]]
      /\ pc \in [Threads -> AllPcs] /\ \A t \in Threads : pc[t] = "off"
  BY DEF StartInit, AllPcs, Pcs
<1>3. \A t \in Threads : ~InLoop(t) /\ t \in Fds /\ t # 0
  BY <1>2, DoEpollAssumption DEF InLoop, Pcs
<1>4. LoopTypeOK
  <2>1. 0 \in 0..Cardinality(Threads) /\ 0 \in -1..MaxOutside /\ 0 \in 0..MaxOutside
    BY ThreadCount, EventLoopAssumption
  <2>2. owed \in [Fds -> -1..MaxOutside] /\ on \in [Threads -> 0..Cardinality(Threads)]
    BY <1>1, <2>1, Zenon
  <2>3. /\ events \in [Threads -> SUBSET [n : Fds, ev : {"in", "out"}]]
        /\ target \in [Threads -> Fds \cup {0}]
    BY <1>1
  <2> QED  BY <1>1, <1>2, <1>3, <2>1, <2>2, <2>3 DEF LoopTypeOK, AllPcs
<1>5. RegInv
  <2>1. \A e \in Instances, n \in Fds : mask[e][n] = ""
    BY <1>2
  <2>2. InOne /\ ClosedOut /\ AcceptedOut
    BY <1>1, <2>1 DEF InOne, ClosedOut, AcceptedOut
  <2>3. NewOut
    BY <1>1, <1>3, <2>1 DEF NewOut, Untouched
  <2>4. BatchDone
    BY <1>1, <1>2 DEF BatchDone
  <2> QED  BY <2>2, <2>3, <2>4 DEF RegInv
<1>6. CountInv
  <2> SUFFICES ASSUME NEW n \in Fds
               PROVE  /\ owed[n] <= outside
                      /\ Cardinality(Pending(n)) + (IF n \in edge THEN 1 ELSE 0) <= owed[n]
    BY DEF CountInv
  <2>1. Pending(n) = {} /\ n \notin edge /\ owed[n] = 0 /\ outside = 0
    BY <1>1 DEF Pending
  <2>2. Cardinality(Pending(n)) = 0
    BY <2>1, FS_EmptySet
  <2> QED  BY <2>1, <2>2
<1>7. NoneForgotten
  BY <1>1, <1>3 DEF NoneForgotten
<1> QED  BY <1>4, <1>5, <1>6, <1>7 DEF LoopInv

\* The invariant, in three parts.
LEMMA IInvParts == IInv <=> StartInv /\ LoopInv /\ OpenInv
<1>1. StartInv => StartTypeOK
  BY DEF StartInv
<1> QED  BY <1>1 DEF IInv, LoopInv, OpenInv, TypeOK

\* The invariant holds of every state of the threaded server: its threads,
\* whatever they race, the connections they share, and the call of
\* Open_listen() or open_clientfd() before.
THEOREM EpollInvariance == Spec => []IInv
<1>1. Init => IInv
  BY StartInitially, LoopInitially, OpenInitially, IInvParts DEF Init
<1>2. ASSUME IInv, [Next]_vars PROVE IInv'
  <2>1. StartInv /\ LoopInv /\ OpenInv
    BY <1>2, IInvParts
  <2> SUFFICES StartInv' /\ LoopInv' /\ OpenInv'
    BY DEF IInv, LoopInv, OpenInv, TypeOK, StartInv
  <2>2. ASSUME UNCHANGED openvars PROVE OpenInv'
    BY <2>1, <2>2 DEF openvars, OpenInv, OpenTypeOK, SocketInv, OneSocket
  <2>3. ASSUME UNCHANGED <<startvars, loopvars>> PROVE StartInv' /\ LoopInv'
    <3>1. /\ UNCHANGED <<epollfd, flag_x, made, mask, pc, tmp, raced>>
          /\ UNCHANGED <<open, reset, data, owed, due, edge, on, events, target>>
          /\ UNCHANGED <<outside, acc, crossed>>
      BY <2>3 DEF startvars, loopvars
    <3>2. LoopFrame
      BY <2>1, <3>1, LoopTypes DEF LoopFrame, started
    <3>3. StartInv' /\ \A t \in Threads : InLoop(t)' = InLoop(t)
      BY <2>1, <3>2, FrameKeeps
    <3>4. LoopTypeOK'
      BY <2>1, <3>1, LoopTypes DEF LoopTypeOK
    <3>5. RegInv'
      BY <2>1, <3>1, <3>3, LoopTypes, RegFrame DEF AcceptedOut
    <3>6. CountInv'
      <4>1. \A k \in Fds : Once(k)' => Once(k)
        BY <3>1, <3>3 DEF Once, Instances
      <4>2. outside' \in Nat /\ outside <= outside'
        BY <2>1, <3>1, LoopTypes
      <4> QED  BY <2>1, <3>1, <4>1, <4>2, LoopTypes, CountFrame
    <3>7. NoneForgotten'
      BY <2>1, <3>1, <3>3, LoopTypes, ForgottenFrame DEF MaskNow
    <3> QED  BY <3>3, <3>4, <3>5, <3>6, <3>7 DEF LoopInv
  <2>4. CASE Opening
    BY <2>1, <2>3, <2>4, OpenKeeps DEF Opening
  <2>5. CASE Surrounds
    BY <2>1, <2>2, <2>5, AroundKeeps, FrameKeeps DEF Surrounds
  <2>6. CASE EpollFails \/ Sigpipe
    BY <2>1, <2>3, <2>6, ExitsKeeps DEF EpollFails, Sigpipe
  <2>7. ASSUME NEW t \in Threads, Starts(t) PROVE StartInv' /\ LoopInv' /\ OpenInv'
    <3>1. StartStep(t) /\ UNCHANGED loopvars /\ UNCHANGED openvars
      BY <2>7 DEF Starts
    <3> QED  BY <2>1, <2>2, <3>1, StartKeeps, StartKeepsLoop
  <2>8. ASSUME NEW t \in Threads, Loops(t) PROVE StartInv' /\ LoopInv' /\ OpenInv'
    <3>1. Loop(t) /\ UNCHANGED openvars
      BY <2>8 DEF Loops
    <3> QED  BY <2>1, <2>2, <3>1, LoopKeeps, FrameKeeps
  <2>9. CASE UNCHANGED vars
    BY <2>2, <2>3, <2>9 DEF vars
  <2> QED  BY <1>2, <2>4, <2>5, <2>6, <2>7, <2>8, <2>9 DEF Next
<1> QED  BY <1>1, <1>2, PTL DEF Spec

\* The variables of the threaded server have their types; in particular no more
\* instances are created than there are threads, and flag_x never exceeds them.
THEOREM EpollTypes == Spec => []TypeOK
<1>1. IInv => TypeOK
  BY DEF IInv
<1> QED  BY <1>1, EpollInvariance, PTL

\* However the threads race in do_epoll(), the global epollfd names an instance
\* before any of them registers its connection or waits; and threads that enter
\* one after the other share one instance.
THEOREM InstanceBeforeUse == Spec => []InstanceReady
<1>1. IInv => InstanceReady
  <2>1. IInv => NeverWithout /\ (~raced => InTurn)
    BY DEF IInv, StartInv
  <2> QED  BY <2>1 DEF InstanceReady, OneInstance, InTurn
<1> QED  BY <1>1, EpollInvariance, PTL

\* An open connection that was added stays registered with the instance the
\* threads wait on, unless they raced to create it, or a number was reused
\* between close() and delete_event() in do_write().
THEOREM RegistrationKept == Spec => []NoneForgotten
<1>1. IInv => NoneForgotten
  BY DEF IInv
<1> QED  BY <1>1, EpollInvariance, PTL

\* do_read() is not called more often than something arrives, for a connection
\* registered with EPOLLET: threads that wait on the same instance never handle
\* the same arrival twice.
THEOREM ArrivalHandledOnce == Spec => []HandledOnce
<1>1. ASSUME IInv PROVE HandledOnce
  <2> SUFFICES ASSUME NEW e \in Instances, NEW n \in Fds, mask[e][n] = "once"
               PROVE  owed[n] >= 0
    BY DEF HandledOnce
  <2>1. Once(n)
    BY DEF Once
  <2>2. Cardinality(Pending(n)) + (IF n \in edge THEN 1 ELSE 0) <= owed[n]
    BY <1>1, <2>1 DEF IInv, CountInv
  <2>3. owed[n] \in Int /\ Cardinality(Pending(n)) \in Nat
    BY <1>1, IInvParts, LoopTypes, PendingSize
  <2> QED  BY <2>2, <2>3
<1> QED  BY <1>1, EpollInvariance, PTL

\* When open_listenfd() or open_clientfd() has returned, the socket it returned
\* is the only one open, and none is if it returned -1, for any number of
\* addresses that failed.
THEOREM NoSocketLost == Spec => []OneSocket
<1>1. IInv => OneSocket
  BY DEF IInv, SocketInv
<1> QED  BY <1>1, EpollInvariance, PTL

\* A file whose lines have the form @address:port@, blanks in front or not, for
\* any number of lines, any names and any ports that can be written so, makes
\* file_param() use no null pointer; sockpair has the address of the last line,
\* with the @ in it if a blank was in front.  start() uses its own address.
THEOREM AddressLookedUp == Spec => []AddressUsed
<1>1. Init => ConfigInv
  BY ConfigInitially DEF Init
<1>2. ASSUME IInv, ConfigInv, [Next]_vars PROVE ConfigInv'
  <2>1. OpenInv
    BY <1>2, IInvParts
  <2>2. ASSUME UNCHANGED openvars PROVE ConfigInv'
    BY <1>2, <2>2 DEF openvars, ConfigInv
  <2>3. ASSUME Exits PROVE ConfigInv'
    BY <2>3 DEF Exits, Ends, ConfigInv
  <2>4. CASE Opening
    BY <1>2, <2>1, <2>4, ConfigKeeps DEF Opening
  <2>5. CASE EpollFails \/ Sigpipe
    BY <2>3, <2>5 DEF EpollFails, Sigpipe
  <2>6. CASE Surrounds \/ \E t \in Threads : Starts(t) \/ Loops(t)
    BY <2>2, <2>6 DEF Surrounds, Starts, Loops
  <2>7. CASE UNCHANGED vars
    BY <2>2, <2>7 DEF vars
  <2> QED  BY <1>2, <2>4, <2>5, <2>6, <2>7 DEF Next
<1>3. ASSUME IInv, ConfigInv PROVE AddressUsed
  <2> SUFFICES ASSUME call = "listen", config # << >>,
                      \A i \in DOMAIN config : WellFormed(config[i])
               PROVE  at # "crashed" /\ (at = "lookup" => ReadAs(Last(config), ip, port))
    BY <1>3 DEF AddressUsed, ConfigInv
  <2>1. config \in Seq(Lines)
    BY <1>3 DEF IInv, TypeOK, OpenTypeOK
  <2>2. Len(config) \in Nat /\ Len(config) > 0 /\ Len(<< >>) = 0
    BY <2>1
  <2>3. at = "lookup" => Len(rest) = 0
    BY <1>3, <2>2 DEF ConfigInv
  <2>4. at = "lookup" => Len(rest) < Len(config) /\ Len(config) - Len(rest) = Len(config)
    BY <2>2, <2>3
  <2> QED  BY <1>3, <2>4 DEF ConfigInv, Last
<1> QED  BY <1>1, <1>2, <1>3, EpollInvariance, PTL DEF Spec
=============================================================================
