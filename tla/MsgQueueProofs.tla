--------------------------- MODULE MsgQueueProofs ---------------------------
(***************************************************************************)
(* The message queues, for any number of processes, queues, messages and   *)
(* starts, any types of messages and any size of a queue.                  *)
(*                                                                         *)
(* KeyInv ties the identifiers to the keys: of the queues that are there,  *)
(* one has each key, and what a process has in arr[i] was created for key  *)
(* i.  QueueInv is about the messages in the queues, CallInv about what a  *)
(* process is at.  TornInv says how far the removal of a set of queues has *)
(* come: unless a set was torn, one process at most has removed some of    *)
(* its queues and not all, and all processes see the same ones gone.       *)
(***************************************************************************)
EXTENDS MsgQueue, FiniteSetTheorems, SequenceTheorems, TLAPS

KeyInv == /\ \A id, jd \in live : key[id] = key[jd] => id = jd
          /\ \A p \in Procs, i \in Roles : arr[p][i] \in live => key[arr[p][i]] = i

\* A message in queue id: its role is the key, and it is there once.
QueueInv == /\ queue \in [Ids -> Seq(Message)]
            /\ \A id \in Ids \ live : queue[id] = << >>
            /\ \A id \in live : \A i \in DOMAIN queue[id] : queue[id][i].role = key[id]
            /\ \A id, jd \in live : \A i \in DOMAIN queue[id] : \A j \in DOMAIN queue[jd] :
                 queue[id][i].n = queue[jd][j].n => id = jd /\ i = j

CallOf(p) == /\ pc[p] = "send" => arg[p] \in SendCalls
             /\ pc[p] = "recv" => arg[p] \in RcvCalls
             /\ pc[p] \in {"off", "open"} => peeked[p] = {}
             /\ pc[p] \notin {"open", "remove"} => step[p] = 1
             /\ peeked[p] = {} \/ \E c \in RcvCalls : peeked[p] = {c}
CallInv == \A p \in Procs : CallOf(p)

\* The roles whose queue p still has, and the processes that have removed some
\* of their queues and not all.
LiveOf(p) == {i \in Roles : arr[p][i] \in live}
Halfway == {r \in Procs : pc[r] = "remove" /\ step[r] # 1}
Cut(s) == \A p \in Procs : pc[p] \in {"idle", "send", "recv", "remove"} =>
                             LiveOf(p) = {} \/ LiveOf(p) = s..3

TornInv ==
  ~torn => /\ ~(Busy("open") /\ Busy("remove"))
           /\ \A p \in Procs : pc[p] = "open" =>
                \A i \in Roles : i < step[p] => arr[p][i] \in live
           /\ \/ Halfway = {} /\ Cut(1)
              \/ \E r \in Halfway :
                   Halfway = {r} /\ LiveOf(r) = step[r]..3 /\ Cut(step[r])

IInv == TypeOK /\ KeyInv /\ QueueInv /\ CallInv /\ TornInv /\ MessagesKept /\ PeekHolds

----------------------------------------------------------------------------
(* Operators.                                                              *)

\* A set of numbers that is not empty has a smallest.
LEMMA MinExists ==
  ASSUME NEW S \in SUBSET Nat, S # {}
  PROVE  \E x \in S : \A y \in S : x <= y
<1>1. PICK x \in S : \A y \in S : ~(<<y, x>> \in OpToRel(<, Nat))
  BY WFMin, NatLessThanWellFounded
<1>2. \A y \in S : y \in Nat /\ x \in Nat  OBVIOUS
<1>3. \A y \in S : ~(y < x)
  BY <1>1, <1>2 DEF OpToRel
<1>4. \A y \in S : x <= y
  BY <1>2, <1>3
<1> QED  BY <1>4

LEMMA MinIn ==
  ASSUME NEW S \in SUBSET Nat, S # {}
  PROVE  Min(S) \in S
BY MinExists DEF Min

\* Is there a message that a receiver who asks for type t takes?
Fits(m, t) == \/ t = 0
              \/ t > 0 /\ m.type = t
              \/ t < 0 /\ m.type <= -t

\* msgrcv() finds a message of the queue, exactly if one of them fits.
LEMMA MsgrcvFinds ==
  ASSUME NEW s \in Seq(Message), NEW t \in Int
  PROVE  /\ msgrcv(s, t) # 0 <=> \E i \in DOMAIN s : Fits(s[i], t)
         /\ msgrcv(s, t) # 0 => msgrcv(s, t) \in DOMAIN s
<1>1. /\ Len(s) \in Nat /\ DOMAIN s = 1..Len(s)
      /\ \A i \in DOMAIN s : s[i] \in Message /\ i \in Nat /\ i # 0
  OBVIOUS
<1>2. \A i \in DOMAIN s : s[i].type \in Nat /\ s[i].type # 0
  BY <1>1, MsgQueueAssumption DEF Message
<1>3. CASE t = 0
  <2> DEFINE I == {i \in 1..Len(s) : TRUE}
  <2>1. msgrcv(s, t) = IF I # {} THEN Min(I) ELSE 0
    BY <1>3 DEF msgrcv, SelectInSeq
  <2>2. I = DOMAIN s /\ I \in SUBSET Nat
    BY <1>1
  <2> HIDE DEF I
  <2>3. I # {} => Min(I) \in I
    BY <2>2, MinIn
  <2> QED  BY <1>1, <1>3, <2>1, <2>2, <2>3 DEF Fits
<1>4. CASE t > 0
  <2> DEFINE I == {i \in 1..Len(s) : s[i].type = t}
  <2>1. msgrcv(s, t) = IF I # {} THEN Min(I) ELSE 0
    BY <1>4 DEF msgrcv, SelectInSeq
  <2>2. I \in SUBSET DOMAIN s /\ I \in SUBSET Nat
    BY <1>1
  <2>3. I # {} <=> \E i \in DOMAIN s : Fits(s[i], t)
    BY <1>1, <1>4 DEF Fits
  <2> HIDE DEF I
  <2>4. I # {} => Min(I) \in I
    BY <2>2, MinIn
  <2> QED  BY <1>1, <2>1, <2>2, <2>3, <2>4
<1>5. CASE t < 0
  <2> DEFINE low == {m.type : m \in {s[i] : i \in DOMAIN s}} \cap 1..(-t)
  <2> DEFINE I == {i \in 1..Len(s) : s[i].type \in low /\ \A u \in low : s[i].type <= u}
  <2>0. t # 0 /\ ~(t > 0)
    BY <1>5
  <2>1. msgrcv(s, t) = IF I # {} THEN Min(I) ELSE 0
    BY <2>0, Zenon DEF msgrcv, SelectInSeq
  <2>2. I \in SUBSET DOMAIN s /\ I \in SUBSET Nat
    BY <1>1
  <2>3. \A x : x \in low <=> \E i \in DOMAIN s : s[i].type = x /\ Fits(s[i], t)
    BY <1>2, <1>5 DEF Fits
  <2>4. low \in SUBSET Nat
    BY <1>2
  <2>5. \A i : i \in I <=> /\ i \in DOMAIN s /\ s[i].type \in low
                           /\ \A u \in low : s[i].type <= u
    BY <1>1
  <2> HIDE DEF I, low
  <2>6. I # {} <=> low # {}
    <3>1. ASSUME low # {} PROVE I # {}
      <4>1. PICK x \in low : \A y \in low : x <= y
        BY <2>4, <3>1, MinExists
      <4>2. PICK i \in DOMAIN s : s[i].type = x
        BY <2>3
      <4> QED  BY <2>5, <4>1, <4>2
    <3> QED  BY <2>5, <3>1
  <2>7. I # {} => Min(I) \in I
    BY <2>2, MinIn
  <2>8. low # {} <=> \E i \in DOMAIN s : Fits(s[i], t)
    BY <2>3
  <2> QED  BY <1>1, <2>1, <2>2, <2>6, <2>7, <2>8
<1> QED  BY <1>3, <1>4, <1>5

\* Removing a message shifts those behind it.
LEMMA RemoveAtFacts ==
  ASSUME NEW S, NEW l \in Seq(S), NEW k \in DOMAIN l
  PROVE  /\ RemoveAt(l, k) \in Seq(S) /\ Len(RemoveAt(l, k)) = Len(l) - 1
         /\ \A i \in 1..(Len(l) - 1) :
              RemoveAt(l, k)[i] = l[IF i < k THEN i ELSE i + 1]
<1> DEFINE a == SubSeq(l, 1, k - 1)
<1> DEFINE b == SubSeq(l, k + 1, Len(l))
<1>1. Len(l) \in Nat /\ k \in 1..Len(l)
  OBVIOUS
<1>2. a \in Seq(S) /\ Len(a) = k - 1 /\ \A i \in 1..(k - 1) : a[i] = l[i]
  BY <1>1
<1>3. b \in Seq(S) /\ Len(b) = Len(l) - k /\ \A i \in 1..(Len(l) - k) : b[i] = l[i + k]
  BY <1>1
<1>4. RemoveAt(l, k) = a \o b
  BY DEF RemoveAt
<1> HIDE DEF a, b
<1>5. /\ a \o b \in Seq(S) /\ Len(a \o b) = Len(l) - 1
      /\ \A i \in 1..(Len(l) - 1) : (a \o b)[i] = IF i < k THEN a[i] ELSE b[i - (k - 1)]
  <2>1. a \o b \in Seq(S) /\ Len(a \o b) = Len(a) + Len(b)
    BY <1>2, <1>3, ConcatProperties
  <2>2. \A i \in 1..(Len(a) + Len(b)) :
          (a \o b)[i] = IF i <= Len(a) THEN a[i] ELSE b[i - Len(a)]
    BY <1>2, <1>3, ConcatProperties
  <2>3. Len(a) + Len(b) = Len(l) - 1 /\ \A i \in 1..(Len(l) - 1) : i <= k - 1 <=> i < k
    BY <1>1, <1>2, <1>3
  <2> QED  BY <1>2, <2>1, <2>2, <2>3
<1>6. ASSUME NEW i \in 1..(Len(l) - 1)
      PROVE  (IF i < k THEN a[i] ELSE b[i - (k - 1)]) = l[IF i < k THEN i ELSE i + 1]
  <2>1. CASE i < k
    BY <1>1, <1>2, <2>1
  <2>2. CASE ~(i < k)
    <3>1. i - (k - 1) \in 1..(Len(l) - k) /\ (i - (k - 1)) + k = i + 1
      BY <1>1, <2>2
    <3> QED  BY <1>3, <2>2, <3>1
  <2> QED  BY <2>1, <2>2
<1> QED  BY <1>4, <1>5, <1>6

\* What is left of a queue without message k: each of the others, once.
Without(m, l, k) ==
  /\ Len(m) = Len(l) - 1 /\ Len(m) \in Nat
  /\ \A i \in DOMAIN m : \E j \in DOMAIN l : j # k /\ m[i] = l[j]
  /\ \A j \in DOMAIN l : j # k => \E i \in DOMAIN m : m[i] = l[j]
  /\ \A i, j \in DOMAIN m : i # j =>
       \E x, y \in DOMAIN l : x # y /\ m[i] = l[x] /\ m[j] = l[y]

LEMMA RemovedOne ==
  ASSUME NEW S, NEW l \in Seq(S), NEW k \in DOMAIN l,
         NEW m, m = RemoveAt(l, k)
  PROVE  m \in Seq(S) /\ Without(m, l, k)
<1> DEFINE old(i) == IF i < k THEN i ELSE i + 1
<1>1. Len(l) \in Nat /\ DOMAIN l = 1..Len(l) /\ k \in 1..Len(l)
  OBVIOUS
<1>2. /\ m \in Seq(S) /\ Len(m) = Len(l) - 1
      /\ \A i \in 1..(Len(l) - 1) : m[i] = l[old(i)]
  BY RemoveAtFacts
<1>3. DOMAIN m = 1..(Len(l) - 1)
  BY <1>2
<1>4. \A i \in DOMAIN m : old(i) \in DOMAIN l /\ old(i) # k
  BY <1>1, <1>3
<1>5. \A i, j \in DOMAIN m : i # j => old(i) # old(j)
  BY <1>1, <1>3
<1>6. ASSUME NEW j \in DOMAIN l, j # k PROVE \E i \in DOMAIN m : m[i] = l[j]
  <2>1. CASE j < k
    <3>1. j \in DOMAIN m /\ old(j) = j
      BY <1>1, <1>3, <2>1
    <3> QED  BY <1>2, <1>3, <3>1
  <2>2. CASE ~(j < k)
    <3>1. j - 1 \in DOMAIN m /\ old(j - 1) = j
      BY <1>1, <1>3, <1>6, <2>2
    <3> QED  BY <1>2, <1>3, <3>1
  <2> QED  BY <2>1, <2>2
<1> HIDE DEF old
<1>7. \A i \in DOMAIN m : m[i] = l[old(i)]
  BY <1>2, <1>3
<1>8. Len(m) \in Nat
  BY <1>2
<1>9. \A i \in DOMAIN m : \E j \in DOMAIN l : j # k /\ m[i] = l[j]
  BY <1>4, <1>7
<1>10. \A i, j \in DOMAIN m : i # j =>
         \E x, y \in DOMAIN l : x # y /\ m[i] = l[x] /\ m[j] = l[y]
  BY <1>4, <1>5, <1>7
<1> QED  BY <1>2, <1>6, <1>8, <1>9, <1>10 DEF Without

LEMMA AtMostOne == Cardinality({}) <= 1 /\ \A x : Cardinality({x}) <= 1
<1>1. Cardinality({}) = 0 /\ \A x : Cardinality({x}) = 1
  BY FS_EmptySet, FS_Singleton
<1> QED  BY <1>1

\* The numbers of the messages that are in the queues, and of the received.
Held == UNION {{queue[id][i].n : i \in DOMAIN queue[id]} : id \in live}
Taken == {got[k] : k \in DOMAIN got}

LEMMA HeldIs ==
  /\ \A x : x \in Held <=> \E id \in live : \E i \in DOMAIN queue[id] : x = queue[id][i].n
  /\ \A x : x \in Held' <=>
            \E id \in live' : \E i \in DOMAIN queue'[id] : x = queue'[id][i].n
BY DEF Held

LEMMA KeptIs ==
  MessagesKept <=> /\ strayed = {}
                   /\ Held \cup Taken \cup lost = 1..sent
                   /\ Held \cap Taken = {} /\ Held \cap lost = {} /\ Taken \cap lost = {}
                   /\ Cardinality(Taken) = Len(got)
BY Zenon DEF MessagesKept, RolesKept, Accounted, Held, Taken

LEMMA KeptNext ==
  MessagesKept' <=> /\ strayed' = {}
                    /\ Held' \cup Taken' \cup lost' = 1..sent'
                    /\ Held' \cap Taken' = {} /\ Held' \cap lost' = {}
                    /\ Taken' \cap lost' = {}
                    /\ Cardinality(Taken') = Len(got')
BY Zenon DEF MessagesKept, RolesKept, Accounted, Held, Taken

\* What the invariant says about numbers.
LEMMA Facts ==
  ASSUME IInv
  PROVE  /\ made \in Nat /\ MaxIds \in Nat /\ made <= MaxIds
         /\ live \subseteq 1..made /\ live \subseteq Ids
         /\ 0 \notin live /\ made + 1 \notin live
         /\ \A p \in Procs, i \in Roles : arr[p][i] \in 0..made /\ arr[p][i] # made + 1
         /\ sent \in Nat /\ QCap \in Nat
         /\ queue \in [Ids -> Seq(Message)]
<1>1. /\ made \in 0..MaxIds /\ MaxIds \in Nat /\ MaxMsgs \in Nat /\ QCap \in Nat
      /\ live \subseteq 1..made /\ sent \in 0..MaxMsgs
      /\ arr \in [Procs -> [Roles -> 0..made]]
      /\ queue \in [Ids -> Seq(Message)]
  BY MsgQueueAssumption DEF IInv, TypeOK, QueueInv
<1>2. made \in Nat /\ made <= MaxIds /\ sent \in Nat
  BY <1>1
<1>3. \A p \in Procs, i \in Roles : arr[p][i] \in 0..made
  BY <1>1
<1>4. \A x \in 0..made : x # made + 1
  BY <1>2
<1>5. \A x \in 1..made : x \in 1..MaxIds /\ x # 0 /\ x # made + 1
  BY <1>1, <1>2
<1> QED  BY <1>1, <1>2, <1>3, <1>4, <1>5 DEF Ids

----------------------------------------------------------------------------
(* The initial state, and steps that leave the queues as they are.         *)

LEMMA Initially == Init => IInv
<1> SUFFICES ASSUME Init PROVE IInv
  OBVIOUS
<1>1. MaxIds \in Nat /\ MaxMsgs \in Nat /\ MaxStarts \in Nat /\ QCap \in Nat
  BY MsgQueueAssumption
<1>2. TypeOK
  <2>1. made \in 0..MaxIds /\ starts \in 0..MaxStarts /\ sent \in 0..MaxMsgs
    BY <1>1 DEF Init
  <2>2. key \in [Ids -> Roles] /\ step \in [Procs -> Roles]
    BY DEF Init, Roles
  <2>3. NoCall \in Calls
    BY DEF NoCall, Calls, Roles
  <2>4. /\ arg \in [Procs -> Calls] /\ peeked \in [Procs -> SUBSET Calls]
        /\ live \subseteq 1..made
        /\ pc \in [Procs -> {"off", "open", "idle", "send", "recv", "remove"}]
        /\ strayed \subseteq 1..sent /\ lost \subseteq 1..sent /\ torn \in BOOLEAN
    BY <2>3 DEF Init
  <2>5. got \in Seq(1..sent)
    BY DEF Init
  <2>6. \A id \in Ids : queue[id] \in Seq(Message) /\ Len(queue[id]) <= QCap
    BY <1>1 DEF Init
  <2>7. arr \in [Procs -> [Roles -> 0..made]]
    BY <1>1 DEF Init
  <2>8. \A p \in Procs : Cardinality(peeked[p]) <= 1
    BY FS_EmptySet DEF Init
  <2> QED  BY <2>1, <2>2, <2>4, <2>5, <2>6, <2>7, <2>8 DEF TypeOK
<1>3. KeyInv
  BY DEF Init, KeyInv
<1>4. QueueInv
  BY DEF Init, QueueInv
<1>5. CallInv
  BY DEF Init, CallInv, CallOf
<1>6. TornInv
  <2>1. ~Busy("open") /\ ~Busy("remove") /\ Halfway = {} /\ Cut(1)
    BY DEF Init, Busy, Halfway, Cut
  <2> QED  BY <2>1 DEF TornInv, Busy
<1>7. MessagesKept
  <2>1. Taken = {} /\ Held = {} /\ lost = {} /\ strayed = {}
    BY HeldIs DEF Init, Taken
  <2>2. 1..sent = {} /\ Len(got) = 0 /\ Cardinality({}) = 0
    BY FS_EmptySet DEF Init
  <2> QED  BY <2>1, <2>2 DEF MessagesKept, RolesKept, Accounted, Held, Taken
<1>8. PeekHolds
  BY DEF Init, PeekHolds
<1> QED  BY <1>2, <1>3, <1>4, <1>5, <1>6, <1>7, <1>8 DEF IInv

LEMMA QueuesSame ==
  ASSUME IInv, UNCHANGED <<kernel, log>>
  PROVE  QueueInv' /\ MessagesKept'
<1>1. /\ live' = live /\ queue' = queue /\ key' = key
      /\ sent' = sent /\ got' = got /\ strayed' = strayed /\ lost' = lost
  BY DEF kernel, log
<1>2. QueueInv'
  BY <1>1 DEF IInv, QueueInv
<1>3. MessagesKept'
  <2>1. Held' = Held /\ Taken' = Taken
    BY <1>1 DEF Held, Taken
  <2>2. MessagesKept
    BY DEF IInv
  <2> QED  BY <1>1, <2>1, <2>2, KeptIs, KeptNext
<1> QED  BY <1>2, <1>3

\* A process goes from one call to the next, at the first of its queues.
Moves == \A q \in Procs : pc'[q] # pc[q] =>
           /\ step[q] = 1
           /\ pc'[q] \in {"idle", "send", "recv", "remove"} => pc[q] \in {"idle", "send", "recv"}

LEMMA TornMoves ==
  ASSUME IInv, Moves, live' = live, arr' = arr, step' = step,
         ~torn' => ~torn /\ ~(Busy("open")' /\ Busy("remove")')
  PROVE  TornInv'
<1> SUFFICES ASSUME ~torn' PROVE TornInv'
  BY DEF TornInv
<1>1. ~torn /\ ~(Busy("open")' /\ Busy("remove")')
  OBVIOUS
<1>2. TornInv
  BY DEF IInv
<1>3. Halfway' = Halfway
  BY DEF Halfway, Moves
<1>4. \A q \in Procs : LiveOf(q)' = LiveOf(q)
  BY DEF LiveOf
<1>5. \A s \in Roles : Cut(s) => Cut(s)'
  BY <1>4, Zenon DEF Cut, Moves
<1>6. \A p \in Procs : pc'[p] = "open" =>
        \A i \in Roles : i < step'[p] => arr'[p][i] \in live'
  <2> SUFFICES ASSUME NEW p \in Procs, pc'[p] = "open", NEW i \in Roles, i < step[p]
               PROVE  arr[p][i] \in live
    OBVIOUS
  <2>1. step[p] # 1
    BY DEF Roles
  <2>2. pc[p] = "open"
    BY <2>1 DEF Moves
  <2> QED  BY <1>1, <1>2, <2>2 DEF TornInv
<1>7. \/ Halfway = {} /\ Cut(1)
      \/ \E r \in Halfway : Halfway = {r} /\ LiveOf(r) = step[r]..3 /\ Cut(step[r])
  BY <1>1, <1>2 DEF TornInv
<1>8. CASE Halfway = {} /\ Cut(1)
  <2>1. Halfway' = {} /\ Cut(1)'
    BY <1>3, <1>5, <1>8 DEF Roles
  <2> QED  BY <1>1, <1>6, <2>1 DEF TornInv
<1>9. ASSUME NEW r \in Halfway, Halfway = {r}, LiveOf(r) = step[r]..3, Cut(step[r])
      PROVE  TornInv'
  <2>1. r \in Procs /\ step[r] \in Roles
    BY DEF IInv, TypeOK, Halfway
  <2>2. r \in Halfway' /\ Halfway' = {r} /\ LiveOf(r)' = step'[r]..3 /\ Cut(step[r])'
    BY <1>3, <1>4, <1>5, <1>9, <2>1
  <2> QED  BY <1>1, <1>6, <2>2 DEF TornInv
<1> QED  BY <1>7, <1>8, <1>9

\* Starting, calling, looking and beginning to remove.
LEMMA Begins ==
  ASSUME IInv, NEW p \in Procs,
         \/ Start(p) \/ Destroy(p)
         \/ \E c \in SendCalls : Call(p, "send", c)
         \/ \E c \in RcvCalls : Call(p, "recv", c) \/ peek_message(p, c)
  PROVE  IInv'
<1> DEFINE Done(to, c) == /\ pc' = [pc EXCEPT ![p] = to] /\ arg' = [arg EXCEPT ![p] = c]
<1>1. UNCHANGED <<kernel, log>> /\ arr' = arr /\ step' = step
  BY DEF Start, Destroy, Call, peek_message
<1>2. made' = made /\ key' = key /\ live' = live /\ queue' = queue /\ sent' = sent
      /\ got' = got /\ strayed' = strayed /\ lost' = lost
  BY <1>1 DEF kernel, log
<1>3. \/ peeked' = peeked
      \/ /\ pc' = pc /\ arg' = arg /\ torn' = torn /\ pc[p] = "idle"
         /\ \E c \in RcvCalls : /\ peeked' = [peeked EXCEPT ![p] = {c}]
                                /\ arr[p][c.role] \in live
                                /\ msgrcv(queue[arr[p][c.role]], c.type) # 0
  BY DEF Start, Destroy, Call, peek_message
<1>4. \/ pc' = pc /\ arg' = arg /\ torn' = torn
      \/ pc[p] = "off" /\ Done("open", arg[p]) /\ torn' = (torn \/ Busy("remove"))
      \/ pc[p] = "idle" /\ Done("remove", arg[p]) /\ torn' = (torn \/ Busy("open"))
      \/ pc[p] = "idle" /\ torn' = torn /\ \E c \in SendCalls : Done("send", c)
      \/ pc[p] = "idle" /\ torn' = torn /\ \E c \in RcvCalls : Done("recv", c)
  BY DEF Start, Destroy, Call, peek_message, Goto, IInv, TypeOK
<1>5. starts' \in 0..MaxStarts
  BY MsgQueueAssumption DEF IInv, TypeOK, Start, Destroy, Call, peek_message
<1>6. SendCalls \subseteq Calls /\ RcvCalls \subseteq Calls
  BY MsgQueueAssumption DEF SendCalls, RcvCalls, Calls, Roles
<1>7. /\ pc \in [Procs -> {"off", "open", "idle", "send", "recv", "remove"}]
      /\ arg \in [Procs -> Calls] /\ peeked \in [Procs -> SUBSET Calls]
      /\ \A q \in Procs : Cardinality(peeked[q]) <= 1
      /\ torn \in BOOLEAN
  BY DEF IInv, TypeOK
<1>8. /\ pc' \in [Procs -> {"off", "open", "idle", "send", "recv", "remove"}]
      /\ arg' \in [Procs -> Calls]
  BY <1>4, <1>6, <1>7
<1>9. torn' \in BOOLEAN
  BY <1>4, <1>7 DEF Busy
<1>10. peeked' \in [Procs -> SUBSET Calls] /\ \A q \in Procs : Cardinality(peeked'[q]) <= 1
  <2>1. CASE peeked' = peeked
    BY <1>7, <2>1
  <2>2. ASSUME NEW c \in RcvCalls, peeked' = [peeked EXCEPT ![p] = {c}]
        PROVE  /\ peeked' \in [Procs -> SUBSET Calls]
               /\ \A q \in Procs : Cardinality(peeked'[q]) <= 1
    <3>1. {c} \in SUBSET Calls
      BY <1>6
    <3>2. Cardinality({c}) <= 1
      BY AtMostOne
    <3> QED  BY <1>7, <2>2, <3>1, <3>2
  <2> QED  BY <1>3, <2>1, <2>2
<1>11. TypeOK'
  BY <1>1, <1>2, <1>5, <1>8, <1>9, <1>10 DEF IInv, TypeOK
<1>12. KeyInv'
  BY <1>1, <1>2 DEF IInv, KeyInv
<1>13. CallInv'
  <2>1. CallInv
    BY DEF IInv
  <2>2. \A q \in Procs : q # p => pc'[q] = pc[q] /\ arg'[q] = arg[q] /\ peeked'[q] = peeked[q]
    BY <1>3, <1>4, <1>7
  <2>3. ASSUME NEW q \in Procs, q # p PROVE CallOf(q)'
    BY <1>1, <2>1, <2>2, <2>3 DEF CallInv, CallOf
  <2>4. CallOf(p)'
    BY <1>1, <1>3, <1>4, <1>7, <2>1 DEF CallInv, CallOf
  <2> QED  BY <2>3, <2>4 DEF CallInv
<1>14. TornInv'
  <2>1. CallOf(p)
    BY DEF IInv, CallInv
  <2>2. Moves
    BY <1>4, <1>7, <2>1 DEF Moves, CallOf
  <2>3. ~torn => ~(Busy("open") /\ Busy("remove"))
    BY DEF IInv, TornInv
  <2>4. ~torn' => ~torn /\ ~(Busy("open")' /\ Busy("remove")')
    BY <1>4, <1>7, <2>3 DEF Busy
  <2> QED  BY <1>1, <1>2, <2>2, <2>4, TornMoves
<1>15. PeekHolds'
  <2>1. PeekHolds
    BY DEF IInv
  <2> QED  BY <1>1, <1>2, <1>3, <1>7, <2>1 DEF PeekHolds
<1> QED  BY <1>1, <1>11, <1>12, <1>13, <1>14, <1>15, QueuesSame DEF IInv

\* Whatever ends a process, unless it had removed some of its queues.
LEMMA Exits ==
  ASSUME IInv, NEW p \in Procs, Exit(p), torn' \in BOOLEAN,
         ~torn' => ~torn /\ p \notin Halfway
  PROVE  IInv'
<1>1. UNCHANGED <<kernel, log>> /\ starts' = starts
  BY DEF Exit
<1>2. made' = made /\ key' = key /\ live' = live /\ queue' = queue /\ sent' = sent
      /\ got' = got /\ strayed' = strayed /\ lost' = lost
  BY <1>1 DEF kernel, log
<1>3. /\ pc \in [Procs -> {"off", "open", "idle", "send", "recv", "remove"}]
      /\ arg \in [Procs -> Calls] /\ peeked \in [Procs -> SUBSET Calls]
      /\ \A q \in Procs : Cardinality(peeked[q]) <= 1
      /\ arr \in [Procs -> [Roles -> 0..made]] /\ made \in Nat /\ 0 \notin live
      /\ step \in [Procs -> Roles]
  BY Facts DEF IInv, TypeOK
<1>4. /\ pc'[p] = "off" /\ arr'[p] = [i \in Roles |-> 0] /\ step'[p] = 1
      /\ arg'[p] = NoCall /\ peeked'[p] = {}
      /\ \A q \in Procs : q # p =>
           /\ pc'[q] = pc[q] /\ arr'[q] = arr[q] /\ step'[q] = step[q]
           /\ arg'[q] = arg[q] /\ peeked'[q] = peeked[q]
  BY <1>3 DEF Exit
<1>5. TypeOK'
  <2>1. NoCall \in Calls /\ 1 \in Roles
    BY DEF NoCall, Calls, Roles
  <2>2. /\ pc' \in [Procs -> {"off", "open", "idle", "send", "recv", "remove"}]
        /\ arg' \in [Procs -> Calls] /\ peeked' \in [Procs -> SUBSET Calls]
        /\ step' \in [Procs -> Roles]
    BY <1>3, <2>1 DEF Exit
  <2>3. arr' \in [Procs -> [Roles -> 0..made]]
    <3>1. [i \in Roles |-> 0] \in [Roles -> 0..made]
      BY <1>3
    <3> QED  BY <1>3, <3>1 DEF Exit
  <2>4. \A q \in Procs : Cardinality(peeked'[q]) <= 1
    BY <1>3, <1>4, AtMostOne
  <2> QED  BY <1>1, <1>2, <2>2, <2>3, <2>4 DEF IInv, TypeOK
<1>6. KeyInv'
  BY <1>2, <1>3, <1>4 DEF IInv, KeyInv
<1>7. CallInv'
  BY <1>4 DEF IInv, CallInv, CallOf
<1>8. PeekHolds'
  BY <1>2, <1>4 DEF IInv, PeekHolds
<1>9. ASSUME ~torn' PROVE TornInv'
  <2>1. ~torn /\ p \notin Halfway /\ TornInv
    BY <1>9 DEF IInv
  <2>2. \A what \in {"open", "remove"} : Busy(what)' => Busy(what)
    BY <1>4 DEF Busy
  <2>3. Halfway' = Halfway
    BY <1>4, <2>1 DEF Halfway
  <2>4. \A q \in Procs : q # p => LiveOf(q)' = LiveOf(q)
    BY <1>2, <1>4 DEF LiveOf
  <2>5. \A s \in Roles : Cut(s) => Cut(s)'
    BY <1>4, <2>4, Zenon DEF Cut
  <2>6. \A q \in Procs : pc'[q] = "open" =>
          \A i \in Roles : i < step'[q] => arr'[q][i] \in live'
    BY <1>2, <1>4, <2>1 DEF TornInv
  <2>7. \/ Halfway = {} /\ Cut(1)
        \/ \E r \in Halfway : Halfway = {r} /\ LiveOf(r) = step[r]..3 /\ Cut(step[r])
    BY <2>1 DEF TornInv
  <2>8. ~(Busy("open")' /\ Busy("remove")')
    BY <2>1, <2>2 DEF TornInv
  <2>9. CASE Halfway = {} /\ Cut(1)
    <3>1. Halfway' = {} /\ Cut(1)'
      BY <2>3, <2>5, <2>9 DEF Roles
    <3> QED  BY <2>6, <2>8, <3>1 DEF TornInv
  <2>10. ASSUME NEW r \in Halfway, Halfway = {r}, LiveOf(r) = step[r]..3, Cut(step[r])
         PROVE  TornInv'
    <3>1. r \in Procs /\ step[r] \in Roles /\ r # p
      BY <1>3, <2>1 DEF Halfway
    <3>2. r \in Halfway' /\ Halfway' = {r} /\ LiveOf(r)' = step'[r]..3 /\ Cut(step[r])'
      BY <1>4, <2>3, <2>4, <2>5, <2>10, <3>1
    <3> QED  BY <2>6, <2>8, <3>2 DEF TornInv
  <2> QED  BY <2>7, <2>9, <2>10
<1>10. TornInv'
  BY <1>9 DEF TornInv
<1> QED  BY <1>1, <1>5, <1>6, <1>7, <1>8, <1>10, QueuesSame DEF IInv

LEMMA Ends ==
  ASSUME IInv, NEW p \in Procs, Dies(p) \/ OpenFails(p) \/ WaitFails(p) \/ RemoveFails(p)
  PROVE  IInv'
<1>1. Exit(p)
  BY DEF Dies, OpenFails, WaitFails, RemoveFails
<1>2. torn \in BOOLEAN
  BY DEF IInv, TypeOK
<1>3. torn' = torn \/ torn' = (torn \/ pc[p] = "remove")
  BY DEF Dies, OpenFails, WaitFails, RemoveFails
<1>4. torn' \in BOOLEAN
  BY <1>2, <1>3
<1>5. ~torn' => ~torn
  BY <1>2, <1>3
<1>6. ASSUME ~torn' PROVE p \notin Halfway
  <2>1. CASE Dies(p)
    BY <1>6, <2>1 DEF Dies, Halfway
  <2>2. CASE OpenFails(p) \/ WaitFails(p)
    BY <2>2 DEF OpenFails, WaitFails, Halfway
  <2>3. ASSUME RemoveFails(p), p \in Halfway PROVE FALSE
    <3>1. arr[p][step[p]] \notin live /\ step[p] \in Roles
      BY <2>3 DEF RemoveFails, IInv, TypeOK
    <3>2. LiveOf(p) = step[p]..3
      BY <1>5, <1>6, <2>3 DEF IInv, TornInv
    <3>3. step[p] \in step[p]..3
      BY <3>1 DEF Roles
    <3> QED  BY <3>1, <3>2, <3>3 DEF LiveOf
  <2> QED  BY <2>1, <2>2, <2>3
<1> QED  BY <1>1, <1>4, <1>5, <1>6, Exits

----------------------------------------------------------------------------
(* create_queue()                                                          *)

\* Opening queue id, which is there afterwards: for the key if it is new, and
\* with that key if it was there before.
Opens(p, id) ==
  /\ Opened(p, id)
  /\ \/ id \in live /\ key[id] = step[p] /\ UNCHANGED kernel
     \/ /\ id = made + 1 /\ made < MaxIds
        /\ \A jd \in live : key[jd] # step[p]
        /\ made' = made + 1 /\ key' = [key EXCEPT ![id] = step[p]]
        /\ live' = live \cup {id} /\ queue' = queue

LEMMA OpenQueueOpens ==
  ASSUME NEW p \in Procs, open_queue(p)
  PROVE  \E id : Opens(p, id)
<1>1. CASE Found(Ftok(step[p])) = {}
  <2>1. \A jd \in live : key[jd] # step[p]
    BY <1>1 DEF Found, Ftok
  <2>2. OpenNew(p)
    BY <1>1 DEF open_queue
  <2> QED  BY <2>1, <2>2 DEF OpenNew, Opens, Ftok
<1>2. CASE Found(Ftok(step[p])) # {}
  <2>1. PICK id \in Found(Ftok(step[p])) : Opened(p, id) /\ UNCHANGED kernel
    BY <1>2 DEF open_queue
  <2> QED  BY <2>1 DEF Opens, Found, Ftok
<1> QED  BY <1>1, <1>2

LEMMA OpenPreserves ==
  ASSUME IInv, NEW p \in Procs, open_queue(p)
  PROVE  IInv'
<1>1. PICK id : Opens(p, id)
  BY OpenQueueOpens
<1>2. pc[p] = "open"
  BY DEF open_queue
<1>3. /\ made \in Nat /\ MaxIds \in Nat /\ made <= MaxIds
      /\ live \subseteq 1..made /\ live \subseteq Ids /\ 0 \notin live /\ made + 1 \notin live
      /\ \A q \in Procs, i \in Roles : arr[q][i] \in 0..made /\ arr[q][i] # made + 1
  BY Facts
<1>4. /\ arr \in [Procs -> [Roles -> 0..made]] /\ key \in [Ids -> Roles]
      /\ pc \in [Procs -> {"off", "open", "idle", "send", "recv", "remove"}]
      /\ step \in [Procs -> Roles] /\ step[p] \in Roles
      /\ starts \in 0..MaxStarts
  BY DEF IInv, TypeOK
<1>5. /\ arr' = [arr EXCEPT ![p][step[p]] = id]
      /\ step' = [step EXCEPT ![p] = IF @ = 3 THEN 1 ELSE @ + 1]
      /\ pc' = [pc EXCEPT ![p] = IF step[p] = 3 THEN "idle" ELSE "open"]
      /\ arg' = arg /\ starts' = starts /\ peeked' = peeked /\ torn' = torn
      /\ sent' = sent /\ got' = got /\ strayed' = strayed /\ lost' = lost
  BY <1>1 DEF Opens, Opened, log
<1>6. /\ queue' = queue /\ made' \in 0..MaxIds /\ made' \in Nat /\ made <= made'
      /\ live' \subseteq 1..made' /\ live' \subseteq Ids
      /\ id \in live' /\ live' = live \cup {id} /\ id \in 0..made'
  <2>1. CASE id \in live /\ UNCHANGED kernel
    BY <1>3, <2>1 DEF kernel
  <2>2. CASE id = made + 1 /\ made < MaxIds /\ made' = made + 1 /\ live' = live \cup {id}
             /\ queue' = queue
    BY <1>3, <2>2 DEF Ids
  <2> QED  BY <1>1, <2>1, <2>2 DEF Opens
<1>7. /\ key' \in [Ids -> Roles] /\ key'[id] = step[p]
      /\ \A jd \in live : key'[jd] = key[jd] /\ (key[jd] = step[p] => jd = id)
  <2>1. CASE id \in live /\ key[id] = step[p] /\ UNCHANGED kernel
    BY <1>4, <2>1 DEF kernel, IInv, KeyInv
  <2>2. CASE id = made + 1 /\ key' = [key EXCEPT ![id] = step[p]] /\ live' = live \cup {id}
             /\ \A jd \in live : key[jd] # step[p]
    BY <1>3, <1>4, <1>6, <2>2
  <2> QED  BY <1>1, <2>1, <2>2 DEF Opens
<1>8. \A q \in Procs, i \in Roles : arr[q][i] \in live' => arr[q][i] \in live
  <2>1. id \in live \/ id = made + 1
    BY <1>1 DEF Opens
  <2> QED  BY <1>3, <1>6, <2>1
<1>9. /\ \A q \in Procs : q # p => arr'[q] = arr[q] /\ pc'[q] = pc[q] /\ step'[q] = step[q]
      /\ arr'[p][step[p]] = id
      /\ \A i \in Roles : i # step[p] => arr'[p][i] = arr[p][i]
      /\ step'[p] = IF step[p] = 3 THEN 1 ELSE step[p] + 1
      /\ pc'[p] = IF step[p] = 3 THEN "idle" ELSE "open"
  BY <1>4, <1>5
<1>10. TypeOK'
  <2>1. arr' \in [Procs -> [Roles -> 0..made']]
    <3>1. arr \in [Procs -> [Roles -> 0..made']]
      <4>1. 0..made \subseteq 0..made'
        BY <1>3, <1>6
      <4> QED  BY <1>4, <4>1
    <3> QED  BY <1>4, <1>5, <1>6, <3>1
  <2>2. step' \in [Procs -> Roles]
    <3>1. (IF step[p] = 3 THEN 1 ELSE step[p] + 1) \in Roles
      BY <1>4 DEF Roles
    <3> QED  BY <1>4, <1>5, <3>1
  <2>3. pc' \in [Procs -> {"off", "open", "idle", "send", "recv", "remove"}]
    BY <1>4, <1>5
  <2> QED  BY <1>5, <1>6, <1>7, <2>1, <2>2, <2>3 DEF IInv, TypeOK
<1>11. KeyInv'
  <2>1. ASSUME NEW x \in live', NEW y \in live', key'[x] = key'[y] PROVE x = y
    BY <1>6, <1>7, <2>1 DEF IInv, KeyInv
  <2>2. ASSUME NEW q \in Procs, NEW i \in Roles, arr'[q][i] \in live'
        PROVE  key'[arr'[q][i]] = i
    <3>1. CASE q = p /\ i = step[p]
      BY <1>7, <1>9, <3>1
    <3>2. CASE q # p \/ i # step[p]
      BY <1>7, <1>8, <1>9, <2>2, <3>2 DEF IInv, KeyInv
    <3> QED  BY <3>1, <3>2
  <2> QED  BY <2>1, <2>2 DEF KeyInv
<1>12. id \notin live => queue[id] = << >>
  BY <1>6 DEF IInv, QueueInv
<1>13. QueueInv'
  <2>1. QueueInv
    BY DEF IInv
  <2>2. \A jd \in live' : \A i \in DOMAIN queue[jd] : jd \in live
    BY <1>6, <1>12
  <2> QED  BY <1>6, <1>7, <2>1, <2>2 DEF QueueInv
<1>14. CallInv'
  <2>1. CallInv
    BY DEF IInv
  <2>2. CallOf(p)'
    BY <1>2, <1>5, <1>9, <2>1 DEF CallInv, CallOf
  <2>3. \A q \in Procs : q # p => CallOf(q)'
    BY <1>5, <1>9, <2>1 DEF CallInv, CallOf
  <2> QED  BY <2>2, <2>3 DEF CallInv
<1>15. MessagesKept'
  <2>1. Held' = Held
    <3>1. \A x : x \in Held' <=> x \in Held
      BY <1>6, <1>12, HeldIs
    <3> QED  BY <3>1
  <2>2. Taken' = Taken
    BY <1>5 DEF Taken
  <2>3. MessagesKept
    BY DEF IInv
  <2> QED  BY <1>5, <2>1, <2>2, <2>3, KeptIs, KeptNext
<1>16. PeekHolds'
  <2>1. peeked[p] = {} /\ PeekHolds
    BY <1>2 DEF IInv, CallInv, CallOf
  <2> QED  BY <1>5, <1>6, <1>9, <2>1 DEF PeekHolds
<1>17. ASSUME ~torn' PROVE TornInv'
  <2>1. TornInv /\ ~torn
    BY <1>5, <1>17 DEF IInv
  <2>2. ~Busy("remove")
    BY <1>2, <2>1 DEF TornInv, Busy
  <2>3. ~Busy("remove")'
    BY <1>9, <2>2 DEF Busy
  <2>4. Halfway = {} /\ Halfway' = {}
    BY <2>2, <2>3 DEF Busy, Halfway
  <2>5. Cut(1)
    BY <2>1, <2>4 DEF TornInv
  <2>6. \A i \in Roles : i < step[p] => arr'[p][i] \in live'
    <3>1. \A i \in Roles : i < step[p] => arr[p][i] \in live /\ i # step[p]
      BY <1>2, <1>4, <2>1 DEF TornInv, Roles
    <3> QED  BY <1>6, <1>9, <3>1
  <2>7. \A q \in Procs : pc'[q] = "open" =>
          \A i \in Roles : i < step'[q] => arr'[q][i] \in live'
    <3>1. \A q \in Procs : q # p => (pc'[q] = "open" =>
            \A i \in Roles : i < step'[q] => arr'[q][i] \in live')
      BY <1>6, <1>9, <2>1 DEF TornInv
    <3>2. \A i \in Roles : pc'[p] = "open" /\ i < step'[p] => i < step[p] \/ i = step[p]
      BY <1>4, <1>9 DEF Roles
    <3>3. \A i \in Roles : pc'[p] = "open" /\ i < step'[p] => arr'[p][i] \in live'
      BY <1>6, <1>9, <2>6, <3>2
    <3> QED  BY <3>1, <3>3
  <2>8. Cut(1)'
    <3>1. \A q \in Procs : q # p => LiveOf(q)' = LiveOf(q)
      BY <1>6, <1>8, <1>9 DEF LiveOf
    <3>2. pc'[p] = "idle" => LiveOf(p)' = 1..3
      <4>1. pc'[p] = "idle" => \A i \in Roles : i < step[p] \/ i = step[p]
        BY <1>4, <1>9 DEF Roles
      <4>2. pc'[p] = "idle" => \A i \in Roles : arr'[p][i] \in live'
        BY <1>6, <1>9, <2>6, <4>1
      <4> QED  BY <4>2 DEF LiveOf, Roles
    <3> QED  BY <1>9, <2>5, <3>1, <3>2 DEF Cut
  <2> QED  BY <2>3, <2>4, <2>7, <2>8 DEF TornInv
<1>18. TornInv'
  BY <1>17 DEF TornInv
<1> QED  BY <1>10, <1>11, <1>13, <1>14, <1>15, <1>16, <1>18 DEF IInv

----------------------------------------------------------------------------
(* send_queue() and rcv_queue()                                            *)

\* A message that was found is found behind another one, too.
LEMMA StillFinds ==
  ASSUME NEW s \in Seq(Message), NEW m \in Message, NEW t \in Int, msgrcv(s, t) # 0
  PROVE  msgrcv(Append(s, m), t) # 0
<1>1. PICK i \in DOMAIN s : Fits(s[i], t)
  BY MsgrcvFinds
<1>2. /\ Append(s, m) \in Seq(Message) /\ i \in DOMAIN Append(s, m)
      /\ Append(s, m)[i] = s[i]
  OBVIOUS
<1> QED  BY <1>1, <1>2, MsgrcvFinds

\* A call that is being made goes to a queue with the key of its role.
LEMMA CallQueue ==
  ASSUME IInv, NEW p \in Procs, pc[p] \in {"send", "recv"}, Qid(p) \in live
  PROVE  /\ arg[p].role \in Roles /\ key[Qid(p)] = arg[p].role /\ Qid(p) \in Ids
         /\ pc[p] = "send" => arg[p].type \in Types
         /\ pc[p] = "recv" => arg[p].type \in Int
         /\ step[p] = 1
<1>1. /\ pc[p] = "send" => arg[p] \in SendCalls
      /\ pc[p] = "recv" => arg[p] \in RcvCalls
      /\ step[p] = 1
  BY DEF IInv, CallInv, CallOf
<1>2. /\ arg[p].role \in Roles
      /\ pc[p] = "send" => arg[p].type \in Types
      /\ pc[p] = "recv" => arg[p].type \in Int
  BY <1>1, MsgQueueAssumption DEF SendCalls, RcvCalls, Roles
<1>3. key[Qid(p)] = arg[p].role
  BY <1>2 DEF IInv, KeyInv, Qid
<1> QED  BY <1>1, <1>2, <1>3, Facts

\* What the ends of both calls have in common.
LEMMA Returns ==
  ASSUME IInv, NEW p \in Procs, pc[p] \in {"send", "recv"}, Qid(p) \in live,
         pc' = [pc EXCEPT ![p] = "idle"], arg' = [arg EXCEPT ![p] = NoCall],
         \A q \in Procs : peeked'[q] = peeked[q] \/ peeked'[q] = {},
         UNCHANGED <<made, key, live, arr, step, starts, torn>>
  PROVE  /\ pc' \in [Procs -> {"off", "open", "idle", "send", "recv", "remove"}]
         /\ arg' \in [Procs -> Calls]
         /\ KeyInv' /\ CallInv' /\ TornInv'
<1>1. /\ pc \in [Procs -> {"off", "open", "idle", "send", "recv", "remove"}]
      /\ arg \in [Procs -> Calls] /\ torn \in BOOLEAN
  BY DEF IInv, TypeOK
<1>2. NoCall \in Calls
  BY DEF NoCall, Calls, Roles
<1>3. /\ pc' \in [Procs -> {"off", "open", "idle", "send", "recv", "remove"}]
      /\ arg' \in [Procs -> Calls]
  BY <1>1, <1>2
<1>4. KeyInv'
  BY DEF IInv, KeyInv
<1>5. CallInv'
  <2>1. CallInv
    BY DEF IInv
  <2>2. CallOf(p)'
    BY <1>1, <2>1 DEF CallInv, CallOf
  <2>3. ASSUME NEW q \in Procs, q # p PROVE CallOf(q)'
    BY <1>1, <2>1, <2>3 DEF CallInv, CallOf
  <2> QED  BY <2>2, <2>3 DEF CallInv
<1>6. TornInv'
  <2>1. Moves
    BY <1>1, CallQueue DEF Moves
  <2>2. ~torn' => ~torn /\ ~(Busy("open") /\ Busy("remove"))
    BY DEF IInv, TornInv
  <2>3. ~torn' => ~torn /\ ~(Busy("open")' /\ Busy("remove")')
    BY <1>1, <2>2 DEF Busy
  <2> QED  BY <2>1, <2>3, TornMoves
<1> QED  BY <1>3, <1>4, <1>5, <1>6

LEMMA SendPreserves ==
  ASSUME IInv, NEW p \in Procs, send_queue(p)
  PROVE  IInv'
<1> DEFINE id == Qid(p)
<1> DEFINE m == [n |-> sent + 1, type |-> arg[p].type, role |-> arg[p].role]
<1>1. /\ pc[p] = "send" /\ pc' = [pc EXCEPT ![p] = "idle"]
      /\ id \in live /\ Len(queue[id]) < QCap /\ sent < MaxMsgs
      /\ sent' = sent + 1 /\ queue' = [queue EXCEPT ![id] = Append(@, m)]
      /\ arg' = [arg EXCEPT ![p] = NoCall]
      /\ UNCHANGED <<made, key, live, arr, step, starts, got, strayed, lost, peeked, torn>>
  BY DEF send_queue, Goto
<1>2. /\ key[id] = arg[p].role /\ id \in Ids /\ arg[p].type \in Types /\ arg[p].role \in Roles
  BY <1>1, CallQueue
<1>3. /\ sent \in Nat /\ QCap \in Nat /\ queue \in [Ids -> Seq(Message)] /\ live \subseteq Ids
  BY Facts
<1>4. m \in Message /\ m.n = sent + 1 /\ m.role = key[id]
  BY <1>2, <1>3 DEF Message
<1>5. /\ pc' \in [Procs -> {"off", "open", "idle", "send", "recv", "remove"}]
      /\ arg' \in [Procs -> Calls]
      /\ KeyInv' /\ CallInv' /\ TornInv'
  BY <1>1, Returns
<1> HIDE DEF id, m
<1>6. /\ queue'[id] = Append(queue[id], m)
      /\ \A jd \in Ids : jd # id => queue'[jd] = queue[jd]
      /\ queue[id] \in Seq(Message) /\ queue' \in [Ids -> Seq(Message)]
  <2>1. queue[id] \in Seq(Message) /\ Append(queue[id], m) \in Seq(Message)
    BY <1>2, <1>3, <1>4
  <2> QED  BY <1>1, <1>2, <1>3, <2>1
<1>7. /\ Len(queue'[id]) = Len(queue[id]) + 1 /\ Len(queue[id]) \in Nat
      /\ DOMAIN queue[id] = 1..Len(queue[id]) /\ DOMAIN queue'[id] = 1..(Len(queue[id]) + 1)
      /\ queue'[id][Len(queue[id]) + 1] = m
      /\ \A i \in DOMAIN queue[id] : queue'[id][i] = queue[id][i]
  BY <1>4, <1>6
<1> DEFINE last == Len(queue[id]) + 1
<1>8. /\ \A i : i \in DOMAIN queue'[id] <=> i \in DOMAIN queue[id] \/ i = last
      /\ last \notin DOMAIN queue[id]
  BY <1>7
<1>9. queue'[id][last] = m
  BY <1>7
<1> HIDE DEF last
<1>10. \A jd \in live : \A i \in DOMAIN queue[jd] : queue[jd][i].n \in 1..sent
                                                  /\ queue[jd][i].n # sent + 1
  <2>1. Held \cup Taken \cup lost = 1..sent
    BY KeptIs DEF IInv
  <2>2. \A x \in 1..sent : x # sent + 1
    BY <1>3
  <2> QED  BY <2>1, <2>2, HeldIs
<1>each. \A jd \in live : \A i \in DOMAIN queue'[jd] :
           \/ jd = id /\ i = last /\ queue'[jd][i].n = sent + 1
           \/ i \in DOMAIN queue[jd] /\ queue'[jd][i] = queue[jd][i]
  BY <1>3, <1>4, <1>6, <1>7, <1>8, <1>9
<1>11. TypeOK'
  <2>1. got' \in Seq(1..sent') /\ strayed' \subseteq 1..sent' /\ lost' \subseteq 1..sent'
        /\ sent' \in 0..MaxMsgs
    <3>1. 1..sent \subseteq 1..(sent + 1)
      BY <1>3
    <3>2. sent + 1 \in 0..MaxMsgs
      BY <1>1, <1>3, MsgQueueAssumption
    <3> QED  BY <1>1, <3>1, <3>2, SeqMonotonic DEF IInv, TypeOK
  <2>2. \A jd \in Ids : queue'[jd] \in Seq(Message) /\ Len(queue'[jd]) <= QCap
    <3>1. Len(queue'[id]) <= QCap
      BY <1>1, <1>3, <1>7
    <3>2. \A jd \in Ids : jd # id => Len(queue'[jd]) <= QCap
      BY <1>6 DEF IInv, TypeOK
    <3> QED  BY <1>6, <3>1, <3>2
  <2> QED  BY <1>1, <1>5, <2>1, <2>2 DEF IInv, TypeOK
<1>12. QueueInv'
  <2>1. QueueInv
    BY DEF IInv
  <2>2. \A jd \in Ids \ live' : queue'[jd] = << >>
    BY <1>1, <1>6, <2>1 DEF QueueInv
  <2>3. \A jd \in live' : \A i \in DOMAIN queue'[jd] : queue'[jd][i].role = key'[jd]
    BY <1>1, <1>3, <1>4, <1>6, <1>7, <1>8, <1>9, <2>1 DEF QueueInv
  <2>5. ASSUME NEW x \in live', NEW y \in live',
               NEW i \in DOMAIN queue'[x], NEW j \in DOMAIN queue'[y],
               queue'[x][i].n = queue'[y][j].n
        PROVE  x = y /\ i = j
    BY <1>1, <1>10, <1>each, <2>1, <2>5 DEF QueueInv
  <2> QED  BY <1>6, <2>2, <2>3, <2>5 DEF QueueInv
<1>13. MessagesKept'
  <2>1. Held' = Held \cup {sent + 1}
    <3>1. \A x : x \in Held' => x \in Held \/ x = sent + 1
      BY <1>1, <1>each, HeldIs
    <3>2. \A x : x \in Held => x \in Held'
      BY <1>1, <1>3, <1>6, <1>7, <1>8, HeldIs
    <3>3. sent + 1 \in Held'
      BY <1>1, <1>4, <1>8, <1>9, HeldIs
    <3> QED  BY <3>1, <3>2, <3>3
  <2>2. Taken' = Taken
    BY <1>1 DEF Taken
  <2>3. 1..sent' = (1..sent) \cup {sent + 1} /\ sent + 1 \notin 1..sent
    BY <1>1, <1>3
  <2>4. MessagesKept
    BY DEF IInv
  <2> QED  BY <1>1, <2>1, <2>2, <2>3, <2>4, KeptIs, KeptNext
<1>14. PeekHolds'
  <2> SUFFICES ASSUME NEW q \in Procs, NEW c \in peeked[q]
               PROVE  arr[q][c.role] \in live /\ msgrcv(queue'[arr[q][c.role]], c.type) # 0
    BY <1>1 DEF PeekHolds
  <2>1. arr[q][c.role] \in live /\ msgrcv(queue[arr[q][c.role]], c.type) # 0
    BY DEF IInv, PeekHolds
  <2>2. c \in RcvCalls
    BY DEF IInv, CallInv, CallOf
  <2>3. c.type \in Int
    BY <2>2, MsgQueueAssumption DEF RcvCalls
  <2>4. CASE arr[q][c.role] = id
    BY <1>4, <1>6, <2>1, <2>3, <2>4, StillFinds
  <2>5. CASE arr[q][c.role] # id
    BY <1>3, <1>6, <2>1, <2>5
  <2> QED  BY <2>1, <2>4, <2>5
<1> QED  BY <1>5, <1>11, <1>12, <1>13, <1>14 DEF IInv

\* What processes count on after somebody has taken from queue id.
LEMMA Forgets ==
  ASSUME IInv, NEW p \in Procs, NEW id, peeked' = Forget(p, id)
  PROVE  /\ peeked' \in [Procs -> SUBSET Calls]
         /\ \A q \in Procs : Cardinality(peeked'[q]) <= 1
         /\ \A q \in Procs : peeked'[q] = peeked[q] \/ peeked'[q] = {}
         /\ \A q \in Procs : \A c \in peeked'[q] : /\ c \in peeked[q]
                                                   /\ arr[q][c.role] # id
<1>1. /\ peeked \in [Procs -> SUBSET Calls]
      /\ \A q \in Procs : Cardinality(peeked[q]) <= 1
  BY DEF IInv, TypeOK
<1>2. \A q \in Procs : peeked[q] = {} \/ \E c \in RcvCalls : peeked[q] = {c}
  BY DEF IInv, CallInv, CallOf
<1>3. /\ peeked' \in [Procs -> SUBSET Calls]
      /\ \A q \in Procs : \A c \in peeked'[q] : c \in peeked[q] /\ arr[q][c.role] # id
  BY <1>1 DEF Forget
<1>4. \A q \in Procs : peeked'[q] \subseteq peeked[q]
  BY <1>3
<1>5. ASSUME NEW q \in Procs PROVE peeked'[q] = peeked[q] \/ peeked'[q] = {}
  <2>1. peeked'[q] \subseteq peeked[q]
    BY <1>4
  <2>2. CASE peeked[q] = {}
    BY <2>1, <2>2
  <2>3. ASSUME NEW c \in RcvCalls, peeked[q] = {c}
        PROVE  peeked'[q] = peeked[q] \/ peeked'[q] = {}
    BY <2>1, <2>3
  <2> QED  BY <1>2, <2>2, <2>3
<1>6. \A q \in Procs : Cardinality(peeked'[q]) <= 1
  BY <1>1, <1>5, AtMostOne
<1> QED  BY <1>3, <1>5, <1>6

LEMMA ReceivePreserves ==
  ASSUME IInv, NEW p \in Procs, rcv_queue(p)
  PROVE  IInv'
<1> DEFINE id == Qid(p)
<1> DEFINE k == msgrcv(queue[id], arg[p].type)
<1> DEFINE x == queue[id][k].n
<1>1. /\ pc[p] = "recv" /\ pc' = [pc EXCEPT ![p] = "idle"]
      /\ id \in live /\ k # 0
      /\ queue' = [queue EXCEPT ![id] = RemoveAt(@, k)]
      /\ got' = Append(got, x)
      /\ strayed' = (IF queue[id][k].role = arg[p].role THEN strayed ELSE strayed \cup {x})
      /\ arg' = [arg EXCEPT ![p] = NoCall]
      /\ peeked' = Forget(p, id)
      /\ UNCHANGED <<made, key, live, arr, step, starts, sent, lost, torn>>
  BY DEF rcv_queue, Goto
<1>2. /\ key[id] = arg[p].role /\ id \in Ids /\ arg[p].type \in Int
  BY <1>1, CallQueue
<1>3. /\ sent \in Nat /\ QCap \in Nat /\ queue \in [Ids -> Seq(Message)] /\ live \subseteq Ids
  BY Facts
<1>4. queue[id] \in Seq(Message) /\ Len(queue[id]) \in Nat /\ Len(queue[id]) <= QCap
  <2> HIDE DEF id
  <2>1. Len(queue[id]) <= QCap
    BY <1>2 DEF IInv, TypeOK
  <2>2. queue[id] \in Seq(Message)
    BY <1>2, <1>3
  <2> QED  BY <2>1, <2>2
<1>5. k \in DOMAIN queue[id]
  BY <1>1, <1>2, <1>4, MsgrcvFinds
<1>6. /\ peeked' \in [Procs -> SUBSET Calls]
      /\ \A q \in Procs : Cardinality(peeked'[q]) <= 1
      /\ \A q \in Procs : peeked'[q] = peeked[q] \/ peeked'[q] = {}
      /\ \A q \in Procs : \A c \in peeked'[q] : c \in peeked[q] /\ arr[q][c.role] # id
  BY <1>1, Forgets
<1>7. /\ pc' \in [Procs -> {"off", "open", "idle", "send", "recv", "remove"}]
      /\ arg' \in [Procs -> Calls]
      /\ KeyInv' /\ CallInv' /\ TornInv'
  BY <1>1, <1>6, Returns
<1> HIDE DEF id, k
<1>8. strayed' = strayed
  <2>1. queue[id][k].role = key[id]
    BY <1>1, <1>5 DEF IInv, QueueInv
  <2> QED  BY <1>1, <1>2, <2>1
<1>left. PICK m : m = RemoveAt(queue[id], k)
  OBVIOUS
<1>9. /\ m \in Seq(Message) /\ Len(m) = Len(queue[id]) - 1 /\ Len(m) \in Nat
      /\ \A i \in DOMAIN m : \E j \in DOMAIN queue[id] : j # k /\ m[i] = queue[id][j]
      /\ \A j \in DOMAIN queue[id] : j # k => \E i \in DOMAIN m : m[i] = queue[id][j]
      /\ \A i, j \in DOMAIN m : i # j =>
           \E u, v \in DOMAIN queue[id] : u # v /\ m[i] = queue[id][u] /\ m[j] = queue[id][v]
  <2>1. m \in Seq(Message) /\ Without(m, queue[id], k)
    BY <1>4, <1>5, <1>left, RemovedOne
  <2> QED  BY <2>1 DEF Without
<1>10. /\ queue'[id] = m /\ queue' \in [Ids -> Seq(Message)]
       /\ \A jd \in Ids : jd # id => queue'[jd] = queue[jd]
  BY <1>1, <1>2, <1>3, <1>9, <1>left
<1>11. MessagesKept /\ QueueInv
  BY DEF IInv
<1>12. x \in Held /\ x \in 1..sent /\ x \notin Taken /\ x \notin lost
  <2>1. x \in Held
    BY <1>1, <1>5, HeldIs
  <2> QED  BY <1>11, <2>1, KeptIs
<1>13. /\ \A i \in DOMAIN queue[id] : i # k => queue[id][i].n # x
       /\ \A jd \in live : jd # id => \A i \in DOMAIN queue[jd] : queue[jd][i].n # x
  BY <1>1, <1>5, <1>11 DEF QueueInv
<1> HIDE DEF x
<1>14. got \in Seq(1..sent) /\ got' \in Seq(1..sent) /\ Len(got') = Len(got) + 1
       /\ Taken' = Taken \cup {x}
  <2>1. got \in Seq(1..sent)
    BY DEF IInv, TypeOK
  <2>2. /\ got' \in Seq(1..sent) /\ Len(got') = Len(got) + 1 /\ Len(got) \in Nat
        /\ DOMAIN got = 1..Len(got) /\ DOMAIN got' = 1..(Len(got) + 1)
        /\ \A i \in 1..Len(got) : got'[i] = got[i]
        /\ got'[Len(got) + 1] = x
    BY <1>1, <1>12, <2>1
  <2>3. \A i : i \in DOMAIN got' <=> i \in DOMAIN got \/ i = Len(got) + 1
    BY <2>2
  <2>4. Taken' = Taken \cup {x}
    BY <2>2, <2>3 DEF Taken
  <2> QED  BY <2>1, <2>2, <2>4
<1>each. ASSUME NEW jd \in live, NEW i \in DOMAIN queue'[jd]
         PROVE  \E j \in DOMAIN queue[jd] :
                  ~(jd = id /\ j = k) /\ queue'[jd][i] = queue[jd][j]
  <2>1. CASE jd = id
    BY <1>9, <1>10, <2>1
  <2>2. CASE jd # id
    <3>1. queue'[jd] = queue[jd]
      BY <1>3, <1>10, <2>2
    <3> QED  BY <2>2, <3>1
  <2> QED  BY <2>1, <2>2
<1>15. TypeOK'
  <2>1. \A jd \in Ids : queue'[jd] \in Seq(Message) /\ Len(queue'[jd]) <= QCap
    <3>1. Len(queue'[id]) <= QCap
      BY <1>3, <1>4, <1>9, <1>10
    <3>2. \A jd \in Ids : jd # id => Len(queue'[jd]) <= QCap
      BY <1>10 DEF IInv, TypeOK
    <3> QED  BY <1>10, <3>1, <3>2
  <2> QED  BY <1>1, <1>6, <1>7, <1>8, <1>14, <2>1 DEF IInv, TypeOK
<1>16. QueueInv'
  <2>1. \A jd \in Ids \ live' : queue'[jd] = << >>
    BY <1>1, <1>10, <1>11 DEF QueueInv
  <2>2. \A jd \in live' : \A i \in DOMAIN queue'[jd] : queue'[jd][i].role = key'[jd]
    BY <1>1, <1>3, <1>9, <1>10, <1>11 DEF QueueInv
  <2>3. ASSUME NEW y \in live, NEW z \in live, y # z,
               NEW i \in DOMAIN queue'[y], NEW j \in DOMAIN queue'[z]
        PROVE  queue'[y][i].n # queue'[z][j].n
    <3>1. PICK u \in DOMAIN queue[y] : queue'[y][i] = queue[y][u]
      BY <1>each
    <3>2. PICK v \in DOMAIN queue[z] : queue'[z][j] = queue[z][v]
      BY <1>each
    <3> QED  BY <1>11, <2>3, <3>1, <3>2 DEF QueueInv
  <2>4. ASSUME NEW y \in live, NEW i \in DOMAIN queue'[y], NEW j \in DOMAIN queue'[y], i # j
        PROVE  queue'[y][i].n # queue'[y][j].n
    <3>1. PICK u, v \in DOMAIN queue[y] :
            u # v /\ queue'[y][i] = queue[y][u] /\ queue'[y][j] = queue[y][v]
      <4>1. CASE y = id
        <5>1. i \in DOMAIN m /\ j \in DOMAIN m /\ queue'[y] = m
          BY <1>10, <4>1
        <5>2. PICK u, v \in DOMAIN queue[id] :
                u # v /\ m[i] = queue[id][u] /\ m[j] = queue[id][v]
          BY <1>9, <2>4, <5>1
        <5> QED  BY <4>1, <5>1, <5>2
      <4>2. CASE y # id
        <5>1. queue'[y] = queue[y]
          BY <1>3, <1>10, <4>2
        <5> QED  BY <2>4, <5>1
      <4> QED  BY <4>1, <4>2
    <3> QED  BY <1>11, <3>1 DEF QueueInv
  <2> QED  BY <1>1, <1>10, <2>1, <2>2, <2>3, <2>4 DEF QueueInv
<1>17. MessagesKept'
  <2>1. Held' = Held \ {x}
    <3>1. \A y : y \in Held' => y \in Held /\ y # x
      BY <1>1, <1>13, <1>each, HeldIs
    <3>2. \A y : y \in Held /\ y # x => y \in Held'
      <4> SUFFICES ASSUME NEW y \in Held, y # x PROVE y \in Held'
        OBVIOUS
      <4>1. PICK jd \in live : \E i \in DOMAIN queue[jd] : y = queue[jd][i].n
        BY HeldIs
      <4>2. PICK i \in DOMAIN queue[jd] : y = queue[jd][i].n
        BY <4>1
      <4>3. CASE jd = id
        <5>1. i # k
          BY <4>2, <4>3 DEF x
        <5> QED  BY <1>1, <1>9, <1>10, <4>2, <4>3, <5>1, HeldIs
      <4>4. CASE jd # id
        BY <1>1, <1>3, <1>10, <4>2, <4>4, HeldIs
      <4> QED  BY <4>3, <4>4
    <3> QED  BY <3>1, <3>2
  <2>2. Cardinality(Taken') = Len(got')
    <3>1. Taken \subseteq 1..sent
      BY <1>11, KeptIs
    <3>2. IsFiniteSet(1..sent)
      BY <1>3, FS_Interval
    <3>3. IsFiniteSet(Taken)
      BY <3>1, <3>2, FS_Subset
    <3>4. Cardinality(Taken \cup {x}) = Cardinality(Taken) + 1
      BY <1>12, <3>3, FS_AddElement
    <3> QED  BY <1>11, <1>14, <3>4, KeptIs
  <2>3. sent' = sent /\ lost' = lost
    BY <1>1
  <2> QED  BY <1>8, <1>11, <1>12, <1>14, <2>1, <2>2, <2>3, KeptIs, KeptNext
<1>18. PeekHolds'
  BY <1>1, <1>3, <1>6, <1>10 DEF IInv, PeekHolds
<1> QED  BY <1>7, <1>15, <1>16, <1>17, <1>18 DEF IInv

----------------------------------------------------------------------------
(* destroy_queue()                                                         *)

\* Unless a set was torn, the process that removes the next queue is the only
\* one that has begun, and has come as far as its step says.
LEMMA RemoverAlone ==
  ASSUME IInv, NEW p \in Procs, pc[p] = "remove", arr[p][step[p]] \in live, ~torn
  PROVE  Halfway \subseteq {p} /\ Cut(step[p]) /\ LiveOf(p) = step[p]..3 /\ ~Busy("open")
<1>1. TornInv /\ step[p] \in Roles
  BY DEF IInv, TypeOK
<1>2. ~Busy("open")
  BY <1>1 DEF TornInv, Busy
<1>3. step[p] \in LiveOf(p)
  BY <1>1 DEF LiveOf
<1>4. \A s \in Roles : Cut(s) => LiveOf(p) = s..3
  BY <1>3 DEF Cut
<1>5. CASE Halfway = {} /\ Cut(1)
  <2>1. step[p] = 1
    BY <1>5 DEF Halfway
  <2> QED  BY <1>2, <1>4, <1>5, <2>1 DEF Roles
<1>6. ASSUME NEW r \in Halfway, Halfway = {r}, Cut(step[r])
      PROVE  Halfway \subseteq {p} /\ Cut(step[p]) /\ LiveOf(p) = step[p]..3
  <2>1. step[r] \in Roles /\ step[r] # 1
    BY DEF IInv, TypeOK, Halfway
  <2>2. step[p] \in step[r]..3
    BY <1>3, <1>4, <1>6, <2>1
  <2>3. step[p] # 1
    BY <1>1, <2>1, <2>2 DEF Roles
  <2>4. p \in Halfway
    BY <2>3 DEF Halfway
  <2>5. p = r
    BY <1>6, <2>4
  <2> QED  BY <1>4, <1>6, <2>1, <2>5
<1> QED  BY <1>1, <1>2, <1>5, <1>6 DEF TornInv

LEMMA RemovePreserves ==
  ASSUME IInv, NEW p \in Procs, remove_message(p)
  PROVE  IInv'
<1> DEFINE id == arr[p][step[p]]
<1> DEFINE here == {queue[id][i].n : i \in DOMAIN queue[id]}
<1>1. /\ pc[p] = "remove" /\ id \in live /\ live' = live \ {id}
      /\ key' = [key EXCEPT ![id] = 1]
      /\ lost' = lost \cup here
      /\ queue' = [queue EXCEPT ![id] = << >>]
      /\ step' = [step EXCEPT ![p] = IF @ = 3 THEN 1 ELSE @ + 1]
      /\ pc' = [pc EXCEPT ![p] = IF step[p] = 3 THEN "idle" ELSE "remove"]
      /\ peeked' = Forget(p, id)
      /\ UNCHANGED <<made, arr, arg, starts, sent, got, strayed, torn>>
  BY DEF remove_message, LastRemoved
<1>2. /\ live \subseteq Ids /\ live \subseteq 1..made /\ QCap \in Nat
      /\ queue \in [Ids -> Seq(Message)]
  BY Facts
<1>3. /\ key \in [Ids -> Roles] /\ step \in [Procs -> Roles] /\ step[p] \in Roles
      /\ pc \in [Procs -> {"off", "open", "idle", "send", "recv", "remove"}]
  BY DEF IInv, TypeOK
<1>4. /\ peeked' \in [Procs -> SUBSET Calls]
      /\ \A q \in Procs : Cardinality(peeked'[q]) <= 1
      /\ \A q \in Procs : peeked'[q] = peeked[q] \/ peeked'[q] = {}
      /\ \A q \in Procs : \A c \in peeked'[q] : c \in peeked[q] /\ arr[q][c.role] # id
  BY <1>1, Forgets
<1>5. key[id] = step[p] /\ id \in Ids
  BY <1>1, <1>2, <1>3 DEF IInv, KeyInv
<1>6. ~torn => Halfway \subseteq {p} /\ Cut(step[p]) /\ LiveOf(p) = step[p]..3 /\ ~Busy("open")
  BY <1>1, RemoverAlone
<1> HIDE DEF id
<1>7. /\ queue'[id] = << >> /\ queue' \in [Ids -> Seq(Message)]
      /\ \A jd \in Ids : jd # id => queue'[jd] = queue[jd] /\ key'[jd] = key[jd]
  BY <1>1, <1>2, <1>3, <1>5
<1>8. /\ \A q \in Procs : q # p => pc'[q] = pc[q] /\ step'[q] = step[q]
      /\ step'[p] = IF step[p] = 3 THEN 1 ELSE step[p] + 1
      /\ pc'[p] = IF step[p] = 3 THEN "idle" ELSE "remove"
  BY <1>1, <1>3
<1>9. MessagesKept /\ QueueInv /\ KeyInv /\ CallInv
  BY DEF IInv
<1>10. \A x : x \in here <=> \E i \in DOMAIN queue[id] : x = queue[id][i].n
  OBVIOUS
<1> HIDE DEF here
<1>11. here \subseteq Held
  BY <1>1, <1>10, HeldIs
<1>12. TypeOK'
  <2>1. key' \in [Ids -> Roles]
    BY <1>1, <1>3, <1>5 DEF Roles
  <2>2. step' \in [Procs -> Roles]
    <3>1. (IF step[p] = 3 THEN 1 ELSE step[p] + 1) \in Roles
      BY <1>3 DEF Roles
    <3> QED  BY <1>1, <1>3, <3>1
  <2>3. pc' \in [Procs -> {"off", "open", "idle", "send", "recv", "remove"}]
    BY <1>1, <1>3
  <2>4. \A jd \in Ids : queue'[jd] \in Seq(Message) /\ Len(queue'[jd]) <= QCap
    <3>1. Len(<< >>) <= QCap
      BY <1>2
    <3>2. \A jd \in Ids : jd # id => Len(queue'[jd]) <= QCap
      BY <1>7 DEF IInv, TypeOK
    <3> QED  BY <1>7, <3>1, <3>2
  <2>5. lost' \subseteq 1..sent
    BY <1>1, <1>9, <1>11, KeptIs
  <2> QED  BY <1>1, <1>4, <2>1, <2>2, <2>3, <2>4, <2>5 DEF IInv, TypeOK
<1>13. KeyInv'
  BY <1>1, <1>2, <1>7, <1>9 DEF KeyInv
<1>14. QueueInv'
  <2>1. \A jd \in live' : jd \in live /\ jd # id /\ queue'[jd] = queue[jd] /\ key'[jd] = key[jd]
    BY <1>1, <1>2, <1>7
  <2>2. \A jd \in Ids \ live' : queue'[jd] = << >>
    BY <1>1, <1>7, <1>9 DEF QueueInv
  <2> QED  BY <1>7, <1>9, <2>1, <2>2 DEF QueueInv
<1>15. CallInv'
  <2>1. \A q \in Procs : q # p => CallOf(q)'
    BY <1>1, <1>4, <1>8, <1>9 DEF CallInv, CallOf
  <2>2. CallOf(p)'
    BY <1>1, <1>4, <1>8, <1>9 DEF CallInv, CallOf
  <2> QED  BY <2>1, <2>2 DEF CallInv
<1>16. MessagesKept'
  <2>1. Held' = Held \ here
    <3>1. \A x : x \in Held' => x \in Held /\ x \notin here
      <4> SUFFICES ASSUME NEW x \in Held' PROVE x \in Held /\ x \notin here
        OBVIOUS
      <4>1. PICK jd \in live' : \E i \in DOMAIN queue'[jd] : x = queue'[jd][i].n
        BY HeldIs
      <4>2. jd \in live /\ jd # id /\ queue'[jd] = queue[jd]
        BY <1>1, <1>2, <1>7
      <4>3. PICK i \in DOMAIN queue[jd] : x = queue[jd][i].n
        BY <4>1, <4>2
      <4>4. x \notin here
        <5>1. \A j \in DOMAIN queue[id] : queue[jd][i].n # queue[id][j].n
          BY <1>1, <1>9, <4>2 DEF QueueInv
        <5> QED  BY <1>10, <4>3, <5>1
      <4> QED  BY <4>2, <4>3, <4>4, HeldIs
    <3>2. \A x : x \in Held /\ x \notin here => x \in Held'
      <4> SUFFICES ASSUME NEW x \in Held, x \notin here PROVE x \in Held'
        OBVIOUS
      <4>1. PICK jd \in live : \E i \in DOMAIN queue[jd] : x = queue[jd][i].n
        BY HeldIs
      <4>2. jd # id
        BY <1>10, <4>1
      <4>3. jd \in live' /\ queue'[jd] = queue[jd]
        BY <1>1, <1>2, <1>7, <4>2
      <4> QED  BY <4>1, <4>3, HeldIs
    <3> QED  BY <3>1, <3>2
  <2>2. Taken' = Taken /\ sent' = sent /\ got' = got /\ strayed' = strayed
    BY <1>1 DEF Taken
  <2> QED  BY <1>1, <1>9, <1>11, <2>1, <2>2, KeptIs, KeptNext
<1>17. PeekHolds'
  BY <1>1, <1>2, <1>4, <1>7 DEF IInv, PeekHolds
<1>18. ASSUME ~torn' PROVE TornInv'
  <2>1. Halfway \subseteq {p} /\ Cut(step[p]) /\ LiveOf(p) = step[p]..3 /\ ~Busy("open")
    BY <1>1, <1>6, <1>18
  <2>2. \A q \in Procs : LiveOf(q)' = LiveOf(q) \ {step[p]}
    <3>1. \A q \in Procs, i \in Roles : arr[q][i] \in live => (arr[q][i] = id <=> i = step[p])
      BY <1>1, <1>5, <1>9 DEF KeyInv
    <3> QED  BY <1>1, <3>1 DEF LiveOf
  <2>3. ~Busy("open")'
    BY <1>1, <1>8, <2>1 DEF Busy
  <2>4. (step[p]..3) \ {step[p]} = (step[p] + 1)..3
    BY <1>3 DEF Roles
  <2>5. \A q \in Procs : pc'[q] \in {"idle", "send", "recv", "remove"} =>
          LiveOf(q)' = {} \/ LiveOf(q)' = (step[p] + 1)..3
    <3>1. \A q \in Procs : pc'[q] \in {"idle", "send", "recv", "remove"} =>
            pc[q] \in {"idle", "send", "recv", "remove"}
      BY <1>1, <1>8
    <3>2. \A q \in Procs : pc'[q] \in {"idle", "send", "recv", "remove"} =>
            LiveOf(q) = {} \/ LiveOf(q) = step[p]..3
      BY <2>1, <3>1 DEF Cut
    <3> QED  BY <2>2, <2>4, <3>2
  <2>6. CASE step[p] = 3
    <3>1. pc'[p] = "idle" /\ step'[p] = 1
      BY <1>8, <2>6
    <3>2. Halfway' = {}
      BY <1>8, <2>1, <3>1 DEF Halfway
    <3>3. (step[p] + 1)..3 = {}
      BY <2>6
    <3>4. Cut(1)'
      BY <2>5, <3>3 DEF Cut
    <3> QED  BY <2>3, <3>2, <3>4 DEF TornInv, Busy
  <2>7. CASE step[p] # 3
    <3>1. pc'[p] = "remove" /\ step'[p] = step[p] + 1 /\ step'[p] # 1
      BY <1>3, <1>8, <2>7 DEF Roles
    <3>2. Halfway' = {p}
      BY <1>8, <2>1, <3>1 DEF Halfway
    <3>3. LiveOf(p)' = step'[p]..3
      BY <2>1, <2>2, <2>4, <3>1
    <3>4. Cut(step[p])'
      BY <2>5, <3>1 DEF Cut
    <3> QED  BY <2>3, <3>2, <3>3, <3>4 DEF TornInv, Busy
  <2> QED  BY <2>6, <2>7
<1>19. TornInv'
  BY <1>18 DEF TornInv
<1> QED  BY <1>12, <1>13, <1>14, <1>15, <1>16, <1>17, <1>19 DEF IInv

----------------------------------------------------------------------------
(* The theorems.                                                           *)

\* The invariant holds in every state: no interleaving of processes that open,
\* use and remove the queues, or die at any of it, breaks a part of it.
THEOREM MsgInvariance == Spec => []IInv
<1>1. IInv /\ [Next]_vars => IInv'
  <2> SUFFICES ASSUME IInv, [Next]_vars PROVE IInv'
    OBVIOUS
  <2>1. CASE UNCHANGED vars
    <3>1. UNCHANGED <<made, key, live, queue, arr, pc, step, arg, starts, sent, got,
                      strayed, lost, peeked, torn>>
      BY <2>1 DEF vars
    <3>2. QueueInv' /\ MessagesKept'
      BY <3>1, QueuesSame DEF kernel, log
    <3>3. TypeOK'
      BY <3>1 DEF IInv, TypeOK
    <3>4. KeyInv' /\ PeekHolds'
      BY <3>1 DEF IInv, KeyInv, PeekHolds
    <3>5. CallInv'
      BY <3>1 DEF IInv, CallInv, CallOf
    <3>6. TornInv'
      <4>1. Moves
        BY <3>1 DEF Moves
      <4>2. ~torn' => ~torn /\ ~(Busy("open")' /\ Busy("remove")')
        BY <3>1 DEF IInv, TornInv, Busy
      <4> QED  BY <3>1, <4>1, <4>2, TornMoves
    <3> QED  BY <3>2, <3>3, <3>4, <3>5, <3>6 DEF IInv
  <2>2. CASE Next
    BY <2>2, Begins, Ends, OpenPreserves, SendPreserves, ReceivePreserves, RemovePreserves
       DEF Next
  <2> QED  BY <2>1, <2>2
<1> QED  BY Initially, <1>1, PTL DEF Spec

\* Identifiers, keys, messages and calls stay in their types, and no queue
\* holds more than fits.
THEOREM MsgTypes == Spec => []TypeOK
<1>1. IInv => TypeOK  BY DEF IInv
<1> QED  BY <1>1, MsgInvariance, PTL

\* No message sent is lost, doubled or received through another role, whoever
\* dies and whatever is removed: send_queue(), rcv_queue(), remove_message().
THEOREM NoMessageLost == Spec => []MessagesKept
<1>1. IInv => MessagesKept  BY DEF IInv
<1> QED  BY <1>1, MsgInvariance, PTL

\* What peek_message() reported is still there for rcv_queue(), until another
\* process receives from the queue or removes it.
THEOREM PeekReliable == Spec => []PeekHolds
<1>1. IInv => PeekHolds  BY DEF IInv
<1> QED  BY <1>1, MsgInvariance, PTL

\* create_queue() gives every process the same queue for a role, as long as
\* the queue is there.
THEOREM SameQueues == Spec => []QueuesShared
<1>1. IInv => QueuesShared
  BY DEF IInv, KeyInv, QueuesShared
<1> QED  BY <1>1, MsgInvariance, PTL

\* destroy_queue() leaves all three queues of a process or none, unless it was
\* interrupted or ran beside create_queue().
THEOREM WholeSets == Spec => []AllOrNone
<1>1. IInv => AllOrNone
  <2> SUFFICES ASSUME IInv, ~torn, ~Busy("remove"), NEW p \in Procs,
                      pc[p] \in {"idle", "send", "recv"}
               PROVE  {i \in Roles : arr[p][i] \in live} \in {{}, Roles}
    BY DEF AllOrNone
  <2>1. Halfway = {}
    BY DEF Halfway, Busy
  <2>2. Cut(1)
    BY <2>1 DEF IInv, TornInv
  <2>3. LiveOf(p) = {} \/ LiveOf(p) = Roles
    BY <2>2 DEF Cut, Roles
  <2> QED  BY <2>3 DEF LiveOf
<1> QED  BY <1>1, MsgInvariance, PTL
=============================================================================
