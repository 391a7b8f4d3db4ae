--------------------------- MODULE ProcPoolProofs ---------------------------
(***************************************************************************)
(* The process table, for any number of children, of replacements and of   *)
(* calls.                                                                  *)
(*                                                                         *)
(* Filling describes the table while init_manager_proc() fills it: the     *)
(* children so far, in order, and unused nodes behind them.  Running is    *)
(* the table of a running manager: as many nodes as at the start, each of  *)
(* a child that has not been handled, each child once.  It needs Counter   *)
(* (n_proc never exceeds the limit, so that insert_pool() always inserts)  *)
(* and Fresh (a child that was handled does not come back).                *)
(***************************************************************************)
EXTENDS ProcPool, FiniteSetTheorems, SequenceTheorems, TLAPS

Nodes == Node(Children \cup {0, 1})

Fresh == /\ live \cap dead = {}
         /\ \A p \in live \cup dead : p < nextpid

Filling ==
  stage = "init" =>
    /\ ~crossed /\ ~replaced
    /\ Len(pool) = NPROC_MAX_NUM /\ nextpid < FirstPid + NPROC_MAX_NUM
    /\ n_proc = nextpid - FirstPid
    /\ live \cup dead = FirstPid..(nextpid - 1)
    /\ \A i \in 1..NPROC_MAX_NUM :
         pool[i].pid = IF i <= nextpid - FirstPid THEN FirstPid + i - 1 ELSE NoPid

Distinct == \A i, j \in DOMAIN pool : pool[i].pid = pool[j].pid => i = j

Running ==
  stage = "run" /\ ~crossed =>
    /\ Len(pool) = NPROC_MAX_NUM /\ Distinct
    /\ \A i \in DOMAIN pool : pool[i].pid \in live \cup dead
    /\ \A p \in live \cup dead : HasPid(pool, p)

Counter == stage = "run" => n_proc <= NPROC_MAX_NUM

Ended == stage = "told" /\ ~crossed =>
           Len(pool) = NPROC_MAX_NUM /\ Distinct /\ live = {}

IInv == TypeOK /\ Fresh /\ Filling /\ Running /\ Counter /\ Ended /\ Balanced

----------------------------------------------------------------------------
(* The operations of the list.                                             *)

\* A list that is built node by node.
LEMMA ListOf ==
  ASSUME NEW S, NEW n \in Nat, NEW f \in [1..n -> S]
  PROVE  f \in Seq(S) /\ Len(f) = n /\ DOMAIN f = 1..n
OBVIOUS

LEMMA ListFacts ==
  ASSUME NEW S, NEW l \in Seq(S)
  PROVE  /\ Len(l) \in Nat /\ DOMAIN l = 1..Len(l)
         /\ \A i \in DOMAIN l : l[i] \in S /\ i \in Nat
OBVIOUS

\* A pid that is in the list has a first node.
LEMMA FirstExists ==
  ASSUME NEW S, NEW l \in Seq(S), NEW p, HasPid(l, p)
  PROVE  \E i \in DOMAIN l : IsFirst(l, p, i)
<1> DEFINE T == {i \in DOMAIN l : l[i].pid = p}
<1>1. T # {} /\ T \in SUBSET Nat /\ DOMAIN l = 1..Len(l) /\ Len(l) \in Nat
  BY ListFacts DEF HasPid
<1> HIDE DEF T
<1>2. PICK x \in T : \A y \in T : ~(<<y, x>> \in OpToRel(<, Nat))
  BY <1>1, WFMin, NatLessThanWellFounded
<1>3. \A y \in T : y \in Nat /\ x \in Nat
  BY <1>1
<1>4. \A y \in T : ~(y < x)
  BY <1>2, <1>3 DEF OpToRel
<1>5. x \in DOMAIN l /\ l[x].pid = p
  BY DEF T
<1>6. ASSUME NEW j \in 1..(x - 1) PROVE l[j].pid # p
  <2>1. j \in DOMAIN l /\ j < x /\ j \in Nat
    BY <1>1, <1>5
  <2> QED  BY <1>4, <2>1 DEF T
<1> QED  BY <1>5, <1>6 DEF IsFirst

\* Removing a node shifts those behind it.
LEMMA RemoveAtFacts ==
  ASSUME NEW S, NEW l \in Seq(S), NEW k \in DOMAIN l
  PROVE  /\ RemoveAt(l, k) \in Seq(S) /\ Len(RemoveAt(l, k)) = Len(l) - 1
         /\ \A i \in 1..(Len(l) - 1) :
              RemoveAt(l, k)[i] = l[IF i < k THEN i ELSE i + 1]
<1> DEFINE a == SubSeq(l, 1, k - 1)
<1> DEFINE b == SubSeq(l, k + 1, Len(l))
<1>1. Len(l) \in Nat /\ k \in 1..Len(l)
  OBVIOUS
<1>2. a \in Seq(S) /\ Len(a) = k - 1 /\ \A i \in 1..(k - 1) : a[i] = l[i]
  BY <1>1
<1>3. b \in Seq(S) /\ Len(b) = Len(l) - k /\ \A i \in 1..(Len(l) - k) : b[i] = l[i + k]
  BY <1>1
<1>4. RemoveAt(l, k) = a \o b
  BY DEF RemoveAt
<1> HIDE DEF a, b
<1>5. /\ a \o b \in Seq(S) /\ Len(a \o b) = Len(l) - 1
      /\ \A i \in 1..(Len(l) - 1) : (a \o b)[i] = IF i < k THEN a[i] ELSE b[i - (k - 1)]
  <2>1. a \o b \in Seq(S) /\ Len(a \o b) = Len(a) + Len(b)
    BY <1>2, <1>3, ConcatProperties
  <2>2. \A i \in 1..(Len(a) + Len(b)) :
          (a \o b)[i] = IF i <= Len(a) THEN a[i] ELSE b[i - Len(a)]
    BY <1>2, <1>3, ConcatProperties
  <2>3. Len(a) + Len(b) = Len(l) - 1 /\ \A i \in 1..(Len(l) - 1) : i <= k - 1 <=> i < k
    BY <1>1, <1>2, <1>3
  <2> QED  BY <1>2, <2>1, <2>2, <2>3
<1>6. ASSUME NEW i \in 1..(Len(l) - 1)
      PROVE  (IF i < k THEN a[i] ELSE b[i - (k - 1)]) = l[IF i < k THEN i ELSE i + 1]
  <2>1. CASE i < k
    BY <1>1, <1>2, <2>1
  <2>2. CASE ~(i < k)
    <3>1. i - (k - 1) \in 1..(Len(l) - k) /\ (i - (k - 1)) + k = i + 1
      BY <1>1, <2>2
    <3> QED  BY <1>3, <2>2, <3>1
  <2> QED  BY <2>1, <2>2
<1> QED  BY <1>4, <1>5, <1>6

\* Balanced, in any list whose nodes keep what they have left.
LEMMA KeepsLeft ==
  ASSUME TypeOK, Balanced, pool' \in Seq(Nodes), Len(pool') = Len(pool),
         replaced' = replaced, \A i \in DOMAIN pool : pool'[i].nleft = pool[i].nleft
  PROVE  Balanced'
<1>1. DOMAIN pool' = DOMAIN pool
  BY ListFacts DEF TypeOK, Nodes
<1> QED  BY <1>1 DEF Balanced

----------------------------------------------------------------------------
(* The steps.                                                              *)

\* What the invariant says of the parts.
LEMMA Types ==
  ASSUME IInv
  PROVE  /\ pool \in Seq(Nodes) /\ Len(pool) \in Nat /\ DOMAIN pool = 1..Len(pool)
         /\ \A i \in DOMAIN pool : pool[i] \in Nodes
         /\ \A i \in DOMAIN pool : pool[i].nleft \in Int
         /\ nextpid \in Nat /\ FirstPid <= nextpid /\ nextpid <= MaxPid + 1
         /\ FirstPid \in Nat /\ FirstPid > 1 /\ MaxPid \in Nat /\ NoPid = -1
         /\ NPROC_MAX_NUM \in Nat /\ NPROC_MAX_NUM > 0
         /\ TypeOK /\ Fresh /\ Filling /\ Running /\ Counter /\ Ended /\ Balanced
         /\ \A p \in live \cup dead : p \in Children /\ p \in Nat /\ p >= FirstPid
<1>1. /\ nextpid \in Nat /\ FirstPid <= nextpid /\ nextpid <= MaxPid + 1
      /\ FirstPid \in Nat /\ FirstPid > 1 /\ MaxPid \in Nat /\ NoPid = -1
      /\ NPROC_MAX_NUM \in Nat /\ NPROC_MAX_NUM > 0
  BY ProcPoolAssumption, PoolAssumption DEF IInv, TypeOK
<1>2. /\ pool \in Seq(Nodes)
      /\ TypeOK /\ Fresh /\ Filling /\ Running /\ Counter /\ Ended /\ Balanced
  BY DEF IInv, TypeOK, Nodes
<1>3. /\ Len(pool) \in Nat /\ DOMAIN pool = 1..Len(pool)
      /\ \A i \in DOMAIN pool : pool[i] \in Nodes
  BY <1>2, ListFacts
<1>4. \A i \in DOMAIN pool : pool[i].nleft \in Int
  BY <1>3 DEF Nodes, Node
<1>5. live \cup dead \in SUBSET Children
  BY <1>2 DEF TypeOK
<1>6. \A p \in live \cup dead : p \in Children /\ p \in Nat /\ p >= FirstPid
  BY <1>1, <1>5 DEF Children
<1> QED  BY <1>1, <1>2, <1>3, <1>4, <1>6

\* A list of the same nodes, each of which may change.
LEMMA SameNodes ==
  ASSUME IInv, NEW f \in [DOMAIN pool -> Nodes], pool' = f
  PROVE  pool' \in Seq(Nodes) /\ Len(pool') = Len(pool) /\ DOMAIN pool' = DOMAIN pool
BY Types, ListOf

LEMMA Initially == Init => IInv
<1> SUFFICES ASSUME Init PROVE IInv
  OBVIOUS
<1>1. /\ pool = create_proc_pool /\ n_proc = 0 /\ nextpid = FirstPid
      /\ live = {} /\ dead = {} /\ stage = "init"
      /\ replaced = FALSE /\ crossed = FALSE /\ notices = 0
  BY DEF Init
<1>2. /\ FirstPid \in Nat /\ MaxPid \in Nat /\ FirstPid <= MaxPid /\ MaxNotices \in Nat
      /\ NPROC_MAX_NUM \in Nat /\ NPROC_MAX_NUM > 0 /\ MAX_FD_NUM \in Nat
  BY ProcPoolAssumption, PoolAssumption
<1>3. proc_alloc \in Nodes
  BY <1>2 DEF proc_alloc, Nodes, Node
<1>4. create_proc_pool \in [1..NPROC_MAX_NUM -> Nodes]
  BY <1>3 DEF create_proc_pool
<1>5. pool \in Seq(Nodes) /\ Len(pool) = NPROC_MAX_NUM /\ DOMAIN pool = 1..NPROC_MAX_NUM
  BY <1>1, <1>2, <1>4, ListOf
<1>6. \A i \in 1..NPROC_MAX_NUM : pool[i].pid = NoPid /\ pool[i].nleft = MAX_FD_NUM
  BY <1>1 DEF create_proc_pool, proc_alloc
<1>7. TypeOK
  <2>1. nextpid \in FirstPid..(MaxPid + 1) /\ notices \in 0..MaxNotices /\ n_proc \in Int
    BY <1>1, <1>2
  <2> QED  BY <1>1, <1>5, <2>1 DEF TypeOK, Nodes
<1>8. Fresh
  BY <1>1 DEF Fresh
<1>9. Filling
  <2>1. FirstPid..(nextpid - 1) = {} /\ nextpid < FirstPid + NPROC_MAX_NUM
        /\ n_proc = nextpid - FirstPid
    BY <1>1, <1>2
  <2>2. \A i \in 1..NPROC_MAX_NUM : ~(i <= nextpid - FirstPid)
    BY <1>1, <1>2
  <2> QED  BY <1>1, <1>5, <1>6, <2>1, <2>2 DEF Filling
<1>10. Running /\ Counter /\ Ended
  BY <1>1 DEF Running, Counter, Ended
<1>11. Balanced
  BY <1>2, <1>5, <1>6 DEF Balanced
<1> QED  BY <1>7, <1>8, <1>9, <1>10, <1>11 DEF IInv

\* A child is forked: nobody had its pid.
LEMMA ForkFacts ==
  ASSUME IInv, ForkOne
  PROVE  /\ nextpid' = nextpid + 1 /\ live' = live \cup {nextpid}
         /\ nextpid' \in FirstPid..(MaxPid + 1) /\ nextpid \in Children
         /\ live' \in SUBSET Children /\ nextpid \notin live \cup dead
         /\ \A p \in live' \cup dead : p < nextpid'
<1>1. nextpid <= MaxPid /\ nextpid' = nextpid + 1 /\ live' = live \cup {nextpid}
  BY DEF ForkOne
<1>2. nextpid' \in FirstPid..(MaxPid + 1) /\ nextpid \in Children
  BY <1>1, Types DEF Children
<1>3. live \in SUBSET Children /\ dead \in SUBSET Children
  BY Types DEF TypeOK
<1>4. \A p \in live \cup dead : p < nextpid /\ p \in Nat
  BY Types DEF Fresh
<1>5. ASSUME NEW p \in live' \cup dead PROVE p < nextpid'
  <2>1. p = nextpid \/ p \in live \cup dead
    BY <1>1
  <2>2. CASE p = nextpid
    BY <1>1, <2>2, Types
  <2>3. CASE p \in live \cup dead
    <3>1. p < nextpid /\ p \in Nat /\ nextpid \in Nat
      BY <1>4, <2>3, Types
    <3> QED  BY <1>1, <3>1
  <2> QED  BY <2>1, <2>2, <2>3
<1>6. nextpid \notin live \cup dead
  <2>1. ~(nextpid < nextpid)
    BY Types
  <2> QED  BY <1>4, <2>1
<1> QED  BY <1>1, <1>2, <1>3, <1>5, <1>6

\* One round of init_manager_proc() fills the first unused node.
LEMMA InitForkKeeps ==
  ASSUME IInv, InitFork
  PROVE  IInv'
<1> DEFINE k == (nextpid - FirstPid) + 1
<1>1. /\ stage = "init" /\ ForkOne /\ pool' = insert_pool_obj(pool, nextpid)
      /\ n_proc' = insert_pool_obj_n(pool, n_proc)
      /\ stage' = IF nextpid' = FirstPid + NPROC_MAX_NUM THEN "run" ELSE "init"
      /\ UNCHANGED <<dead, replaced, crossed, notices>>
  BY DEF InitFork
<1>2. /\ nextpid' = nextpid + 1 /\ live' = live \cup {nextpid}
      /\ nextpid' \in FirstPid..(MaxPid + 1) /\ nextpid \in Children
      /\ live' \in SUBSET Children /\ nextpid \notin live \cup dead
      /\ \A p \in live' \cup dead : p < nextpid'
  BY <1>1, ForkFacts
<1>3. /\ ~crossed /\ ~replaced
      /\ Len(pool) = NPROC_MAX_NUM /\ nextpid < FirstPid + NPROC_MAX_NUM
      /\ n_proc = nextpid - FirstPid /\ live \cup dead = FirstPid..(nextpid - 1)
      /\ DOMAIN pool = 1..NPROC_MAX_NUM
  BY <1>1, Types DEF Filling
<1>4. \A i \in 1..NPROC_MAX_NUM :
        pool[i].pid = IF i <= nextpid - FirstPid THEN FirstPid + i - 1 ELSE NoPid
  BY <1>1, Types DEF Filling
<1>5. k \in 1..NPROC_MAX_NUM
  BY <1>3, Types
<1>6. \A i \in 1..NPROC_MAX_NUM : i < k => pool[i].pid # NoPid
  <2>1. \A i \in 1..NPROC_MAX_NUM : i < k => i <= nextpid - FirstPid /\ FirstPid + i - 1 # -1
    BY Types
  <2> QED  BY <1>4, <2>1, Types
<1>7. \A i \in 1..NPROC_MAX_NUM : i >= k => pool[i].pid = NoPid
  <2>1. \A i \in 1..NPROC_MAX_NUM : i >= k => ~(i <= nextpid - FirstPid)
    BY Types
  <2> QED  BY <1>4, <2>1
<1>8. HasPid(pool, NoPid) /\ n_proc' = n_proc + 1
  <2>1. pool[k].pid = NoPid /\ k \in DOMAIN pool
    BY <1>3, <1>5, <1>7
  <2> QED  BY <1>1, <2>1 DEF HasPid, insert_pool_obj_n
<1>9. \A i \in DOMAIN pool : IsFirst(pool, NoPid, i) <=> i = k
  <2>1. IsFirst(pool, NoPid, k)
    <3>1. \A j \in 1..(k - 1) : j \in 1..NPROC_MAX_NUM /\ j < k
      BY <1>5, Types
    <3> QED  BY <1>3, <1>5, <1>6, <1>7, <3>1 DEF IsFirst
  <2>2. ASSUME NEW i \in DOMAIN pool, i # k PROVE ~IsFirst(pool, NoPid, i)
    <3>1. CASE i < k
      BY <1>3, <1>6, <3>1 DEF IsFirst
    <3>2. CASE ~(i < k)
      <4>1. k \in 1..(i - 1)
        BY <1>3, <1>5, <2>2, <3>2
      <4> QED  BY <1>5, <1>7, <4>1 DEF IsFirst
    <3> QED  BY <3>1, <3>2
  <2> QED  BY <2>1, <2>2
<1> HIDE DEF k
<1>10. pool' = [i \in DOMAIN pool |-> IF i = k THEN [pool[i] EXCEPT !.pid = nextpid]
                                               ELSE pool[i]]
  BY <1>1, <1>9 DEF insert_pool_obj
<1>11. \A i \in DOMAIN pool : [pool[i] EXCEPT !.pid = nextpid] \in Nodes
  BY <1>2, Types DEF Nodes, Node
<1>12. pool' \in Seq(Nodes) /\ Len(pool') = NPROC_MAX_NUM /\ DOMAIN pool' = DOMAIN pool
  <2>1. pool' \in [DOMAIN pool -> Nodes]
    BY <1>10, <1>11, Types
  <2> QED  BY <1>3, <2>1, SameNodes
<1>13. \A i \in DOMAIN pool : /\ pool'[i].nleft = pool[i].nleft
                              /\ pool'[i].pid = IF i = k THEN nextpid ELSE pool[i].pid
  BY <1>10, Types DEF Nodes, Node
<1>14. \A i \in 1..NPROC_MAX_NUM :
         pool'[i].pid = IF i <= nextpid' - FirstPid THEN FirstPid + i - 1 ELSE NoPid
  <2> TAKE i \in 1..NPROC_MAX_NUM
  <2>1. /\ i <= nextpid' - FirstPid <=> i <= nextpid - FirstPid \/ i = k
        /\ i = k => FirstPid + i - 1 = nextpid
        /\ i = k => ~(i <= nextpid - FirstPid)
    <3>1. nextpid' = nextpid + 1 /\ k = (nextpid - FirstPid) + 1
      BY <1>2 DEF k
    <3>2. nextpid \in Nat /\ FirstPid \in Nat
      BY Types
    <3> QED  BY <3>1, <3>2
  <2> QED  BY <1>3, <1>4, <1>13, <2>1
<1>15. live' \cup dead' = FirstPid..(nextpid' - 1)
  <2>1. FirstPid..(nextpid' - 1) = FirstPid..(nextpid - 1) \cup {nextpid}
    BY <1>2, Types
  <2> QED  BY <1>1, <1>2, <1>3, <2>1
<1>16. TypeOK'
  <2>1. n_proc' \in Int
    BY <1>3, <1>8, Types
  <2>2. stage' \in {"init", "run", "told", "exited"}
    BY <1>1
  <2> QED  BY <1>1, <1>2, <1>12, <2>1, <2>2, Types DEF TypeOK, Nodes
<1>17. Fresh'
  BY <1>1, <1>2, Types DEF Fresh
<1>18. Filling'
  <2>1. CASE nextpid' = FirstPid + NPROC_MAX_NUM
    BY <1>1, <2>1 DEF Filling
  <2>2. CASE nextpid' # FirstPid + NPROC_MAX_NUM
    <3>1. nextpid' < FirstPid + NPROC_MAX_NUM /\ n_proc' = nextpid' - FirstPid
      <4>1. /\ nextpid' = nextpid + 1 /\ n_proc' = n_proc + 1 /\ n_proc = nextpid - FirstPid
            /\ nextpid < FirstPid + NPROC_MAX_NUM
        BY <1>2, <1>3, <1>8
      <4>2. nextpid \in Nat /\ FirstPid \in Nat /\ NPROC_MAX_NUM \in Nat
        BY Types
      <4> QED  BY <2>2, <4>1, <4>2
    <3> QED  BY <1>1, <1>3, <1>12, <1>14, <1>15, <3>1 DEF Filling
  <2> QED  BY <2>1, <2>2
<1>19. Running' /\ Counter'
  <2> SUFFICES ASSUME stage' = "run" PROVE Running' /\ Counter'
    BY DEF Running, Counter
  <2>1. nextpid' = FirstPid + NPROC_MAX_NUM
    BY <1>1
  <2>2. n_proc' <= NPROC_MAX_NUM
    BY <1>2, <1>3, <1>8, <2>1, Types
  <2>3. \A i \in 1..NPROC_MAX_NUM : pool'[i].pid = FirstPid + i - 1
    <3>1. \A i \in 1..NPROC_MAX_NUM : i <= nextpid' - FirstPid
      BY <2>1, Types
    <3> QED  BY <1>14, <3>1
  <2>4. DOMAIN pool' = 1..NPROC_MAX_NUM
    BY <1>3, <1>12
  <2>5. Distinct'
    <3>1. \A i, j \in 1..NPROC_MAX_NUM : FirstPid + i - 1 = FirstPid + j - 1 => i = j
      BY Types
    <3> QED  BY <2>3, <2>4, <3>1 DEF Distinct
  <2>6. \A i \in DOMAIN pool' : pool'[i].pid \in live' \cup dead'
    <3>1. \A i \in 1..NPROC_MAX_NUM : FirstPid + i - 1 \in FirstPid..(nextpid' - 1)
      BY <2>1, Types
    <3> QED  BY <1>15, <2>3, <2>4, <3>1
  <2>7. ASSUME NEW p \in live' \cup dead' PROVE HasPid(pool', p)
    <3> DEFINE i == (p - FirstPid) + 1
    <3>1. p \in FirstPid..(nextpid' - 1)
      BY <1>15
    <3>2. i \in 1..NPROC_MAX_NUM /\ FirstPid + i - 1 = p
      BY <2>1, <3>1, Types
    <3> HIDE DEF i
    <3>3. pool'[i].pid = p /\ i \in DOMAIN pool'
      BY <2>3, <2>4, <3>2
    <3> QED  BY <3>3 DEF HasPid
  <2> QED  BY <1>12, <2>2, <2>5, <2>6, <2>7 DEF Running, Counter, HasPid
<1>20. Ended'
  BY <1>1 DEF Ended
<1>21. Balanced'
  BY <1>1, <1>3, <1>12, <1>13, Types, KeepsLeft
<1> QED  BY <1>16, <1>17, <1>18, <1>19, <1>20, <1>21 DEF IInv

\* A step that leaves the table, the counter and the stage alone.
LEMMA DiesKeeps ==
  ASSUME IInv, NEW p \in Children, ChildDies(p)
  PROVE  IInv'
<1>1. /\ p \in live /\ live' = live \ {p} /\ dead' = dead \cup {p}
      /\ UNCHANGED <<pool, n_proc, nextpid, stage, replaced, crossed, notices>>
  BY DEF ChildDies
<1>2. live' \cup dead' = live \cup dead
  BY <1>1
<1>3. TypeOK'
  BY <1>1, Types DEF TypeOK
<1>4. Fresh'
  BY <1>1, <1>2, Types DEF Fresh
<1>5. Filling'
  BY <1>1, <1>2, Types DEF Filling
<1>6. Running'
  BY <1>1, <1>2, Types DEF Running, Distinct, HasPid
<1>7. Counter' /\ Balanced'
  BY <1>1, Types DEF Counter, Balanced
<1>8. Ended'
  BY <1>1, Types DEF Ended, Distinct
<1> QED  BY <1>3, <1>4, <1>5, <1>6, <1>7, <1>8 DEF IInv

\* The list without the first node of p.
LEMMA DeleteFacts ==
  ASSUME NEW l \in Seq(Nodes), NEW p
  PROVE  /\ delete_pool_obj(l, p) \in Seq(Nodes)
         /\ HasPid(l, p) =>
              \E k \in DOMAIN l : l[k].pid = p /\ delete_pool_obj(l, p) = RemoveAt(l, k)
<1>1. CASE ~HasPid(l, p)
  BY <1>1 DEF delete_pool_obj
<1>2. CASE HasPid(l, p)
  <2> DEFINE k == CHOOSE i \in DOMAIN l : IsFirst(l, p, i)
  <2>1. \E i \in DOMAIN l : IsFirst(l, p, i)
    BY <1>2, FirstExists
  <2>2. k \in DOMAIN l /\ IsFirst(l, p, k)
    BY <2>1
  <2>3. delete_pool_obj(l, p) = RemoveAt(l, k)
    BY <1>2 DEF delete_pool_obj
  <2>4. l[k].pid = p
    BY <2>2 DEF IsFirst
  <2> HIDE DEF k
  <2>5. RemoveAt(l, k) \in Seq(Nodes)
    BY <2>2, RemoveAtFacts
  <2> QED  BY <2>2, <2>3, <2>4, <2>5
<1> QED  BY <1>1, <1>2

\* A new node before the others.
LEMMA InsertFacts ==
  ASSUME NEW l \in Seq(Nodes), NEW p \in Children, NEW n \in Int
  PROVE  /\ insert_pool(l, n, p) \in Seq(Nodes)
         /\ n < NPROC_MAX_NUM =>
              /\ Len(insert_pool(l, n, p)) = Len(l) + 1
              /\ insert_pool(l, n, p)[1].pid = p
              /\ \A i \in 1..Len(l) : insert_pool(l, n, p)[i + 1] = l[i]
<1> DEFINE x == [proc_alloc EXCEPT !.pid = p]
<1>1. x \in Nodes /\ x.pid = p
  BY PoolAssumption DEF proc_alloc, Nodes, Node
<1> HIDE DEF x
<1>2. <<x>> \in Seq(Nodes) /\ Len(<<x>>) = 1 /\ <<x>>[1] = x
  BY <1>1
<1>3. /\ <<x>> \o l \in Seq(Nodes) /\ Len(<<x>> \o l) = 1 + Len(l)
      /\ \A i \in 1..(1 + Len(l)) :
           (<<x>> \o l)[i] = IF i <= 1 THEN <<x>>[i] ELSE l[i - 1]
  <2>1. /\ <<x>> \o l \in Seq(Nodes) /\ Len(<<x>> \o l) = Len(<<x>>) + Len(l)
        /\ \A i \in 1..(Len(<<x>>) + Len(l)) :
             (<<x>> \o l)[i] = IF i <= Len(<<x>>) THEN <<x>>[i] ELSE l[i - Len(<<x>>)]
    BY <1>2, ConcatProperties
  <2> QED  BY <1>2, <2>1
<1>4. Len(l) \in Nat /\ \A i \in 1..Len(l) : /\ i + 1 \in 1..(1 + Len(l))
                                             /\ ~(i + 1 <= 1) /\ (i + 1) - 1 = i
  OBVIOUS
<1>5. 1 \in 1..(1 + Len(l)) /\ 1 <= 1 /\ 1 + Len(l) = Len(l) + 1
  BY <1>4
<1>6. /\ (<<x>> \o l)[1].pid = p
      /\ \A i \in 1..Len(l) : (<<x>> \o l)[i + 1] = l[i]
  BY <1>1, <1>2, <1>3, <1>4, <1>5
<1>7. insert_pool(l, n, p) = IF n < NPROC_MAX_NUM THEN <<x>> \o l ELSE l
  BY DEF insert_pool, x
<1> QED  BY <1>3, <1>5, <1>6, <1>7

\* A child is replaced: its node goes, and the new one has the head.
LEMMA ReplaceKeeps ==
  ASSUME IInv, NEW p \in Children, handler_dead_processor(p)
  PROVE  IInv'
<1> DEFINE l == delete_pool_obj(pool, p)
<1>1. /\ stage = "run" /\ p \in dead /\ ForkOne /\ dead' = dead \ {p}
      /\ pool' = insert_pool(l, n_proc - 1, nextpid) /\ n_proc' = n_proc - 1
      /\ replaced' = TRUE /\ UNCHANGED <<stage, crossed, notices>>
  BY DEF handler_dead_processor
<1>2. /\ nextpid' = nextpid + 1 /\ live' = live \cup {nextpid}
      /\ nextpid' \in FirstPid..(MaxPid + 1) /\ nextpid \in Children
      /\ live' \in SUBSET Children /\ nextpid \notin live \cup dead
      /\ \A q \in live' \cup dead : q < nextpid'
  BY <1>1, ForkFacts
<1>3. /\ l \in Seq(Nodes)
      /\ HasPid(pool, p) => \E k \in DOMAIN pool : pool[k].pid = p /\ l = RemoveAt(pool, k)
  BY Types, DeleteFacts
<1> HIDE DEF l
<1>4. n_proc \in Int /\ n_proc <= NPROC_MAX_NUM /\ n_proc - 1 \in Int
      /\ n_proc - 1 < NPROC_MAX_NUM
  BY <1>1, Types DEF Counter, TypeOK
<1>5. /\ pool' \in Seq(Nodes) /\ Len(pool') = Len(l) + 1 /\ pool'[1].pid = nextpid
      /\ \A i \in 1..Len(l) : pool'[i + 1] = l[i]
  <2> DEFINE n == n_proc - 1
  <2>1. n \in Int /\ n < NPROC_MAX_NUM /\ nextpid \in Children /\ l \in Seq(Nodes)
    BY <1>2, <1>3, <1>4
  <2>2. pool' = insert_pool(l, n, nextpid)
    BY <1>1
  <2> HIDE DEF n
  <2> QED  BY <2>1, <2>2, InsertFacts
<1>6. TypeOK'
  BY <1>1, <1>2, <1>4, <1>5, Types DEF TypeOK, Nodes
<1>7. p \notin live /\ live' \cup dead' = ((live \cup dead) \ {p}) \cup {nextpid}
  BY <1>1, <1>2, Types DEF Fresh
<1>8. Fresh'
  <2>1. live' \cap dead' = {} /\ live' \cup dead' \in SUBSET (live' \cup dead)
    BY <1>1, <1>2, Types DEF Fresh
  <2> QED  BY <1>2, <2>1 DEF Fresh
<1>9. Filling' /\ Ended' /\ Balanced'
  BY <1>1 DEF Filling, Ended, Balanced
<1>10. Counter'
  <2>1. n_proc' <= NPROC_MAX_NUM
    BY <1>1, <1>4, PoolAssumption
  <2> QED  BY <2>1 DEF Counter
<1>11. Running'
  <2> SUFFICES ASSUME ~crossed
               PROVE  /\ Len(pool') = NPROC_MAX_NUM /\ Distinct'
                      /\ \A i \in DOMAIN pool' : pool'[i].pid \in live' \cup dead'
                      /\ \A q \in live' \cup dead' : HasPid(pool', q)
    BY <1>1 DEF Running, HasPid
  <2>1. /\ Len(pool) = NPROC_MAX_NUM /\ Distinct
        /\ \A i \in DOMAIN pool : pool[i].pid \in live \cup dead
        /\ \A q \in live \cup dead : HasPid(pool, q)
    BY <1>1, Types DEF Running
  <2>2. PICK k \in DOMAIN pool : pool[k].pid = p /\ l = RemoveAt(pool, k)
    BY <1>1, <1>3, <2>1
  <2>3. /\ Len(l) = Len(pool) - 1
        /\ \A i \in 1..(Len(pool) - 1) : l[i] = pool[IF i < k THEN i ELSE i + 1]
    BY <2>2, Types, RemoveAtFacts
  \* Where the node behind position i of the new list was.
  <2> DEFINE old(i) == IF i < k THEN i ELSE i + 1
  <2>4. /\ k \in 1..Len(pool) /\ Len(pool) \in Nat /\ DOMAIN pool = 1..Len(pool)
        /\ \A i \in 1..Len(l) : old(i) \in DOMAIN pool /\ old(i) # k
        /\ \A i, j \in 1..Len(l) : old(i) = old(j) => i = j
        /\ \A j \in DOMAIN pool : j # k => \E i \in 1..Len(l) : old(i) = j
    <3>1. k \in 1..Len(pool) /\ Len(pool) \in Nat /\ DOMAIN pool = 1..Len(pool)
      BY <2>2, Types
    <3>2. ASSUME NEW j \in DOMAIN pool, j # k PROVE \E i \in 1..Len(l) : old(i) = j
      <4>1. CASE j < k
        <5>1. j \in 1..Len(l) /\ old(j) = j
          BY <2>3, <3>1, <4>1
        <5> QED  BY <5>1
      <4>2. CASE ~(j < k)
        <5>1. j - 1 \in 1..Len(l) /\ old(j - 1) = j
          BY <2>3, <3>1, <3>2, <4>2
        <5> QED  BY <5>1
      <4> QED  BY <4>1, <4>2
    <3>3. \A i \in 1..Len(l) : old(i) \in DOMAIN pool /\ old(i) # k
      BY <2>3, <3>1
    <3>4. \A i, j \in 1..Len(l) : old(i) = old(j) => i = j
      BY <2>3, <3>1
    <3> QED  BY <3>1, <3>2, <3>3, <3>4
  <2>5. \A i \in 1..Len(l) : pool'[i + 1].pid = pool[old(i)].pid
    BY <1>5, <2>3
  <2> HIDE DEF old
  <2>6. Len(pool') = NPROC_MAX_NUM /\ DOMAIN pool' = 1..NPROC_MAX_NUM
        /\ Len(l) = NPROC_MAX_NUM - 1
    <3>1. Len(l) = NPROC_MAX_NUM - 1 /\ Len(pool') = NPROC_MAX_NUM
      BY <1>5, <2>1, <2>3, Types
    <3> QED  BY <1>5, <3>1, ListFacts
  <2>7. \A i \in 1..NPROC_MAX_NUM : i # 1 => i - 1 \in 1..Len(l) /\ (i - 1) + 1 = i
    BY <2>6, Types
  <2>8. \A i \in 1..NPROC_MAX_NUM : i # 1 => pool'[i].pid = pool[old(i - 1)].pid
    BY <2>5, <2>7
  <2>9. \A i \in 1..NPROC_MAX_NUM : i # 1 => /\ pool'[i].pid \in live \cup dead
                                             /\ pool'[i].pid # p /\ pool'[i].pid # nextpid
    <3> SUFFICES ASSUME NEW i \in 1..NPROC_MAX_NUM, i # 1
                 PROVE  /\ pool'[i].pid \in live \cup dead
                        /\ pool'[i].pid # p /\ pool'[i].pid # nextpid
      OBVIOUS
    <3>1. old(i - 1) \in DOMAIN pool /\ old(i - 1) # k
      BY <2>4, <2>7
    <3>2. pool[old(i - 1)].pid # p /\ pool[old(i - 1)].pid \in live \cup dead
      BY <2>1, <2>2, <3>1 DEF Distinct
    <3> QED  BY <1>2, <2>8, <3>2
  <2>10. Distinct'
    <3> SUFFICES ASSUME NEW i \in 1..NPROC_MAX_NUM, NEW j \in 1..NPROC_MAX_NUM,
                        pool'[i].pid = pool'[j].pid
                 PROVE  i = j
      BY <2>6 DEF Distinct
    <3>1. CASE i = 1 \/ j = 1
      BY <1>5, <2>9, <3>1
    <3>2. CASE i # 1 /\ j # 1
      <4>1. /\ old(i - 1) \in DOMAIN pool /\ old(j - 1) \in DOMAIN pool
            /\ pool[old(i - 1)].pid = pool[old(j - 1)].pid
        BY <2>4, <2>7, <2>8, <3>2
      <4>2. i - 1 = j - 1
        BY <2>1, <2>4, <2>7, <3>2, <4>1 DEF Distinct
      <4> QED  BY <4>2
    <3> QED  BY <3>1, <3>2
  <2>11. \A i \in DOMAIN pool' : pool'[i].pid \in live' \cup dead'
    BY <1>5, <1>7, <2>6, <2>9
  <2>12. ASSUME NEW q \in live' \cup dead' PROVE HasPid(pool', q)
    <3>1. CASE q = nextpid
      <4>1. 1 \in DOMAIN pool'
        BY <2>6, Types
      <4> QED  BY <1>5, <3>1, <4>1 DEF HasPid
    <3>2. CASE q # nextpid
      <4>1. q \in live \cup dead /\ q # p
        BY <1>7, <3>2
      <4>2. PICK j \in DOMAIN pool : pool[j].pid = q
        BY <2>1, <4>1 DEF HasPid
      <4>3. PICK i \in 1..Len(l) : old(i) = j
        BY <2>2, <2>4, <4>1, <4>2
      <4>4. i + 1 \in DOMAIN pool' /\ pool'[i + 1].pid = q
        BY <2>5, <2>6, <4>2, <4>3, Types
      <4> QED  BY <4>4 DEF HasPid
    <3> QED  BY <3>1, <3>2
  <2> QED  BY <2>6, <2>10, <2>11, <2>12
<1> QED  BY <1>6, <1>8, <1>9, <1>10, <1>11 DEF IInv

\* A step that changes nodes one by one and leaves what is in them of the pids.
LEMMA NodeStep ==
  ASSUME IInv, stage = "run", pool' \in [DOMAIN pool -> Nodes],
         \A i \in DOMAIN pool : pool'[i].pid = pool[i].pid,
         UNCHANGED <<n_proc, nextpid, live, dead, stage, replaced, crossed>>,
         notices' \in 0..MaxNotices, Balanced'
  PROVE  IInv'
<1>1. pool' \in Seq(Nodes) /\ Len(pool') = Len(pool) /\ DOMAIN pool' = DOMAIN pool
  BY SameNodes
<1>2. TypeOK'
  BY <1>1, Types DEF TypeOK, Nodes
<1>3. Fresh' /\ Filling' /\ Counter' /\ Ended'
  BY Types DEF Fresh, Filling, Counter, Ended
<1>4. Running'
  BY <1>1, Types DEF Running, Distinct, HasPid
<1> QED  BY <1>2, <1>3, <1>4 DEF IInv

\* notice_child() takes one from the last of those that have most left.
LEMMA NoticeKeeps ==
  ASSUME IInv, Notice
  PROVE  IInv'
<1>1. /\ stage = "run" /\ notices < MaxNotices /\ pool' = notice_child(pool)
      /\ notices' = notices + 1
      /\ UNCHANGED <<n_proc, nextpid, live, dead, stage, replaced, crossed>>
  BY DEF Notice
<1>2. \A i \in DOMAIN pool : [pool[i] EXCEPT !.nleft = @ - 1] \in Nodes
  <2>1. \A x \in Nodes, y \in Int : [x EXCEPT !.nleft = y] \in Nodes
    BY DEF Nodes, Node
  <2>2. \A i \in DOMAIN pool : pool[i] \in Nodes /\ pool[i].nleft - 1 \in Int
    BY Types
  <2> QED  BY <2>1, <2>2
<1>3. pool' \in [DOMAIN pool -> Nodes]
  BY <1>1, <1>2, Types DEF notice_child
<1>4. \A i \in DOMAIN pool :
        /\ pool'[i].pid = pool[i].pid
        /\ pool'[i].nleft = IF IsBest(pool, i) THEN pool[i].nleft - 1 ELSE pool[i].nleft
  BY <1>1, Types DEF notice_child, Nodes, Node
<1>5. Balanced'
  <2>1. DOMAIN pool' = DOMAIN pool
    BY <1>3
  <2> SUFFICES ASSUME ~replaced, NEW i \in DOMAIN pool, NEW j \in DOMAIN pool
               PROVE  pool'[i].nleft - pool'[j].nleft <= 1
    BY <1>1, <2>1 DEF Balanced
  <2>2. pool[i].nleft - pool[j].nleft <= 1
    BY Types DEF Balanced
  <2>3. pool[i].nleft \in Int /\ pool[j].nleft \in Int
    BY Types
  <2>4. IsBest(pool, j) => pool[i].nleft <= pool[j].nleft
    BY DEF IsBest
  <2>5. /\ pool'[i].nleft = pool[i].nleft \/ pool'[i].nleft = pool[i].nleft - 1
        /\ IF IsBest(pool, j) THEN pool'[j].nleft = pool[j].nleft - 1
                              ELSE pool'[j].nleft = pool[j].nleft
    BY <1>4
  <2>6. CASE IsBest(pool, j)
    BY <2>3, <2>4, <2>5, <2>6
  <2>7. CASE ~IsBest(pool, j)
    BY <2>2, <2>3, <2>5, <2>7
  <2> QED  BY <2>6, <2>7
<1>6. notices' \in 0..MaxNotices
  BY <1>1, Types, ProcPoolAssumption DEF TypeOK
<1> QED  BY <1>1, <1>3, <1>4, <1>5, <1>6, NodeStep

LEMMA SetOkKeeps ==
  ASSUME IInv, NEW p \in Children, SetOk(p)
  PROVE  IInv'
<1>1. /\ stage = "run" /\ pool' = set_status_ok(pool, p)
      /\ UNCHANGED <<n_proc, nextpid, live, dead, stage, replaced, crossed, notices>>
  BY DEF SetOk
<1>2. \A i \in DOMAIN pool : [pool[i] EXCEPT !.status = 1] \in Nodes
  BY Types DEF Nodes, Node
<1>3. pool' \in [DOMAIN pool -> Nodes]
  BY <1>1, <1>2, Types DEF set_status_ok
<1>4. \A i \in DOMAIN pool : pool'[i].pid = pool[i].pid /\ pool'[i].nleft = pool[i].nleft
  BY <1>1, Types DEF set_status_ok, Nodes, Node
<1>5. Balanced'
  BY <1>1, <1>3, <1>4, Types, SameNodes, KeepsLeft
<1>6. notices' \in 0..MaxNotices
  BY <1>1, Types DEF TypeOK
<1> QED  BY <1>1, <1>3, <1>4, <1>5, <1>6, NodeStep

\* cross_ok() overwrites pids; what it leaves is the types and the balance.
LEMMA CrossOkKeeps ==
  ASSUME IInv, NEW p \in Children, CrossOk(p)
  PROVE  IInv'
<1>1. /\ stage = "run" /\ pool' = cross_ok(pool, p) /\ crossed' = TRUE
      /\ UNCHANGED <<n_proc, nextpid, live, dead, stage, replaced, notices>>
  BY DEF CrossOk
<1>2. \A i \in DOMAIN pool : /\ [pool[i] EXCEPT !.pid = 0] \in Nodes
                             /\ [pool[i] EXCEPT !.pid = 1] \in Nodes
  BY Types DEF Nodes, Node
<1>3. pool' \in [DOMAIN pool -> Nodes]
  BY <1>1, <1>2, Types DEF cross_ok
<1>4. \A i \in DOMAIN pool : pool'[i].nleft = pool[i].nleft
  BY <1>1, Types DEF cross_ok, Nodes, Node
<1>5. pool' \in Seq(Nodes) /\ Len(pool') = Len(pool)
  BY <1>3, SameNodes
<1>6. Balanced'
  BY <1>1, <1>4, <1>5, Types, KeepsLeft
<1>7. TypeOK'
  BY <1>1, <1>5, Types DEF TypeOK, Nodes
<1>8. Fresh' /\ Filling' /\ Running' /\ Counter' /\ Ended'
  BY <1>1, Types DEF Fresh, Filling, Running, Counter, Ended
<1> QED  BY <1>6, <1>7, <1>8 DEF IInv

\* tell_chld_exit() has the pid of every child in the table, and no other.
LEMMA TellKeeps ==
  ASSUME IInv, TellExit
  PROVE  IInv'
<1>1. /\ stage = "run" /\ live' = live \ Reached(tell_chld_exit(pool)) /\ stage' = "told"
      /\ UNCHANGED <<pool, n_proc, nextpid, dead, replaced, crossed, notices>>
  BY DEF TellExit
<1>2. TypeOK'
  BY <1>1, Types DEF TypeOK
<1>3. Fresh'
  BY <1>1, Types DEF Fresh
<1>4. Filling' /\ Running' /\ Counter' /\ Balanced'
  BY <1>1, Types DEF Filling, Running, Counter, Balanced
<1>5. Ended'
  <2> SUFFICES ASSUME ~crossed PROVE Len(pool) = NPROC_MAX_NUM /\ Distinct' /\ live' = {}
    BY <1>1 DEF Ended
  <2>1. /\ Len(pool) = NPROC_MAX_NUM /\ Distinct
        /\ \A q \in live \cup dead : HasPid(pool, q)
    BY <1>1, Types DEF Running
  <2>2. live \in SUBSET tell_chld_exit(pool)
    BY <2>1 DEF tell_chld_exit, HasPid
  <2>3. live \in SUBSET Reached(tell_chld_exit(pool))
    BY <2>2 DEF Reached
  <2> QED  BY <1>1, <2>1, <2>3 DEF Distinct
<1> QED  BY <1>2, <1>3, <1>4, <1>5 DEF IInv

LEMMA FailKeeps ==
  ASSUME IInv, ForkFails
  PROVE  IInv'
<1>1. /\ stage' = "exited"
      /\ UNCHANGED <<pool, n_proc, nextpid, live, dead, replaced, crossed, notices>>
  BY DEF ForkFails
<1>2. TypeOK' /\ Fresh' /\ Balanced'
  BY <1>1, Types DEF TypeOK, Fresh, Balanced
<1> QED  BY <1>1, <1>2 DEF IInv, Filling, Running, Counter, Ended

----------------------------------------------------------------------------
(* The specification.                                                      *)

\* The invariant holds, whatever operations of the table are called, in which
\* order, and whichever children die meanwhile.
THEOREM TableInvariance == Spec => []IInv
<1>1. ASSUME IInv, [Next]_vars PROVE IInv'
  <2>1. CASE UNCHANGED vars
    <3>1. UNCHANGED <<pool, n_proc, nextpid, live, dead, stage, replaced, crossed, notices>>
      BY <2>1 DEF vars
    <3>2. TypeOK' /\ Fresh' /\ Filling' /\ Counter' /\ Balanced'
      BY <1>1, <3>1, Types DEF TypeOK, Fresh, Filling, Counter, Balanced
    <3>3. Running' /\ Ended'
      BY <1>1, <3>1, Types DEF Running, Ended, Distinct, HasPid
    <3> QED  BY <3>2, <3>3 DEF IInv
  <2>2. CASE Next
    BY <1>1, <2>2, InitForkKeeps, FailKeeps, NoticeKeeps, TellKeeps, DiesKeeps,
       ReplaceKeeps, SetOkKeeps, CrossOkKeeps DEF Next
  <2> QED  BY <1>1, <2>1, <2>2
<1> QED  BY Initially, <1>1, PTL DEF Spec

\* The table and the counter have their types: also cross_ok(), which assigns
\* where it should compare, leaves a list of nodes.
THEOREM TableTypes == Spec => []TypeOK
<1>1. IInv => TypeOK
  BY DEF IInv
<1> QED  BY <1>1, TableInvariance, PTL

\* As long as cross_ok() is not called the table has one node for each child
\* that was not handled, for any number of replacements by
\* handler_dead_processor(), and tell_chld_exit() reaches all.
THEOREM TableKept == Spec => []TableReliable
<1>1. ASSUME IInv PROVE TableReliable
  <2>1. ToldIfNotCrossed
    BY <1>1 DEF IInv, Ended, ToldIfNotCrossed
  <2>2. TableExact
    <3> SUFFICES ASSUME stage \in {"run", "told"}, ~crossed
                 PROVE  /\ Len(pool) = NPROC_MAX_NUM /\ Distinct
                        /\ stage = "run" => Pids(pool) = live \cup dead
      BY DEF TableExact, Distinct
    <3>1. Len(pool) = NPROC_MAX_NUM /\ Distinct
      BY <1>1, Types DEF Running, Ended
    <3>2. ASSUME stage = "run" PROVE Pids(pool) = live \cup dead
      <4>1. /\ \A i \in DOMAIN pool : pool[i].pid \in live \cup dead
            /\ \A p \in live \cup dead : HasPid(pool, p)
        BY <1>1, <3>2, Types DEF Running
      <4>2. NoPid \notin live \cup dead
        <5>1. ~(NoPid >= FirstPid)
          BY <1>1, Types
        <5> QED  BY <1>1, <5>1, Types
      <4> QED  BY <4>1, <4>2 DEF Pids, HasPid
    <3> QED  BY <3>1, <3>2
  <2> QED  BY <2>1, <2>2 DEF TableReliable
<1> QED  BY <1>1, TableInvariance, PTL

\* notice_child() keeps the children balanced until one of them is replaced, for
\* any number of calls.
THEOREM NoticesBalanced == Spec => []Balanced
<1>1. IInv => Balanced
  BY DEF IInv
<1> QED  BY <1>1, TableInvariance, PTL
=============================================================================
