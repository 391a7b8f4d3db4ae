-------------------------------- MODULE Pool --------------------------------
(***************************************************************************)
(* The process table of inc/http_task.h: a singly linked list of nodes     *)
(* [pid, nleft, status] (SLIST, head first) and the counter n_proc kept in *)
(* the list head.  A list is modelled by the sequence of its nodes.  Each  *)
(* C function is an operator from the old list (and counter) to the new    *)
(* one.                                                                    *)
(***************************************************************************)
EXTENDS Integers, Sequences, SequencesExt

CONSTANTS NPROC_MAX_NUM,   \* children in the pool (10 in the code)
          MAX_FD_NUM,      \* initial nleft of a node (200 in the code)
          NoPid            \* the pid -1 of an unused node

ASSUME PoolAssumption == /\ NPROC_MAX_NUM \in Nat \ {0}
                         /\ MAX_FD_NUM \in Nat

Node(Pids) == [pid : Pids \cup {NoPid}, nleft : Int, status : {0, 1}]

proc_alloc == [pid |-> NoPid, nleft |-> MAX_FD_NUM, status |-> 0]

create_proc_pool == [i \in 1..NPROC_MAX_NUM |-> proc_alloc]

\* First index of the list whose pid is p, for the SLIST_FOREACH ... break.
IsFirst(l, p, i) == /\ i \in DOMAIN l
                    /\ l[i].pid = p
                    /\ \A j \in 1..(i - 1) : l[j].pid # p

HasPid(l, p) == \E i \in DOMAIN l : l[i].pid = p

Pids(l) == {l[i].pid : i \in DOMAIN l} \ {NoPid}

\* Mutant: the break is missing, every unused node is filled.
insert_pool_obj_NoBreak(l, p) ==
  [i \in DOMAIN l |-> IF l[i].pid = NoPid THEN [l[i] EXCEPT !.pid = p] ELSE l[i]]

\* Fills the first unused node; without one the pid is not recorded.
insert_pool_obj(l, p) ==
  [i \in DOMAIN l |-> IF IsFirst(l, NoPid, i) THEN [l[i] EXCEPT !.pid = p]
                                              ELSE l[i]]

insert_pool_obj_n(l, n) == IF HasPid(l, NoPid) THEN n + 1 ELSE n

\* Unlinks the first node of pid p; the caller decrements n_proc always.
delete_pool_obj(l, p) ==
  IF HasPid(l, p) THEN RemoveAt(l, CHOOSE i \in DOMAIN l : IsFirst(l, p, i))
                  ELSE l

\* A new node at the head, if the counter says there is room; the counter
\* itself is not incremented.
insert_pool(l, n, p) ==
  IF n < NPROC_MAX_NUM THEN <<[proc_alloc EXCEPT !.pid = p]>> \o l ELSE l

\* The node notice_child() picks: the last one of the largest nleft.
IsBest(l, i) == /\ i \in DOMAIN l
                /\ \A j \in DOMAIN l : /\ l[j].nleft <= l[i].nleft
                                       /\ j > i => l[j].nleft < l[i].nleft

\* Mutant: the head is always taken.
notice_child_First(l) ==
  [i \in DOMAIN l |-> IF i = 1 THEN [l[i] EXCEPT !.nleft = @ - 1] ELSE l[i]]

notice_child(l) ==
  [i \in DOMAIN l |-> IF IsBest(l, i) THEN [l[i] EXCEPT !.nleft = @ - 1]
                                      ELSE l[i]]

\* Mutant: the status is counted up.
set_status_ok_Count(l, p) ==
  [i \in DOMAIN l |-> IF l[i].pid = p THEN [l[i] EXCEPT !.status = @ + 1] ELSE l[i]]

set_status_ok(l, p) ==
  [i \in DOMAIN l |-> IF l[i].pid = p THEN [l[i] EXCEPT !.status = 1] ELSE l[i]]

\* The test `item->pid=pid&&item->status==1' is an assignment: every node up to
\* the first of status 1 has its pid replaced by the 0 or 1 of the condition.
cross_ok(l, p) ==
  [i \in DOMAIN l |->
     IF \E j \in 1..(i - 1) : p # 0 /\ l[j].status = 1
     THEN l[i]
     ELSE [l[i] EXCEPT !.pid = IF p # 0 /\ l[i].status = 1 THEN 1 ELSE 0]]

\* The processes tell_chld_exit() sends SIGINT to.
tell_chld_exit(l) == {l[i].pid : i \in DOMAIN l}
=============================================================================
