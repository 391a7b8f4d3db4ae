------------------------------ MODULE ProcPool ------------------------------
(***************************************************************************)
(* The life of the process table of inc/http_task.h under its own          *)
(* operations: init_manager_proc() fills it, children die and are replaced *)
(* by handler_dead_processor(), notice_child() and set_status_ok() update  *)
(* its nodes, cross_ok() looks a child up, tell_chld_exit() ends them all. *)
(* start() calls only the first; the others are the interface the header   *)
(* offers to a manager process, called here in any order.                  *)
(*                                                                         *)
(* Pids are numbers because cross_ok() computes with them.  A child is     *)
(* dead until the manager has handled its death.                           *)
(***************************************************************************)
EXTENDS Pool, FiniteSets

CONSTANTS FirstPid,      \* the pid of the first child; init has pid 1
          MaxPid,        \* bound: the last pid that fork() returns
          MaxNotices     \* bound: calls of notice_child()

ASSUME ProcPoolAssumption == /\ FirstPid \in Nat /\ FirstPid > 1
                             /\ MaxPid \in Nat /\ FirstPid <= MaxPid
                             /\ MaxNotices \in Nat
                             /\ NoPid = -1

VARIABLES pool, n_proc,  \* the table and the counter in its head
          nextpid,       \* what fork() returns next
          live, dead,    \* the children that run, and that died unhandled
          stage,         \* what the manager is at
          replaced,      \* has a dead child been replaced?
          crossed,       \* has cross_ok() been called?
          notices        \* how often notice_child() has been called

vars == <<pool, n_proc, nextpid, live, dead, stage, replaced, crossed, notices>>

Children == FirstPid..MaxPid

TypeOK == /\ pool \in Seq(Node(Children \cup {0, 1}))
          /\ n_proc \in Int
          /\ nextpid \in FirstPid..(MaxPid + 1)
          /\ live \in SUBSET Children /\ dead \in SUBSET Children
          /\ stage \in {"init", "run", "told", "exited"}
          /\ replaced \in BOOLEAN /\ crossed \in BOOLEAN
          /\ notices \in 0..MaxNotices

Init == /\ pool = create_proc_pool
        /\ n_proc = 0
        /\ nextpid = FirstPid
        /\ live = {} /\ dead = {}
        /\ stage = "init"
        /\ replaced = FALSE /\ crossed = FALSE
        /\ notices = 0

\* fork() in the manager: a pid that no child had before.
ForkOne == /\ nextpid <= MaxPid
           /\ nextpid' = nextpid + 1
           /\ live' = live \cup {nextpid}

\* One round of the loop of init_manager_proc().
InitFork == /\ stage = "init"
            /\ ForkOne
            /\ pool' = insert_pool_obj(pool, nextpid)
            /\ n_proc' = insert_pool_obj_n(pool, n_proc)
            /\ stage' = IF nextpid' = FirstPid + NPROC_MAX_NUM THEN "run" ELSE "init"
            /\ UNCHANGED <<dead, replaced, crossed, notices>>

ChildDies(p) == /\ p \in live
                /\ live' = live \ {p}
                /\ dead' = dead \cup {p}
                /\ UNCHANGED <<pool, n_proc, nextpid, stage, replaced, crossed, notices>>

\* Mutant: the new child is recorded before the dead one is removed.
handler_dead_processor_InsertFirst(p) ==
  /\ stage = "run" /\ p \in dead
  /\ ForkOne
  /\ dead' = dead \ {p}
  /\ pool' = delete_pool_obj(insert_pool(pool, n_proc, nextpid), p)
  /\ n_proc' = n_proc - 1
  /\ replaced' = TRUE
  /\ UNCHANGED <<stage, crossed, notices>>

\* The node goes, the counter is decremented, a child is forked, and a node is
\* added without counting it.
handler_dead_processor(p) ==
  /\ stage = "run" /\ p \in dead
  /\ ForkOne
  /\ dead' = dead \ {p}
  /\ pool' = insert_pool(delete_pool_obj(pool, p), n_proc - 1, nextpid)
  /\ n_proc' = n_proc - 1
  /\ replaced' = TRUE
  /\ UNCHANGED <<stage, crossed, notices>>

\* fork() fails, in the loop or in the handler: the manager exits.
ForkFails == /\ stage = "init" \/ (stage = "run" /\ dead # {})
             /\ stage' = "exited"
             /\ UNCHANGED <<pool, n_proc, nextpid, live, dead, replaced, crossed,
                            notices>>

Notice == /\ stage = "run" /\ notices < MaxNotices
          /\ pool' = notice_child(pool)
          /\ notices' = notices + 1
          /\ UNCHANGED <<n_proc, nextpid, live, dead, stage, replaced, crossed>>

SetOk(p) == /\ stage = "run" /\ p \in live \cup dead
            /\ pool' = set_status_ok(pool, p)
            /\ UNCHANGED <<n_proc, nextpid, live, dead, stage, replaced, crossed,
                           notices>>

CrossOk(p) == /\ stage = "run" /\ p \in live \cup dead
              /\ pool' = cross_ok(pool, p)
              /\ crossed' = TRUE
              /\ UNCHANGED <<n_proc, nextpid, live, dead, stage, replaced, notices>>

\* kill(): 0 means the whole process group, -1 everyone, 1 is not permitted.
Reached(targets) == IF targets \cap {0, -1} # {} THEN live ELSE live \cap targets

\* Every child that gets SIGINT exits (sig_int_kill()).
TellExit == /\ stage = "run"
            /\ live' = live \ Reached(tell_chld_exit(pool))
            /\ stage' = "told"
            /\ UNCHANGED <<pool, n_proc, nextpid, dead, replaced, crossed, notices>>

Next == \/ InitFork \/ ForkFails \/ Notice \/ TellExit
        \/ \E p \in Children : \/ ChildDies(p) \/ handler_dead_processor(p)
                               \/ SetOk(p) \/ CrossOk(p)

Spec == Init /\ [][Next]_vars

----------------------------------------------------------------------------

\* As long as cross_ok() is not used, the table of a running manager has one
\* node for each child that runs or died unhandled, and no other: replacing
\* children, over and over and in any order, neither loses nor adds a node,
\* although the counter in the list head counts down with each replacement.
TableExact ==
  stage \in {"run", "told"} /\ ~crossed =>
    /\ Len(pool) = NPROC_MAX_NUM
    /\ stage = "run" => Pids(pool) = live \cup dead
    /\ \A i, j \in DOMAIN pool : pool[i].pid = pool[j].pid => i = j

\* notice_child() spreads the load: until a child is replaced, no two children
\* differ by more than one in the descriptors they have left.
Balanced ==
  ~replaced => \A i, j \in DOMAIN pool : pool[i].nleft - pool[j].nleft <= 1

\* tell_chld_exit() reaches every child that is running, as long as cross_ok()
\* was not called.
ToldIfNotCrossed == stage = "told" /\ ~crossed => live = {}

\* The table serves its purpose as long as cross_ok() is not used: it has every
\* child while the manager runs, and tell_chld_exit() reaches all through it.
TableReliable == TableExact /\ ToldIfNotCrossed

\* "TELL CHLD TO EXIT WHEN ACCEPT SIGINT SIGNAL" (inc/http_task.h:279).
Told == stage = "told" => live = {}
=============================================================================
