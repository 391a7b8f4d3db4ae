------------------------------ MODULE MsgQueue ------------------------------
(***************************************************************************)
(* The System V message queues of inc/http_ipc.h, through which the main   *)
(* process, the manager and the children are to talk: arr[0] from main to  *)
(* the manager, arr[1] from the manager to the children, arr[2] back to    *)
(* the manager (here 1, 2, 3).  A process calls create_queue(), then any   *)
(* of the other functions in any order; it may be killed at any point, and *)
(* be started again.  The queues live in the kernel and outlive it.        *)
(*                                                                         *)
(* Every failure of msgget(), msgsnd(), msgrcv() and msgctl() ends in      *)
(* check(), which exits.  The kernel never gives out an identifier again.  *)
(***************************************************************************)
EXTENDS Integers, Sequences, SequencesExt, FiniteSets

CONSTANTS Procs,         \* the processes
          Types,         \* values of mtype that are sent
          RcvTypes,      \* values of type that are asked for
          Used,          \* bound: the queues through which messages are sent
          QCap,          \* messages that fit into one queue
          MaxIds,        \* bound: queues the kernel creates
          MaxMsgs,       \* bound: messages sent
          MaxStarts      \* bound: processes started

ASSUME MsgQueueAssumption == /\ Types \subseteq Nat \ {0}
                             /\ RcvTypes \subseteq Int
                             /\ Used \subseteq 1..3
                             /\ QCap \in Nat \ {0}
                             /\ {MaxIds, MaxMsgs, MaxStarts} \subseteq Nat

Roles == 1..3

VARIABLES made,          \* queues created so far, numbered 1, 2, ...
          key,           \* key[id]: the key the queue was created for
          live,          \* the queues that have not been removed
          queue,         \* queue[id]: the messages in it
          arr,           \* arr[p]: the identifiers p has; 0: none
          pc, step,      \* what p is at, and at which of the three queues
          arg,           \* the role and the type of the call of p
          starts,        \* processes started so far
          sent,          \* messages sent so far, numbered 1, 2, ...
          got,           \* the messages that were received, in order
          strayed,       \* those of them received through another arr[i] than
                         \* they were sent through
          lost,          \* the messages that were removed with their queue
          peeked,        \* the last call for which peek_message() found a message
          torn           \* was a set of queues removed in part, or meanwhile
                         \* opened?

kernel == <<made, key, live, queue>>
log == <<sent, got, strayed, lost>>
vars == <<made, key, live, queue, arr, pc, step, arg, starts, sent, got,
          strayed, lost, peeked, torn>>

Ids == 1..MaxIds
Calls == [role : Roles, type : Types \cup RcvTypes \cup {0}]
NoCall == [role |-> 1, type |-> 0]
Message == [n : Nat, type : Types, role : Roles]

TypeOK == /\ made \in 0..MaxIds
          /\ key \in [Ids -> Roles]
          /\ live \subseteq 1..made
          /\ \A id \in Ids : queue[id] \in Seq(Message) /\ Len(queue[id]) <= QCap
          /\ arr \in [Procs -> [Roles -> 0..made]]
          /\ pc \in [Procs -> {"off", "open", "idle", "send", "recv", "remove"}]
          /\ step \in [Procs -> Roles]
          /\ arg \in [Procs -> Calls]
          /\ starts \in 0..MaxStarts
          /\ sent \in 0..MaxMsgs
          /\ got \in Seq(1..sent)
          /\ strayed \subseteq 1..sent
          /\ lost \subseteq 1..sent
          /\ peeked \in [Procs -> SUBSET Calls]
          /\ \A p \in Procs : Cardinality(peeked[p]) <= 1
          /\ torn \in BOOLEAN

Init == /\ made = 0
        /\ key = [id \in Ids |-> 1]
        /\ live = {}
        /\ queue = [id \in Ids |-> << >>]
        /\ arr = [p \in Procs |-> [i \in Roles |-> 0]]
        /\ pc = [p \in Procs |-> "off"]
        /\ step = [p \in Procs |-> 1]
        /\ arg = [p \in Procs |-> NoCall]
        /\ starts = 0
        /\ sent = 0 /\ got = << >> /\ strayed = {} /\ lost = {}
        /\ peeked = [p \in Procs |-> {}]
        /\ torn = FALSE

Goto(p, from, to) == pc[p] = from /\ pc' = [pc EXCEPT ![p] = to]
Busy(what) == \E p \in Procs : pc[p] = what

\* check(): the process exits; what it left in the kernel stays there.
Exit(p) == /\ pc' = [pc EXCEPT ![p] = "off"]
           /\ arr' = [arr EXCEPT ![p] = [i \in Roles |-> 0]]
           /\ step' = [step EXCEPT ![p] = 1]
           /\ arg' = [arg EXCEPT ![p] = NoCall]
           /\ peeked' = [peeked EXCEPT ![p] = {}]
           /\ UNCHANGED <<kernel, starts, log>>

----------------------------------------------------------------------------
(* Processes.                                                              *)

\* A new process, whose arr is still zero, calls create_queue().
Start(p) == /\ Goto(p, "off", "open")
            /\ starts < MaxStarts
            /\ starts' = starts + 1
            /\ torn' = (torn \/ Busy("remove"))
            /\ UNCHANGED <<kernel, arr, step, arg, log, peeked>>

\* A signal: in the middle of destroy_queue() it leaves some queues.  The
\* same end has a process whose msgsnd() or msgrcv() is interrupted by a
\* handler, because EINTR is not told from other errors.
Dies(p) == /\ pc[p] # "off"
           /\ Exit(p)
           /\ torn' = (torn \/ pc[p] = "remove")

----------------------------------------------------------------------------
(* create_queue()                                                          *)

\* Ftok(i) for open_queue(), open_queue2() and open_queue3().
Ftok(i) == i

Found(k) == {id \in live : key[id] = k}

Opened(p, id) == /\ arr' = [arr EXCEPT ![p][step[p]] = id]
                 /\ step' = [step EXCEPT ![p] = IF @ = 3 THEN 1 ELSE @ + 1]
                 /\ pc' = [pc EXCEPT ![p] = IF step[p] = 3 THEN "idle" ELSE "open"]
                 /\ UNCHANGED <<arg, starts, log, peeked, torn>>

OpenNew(p) == /\ made < MaxIds
              /\ made' = made + 1
              /\ key' = [key EXCEPT ![made + 1] = Ftok(step[p])]
              /\ live' = live \cup {made + 1}
              /\ Opened(p, made + 1)
              /\ UNCHANGED queue

\* Mutant: IPC_PRIVATE in place of the key.
open_queue_Private(p) == pc[p] = "open" /\ OpenNew(p)

\* msgget() with IPC_CREAT: the queue of that key, or a new one.
open_queue(p) == /\ pc[p] = "open"
                 /\ IF Found(Ftok(step[p])) = {}
                    THEN OpenNew(p)
                    ELSE \E id \in Found(Ftok(step[p])) :
                           Opened(p, id) /\ UNCHANGED kernel

\* The system has no room for another queue.
OpenFails(p) == /\ pc[p] = "open" /\ Found(Ftok(step[p])) = {}
                /\ Exit(p)
                /\ UNCHANGED torn

----------------------------------------------------------------------------
(* send_queue(), rcv_queue() and peek_message()                            *)

Call(p, what, c) == /\ Goto(p, "idle", what)
                    /\ arg' = [arg EXCEPT ![p] = c]
                    /\ UNCHANGED <<kernel, arr, step, starts, log, peeked, torn>>

\* The queue of the call p is in.
Qid(p) == arr[p][arg[p].role]

\* Mutant: the limit of the queue is not waited for.
send_queue_Full(p) ==
  /\ Goto(p, "send", "idle")
  /\ Qid(p) \in live /\ sent < MaxMsgs
  /\ sent' = sent + 1
  /\ queue' = [queue EXCEPT ![Qid(p)] =
                 Append(@, [n |-> sent + 1, type |-> arg[p].type, role |-> arg[p].role])]
  /\ arg' = [arg EXCEPT ![p] = NoCall]
  /\ UNCHANGED <<made, key, live, arr, step, starts, got, strayed, lost, peeked, torn>>

\* msgsnd() without IPC_NOWAIT: waits until the message fits.
send_queue(p) ==
  /\ Goto(p, "send", "idle")
  /\ Qid(p) \in live /\ Len(queue[Qid(p)]) < QCap /\ sent < MaxMsgs
  /\ sent' = sent + 1
  /\ queue' = [queue EXCEPT ![Qid(p)] =
                 Append(@, [n |-> sent + 1, type |-> arg[p].type, role |-> arg[p].role])]
  /\ arg' = [arg EXCEPT ![p] = NoCall]
  /\ UNCHANGED <<made, key, live, arr, step, starts, got, strayed, lost, peeked, torn>>

\* The message msgrcv() chooses: the first of the type, of any type for 0,
\* and of the lowest type up to -t for a negative t; 0: none.
msgrcv(s, t) ==
  LET low == {m.type : m \in {s[i] : i \in DOMAIN s}} \cap 1..(-t)
  IN  CASE t = 0 -> SelectInSeq(s, LAMBDA m : TRUE)
        [] t > 0 -> SelectInSeq(s, LAMBDA m : m.type = t)
        [] OTHER -> SelectInSeq(s, LAMBDA m : m.type \in low
                                              /\ \A u \in low : m.type <= u)

\* Those who found a message in queue id, and are not p, cannot count on it.
Forget(p, id) == [q \in Procs |-> IF q = p THEN {}
                                  ELSE {c \in peeked[q] : arr[q][c.role] # id}]

rcv_queue(p) ==
  LET s == queue[Qid(p)]
      i == msgrcv(s, arg[p].type)
  IN  /\ Goto(p, "recv", "idle")
      /\ Qid(p) \in live /\ i # 0
      /\ queue' = [queue EXCEPT ![Qid(p)] = RemoveAt(@, i)]
      /\ got' = Append(got, s[i].n)
      /\ strayed' = IF s[i].role = arg[p].role THEN strayed ELSE strayed \cup {s[i].n}
      /\ arg' = [arg EXCEPT ![p] = NoCall]
      /\ peeked' = Forget(p, Qid(p))
      /\ UNCHANGED <<made, key, live, arr, step, starts, sent, lost, torn>>

\* Mutant: a queue that is gone is waited for, as after an interruption.
WaitFails_Again(p) == /\ pc[p] \in {"send", "recv"} /\ Qid(p) \notin live
                      /\ UNCHANGED vars

\* EINVAL, or EIDRM for one that is waiting already.
WaitFails(p) == /\ pc[p] \in {"send", "recv"} /\ Qid(p) \notin live
                /\ Exit(p)
                /\ UNCHANGED torn

\* Mutant: MSG_NOERROR, with which msgrcv() cuts the message off and takes it.
peek_message_Takes(p, c) ==
  LET i == msgrcv(queue[arr[p][c.role]], c.type)
  IN  /\ pc[p] = "idle"
      /\ queue' = IF arr[p][c.role] \in live /\ i # 0
                  THEN [queue EXCEPT ![arr[p][c.role]] = RemoveAt(@, i)] ELSE queue
      /\ UNCHANGED <<made, key, live, arr, pc, step, arg, starts, log, peeked, torn>>

\* Mutant: every failure is reported as a message.
peek_message_AnyError(p, c) ==
  /\ pc[p] = "idle"
  /\ peeked' = [peeked EXCEPT ![p] = {c}]
  /\ UNCHANGED <<kernel, arr, pc, step, arg, starts, log, torn>>

\* msgrcv() into no room fails with E2BIG, and leaves the message; any other
\* result, a queue that is gone included, is reported as 0.
peek_message(p, c) ==
  /\ pc[p] = "idle"
  /\ arr[p][c.role] \in live /\ msgrcv(queue[arr[p][c.role]], c.type) # 0
  /\ peeked' = [peeked EXCEPT ![p] = {c}]
  /\ UNCHANGED <<kernel, arr, pc, step, arg, starts, log, torn>>

----------------------------------------------------------------------------
(* destroy_queue()                                                         *)

Destroy(p) == /\ Goto(p, "idle", "remove")
              /\ torn' = (torn \/ Busy("open"))
              /\ UNCHANGED <<kernel, arr, step, arg, starts, log, peeked>>

\* Mutant: the loop ends one queue early.
LastRemoved_Early == 2

LastRemoved == 3

\* IPC_RMID: the messages go with the queue.
remove_message(p) ==
  LET id == arr[p][step[p]]
  IN  /\ pc[p] = "remove" /\ id \in live
      /\ live' = live \ {id}
      /\ key' = [key EXCEPT ![id] = 1]
      /\ lost' = lost \cup {queue[id][i].n : i \in DOMAIN queue[id]}
      /\ queue' = [queue EXCEPT ![id] = << >>]
      /\ step' = [step EXCEPT ![p] = IF @ = LastRemoved THEN 1 ELSE @ + 1]
      /\ pc' = [pc EXCEPT ![p] = IF step[p] = LastRemoved THEN "idle" ELSE "remove"]
      /\ peeked' = Forget(p, id)
      /\ UNCHANGED <<made, arr, arg, starts, sent, got, strayed, torn>>

\* Somebody else has removed it: the rest of the loop is not run.
RemoveFails(p) == /\ pc[p] = "remove" /\ arr[p][step[p]] \notin live
                  /\ Exit(p)
                  /\ UNCHANGED torn

----------------------------------------------------------------------------

SendCalls == [role : Used, type : Types]
RcvCalls == [role : Used, type : RcvTypes]

Next == \E p \in Procs :
          \/ Start(p) \/ Dies(p) \/ open_queue(p) \/ OpenFails(p)
          \/ \E c \in SendCalls : Call(p, "send", c)
          \/ \E c \in RcvCalls : Call(p, "recv", c) \/ peek_message(p, c)
          \/ send_queue(p) \/ rcv_queue(p) \/ WaitFails(p)
          \/ Destroy(p) \/ remove_message(p) \/ RemoveFails(p)

Spec == Init /\ [][Next]_vars

\* A process that waits for a queue when it is removed is woken and runs, and
\* one in destroy_queue(), where nothing blocks, runs; that a queue fills or
\* empties is not assumed, so a process may wait for ever.
FairSpec == /\ Spec
            /\ \A p \in Procs : /\ WF_vars(WaitFails(p))
                                /\ WF_vars(remove_message(p) \/ RemoveFails(p))

----------------------------------------------------------------------------
(* Properties.                                                             *)

\* A message comes out where it went in: what was sent through arr[i] is
\* received through arr[i], by whichever process, also if queues were removed
\* and created again in between.
RolesKept == strayed = {}

\* Processes that have their queues agree on them: of two, neither has a queue
\* that is still there where the other has another.
QueuesShared ==
  \A p, q \in Procs : \A i \in Roles :
    /\ {arr[p][i], arr[q][i]} \subseteq live => arr[p][i] = arr[q][i]
    /\ \A j \in Roles : arr[p][i] \in live /\ arr[p][i] = arr[q][j] => i = j

\* Every message is in one queue, or was received once, or went with a queue
\* that was removed, whoever dies meanwhile; looking does not take it.
Accounted ==
  LET held == UNION {{queue[id][i].n : i \in DOMAIN queue[id]} : id \in live}
      taken == {got[k] : k \in DOMAIN got}
  IN  /\ held \cup taken \cup lost = 1..sent
      /\ held \cap taken = {} /\ held \cap lost = {} /\ taken \cap lost = {}
      /\ Cardinality(taken) = Len(got)

\* No message is lost, doubled or delivered to another role.
MessagesKept == RolesKept /\ Accounted

\* After peek_message() has returned -1, rcv_queue() finds a message at once,
\* as long as no other process has received from the queue or removed it.
PeekHolds ==
  \A p \in Procs : \A c \in peeked[p] : /\ arr[p][c.role] \in live
                                        /\ msgrcv(queue[arr[p][c.role]], c.type) # 0

\* The three queues come and go together, as long as no process opens them
\* while another removes them and none is killed while removing.
AllOrNone ==
  ~torn /\ ~Busy("remove") =>
    \A p \in Procs : pc[p] \in {"idle", "send", "recv"} =>
      {i \in Roles : arr[p][i] \in live} \in {{}, Roles}

\* The queues destroy_queue() of p has still to remove.
ToRemove(p) == {arr[p][i] : i \in step[p]..3}

\* destroy_queue() releases whoever waits in msgsnd() or msgrcv() on one of the
\* queues, whether it waits for room or for a message that never comes, and on
\* whichever of the three; unless the process that removes them ends before.
DestroyReleases ==
  \A p, q \in Procs :
    (pc[p] = "remove" /\ pc[q] \in {"send", "recv"} /\ Qid(q) \in ToRemove(p))
      ~> (pc[q] \notin {"send", "recv"} \/ pc[p] = "off")
=============================================================================
