------------------------------ MODULE Delivery ------------------------------
(***************************************************************************)
(* What the main process and its children promise about accepted           *)
(* connections, without processes, sockets or program counters: one queue, *)
(* filled in the order of acceptance and emptied from the front, each      *)
(* element going to one child.  If Lossy holds (a sendmsg() may fail) an   *)
(* element may be queued again or dropped.  Main may halt at any moment    *)
(* and takes with it at most the element it had not finished queueing.     *)
(***************************************************************************)
EXTENDS Integers, Sequences

CONSTANTS Conns, Workers, Lossy

VARIABLES accepted, queue, held, halted

vars == <<accepted, queue, held, halted>>

Init == /\ accepted = << >>
        /\ queue = << >>
        /\ held = [w \in Workers |-> << >>]
        /\ halted = FALSE

Accept(c) == /\ ~halted
             /\ \A i \in 1..Len(accepted) : accepted[i] # c
             /\ accepted' = Append(accepted, c)
             /\ queue' = Append(queue, c)
             /\ UNCHANGED <<held, halted>>

Deliver(w) == /\ queue # << >>
              /\ held' = [held EXCEPT ![w] = Append(@, Head(queue))]
              /\ queue' = Tail(queue)
              /\ UNCHANGED <<accepted, halted>>

QueueAgain == /\ Lossy
              /\ ~halted
              /\ queue # << >>
              /\ queue' = Append(queue, queue[Len(queue)])
              /\ UNCHANGED <<accepted, held, halted>>

Drop == /\ Lossy
        /\ queue # << >>
        /\ queue' = Tail(queue)
        /\ UNCHANGED <<accepted, held, halted>>

Halt == /\ ~halted
        /\ halted' = TRUE
        /\ \/ queue' = queue
           \/ queue # << >> /\ queue' = SubSeq(queue, 1, Len(queue) - 1)
        /\ UNCHANGED <<accepted, held>>

Next == \/ \E c \in Conns : Accept(c)
        \/ \E w \in Workers : Deliver(w)
        \/ QueueAgain \/ Drop \/ Halt

Spec == Init /\ [][Next]_vars
=============================================================================
