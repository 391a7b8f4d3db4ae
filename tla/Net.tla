-------------------------------- MODULE Net --------------------------------
(***************************************************************************)
(* The clients and the kernel's TCP stack, as seen through the calls the   *)
(* server makes (accept, read, shutdown by the peer).  Everything here is  *)
(* external to the repository: it is the environment of the server.        *)
(*                                                                         *)
(* A connection is one element of Conns and carries one request of ReqLen  *)
(* units.  The last unit, position ReqLen, is the one that completes the   *)
(* blank line "\r\n\r\n" that analasy() looks for (inc/http_types.h:131).  *)
(* Bytes are identified by their position, so that a request whose bytes   *)
(* were read through two descriptors is told apart from a whole one.       *)
(***************************************************************************)
EXTENDS Integers, Sequences, FiniteSets

CONSTANTS Conns,        \* the client connections that may ever be opened
          LISTEN_NUM,   \* backlog of the listening socket (inc/sock.h)
          ReqLen        \* length of a request, in read units

ASSUME NetAssumption == /\ LISTEN_NUM \in Nat \ {0}
                        /\ ReqLen \in Nat \ {0}

VARIABLES listening,    \* is the listening socket open?
          backlog,      \* established connections waiting for accept()
          opened,       \* connections some client has opened
          sent,         \* sent[c]: units the client has written
          taken,        \* taken[c]: units some read() has consumed
          eof           \* eof[c]: the client has shut down its side

netVars == <<listening, backlog, opened, sent, taken, eof>>

avail(c) == sent[c] - taken[c]

NetTypeOK == /\ listening \in BOOLEAN
             /\ backlog \in Seq(Conns)
             /\ opened \in SUBSET Conns
             /\ sent \in [Conns -> 0..ReqLen]
             /\ taken \in [Conns -> 0..ReqLen]
             /\ eof \in [Conns -> BOOLEAN]

NetInit == /\ listening = FALSE
           /\ backlog = << >>
           /\ opened = {}
           /\ sent = [c \in Conns |-> 0]
           /\ taken = [c \in Conns |-> 0]
           /\ eof = [c \in Conns |-> FALSE]

\* A client completes the TCP handshake: there must be room in the backlog.
Connect(c) == /\ listening
              /\ c \notin opened
              /\ Len(backlog) < LISTEN_NUM
              /\ backlog' = Append(backlog, c)
              /\ opened' = opened \cup {c}
              /\ UNCHANGED <<listening, sent, taken, eof>>

\* The client sends the next unit of its request.
ClientSend(c) == /\ c \in opened
                 /\ ~eof[c]
                 /\ sent[c] < ReqLen
                 /\ sent' = [sent EXCEPT ![c] = @ + 1]
                 /\ UNCHANGED <<listening, backlog, opened, taken, eof>>

\* The client closes its sending side, at any moment, request sent or not.
ClientShutdown(c) == /\ c \in opened
                     /\ ~eof[c]
                     /\ eof' = [eof EXCEPT ![c] = TRUE]
                     /\ UNCHANGED <<listening, backlog, opened, sent, taken>>

ClientStep == \E c \in Conns : Connect(c) \/ ClientSend(c) \/ ClientShutdown(c)
=============================================================================
