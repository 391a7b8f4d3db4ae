----------------------------- MODULE MCMsgQueue -----------------------------
(***************************************************************************)
(* Two processes and three starts: each has a queue set of its own or one  *)
(* that the other has created, removed or half removed.                    *)
(***************************************************************************)
EXTENDS MsgQueue

AskedTypes == {-1}
=============================================================================
