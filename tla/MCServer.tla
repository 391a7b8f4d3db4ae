------------------------------ MODULE MCServer ------------------------------
(***************************************************************************)
(* Small instances of Server for TLC.                                      *)
(***************************************************************************)
EXTENDS Server, TLC

CONSTANTS c1, c2, w1, w2

\* Every client asks for an ordinary page.
AllPages == [c \in Conns |-> "page"]

WorkerSymmetry == Permutations(Workers)
BothSymmetry == Permutations(Workers) \cup Permutations(Conns)
=============================================================================
