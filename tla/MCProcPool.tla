----------------------------- MODULE MCProcPool -----------------------------
(***************************************************************************)
(* A pool of three children of which two can be replaced.                  *)
(***************************************************************************)
EXTENDS ProcPool

Unused == -1
=============================================================================
