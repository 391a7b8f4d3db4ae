----------------------------- MODULE MCStreamIO -----------------------------
(***************************************************************************)
(* Five bytes in three lines, the last one not ended.                      *)
(***************************************************************************)
EXTENDS StreamIO

Lines == {1, 4}
=============================================================================
