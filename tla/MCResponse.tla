----------------------------- MODULE MCResponse -----------------------------
(***************************************************************************)
(* Small instances of Response for TLC: files of no, one whole, and several *)
(* pieces, the last of them longer than the send buffer has room for.      *)
(***************************************************************************)
EXTENDS Response

FileSizes == {0, 2, 7}

\* Against a PARTSIZE of 8: the two methods, a short url, one that fills url[],
\* and one that is longer than both buffers together with any method.
RequestLengths == {3, 4, 8, 15}
=============================================================================
