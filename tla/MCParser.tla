------------------------------ MODULE MCParser ------------------------------
(***************************************************************************)
(* Requests for TLC: lines with and without each part the parsers look     *)
(* for, values with blanks and colons in them, and bodies that look like   *)
(* headers or are blank.                                                   *)
(***************************************************************************)
EXTENDS Parser

SomeRequestLines ==
  { <<"G", " ", "/", " ", "H">>,
    <<"G", " ", "/", ":", " ", "H", "1">>,
    <<" ", "G", " ", "/", " ", "H">>,
    <<"G", " ", "/">>,
    <<"G">> }

SomeHeaderLines ==
  { <<"a", ":", " ", "x">>,
    <<"b", "c", ":", " ", "y", ":", " ", "z">>,
    <<"d", ":", "w">>,
    <<"e", ":">>,
    <<"f", "g">>,
    <<" ", "h", ":", " ", "v">>,
    <<"k", ":", " ", "u", LF>> }

SomeBodies == { << >>, <<"q", ":", "p">>, <<CR, LF, "q">>, <<" ">> }
=============================================================================
