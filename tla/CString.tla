------------------------------ MODULE CString ------------------------------
(***************************************************************************)
(* The functions of the C library that the parsers of the repository use,  *)
(* on strings modelled as sequences of characters without the final zero.  *)
(* A position is an index, 1 for the first character.                      *)
(***************************************************************************)
EXTENDS Integers, Sequences, SequencesExt

CR == "\r"
LF == "\n"
SP == " "
CRLF == <<CR, LF>>

\* The position of the first character in, or not in, D at or behind from; 0 if
\* there is none.
FirstIn(s, from, D) == SelectInSubSeq(s, from, Len(s), LAMBDA c : c \in D)
FirstNotIn(s, from, D) == FirstIn(s, from, ToSet(s) \ D)

\* Does t begin at position i of s?
At(s, i, t) == /\ i \in 1..(Len(s) - Len(t) + 1)
               /\ SubSeq(s, i, i + Len(t) - 1) = t

\* The length of the prefix of s that consists of characters of D.
strspn(s, D) == LET i == FirstNotIn(s, 1, D)
                IN  IF i = 0 THEN Len(s) ELSE i - 1

\* Does t occur in s?
strstr(s, t) == \E i \in DOMAIN s : At(s, i, t)

\* strtok(): the next token of s, from its internal pointer save on; ok is
\* FALSE where the C function returns NULL.
strtok(s, save, D) ==
  LET start == FirstNotIn(s, save, D)
      stop == IF start = 0 THEN 0 ELSE FirstIn(s, start, D)
      end == IF stop = 0 THEN Len(s) ELSE stop - 1
  IN  [ok |-> start # 0,
       tok |-> IF start = 0 THEN << >> ELSE SubSeq(s, start, end),
       save |-> CASE start = 0 -> save [] stop = 0 -> Len(s) + 1 [] OTHER -> stop + 1]
=============================================================================
