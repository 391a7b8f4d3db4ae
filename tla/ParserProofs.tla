---------------------------- MODULE ParserProofs ----------------------------
(***************************************************************************)
(* The two parsers, for any request lines, header lines and bodies, any    *)
(* number of header lines, and pieces of any length.                       *)
(*                                                                         *)
(* Page says where the lines are in the text; it also holds of what has    *)
(* arrived of the text, once the blank line has.  Held is what the two     *)
(* functions leave alone.  Spent is about any text: what was stored has    *)
(* been paid for in characters.  Parsing is where analasy() is in the      *)
(* lines of a well-formed request, and what it has stored; LinesRead is    *)
(* the same for readline_buf().                                            *)
(***************************************************************************)
EXTENDS Parser, CStringProofs

Segments(r) == [i \in DOMAIN LinesOf(r) |-> LinesOf(r)[i] \o CRLF]

\* Where the lines of a request end in its text.
Ends(r) == CHOOSE e : Laid(HeadText(r), Segments(r), e)

\* Line i of L is what t has behind e[i - 1], and ends in \r\n at e[i].
Page(t, L, e) ==
  /\ t \in Seq(Chars) /\ L \in Seq(Seq(Chars))
  /\ e \in [0..Len(L) -> Nat] /\ e[0] = 0
  /\ \A i \in 1..Len(L) :
       /\ e[i] = e[i - 1] + Len(L[i]) + 2 /\ e[i] <= Len(t)
       /\ t[e[i] - 1] = CR /\ t[e[i]] = LF
       /\ \A j \in 1..Len(L[i]) : t[j + e[i - 1]] = L[i][j]

----------------------------------------------------------------------------
(* The text of a request.                                                  *)

LEMMA CharsAre == /\ CR \in Chars /\ LF \in Chars
                  /\ RequestLines \cup HeaderLines \cup Bodies \subseteq Seq(Chars)
<1>1. CR \in Chars /\ LF \in Chars
  BY DEF Chars
<1>2. ASSUME NEW x \in RequestLines \cup HeaderLines \cup Bodies PROVE x \in Seq(Chars)
  <2>1. x \in Seq(ToSet(x))
    BY TextAssumption
  <2>2. ToSet(x) \subseteq Chars
    BY DEF Chars
  <2> QED  BY <2>1, <2>2, SeqMonotonic
<1> QED  BY <1>1, <1>2

\* The lines of a request: the request line, the headers, the blank line.
LEMMA LinesAre ==
  ASSUME NEW r \in Requests
  PROVE  /\ r.heads \in Seq(Seq(Chars)) /\ r.line \in Seq(Chars) /\ r.body \in Seq(Chars)
         /\ LinesOf(r) \in Seq(Seq(Chars)) /\ Len(LinesOf(r)) = Len(r.heads) + 2
         /\ LinesOf(r)[1] = r.line /\ LinesOf(r)[Len(r.heads) + 2] = << >>
         /\ \A i \in 1..Len(r.heads) : LinesOf(r)[i + 1] = r.heads[i]
<1> DEFINE C == Seq(Chars)
<1> DEFINE h == r.heads
<1>1. r.line \in C /\ r.body \in C /\ h \in BoundedSeq(HeaderLines, MaxHeaders)
  BY CharsAre DEF Requests
<1>2. h \in Seq(C)
  <2>1. PICK m \in 0..MaxHeaders : h \in [1..m -> HeaderLines]
    BY <1>1 DEF BoundedSeq, SeqOf
  <2>2. m \in Nat /\ \A i \in 1..m : h[i] \in C
    BY <2>1, CharsAre, ParserAssumption
  <2>3. h \in [1..m -> C]
    BY <2>1, <2>2
  <2> QED  BY <2>2, <2>3
<1> DEFINE A == <<r.line>>
<1> DEFINE Z == << << >> >>
<1> DEFINE B == A \o h
<1>3. /\ A \in Seq(C) /\ Len(A) = 1 /\ A[1] = r.line /\ Len(h) \in Nat
      /\ Z \in Seq(C) /\ Len(Z) = 1 /\ Z[1] = << >>
  <2>1. << >> \in C
    OBVIOUS
  <2> HIDE DEF C
  <2> QED  BY <1>1, <1>2, <2>1
<1>4. LinesOf(r) = B \o Z
  BY DEF LinesOf
<1> HIDE DEF A, Z, C, h
<1>5. B \in Seq(C) /\ Joined(B, A, h)
  BY <1>2, <1>3, ConcatAt
<1> HIDE DEF B
<1>6. /\ Len(B) = Len(h) + 1 /\ B[1] = r.line
      /\ \A i \in 1..Len(h) : B[i + 1] = h[i]
  BY <1>3, <1>5 DEF Joined
<1>7. LinesOf(r) \in Seq(C) /\ Joined(LinesOf(r), B, Z)
  BY <1>3, <1>4, <1>5, ConcatAt
<1>8. /\ Len(LinesOf(r)) = Len(h) + 2
      /\ LinesOf(r)[1] = r.line /\ LinesOf(r)[Len(h) + 2] = << >>
  <2>1. 1 \in 1..Len(B) /\ 1 \in 1..Len(Z) /\ 1 + Len(B) = Len(h) + 2
    BY <1>3, <1>6
  <2>2. Len(LinesOf(r)) = Len(B) + 1 /\ LinesOf(r)[1] = B[1] /\ LinesOf(r)[1 + Len(B)] = << >>
    BY <1>3, <1>7, <2>1 DEF Joined
  <2> QED  BY <1>3, <1>6, <2>1, <2>2
<1>9. \A i \in 1..Len(h) : LinesOf(r)[i + 1] = h[i]
  <2>1. \A i \in 1..Len(h) : i + 1 \in 1..Len(B)
    BY <1>3, <1>6
  <2> QED  BY <1>6, <1>7, <2>1 DEF Joined
<1> QED  BY <1>1, <1>2, <1>7, <1>8, <1>9 DEF C, h

\* A line with its \r\n.
LEMMA SegmentIs ==
  ASSUME NEW s \in Seq(Chars)
  PROVE  /\ s \o CRLF \in Seq(Chars) /\ Len(s \o CRLF) = Len(s) + 2 /\ Len(s) \in Nat
         /\ (s \o CRLF)[Len(s) + 1] = CR /\ (s \o CRLF)[Len(s) + 2] = LF
         /\ \A j \in 1..Len(s) : (s \o CRLF)[j] = s[j]
<1>1. /\ CRLF \in Seq(Chars) /\ Len(CRLF) = 2 /\ CRLF[1] = CR /\ CRLF[2] = LF
      /\ Len(s) \in Nat
  BY CharsAre DEF CRLF
<1> DEFINE z == s \o CRLF
<1>2. z \in Seq(Chars) /\ Joined(z, s, CRLF)
  BY <1>1, ConcatAt
<1> HIDE DEF z
<1>3. /\ Len(z) = Len(s) + 2 /\ \A j \in 1..Len(s) : z[j] = s[j]
      /\ z[1 + Len(s)] = CRLF[1] /\ z[2 + Len(s)] = CRLF[2]
  BY <1>1, <1>2 DEF Joined
<1>4. 1 + Len(s) = Len(s) + 1 /\ 2 + Len(s) = Len(s) + 2
  BY <1>1
<1>5. z \in Seq(Chars) /\ Len(z) = Len(s) + 2 /\ z[Len(s) + 1] = CR /\ z[Len(s) + 2] = LF
      /\ \A j \in 1..Len(s) : z[j] = s[j]
  BY <1>1, <1>2, <1>3, <1>4
<1> QED  BY <1>1, <1>5 DEF z

LEMMA HeadIs ==
  ASSUME NEW r \in Requests
  PROVE  /\ Page(HeadText(r), LinesOf(r), Ends(r))
         /\ Ends(r)[Len(LinesOf(r))] = Len(HeadText(r))
         /\ \A p \in 1..Len(HeadText(r)) : \E i \in 1..Len(LinesOf(r)) :
              p - Ends(r)[i - 1] \in 1..(Len(LinesOf(r)[i]) + 2)
         /\ \A i, j \in 0..Len(LinesOf(r)) : i <= j => Ends(r)[i] <= Ends(r)[j]
<1> DEFINE L == LinesOf(r)
<1> DEFINE s == Segments(r)
<1> DEFINE t == HeadText(r)
<1> DEFINE e == Ends(r)
<1>1. L \in Seq(Seq(Chars)) /\ Len(L) \in Nat /\ DOMAIN L = 1..Len(L)
  BY LinesAre
<1>2. \A i \in 1..Len(L) : L[i] \in Seq(Chars)
  BY <1>1
<1>3. s \in Seq(Seq(Chars)) /\ Len(s) = Len(L) /\ \A i \in 1..Len(L) : s[i] = L[i] \o CRLF
  <2>1. s = [i \in 1..Len(L) |-> L[i] \o CRLF]
    BY <1>1 DEF Segments
  <2>2. \A i \in 1..Len(L) : L[i] \o CRLF \in Seq(Chars)
    BY <1>2, SegmentIs
  <2> HIDE DEF L, s
  <2>3. s \in [1..Len(L) -> Seq(Chars)]
    BY <2>1, <2>2
  <2> QED  BY <1>1, <2>1, <2>3
<1>4. t = FlattenSeq(s)
  BY DEF HeadText, Segments
<1> HIDE DEF s, L, t
<1>5. t \in Seq(Chars) /\ Laid(t, s, e)
  <2>1. t \in Seq(Chars) /\ \E x : Laid(t, s, x)
    BY <1>3, <1>4, FlattenLaid
  <2> QED  BY <2>1 DEF Ends, s, t
<1> HIDE DEF e
<1>6. /\ e \in [0..Len(L) -> Nat] /\ e[0] = 0 /\ e[Len(L)] = Len(t)
      /\ \A i, j \in 0..Len(L) : i <= j => e[i] <= e[j]
  BY <1>3, <1>5 DEF Laid
<1>7. ASSUME NEW i \in 1..Len(L)
      PROVE  /\ e[i] = e[i - 1] + Len(L[i]) + 2 /\ e[i] <= Len(t)
             /\ t[e[i] - 1] = CR /\ t[e[i]] = LF
             /\ \A j \in 1..Len(L[i]) : t[j + e[i - 1]] = L[i][j]
             /\ Len(s[i]) = Len(L[i]) + 2
  <2>1. i - 1 \in 0..Len(L) /\ i \in 0..Len(L) /\ Len(L) \in 0..Len(L) /\ i <= Len(L)
    BY <1>1
  <2>2. e[i - 1] \in Nat /\ e[i] \in Nat /\ e[i] <= Len(t)
    BY <1>6, <2>1
  <2> DEFINE n == Len(L[i])
  <2>3. /\ Len(s[i]) = n + 2 /\ n \in Nat
        /\ s[i][n + 1] = CR /\ s[i][n + 2] = LF
        /\ \A j \in 1..n : s[i][j] = L[i][j]
    <3>1. L[i] \in Seq(Chars) /\ s[i] = L[i] \o CRLF
      BY <1>2, <1>3
    <3>2. /\ Len(L[i] \o CRLF) = n + 2 /\ n \in Nat
          /\ (L[i] \o CRLF)[n + 1] = CR /\ (L[i] \o CRLF)[n + 2] = LF
          /\ \A j \in 1..n : (L[i] \o CRLF)[j] = L[i][j]
      BY <3>1, SegmentIs
    <3> HIDE DEF n
    <3> QED  BY <3>1, <3>2
  <2>4. /\ e[i] = e[i - 1] + Len(s[i])
        /\ \A j \in 1..Len(s[i]) : t[j + e[i - 1]] = s[i][j]
    BY <1>3, <1>5 DEF Laid
  <2> HIDE DEF n
  <2>5. /\ n + 1 \in 1..Len(s[i]) /\ n + 2 \in 1..Len(s[i])
        /\ \A j \in 1..n : j \in 1..Len(s[i])
    BY <2>3
  <2>6. /\ e[i] = e[i - 1] + n + 2 /\ (n + 1) + e[i - 1] = e[i] - 1
        /\ (n + 2) + e[i - 1] = e[i]
    <3>1. e[i] = e[i - 1] + (n + 2)
      BY <2>3, <2>4, Zenon
    <3>2. n \in Nat /\ e[i - 1] \in Nat
      BY <2>2, <2>3
    <3> QED  BY <3>1, <3>2
  <2>7. t[(n + 1) + e[i - 1]] = CR /\ t[(n + 2) + e[i - 1]] = LF
    BY <2>3, <2>4, <2>5
  <2>8. \A j \in 1..n : t[j + e[i - 1]] = L[i][j]
    BY <2>3, <2>4, <2>5
  <2> QED  BY <2>2, <2>3, <2>6, <2>7, <2>8 DEF n
<1>8. Page(t, L, e)
  BY <1>1, <1>5, <1>6, <1>7 DEF Page
<1>9. ASSUME NEW p \in 1..Len(t)
      PROVE  \E i \in 1..Len(L) : p - e[i - 1] \in 1..(Len(L[i]) + 2)
  <2>1. Len(t) \in Nat
    BY <1>5
  <2>2. PICK i \in 1..Len(s) : p - e[i - 1] \in 1..Len(s[i])
    BY <1>3, <1>5, <2>1, Located
  <2> QED  BY <1>3, <1>7, <2>2
<1> QED  BY <1>6, <1>8, <1>9 DEF L, t, e

LEMMA InsideLine ==
  ASSUME NEW m \in Nat, NEW a \in Nat, NEW n \in Nat, NEW l \in Nat, m = a + n + 2, m <= l
  PROVE  m \in 1..l /\ m - 1 \in 1..l /\ \A j \in 1..n : j + a \in 1..l
OBVIOUS

LEMMA PageExtends ==
  ASSUME NEW t, NEW L, NEW e, Page(t, L, e),
         NEW u \in Seq(Chars), Len(t) <= Len(u), \A i \in 1..Len(t) : u[i] = t[i]
  PROVE  Page(u, L, e)
<1>1. Len(t) \in Nat /\ Len(u) \in Nat /\ Len(L) \in Nat
  BY DEF Page
<1>2. ASSUME NEW i \in 1..Len(L)
      PROVE  /\ e[i] = e[i - 1] + Len(L[i]) + 2 /\ e[i] <= Len(u)
             /\ u[e[i] - 1] = CR /\ u[e[i]] = LF
             /\ \A j \in 1..Len(L[i]) : u[j + e[i - 1]] = L[i][j]
  <2>1. /\ e[i] = e[i - 1] + Len(L[i]) + 2 /\ e[i] <= Len(t)
        /\ t[e[i] - 1] = CR /\ t[e[i]] = LF
        /\ \A j \in 1..Len(L[i]) : t[j + e[i - 1]] = L[i][j]
    BY DEF Page
  <2>2. i - 1 \in 0..Len(L) /\ i \in 0..Len(L)
    BY <1>1
  <2>3. e[i - 1] \in Nat /\ e[i] \in Nat /\ L[i] \in Seq(Chars)
    BY <2>2 DEF Page
  <2>4. Len(L[i]) \in Nat
    BY <2>3
  <2>5. /\ e[i] \in 1..Len(t) /\ e[i] - 1 \in 1..Len(t)
        /\ \A j \in 1..Len(L[i]) : j + e[i - 1] \in 1..Len(t)
    <3>1. e[i] = e[i - 1] + Len(L[i]) + 2 /\ e[i] <= Len(t)
      BY <2>1
    <3> QED  BY <1>1, <2>3, <2>4, <3>1, InsideLine
  <2>6. e[i] <= Len(u)
    BY <1>1, <2>1, <2>3
  <2> QED  BY <2>1, <2>5, <2>6
<1> QED  BY <1>2 DEF Page

TextOf(r) == HeadText(r) \o r.body

\* The lines are where they are in all of the text that has the blank line.
LEMMA TextIs ==
  ASSUME NEW r \in Requests
  PROVE  /\ TextOf(r) \in Seq(Chars) /\ Len(HeadText(r)) \in Nat
         /\ Len(TextOf(r)) = Len(HeadText(r)) + Len(r.body) /\ Len(r.body) \in Nat
         /\ \A i \in 1..Len(HeadText(r)) : TextOf(r)[i] = HeadText(r)[i]
         /\ Page(TextOf(r), LinesOf(r), Ends(r))
<1>1. HeadText(r) \in Seq(Chars) /\ r.body \in Seq(Chars) /\ Page(HeadText(r), LinesOf(r), Ends(r))
  BY HeadIs, LinesAre DEF Page
<1>2. TextOf(r) \in Seq(Chars) /\ Joined(TextOf(r), HeadText(r), r.body)
  BY <1>1, ConcatAt DEF TextOf
<1>3. /\ Len(HeadText(r)) \in Nat /\ Len(r.body) \in Nat
      /\ Len(TextOf(r)) = Len(HeadText(r)) + Len(r.body)
      /\ \A i \in 1..Len(HeadText(r)) : TextOf(r)[i] = HeadText(r)[i]
  BY <1>1, <1>2 DEF Joined
<1>4. Len(HeadText(r)) <= Len(TextOf(r))
  BY <1>3
<1> QED  BY <1>1, <1>2, <1>3, <1>4, PageExtends

LEMMA PieceIs ==
  ASSUME NEW r \in Requests, NEW a \in 0..Len(TextOf(r))
  PROVE  /\ SubSeq(TextOf(r), 1, a) \in Seq(Chars) /\ Len(SubSeq(TextOf(r), 1, a)) = a
         /\ \A i \in 1..a : SubSeq(TextOf(r), 1, a)[i] = TextOf(r)[i]
         /\ a >= Len(HeadText(r)) => Page(SubSeq(TextOf(r), 1, a), LinesOf(r), Ends(r))
<1> DEFINE t == TextOf(r)
<1> DEFINE u == SubSeq(t, 1, a)
<1> DEFINE h == HeadText(r)
<1>1. t \in Seq(Chars) /\ Len(t) \in Nat /\ Len(h) \in Nat /\ a \in Nat
  BY TextIs
<1> HIDE DEF t, h
<1>2. 1 <= a + 1 /\ a <= Len(t) /\ (a - 1) + 1 = a
  BY <1>1 DEF t
<1>3. /\ u \in Seq(Chars) /\ Len(u) = (a - 1) + 1
      /\ \A i \in 1..((a - 1) + 1) : u[i] = t[1 + i - 1]
  BY <1>1, <1>2, SubSeqIs
<1> HIDE DEF u
<1>4. Len(u) = a /\ \A i \in 1..a : u[i] = t[i]
  BY <1>2, <1>3
<1>5. ASSUME a >= Len(h) PROVE Page(u, LinesOf(r), Ends(r))
  <2>1. /\ Page(h, LinesOf(r), Ends(r)) /\ Len(h) <= Len(u)
        /\ \A i \in 1..Len(h) : i \in 1..a /\ t[i] = h[i]
    BY <1>1, <1>4, <1>5, HeadIs, TextIs DEF h, t
  <2> QED  BY <1>3, <1>4, <2>1, PageExtends
<1> QED  BY <1>3, <1>4, <1>5 DEF u, t, h

----------------------------------------------------------------------------
(* Tokens of a line.                                                       *)

\* The line s with its end is what t has behind b.
LineAt(t, b, s) == /\ t \in Seq(Chars) /\ s \in Seq(Chars) /\ b \in Nat
                   /\ b + Len(s) + 2 <= Len(t)
                   /\ t[b + Len(s) + 1] = CR /\ t[b + Len(s) + 2] = LF
                   /\ \A j \in 1..Len(s) : t[j + b] = s[j]

LEMMA PageLine ==
  ASSUME NEW t, NEW L, NEW e, Page(t, L, e), NEW i \in 1..Len(L)
  PROVE  /\ LineAt(t, e[i - 1], L[i]) /\ e[i - 1] \in Nat /\ e[i] \in Nat
         /\ e[i] = e[i - 1] + Len(L[i]) + 2 /\ t[e[i]] = LF
<1> DEFINE s == L[i]
<1> DEFINE b == e[i - 1]
<1> DEFINE m == e[i]
<1>1. /\ t \in Seq(Chars) /\ Len(t) \in Nat /\ Len(L) \in Nat /\ s \in Seq(Chars)
  BY DEF Page
<1>2. i - 1 \in 0..Len(L) /\ i \in 0..Len(L)
  BY <1>1
<1>3. b \in Nat /\ m \in Nat
  BY <1>2 DEF Page
<1>4. /\ m = b + Len(s) + 2 /\ m <= Len(t)
      /\ t[m - 1] = CR /\ t[m] = LF
      /\ \A j \in 1..Len(s) : t[j + b] = s[j]
  BY DEF Page
<1> HIDE DEF s, b, m
<1>5. Len(s) \in Nat /\ m - 1 = b + Len(s) + 1
  BY <1>1, <1>3, <1>4
<1>6. LineAt(t, b, s)
  <2>1. b + Len(s) + 2 <= Len(t) /\ t[b + Len(s) + 1] = CR /\ t[b + Len(s) + 2] = LF
    BY <1>4, <1>5
  <2> QED  BY <1>1, <1>3, <1>4, <2>1 DEF LineAt
<1> QED  BY <1>3, <1>4, <1>6 DEF s, b, m

LEMMA PageTypes ==
  ASSUME NEW t, NEW L, NEW e, Page(t, L, e)
  PROVE  /\ t \in Seq(Chars) /\ Len(t) \in Nat /\ L \in Seq(Seq(Chars)) /\ Len(L) \in Nat
         /\ DOMAIN L = 1..Len(L) /\ e[0] = 0
BY DEF Page

\* The same, seen from the end of the line before.
LEMMA PageNext ==
  ASSUME NEW t, NEW L, NEW e, Page(t, L, e), NEW i \in 0..(Len(L) - 1)
  PROVE  /\ LineAt(t, e[i], L[i + 1]) /\ e[i] \in Nat /\ e[i + 1] \in Nat
         /\ e[i + 1] = e[i] + Len(L[i + 1]) + 2 /\ t[e[i + 1]] = LF
         /\ L[i + 1] \in Seq(Chars) /\ Len(L[i + 1]) \in Nat
<1> DEFINE m == i + 1
<1>1. m \in 1..Len(L)
  BY PageTypes
<1>2. m - 1 = i
  BY PageTypes
<1> HIDE DEF m
<1>3. /\ LineAt(t, e[m - 1], L[m]) /\ e[m - 1] \in Nat /\ e[m] \in Nat
      /\ e[m] = e[m - 1] + Len(L[m]) + 2 /\ t[e[m]] = LF
  BY <1>1, PageLine
<1>4. L[m] \in Seq(Chars)
  BY <1>1, PageTypes
<1>5. Len(L[m]) \in Nat
  BY <1>4
<1>6. /\ LineAt(t, e[i], L[m]) /\ e[i] \in Nat /\ e[m] \in Nat
      /\ e[m] = e[i] + Len(L[m]) + 2 /\ t[e[m]] = LF
      /\ L[m] \in Seq(Chars) /\ Len(L[m]) \in Nat
  BY <1>3, <1>4, <1>5, <1>2
<1> QED  BY <1>6 DEF m

\* What strtok() is told to stop at.
Break == {CR, LF}
Blank == {SP}

\* The characters x to y of a line are no delimiters, and the next is one.
Between(s, x, y, D) ==
  /\ x \in 1..Len(s) /\ y \in x..Len(s)
  /\ \A j \in x..y : s[j] \notin D
  /\ IF y = Len(s) THEN CR \in D ELSE s[y + 1] \in D

\* strtok() from position x of a line, up to a delimiter behind y.
LEMMA LineToken ==
  ASSUME NEW t, NEW b, NEW s, LineAt(t, b, s), NEW D, NEW x, NEW y, Between(s, x, y, D)
  PROVE  strtok(t, b + x, D) = [ok |-> TRUE, tok |-> SubSeq(s, x, y), save |-> b + y + 2]
<1> USE DEF Between
<1>1. /\ t \in Seq(Chars) /\ Len(t) \in Nat /\ s \in Seq(Chars) /\ b \in Nat
      /\ Len(s) \in Nat /\ b + Len(s) + 2 <= Len(t)
  BY DEF LineAt
<1>4. t[b + Len(s) + 1] = CR /\ \A j \in 1..Len(s) : t[j + b] = s[j]
  BY DEF LineAt
<1>6. (b + y) + 1 \in 1..Len(t) /\ b + x \in 1..Len(t) /\ b + x < (b + y) + 1
  BY <1>1
<1>7. ASSUME NEW j \in x..y PROVE t[j + b] \notin D
  <2>1. j \in 1..Len(s)
    BY <1>1
  <2> QED  BY <1>4, <1>7, <2>1
<1>8. \A k \in (b + x)..Len(t) : k < (b + y) + 1 => t[k] \notin D
  <2> SUFFICES ASSUME NEW k \in (b + x)..Len(t), k < (b + y) + 1 PROVE t[k] \notin D
    OBVIOUS
  <2>1. k - b \in x..y /\ (k - b) + b = k
    BY <1>1
  <2> QED  BY <1>7, <2>1
<1>9. t[b + x] \notin D
  <2>1. x \in x..y /\ x + b = b + x
    BY <1>1
  <2> QED  BY <1>7, <2>1
<1>10. t[(b + y) + 1] \in D
  <2>1. CASE y = Len(s)
    <3>1. (b + y) + 1 = b + Len(s) + 1
      BY <1>1, <2>1
    <3> QED  BY <1>4, <2>1, <3>1
  <2>2. CASE y # Len(s)
    <3>1. y + 1 \in 1..Len(s) /\ (y + 1) + b = (b + y) + 1
      BY <1>1, <2>2
    <3>2. t[(y + 1) + b] = s[y + 1]
      BY <1>4, <3>1
    <3> QED  BY <2>2, <3>1, <3>2
  <2> QED  BY <2>1, <2>2
<1>11. strtok(t, b + x, D) = [ok |-> TRUE, tok |-> SubSeq(t, b + x, ((b + y) + 1) - 1),
                              save |-> ((b + y) + 1) + 1]
  BY <1>1, <1>6, <1>8, <1>9, <1>10, TokenIs
<1>12. ((b + y) + 1) - 1 = b + y /\ ((b + y) + 1) + 1 = b + y + 2
  BY <1>1
<1>13. SubSeq(t, b + x, b + y) = SubSeq(s, x, y)
  <2>2. /\ x \in Nat \ {0} /\ y \in Nat /\ x <= y + 1 /\ y <= Len(s) /\ b + y <= Len(t)
        /\ \A j \in x..y : j \in 1..Len(s)
    BY <1>1
  <2>3. \A j \in x..y : t[j + b] = s[j]
    BY <1>4, <2>2
  <2> QED  BY <1>1, <2>2, <2>3, SubSeqShift
<1> QED  BY <1>11, <1>12, <1>13

\* The two blanks of a good request line, and its words.
TwoBlanks(s, a, b) ==
  /\ a \in 2..Len(s) /\ b \in (a + 2)..(Len(s) - 1)
  /\ s[a] = SP /\ s[b] = SP
  /\ \A j \in 1..(a - 1) : s[j] # SP
  /\ \A j \in (a + 1)..(b - 1) : s[j] # SP
  /\ Words(s) = <<SubSeq(s, 1, a - 1), SubSeq(s, a + 1, b - 1), SubSeq(s, b + 1, Len(s))>>

BlankA(s) == FirstIn(s, 1, {SP})
BlankB(s) == FirstIn(s, BlankA(s) + 1, {SP})

LEMMA WordsAre ==
  ASSUME NEW s \in Seq(Chars), GoodLine(s)
  PROVE  TwoBlanks(s, BlankA(s), BlankB(s))
<1> DEFINE a == BlankA(s)
<1> DEFINE b == BlankB(s)
<1>1. Len(s) \in Nat
  OBVIOUS
<1>2. Words(s) = <<SubSeq(s, 1, a - 1), SubSeq(s, a + 1, b - 1), SubSeq(s, b + 1, Len(s))>>
  BY DEF Words, BlankA, BlankB
<1>3. \/ a = 0
      \/ a \in 1..Len(s) /\ s[a] \in {SP} /\ \A j \in 1..(a - 1) : s[j] \notin {SP}
  <2>1. 1 \in Nat \ {0}
    OBVIOUS
  <2> QED  BY <2>1, FirstInSpec DEF BlankA
<1>4. a + 1 \in Nat \ {0} => \/ b = 0
                             \/ /\ b \in (a + 1)..Len(s) /\ s[b] \in {SP}
                                /\ \A j \in (a + 1)..(b - 1) : s[j] \notin {SP}
  BY FirstInSpec DEF BlankB
<1> HIDE DEF a, b
<1>5. /\ SubSeq(s, 1, a - 1) # << >> /\ SubSeq(s, a + 1, b - 1) # << >>
      /\ SubSeq(s, b + 1, Len(s)) # << >>
  <2>1. Words(s)[1] # << >> /\ Words(s)[2] # << >> /\ Words(s)[3] # << >>
    BY DEF GoodLine
  <2> QED  BY <1>2, <2>1
<1>6. a # 0 /\ a # 1
  <2>1. 0 - 1 < 1 /\ 1 - 1 < 1 /\ 0 - 1 \in Int /\ 1 - 1 \in Int
    OBVIOUS
  <2>2. SubSeq(s, 1, 0 - 1) = << >> /\ SubSeq(s, 1, 1 - 1) = << >>
    BY <2>1, SubSeqEmpty
  <2> QED  BY <1>5, <2>2
<1>7. a \in 2..Len(s) /\ s[a] = SP /\ \A j \in 1..(a - 1) : s[j] # SP
  BY <1>1, <1>3, <1>6
<1>8. b # 0 /\ b # a + 1 /\ b # Len(s)
  <2>1. ASSUME b = 0 \/ b = a + 1 PROVE FALSE
    <3>1. b - 1 \in Int /\ a + 1 \in Int /\ b - 1 < a + 1
      BY <1>7, <2>1
    <3>2. SubSeq(s, a + 1, b - 1) = << >>
      BY <3>1, SubSeqEmpty
    <3> QED  BY <1>5, <3>2
  <2>2. ASSUME b = Len(s) PROVE FALSE
    <3>1. b + 1 \in Int /\ Len(s) \in Int /\ Len(s) < b + 1
      BY <1>1, <2>2
    <3>2. SubSeq(s, b + 1, Len(s)) = << >>
      BY <3>1, SubSeqEmpty
    <3> QED  BY <1>5, <3>2
  <2> QED  BY <2>1, <2>2
<1>9. b \in (a + 2)..(Len(s) - 1) /\ s[b] = SP /\ \A j \in (a + 1)..(b - 1) : s[j] # SP
  BY <1>1, <1>4, <1>7, <1>8
<1>10. TwoBlanks(s, a, b)
  BY <1>2, <1>7, <1>9 DEF TwoBlanks
<1> QED  BY <1>10 DEF a, b

LEMMA NoBreaksIs ==
  ASSUME NEW s \in Seq(Chars), NoBreaks(s), NEW j \in 1..Len(s)
  PROVE  s[j] # CR /\ s[j] # LF
<1>1. j \in DOMAIN s
  OBVIOUS
<1>2. s[j] \in ToSet(s)
  BY <1>1 DEF ToSet
<1> QED  BY <1>2 DEF NoBreaks

\* The three tokens of the request line.
\* The token w, and the search goes on at q.
Gives(k, w, q) == k.ok /\ k.tok = w /\ k.save = q

\* Where the words begin that s has behind z, and where it ends.
Begins(z, s, a, b, p, q, u, v) ==
  p = z + 1 /\ q = z + (a + 1) /\ u = z + (b + 1) /\ v = z + (Len(s) + 2)

LEMMA RequestLineTokens ==
  ASSUME NEW t, NEW z, NEW s, LineAt(t, z, s), NoBreaks(s), NEW a, NEW b, TwoBlanks(s, a, b),
         NEW p, NEW q, NEW u, NEW v, Begins(z, s, a, b, p, q, u, v)
  PROVE  /\ Gives(strtok(t, p, Blank), Words(s)[1], q)
         /\ Gives(strtok(t, q, Blank), Words(s)[2], u)
         /\ Gives(strtok(t, u, Break), Words(s)[3], v)
<1>1. s \in Seq(Chars) /\ Len(s) \in Nat /\ z \in Nat
  BY DEF LineAt
<1>2. /\ a \in 2..Len(s) /\ b \in (a + 2)..(Len(s) - 1)
      /\ s[a] = SP /\ s[b] = SP
      /\ \A j \in 1..(a - 1) : s[j] # SP
      /\ \A j \in (a + 1)..(b - 1) : s[j] # SP
  BY DEF TwoBlanks
<1>3. /\ Words(s)[1] = SubSeq(s, 1, a - 1) /\ Words(s)[2] = SubSeq(s, a + 1, b - 1)
      /\ Words(s)[3] = SubSeq(s, b + 1, Len(s))
  BY DEF TwoBlanks
<1>4. a \in 2..Len(s) /\ b \in (a + 2)..(Len(s) - 1)
  BY <1>2
<1>5. /\ 1 \in 1..Len(s) /\ a - 1 \in 1..Len(s) /\ a - 1 # Len(s) /\ (a - 1) + 1 = a
      /\ a + 1 \in 1..Len(s) /\ b - 1 \in (a + 1)..Len(s) /\ b - 1 # Len(s) /\ (b - 1) + 1 = b
      /\ b + 1 \in 1..Len(s) /\ Len(s) \in (b + 1)..Len(s)
  BY <1>1, <1>4
<1>6. /\ z + (a - 1) + 2 = z + (a + 1) /\ z + (b - 1) + 2 = z + (b + 1)
      /\ z + Len(s) + 2 = z + (Len(s) + 2)
  BY <1>1, <1>4
<1>7. strtok(t, z + 1, Blank)
        = [ok |-> TRUE, tok |-> SubSeq(s, 1, a - 1), save |-> z + (a - 1) + 2]
  <2>1. \A j \in 1..(a - 1) : s[j] \notin Blank
    BY <1>2 DEF Blank
  <2>2. IF a - 1 = Len(s) THEN CR \in Blank ELSE s[(a - 1) + 1] \in Blank
    BY <1>2, <1>5 DEF Blank
  <2>3. Between(s, 1, a - 1, Blank)
    BY <1>5, <2>1, <2>2 DEF Between
  <2> QED  BY <2>3, LineToken
<1>8. strtok(t, z + (a + 1), Blank)
        = [ok |-> TRUE, tok |-> SubSeq(s, a + 1, b - 1), save |-> z + (b - 1) + 2]
  <2>1. \A j \in (a + 1)..(b - 1) : s[j] \notin Blank
    BY <1>2 DEF Blank
  <2>2. IF b - 1 = Len(s) THEN CR \in Blank ELSE s[(b - 1) + 1] \in Blank
    BY <1>2, <1>5 DEF Blank
  <2>3. Between(s, a + 1, b - 1, Blank)
    BY <1>5, <2>1, <2>2 DEF Between
  <2> QED  BY <2>3, LineToken
<1>9. strtok(t, z + (b + 1), Break)
        = [ok |-> TRUE, tok |-> SubSeq(s, b + 1, Len(s)), save |-> z + Len(s) + 2]
  <2>1. ASSUME NEW j \in (b + 1)..Len(s) PROVE s[j] \notin Break
    <3>1. j \in 1..Len(s)
      BY <1>1, <1>4
    <3> QED  BY <1>1, <3>1, NoBreaksIs DEF Break
  <2>2. IF Len(s) = Len(s) THEN CR \in Break ELSE s[Len(s) + 1] \in Break
    BY DEF Break
  <2>3. Between(s, b + 1, Len(s), Break)
    BY <1>5, <2>1, <2>2 DEF Between
  <2> QED  BY <2>3, LineToken
<1>10. p = z + 1 /\ q = z + (a + 1) /\ u = z + (b + 1) /\ v = z + (Len(s) + 2)
  BY DEF Begins
<1>11. strtok(t, p, Blank) = [ok |-> TRUE, tok |-> Words(s)[1], save |-> q]
  BY <1>3, <1>6, <1>7, <1>10
<1>12. strtok(t, q, Blank) = [ok |-> TRUE, tok |-> Words(s)[2], save |-> u]
  BY <1>3, <1>6, <1>8, <1>10
<1>13. strtok(t, u, Break) = [ok |-> TRUE, tok |-> Words(s)[3], save |-> v]
  BY <1>3, <1>6, <1>9, <1>10
<1> QED  BY <1>11, <1>12, <1>13 DEF Gives

\* The colon of a good header.
ColonAt(s, c) ==
  /\ c \in 2..(Len(s) - 2)
  /\ s[c] = ":" /\ \A j \in 1..(c - 1) : s[j] # ":"
  /\ NameValue(s) = <<SubSeq(s, 1, c - 1), SubSeq(s, c + 2, Len(s))>>

LEMMA HeaderIs ==
  ASSUME NEW s \in Seq(Chars), GoodHeader(s)
  PROVE  ColonAt(s, Colon(s))
<1> DEFINE c == Colon(s)
<1>1. Len(s) \in Nat /\ 1 \in Nat \ {0}
  OBVIOUS
<1>2. \/ c = 0
      \/ c \in 1..Len(s) /\ s[c] \in {":"} /\ \A j \in 1..(c - 1) : s[j] \notin {":"}
  BY <1>1, FirstInSpec DEF Colon
<1>3. c > 1 /\ Len(s) > c + 1
  BY DEF GoodHeader
<1>4. NameValue(s) = <<SubSeq(s, 1, c - 1), SubSeq(s, c + 2, Len(s))>>
  BY DEF NameValue
<1> HIDE DEF c
<1>5. c \in 2..(Len(s) - 2) /\ s[c] = ":" /\ \A j \in 1..(c - 1) : s[j] # ":"
  BY <1>1, <1>2, <1>3
<1>6. ColonAt(s, c)
  BY <1>4, <1>5 DEF ColonAt
<1> QED  BY <1>6 DEF c

LEMMA CRLFIs == CRLF \in Seq(Chars) /\ Len(CRLF) = 2 /\ CRLF[1] = CR /\ CRLF[2] = LF
BY CharsAre DEF CRLF

\* Where there is a \r\n, and where there is a blank line.
LEMMA CrlfAt ==
  ASSUME NEW s \in Seq(Chars), NEW i \in Int
  PROVE  At(s, i, CRLF) <=> i \in 1..(Len(s) - 1) /\ s[i] = CR /\ s[i + 1] = LF
<1>1. At(s, i, CRLF) <=> /\ i \in 1..(Len(s) - Len(CRLF) + 1)
                         /\ \A j \in 1..Len(CRLF) : s[i + j - 1] = CRLF[j]
  <2>1. At(s, i, CRLF) <=> Reads(s, i, CRLF)
    BY CRLFIs, AtIs
  <2> QED  BY <2>1 DEF Reads
<1>2. Len(s) - Len(CRLF) + 1 = Len(s) - 1 /\ i + 1 - 1 = i /\ i + 2 - 1 = i + 1 /\ Len(s) \in Nat
  BY CRLFIs
<1>3. 1..Len(CRLF) = {1, 2}
  BY CRLFIs
<1>4. (\A j \in 1..Len(CRLF) : s[i + j - 1] = CRLF[j]) <=> s[i] = CR /\ s[i + 1] = LF
  <2>1. (\A j \in {1, 2} : s[i + j - 1] = CRLF[j])
          <=> s[i + 1 - 1] = CRLF[1] /\ s[i + 2 - 1] = CRLF[2]
    OBVIOUS
  <2> QED  BY <1>2, <1>3, <2>1, CRLFIs
<1> QED  BY <1>1, <1>2, <1>4

LEMMA BlankAt ==
  ASSUME NEW s \in Seq(Chars), NEW i \in Int
  PROVE  At(s, i, CRLF \o CRLF) <=> /\ i \in 1..(Len(s) - 3)
                                    /\ s[i] = CR /\ s[i + 1] = LF
                                    /\ s[i + 2] = CR /\ s[i + 3] = LF
<1> DEFINE q == CRLF \o CRLF
<1>1. /\ q \in Seq(Chars) /\ Len(q) = 4
      /\ q[1] = CR /\ q[2] = LF /\ q[3] = CR /\ q[4] = LF
  <2>1. /\ q \in Seq(Chars) /\ Len(q) = Len(CRLF) + 2
        /\ q[Len(CRLF) + 1] = CR /\ q[Len(CRLF) + 2] = LF
        /\ \A j \in 1..Len(CRLF) : q[j] = CRLF[j]
    BY CRLFIs, SegmentIs
  <2>2. Len(CRLF) + 1 = 3 /\ Len(CRLF) + 2 = 4 /\ 1 \in 1..Len(CRLF) /\ 2 \in 1..Len(CRLF)
    BY CRLFIs
  <2> HIDE DEF q
  <2> QED  BY <2>1, <2>2, CRLFIs
<1> HIDE DEF q
<1>2. At(s, i, q) <=> /\ i \in 1..(Len(s) - Len(q) + 1)
                      /\ \A j \in 1..Len(q) : s[i + j - 1] = q[j]
  <2>1. At(s, i, q) <=> Reads(s, i, q)
    BY <1>1, AtIs
  <2> QED  BY <2>1 DEF Reads
<1>3. /\ Len(s) - Len(q) + 1 = Len(s) - 3 /\ Len(s) \in Nat
      /\ i + 1 - 1 = i /\ i + 2 - 1 = i + 1 /\ i + 3 - 1 = i + 2 /\ i + 4 - 1 = i + 3
  BY <1>1
<1>4. 1..Len(q) = {1, 2, 3, 4}
  BY <1>1
<1>5. (\A j \in 1..Len(q) : s[i + j - 1] = q[j])
        <=> s[i] = CR /\ s[i + 1] = LF /\ s[i + 2] = CR /\ s[i + 3] = LF
  <2>1. (\A j \in {1, 2, 3, 4} : s[i + j - 1] = q[j])
          <=> /\ s[i + 1 - 1] = q[1] /\ s[i + 2 - 1] = q[2]
              /\ s[i + 3 - 1] = q[3] /\ s[i + 4 - 1] = q[4]
    OBVIOUS
  <2> QED  BY <1>1, <1>3, <1>4, <2>1
<1>6. At(s, i, q) <=> /\ i \in 1..(Len(s) - 3)
                      /\ s[i] = CR /\ s[i + 1] = LF /\ s[i + 2] = CR /\ s[i + 3] = LF
  BY <1>2, <1>3, <1>5
<1> QED  BY <1>6 DEF q

\* The token of a header begins with the \n of the line before.
LEMMA HeaderToken ==
  ASSUME NEW t, NEW b, NEW s, LineAt(t, b, s), b # 0, t[b] = LF, NoBreaks(s),
         NEW c, ColonAt(s, c)
  PROVE  LET k == strtok(t, b, {":"})
         IN  /\ k.ok /\ k.save = b + c + 1
             /\ Tail(k.tok) = NameValue(s)[1] /\ ~At(k.tok, 2, CRLF)
<1> DEFINE D == {":"}
<1>1. /\ t \in Seq(Chars) /\ Len(t) \in Nat /\ s \in Seq(Chars) /\ b \in Nat
      /\ Len(s) \in Nat /\ b + Len(s) + 2 <= Len(t)
      /\ \A j \in 1..Len(s) : t[j + b] = s[j]
  BY DEF LineAt
<1>2. /\ c \in 2..(Len(s) - 2)
      /\ s[c] = ":" /\ \A j \in 1..(c - 1) : s[j] # ":"
      /\ NameValue(s)[1] = SubSeq(s, 1, c - 1)
  BY DEF ColonAt
<1>3. c \in 2..(Len(s) - 2)
  BY <1>2
<1>4. /\ b \in 1..Len(t) /\ b + c \in 1..Len(t) /\ b < b + c /\ c \in 1..Len(s) /\ c + b = b + c
      /\ \A i \in b..Len(t) : i < b + c => i = b \/ (i - b \in 1..(c - 1) /\ (i - b) + b = i)
      /\ \A j \in 1..(c - 1) : j \in 1..Len(s)
  BY <1>1, <1>3
<1>5. t[b + c] \in D
  BY <1>1, <1>2, <1>4
<1>6. t[b] \notin D
  BY DEF LF
<1>7. \A i \in b..Len(t) : i < b + c => t[i] \notin D
  <2> SUFFICES ASSUME NEW i \in b..Len(t), i < b + c, i # b PROVE t[i] \notin D
    BY <1>6
  <2>1. i - b \in 1..(c - 1) /\ i - b \in 1..Len(s) /\ (i - b) + b = i
    BY <1>4
  <2>2. t[(i - b) + b] = s[i - b]
    BY <1>1, <2>1
  <2> QED  BY <1>2, <2>1, <2>2
<1> DEFINE k == strtok(t, b, D)
<1>8. k = [ok |-> TRUE, tok |-> SubSeq(t, b, (b + c) - 1), save |-> (b + c) + 1]
  <2> HIDE DEF D
  <2> QED  BY <1>1, <1>4, <1>5, <1>6, <1>7, TokenIs
<1>9. k.ok /\ k.tok = SubSeq(t, b, (b + c) - 1) /\ k.save = b + c + 1
  BY <1>8
<1> HIDE DEF k
<1>10. Tail(k.tok) = SubSeq(s, 1, c - 1)
  <2>1. (b + c) - 1 \in b..Len(t) /\ (b + c) - 1 = b + (c - 1)
    BY <1>1, <1>3
  <2>2. Tail(k.tok) = SubSeq(t, b + 1, (b + c) - 1)
    BY <1>1, <1>4, <1>9, <2>1, HeadTailOfSubSeq
  <2>3. /\ 1 \in Nat \ {0} /\ c - 1 \in Nat /\ 1 <= (c - 1) + 1
        /\ c - 1 <= Len(s) /\ b + (c - 1) <= Len(t)
    BY <1>1, <1>3
  <2>4. \A j \in 1..(c - 1) : t[j + b] = s[j]
    BY <1>1, <1>4
  <2>5. SubSeq(t, b + 1, b + (c - 1)) = SubSeq(s, 1, c - 1)
    BY <1>1, <2>3, <2>4, SubSeqShift
  <2> QED  BY <2>1, <2>2, <2>5
<1>11. ~At(k.tok, 2, CRLF)
  <2> SUFFICES ASSUME At(k.tok, 2, CRLF) PROVE FALSE
    OBVIOUS
  <2> DEFINE m == (b + c) - 1
  <2>1. b \in Nat \ {0} /\ m \in Nat /\ m <= Len(t) /\ b <= m + 1 /\ m - b + 1 = c
    BY <1>1, <1>3
  <2>2. k.tok = SubSeq(t, b, m)
    BY <1>9
  <2> HIDE DEF m
  <2>3. k.tok \in Seq(Chars) /\ \A i \in 1..(m - b + 1) : k.tok[i] = t[b + i - 1]
    BY <1>1, <2>1, <2>2, SubSeqIs
  <2>4. 2 \in 1..(m - b + 1) /\ b + 2 - 1 = 1 + b /\ 1 \in 1..Len(s) /\ 2 \in Int
    BY <1>1, <1>3, <2>1
  <2>5. k.tok[2] = t[1 + b]
    BY <2>3, <2>4
  <2>6. k.tok[2] = CR
    BY <2>3, <2>4, CrlfAt
  <2>7. t[1 + b] = s[1] /\ s[1] # CR
    BY <1>1, <2>4, NoBreaksIs
  <2> QED  BY <2>5, <2>6, <2>7
<1> QED  BY <1>2, <1>9, <1>10, <1>11 DEF k

\* The token of its value begins with the blank behind the colon.
LEMMA ValueToken ==
  ASSUME NEW t, NEW b, NEW s, LineAt(t, b, s), NoBreaks(s), NEW c, ColonAt(s, c)
  PROVE  LET k == strtok(t, b + (c + 1), Break)
         IN  k.ok /\ k.save = b + Len(s) + 2 /\ Tail(k.tok) = NameValue(s)[2]
<1>1. s \in Seq(Chars) /\ Len(s) \in Nat /\ b \in Nat
  BY DEF LineAt
<1>2. c \in 2..(Len(s) - 2) /\ NameValue(s)[2] = SubSeq(s, c + 2, Len(s))
  BY DEF ColonAt
<1>3. /\ c + 1 \in 1..Len(s) /\ Len(s) \in (c + 1)..Len(s) /\ (c + 1) + 1 = c + 2
      /\ \A j \in (c + 1)..Len(s) : j \in 1..Len(s)
  BY <1>1, <1>2
<1>4. Between(s, c + 1, Len(s), Break)
  <2>1. \A j \in (c + 1)..Len(s) : s[j] \notin Break
    BY <1>1, <1>3, NoBreaksIs DEF Break
  <2> QED  BY <1>3, <2>1 DEF Between, Break
<1> DEFINE k == strtok(t, b + (c + 1), Break)
<1>5. k = [ok |-> TRUE, tok |-> SubSeq(s, c + 1, Len(s)), save |-> b + Len(s) + 2]
  BY <1>4, LineToken
<1>6. Tail(SubSeq(s, c + 1, Len(s))) = SubSeq(s, (c + 1) + 1, Len(s))
  BY <1>1, <1>3, HeadTailOfSubSeq
<1> HIDE DEF k
<1>7. k.ok /\ k.save = b + Len(s) + 2 /\ k.tok = SubSeq(s, c + 1, Len(s))
  BY <1>5
<1>8. Tail(k.tok) = NameValue(s)[2]
  BY <1>2, <1>3, <1>6, <1>7
<1> QED  BY <1>7, <1>8 DEF k

\* The token of the blank line begins with the \n of the line before as well.
LEMMA BlankToken ==
  ASSUME NEW t, NEW b, LineAt(t, b, << >>), b # 0, t[b] = LF
  PROVE  LET k == strtok(t, b, {":"}) IN k.ok /\ At(k.tok, 2, CRLF)
<1> DEFINE D == {":"}
<1> DEFINE k == strtok(t, b, D)
<1>1. /\ t \in Seq(Chars) /\ Len(t) \in Nat /\ b \in Nat /\ b + 2 <= Len(t)
      /\ t[b + 1] = CR /\ t[b + 2] = LF
  BY DEF LineAt
<1>2. b \in Nat \ {0} /\ b \in b..Len(t) /\ b + 1 \in b..Len(t) /\ b + 2 \in b..Len(t)
  BY <1>1
<1>3. t[b] \notin D /\ t[b + 1] \notin D /\ t[b + 2] \notin D
  BY <1>1 DEF LF, CR
<1> HIDE DEF D
<1>4. \/ ~k.ok /\ \A i \in b..Len(t) : t[i] \in D
      \/ k.ok /\ \E x, y \in Nat : TokenAt(t, b, D, k, x, y)
  BY <1>1, <1>2, StrtokSpec
<1> HIDE DEF k
<1>5. k.ok /\ \E x, y \in Nat : TokenAt(t, b, D, k, x, y)
  BY <1>2, <1>3, <1>4
<1>6. PICK x \in Nat, y \in Nat : TokenAt(t, b, D, k, x, y)
  BY <1>5
<1>7. /\ x \in b..Len(t) /\ y \in x..Len(t)
      /\ \A i \in b..(x - 1) : t[i] \in D
      /\ k.tok = SubSeq(t, x, y)
      /\ y < Len(t) => t[y + 1] \in D
  BY <1>6 DEF TokenAt
<1>8. x = b
  <2>1. x # b => b \in b..(x - 1)
    BY <1>1, <1>7
  <2> QED  BY <1>3, <1>7, <2>1
<1>9. y # b /\ y # b + 1
  <2>1. y = b => y < Len(t) /\ y + 1 = b + 1
    BY <1>1
  <2>2. y = b + 1 => y < Len(t) /\ y + 1 = b + 2
    BY <1>1
  <2> QED  BY <1>3, <1>7, <2>1, <2>2
<1>10. y >= b + 2 /\ y <= Len(t) /\ b <= y + 1
  BY <1>1, <1>7, <1>8, <1>9
<1>11. /\ k.tok \in Seq(Chars) /\ Len(k.tok) = y - b + 1
       /\ \A i \in 1..(y - b + 1) : k.tok[i] = t[b + i - 1]
  BY <1>1, <1>2, <1>7, <1>8, <1>10, SubSeqIs
<1>12. /\ 2 \in 1..(y - b + 1) /\ 3 \in 1..(y - b + 1) /\ b + 2 - 1 = b + 1 /\ b + 3 - 1 = b + 2
       /\ 2 \in 1..((y - b + 1) - 1) /\ 2 \in Int
  BY <1>1, <1>10
<1>13. k.tok[2] = CR /\ k.tok[3] = LF
  BY <1>1, <1>11, <1>12
<1>14. 2 \in 1..(Len(k.tok) - 1) /\ 2 + 1 = 3
  BY <1>11, <1>12
<1>15. At(k.tok, 2, CRLF)
  BY <1>11, <1>12, <1>13, <1>14, CrlfAt
<1> QED  BY <1>5, <1>15 DEF k, D

----------------------------------------------------------------------------
(* The blank line of a well-formed request.                                *)

Unbroken(r) == \A i \in DOMAIN LinesOf(r) : NoBreaks(LinesOf(r)[i])

LEMMA WellFormedIs ==
  ASSUME NEW r \in Requests, WellFormed(r)
  PROVE  /\ Unbroken(r)
         /\ TwoBlanks(r.line, BlankA(r.line), BlankB(r.line))
         /\ \A i \in 1..Len(r.heads) : ColonAt(r.heads[i], Colon(r.heads[i]))
         /\ \A i \in 1..(Len(LinesOf(r)) - 1) : Len(LinesOf(r)[i]) \in Nat \ {0}
<1> DEFINE h == r.heads
<1> DEFINE L == LinesOf(r)
<1>1. /\ h \in Seq(Seq(Chars)) /\ Len(h) \in Nat /\ r.line \in Seq(Chars)
      /\ DOMAIN h = 1..Len(h) /\ Len(L) = Len(h) + 2
      /\ L[1] = r.line /\ \A i \in 1..Len(h) : L[i + 1] = h[i]
  BY LinesAre
<1>2. Unbroken(r) /\ GoodLine(r.line) /\ \A i \in 1..Len(h) : GoodHeader(h[i])
  BY <1>1 DEF WellFormed, Unbroken
<1> HIDE DEF h, L
<1>3. TwoBlanks(r.line, BlankA(r.line), BlankB(r.line))
  BY <1>1, <1>2, WordsAre
<1>4. \A i \in 1..Len(h) : ColonAt(h[i], Colon(h[i]))
  <2>1. \A i \in 1..Len(h) : h[i] \in Seq(Chars)
    BY <1>1
  <2> QED  BY <1>2, <2>1, HeaderIs
<1>5. Len(r.line) \in Nat \ {0}
  <2>1. Len(r.line) \in Nat /\ BlankA(r.line) \in 2..Len(r.line)
    BY <1>1, <1>3 DEF TwoBlanks
  <2> QED  BY <2>1
<1>6. ASSUME NEW i \in 1..Len(h) PROVE Len(h[i]) \in Nat \ {0}
  <2>1. Len(h[i]) \in Nat /\ Colon(h[i]) \in 2..(Len(h[i]) - 2)
    BY <1>1, <1>4 DEF ColonAt
  <2> QED  BY <2>1
<1>7. ASSUME NEW i \in 1..(Len(L) - 1) PROVE Len(L[i]) \in Nat \ {0}
  <2>1. CASE i = 1
    BY <1>1, <1>5, <2>1
  <2>2. CASE i # 1
    <3>1. i - 1 \in 1..Len(h) /\ (i - 1) + 1 = i
      BY <1>1, <2>2
    <3>2. L[(i - 1) + 1] = h[i - 1]
      BY <1>1, <3>1
    <3> QED  BY <1>6, <3>1, <3>2
  <2> QED  BY <2>1, <2>2
<1> QED  BY <1>2, <1>3, <1>4, <1>7 DEF h, L

\* A \n is the end of a line.
LEMMA BreakIsEnd ==
  ASSUME NEW r \in Requests, Unbroken(r),
         NEW p \in 1..Len(HeadText(r)), HeadText(r)[p] = LF
  PROVE  \E k \in 1..Len(LinesOf(r)) : p = Ends(r)[k]
<1> DEFINE L == LinesOf(r)
<1> DEFINE e == Ends(r)
<1> DEFINE t == HeadText(r)
<1>1. /\ Page(t, L, e) /\ Len(L) \in Nat /\ L \in Seq(Seq(Chars)) /\ DOMAIN L = 1..Len(L)
      /\ t \in Seq(Chars)
  <2>1. Page(t, L, e)
    BY HeadIs
  <2> HIDE DEF t, L, e
  <2> QED  BY <2>1, PageTypes
<1>2. p \in Nat /\ Len(t) \in Nat
  BY <1>1
<1>3. PICK k \in 1..Len(L) : p - e[k - 1] \in 1..(Len(L[k]) + 2)
  BY HeadIs
<1>4. NoBreaks(L[k])
  BY <1>1 DEF Unbroken
<1> HIDE DEF L, e, t
<1> DEFINE b == e[k - 1]
<1> DEFINE s == L[k]
<1>5. LineAt(t, b, s) /\ b \in Nat /\ e[k] \in Nat /\ e[k] = b + Len(s) + 2
  BY <1>1, PageLine
<1>6. p - b \in 1..(Len(s) + 2) /\ NoBreaks(s) /\ t[p] = LF
  BY <1>3, <1>4 DEF t
<1> HIDE DEF b, s
<1>7. /\ s \in Seq(Chars) /\ Len(s) \in Nat
      /\ t[b + Len(s) + 1] = CR /\ \A j \in 1..Len(s) : t[j + b] = s[j]
  BY <1>5 DEF LineAt
<1>8. ~(p - b \in 1..Len(s))
  <2> SUFFICES ASSUME p - b \in 1..Len(s) PROVE FALSE
    OBVIOUS
  <2>1. (p - b) + b = p
    BY <1>2, <1>5
  <2>2. t[(p - b) + b] = s[p - b]
    BY <1>7
  <2>3. s[p - b] # LF
    BY <1>6, <1>7, NoBreaksIs
  <2> QED  BY <1>6, <2>1, <2>2, <2>3
<1>9. p # b + Len(s) + 1
  BY <1>6, <1>7 DEF CR, LF
<1>10. p = b + Len(s) + 2
  <2>1. b \in Nat /\ p - b \in 1..(Len(s) + 2) /\ Len(s) \in Nat
    BY <1>5, <1>6, <1>7
  <2> QED  BY <1>2, <1>8, <1>9, <2>1
<1>11. p = e[k]
  BY <1>5, <1>10
<1> QED  BY <1>11 DEF L, e

\* strstr() finds the blank line as soon as it is there, and nothing before it.
LEMMA BlankLineIs ==
  ASSUME NEW r \in Requests, WellFormed(r), NEW a \in 0..Len(TextOf(r))
  PROVE  strstr(SubSeq(TextOf(r), 1, a), CRLF \o CRLF) <=> a >= Len(HeadText(r))
<1> DEFINE L == LinesOf(r)
<1> DEFINE e == Ends(r)
<1> DEFINE h == HeadText(r)
<1> DEFINE u == SubSeq(TextOf(r), 1, a)
<1> DEFINE n == Len(L)
<1>1. /\ L \in Seq(Seq(Chars)) /\ n \in Nat /\ n >= 2 /\ L[n] = << >>
  <2>1. Len(r.heads) \in Nat /\ n = Len(r.heads) + 2
    BY LinesAre
  <2> HIDE DEF n
  <2> QED  BY <2>1, LinesAre
<1>2. /\ Page(h, L, e) /\ e[n] = Len(h) /\ h \in Seq(Chars) /\ Len(h) \in Nat
      /\ \A i, j \in 0..n : i <= j => e[i] <= e[j]
  <2>1. /\ Page(h, L, e) /\ e[n] = Len(h) /\ \A i, j \in 0..n : i <= j => e[i] <= e[j]
    BY HeadIs
  <2> HIDE DEF h, L, e, n
  <2> QED  BY <2>1, PageTypes
<1>3. /\ u \in Seq(Chars) /\ Len(u) = a /\ a \in Nat /\ DOMAIN u = 1..a
       /\ \A i \in 1..a : i <= Len(h) => u[i] = h[i]
  <2>1. /\ u \in Seq(Chars) /\ Len(u) = a /\ \A i \in 1..a : u[i] = TextOf(r)[i]
    BY PieceIs
  <2>2. Len(TextOf(r)) \in Nat /\ \A i \in 1..Len(h) : TextOf(r)[i] = h[i]
    BY TextIs
  <2>3. a \in Nat /\ \A i \in 1..a : i <= Len(h) => i \in 1..Len(h)
    BY <1>2, <2>2
  <2> HIDE DEF u
  <2>4. DOMAIN u = 1..a
    BY <2>1
  <2> QED  BY <2>1, <2>2, <2>3, <2>4
<1>4. strstr(u, CRLF \o CRLF) <=> \E i \in 1..a : /\ i \in 1..(a - 3)
                                                 /\ u[i] = CR /\ u[i + 1] = LF
                                                 /\ u[i + 2] = CR /\ u[i + 3] = LF
  <2> HIDE DEF u
  <2>1. strstr(u, CRLF \o CRLF) <=> \E i \in 1..a : At(u, i, CRLF \o CRLF)
    BY <1>3 DEF strstr
  <2>2. \A i \in 1..a : At(u, i, CRLF \o CRLF) <=> /\ i \in 1..(a - 3)
                                                   /\ u[i] = CR /\ u[i + 1] = LF
                                                   /\ u[i + 2] = CR /\ u[i + 3] = LF
    BY <1>3, BlankAt
  <2> QED  BY <2>1, <2>2
<1> HIDE DEF u, n, e, h, L
<1>5. /\ n \in 1..n /\ n - 1 \in 1..n /\ (n - 1) + 0 = n - 1
  BY <1>1
<1>6. /\ e[n - 1] \in Nat /\ e[n] \in Nat /\ e[n] = e[n - 1] + 2
  <2>1. e[n - 1] \in Nat /\ e[n] \in Nat /\ e[n] = e[n - 1] + Len(L[n]) + 2
    BY <1>2, <1>5, PageLine DEF n
  <2>2. Len(L[n]) = 0
    BY <1>1
  <2> QED  BY <2>1, <2>2
<1>7. ASSUME a >= Len(h) PROVE strstr(u, CRLF \o CRLF)
  <2>1. Page(u, L, e)
    BY <1>7, PieceIs DEF h, u, L, e
  <2>2. /\ u[e[n] - 1] = CR /\ u[e[n]] = LF
        /\ u[e[n - 1] - 1] = CR /\ u[e[n - 1]] = LF
    BY <1>5, <2>1 DEF Page, n
  <2>3. e[n - 1] >= 2
    <3> DEFINE m == n - 2
    <3>1. m \in 0..(Len(L) - 1) /\ m + 1 = n - 1
      BY <1>1 DEF n
    <3> HIDE DEF m
    <3>2. e[m] \in Nat /\ Len(L[m + 1]) \in Nat /\ e[m + 1] = e[m] + Len(L[m + 1]) + 2
      BY <1>2, <3>1, PageNext
    <3>3. e[m + 1] >= 2
      BY <3>2
    <3> QED  BY <3>1, <3>3
  <2> DEFINE i == e[n - 1] - 1
  <2>4. /\ i \in 1..a /\ i \in 1..(a - 3) /\ i + 1 = e[n - 1] /\ i + 2 = e[n] - 1 /\ i + 3 = e[n]
    BY <1>2, <1>3, <1>6, <1>7, <2>3
  <2>5. u[i] = CR /\ u[i + 1] = LF /\ u[i + 2] = CR /\ u[i + 3] = LF
    BY <2>2, <2>4
  <2> HIDE DEF i
  <2> QED  BY <1>4, <2>4, <2>5
<1>8. ASSUME strstr(u, CRLF \o CRLF), ~(a >= Len(h)) PROVE FALSE
  <2>1. PICK i \in 1..a : /\ i \in 1..(a - 3)
                          /\ u[i] = CR /\ u[i + 1] = LF
                          /\ u[i + 2] = CR /\ u[i + 3] = LF
    BY <1>4, <1>8
  <2>2. /\ i + 1 \in 1..a /\ i + 1 \in 1..Len(h) /\ i + 1 <= Len(h)
        /\ i + 2 \in 1..a /\ i + 2 <= Len(h) /\ i + 3 < Len(h)
    BY <1>2, <1>3, <1>8, <2>1
  <2>3. h[i + 1] = LF /\ h[i + 2] = CR
    BY <1>3, <2>1, <2>2
  <2>4. Unbroken(r)
    BY WellFormedIs
  <2>5. PICK k \in 1..n : i + 1 = e[k]
    BY <2>2, <2>3, <2>4, BreakIsEnd DEF h, n, e, L
  <2>6. k # n
    BY <1>2, <1>6, <2>2, <2>5
  <2>7. k + 1 \in 1..n /\ (k + 1) - 1 = k /\ k + 1 \in 0..n
    BY <1>1, <2>6
  <2> DEFINE s == L[k + 1]
  <2> DEFINE b == e[k]
  <2>8. LineAt(h, b, s) /\ b \in Nat /\ e[k + 1] \in Nat /\ e[k + 1] = b + Len(s) + 2
    <3>1. k \in 0..(Len(L) - 1)
      BY <1>1, <2>6 DEF n
    <3> QED  BY <1>2, <3>1, PageNext
  <2>9. NoBreaks(s)
    BY <1>1, <2>4, <2>7 DEF Unbroken, L, n
  <2>10. CASE k + 1 = n
    <3>1. e[n] = b + 2
      BY <1>6, <2>7, <2>10
    <3> QED  BY <1>2, <1>6, <2>1, <2>2, <2>5, <2>8, <3>1
  <2>11. CASE k + 1 # n
    <3>1. k + 1 \in 1..(n - 1)
      BY <1>1, <2>7, <2>11
    <3>2. Len(s) \in Nat \ {0}
      BY <3>1, WellFormedIs DEF L, n
    <3> HIDE DEF s, b
    <3>3. 1 \in 1..Len(s) /\ s \in Seq(Chars)
      BY <2>8, <3>2 DEF LineAt
    <3>4. h[1 + b] = s[1]
      BY <2>8, <3>3 DEF LineAt
    <3>5. s[1] # CR
      BY <2>9, <3>3, NoBreaksIs
    <3>6. 1 + b = i + 2
      BY <2>1, <2>5, <2>8 DEF b
    <3> QED  BY <2>3, <3>4, <3>5, <3>6
  <2> QED  BY <2>10, <2>11
<1>9. strstr(u, CRLF \o CRLF) <=> a >= Len(h)
  BY <1>7, <1>8
<1> QED  BY <1>9 DEF u, h

----------------------------------------------------------------------------
(* The steps of analasy().                                                 *)

Steps == {"method", "url", "version", "header", "value"}

LEMMA DelimsAre ==
  /\ DOMAIN Delims = Steps
  /\ \A p \in Steps : CR \in Delims[p] <=> LF \in Delims[p]
  /\ Delims["method"] = Blank /\ Delims["url"] = Blank /\ Delims["version"] = Break
  /\ Delims["header"] = {":"} /\ Delims["value"] = Break
<1>1. DOMAIN Delims = Steps
  BY DEF Delims, Steps
<1>2. /\ Delims["method"] = Blank /\ Delims["url"] = Blank /\ Delims["version"] = Break
      /\ Delims["header"] = {":"} /\ Delims["value"] = Break
  BY DEF Delims, Break, Blank
<1>3. /\ CR \notin Blank /\ LF \notin Blank /\ CR \notin {":"} /\ LF \notin {":"}
      /\ CR \in Break /\ LF \in Break
  BY DEF CR, LF, SP, Break, Blank
<1>4. \A p \in Steps : CR \in Delims[p] <=> LF \in Delims[p]
  BY <1>2, <1>3 DEF Steps
<1> QED  BY <1>1, <1>2, <1>4

\* What the copy has of a text of which a part has arrived.
LEMMA CopiedIs ==
  ASSUME arrived \in Nat
  PROVE  /\ copied \in Nat /\ copied <= arrived /\ copied + 1 <= BUFSIZE
         /\ \A n \in Nat : copied >= n <=> n < BUFSIZE /\ arrived >= n
BY ParserAssumption DEF copied

LEMMA BufIs ==
  ASSUME TypeOK
  PROVE  /\ Text = TextOf(req) /\ Text \in Seq(Chars) /\ Len(Text) \in Nat
         /\ arrived \in Nat /\ arrived <= Len(Text) /\ save \in Nat \ {0} /\ req \in Requests
         /\ copied \in 0..Len(TextOf(req)) /\ copied \in Nat /\ copied <= arrived
         /\ buf = SubSeq(TextOf(req), 1, copied) /\ buf \in Seq(Chars) /\ Len(buf) = copied
<1>1. req \in Requests /\ Text = TextOf(req)
  BY DEF TypeOK, Text, TextOf
<1>2. TextOf(req) \in Seq(Chars)
  BY <1>1, TextIs
<1>3. Len(TextOf(req)) \in Nat
  BY <1>2
<1>4. arrived \in 0..Len(TextOf(req)) /\ save \in 1..(Len(TextOf(req)) + 2)
  BY <1>1 DEF TypeOK
<1>5. arrived \in Nat /\ arrived <= Len(TextOf(req)) /\ save \in Nat \ {0}
  BY <1>3, <1>4
<1>6. buf = SubSeq(TextOf(req), 1, copied)
  BY <1>1 DEF buf
<1>7. copied \in Nat /\ copied <= arrived
  BY <1>5, CopiedIs
<1>8. copied \in 0..Len(TextOf(req))
  BY <1>3, <1>5, <1>7
<1>9. buf \in Seq(Chars) /\ Len(buf) = copied
  BY <1>1, <1>6, <1>8, PieceIs
<1> QED  BY <1>1, <1>2, <1>3, <1>5, <1>6, <1>7, <1>8, <1>9

\* What a step knows of its token.
TokenTaken(t, p, k, s) ==
  /\ k.tok \in Seq(Chars) /\ k.tok # << >> /\ Tail(k.tok) \in Seq(Chars)
  /\ k.save \in (p + 1)..(Len(t) + 1)
  /\ \E x, y \in Nat : TokenAt(t, p, Delims[s], k, x, y)

LEMMA NextTokenIs ==
  ASSUME TypeOK, pc \in Steps, NextToken.ok
  PROVE  TokenTaken(buf, save, NextToken, pc)
<1> DEFINE t == buf
<1> DEFINE k == NextToken
<1> DEFINE D == Delims[pc]
<1>1. t \in Seq(Chars) /\ Len(t) \in Nat /\ save \in Nat \ {0}
  BY BufIs
<1>2. k = strtok(t, save, D)
  BY DEF NextToken
<1> HIDE DEF t, k, D
<1>3. k.ok
  BY DEF k
<1>4. \/ ~k.ok /\ \A i \in save..Len(t) : t[i] \in D
      \/ k.ok /\ \E x, y \in Nat : TokenAt(t, save, D, k, x, y)
  BY <1>1, <1>2, StrtokSpec
<1>5. PICK x \in Nat, y \in Nat : TokenAt(t, save, D, k, x, y)
  BY <1>3, <1>4
<1>6. /\ x \in save..Len(t) /\ y \in x..Len(t) /\ k.tok = SubSeq(t, x, y)
      /\ \/ y < Len(t) /\ k.save = y + 2
         \/ y = Len(t) /\ k.save = y + 1
  BY <1>5 DEF TokenAt
<1>7. k.save \in (save + 1)..(Len(t) + 1)
  BY <1>1, <1>6
<1>8. x \in Nat \ {0} /\ y <= Len(t) /\ x <= y + 1 /\ y - x + 1 \in Nat \ {0}
  BY <1>1, <1>6
<1>9. k.tok \in Seq(Chars) /\ Len(k.tok) = y - x + 1
  BY <1>1, <1>6, <1>8, SubSeqIs
<1>10. k.tok # << >>
  BY <1>8, <1>9
<1>11. Tail(k.tok) \in Seq(Chars)
  BY <1>9, <1>10, HeadTailProperties
<1>12. \E i, j \in Nat : TokenAt(t, save, D, k, i, j)
  BY <1>5
<1>13. /\ k.tok \in Seq(Chars) /\ k.tok # << >> /\ Tail(k.tok) \in Seq(Chars)
       /\ k.save \in (save + 1)..(Len(t) + 1)
  BY <1>7, <1>9, <1>10, <1>11
<1> QED  BY <1>12, <1>13 DEF TokenTaken, t, k, D

----------------------------------------------------------------------------
(* What readline_buf() sees.                                               *)

Rest(t, p) == LET s == SubSeq(t, p, Len(t)) IN SubSeq(s, strspn(s, {SP}) + 1, Len(s))

\* s is what t has from p on, behind m blanks.
RestAt(t, p, m, s) ==
  /\ s \in Seq(Chars) /\ m \in Nat /\ p + m + Len(s) = Len(t) + 1
  /\ \A j \in 1..Len(s) : s[j] = t[j + ((p + m) - 1)]
  /\ \A j \in 1..m : t[j + (p - 1)] = SP
  /\ s # << >> => t[p + m] # SP

LEMMA RestIs ==
  ASSUME NEW t \in Seq(Chars), NEW p \in 1..Len(t)
  PROVE  \E m \in Nat : RestAt(t, p, m, Rest(t, p))
<1> DEFINE n == Len(t)
<1> DEFINE s == SubSeq(t, p, n)
<1> DEFINE m == strspn(s, {SP})
<1> DEFINE w == SubSeq(s, m + 1, Len(s))
<1>1. n \in Nat /\ p \in Nat \ {0} /\ p <= n /\ p <= n + 1
  OBVIOUS
<1>2. Rest(t, p) = w
  BY DEF Rest
<1>3. s \in Seq(Chars) /\ Len(s) = n - p + 1 /\ \A j \in 1..(n - p + 1) : s[j] = t[p + j - 1]
  BY <1>1, SubSeqIs
<1> HIDE DEF s, n
<1>4. /\ m \in 0..Len(s) /\ \A i \in 1..m : s[i] \in {SP}
      /\ m < Len(s) => s[m + 1] \notin {SP}
  BY <1>3, StrspnSpec
<1> HIDE DEF m
<1>5. Len(s) \in Nat /\ m \in Nat /\ m + 1 \in Nat \ {0} /\ m + 1 <= Len(s) + 1 /\ Len(s) <= Len(s)
  BY <1>1, <1>3, <1>4
<1>6. /\ w \in Seq(Chars) /\ Len(w) = Len(s) - (m + 1) + 1
      /\ \A j \in 1..(Len(s) - (m + 1) + 1) : w[j] = s[(m + 1) + j - 1]
  BY <1>3, <1>5, SubSeqIs
<1> HIDE DEF w
<1>7. p + m + Len(w) = n + 1 /\ Len(w) \in Nat
  BY <1>1, <1>3, <1>5, <1>6
<1>8. ASSUME NEW j \in 1..Len(w) PROVE w[j] = t[j + ((p + m) - 1)]
  <2>1. /\ (m + 1) + j - 1 \in 1..(n - p + 1) /\ j \in 1..(Len(s) - (m + 1) + 1)
        /\ p + ((m + 1) + j - 1) - 1 = j + ((p + m) - 1)
    BY <1>1, <1>3, <1>5, <1>6
  <2>2. w[j] = s[(m + 1) + j - 1]
    BY <1>6, <2>1
  <2>3. s[(m + 1) + j - 1] = t[p + ((m + 1) + j - 1) - 1]
    BY <1>3, <2>1
  <2> QED  BY <2>1, <2>2, <2>3
<1>9. ASSUME NEW j \in 1..m PROVE t[j + (p - 1)] = SP
  <2>1. j \in 1..(n - p + 1) /\ p + j - 1 = j + (p - 1)
    BY <1>1, <1>3, <1>4, <1>5
  <2> QED  BY <1>3, <1>4, <2>1
<1>10. ASSUME w # << >> PROVE t[p + m] # SP
  <2>1. Len(w) # 0
    BY <1>6, <1>10
  <2>2. m < Len(s) /\ m + 1 \in 1..(n - p + 1) /\ p + (m + 1) - 1 = p + m
    BY <1>1, <1>3, <1>5, <1>7, <2>1
  <2> QED  BY <1>3, <1>4, <2>2
<1>11. RestAt(t, p, m, w)
  BY <1>5, <1>6, <1>7, <1>8, <1>9, <1>10 DEF RestAt, n
<1> QED  BY <1>2, <1>5, <1>11

\* Where a line can end, and where the loop stops.
LineEnds(s) == {i \in 2..Len(s) : s[i] = LF /\ (s[i - 1] = CR \/ At(s, i + 1, <<CR>>))}

LEMMA StopsAtIs ==
  ASSUME NEW s \in Seq(Chars)
  PROVE  \/ LineEnds(s) = {} /\ StopsAt(s) = Len(s) + 1
         \/ StopsAt(s) \in LineEnds(s) /\ \A j \in LineEnds(s) : StopsAt(s) <= j
<1> DEFINE E == LineEnds(s)
<1>1. StopsAt(s) = IF E = {} THEN Len(s) + 1 ELSE CHOOSE i \in E : \A j \in E : i <= j
  BY DEF StopsAt, LineEnds
<1>2. E \in SUBSET Nat
  BY DEF LineEnds
<1> HIDE DEF E
<1>3. CASE E = {}
  BY <1>1, <1>3 DEF E
<1>4. CASE E # {}
  <2>1. \E i \in E : \A j \in E : i <= j
    BY <1>2, <1>4, MinIn
  <2>2. StopsAt(s) \in E /\ \A j \in E : StopsAt(s) <= j
    BY <1>1, <1>4, <2>1
  <2> QED  BY <2>2 DEF E
<1> QED  BY <1>3, <1>4

\* The types of what one call computes.
LEMMA LineTypes ==
  ASSUME NEW s \in Seq(Chars)
  PROVE  /\ StopsAt(s) \in 1..(Len(s) + 1) /\ LineBefore(s, StopsAt(s)) \in Seq(Chars)
<1> DEFINE i == StopsAt(s)
<1>1. Len(s) \in Nat
  OBVIOUS
<1>2. i \in 1..(Len(s) + 1)
  <2>1. \A j \in LineEnds(s) : j \in 2..Len(s)
    BY DEF LineEnds
  <2> HIDE DEF i
  <2>2. \/ i = Len(s) + 1
        \/ i \in LineEnds(s)
    BY StopsAtIs DEF i
  <2> QED  BY <1>1, <2>1, <2>2
<1> HIDE DEF i
<1> DEFINE m == IF At(s, i - 1, CRLF) THEN i - 2 ELSE i - 1
<1>3. LineBefore(s, i) = SubSeq(s, 1, m)
  BY DEF LineBefore
<1>4. At(s, i - 1, CRLF) => i - 1 \in 1..(Len(s) - Len(CRLF) + 1)
  BY DEF At
<1>5. m \in Nat /\ m <= Len(s) /\ 1 <= m + 1 /\ 1 \in Nat \ {0}
  BY <1>1, <1>2, <1>4, CRLFIs
<1> HIDE DEF m
<1>6. SubSeq(s, 1, m) \in Seq(Chars)
  BY <1>5, SubSeqIs
<1> QED  BY <1>2, <1>3, <1>6 DEF i

----------------------------------------------------------------------------
(* Types.                                                                  *)

LEMMA SameText ==
  ASSUME req' = req
  PROVE  Text' = Text /\ (arrived' = arrived => buf' = buf /\ copied' = copied)
BY DEF Text, buf, copied

LEMMA TypeInit == Init => TypeOK
<1> SUFFICES ASSUME Init PROVE TypeOK
  OBVIOUS
<1>1. req \in Requests /\ Text = TextOf(req)
  BY DEF Init, Text, TextOf
<1>2. TextOf(req) \in Seq(Chars)
  BY <1>1, TextIs
<1>3. Len(Text) \in Nat
  BY <1>1, <1>2
<1>4. arrived \in 0..Len(Text) /\ save \in 1..(Len(Text) + 2) /\ ret \in -1..Len(Text)
  BY <1>3 DEF Init
<1>5. {method, url, version} \subseteq Seq(Chars)
  BY DEF Init
<1>6. nhead \in Seq(Entries) /\ lines \in Seq(Seq(Chars))
  BY DEF Init
<1> QED  BY <1>1, <1>4, <1>5, <1>6 DEF Init, TypeOK

LEMMA TokenStep ==
  ASSUME TypeOK, NEW at \in Steps, Token(at)
  PROVE  /\ pc = at /\ pc \in Steps /\ NextToken.ok /\ headline /\ save' = NextToken.save
         /\ req' = req /\ fn' = fn /\ arrived' = arrived /\ heap' = heap
         /\ headline' = headline /\ lines' = lines /\ ret' = ret
         /\ Text' = Text /\ buf' = buf /\ copied' = copied
         /\ TokenTaken(buf, save, NextToken, pc)
         /\ save' \in 1..(Len(Text) + 2) /\ save' \in (save + 1)..(copied + 1)
<1>1. /\ pc = at /\ pc \in Steps /\ NextToken.ok /\ headline /\ save' = NextToken.save
      /\ req' = req /\ fn' = fn /\ arrived' = arrived /\ heap' = heap
      /\ headline' = headline /\ lines' = lines /\ ret' = ret
  BY DEF Token, NoToken, alloc
<1>2. Text' = Text /\ buf' = buf /\ copied' = copied
  BY <1>1, SameText
<1>3. TokenTaken(buf, save, NextToken, pc)
  BY <1>1, NextTokenIs
<1>4. save' \in (save + 1)..(Len(buf) + 1)
  BY <1>1, <1>3 DEF TokenTaken
<1>5. /\ Len(buf) = copied /\ arrived \in Nat /\ copied \in Nat /\ Len(Text) \in Nat
      /\ copied <= arrived /\ arrived <= Len(Text) /\ save \in Nat
  BY BufIs
<1>6. save' \in 1..(Len(Text) + 2) /\ save' \in (save + 1)..(copied + 1)
  BY <1>4, <1>5
<1> QED  BY <1>1, <1>2, <1>3, <1>6

\* The ways in which a step of analasy() takes a token.
TakesToken == Method \/ Url \/ Version \/ Header \/ Value

LEMMA TakesTokenIs ==
  ASSUME TypeOK, TakesToken
  PROVE  \E at \in Steps : Token(at)
BY DEF TakesToken, Method, Url, Version, Header, Value, Steps

\* The member that a step writes.
Adds == Add("header") \/ Add("value")

LEMMA StoredIs ==
  ASSUME NEW x \in Seq(Chars)
  PROVE  Stored("header", x) \in Entries /\ Stored("value", x) \in Entries
BY DEF Stored, Entries

LEMMA AddTypes ==
  ASSUME TypeOK, TokenTaken(buf, save, NextToken, pc), Adds
  PROVE  nhead' \in Seq(Entries) /\ Len(nhead') = Len(nhead) + 1
<1> DEFINE x == Tail(NextToken.tok)
<1>1. x \in Seq(Chars)
  BY DEF TokenTaken
<1>2. nhead \in Seq(Entries)
  BY DEF TypeOK
<1>3. \/ nhead' = Append(nhead, Stored("header", x))
      \/ nhead' = Append(nhead, Stored("value", x))
  BY DEF Adds, Add
<1> HIDE DEF x
<1>4. Stored("header", x) \in Entries /\ Stored("value", x) \in Entries
  BY <1>1, StoredIs
<1> QED  BY <1>2, <1>3, <1>4, AppendProperties

LEMMA TypeStep == TypeOK /\ [Next]_vars => TypeOK'
<1> SUFFICES ASSUME TypeOK, [Next]_vars PROVE TypeOK'
  OBVIOUS
<1>1. /\ Len(Text) \in Nat /\ arrived \in Nat /\ Text \in Seq(Chars) /\ req \in Requests
  BY BufIs
<1>2. CASE UNCHANGED vars
  BY <1>2 DEF vars, TypeOK, Text
<1>3. CASE Recv
  <2>1. Text' = Text
    BY <1>3, SameText DEF Recv
  <2>2. arrived' \in 0..Len(Text)
    BY <1>1, <1>3 DEF Recv
  <2> QED  BY <1>3, <2>1, <2>2 DEF Recv, TypeOK, alloc, fields
<1>4. CASE Begin
  <2>1. Text' = Text
    BY <1>4, SameText DEF Begin
  <2>2. heap' \in 0..MaxHeap /\ headline' \in BOOLEAN
    BY <1>4, ParserAssumption DEF Begin, TypeOK
  <2>3. save' \in 1..(Len(Text) + 2)
    BY <1>1, <1>4 DEF Begin
  <2>4. pc' \in {"wait", "method"}
    BY <1>4 DEF Begin
  <2> QED  BY <1>4, <2>1, <2>2, <2>3, <2>4 DEF Begin, TypeOK, fields
<1>5. CASE TakesToken
  <2>1. PICK at \in Steps : Token(at)
    BY <1>5, TakesTokenIs
  <2>2. /\ req' = req /\ fn' = fn /\ arrived' = arrived /\ heap' = heap
        /\ headline' = headline /\ lines' = lines /\ ret' = ret
        /\ Text' = Text /\ save' \in 1..(Len(Text) + 2)
        /\ TokenTaken(buf, save, NextToken, pc)
    BY <2>1, TokenStep
  <2>3. NextToken.tok \in Seq(Chars)
    BY <2>2 DEF TokenTaken
  <2>4. {method', url', version'} \subseteq Seq(Chars)
    <3>1. /\ method' \in {method, NextToken.tok} /\ url' \in {url, NextToken.tok}
          /\ version' \in {version, NextToken.tok}
      BY <1>5 DEF TakesToken, Method, Url, Version, Header, Value, Add, fields
    <3> QED  BY <2>3, <3>1 DEF TypeOK
  <2>5. nhead' \in Seq(Entries)
    <3>1. nhead' = nhead \/ Adds
      BY <1>5 DEF TakesToken, Method, Url, Version, Header, Value, Adds, fields
    <3>2. CASE nhead' = nhead
      BY <3>2 DEF TypeOK
    <3>3. CASE Adds
      BY <2>2, <3>3, AddTypes
    <3> QED  BY <3>1, <3>2, <3>3
  <2>6. pc' \in {"url", "version", "header", "value", "parsed"}
    BY <1>5 DEF TakesToken, Method, Url, Version, Header, Value
  <2> QED  BY <2>2, <2>4, <2>5, <2>6 DEF TypeOK
<1>6. CASE NullPointer \/ Overrun
  <2>1. Text' = Text
    BY <1>6, SameText DEF NullPointer, Overrun
  <2> QED  BY <1>6, <2>1 DEF NullPointer, Overrun, TypeOK, alloc, fields
<1>7. CASE ReadlineBuf
  <2> DEFINE s == Remaining
  <2> DEFINE i == StopsAt(s)
  <2> DEFINE stays == i <= Len(s) /\ ~At(s, i - 1, CRLF)
  <2>1. Text' = Text /\ save \in 1..Len(Text)
    BY <1>7, SameText DEF ReadlineBuf, TypeOK
  <2>2. s \in Seq(Chars) /\ Len(s) \in Nat /\ Len(s) <= Len(Text)
    <3>1. s = Rest(Text, save)
      BY DEF Remaining, Rest
    <3>2. PICK m \in Nat : RestAt(Text, save, m, s)
      BY <1>1, <2>1, <3>1, RestIs
    <3> HIDE DEF s
    <3>3. s \in Seq(Chars) /\ save + m + Len(s) = Len(Text) + 1
      BY <3>2 DEF RestAt
    <3>4. Len(s) \in Nat
      BY <3>3
    <3> QED  BY <1>1, <2>1, <3>3, <3>4
  <2>3. /\ lines' = Append(lines, LineBefore(s, i))
        /\ ret' = IF stays THEN 0 ELSE i - 1
        /\ save' = Len(Text) - Len(s) + (IF stays THEN 1 ELSE i + 1)
        /\ pc' \in {"stuck", "wait", "lost"}
    BY <1>7 DEF ReadlineBuf
  <2> HIDE DEF s
  <2>4. i \in 1..(Len(s) + 1) /\ LineBefore(s, i) \in Seq(Chars)
    BY <2>2, LineTypes
  <2> HIDE DEF i, stays
  <2>5. lines' \in Seq(Seq(Chars))
    <3>1. lines \in Seq(Seq(Chars))
      BY DEF TypeOK
    <3> QED  BY <2>3, <2>4, <3>1, AppendProperties
  <2>6. save' \in 1..(Len(Text) + 2) /\ ret' \in -1..Len(Text)
    BY <1>1, <2>2, <2>3, <2>4
  <2>7. pc' \in {"wait", "stuck", "lost"}
    BY <2>3
  <2>8. UNCHANGED <<fn, req, arrived, alloc, fields>>
    BY <1>7 DEF ReadlineBuf
  <2> QED  BY <2>1, <2>5, <2>6, <2>7, <2>8 DEF TypeOK, alloc, fields
<1> QED  BY <1>2, <1>3, <1>4, <1>5, <1>6, <1>7 DEF Next, TakesToken

----------------------------------------------------------------------------
(* What holds of any text.                                                 *)

\* Which function is at which step, and when there are headers.
Held ==
  /\ fn = "analasy" => lines = << >> /\ save <= copied + 1 /\ pc \notin {"stuck", "lost"}
  /\ fn = "readline_buf" => pc \in {"wait", "stuck", "lost"}
  /\ pc \in {"wait", "call", "method", "url", "version", "stuck", "lost"} => nhead = << >>

LEMMA StillBelow ==
  ASSUME NEW p \in Nat, NEW a \in Nat, NEW b \in Nat, p <= a + 1, a <= b
  PROVE  p <= b + 1
OBVIOUS

LEMMA HeldInit == Init => Held
<1> SUFFICES ASSUME Init PROVE Held
  OBVIOUS
<1>1. fn = "analasy" => save <= copied + 1
  <2> SUFFICES ASSUME fn = "analasy" PROVE save <= copied + 1
    OBVIOUS
  <2>1. arrived = 0 /\ save = 1
    BY DEF Init
  <2>2. copied \in Nat
    BY <2>1, CopiedIs
  <2> QED  BY <2>1, <2>2
<1> QED  BY <1>1 DEF Init, Held

\* More of a text that has arrived is not less that is copied.
LEMMA CopiedGrows ==
  ASSUME arrived \in Nat, arrived' \in Nat, arrived <= arrived'
  PROVE  copied' \in Nat /\ copied <= copied'
BY ParserAssumption DEF copied

LEMMA HeldStep == TypeOK /\ Held /\ [Next]_vars => Held'
<1> SUFFICES ASSUME TypeOK, Held, [Next]_vars PROVE Held'
  OBVIOUS
<1>1. /\ arrived \in Nat /\ save \in Nat /\ Len(Text) \in Nat /\ copied \in Nat
      /\ fn \in {"analasy", "readline_buf"}
  BY BufIs DEF TypeOK
<1>2. CASE UNCHANGED vars
  <2>1. copied' = copied
    BY <1>2 DEF vars, copied
  <2> QED  BY <1>2, <2>1 DEF vars, Held
<1>3. CASE Recv
  <2>1. arrived' \in Nat /\ arrived <= arrived'
    BY <1>1, <1>3 DEF Recv
  <2>2. ASSUME save <= copied + 1 PROVE save <= copied' + 1
    <3>1. save \in Nat /\ copied \in Nat
      BY <1>1
    <3>2. copied' \in Nat /\ copied <= copied'
      BY <1>1, <2>1, CopiedGrows
    <3> QED  BY <2>2, <3>1, <3>2, StillBelow
  <2> QED  BY <1>3, <2>2 DEF Recv, Held, fields
<1>4. CASE Begin
  <2>1. 1 <= copied' + 1
    <3>1. copied' = copied
      BY <1>4 DEF Begin, copied
    <3> QED  BY <1>1, <3>1
  <2> QED  BY <1>4, <2>1 DEF Begin, Held, fields
<1>5. CASE TakesToken
  <2>1. PICK at \in Steps : Token(at)
    BY <1>5, TakesTokenIs
  <2>2. /\ pc \in Steps /\ fn' = fn /\ lines' = lines /\ copied' = copied
        /\ save' \in (save + 1)..(copied + 1)
    BY <2>1, TokenStep
  <2>3. save' <= copied' + 1
    BY <1>1, <2>2
  <2>4. pc \notin {"wait", "stuck", "lost"}
    BY <2>2 DEF Steps
  <2>5. fn' = "analasy" /\ lines' = << >>
    BY <1>1, <2>2, <2>4 DEF Held
  <2>6. /\ pc' \in {"url", "version", "header", "value", "parsed"}
        /\ pc' \in {"url", "version"} => nhead' = nhead /\ pc \in {"method", "url"}
    BY <1>5 DEF TakesToken, Method, Url, Version, Header, Value, Token
  <2>7. pc' \in {"url", "version"} => nhead' = << >>
    BY <2>6 DEF Held
  <2> QED  BY <2>3, <2>5, <2>6, <2>7 DEF Held
<1>6. CASE NullPointer \/ Overrun
  <2>1. NullPointer => pc \in Steps
    BY DelimsAre DEF NullPointer
  <2>2. fn = "analasy"
    BY <1>1, <1>6, <2>1 DEF Held, Steps, Overrun
  <2>3. /\ pc' = "crashed" /\ fn' = fn /\ lines' = lines /\ save' = save /\ copied' = copied
    BY <1>6 DEF NullPointer, Overrun, copied
  <2> QED  BY <2>2, <2>3 DEF Held
<1>7. CASE ReadlineBuf
  <2>1. pc' \in {"stuck", "wait", "lost"} /\ fn' = "readline_buf" /\ nhead' = nhead /\ pc = "wait"
    BY <1>7 DEF ReadlineBuf, fields
  <2> QED  BY <2>1 DEF Held
<1> QED  BY <1>2, <1>3, <1>4, <1>5, <1>6, <1>7 DEF Next, TakesToken

\* No blank line of t begins before p.
Ahead(t, p) == \A i \in 1..Len(t) : At(t, i, CRLF \o CRLF) => p <= i

\* b characters were needed to get to p.  Where p is no further, every token
\* was one character and its delimiter, and so none can have passed through
\* the blank line; or there are no more.
Slack(t, p, b) == b <= p /\ (p = b => Ahead(t, p - 2) \/ p = Len(t) + 1)

LEMMA RoomLeft ==
  ASSUME NEW b \in Nat, NEW p \in Nat, NEW x \in Nat, NEW n \in Nat,
         b <= p, p <= x, x <= n, ~(p = b /\ p = n)
  PROVE  b + 2 <= n + 1
OBVIOUS

\* A token needs two characters.
LEMMA Spend ==
  ASSUME NEW t \in Seq(Chars), NEW p \in Nat \ {0}, NEW b \in Nat, Slack(t, p, b),
         strstr(t, CRLF \o CRLF), NEW D, CR \in D <=> LF \in D,
         NEW k, NEW x \in Nat, NEW y \in Nat, TokenAt(t, p, D, k, x, y)
  PROVE  Slack(t, k.save, b + 2)
<1>1. Len(t) \in Nat /\ DOMAIN t = 1..Len(t)
  OBVIOUS
<1>2. /\ x \in p..Len(t) /\ y \in x..Len(t)
      /\ \A i \in x..y : t[i] \notin D
      /\ \/ y < Len(t) /\ t[y + 1] \in D /\ k.save = y + 2
         \/ y = Len(t) /\ k.save = y + 1
  BY DEF TokenAt
<1>3. b <= p /\ (p = b => Ahead(t, p - 2))
  <2>1. x \in p..Len(t)
    BY <1>2
  <2>2. p # Len(t) + 1
    BY <1>1, <2>1
  <2> QED  BY <2>2 DEF Slack
<1>4. PICK i \in 1..Len(t) : At(t, i, CRLF \o CRLF)
  BY <1>1 DEF strstr
<1>5. i \in 1..(Len(t) - 3)
  BY <1>4, BlankAt
<1>6. CASE y = Len(t) /\ k.save = y + 1
  <2>1. ~(p = b /\ p = Len(t))
    <3> SUFFICES ASSUME p = b, p = Len(t) PROVE FALSE
      OBVIOUS
    <3>1. p - 2 <= i
      BY <1>3, <1>4 DEF Ahead
    <3>2. i <= Len(t) - 3 /\ i \in Nat
      BY <1>1, <1>5
    <3> QED  BY <1>1, <3>1, <3>2
  <2>2. b + 2 <= Len(t) + 1
    <3>1. p <= x /\ x <= Len(t) /\ b <= p
      BY <1>2, <1>3
    <3> QED  BY <1>1, <2>1, <3>1, RoomLeft
  <2> QED  BY <1>6, <2>2 DEF Slack
<1>7. CASE y < Len(t) /\ t[y + 1] \in D /\ k.save = y + 2
  <2>1. b + 2 <= y + 2
    <3>1. b <= p /\ p <= x /\ x <= y
      BY <1>2, <1>3
    <3> QED  BY <3>1
  <2>2. ASSUME y + 2 = b + 2 PROVE Ahead(t, (y + 2) - 2)
    <3>1. y = p /\ p = b /\ (y + 2) - 2 = p
      BY <1>2, <1>3, <2>2
    <3>2. t[p] \notin D /\ t[p + 1] \in D
      BY <1>2, <1>7, <3>1
    <3>3. Ahead(t, p - 2)
      BY <1>3, <3>1
    <3>4. ASSUME NEW j \in 1..Len(t), At(t, j, CRLF \o CRLF) PROVE p <= j
      <4>1. p - 2 <= j
        BY <3>3, <3>4 DEF Ahead
      <4>2. t[j + 1] = LF /\ t[j + 2] = CR /\ t[j + 3] = LF
        BY <3>4, BlankAt
      <4>3. j # p - 2
        <5>1. j = p - 2 => j + 2 = p /\ j + 3 = p + 1
          OBVIOUS
        <5> QED  BY <3>2, <4>2, <5>1
      <4>4. j # p - 1
        <5>1. j = p - 1 => j + 1 = p /\ j + 2 = p + 1
          OBVIOUS
        <5> QED  BY <3>2, <4>2, <5>1
      <4> QED  BY <4>1, <4>3, <4>4
    <3> QED  BY <3>1, <3>4 DEF Ahead
  <2> QED  BY <1>7, <2>1, <2>2 DEF Slack
<1> QED  BY <1>2, <1>6, <1>7

\* The characters that the step has needed.
Base(s, n) == CASE s = "method" -> 1 [] s = "url" -> 3 [] s = "version" -> 5
                [] OTHER -> 2 * n + 7

Spent == pc \in Steps => /\ Slack(buf, save, Base(pc, Len(nhead)))
                         /\ strstr(buf, CRLF \o CRLF)

LEMMA SpentInit == Init => Spent /\ NheadFits
BY DEF Init, Spent, Steps, NheadFits

LEMMA TokenSpends ==
  ASSUME TypeOK, Spent, pc \in Steps, TokenTaken(buf, save, NextToken, pc)
  PROVE  Slack(buf, NextToken.save, Base(pc, Len(nhead)) + 2)
<1> DEFINE b == Base(pc, Len(nhead))
<1>1. nhead \in Seq(Entries)
  BY DEF TypeOK
<1>2. Len(nhead) \in Nat
  BY <1>1
<1>3. b \in Nat
  BY <1>2 DEF Base
<1> HIDE DEF b
<1>4. Slack(buf, save, b) /\ strstr(buf, CRLF \o CRLF)
  BY DEF Spent, b
<1>5. buf \in Seq(Chars) /\ save \in Nat \ {0} /\ (CR \in Delims[pc] <=> LF \in Delims[pc])
  BY BufIs, DelimsAre
<1>6. PICK x \in Nat, y \in Nat : TokenAt(buf, save, Delims[pc], NextToken, x, y)
  BY DEF TokenTaken
<1> HIDE DEF Spent
<1>7. Slack(buf, NextToken.save, b + 2)
  BY <1>3, <1>4, <1>5, <1>6, Spend
<1> QED  BY <1>7 DEF b

LEMMA SpentStep == TypeOK /\ Held /\ Spent /\ NheadFits /\ [Next]_vars => Spent' /\ NheadFits'
<1> SUFFICES ASSUME TypeOK, Held, Spent, NheadFits, [Next]_vars PROVE Spent' /\ NheadFits'
  OBVIOUS
<1>1. /\ buf \in Seq(Chars) /\ Len(buf) \in Nat /\ nhead \in Seq(Entries) /\ save \in Nat
      /\ fn \in {"analasy", "readline_buf"}
  BY BufIs DEF TypeOK
<1>2. Len(nhead) \in Nat
  BY <1>1
<1>3. CASE UNCHANGED vars
  BY <1>3, SameText DEF vars, Spent, NheadFits
<1>4. CASE Recv
  <2>1. pc' = "call" /\ nhead' = nhead /\ save' = save
    BY <1>4 DEF Recv, fields
  <2> QED  BY <2>1 DEF Spent, Steps, NheadFits
<1>5. CASE Begin
  <2>1. nhead' = nhead /\ nhead = << >> /\ buf' = buf /\ save' = 1
    BY <1>5, SameText DEF Begin, Held, fields
  <2>2. NheadFits'
    BY <2>1 DEF NheadFits
  <2>3. pc' \in Steps => pc' = "method" /\ strstr(buf, CRLF \o CRLF)
    BY <1>5 DEF Begin, Steps, BlankLine
  <2>4. Base("method", Len(nhead)) = 1
    BY DEF Base
  <2>5. Slack(buf, 1, 1)
    <3>1. \A i \in 1..Len(buf) : 1 - 2 <= i
      BY <1>1
    <3> QED  BY <3>1 DEF Slack, Ahead
  <2>6. Spent'
    BY <2>1, <2>3, <2>4, <2>5 DEF Spent
  <2> QED  BY <2>2, <2>6
<1>6. CASE TakesToken
  <2>1. PICK at \in Steps : Token(at)
    BY <1>6, TakesTokenIs
  <2>2. /\ pc \in Steps /\ buf' = buf /\ TokenTaken(buf, save, NextToken, pc)
        /\ save' = NextToken.save /\ save' \in (save + 1)..(copied + 1)
    BY <2>1, TokenStep
  <2>3. save' \in Nat /\ save < save' /\ save' <= BUFSIZE
    <3>1. arrived \in Nat
      BY BufIs
    <3>2. copied \in Nat /\ copied + 1 <= BUFSIZE
      BY <3>1, CopiedIs
    <3> QED  BY <1>1, <2>2, <3>2, ParserAssumption
  <2>4. Slack(buf, save', Base(pc, Len(nhead)) + 2)
    BY <2>2, TokenSpends
  <2>5. strstr(buf', CRLF \o CRLF)
    BY <2>2 DEF Spent
  <2>6. CASE Method \/ Url \/ Version
    <3>1. /\ nhead' = nhead /\ nhead = << >> /\ pc' \in Steps
          /\ Base(pc', Len(nhead)) = Base(pc, Len(nhead)) + 2
      <4>1. Len(<< >>) = 0 /\ nhead = << >> /\ nhead' = nhead
        BY <2>6 DEF Method, Url, Version, Token, Held
      <4>2. \/ pc = "method" /\ pc' = "url"
            \/ pc = "url" /\ pc' = "version"
            \/ pc = "version" /\ pc' = "header"
        BY <2>6 DEF Method, Url, Version, Token
      <4> QED  BY <4>1, <4>2 DEF Base, Steps
    <3> QED  BY <2>2, <2>4, <2>5, <3>1 DEF Spent, NheadFits
  <2>7. CASE (Header \/ Value) /\ Adds
    <3>1. /\ pc \in {"header", "value"} /\ pc' \in {"header", "value", "parsed"}
      BY <2>7 DEF Header, Value, Token
    <3>2. Len(nhead') = Len(nhead) + 1
      BY <2>2, <2>7, AddTypes
    <3>3. /\ Base(pc, Len(nhead)) + 2 = 2 * Len(nhead') + 7
          /\ pc' \in Steps => Base(pc', Len(nhead')) = 2 * Len(nhead') + 7
      BY <1>2, <3>1, <3>2 DEF Base, Steps
    <3>4. Slack(buf, save', 2 * Len(nhead') + 7)
      BY <2>4, <3>3
    <3>5. 2 * Len(nhead') + 6 < save'
      <4>1. 2 * Len(nhead') + 7 <= save'
        BY <3>4 DEF Slack
      <4> QED  BY <1>2, <2>3, <3>2, <4>1
    <3>6. Spent'
      BY <2>2, <2>5, <3>3, <3>4 DEF Spent
    <3> QED  BY <2>3, <3>5, <3>6 DEF NheadFits
  <2>8. CASE Header /\ UNCHANGED fields /\ pc' = "parsed"
    <3>1. nhead' = nhead
      BY <2>8 DEF fields
    <3>2. 2 * Len(nhead) + 6 < save => 2 * Len(nhead) + 6 < save'
      BY <1>1, <1>2, <2>3
    <3> QED  BY <2>3, <2>8, <3>1, <3>2 DEF Spent, Steps, NheadFits
  <2> QED  BY <1>6, <2>6, <2>7, <2>8 DEF TakesToken, Header, Value, Adds
<1>7. CASE NullPointer \/ Overrun
  BY <1>7 DEF NullPointer, Overrun, Spent, Steps, NheadFits, fields
<1>8. CASE ReadlineBuf
  <2>1. nhead' = nhead /\ nhead = << >> /\ pc' \in {"wait", "stuck", "lost"}
    BY <1>8 DEF ReadlineBuf, Held, fields
  <2> QED  BY <2>1 DEF Spent, Steps, NheadFits
<1> QED  BY <1>3, <1>4, <1>5, <1>6, <1>7, <1>8 DEF Next, TakesToken

----------------------------------------------------------------------------
(* A well-formed request, header by header.                                *)

\* Header i and its value are where they belong in nh.
Pair(r, nh, i) == /\ nh[2 * i - 1] = Stored("header", NameValue(r.heads[i])[1])
                  /\ nh[2 * i] = Stored("value", NameValue(r.heads[i])[2])

\* k headers are stored, and p is at the end of their last line.
AtHeader(r, k, p, nh) ==
  /\ k \in 0..Len(r.heads) /\ p = Ends(r)[k + 1] /\ Len(nh) = 2 * k
  /\ \A i \in 1..k : Pair(r, nh, i)

\* The value of header k is missing, and p is behind its colon.
AtValue(r, k, p, nh) ==
  /\ k \in 1..Len(r.heads) /\ p = Ends(r)[k] + (Colon(r.heads[k]) + 1)
  /\ Len(nh) = 2 * k - 1 /\ nh[2 * k - 1] = Stored("header", NameValue(r.heads[k])[1])
  /\ \A i \in 1..(k - 1) : Pair(r, nh, i)

\* The line of header k.
LEMMA HeaderLine ==
  ASSUME NEW r \in Requests, WellFormed(r), NEW t, Page(t, LinesOf(r), Ends(r)),
         NEW k \in 1..Len(r.heads)
  PROVE  /\ LineAt(t, Ends(r)[k], r.heads[k]) /\ NoBreaks(r.heads[k])
         /\ ColonAt(r.heads[k], Colon(r.heads[k]))
         /\ Ends(r)[k] \in Nat \ {0} /\ t[Ends(r)[k]] = LF
         /\ Ends(r)[k + 1] = Ends(r)[k] + Len(r.heads[k]) + 2
<1> DEFINE h == r.heads
<1> DEFINE L == LinesOf(r)
<1> DEFINE e == Ends(r)
<1>1. /\ h \in Seq(Seq(Chars)) /\ Len(h) \in Nat /\ Len(L) = Len(h) + 2
      /\ \A i \in 1..Len(h) : L[i + 1] = h[i]
  <2>1. h \in Seq(Seq(Chars)) /\ Len(L) = Len(h) + 2 /\ \A i \in 1..Len(h) : L[i + 1] = h[i]
    BY LinesAre
  <2>2. Len(h) \in Nat
    BY <2>1
  <2> QED  BY <2>1, <2>2
<1>2. ColonAt(h[k], Colon(h[k])) /\ Unbroken(r)
  BY WellFormedIs
<1>3. Page(t, L, e)
  OBVIOUS
<1>4. DOMAIN L = 1..Len(L)
  <2> HIDE DEF L, e
  <2> QED  BY <1>3, PageTypes
<1>5. k \in 0..(Len(L) - 1) /\ k + 1 \in 1..Len(L) /\ k - 1 \in 0..(Len(L) - 1) /\ (k - 1) + 1 = k
  <2> HIDE DEF h, L
  <2>1. k \in 1..Len(h)
    BY DEF h
  <2> QED  BY <1>1, <2>1
<1>6. NoBreaks(h[k])
  BY <1>1, <1>2, <1>4, <1>5 DEF Unbroken
<1> HIDE DEF L, e
<1>7. LineAt(t, e[k], L[k + 1]) /\ e[k] \in Nat /\ e[k + 1] = e[k] + Len(L[k + 1]) + 2
  BY <1>3, <1>5, PageNext
<1>8. L[k + 1] = h[k]
  BY <1>1
<1> DEFINE m == k - 1
<1>9. m \in 0..(Len(L) - 1) /\ m + 1 = k
  BY <1>5
<1> HIDE DEF m
<1>10. e[m] \in Nat /\ e[m + 1] = e[m] + Len(L[m + 1]) + 2 /\ Len(L[m + 1]) \in Nat /\ t[e[m + 1]] = LF
  BY <1>3, <1>9, PageNext
<1>11. e[m + 1] \in Nat \ {0}
  BY <1>10
<1>12. e[k] \in Nat \ {0} /\ t[e[k]] = LF
  BY <1>9, <1>10, <1>11
<1>13. LineAt(t, e[k], h[k]) /\ e[k + 1] = e[k] + Len(h[k]) + 2
  BY <1>7, <1>8
<1> QED  BY <1>2, <1>6, <1>12, <1>13 DEF e

LEMMA HeaderAt ==
  ASSUME NEW r \in Requests, WellFormed(r), NEW t, Page(t, LinesOf(r), Ends(r)),
         NEW k \in 1..Len(r.heads)
  PROVE  LET q == strtok(t, Ends(r)[k], {":"})
         IN  /\ q.ok /\ q.save = Ends(r)[k] + (Colon(r.heads[k]) + 1)
             /\ Tail(q.tok) = NameValue(r.heads[k])[1] /\ ~At(q.tok, 2, CRLF)
<1> DEFINE b == Ends(r)[k]
<1> DEFINE s == r.heads[k]
<1> DEFINE c == Colon(s)
<1> DEFINE q == strtok(t, b, {":"})
<1>1. LineAt(t, b, s) /\ NoBreaks(s) /\ ColonAt(s, c) /\ b \in Nat \ {0} /\ t[b] = LF
  BY HeaderLine
<1> HIDE DEF b, s, c
<1>2. /\ q.ok /\ q.save = b + c + 1 /\ Tail(q.tok) = NameValue(s)[1] /\ ~At(q.tok, 2, CRLF)
  <2>1. b # 0
    BY <1>1
  <2> QED  BY <1>1, <2>1, HeaderToken
<1>3. c \in Nat /\ b \in Nat
  BY <1>1 DEF ColonAt
<1>4. b + c + 1 = b + (c + 1)
  BY <1>3
<1> HIDE DEF q
<1>5. q.ok /\ q.save = b + (c + 1) /\ Tail(q.tok) = NameValue(s)[1] /\ ~At(q.tok, 2, CRLF)
  BY <1>2, <1>4
<1> QED  BY <1>5 DEF b, s, c, q

LEMMA ValueAt ==
  ASSUME NEW r \in Requests, WellFormed(r), NEW t, Page(t, LinesOf(r), Ends(r)),
         NEW k, NEW p, NEW nh, AtValue(r, k, p, nh)
  PROVE  LET q == strtok(t, p, Break)
         IN  /\ q.ok /\ q.save = Ends(r)[k + 1] /\ Tail(q.tok) = NameValue(r.heads[k])[2]
<1> DEFINE b == Ends(r)[k]
<1> DEFINE s == r.heads[k]
<1> DEFINE c == Colon(s)
<1> DEFINE q == strtok(t, b + (c + 1), Break)
<1>1. k \in 1..Len(r.heads)
  BY DEF AtValue
<1>2. /\ LineAt(t, b, s) /\ NoBreaks(s) /\ ColonAt(s, c)
      /\ Ends(r)[k + 1] = b + Len(s) + 2
  BY <1>1, HeaderLine
<1>3. p = b + (c + 1)
  BY DEF AtValue
<1> HIDE DEF b, s, c
<1>4. q.ok /\ q.save = b + Len(s) + 2 /\ Tail(q.tok) = NameValue(s)[2]
  BY <1>2, ValueToken
<1>5. strtok(t, p, Break) = q
  BY <1>3
<1> HIDE DEF q
<1>6. q.ok /\ q.save = Ends(r)[k + 1] /\ Tail(q.tok) = NameValue(s)[2]
  BY <1>2, <1>4
<1> QED  BY <1>5, <1>6 DEF s

\* The blank line.
LEMMA BlankHere ==
  ASSUME NEW r \in Requests, NEW t, Page(t, LinesOf(r), Ends(r))
  PROVE  LET q == strtok(t, Ends(r)[Len(r.heads) + 1], {":"})
         IN  q.ok /\ At(q.tok, 2, CRLF)
<1> DEFINE n == Len(r.heads)
<1> DEFINE L == LinesOf(r)
<1> DEFINE e == Ends(r)
<1>1. n \in Nat /\ Len(L) = n + 2 /\ L[n + 2] = << >> /\ Page(t, L, e)
  BY LinesAre
<1> HIDE DEF n, L, e
<1>2. n \in 0..(Len(L) - 1)
  BY <1>1
<1> DEFINE m == n + 1
<1>3. m \in 0..(Len(L) - 1) /\ L[m + 1] = << >>
  <2>1. m \in 0..(Len(L) - 1) /\ m + 1 = n + 2
    BY <1>1
  <2> QED  BY <1>1, <2>1
<1>4. e[n] \in Nat /\ e[m] = e[n] + Len(L[m]) + 2 /\ Len(L[m]) \in Nat /\ t[e[m]] = LF
  <2>1. Page(t, L, e)
    BY <1>1
  <2> QED  BY <1>2, <2>1, PageNext
<1> HIDE DEF m
<1>5. LineAt(t, e[m], L[m + 1])
  BY <1>1, <1>3, PageNext
<1>6. LineAt(t, e[m], << >>)
  BY <1>3, <1>5
<1> DEFINE b == e[m]
<1>7. b # 0 /\ t[b] = LF /\ LineAt(t, b, << >>)
  BY <1>4, <1>6
<1> HIDE DEF b
<1>8. strtok(t, b, {":"}).ok /\ At(strtok(t, b, {":"}).tok, 2, CRLF)
  BY <1>7, BlankToken
<1> QED  BY <1>8 DEF b, m, n, e

\* Storing the name of a header, and its value.
LEMMA StoreName ==
  ASSUME NEW r, NEW k \in Nat, NEW p, NEW nh \in Seq(Entries), AtHeader(r, k, p, nh),
         Len(r.heads) \in Nat, k # Len(r.heads), NEW x \in Entries,
         x = Stored("header", NameValue(r.heads[k + 1])[1]),
         NEW q, q = Ends(r)[k + 1] + (Colon(r.heads[k + 1]) + 1)
  PROVE  AtValue(r, k + 1, q, Append(nh, x))
<1> DEFINE z == Append(nh, x)
<1>1. Len(z) = Len(nh) + 1 /\ z[Len(nh) + 1] = x /\ \A i \in 1..Len(nh) : z[i] = nh[i]
  BY AppendProperties
<1>2. k \in 0..Len(r.heads) /\ Len(nh) = 2 * k /\ \A i \in 1..k : Pair(r, nh, i)
  BY DEF AtHeader
<1> HIDE DEF z
<1>3. k + 1 \in 1..Len(r.heads) /\ (k + 1) - 1 = k /\ 2 * (k + 1) - 1 = 2 * k + 1
  BY <1>2
<1>4. \A i \in 1..k : 2 * i - 1 \in 1..(2 * k) /\ 2 * i \in 1..(2 * k)
  OBVIOUS
<1>5. \A i \in 1..k : Pair(r, z, i)
  BY <1>1, <1>2, <1>4 DEF Pair
<1>6. Len(z) = 2 * (k + 1) - 1 /\ z[2 * (k + 1) - 1] = x
  BY <1>1, <1>2, <1>3
<1>7. AtValue(r, k + 1, q, z)
  BY <1>3, <1>5, <1>6 DEF AtValue
<1> QED  BY <1>7 DEF z

LEMMA StoreValue ==
  ASSUME NEW r, NEW k \in Nat, NEW p, NEW nh \in Seq(Entries), AtValue(r, k, p, nh),
         Len(r.heads) \in Nat, NEW x \in Entries, x = Stored("value", NameValue(r.heads[k])[2]),
         NEW q, q = Ends(r)[k + 1]
  PROVE  AtHeader(r, k, q, Append(nh, x))
<1> DEFINE z == Append(nh, x)
<1>1. Len(z) = Len(nh) + 1 /\ z[Len(nh) + 1] = x /\ \A i \in 1..Len(nh) : z[i] = nh[i]
  BY AppendProperties
<1>2. /\ k \in 1..Len(r.heads) /\ Len(nh) = 2 * k - 1
      /\ nh[2 * k - 1] = Stored("header", NameValue(r.heads[k])[1])
      /\ \A i \in 1..(k - 1) : Pair(r, nh, i)
  BY DEF AtValue
<1> HIDE DEF z
<1>3. k \in 0..Len(r.heads) /\ (2 * k - 1) + 1 = 2 * k /\ 2 * k - 1 \in 1..(2 * k - 1)
  BY <1>2
<1>4. \A i \in 1..(k - 1) : 2 * i - 1 \in 1..(2 * k - 1) /\ 2 * i \in 1..(2 * k - 1)
  OBVIOUS
<1>5. \A i \in 1..(k - 1) : Pair(r, z, i)
  BY <1>1, <1>2, <1>4 DEF Pair
<1>6. Pair(r, z, k)
  BY <1>1, <1>2, <1>3 DEF Pair
<1>7. \A i \in 1..k : i = k \/ i \in 1..(k - 1)
  OBVIOUS
<1>8. Len(z) = 2 * k
  BY <1>1, <1>2, <1>3
<1>9. AtHeader(r, k, q, z)
  BY <1>3, <1>5, <1>6, <1>7, <1>8 DEF AtHeader
<1> QED  BY <1>9 DEF z

\* Where analasy() is in a well-formed request, and what it has stored.
Parsing ==
  WellFormed(req) /\ fn = "analasy" =>
    /\ pc = "method" => save = 1
    /\ pc = "url" => save = BlankA(req.line) + 1
    /\ pc = "version" => save = BlankB(req.line) + 1
    /\ pc \in {"url", "version", "header", "value", "parsed"} => method = Words(req.line)[1]
    /\ pc \in {"version", "header", "value", "parsed"} => url = Words(req.line)[2]
    /\ pc \in {"header", "value", "parsed"} => version = Words(req.line)[3]
    /\ pc = "header" => \E k \in Nat : AtHeader(req, k, save, nhead)
    /\ pc = "value" => \E k \in Nat : AtValue(req, k, save, nhead)
    /\ pc = "parsed" => AtHeader(req, Len(req.heads), Ends(req)[Len(req.heads) + 1], nhead)

\* A step of it finds all lines.
LEMMA PageHere ==
  ASSUME TypeOK, Held, ParsedInTime, WellFormed(req), pc \in Steps
  PROVE  fn = "analasy" /\ req \in Requests /\ Page(buf, LinesOf(req), Ends(req))
<1>1. fn = "analasy" /\ pc \notin {"wait", "call", "crashed"}
  BY DEF Held, Steps, TypeOK
<1>2. Len(HeadText(req)) < BUFSIZE /\ arrived >= Len(HeadText(req))
  BY <1>1 DEF ParsedInTime, Fits
<1>3. /\ req \in Requests /\ copied \in 0..Len(TextOf(req)) /\ arrived \in Nat
      /\ buf = SubSeq(TextOf(req), 1, copied)
  BY BufIs
<1>4. Len(HeadText(req)) \in Nat
  BY <1>3, TextIs
<1>5. copied >= Len(HeadText(req))
  BY <1>2, <1>3, <1>4, CopiedIs
<1> QED  BY <1>1, <1>3, <1>5, PieceIs

\* The tokens of the request line, of a header and of a value are the right ones.
LEMMA LineSteps ==
  ASSUME TypeOK, Held, ParsedInTime, Parsing, WellFormed(req), pc \in {"method", "url", "version"}
  PROVE  /\ NextToken.ok
         /\ pc = "method" => /\ NextToken.tok = Words(req.line)[1]
                             /\ NextToken.save = BlankA(req.line) + 1
         /\ pc = "url" => /\ NextToken.tok = Words(req.line)[2]
                          /\ NextToken.save = BlankB(req.line) + 1
         /\ pc = "version" => /\ NextToken.tok = Words(req.line)[3]
                              /\ NextToken.save = Ends(req)[1]
<1> DEFINE s == req.line
<1> DEFINE a == BlankA(s)
<1> DEFINE b == BlankB(s)
<1> DEFINE L == LinesOf(req)
<1> DEFINE e == Ends(req)
<1> DEFINE t == buf
<1>1. fn = "analasy" /\ req \in Requests /\ Page(t, L, e)
  <2>1. pc \in Steps
    BY DEF Steps
  <2> QED  BY <2>1, PageHere
<1>2. TwoBlanks(s, a, b) /\ Unbroken(req)
  BY <1>1, WellFormedIs
<1>3. L[1] = s /\ Len(L) = Len(req.heads) + 2 /\ Len(req.heads) \in Nat /\ s \in Seq(Chars)
  <2>1. L[1] = s /\ Len(L) = Len(req.heads) + 2 /\ req.heads \in Seq(Seq(Chars)) /\ s \in Seq(Chars)
    BY <1>1, LinesAre
  <2>2. Len(req.heads) \in Nat
    BY <2>1
  <2> QED  BY <2>1, <2>2
<1>4. NoBreaks(s)
  <2>1. DOMAIN L = 1..Len(L)
    BY <1>1, PageTypes
  <2>2. 1 \in DOMAIN L
    BY <1>3, <2>1
  <2>3. NoBreaks(L[1])
    BY <1>2, <2>2 DEF Unbroken
  <2> QED  BY <1>3, <2>3
<1>5. /\ pc = "method" => save = 1
      /\ pc = "url" => save = a + 1
      /\ pc = "version" => save = b + 1
  BY <1>1 DEF Parsing
<1>6. NextToken = strtok(t, save, Delims[pc])
  BY DEF NextToken
<1> HIDE DEF L, e, t, a, b, s
<1> DEFINE z == e[0]
<1>7. LineAt(t, z, s) /\ e[1] = z + Len(s) + 2
  <2> DEFINE i == 0
  <2>1. i \in 0..(Len(L) - 1) /\ i + 1 = 1
    BY <1>3
  <2> HIDE DEF i
  <2>2. LineAt(t, e[i], L[i + 1]) /\ e[i + 1] = e[i] + Len(L[i + 1]) + 2
    BY <1>1, <2>1, PageNext
  <2>3. i = 0
    BY DEF i
  <2> QED  BY <1>3, <2>1, <2>2, <2>3
<1>8. z = 0
  BY <1>1, PageTypes
<1> HIDE DEF z
<1>9. Len(s) \in Nat /\ a \in Nat /\ b \in Nat
  <2>1. Len(s) \in Nat /\ a \in 2..Len(s) /\ b \in (a + 2)..(Len(s) - 1)
    BY <1>2, <1>3 DEF TwoBlanks
  <2> QED  BY <2>1
<1>10. 1 = z + 1 /\ a + 1 = z + (a + 1) /\ b + 1 = z + (b + 1) /\ e[1] = z + (Len(s) + 2)
  BY <1>7, <1>8, <1>9
<1>11. Begins(z, s, a, b, 1, a + 1, b + 1, e[1])
  BY <1>10 DEF Begins
<1>12. /\ Gives(strtok(t, 1, Blank), Words(s)[1], a + 1)
       /\ Gives(strtok(t, a + 1, Blank), Words(s)[2], b + 1)
       /\ Gives(strtok(t, b + 1, Break), Words(s)[3], e[1])
  <2>1. LineAt(t, z, s) /\ TwoBlanks(s, a, b)
    BY <1>2, <1>7
  <2> QED  BY <1>4, <1>11, <2>1, RequestLineTokens
<1>13. CASE pc = "method"
  <2>1. NextToken = strtok(t, 1, Blank)
    BY <1>5, <1>6, <1>13, DelimsAre
  <2> QED  BY <1>12, <1>13, <2>1 DEF Gives, a, s
<1>14. CASE pc = "url"
  <2>1. NextToken = strtok(t, a + 1, Blank)
    BY <1>5, <1>6, <1>14, DelimsAre
  <2> QED  BY <1>12, <1>14, <2>1 DEF Gives, b, s
<1>15. CASE pc = "version"
  <2>1. NextToken = strtok(t, b + 1, Break)
    BY <1>5, <1>6, <1>15, DelimsAre
  <2> QED  BY <1>12, <1>15, <2>1 DEF Gives, e, s
<1> QED  BY <1>13, <1>14, <1>15

LEMMA HeaderStep ==
  ASSUME TypeOK, Held, ParsedInTime, Parsing, WellFormed(req), pc = "header"
  PROVE  /\ NextToken.ok
         /\ \E k \in Nat :
              /\ AtHeader(req, k, save, nhead)
              /\ k = Len(req.heads) => At(NextToken.tok, 2, CRLF)
              /\ k # Len(req.heads) =>
                   /\ ~At(NextToken.tok, 2, CRLF)
                   /\ Tail(NextToken.tok) = NameValue(req.heads[k + 1])[1]
                   /\ NextToken.save = Ends(req)[k + 1] + (Colon(req.heads[k + 1]) + 1)
<1>1. fn = "analasy" /\ req \in Requests /\ Page(buf, LinesOf(req), Ends(req))
  BY PageHere DEF Steps
<1>2. PICK k \in Nat : AtHeader(req, k, save, nhead)
  BY <1>1 DEF Parsing
<1>3. NextToken = strtok(buf, save, {":"})
  BY DelimsAre DEF NextToken
<1>4. k \in 0..Len(req.heads) /\ save = Ends(req)[k + 1]
  BY <1>2 DEF AtHeader
<1>5. CASE k = Len(req.heads)
  <2>1. NextToken = strtok(buf, Ends(req)[Len(req.heads) + 1], {":"})
    BY <1>3, <1>4, <1>5
  <2>2. NextToken.ok /\ At(NextToken.tok, 2, CRLF)
    BY <1>1, <2>1, BlankHere
  <2> QED  BY <1>2, <1>5, <2>2
<1>6. CASE k # Len(req.heads)
  <2> DEFINE m == k + 1
  <2>1. m \in 1..Len(req.heads)
    <3>1. req.heads \in Seq(Seq(Chars))
      BY <1>1, LinesAre
    <3>2. Len(req.heads) \in Nat
      BY <3>1
    <3> QED  BY <1>4, <1>6, <3>2
  <2>2. NextToken = strtok(buf, Ends(req)[m], {":"})
    BY <1>3, <1>4
  <2> HIDE DEF m
  <2>3. /\ NextToken.ok /\ NextToken.save = Ends(req)[m] + (Colon(req.heads[m]) + 1)
        /\ Tail(NextToken.tok) = NameValue(req.heads[m])[1] /\ ~At(NextToken.tok, 2, CRLF)
    BY <1>1, <2>1, <2>2, HeaderAt
  <2> QED  BY <1>2, <1>6, <2>3 DEF m
<1> QED  BY <1>5, <1>6

LEMMA ValueStep ==
  ASSUME TypeOK, Held, ParsedInTime, Parsing, WellFormed(req), pc = "value"
  PROVE  /\ NextToken.ok
         /\ \E k \in Nat : /\ AtValue(req, k, save, nhead)
                           /\ Tail(NextToken.tok) = NameValue(req.heads[k])[2]
                           /\ NextToken.save = Ends(req)[k + 1]
<1>1. fn = "analasy" /\ req \in Requests /\ Page(buf, LinesOf(req), Ends(req))
  BY PageHere DEF Steps
<1>2. PICK k \in Nat : AtValue(req, k, save, nhead)
  BY <1>1 DEF Parsing
<1>3. NextToken = strtok(buf, save, Break)
  BY DelimsAre DEF NextToken
<1>4. /\ NextToken.ok /\ NextToken.save = Ends(req)[k + 1]
      /\ Tail(NextToken.tok) = NameValue(req.heads[k])[2]
  BY <1>1, <1>2, <1>3, ValueAt
<1> QED  BY <1>2, <1>4

LEMMA AlwaysToken ==
  ASSUME TypeOK, Held, ParsedInTime, Parsing, WellFormed(req), pc \in Steps
  PROVE  NextToken.ok
BY LineSteps, HeaderStep, ValueStep DEF Steps

LEMMA HeadNotEmpty ==
  ASSUME NEW r \in Requests
  PROVE  Len(HeadText(r)) \in Nat \ {0}
<1> DEFINE L == LinesOf(r)
<1> DEFINE e == Ends(r)
<1> DEFINE t == HeadText(r)
<1>1. /\ Len(L) = Len(r.heads) + 2 /\ r.heads \in Seq(Seq(Chars))
      /\ Page(t, L, e) /\ e[Len(L)] = Len(t)
  BY HeadIs, LinesAre
<1>2. Len(r.heads) \in Nat
  BY <1>1
<1> DEFINE m == Len(r.heads) + 1
<1> HIDE DEF L, e, t
<1>3. m \in 0..(Len(L) - 1) /\ m + 1 = Len(L)
  BY <1>1, <1>2
<1> HIDE DEF m
<1>4. e[m] \in Nat /\ e[m + 1] = e[m] + Len(L[m + 1]) + 2 /\ Len(L[m + 1]) \in Nat
  BY <1>1, <1>3, PageNext
<1>5. e[m + 1] \in Nat \ {0}
  BY <1>4
<1>6. Len(t) \in Nat \ {0}
  BY <1>1, <1>3, <1>5
<1> QED  BY <1>6 DEF t

LEMMA InTimeInit == Init => ParsedInTime
<1> SUFFICES ASSUME Init, fn = "analasy" PROVE ParsedInTime
  BY DEF ParsedInTime
<1>1. arrived = 0 /\ pc = "wait" /\ req \in Requests
  BY DEF Init
<1>2. Len(HeadText(req)) \in Nat \ {0}
  BY <1>1, HeadNotEmpty
<1>3. 0 < Len(HeadText(req))
  BY <1>2
<1> QED  BY <1>1, <1>3 DEF ParsedInTime, Fits

LEMMA InTimeStep == TypeOK /\ Held /\ ParsedInTime /\ [Next]_vars => ParsedInTime'
<1> SUFFICES ASSUME TypeOK, Held, ParsedInTime, [Next]_vars PROVE ParsedInTime'
  OBVIOUS
<1>1. fn \in {"analasy", "readline_buf"}
  BY DEF TypeOK
<1>2. CASE UNCHANGED vars
  BY <1>2 DEF vars, ParsedInTime
<1>3. CASE Recv
  BY <1>3 DEF Recv, ParsedInTime
<1>4. CASE Begin
  <2> SUFFICES ASSUME WellFormed(req), fn = "analasy"
               PROVE  /\ pc' = "wait" /\ Len(HeadText(req)) < BUFSIZE => arrived < Len(HeadText(req))
                      /\ pc' \notin {"wait", "call", "crashed"} =>
                           Len(HeadText(req)) < BUFSIZE /\ arrived >= Len(HeadText(req))
    BY <1>4 DEF Begin, ParsedInTime, Fits
  <2>1. /\ req \in Requests /\ copied \in 0..Len(TextOf(req))
        /\ buf = SubSeq(TextOf(req), 1, copied) /\ arrived \in Nat
    BY BufIs
  <2>3. Len(HeadText(req)) \in Nat
    BY <2>1, TextIs
  <2>2. BlankLine <=> Len(HeadText(req)) < BUFSIZE /\ arrived >= Len(HeadText(req))
    <3>1. strstr(buf, CRLF \o CRLF) <=> copied >= Len(HeadText(req))
      BY <2>1, BlankLineIs
    <3> QED  BY <2>1, <2>3, <3>1, CopiedIs DEF BlankLine
  <2>4. arrived >= Len(HeadText(req)) \/ arrived < Len(HeadText(req))
    BY <2>1, <2>3
  <2>5. pc' = IF BlankLine THEN "method" ELSE "wait"
    BY <1>4 DEF Begin
  <2>6. CASE BlankLine
    BY <2>2, <2>5, <2>6
  <2>7. CASE ~BlankLine
    BY <2>2, <2>4, <2>5, <2>7
  <2> QED  BY <2>6, <2>7
<1>5. CASE TakesToken
  <2>1. PICK at \in Steps : Token(at)
    BY <1>5, TakesTokenIs
  <2>2. pc \in Steps /\ req' = req /\ fn' = fn /\ arrived' = arrived
    BY <2>1, TokenStep
  <2>3. pc \notin {"wait", "call", "crashed"}
    BY <2>2 DEF Steps
  <2>4. pc' \in {"url", "version", "header", "value", "parsed"}
    BY <1>5 DEF TakesToken, Method, Url, Version, Header, Value
  <2> QED  BY <2>2, <2>3, <2>4 DEF ParsedInTime
<1>6. CASE NullPointer \/ Overrun
  <2>1. pc' = "crashed"
    BY <1>6 DEF NullPointer, Overrun
  <2> QED  BY <2>1 DEF ParsedInTime
<1>7. CASE ReadlineBuf
  <2>1. fn' = "readline_buf"
    BY <1>7 DEF ReadlineBuf
  <2> QED  BY <2>1 DEF ParsedInTime
<1> QED  BY <1>2, <1>3, <1>4, <1>5, <1>6, <1>7 DEF Next, TakesToken

LEMMA ParsingInit == Init => Parsing /\ CrashIsIllFormed
BY DEF Init, Parsing, CrashIsIllFormed

LEMMA CrashStep ==
  TypeOK /\ Held /\ ParsedInTime /\ Parsing /\ CrashIsIllFormed /\ [Next]_vars
    => CrashIsIllFormed'
<1> SUFFICES ASSUME TypeOK, Held, ParsedInTime, Parsing, CrashIsIllFormed, [Next]_vars
             PROVE  CrashIsIllFormed'
  OBVIOUS
<1>1. CASE UNCHANGED vars
  BY <1>1 DEF vars, CrashIsIllFormed
<1>2. CASE Recv \/ Begin \/ TakesToken \/ ReadlineBuf
  <2>1. pc' # "crashed"
    BY <1>2 DEF Recv, Begin, TakesToken, Method, Url, Version, Header, Value, ReadlineBuf
  <2> QED  BY <2>1 DEF CrashIsIllFormed
<1>3. CASE NullPointer
  <2>1. pc \in Steps /\ (~NextToken.ok \/ ~headline) /\ req' = req /\ headline' = headline
    BY <1>3, DelimsAre DEF NullPointer, NoToken, alloc
  <2>2. WellFormed(req) => NextToken.ok
    BY <2>1, AlwaysToken
  <2> QED  BY <2>1, <2>2 DEF CrashIsIllFormed
<1>4. CASE Overrun
  <2>1. arrived' = arrived /\ arrived >= BUFSIZE
    BY <1>4 DEF Overrun
  <2> QED  BY <2>1 DEF CrashIsIllFormed
<1> QED  BY <1>1, <1>2, <1>3, <1>4 DEF Next, TakesToken

LEMMA ParsingStep == TypeOK /\ Held /\ ParsedInTime /\ Parsing /\ [Next]_vars => Parsing'
<1> SUFFICES ASSUME TypeOK, Held, ParsedInTime, Parsing, [Next]_vars PROVE Parsing'
  OBVIOUS
<1>1. fn \in {"analasy", "readline_buf"} /\ nhead \in Seq(Entries) /\ req \in Requests
  BY DEF TypeOK
<1>2. CASE UNCHANGED vars
  BY <1>2 DEF vars, Parsing
<1>3. CASE Recv \/ Begin \/ NullPointer \/ Overrun \/ ReadlineBuf
  <2>1. pc' \in {"call", "wait", "method", "crashed", "stuck", "lost"} /\ (pc' = "method" => save' = 1)
    BY <1>3 DEF Recv, Begin, NullPointer, Overrun, ReadlineBuf
  <2> QED  BY <2>1 DEF Parsing
<1>4. CASE TakesToken
  <2> SUFFICES ASSUME WellFormed(req)', (fn = "analasy")' PROVE Parsing'
    BY DEF Parsing
  <2>1. PICK at \in Steps : Token(at)
    BY <1>4, TakesTokenIs
  <2>2. /\ pc \in Steps /\ req' = req /\ fn' = fn /\ save' = NextToken.save
        /\ TokenTaken(buf, save, NextToken, pc)
    BY <2>1, TokenStep
  <2>3. WellFormed(req) /\ fn = "analasy"
    BY <2>2
  <2> DEFINE tail == Tail(NextToken.tok)
  <2>4. Stored("header", tail) \in Entries /\ Stored("value", tail) \in Entries
    <3>1. tail \in Seq(Chars)
      BY <2>2 DEF TokenTaken
    <3> QED  BY <3>1, StoredIs
  <2>5. Len(req.heads) \in Nat
    <3>1. req.heads \in Seq(Seq(Chars))
      BY <1>1, LinesAre
    <3> QED  BY <3>1
  <2>6. CASE Method
    <3>1. pc = "method" /\ pc' = "url" /\ method' = NextToken.tok
      BY <2>6 DEF Method, Token
    <3>2. NextToken.tok = Words(req.line)[1] /\ NextToken.save = BlankA(req.line) + 1
      BY <2>3, <3>1, LineSteps
    <3> QED  BY <2>2, <3>1, <3>2 DEF Parsing
  <2>7. CASE Url
    <3>1. pc = "url" /\ pc' = "version" /\ url' = NextToken.tok /\ method' = method
      BY <2>7 DEF Url, Token
    <3>2. NextToken.tok = Words(req.line)[2] /\ NextToken.save = BlankB(req.line) + 1
      BY <2>3, <3>1, LineSteps
    <3>3. method = Words(req.line)[1]
      BY <2>3, <3>1 DEF Parsing
    <3> QED  BY <2>2, <3>1, <3>2, <3>3 DEF Parsing
  <2>8. CASE Version
    <3>1. /\ pc = "version" /\ pc' = "header" /\ version' = NextToken.tok
          /\ method' = method /\ url' = url /\ nhead' = nhead
      BY <2>8 DEF Version, Token
    <3>2. NextToken.tok = Words(req.line)[3] /\ NextToken.save = Ends(req)[1]
      BY <2>3, <3>1, LineSteps
    <3>3. method = Words(req.line)[1] /\ url = Words(req.line)[2]
      BY <2>3, <3>1 DEF Parsing
    <3>4. nhead = << >>
      BY <3>1 DEF Held
    <3>5. AtHeader(req, 0, Ends(req)[1], << >>)
      <4>1. 0 + 1 = 1 /\ 0 \in 0..Len(req.heads) /\ 2 * 0 = 0 /\ \A i \in 1..0 : FALSE
        BY <2>5
      <4> QED  BY <4>1 DEF AtHeader
    <3>6. \E k \in Nat : AtHeader(req, k, save', nhead')
      BY <2>2, <3>1, <3>2, <3>4, <3>5
    <3> QED  BY <2>2, <3>1, <3>2, <3>3, <3>6 DEF Parsing
  <2>9. CASE Header
    <3>1. pc = "header"
      BY <2>9 DEF Header, Token
    <3>2. PICK k \in Nat :
            /\ AtHeader(req, k, save, nhead)
            /\ k = Len(req.heads) => At(NextToken.tok, 2, CRLF)
            /\ k # Len(req.heads) =>
                 /\ ~At(NextToken.tok, 2, CRLF)
                 /\ Tail(NextToken.tok) = NameValue(req.heads[k + 1])[1]
                 /\ NextToken.save = Ends(req)[k + 1] + (Colon(req.heads[k + 1]) + 1)
      BY <2>3, <3>1, HeaderStep
    <3>3. /\ method = Words(req.line)[1] /\ url = Words(req.line)[2]
          /\ version = Words(req.line)[3]
      BY <2>3, <3>1 DEF Parsing
    <3>4. method' = method /\ url' = url /\ version' = version
      BY <2>9 DEF Header, Add, fields
    <3>5. CASE k = Len(req.heads)
      <4>1. pc' = "parsed" /\ nhead' = nhead
        BY <2>9, <3>2, <3>5 DEF Header, fields
      <4>2. AtHeader(req, Len(req.heads), Ends(req)[Len(req.heads) + 1], nhead)
        BY <3>2, <3>5 DEF AtHeader
      <4> QED  BY <2>2, <3>3, <3>4, <4>1, <4>2 DEF Parsing
    <3>6. CASE k # Len(req.heads)
      <4>1. pc' = "value" /\ nhead' = Append(nhead, Stored("header", tail))
        BY <2>9, <3>2, <3>6 DEF Header, Add
      <4>2. AtValue(req, k + 1, NextToken.save, Append(nhead, Stored("header", tail)))
        <5> DEFINE x == Stored("header", tail)
        <5>1. x \in Entries /\ x = Stored("header", NameValue(req.heads[k + 1])[1])
          BY <2>4, <3>2, <3>6
        <5> HIDE DEF x
        <5>2. AtValue(req, k + 1, NextToken.save, Append(nhead, x))
          BY <1>1, <2>5, <3>2, <3>6, <5>1, StoreName
        <5> QED  BY <5>2 DEF x
      <4>3. k + 1 \in Nat
        OBVIOUS
      <4>4. \E j \in Nat : AtValue(req, j, save', nhead')
        BY <2>2, <4>1, <4>2, <4>3
      <4> QED  BY <2>2, <3>3, <3>4, <4>1, <4>4 DEF Parsing
    <3> QED  BY <3>5, <3>6
  <2>10. CASE Value
    <3>1. pc = "value" /\ pc' = "header" /\ nhead' = Append(nhead, Stored("value", tail))
      BY <2>10 DEF Value, Token, Add
    <3>2. PICK k \in Nat : /\ AtValue(req, k, save, nhead)
                           /\ Tail(NextToken.tok) = NameValue(req.heads[k])[2]
                           /\ NextToken.save = Ends(req)[k + 1]
      BY <2>3, <3>1, ValueStep
    <3>3. /\ method = Words(req.line)[1] /\ url = Words(req.line)[2]
          /\ version = Words(req.line)[3]
      BY <2>3, <3>1 DEF Parsing
    <3>4. method' = method /\ url' = url /\ version' = version
      BY <2>10 DEF Value, Add
    <3>5. AtHeader(req, k, NextToken.save, Append(nhead, Stored("value", tail)))
      <4> DEFINE x == Stored("value", tail)
      <4>1. x \in Entries /\ x = Stored("value", NameValue(req.heads[k])[2])
        BY <2>4, <3>2
      <4> HIDE DEF x
      <4>2. AtHeader(req, k, NextToken.save, Append(nhead, x))
        BY <1>1, <2>5, <3>2, <4>1, StoreValue
      <4> QED  BY <4>2 DEF x
    <3>6. \E j \in Nat : AtHeader(req, j, save', nhead')
      BY <2>2, <3>1, <3>5
    <3> QED  BY <2>2, <3>1, <3>3, <3>4, <3>6 DEF Parsing
  <2> QED  BY <1>4, <2>6, <2>7, <2>8, <2>9, <2>10 DEF TakesToken
<1> QED  BY <1>2, <1>3, <1>4 DEF Next, TakesToken

LEMMA SentIs == TypeOK /\ Held /\ Parsing => ParsedAsSent
<1> SUFFICES ASSUME TypeOK, Held, Parsing, pc = "parsed", WellFormed(req) PROVE ParsedAsSent
  BY DEF ParsedAsSent
<1> DEFINE h == req.heads
<1>1. fn = "analasy" /\ req \in Requests
  BY DEF TypeOK, Held
<1>2. /\ method = Words(req.line)[1] /\ url = Words(req.line)[2] /\ version = Words(req.line)[3]
      /\ AtHeader(req, Len(h), Ends(req)[Len(h) + 1], nhead)
  BY <1>1 DEF Parsing
<1>3. <<method, url, version>> = Words(req.line)
  BY <1>2 DEF Words
<1>4. DOMAIN h = 1..Len(h)
  <2>1. h \in Seq(Seq(Chars))
    BY <1>1, LinesAre
  <2> HIDE DEF h
  <2> QED  BY <2>1
<1>5. Len(nhead) = 2 * Len(h) /\ \A k \in 1..Len(h) : Pair(req, nhead, k)
  BY <1>2 DEF AtHeader
<1>6. \A k \in DOMAIN h : /\ nhead[2 * k - 1] = Stored("header", NameValue(h[k])[1])
                          /\ nhead[2 * k] = Stored("value", NameValue(h[k])[2])
  BY <1>4, <1>5 DEF Pair
<1> QED  BY <1>3, <1>5, <1>6 DEF ParsedAsSent

----------------------------------------------------------------------------
(* readline_buf() on lines without breaks.                                 *)

\* The line l is what t has behind b, and s what is left behind m blanks.
LeftOf(t, b, l, m, s) ==
  /\ LineAt(t, b, l) /\ NoBreaks(l)
  /\ s \in Seq(Chars) /\ m \in Nat /\ b + m + Len(s) = Len(t)
  /\ \A j \in 1..Len(s) : s[j] = t[j + (b + m)]
  /\ \A j \in 1..m : t[j + b] = SP
  /\ s # << >> => t[(m + 1) + b] # SP

LEMMA LeftIs ==
  ASSUME NEW t, NEW b, NEW l, LineAt(t, b, l), NoBreaks(l), NEW m, NEW s,
         NEW p, p = b + 1, RestAt(t, p, m, s)
  PROVE  LeftOf(t, b, l, m, s)
<1>1. b \in Nat /\ t \in Seq(Chars) /\ Len(t) \in Nat
  BY DEF LineAt
<1>2. /\ s \in Seq(Chars) /\ m \in Nat /\ p + m + Len(s) = Len(t) + 1
      /\ \A j \in 1..Len(s) : s[j] = t[j + ((p + m) - 1)]
      /\ \A j \in 1..m : t[j + (p - 1)] = SP
      /\ s # << >> => t[p + m] # SP
  BY DEF RestAt
<1>3. m \in Nat /\ Len(s) \in Nat
  BY <1>2
<1>4. (p + m) - 1 = b + m /\ p - 1 = b /\ p + m = (m + 1) + b
  BY <1>1, <1>3
<1>5. b + m + Len(s) = Len(t)
  <2>1. p + m + Len(s) = Len(t) + 1
    BY <1>2
  <2> QED  BY <1>1, <1>3, <2>1
<1> QED  BY <1>2, <1>4, <1>5 DEF LeftOf

\* There are m blanks, n characters behind them, and then the loop stops.
Stopped(l, m, s, n) ==
  /\ m \in Nat /\ m + n = Len(l) /\ strspn(l, {SP}) = m
  /\ StopsAt(s) = n + 2 /\ n + 2 <= Len(s) /\ s[n + 1] = CR /\ s[n + 2] = LF
  /\ \A j \in 1..n : l[j + m] = s[j]

LEMMA LeftStops ==
  ASSUME NEW t, NEW b, NEW l, NEW m, NEW s, LeftOf(t, b, l, m, s)
  PROVE  \E n \in Nat : Stopped(l, m, s, n)
<1>1. /\ t \in Seq(Chars) /\ Len(t) \in Nat /\ l \in Seq(Chars) /\ b \in Nat
      /\ Len(l) \in Nat /\ b + Len(l) + 2 <= Len(t)
      /\ t[b + Len(l) + 1] = CR /\ t[b + Len(l) + 2] = LF
      /\ \A j \in 1..Len(l) : t[j + b] = l[j]
  BY DEF LeftOf, LineAt
<1>2. /\ s \in Seq(Chars) /\ m \in Nat /\ Len(s) \in Nat /\ b + m + Len(s) = Len(t)
      /\ NoBreaks(l)
  BY DEF LeftOf
<1>3. /\ \A j \in 1..Len(s) : s[j] = t[j + (b + m)]
      /\ \A j \in 1..m : t[j + b] = SP
      /\ s # << >> => t[(m + 1) + b] # SP
  BY DEF LeftOf
<1>4. m \in 0..Len(l)
  <2> SUFFICES ASSUME ~(m <= Len(l)) PROVE FALSE
    BY <1>1, <1>2
  <2>1. Len(l) + 1 \in 1..m /\ (Len(l) + 1) + b = b + Len(l) + 1
    BY <1>1, <1>2
  <2>2. t[(Len(l) + 1) + b] = SP
    BY <1>3, <2>1
  <2> QED  BY <1>1, <2>1, <2>2 DEF CR, SP
<1>5. strspn(l, {SP}) = m
  <2>1. \A j \in 1..m : l[j] \in {SP}
    <3>1. \A j \in 1..m : j \in 1..Len(l)
      BY <1>1, <1>4
    <3> QED  BY <1>1, <1>3, <3>1
  <2>2. m < Len(l) => l[m + 1] \notin {SP}
    <3> SUFFICES ASSUME m < Len(l) PROVE l[m + 1] # SP
      OBVIOUS
    <3>1. m + 1 \in 1..Len(l) /\ Len(s) # 0
      BY <1>1, <1>2
    <3>2. s # << >>
      BY <3>1
    <3>3. t[(m + 1) + b] = l[m + 1]
      BY <1>1, <3>1
    <3> QED  BY <1>3, <3>2, <3>3
  <2> QED  BY <1>1, <1>4, <2>1, <2>2, StrspnIs
<1> DEFINE n == Len(l) - m
<1>6. /\ n \in Nat /\ m + n = Len(l) /\ n + 2 <= Len(s)
  BY <1>1, <1>2, <1>4
<1> HIDE DEF n
<1>7. /\ n + 1 \in 1..Len(s) /\ n + 2 \in 1..Len(s) /\ n + 2 \in 2..Len(s) /\ (n + 2) - 1 = n + 1
      /\ (n + 1) + (b + m) = b + Len(l) + 1 /\ (n + 2) + (b + m) = b + Len(l) + 2
      /\ \A j \in 1..n : /\ j \in 1..Len(s) /\ j + m \in 1..Len(l) /\ (j + m) + b = j + (b + m)
  <2>1. b \in Nat /\ m \in Nat /\ n \in Nat /\ Len(s) \in Nat /\ n + 2 <= Len(s)
    BY <1>1, <1>2, <1>6
  <2>2. Len(l) = m + n
    BY <1>6
  <2>3. (n + 1) + (b + m) = b + (m + n) + 1 /\ (n + 2) + (b + m) = b + (m + n) + 2
    BY <2>1
  <2>4. \A j \in 1..n : j \in 1..Len(s) /\ j + m \in 1..(m + n) /\ (j + m) + b = j + (b + m)
    BY <2>1
  <2>5. n + 1 \in 1..Len(s) /\ n + 2 \in 1..Len(s) /\ n + 2 \in 2..Len(s) /\ (n + 2) - 1 = n + 1
    BY <2>1
  <2> QED  BY <2>2, <2>3, <2>4, <2>5
<1>8. s[n + 1] = CR /\ s[n + 2] = LF
  BY <1>1, <1>3, <1>7
<1>9. \A j \in 1..n : s[j] = l[j + m]
  BY <1>1, <1>3, <1>7
<1>10. n + 2 \in LineEnds(s)
  BY <1>7, <1>8 DEF LineEnds
<1>11. ASSUME NEW j \in LineEnds(s) PROVE n + 2 <= j
  <2>1. j \in 2..Len(s) /\ s[j] = LF
    BY DEF LineEnds
  <2>2. j # n + 1
    BY <1>8, <2>1 DEF CR, LF
  <2>3. j \notin 1..n
    <3> SUFFICES ASSUME j \in 1..n PROVE FALSE
      OBVIOUS
    <3>1. l[j + m] # LF
      BY <1>1, <1>2, <1>7, NoBreaksIs
    <3> QED  BY <1>9, <2>1, <3>1
  <2> QED  BY <1>2, <1>6, <2>1, <2>2, <2>3
<1>12. StopsAt(s) = n + 2
  <2> DEFINE i == StopsAt(s)
  <2>1. i \in LineEnds(s) /\ \A j \in LineEnds(s) : i <= j
    BY <1>2, <1>10, StopsAtIs
  <2> HIDE DEF i
  <2>2. i <= n + 2 /\ n + 2 <= i /\ i \in Nat
    BY <1>10, <1>11, <2>1 DEF LineEnds
  <2>3. i = n + 2
    BY <1>6, <2>2
  <2> QED  BY <2>3 DEF i
<1>13. Stopped(l, m, s, n)
  BY <1>2, <1>5, <1>6, <1>8, <1>9, <1>12 DEF Stopped
<1> QED  BY <1>6, <1>13

\* What the call returns, and where the next one begins.
LEMMA LineReturned ==
  ASSUME NEW t, NEW b, NEW l, NEW m, NEW s, LeftOf(t, b, l, m, s)
  PROVE  /\ At(s, StopsAt(s) - 1, CRLF) /\ LineBefore(s, StopsAt(s)) = Trim(l)
         /\ StopsAt(s) = Len(Trim(l)) + 2 /\ Len(Trim(l)) \in Nat /\ s # << >>
         /\ Len(t) - Len(s) + (StopsAt(s) + 1) = b + Len(l) + 2 + 1
<1>1. /\ Len(t) \in Nat /\ l \in Seq(Chars) /\ b \in Nat /\ Len(l) \in Nat
  BY DEF LeftOf, LineAt
<1>2. /\ s \in Seq(Chars) /\ Len(s) \in Nat /\ b + m + Len(s) = Len(t)
  BY DEF LeftOf
<1>3. PICK n \in Nat : Stopped(l, m, s, n)
  BY LeftStops
<1>4. /\ strspn(l, {SP}) = m /\ StopsAt(s) = n + 2 /\ n + 2 <= Len(s)
      /\ s[n + 1] = CR /\ s[n + 2] = LF
      /\ m \in Nat /\ m + n = Len(l)
      /\ \A j \in 1..n : l[j + m] = s[j]
  BY <1>3 DEF Stopped
<1>5. /\ (n + 2) - 1 = n + 1 /\ n + 1 \in Int /\ n + 1 \in 1..(Len(s) - 1) /\ (n + 1) + 1 = n + 2
      /\ (n + 2) - 2 = n
  BY <1>2, <1>4
<1>6. At(s, n + 1, CRLF)
  BY <1>2, <1>4, <1>5, CrlfAt
<1>7. At(s, StopsAt(s) - 1, CRLF)
  BY <1>4, <1>5, <1>6
<1>8. LineBefore(s, StopsAt(s)) = SubSeq(s, 1, n)
  BY <1>4, <1>5, <1>7 DEF LineBefore
<1>9. SubSeq(l, m + 1, m + n) = SubSeq(s, 1, n)
  <2>1. 1 \in Nat \ {0} /\ 1 <= n + 1 /\ n <= Len(s) /\ m + n <= Len(l)
    BY <1>1, <1>2, <1>4
  <2>2. \A j \in 1..n : l[j + m] = s[j]
    BY <1>4
  <2> QED  BY <1>1, <1>2, <1>4, <2>1, <2>2, SubSeqShift
<1>10. Trim(l) = SubSeq(l, m + 1, Len(l))
  BY <1>4 DEF Trim
<1>11. LineBefore(s, StopsAt(s)) = Trim(l)
  BY <1>4, <1>8, <1>9, <1>10
<1>12. Len(t) - Len(s) + (StopsAt(s) + 1) = b + Len(l) + 2 + 1
  <2>1. StopsAt(s) = n + 2
    BY <1>4
  <2>2. m \in Nat /\ m + n = Len(l)
    BY <1>4
  <2> QED  BY <1>1, <1>2, <2>1, <2>2
<1>13. StopsAt(s) = Len(Trim(l)) + 2 /\ Len(Trim(l)) \in Nat
  <2>1. 1 \in Nat \ {0} /\ n \in Nat /\ n <= Len(s) /\ 1 <= n + 1 /\ n - 1 + 1 = n
    BY <1>2, <1>4
  <2>2. Len(SubSeq(s, 1, n)) = n
    BY <1>2, <2>1, SubSeqIs
  <2> QED  BY <1>4, <1>8, <1>11, <2>2
<1>14. s # << >>
  <2>1. Len(s) # 0
    BY <1>2, <1>4
  <2> QED  BY <2>1
<1> QED  BY <1>7, <1>11, <1>12, <1>13, <1>14

\* The lines that were returned, and that the next one begins where the last has ended.
ReadTo(r, ls, at, p, x) ==
  /\ at \in {"wait", "lost"} /\ (at = "lost" => ls # << >>)
  /\ Len(ls) <= Len(LinesOf(r)) /\ p = Ends(r)[Len(ls)] + 1
  /\ \A i \in 1..Len(ls) : /\ ls[i] = Trim(LinesOf(r)[i])
                           /\ TooLong(ls[i]) <=> i = Len(ls) /\ at = "lost"
  /\ ls # << >> => x = Len(ls[Len(ls)]) + 1

LinesRead ==
  fn = "readline_buf" /\ Unbroken(req) /\ req.body = << >> => ReadTo(req, lines, pc, save, ret)

\* Without a body the text ends with the blank line, and with no other.
LEMMA TextEnds ==
  ASSUME NEW r \in Requests, r.body = << >>
  PROVE  /\ Page(TextOf(r), LinesOf(r), Ends(r)) /\ Len(LinesOf(r)) \in Nat
         /\ Ends(r)[Len(LinesOf(r))] = Len(TextOf(r)) /\ Len(TextOf(r)) \in Nat
         /\ \A k \in 0..(Len(LinesOf(r)) - 1) : Ends(r)[k] < Len(TextOf(r))
         /\ \A k \in 0..Len(LinesOf(r)) : Ends(r)[k] <= Len(TextOf(r)) /\ Ends(r)[k] \in Nat
<1> DEFINE t == TextOf(r)
<1> DEFINE L == LinesOf(r)
<1> DEFINE e == Ends(r)
<1> DEFINE n == Len(L)
<1>1. Page(t, L, e) /\ Len(t) = Len(HeadText(r)) + Len(r.body) /\ Len(HeadText(r)) \in Nat
  BY TextIs
<1>2. Len(r.body) = 0
  OBVIOUS
<1>3. e[n] = Len(HeadText(r)) /\ \A i, j \in 0..n : i <= j => e[i] <= e[j]
  BY HeadIs
<1> HIDE DEF t, L, e
<1>4. n \in Nat /\ Len(t) \in Nat
  BY <1>1, PageTypes
<1>5. e[n] = Len(t)
  BY <1>1, <1>2, <1>3
<1> HIDE DEF n
<1>6. ASSUME NEW k \in 0..(n - 1) PROVE e[k] < Len(t) /\ e[k] \in Nat
  <2>1. k + 1 \in 0..n /\ n \in 0..n /\ k + 1 <= n
    BY <1>4
  <2>2. e[k + 1] <= Len(t)
    BY <1>3, <1>5, <2>1
  <2>3. e[k] \in Nat /\ e[k + 1] = e[k] + Len(L[k + 1]) + 2 /\ Len(L[k + 1]) \in Nat
    BY <1>1, <1>6, PageNext DEF n
  <2> QED  BY <1>4, <2>2, <2>3
<1>7. ASSUME NEW k \in 0..n PROVE e[k] <= Len(t) /\ e[k] \in Nat
  <2>1. CASE k = n
    BY <1>4, <1>5, <2>1
  <2>2. CASE k # n
    <3>1. k \in 0..(n - 1)
      BY <1>4, <2>2
    <3>2. e[k] < Len(t) /\ e[k] \in Nat
      BY <1>6, <3>1
    <3> QED  BY <1>4, <3>2
  <2> QED  BY <2>1, <2>2
<1> QED  BY <1>1, <1>4, <1>5, <1>6, <1>7 DEF t, L, e, n

LEMMA LinesInit == Init => LinesRead
<1> SUFFICES ASSUME Init PROVE LinesRead
  OBVIOUS
<1>1. lines = << >> /\ Len(lines) = 0 /\ pc = "wait" /\ save = 1 /\ req \in Requests
  BY DEF Init
<1>2. Ends(req)[0] = 0 /\ Len(LinesOf(req)) \in Nat
  <2>1. Page(TextOf(req), LinesOf(req), Ends(req))
    BY <1>1, TextIs
  <2> QED  BY <2>1, PageTypes
<1>3. /\ 0 <= Len(LinesOf(req)) /\ save = Ends(req)[Len(lines)] + 1
      /\ \A i \in 1..Len(lines) : FALSE
  BY <1>1, <1>2
<1> QED  BY <1>1, <1>3 DEF LinesRead, ReadTo

LEMMA LinesStep == TypeOK /\ Held /\ LinesRead /\ [Next]_vars => LinesRead'
<1> SUFFICES ASSUME TypeOK, Held, LinesRead, [Next]_vars PROVE LinesRead'
  OBVIOUS
<1>1. fn \in {"analasy", "readline_buf"} /\ req \in Requests /\ lines \in Seq(Seq(Chars))
  BY DEF TypeOK
<1>2. CASE UNCHANGED vars
  BY <1>2 DEF vars, LinesRead
<1>3. CASE Recv \/ Begin \/ TakesToken \/ NullPointer \/ Overrun
  <2>1. fn' = fn /\ fn # "readline_buf"
    <3>1. CASE Recv
      BY <3>1 DEF Recv
    <3>2. CASE Begin
      BY <3>2 DEF Begin, Held
    <3>3. CASE TakesToken
      <4>1. PICK at \in Steps : Token(at)
        BY <3>3, TakesTokenIs
      <4>2. pc \in Steps /\ fn' = fn
        BY <4>1, TokenStep
      <4> QED  BY <4>2 DEF Held, Steps
    <3>4. CASE NullPointer
      <4>1. pc \in Steps /\ fn' = fn
        BY <3>4, DelimsAre DEF NullPointer
      <4> QED  BY <4>1 DEF Held, Steps
    <3>5. CASE Overrun
      BY <3>5 DEF Overrun
    <3> QED  BY <1>3, <3>1, <3>2, <3>3, <3>4, <3>5
  <2> QED  BY <2>1 DEF LinesRead
<1>4. CASE ReadlineBuf
  <2> SUFFICES ASSUME Unbroken(req)', (req.body = << >>)' PROVE LinesRead'
    BY DEF LinesRead
  <2>1. req' = req /\ fn = "readline_buf" /\ save <= Len(Text) /\ pc = "wait"
    BY <1>4 DEF ReadlineBuf
  <2>2. Unbroken(req) /\ req.body = << >>
    BY <2>1
  <2> DEFINE L == LinesOf(req)
  <2> DEFINE e == Ends(req)
  <2> DEFINE t == Text
  <2> DEFINE n == Len(L)
  <2> DEFINE k == Len(lines)
  <2>3. /\ k \in Nat /\ k <= n /\ save = e[k] + 1
        /\ \A i \in 1..k : lines[i] = Trim(L[i]) /\ ~TooLong(lines[i])
    BY <1>1, <2>1, <2>2 DEF LinesRead, ReadTo
  <2>4. t = TextOf(req) /\ t \in Seq(Chars)
    BY BufIs
  <2>5. /\ Page(t, L, e) /\ n \in Nat /\ e[n] = Len(t) /\ Len(t) \in Nat
    BY <1>1, <2>2, <2>4, TextEnds
  <2> DEFINE s == Remaining
  <2> DEFINE i == StopsAt(s)
  <2> DEFINE stays == i <= Len(s) /\ ~At(s, i - 1, CRLF)
  <2>6. /\ lines' = Append(lines, LineBefore(s, i))
        /\ save' = Len(t) - Len(s) + (IF stays THEN 1 ELSE i + 1)
        /\ ret' = IF stays THEN 0 ELSE i - 1
        /\ pc' = IF s = << >> \/ i > maxlen THEN "lost" ELSE IF stays THEN "stuck" ELSE "wait"
    BY <1>4 DEF ReadlineBuf
  <2>7. s = Rest(t, save)
    BY DEF Remaining, Rest
  <2>8. save <= Len(t)
    BY <2>1
  <2>9. Unbroken(req) => \A j \in DOMAIN L : NoBreaks(L[j])
    BY DEF Unbroken
  <2> HIDE DEF L, e, t, n, k, s
  <2>10. k # n
    <3>1. k = n => save = Len(t) + 1
      BY <2>3, <2>5
    <3> QED  BY <2>5, <2>8, <3>1
  <2>11. k \in 0..(n - 1) /\ k + 1 \in 1..n /\ k + 1 <= n
    BY <2>3, <2>5, <2>10
  <2> DEFINE l == L[k + 1]
  <2> DEFINE b == e[k]
  <2>12. /\ LineAt(t, b, l) /\ b \in Nat /\ e[k + 1] = b + Len(l) + 2
    <3>1. k \in 0..(Len(L) - 1)
      BY <2>11 DEF n
    <3> QED  BY <2>5, <3>1, PageNext
  <2>13. NoBreaks(l)
    <3>1. DOMAIN L = 1..n
      BY <2>5, PageTypes DEF n
    <3> QED  BY <2>2, <2>9, <2>11, <3>1
  <2> HIDE DEF l, b
  <2>14. save = b + 1
    BY <2>3 DEF b
  <2>15. save \in 1..Len(t)
    BY <2>5, <2>8, <2>12, <2>14
  <2>16. PICK m \in Nat : RestAt(t, save, m, s)
    BY <2>4, <2>7, <2>15, RestIs
  <2>17. LeftOf(t, b, l, m, s)
    BY <2>12, <2>13, <2>14, <2>16, LeftIs
  <2>18. /\ At(s, i - 1, CRLF) /\ LineBefore(s, i) = Trim(l)
         /\ Len(t) - Len(s) + (i + 1) = b + Len(l) + 2 + 1
         /\ i = Len(Trim(l)) + 2 /\ Len(Trim(l)) \in Nat /\ s # << >>
    BY <2>17, LineReturned
  <2> HIDE DEF i
  <2>19. /\ lines' = Append(lines, Trim(l)) /\ save' = e[k + 1] + 1
         /\ ret' = Len(Trim(l)) + 1
         /\ pc' = IF TooLong(Trim(l)) THEN "lost" ELSE "wait"
    <3>1. ~stays
      BY <2>18
    <3> HIDE DEF stays
    <3>2. save' = Len(t) - Len(s) + (i + 1)
      BY <2>6, <3>1
    <3>3. pc' = IF i > maxlen THEN "lost" ELSE "wait"
      BY <2>6, <2>18, <3>1
    <3>4. (i > maxlen) = TooLong(Trim(l))
      BY <2>18 DEF TooLong
    <3>5. ret' = i - 1 /\ i - 1 = Len(Trim(l)) + 1
      BY <2>6, <2>18, <3>1
    <3> QED  BY <2>6, <2>12, <2>18, <3>2, <3>3, <3>4, <3>5
  <2>20. Trim(l) \in Seq(Chars)
    <3>1. s \in Seq(Chars)
      BY <2>16 DEF RestAt
    <3>2. LineBefore(s, i) \in Seq(Chars)
      BY <3>1, LineTypes DEF i
    <3> QED  BY <2>18, <3>2
  <2>21. /\ Len(lines') = k + 1 /\ lines'[k + 1] = Trim(l) /\ \A j \in 1..k : lines'[j] = lines[j]
    BY <1>1, <2>19, <2>20, AppendProperties DEF k
  <2>22. \A j \in 1..(k + 1) : /\ lines'[j] = Trim(L[j])
                               /\ TooLong(lines'[j]) <=> j = k + 1 /\ pc' = "lost"
    <3>1. \A j \in 1..(k + 1) : j = k + 1 \/ (j \in 1..k /\ j # k + 1)
      BY <2>3
    <3>2. TooLong(Trim(l)) <=> pc' = "lost"
      BY <2>19
    <3> QED  BY <2>3, <2>21, <3>1, <3>2 DEF l
  <2>23. pc' \in {"wait", "lost"} /\ Len(lines') <= n /\ save' = e[Len(lines')] + 1
    BY <2>11, <2>19, <2>21
  <2>24. \A j \in 1..Len(lines') : /\ lines'[j] = Trim(L[j])
                                   /\ TooLong(lines'[j]) <=> j = Len(lines') /\ pc' = "lost"
    BY <2>21, <2>22
  <2>25. lines' # << >> /\ ret' = Len(lines'[Len(lines')]) + 1
    <3>1. Len(lines') # 0
      BY <2>3, <2>21
    <3>2. lines' # << >>
      BY <3>1
    <3>3. lines'[Len(lines')] = Trim(l)
      BY <2>21, Zenon
    <3>4. ret' = Len(Trim(l)) + 1
      BY <2>19
    <3> QED  BY <3>2, <3>3, <3>4, Zenon
  <2>26. ReadTo(req, lines', pc', save', ret')
    BY <2>23, <2>24, <2>25 DEF ReadTo, L, e, n
  <2> QED  BY <2>1, <2>26 DEF LinesRead
<1> QED  BY <1>2, <1>3, <1>4 DEF Next, TakesToken

LEMMA SentLines == TypeOK /\ Held /\ LinesRead => LinesAsSent
<1> SUFFICES ASSUME TypeOK, Held, LinesRead, Unbroken(req), req.body = << >>
             PROVE  /\ \A i \in DOMAIN lines :
                         /\ i <= Len(LinesOf(req)) /\ lines[i] = Trim(LinesOf(req)[i])
                         /\ TooLong(lines[i]) <=> i = Len(lines) /\ pc = "lost"
                    /\ lines # << >> => ret = Len(lines[Len(lines)]) + 1
                    /\ pc # "stuck" /\ (pc = "lost" => lines # << >>)
                    /\ save <= Len(Text) + 1
                    /\ fn = "readline_buf" /\ save = Len(Text) + 1 => Len(lines) = Len(LinesOf(req))
  BY DEF LinesAsSent, Unbroken
<1> DEFINE n == Len(LinesOf(req))
<1> DEFINE k == Len(lines)
<1> DEFINE e == Ends(req)
<1>1. /\ fn \in {"analasy", "readline_buf"} /\ lines \in Seq(Seq(Chars)) /\ req \in Requests
      /\ Text = TextOf(req) /\ copied \in Nat /\ copied <= arrived /\ arrived \in Nat
      /\ arrived <= Len(Text) /\ Len(Text) \in Nat /\ save \in Nat
  BY BufIs DEF TypeOK
<1>2. k \in Nat /\ DOMAIN lines = 1..k
  BY <1>1
<1>3. CASE fn = "analasy"
  <2>1. lines = << >> /\ save <= copied + 1 /\ pc \notin {"stuck", "lost"}
    BY <1>3 DEF Held
  <2>2. save <= Len(Text) + 1
    BY <1>1, <2>1
  <2> QED  BY <1>3, <2>1, <2>2
<1>4. CASE fn = "readline_buf"
  <2>1. /\ k <= n /\ save = e[k] + 1
        /\ \A i \in 1..k : /\ lines[i] = Trim(LinesOf(req)[i])
                           /\ TooLong(lines[i]) <=> i = k /\ pc = "lost"
        /\ pc # "stuck" /\ (pc = "lost" => lines # << >>)
        /\ lines # << >> => ret = Len(lines[k]) + 1
    BY <1>4 DEF LinesRead, ReadTo
  <2>2. /\ n \in Nat /\ \A j \in 0..(n - 1) : e[j] < Len(Text)
        /\ \A j \in 0..n : e[j] <= Len(Text) /\ e[j] \in Nat
    BY <1>1, TextEnds
  <2> HIDE DEF e, n, k
  <2>3. k \in 0..n /\ (k # n => k \in 0..(n - 1)) /\ \A i \in 1..k : i <= n
    BY <1>2, <2>1, <2>2
  <2>4. e[k] <= Len(Text) /\ e[k] \in Nat /\ (k # n => e[k] < Len(Text))
    BY <2>2, <2>3
  <2>5. save <= Len(Text) + 1 /\ (save = Len(Text) + 1 => k = n)
    BY <1>1, <2>1, <2>4
  <2> QED  BY <1>2, <2>1, <2>3, <2>5 DEF n, k
<1> QED  BY <1>1, <1>3, <1>4

----------------------------------------------------------------------------
(* The theorems.                                                           *)

IInv ==
  /\ TypeOK /\ Held /\ Spent /\ NheadFits
  /\ ParsedInTime /\ Parsing /\ CrashIsIllFormed /\ LinesRead

\* In every state the position of strtok(), what analasy() has stored and what
\* readline_buf() has returned belong to the text that was received.
THEOREM ParserInvariance == Spec => []IInv
<1>1. Init => IInv
  BY TypeInit, HeldInit, SpentInit, InTimeInit, ParsingInit, LinesInit DEF IInv
<1>2. IInv /\ [Next]_vars => IInv'
  BY TypeStep, HeldStep, SpentStep, InTimeStep, ParsingStep, CrashStep, LinesStep DEF IInv
<1> QED  BY <1>1, <1>2, PTL DEF Spec

\* tcp->buf, the position strtok() keeps and the fields of http_request stay what
\* they are declared to be, whatever text arrives and in whatever pieces.
THEOREM ParserTypes == Spec => []TypeOK
<1>1. IInv => TypeOK
  BY DEF IInv
<1> QED  BY <1>1, ParserInvariance, PTL

\* analasy() begins only once the blank line is there, and of a well-formed request
\* it stores the method, url, version and every header that were sent, the name in
\* one entry of nhead and the value in the next.
THEOREM ParsedAsItWasSent == Spec => []ParsedRight
<1>1. IInv => ParsedRight
  BY SentIs DEF IInv, ParsedRight
<1> QED  BY <1>1, ParserInvariance, PTL

\* analasy() stops only when the request was ill formed, so that the tokens ran out in
\* strtok(), when malloc() had no http_request left, or when the text was too long for
\* tcp->buf.
THEOREM CrashesOnlyIllFormed == Spec => []CrashIsIllFormed
<1>1. IInv => CrashIsIllFormed
  BY DEF IInv
<1> QED  BY <1>1, ParserInvariance, PTL

\* The loop of analasy() writes nhead[i++] without a check; each entry has cost two
\* characters of the copy, which is cut at BUFSIZE: no text fills the array.
THEOREM NheadNeverFull == Spec => []NheadFits
<1>1. IInv => NheadFits
  BY DEF IInv
<1> QED  BY <1>1, ParserInvariance, PTL

\* From a text that ends with its blank line readline_buf() takes the lines that were
\* sent, in order, and has all of them when *buf is at the final zero; it goes wrong
\* at the first line that is longer than maxlen, and nowhere else.
THEOREM LinesReadAsSent == Spec => []LinesAsSent
<1>1. IInv => LinesAsSent
  BY SentLines DEF IInv
<1> QED  BY <1>1, ParserInvariance, PTL
=============================================================================
