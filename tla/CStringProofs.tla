--------------------------- MODULE CStringProofs ---------------------------
(***************************************************************************)
(* Facts about strings of any length: where a character is found first,    *)
(* what strtok() returns, and what a text is that is put together line by  *)
(* line.                                                                   *)
(*                                                                         *)
(* Induction is by the smallest counterexample, which MinIn provides.      *)
(***************************************************************************)
EXTENDS CString, SequenceTheorems, WellFoundedInduction, TLAPS

\* A set of numbers that is not empty has a smallest.
LEMMA MinIn ==
  ASSUME NEW S \in SUBSET Nat, S # {}
  PROVE  Min(S) \in S /\ \A y \in S : Min(S) <= y
<1>1. PICK x \in S : \A y \in S : ~(<<y, x>> \in OpToRel(<, Nat))
  BY WFMin, NatLessThanWellFounded
<1>2. \A y \in S : y \in Nat /\ x \in Nat  OBVIOUS
<1>3. \A y \in S : ~(y < x)
  BY <1>1, <1>2 DEF OpToRel
<1>4. \A y \in S : x <= y
  BY <1>2, <1>3
<1> QED  BY <1>4 DEF Min

\* A set with 0 and with n + 1 for each n below a limit in it has all numbers up to the limit.
LEMMA Induction ==
  ASSUME NEW S, NEW m \in Nat, 0 \in S, \A n \in S : n \in 0..(m - 1) => n + 1 \in S
  PROVE  0..m \subseteq S
<1> DEFINE T == (0..m) \ S
<1> SUFFICES ASSUME T # {} PROVE FALSE
  OBVIOUS
<1>1. T \in SUBSET Nat
  OBVIOUS
<1> HIDE DEF T
<1>2. Min(T) \in T /\ \A y \in T : Min(T) <= y
  BY <1>1, MinIn
<1>3. PICK k \in T : \A y \in T : k <= y
  BY <1>2
<1>4. k \in 1..m /\ k \notin S
  BY <1>3 DEF T
<1>5. k - 1 \in 0..(m - 1) /\ (k - 1) + 1 = k /\ ~(k <= k - 1)
  BY <1>4
<1>6. k - 1 \in S
  BY <1>3, <1>5 DEF T
<1> QED  BY <1>4, <1>5, <1>6

----------------------------------------------------------------------------
(* Searching.                                                              *)

\* The first character of a set is where none of the set is before it.
LEMMA FirstInIs ==
  ASSUME NEW s, NEW D, Len(s) \in Nat, NEW from \in Nat, NEW k \in from..Len(s),
         s[k] \in D, \A i \in from..Len(s) : i < k => s[i] \notin D
  PROVE  FirstIn(s, from, D) = k
<1> DEFINE I == {i \in from..Len(s) : s[i] \in D}
<1>1. FirstIn(s, from, D) = IF I # {} THEN Min(I) ELSE 0
  BY DEF FirstIn, SelectInSubSeq
<1>2. I \in SUBSET Nat /\ k \in I /\ k \in Nat /\ \A i \in I : ~(i < k)
  OBVIOUS
<1> HIDE DEF I
<1>3. Min(I) \in I /\ Min(I) <= k
  BY <1>2, MinIn
<1>4. Min(I) \in Nat /\ ~(Min(I) < k)
  BY <1>2, <1>3
<1>5. Min(I) = k
  BY <1>2, <1>3, <1>4
<1> QED  BY <1>1, <1>2, <1>5

\* Where it begins, no character has to be passed over.
LEMMA FirstNotInIs ==
  ASSUME NEW S, NEW s \in Seq(S), NEW D, NEW from \in 1..Len(s), s[from] \notin D
  PROVE  FirstNotIn(s, from, D) = from
<1>1. Len(s) \in Nat /\ from \in Nat /\ from \in from..Len(s)
  OBVIOUS
<1>2. s[from] \in ToSet(s) \ D
  BY DEF ToSet
<1>3. \A i \in from..Len(s) : ~(i < from)
  BY <1>1
<1>4. FirstIn(s, from, ToSet(s) \ D) = from
  BY <1>1, <1>2, <1>3, FirstInIs
<1> QED  BY <1>4 DEF FirstNotIn

\* The elements of x \o y.
Joined(z, x, y) == /\ Len(z) = Len(x) + Len(y)
                   /\ \A i \in 1..Len(x) : z[i] = x[i]
                   /\ \A i \in 1..Len(y) : z[i + Len(x)] = y[i]

LEMMA ConcatAt ==
  ASSUME NEW S, NEW x \in Seq(S), NEW y \in Seq(S)
  PROVE  x \o y \in Seq(S) /\ Joined(x \o y, x, y)
<1>1. Len(x) \in Nat /\ Len(y) \in Nat
  OBVIOUS
<1>2. /\ x \o y \in Seq(S) /\ Len(x \o y) = Len(x) + Len(y)
      /\ \A i \in 1..(Len(x) + Len(y)) :
           (x \o y)[i] = IF i <= Len(x) THEN x[i] ELSE y[i - Len(x)]
  BY ConcatProperties
<1>3. \A i \in 1..Len(x) : i \in 1..(Len(x) + Len(y)) /\ i <= Len(x)
  BY <1>1
<1>4. \A i \in 1..Len(y) : /\ i + Len(x) \in 1..(Len(x) + Len(y)) /\ ~(i + Len(x) <= Len(x))
                           /\ (i + Len(x)) - Len(x) = i
  BY <1>1
<1>5. \A i \in 1..Len(x) : (x \o y)[i] = x[i]
  BY <1>2, <1>3
<1>6. ASSUME NEW i \in 1..Len(y) PROVE (x \o y)[i + Len(x)] = y[i]
  <2>1. (x \o y)[i + Len(x)] = y[(i + Len(x)) - Len(x)]
    BY <1>2, <1>4
  <2> QED  BY <1>4, <2>1
<1> QED  BY <1>2, <1>5, <1>6 DEF Joined

LEMMA JoinedIn ==
  ASSUME NEW S, NEW x \in Seq(S), NEW y \in Seq(S), NEW z, Joined(z, x, y)
  PROVE  /\ Len(x) <= Len(z)
         /\ \A i \in 1..Len(x) : i \in 1..Len(z) /\ z[i] = x[i]
         /\ \A i \in 1..Len(y) : i + Len(x) \in 1..Len(z) /\ z[i + Len(x)] = y[i]
<1>1. Len(x) \in Nat /\ Len(y) \in Nat
  OBVIOUS
<1> QED  BY <1>1 DEF Joined

\* The token from a character that is no delimiter to the one before the first
\* delimiter behind it.
LEMMA TokenIs ==
  ASSUME NEW S, NEW s \in Seq(S), NEW D, NEW from \in 1..Len(s), s[from] \notin D,
         NEW k \in 1..Len(s), from < k, s[k] \in D,
         \A i \in from..Len(s) : i < k => s[i] \notin D
  PROVE  strtok(s, from, D) = [ok |-> TRUE, tok |-> SubSeq(s, from, k - 1), save |-> k + 1]
<1>1. Len(s) \in Nat /\ from \in Nat /\ k \in from..Len(s) /\ k # 0 /\ from # 0
  OBVIOUS
<1>2. FirstNotIn(s, from, D) = from
  BY FirstNotInIs
<1>3. FirstIn(s, from, D) = k
  BY <1>1, FirstInIs
<1> QED  BY <1>1, <1>2, <1>3 DEF strtok

\* What FirstIn() and FirstNotIn() return, found or not.
LEMMA FirstInSpec ==
  ASSUME NEW S, NEW s \in Seq(S), NEW D, NEW from \in Nat \ {0}
  PROVE  LET k == FirstIn(s, from, D)
         IN  \/ k = 0 /\ \A i \in from..Len(s) : s[i] \notin D
             \/ /\ k \in from..Len(s) /\ s[k] \in D
                /\ \A i \in from..(k - 1) : s[i] \notin D
<1> DEFINE I == {i \in from..Len(s) : s[i] \in D}
<1>1. FirstIn(s, from, D) = IF I # {} THEN Min(I) ELSE 0
  BY DEF FirstIn, SelectInSubSeq
<1>2. I \in SUBSET Nat /\ Len(s) \in Nat
  OBVIOUS
<1>3. CASE I = {}
  BY <1>1, <1>3
<1>4. CASE I # {}
  <2> DEFINE k == Min(I)
  <2> HIDE DEF I
  <2>1. k \in I /\ \A y \in I : k <= y
    BY <1>2, <1>4, MinIn
  <2> HIDE DEF k
  <2>2. k \in from..Len(s) /\ s[k] \in D
    BY <2>1 DEF I
  <2>3. \A i \in from..(k - 1) : i \in from..Len(s) /\ ~(k <= i)
    BY <1>2, <2>2
  <2>4. \A i \in from..(k - 1) : s[i] \notin D
    BY <2>1, <2>3 DEF I
  <2>5. FirstIn(s, from, D) = k
    BY <1>1, <1>4 DEF k
  <2> QED  BY <2>2, <2>4, <2>5
<1> QED  BY <1>3, <1>4

LEMMA FirstNotInSpec ==
  ASSUME NEW S, NEW s \in Seq(S), NEW D, NEW from \in Nat \ {0}
  PROVE  LET k == FirstNotIn(s, from, D)
         IN  \/ k = 0 /\ \A i \in from..Len(s) : s[i] \in D
             \/ /\ k \in from..Len(s) /\ s[k] \notin D
                /\ \A i \in from..(k - 1) : s[i] \in D
<1> DEFINE k == FirstIn(s, from, ToSet(s) \ D)
<1>1. FirstNotIn(s, from, D) = k
  BY DEF FirstNotIn
<1>2. \/ k = 0 /\ \A i \in from..Len(s) : s[i] \notin ToSet(s) \ D
      \/ /\ k \in from..Len(s) /\ s[k] \in ToSet(s) \ D
         /\ \A i \in from..(k - 1) : s[i] \notin ToSet(s) \ D
  BY FirstInSpec
<1> HIDE DEF k
<1>3. \A i \in from..Len(s) : s[i] \in ToSet(s)
  BY DEF ToSet
<1>4. CASE k = 0 /\ \A i \in from..Len(s) : s[i] \notin ToSet(s) \ D
  BY <1>1, <1>3, <1>4
<1>5. CASE /\ k \in from..Len(s) /\ s[k] \in ToSet(s) \ D
           /\ \A i \in from..(k - 1) : s[i] \notin ToSet(s) \ D
  <2>1. \A i \in from..(k - 1) : i \in from..Len(s)
    BY <1>5
  <2> QED  BY <1>1, <1>3, <1>5, <2>1
<1> QED  BY <1>2, <1>4, <1>5

\* A token is s[a..b]: delimiters before it, none in it, one behind it or the end.
TokenAt(s, from, D, t, a, b) ==
  /\ a \in from..Len(s) /\ b \in a..Len(s)
  /\ \A i \in from..(a - 1) : s[i] \in D
  /\ \A i \in a..b : s[i] \notin D
  /\ t.tok = SubSeq(s, a, b)
  /\ \/ b < Len(s) /\ s[b + 1] \in D /\ t.save = b + 2
     \/ b = Len(s) /\ t.save = b + 1

\* What strtok() returns.
LEMMA StrtokSpec ==
  ASSUME NEW S, NEW s \in Seq(S), NEW D, NEW from \in Nat \ {0}
  PROVE  LET t == strtok(s, from, D)
         IN  \/ ~t.ok /\ \A i \in from..Len(s) : s[i] \in D
             \/ t.ok /\ \E a, b \in Nat : TokenAt(s, from, D, t, a, b)
<1> DEFINE t == strtok(s, from, D)
<1> DEFINE a == FirstNotIn(s, from, D)
<1> DEFINE k == FirstIn(s, a, D)
<1> DEFINE end == IF k = 0 THEN Len(s) ELSE k - 1
<1>1. Len(s) \in Nat
  OBVIOUS
<1>2. \/ a = 0 /\ \A i \in from..Len(s) : s[i] \in D
      \/ /\ a \in from..Len(s) /\ s[a] \notin D
         /\ \A i \in from..(a - 1) : s[i] \in D
  BY FirstNotInSpec
<1>3. t.ok = (a # 0)
  BY DEF strtok
<1>4. CASE a = 0
  <2>1. ~t.ok
    BY <1>3, <1>4
  <2>2. \A i \in from..Len(s) : s[i] \in D
    <3> HIDE DEF a
    <3> QED  BY <1>2, <1>4
  <2> QED  BY <2>1, <2>2
<1>5. CASE a # 0
  <2>1. /\ t.tok = SubSeq(s, a, end)
        /\ t.save = IF k = 0 THEN Len(s) + 1 ELSE k + 1
    BY <1>5 DEF strtok
  <2>2. a \in from..Len(s) /\ s[a] \notin D /\ \A i \in from..(a - 1) : s[i] \in D
    BY <1>2, <1>5
  <2>3. a \in Nat \ {0}
    BY <2>2
  <2>4. \/ k = 0 /\ \A i \in a..Len(s) : s[i] \notin D
        \/ /\ k \in a..Len(s) /\ s[k] \in D
           /\ \A i \in a..(k - 1) : s[i] \notin D
    BY <2>3, FirstInSpec
  <2> HIDE DEF t, a, k
  <2>5. k # 0 => k # a
    BY <2>2, <2>4
  <2>6. end \in a..Len(s) /\ \A i \in a..end : s[i] \notin D
    BY <1>1, <2>2, <2>4, <2>5
  <2>7. \/ end < Len(s) /\ s[end + 1] \in D /\ t.save = end + 2
        \/ end = Len(s) /\ t.save = end + 1
    BY <1>1, <2>1, <2>2, <2>4, <2>5
  <2>8. TokenAt(s, from, D, t, a, end)
    BY <2>1, <2>2, <2>6, <2>7 DEF TokenAt
  <2>9. t.ok /\ \E x, y \in Nat : TokenAt(s, from, D, t, x, y)
    <3>1. end \in Nat /\ a \in Nat
      BY <1>1, <2>3, <2>6
    <3> HIDE DEF end
    <3> QED  BY <1>3, <1>5, <2>8, <3>1
  <2> QED  BY <2>9 DEF t
<1> QED  BY <1>4, <1>5

\* The characters of t are those of s from i on.
Reads(s, i, t) == /\ i \in 1..(Len(s) - Len(t) + 1)
                  /\ \A j \in 1..Len(t) : s[i + j - 1] = t[j]

LEMMA AtIs ==
  ASSUME NEW S, NEW s \in Seq(S), NEW t \in Seq(S), NEW i \in Int
  PROVE  At(s, i, t) <=> Reads(s, i, t)
<1>1. Len(s) \in Nat /\ Len(t) \in Nat
  OBVIOUS
<1> SUFFICES ASSUME i \in 1..(Len(s) - Len(t) + 1)
             PROVE  (SubSeq(s, i, i + Len(t) - 1) = t)
                      <=> \A j \in 1..Len(t) : s[i + j - 1] = t[j]
  BY DEF At, Reads
<1> DEFINE u == SubSeq(s, i, i + Len(t) - 1)
<1> DEFINE m == i + Len(t) - 1
<1>2. m \in Int /\ \A j \in i..m : s[j] \in S
  BY <1>1
<1>3. (m - i) + 1 = Len(t) /\ (IF i <= m THEN (m - i) + 1 ELSE 0) = Len(t)
  BY <1>1
<1>4. /\ u \in Seq(S) /\ Len(u) = Len(t)
      /\ \A j \in 1..Len(t) : u[j] = s[i + j - 1]
  BY <1>2, <1>3, SubSeqProperties
<1> HIDE DEF u
<1>5. ASSUME \A j \in 1..Len(t) : s[i + j - 1] = t[j] PROVE u = t
  BY <1>4, <1>5, SeqEqual
<1>6. ASSUME u = t PROVE \A j \in 1..Len(t) : s[i + j - 1] = t[j]
  BY <1>4, <1>6
<1> QED  BY <1>5, <1>6 DEF u

\* The characters of a part of s.
LEMMA SubSeqIs ==
  ASSUME NEW S, NEW s \in Seq(S), NEW a \in Nat \ {0}, NEW b \in Nat, b <= Len(s), a <= b + 1
  PROVE  /\ SubSeq(s, a, b) \in Seq(S) /\ Len(SubSeq(s, a, b)) = b - a + 1
         /\ \A i \in 1..(b - a + 1) : SubSeq(s, a, b)[i] = s[a + i - 1]
<1>1. Len(s) \in Nat
  OBVIOUS
<1>2. \A i \in a..b : s[i] \in S
  BY <1>1
<1>3. (IF a <= b THEN b - a + 1 ELSE 0) = b - a + 1
  OBVIOUS
<1> QED  BY <1>2, <1>3, SubSeqProperties

\* The same characters at another place.
LEMMA SubSeqShift ==
  ASSUME NEW S, NEW t \in Seq(S), NEW s \in Seq(S), NEW b \in Nat,
         NEW x \in Nat \ {0}, NEW y \in Nat, x <= y + 1, y <= Len(s), b + y <= Len(t),
         \A j \in x..y : t[j + b] = s[j]
  PROVE  SubSeq(t, b + x, b + y) = SubSeq(s, x, y)
<1> DEFINE u == SubSeq(t, b + x, b + y)
<1> DEFINE v == SubSeq(s, x, y)
<1> DEFINE n == y - x + 1
<1>1. b + x \in Nat \ {0} /\ b + y \in Nat /\ b + x <= (b + y) + 1 /\ (b + y) - (b + x) + 1 = n
  OBVIOUS
<1>2. /\ u \in Seq(S) /\ Len(u) = (b + y) - (b + x) + 1
      /\ \A j \in 1..((b + y) - (b + x) + 1) : u[j] = t[(b + x) + j - 1]
  BY <1>1, SubSeqIs
<1>3. /\ v \in Seq(S) /\ Len(v) = n /\ \A j \in 1..n : v[j] = s[x + j - 1]
  BY SubSeqIs
<1>4. n \in Nat /\ \A j \in 1..n : x + j - 1 \in x..y /\ (x + j - 1) + b = (b + x) + j - 1
  OBVIOUS
<1> HIDE DEF u, v, n
<1>5. \A j \in 1..n : u[j] = v[j]
  BY <1>1, <1>2, <1>3, <1>4
<1>6. u = v
  <2>1. Len(u) = Len(v) /\ \A j \in 1..Len(u) : u[j] = v[j]
    BY <1>1, <1>2, <1>3, <1>5
  <2> QED  BY <1>2, <1>3, <2>1, SeqEqual
<1> QED  BY <1>6 DEF u, v

\* What strspn() returns, and when it returns m.
LEMMA StrspnSpec ==
  ASSUME NEW S, NEW s \in Seq(S), NEW D
  PROVE  LET m == strspn(s, D)
         IN  /\ m \in 0..Len(s) /\ \A i \in 1..m : s[i] \in D
             /\ m < Len(s) => s[m + 1] \notin D
<1> DEFINE k == FirstNotIn(s, 1, D)
<1> DEFINE m == strspn(s, D)
<1>1. Len(s) \in Nat /\ 1 \in Nat \ {0}
  OBVIOUS
<1>2. \/ k = 0 /\ \A i \in 1..Len(s) : s[i] \in D
      \/ /\ k \in 1..Len(s) /\ s[k] \notin D
         /\ \A i \in 1..(k - 1) : s[i] \in D
  BY <1>1, FirstNotInSpec
<1>3. m = IF k = 0 THEN Len(s) ELSE k - 1
  BY DEF strspn
<1> HIDE DEF k, m
<1>4. CASE k = 0
  BY <1>1, <1>2, <1>3, <1>4 DEF m
<1>5. CASE k # 0
  <2>1. k \in 1..Len(s) /\ s[k] \notin D /\ \A i \in 1..(k - 1) : s[i] \in D
    BY <1>2, <1>5
  <2>2. m = k - 1 /\ m \in 0..Len(s) /\ m + 1 = k
    BY <1>1, <1>3, <1>5, <2>1
  <2>3. m \in 0..Len(s) /\ (\A i \in 1..m : s[i] \in D) /\ s[m + 1] \notin D
    BY <2>1, <2>2
  <2> QED  BY <2>3 DEF m
<1> QED  BY <1>4, <1>5

LEMMA StrspnIs ==
  ASSUME NEW S, NEW s \in Seq(S), NEW D, NEW m \in 0..Len(s), \A i \in 1..m : s[i] \in D,
         m < Len(s) => s[m + 1] \notin D
  PROVE  strspn(s, D) = m
<1> DEFINE n == strspn(s, D)
<1>1. /\ n \in 0..Len(s) /\ \A i \in 1..n : s[i] \in D
      /\ n < Len(s) => s[n + 1] \notin D
  BY StrspnSpec
<1> HIDE DEF n
<1>2. Len(s) \in Nat /\ n \in Nat /\ m \in Nat
  BY <1>1
<1>3. n < m => n + 1 \in 1..m /\ n < Len(s)
  BY <1>2
<1>4. m < n => m + 1 \in 1..n /\ m < Len(s)
  BY <1>1, <1>2
<1>5. ~(n < m) /\ ~(m < n)
  BY <1>1, <1>3, <1>4
<1> QED  BY <1>2, <1>5 DEF n

----------------------------------------------------------------------------
(* FlattenSeq()                                                            *)

\* f[i] is the text of the first i parts of s.
Builds(f, s, n) == /\ f[0] = << >>
                   /\ \A i \in 1..n : f[i] = f[i - 1] \o s[i]

LEMMA Built ==
  ASSUME NEW S, NEW s \in Seq(Seq(S)), NEW m \in 0..Len(s)
  PROVE  \E f \in [0..m -> Seq(S)] : Builds(f, s, m)
<1> DEFINE G == {n \in 0..Len(s) : \E f \in [0..n -> Seq(S)] : Builds(f, s, n)}
<1>1. Len(s) \in Nat
  OBVIOUS
<1>2. 0 \in G
  <2> DEFINE f == [i \in 0..0 |-> << >>]
  <2>1. f \in [0..0 -> Seq(S)] /\ Builds(f, s, 0)
    BY DEF Builds
  <2> HIDE DEF f
  <2>2. \E g \in [0..0 -> Seq(S)] : Builds(g, s, 0)
    BY <2>1
  <2> QED  BY <1>1, <2>2
<1>3. ASSUME NEW n \in G, n \in 0..(Len(s) - 1) PROVE n + 1 \in G
  <2>1. PICK f \in [0..n -> Seq(S)] : Builds(f, s, n)
    BY <1>3
  <2> DEFINE g == [i \in 0..(n + 1) |-> IF i <= n THEN f[i] ELSE f[n] \o s[n + 1]]
  <2>2. n + 1 \in 1..Len(s) /\ n \in 0..n /\ n \in Nat
    BY <1>1, <1>3
  <2>3. s[n + 1] \in Seq(S)
    BY <2>2
  <2>4. f[n] \o s[n + 1] \in Seq(S)
    BY <2>2, <2>3, ConcatProperties
  <2>5. g \in [0..(n + 1) -> Seq(S)]
    BY <2>2, <2>4
  <2>6. Builds(g, s, n + 1)
    <3>1. g[0] = << >>
      BY <2>1, <2>2 DEF Builds
    <3>2. ASSUME NEW i \in 1..(n + 1) PROVE g[i] = g[i - 1] \o s[i]
      <4>1. i - 1 \in 0..n /\ i \in 0..(n + 1) /\ i - 1 \in 0..(n + 1) /\ i - 1 <= n
        BY <2>2
      <4>2. g[i - 1] = f[i - 1]
        BY <4>1
      <4>3. CASE i <= n
        <5>1. i \in 1..n
          BY <2>2, <4>3
        <5>2. g[i] = f[i]
          BY <4>1, <4>3
        <5> QED  BY <2>1, <4>2, <5>1, <5>2 DEF Builds
      <4>4. CASE ~(i <= n)
        <5>1. i = n + 1 /\ i - 1 = n
          BY <2>2, <4>4
        <5>2. g[i] = f[n] \o s[n + 1]
          BY <4>1, <4>4
        <5> QED  BY <4>2, <5>1, <5>2
      <4> QED  BY <4>3, <4>4
    <3> QED  BY <3>1, <3>2 DEF Builds
  <2> HIDE DEF g
  <2>7. n + 1 \in 0..Len(s)
    BY <1>1, <2>2
  <2> QED  BY <2>5, <2>6, <2>7
<1> HIDE DEF G
<1>4. 0..Len(s) \subseteq G
  BY <1>1, <1>2, <1>3, Induction
<1> QED  BY <1>4 DEF G

\* The recursive function inside FlattenSeq() is that function.
LEMMA FlattenIs ==
  ASSUME NEW S, NEW s \in Seq(Seq(S)), NEW f \in [0..Len(s) -> Seq(S)], Builds(f, s, Len(s))
  PROVE  FlattenSeq(s) = f[Len(s)]
<1>1. Len(s) \in Nat /\ Len(s) \in 0..Len(s)
  OBVIOUS
<1>2. CASE Len(s) = 0
  BY <1>2 DEF FlattenSeq, Builds
<1>3. CASE Len(s) # 0
  <2> DEFINE Def(g) == [i \in 1..Len(s) |-> IF i = 1 THEN s[i] ELSE g[i - 1] \o s[i]]
  <2> DEFINE F == CHOOSE g : g = Def(g)
  <2>1. FlattenSeq(s) = F[Len(s)]
    BY <1>3 DEF FlattenSeq
  <2> DEFINE h == [i \in 1..Len(s) |-> f[i]]
  <2>2. h = Def(h)
    <3>1. ASSUME NEW i \in 1..Len(s)
          PROVE  h[i] = IF i = 1 THEN s[i] ELSE h[i - 1] \o s[i]
      <4>1. h[i] = f[i - 1] \o s[i]
        BY DEF Builds
      <4>2. CASE i = 1
        <5>1. f[i - 1] = << >> /\ s[i] \in Seq(S)
          BY <4>2 DEF Builds
        <5>2. << >> \o s[i] = s[i]
          BY <5>1, ConcatEmptySeq
        <5> QED  BY <4>1, <4>2, <5>1, <5>2
      <4>3. CASE i # 1
        <5>1. i - 1 \in 1..Len(s)
          BY <1>1, <4>3
        <5> QED  BY <4>1, <4>3, <5>1
      <4> QED  BY <4>2, <4>3
    <3> QED  BY <3>1
  <2> HIDE DEF h, F
  <2>3. F = Def(F)
    BY <2>2 DEF F
  <2> DEFINE G == {n \in 0..Len(s) : n = 0 \/ F[n] = f[n]}
  <2>4. ASSUME NEW n \in G, n \in 0..(Len(s) - 1) PROVE n + 1 \in G
    <3>1. n + 1 \in 1..Len(s) /\ (n + 1) - 1 = n /\ n + 1 \in 0..Len(s)
      BY <1>1, <2>4
    <3>2. F[n + 1] = IF n + 1 = 1 THEN s[n + 1] ELSE F[(n + 1) - 1] \o s[n + 1]
      BY <2>3, <3>1
    <3>3. f[n + 1] = f[(n + 1) - 1] \o s[n + 1]
      BY <3>1 DEF Builds
    <3>4. CASE n = 0
      <4>1. f[n] = << >> /\ s[n + 1] \in Seq(S)
        BY <3>1, <3>4 DEF Builds
      <4>2. << >> \o s[n + 1] = s[n + 1]
        BY <4>1, ConcatEmptySeq
      <4>3. F[n + 1] = f[n + 1]
        BY <3>1, <3>2, <3>3, <3>4, <4>1, <4>2
      <4> QED  BY <3>1, <4>3
    <3>5. CASE n # 0
      <4>1. F[n] = f[n] /\ n + 1 # 1
        BY <2>4, <3>5
      <4>2. F[n + 1] = f[n + 1]
        BY <3>1, <3>2, <3>3, <4>1
      <4> QED  BY <3>1, <4>2
    <3> QED  BY <3>4, <3>5
  <2>5. 0 \in G
    BY <1>1
  <2> HIDE DEF G
  <2>6. 0..Len(s) \subseteq G
    BY <1>1, <2>4, <2>5, Induction
  <2>7. Len(s) \in G
    BY <1>1, <2>6
  <2> QED  BY <1>3, <2>1, <2>7 DEF G
<1> QED  BY <1>2, <1>3

\* A text does not change in front when it is continued.
LEMMA BuiltPrefix ==
  ASSUME NEW S, NEW s \in Seq(Seq(S)), NEW m \in Nat, m <= Len(s),
         NEW f \in [0..m -> Seq(S)], Builds(f, s, m), NEW j \in 0..m, NEW i \in 0..j
  PROVE  /\ Len(f[i]) <= Len(f[j])
         /\ \A p \in 1..Len(f[i]) : f[j][p] = f[i][p]
<1> DEFINE Good(n) == \A k \in 0..n : /\ Len(f[k]) <= Len(f[n])
                                      /\ \A p \in 1..Len(f[k]) : f[n][p] = f[k][p]
<1> DEFINE G == {n \in 0..m : Good(n)}
<1>1. \A n \in 0..m : f[n] \in Seq(S) /\ Len(f[n]) \in Nat
  OBVIOUS
<1>2. 0 \in G
  <2>1. \A k \in 0..0 : k = 0
    OBVIOUS
  <2>2. Len(f[0]) \in Nat
    BY <1>1
  <2>3. Good(0)
    BY <2>1, <2>2
  <2> HIDE DEF Good
  <2> QED  BY <2>3
<1>3. ASSUME NEW n \in G, n \in 0..(m - 1) PROVE n + 1 \in G
  <2>1. n + 1 \in 1..m /\ n + 1 \in 1..Len(s) /\ (n + 1) - 1 = n /\ n \in 0..m /\ n + 1 \in 0..m
    BY <1>3
  <2>2. f[n + 1] = f[n] \o s[n + 1] /\ s[n + 1] \in Seq(S)
    <3>1. f[n + 1] = f[(n + 1) - 1] \o s[n + 1]
      BY <2>1 DEF Builds
    <3>2. s[n + 1] \in Seq(S)
      BY <2>1
    <3> QED  BY <2>1, <3>1, <3>2
  <2>3. Joined(f[n + 1], f[n], s[n + 1])
    BY <1>1, <2>1, <2>2, ConcatAt
  <2>4. /\ Len(f[n]) <= Len(f[n + 1])
        /\ \A p \in 1..Len(f[n]) : f[n + 1][p] = f[n][p]
    <3>1. f[n] \in Seq(S)
      BY <1>1, <2>1
    <3> QED  BY <2>2, <2>3, <3>1, JoinedIn
  <2>5. ASSUME NEW k \in 0..(n + 1)
        PROVE  /\ Len(f[k]) <= Len(f[n + 1])
               /\ \A p \in 1..Len(f[k]) : f[n + 1][p] = f[k][p]
    <3>1. CASE k = n + 1
      BY <1>1, <2>1, <3>1
    <3>2. CASE k # n + 1
      <4>1. k \in 0..n /\ k \in 0..m
        BY <2>1, <3>2
      <4>2. /\ Len(f[k]) <= Len(f[n])
            /\ \A p \in 1..Len(f[k]) : f[n][p] = f[k][p]
        BY <1>3, <4>1
      <4>3. Len(f[k]) \in Nat /\ Len(f[n]) \in Nat /\ Len(f[n + 1]) \in Nat
        BY <1>1, <2>1, <4>1
      <4>4. \A p \in 1..Len(f[k]) : p \in 1..Len(f[n])
        BY <4>2, <4>3
      <4> QED  BY <2>4, <4>2, <4>3, <4>4
    <3> QED  BY <3>1, <3>2
  <2> QED  BY <2>1, <2>5
<1> HIDE DEF G
<1>4. 0..m \subseteq G
  BY <1>2, <1>3, Induction
<1>5. Good(j)
  BY <1>4 DEF G
<1> QED  BY <1>5

\* Part i of s is what t has behind e[i - 1] up to e[i].
Laid(t, s, e) ==
  /\ e \in [0..Len(s) -> Nat] /\ e[0] = 0 /\ e[Len(s)] = Len(t)
  /\ \A i \in 1..Len(s) : /\ e[i] = e[i - 1] + Len(s[i])
                         /\ \A j \in 1..Len(s[i]) : t[j + e[i - 1]] = s[i][j]
  /\ \A i, j \in 0..Len(s) : i <= j => e[i] <= e[j]

\* FlattenSeq() puts the parts one behind the other.
LEMMA FlattenLaid ==
  ASSUME NEW S, NEW s \in Seq(Seq(S))
  PROVE  FlattenSeq(s) \in Seq(S) /\ \E e : Laid(FlattenSeq(s), s, e)
<1> DEFINE n == Len(s)
<1>1. n \in Nat /\ n \in 0..n /\ n <= Len(s)
  OBVIOUS
<1>2. PICK f \in [0..n -> Seq(S)] : Builds(f, s, n)
  BY <1>1, Built
<1> DEFINE t == FlattenSeq(s)
<1>3. t = f[n]
  BY <1>2, FlattenIs
<1> DEFINE e == [k \in 0..n |-> Len(f[k])]
<1>4. e \in [0..n -> Nat] /\ e[0] = 0 /\ e[n] = Len(t) /\ t \in Seq(S)
  <2>1. e \in [0..n -> Nat] /\ t \in Seq(S)
    BY <1>1, <1>3
  <2>2. e[0] = 0 /\ e[n] = Len(t)
    <3>1. 0 \in 0..n
      BY <1>1
    <3>2. f[0] = << >>
      BY <1>2 DEF Builds
    <3> QED  BY <1>1, <1>3, <3>1, <3>2
  <2> QED  BY <2>1, <2>2
<1>5. ASSUME NEW i \in 1..n
      PROVE  /\ e[i] = e[i - 1] + Len(s[i])
             /\ \A j \in 1..Len(s[i]) : t[j + e[i - 1]] = s[i][j]
  <2>1. i - 1 \in 0..n /\ i \in 0..n
    BY <1>1
  <2>2. e[i] = Len(f[i]) /\ e[i - 1] = Len(f[i - 1])
    BY <2>1
  <2>3. f[i - 1] \in Seq(S) /\ s[i] \in Seq(S) /\ Len(f[i - 1]) \in Nat /\ Len(s[i]) \in Nat
    BY <2>1
  <2> HIDE DEF e, t
  <2>4. f[i] = f[i - 1] \o s[i]
    BY <1>2 DEF Builds
  <2>5. Joined(f[i], f[i - 1], s[i])
    BY <2>3, <2>4, ConcatAt
  <2>6. /\ Len(f[i]) = Len(f[i - 1]) + Len(s[i])
        /\ \A j \in 1..Len(s[i]) : f[i][j + Len(f[i - 1])] = s[i][j]
    BY <2>5 DEF Joined
  <2>7. \A p \in 1..Len(f[i]) : f[n][p] = f[i][p]
    <3>1. i \in 0..n /\ n \in 0..n /\ n \in Nat /\ n <= Len(s)
      BY <1>1, <2>1
    <3> QED  BY <1>2, <3>1, BuiltPrefix
  <2>8. \A j \in 1..Len(s[i]) : j + Len(f[i - 1]) \in 1..Len(f[i])
    BY <2>3, <2>5, JoinedIn
  <2> QED  BY <1>3, <2>2, <2>6, <2>7, <2>8
<1>6. \A i, j \in 0..n : i <= j => e[i] <= e[j]
  <2> SUFFICES ASSUME NEW i \in 0..n, NEW j \in 0..n, i <= j PROVE e[i] <= e[j]
    OBVIOUS
  <2>1. i \in 0..j
    OBVIOUS
  <2>2. Len(f[i]) <= Len(f[j])
    BY <1>1, <1>2, <2>1, BuiltPrefix
  <2> QED  BY <2>2
<1> HIDE DEF e, t
<1>7. Laid(t, s, e)
  BY <1>4, <1>5, <1>6 DEF Laid
<1> QED  BY <1>4, <1>7 DEF t

\* Each position of such a text is in one of the parts.
LEMMA Located ==
  ASSUME NEW t, NEW S, NEW s \in Seq(Seq(S)), NEW e, Laid(t, s, e), Len(t) \in Nat,
         NEW p \in 1..Len(t)
  PROVE  \E i \in 1..Len(s) : /\ i - 1 \in 0..Len(s) /\ e[i - 1] \in Nat
                              /\ p - e[i - 1] \in 1..Len(s[i])
<1> DEFINE T == {i \in 0..Len(s) : p <= e[i]}
<1>1. Len(s) \in Nat
  OBVIOUS
<1>2. T \in SUBSET Nat /\ Len(s) \in T
  BY <1>1 DEF Laid
<1> HIDE DEF T
<1>3. PICK k \in T : \A y \in T : k <= y
  BY <1>2, MinIn
<1>4. k \in 0..Len(s) /\ p <= e[k] /\ k # 0
  BY <1>3 DEF T, Laid
<1>5. k - 1 \in 0..Len(s) /\ k \in 1..Len(s) /\ ~(k <= k - 1)
  BY <1>1, <1>4
<1>6. ~(p <= e[k - 1])
  BY <1>3, <1>5 DEF T
<1>7. e[k - 1] \in Nat /\ e[k] = e[k - 1] + Len(s[k]) /\ e[k] \in Nat
  BY <1>4, <1>5 DEF Laid
<1>8. Len(s[k]) \in Nat
  BY <1>5
<1>9. p - e[k - 1] \in 1..Len(s[k])
  BY <1>4, <1>6, <1>7, <1>8
<1> QED  BY <1>5, <1>7, <1>9
=============================================================================
