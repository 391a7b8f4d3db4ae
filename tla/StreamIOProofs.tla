--------------------------- MODULE StreamIOProofs ---------------------------
(***************************************************************************)
(* The reading and writing loops, for every length of the stream, every    *)
(* place of its line ends, every size the caller asks for, every size of   *)
(* the buffer of rio_t and any number of system calls that fail.           *)
(*                                                                         *)
(* The function that is called never changes, so the invariant has a part  *)
(* for each function and each action disturbs one part.                    *)
(***************************************************************************)
EXTENDS StreamIO, SequenceTheorems, TLAPS

----------------------------------------------------------------------------
(* What makes them inductive, function by function.                        *)

\* What Read_s() has stored and still has to read is what it was asked for.
Read_sInv == fn = "Read_s" =>
  /\ pc \in {"idle", "loop"}
  /\ pc = "loop" => /\ count \in 1..sz /\ Len(buf) + count = sz
                    /\ data \o buf = Bytes(0, taken)
  /\ pc = "idle" => data = Bytes(0, taken)

\* Only readline() puts a '\0' behind what it has stored, and wastes attempts.
NoLine == fn # "readline" => zero = 0 /\ wasted = 0

\* readline() has made an attempt for each byte and each attempt it wasted, and
\* has met no '\n'; its '\0' lies behind the last byte.
ReadlineInv == fn = "readline" =>
  /\ pc \in {"idle", "loop"}
  /\ zero \in {0, Len(buf) + 1}
  /\ pc = "loop" => /\ count \in 0..(sz - 1) /\ Len(buf) + wasted = count
                    /\ zero = 0
                    /\ \A i \in DOMAIN buf : buf[i] \notin NewLines
  /\ pc = "loop" /\ errors = 0 => data \o buf = Bytes(0, taken)
  /\ pc = "idle" /\ errors = 0 => data = Bytes(0, taken)

\* http_rcv() calls recv() once, for the whole buffer.
HttpRcvInv == fn = "http_rcv" =>
  /\ pc \in {"idle", "loop"}
  /\ pc = "loop" => count = sz /\ buf = << >>

\* rio_read() holds no more than its buffer has.
RioReadInv == fn = "rio_read" => pc \notin {"done", "broke"} /\ nread <= Len(rbuf)

\* The pointer and the count of a writing loop go together, also after -1 was
\* subtracted from both.
WriteInv == fn \in Writers =>
  /\ pc \in {"idle", "loop", "done", "broke"} /\ buf = << >> /\ rbuf = << >>
  /\ pc = "idle" => data = << >> /\ ptr = 1
  /\ pc # "idle" => /\ ptr + count = sz + 1 /\ count <= sz + errors
                    /\ fn = "rio_write" => count <= sz
                    /\ 1..(ptr - 1) \subseteq {data[i] : i \in DOMAIN data}
  /\ fn = "Write_s" /\ pc \in {"done", "broke"} => ret = sz - count
  /\ fn = "Write_s" /\ pc = "done" => count = 0

IInv == /\ TypeOK /\ ReadsStop /\ RioExact
        /\ NoLine
        /\ Read_sInv /\ ReadlineInv /\ HttpRcvInv /\ RioReadInv /\ WriteInv

----------------------------------------------------------------------------
(* Bytes.                                                                  *)

\* A run of bytes is a sequence of the positions that follow the first.
LEMMA BytesProperties ==
  ASSUME NEW a \in Nat, NEW b \in Nat, a <= b
  PROVE  /\ Bytes(a, b) \in Seq((a + 1)..b)
         /\ Bytes(a, b) \in Seq(Nat)
         /\ Len(Bytes(a, b)) = b - a
         /\ \A i \in 1..(b - a) : Bytes(a, b)[i] = a + i
<1>1. b - a \in Nat
  OBVIOUS
<1>2. \A i \in 1..(b - a) : a + i \in (a + 1)..b
  OBVIOUS
<1>3. Bytes(a, b) \in [1..(b - a) -> (a + 1)..b]
  BY <1>2 DEF Bytes
<1>4. Bytes(a, b) \in Seq((a + 1)..b)
  BY <1>1, <1>3, SeqDef
<1>5. Bytes(a, b) \in Seq(Nat)
  <2>1. (a + 1)..b \subseteq Nat
    OBVIOUS
  <2> QED  BY <2>1, <1>4, SeqMonotonic
<1>6. Len(Bytes(a, b)) = b - a
  <2>1. DOMAIN Bytes(a, b) = 1..Len(Bytes(a, b)) /\ Len(Bytes(a, b)) \in Nat
    BY <1>4, LenProperties
  <2>2. DOMAIN Bytes(a, b) = 1..(b - a)
    BY DEF Bytes
  <2> QED  BY <2>1, <2>2, <1>1
<1> QED  BY <1>4, <1>5, <1>6 DEF Bytes

\* Two adjacent runs make one.
LEMMA BytesConcat ==
  ASSUME NEW a \in Nat, NEW b \in Nat, a <= b
  PROVE  Bytes(0, a) \o Bytes(a, b) = Bytes(0, b)
<1> DEFINE s == Bytes(0, a)
           t == Bytes(a, b)
           u == Bytes(0, b)
<1>1. s \in Seq(Nat) /\ Len(s) = a /\ \A i \in 1..a : s[i] = i
  <2>1. /\ s \in Seq(Nat) /\ Len(s) = a - 0
        /\ \A i \in 1..(a - 0) : s[i] = 0 + i
    BY BytesProperties, 0 <= a
  <2> QED  BY <2>1
<1>2. t \in Seq(Nat) /\ Len(t) = b - a /\ \A i \in 1..(b - a) : t[i] = a + i
  BY BytesProperties
<1>3. u \in Seq(Nat) /\ Len(u) = b /\ \A i \in 1..b : u[i] = i
  <2>1. /\ u \in Seq(Nat) /\ Len(u) = b - 0
        /\ \A i \in 1..(b - 0) : u[i] = 0 + i
    BY BytesProperties, 0 <= b
  <2> QED  BY <2>1
<1> HIDE DEF s, t, u
<1>4. /\ s \o t \in Seq(Nat) /\ Len(s \o t) = b
      /\ \A i \in 1..b : (s \o t)[i] = IF i <= a THEN s[i] ELSE t[i - a]
  <2>1. /\ s \o t \in Seq(Nat) /\ Len(s \o t) = Len(s) + Len(t)
        /\ \A i \in 1..(Len(s) + Len(t)) :
             (s \o t)[i] = IF i <= Len(s) THEN s[i] ELSE t[i - Len(s)]
    BY <1>1, <1>2, ConcatProperties, Zenon
  <2>2. Len(s) = a /\ Len(s) + Len(t) = b
    BY <1>1, <1>2
  <2> QED  BY <2>1, <2>2, Zenon
<1>5. ASSUME NEW i \in 1..b PROVE (s \o t)[i] = u[i]
  <2>1. (s \o t)[i] = (IF i <= a THEN s[i] ELSE t[i - a]) /\ u[i] = i
    BY <1>3, <1>4
  <2>2. CASE i <= a
    BY <1>1, <2>1, <2>2
  <2>3. CASE ~(i <= a)
    <3>1. i - a \in 1..(b - a) /\ a + (i - a) = i
      BY <2>3
    <3>2. t[i - a] = a + (i - a)
      BY <1>2, <3>1, Zenon
    <3> QED  BY <2>1, <2>3, <3>1, <3>2, Zenon
  <2> QED  BY <2>2, <2>3
<1>6. s \o t = u
  BY <1>3, <1>4, <1>5, SeqEqual
<1> QED  BY <1>6 DEF s, t, u

\* A run grows by the byte that follows it.
LEMMA BytesAppend ==
  ASSUME NEW a \in Nat
  PROVE  <<a + 1>> = Bytes(a, a + 1)
<1>1. (a + 1) - a = 1
  OBVIOUS
<1> QED  BY <1>1 DEF Bytes

\* The elements of a sequence.
Elements(s) == {s[i] : i \in DOMAIN s}

\* The elements of a concatenation are those of its two parts.
LEMMA ElementsOfConcat ==
  ASSUME NEW S, NEW s \in Seq(S), NEW t \in Seq(S)
  PROVE  Elements(s \o t) = Elements(s) \cup Elements(t)
<1>1. /\ Len(s) \in Nat /\ DOMAIN s = 1..Len(s)
      /\ Len(t) \in Nat /\ DOMAIN t = 1..Len(t)
  BY LenProperties
<1>2. /\ DOMAIN (s \o t) = 1..(Len(s) + Len(t))
      /\ \A i \in 1..(Len(s) + Len(t)) :
           (s \o t)[i] = IF i <= Len(s) THEN s[i] ELSE t[i - Len(s)]
  BY ConcatProperties, LenProperties
<1>3. \A i \in DOMAIN s : i \in DOMAIN (s \o t) /\ (s \o t)[i] = s[i]
  BY <1>1, <1>2
<1>4. \A i \in DOMAIN t : /\ i + Len(s) \in DOMAIN (s \o t)
                          /\ (s \o t)[i + Len(s)] = t[i]
  BY <1>1, <1>2
<1>5. \A i \in DOMAIN (s \o t) : \/ i \in DOMAIN s /\ (s \o t)[i] = s[i]
                                \/ /\ i - Len(s) \in DOMAIN t
                                   /\ (s \o t)[i] = t[i - Len(s)]
  BY <1>1, <1>2
<1>6. {(s \o t)[i] : i \in DOMAIN (s \o t)} \subseteq
        {s[i] : i \in DOMAIN s} \cup {t[i] : i \in DOMAIN t}
  BY <1>5
<1>7. {s[i] : i \in DOMAIN s} \subseteq {(s \o t)[i] : i \in DOMAIN (s \o t)}
  BY <1>3
<1>8. {t[i] : i \in DOMAIN t} \subseteq {(s \o t)[i] : i \in DOMAIN (s \o t)}
  BY <1>4
<1> QED  BY <1>6, <1>7, <1>8, Zenon DEF Elements

----------------------------------------------------------------------------
(* What is handed over.                                                    *)

\* What data may hold: bytes of the stream, or positions of the buffer.
Data == (1 - MaxErrors)..Larger(sz, StreamLen)

\* Bytes of the stream are data.
LEMMA StreamIsData == 1..StreamLen \subseteq Data
  BY StreamIOAssumption DEF Data, Larger

\* What a call hands over is added to what was handed over before.
LEMMA HandOver ==
  ASSUME NEW d \in Seq(Data), NEW b \in Seq(1..StreamLen)
  PROVE  d \o b \in Seq(Data) /\ Len(d \o b) = Len(d) + Len(b)
<1>1. b \in Seq(Data)
  BY StreamIsData, SeqMonotonic
<1> QED  BY <1>1, ConcatProperties

\* What read() stores behind the bytes in the buffer.
LEMMA Stored ==
  ASSUME NEW b \in Seq(1..StreamLen), NEW k \in 0..StreamLen,
         NEW n \in Nat, k + n <= StreamLen
  PROVE  /\ Bytes(k, k + n) \in Seq(1..StreamLen) /\ Len(Bytes(k, k + n)) = n
         /\ b \o Bytes(k, k + n) \in Seq(1..StreamLen)
         /\ Len(b \o Bytes(k, k + n)) = Len(b) + n
<1>1. k \in Nat /\ k + n \in Nat /\ k <= k + n /\ (k + n) - k = n
  BY StreamIOAssumption
<1>2. Bytes(k, k + n) \in Seq((k + 1)..(k + n)) /\ Len(Bytes(k, k + n)) = n
  BY <1>1, BytesProperties
<1>3. (k + 1)..(k + n) \subseteq 1..StreamLen
  BY StreamIOAssumption
<1>4. Bytes(k, k + n) \in Seq(1..StreamLen)
  BY <1>2, <1>3, SeqMonotonic
<1> QED  BY <1>2, <1>4, ConcatProperties

\* It does not matter in which order parts of the data are put together.
LEMMA DataAssociative ==
  \A x, y, z \in Seq(Data) : (x \o y) \o z = x \o (y \o z)
  BY ConcatAssociative

\* The bytes read next follow those handed over and those in the buffer.
LEMMA ReadOn ==
  ASSUME NEW d \in Seq(Data), NEW b \in Seq(1..StreamLen),
         NEW k \in 0..StreamLen, NEW n \in Nat, k + n <= StreamLen,
         d \o b = Bytes(0, k)
  PROVE  d \o (b \o Bytes(k, k + n)) = Bytes(0, k + n)
<1>1. k \in Nat /\ k + n \in Nat /\ k <= k + n
  BY StreamIOAssumption
<1>2. Bytes(k, k + n) \in Seq(1..StreamLen)
  BY Stored
<1>3. b \in Seq(Data) /\ Bytes(k, k + n) \in Seq(Data)
  BY <1>2, StreamIsData, SeqMonotonic
<1>4. (d \o b) \o Bytes(k, k + n) = d \o (b \o Bytes(k, k + n))
  BY <1>3, DataAssociative, Zenon
<1> QED  BY <1>1, <1>4, BytesConcat

----------------------------------------------------------------------------
(* The invariant holds at the start, and every step keeps it.              *)

\* A function that puts no '\0' anywhere touches what it stores.
LEMMA StoresOnly ==
  ASSUME zero' = 0, buf' \in Seq(1..StreamLen), Len(buf') <= sz
  PROVE  Fits' /\ LineLength'
<1>1. Len(buf') \in Nat /\ sz \in Nat
  BY LenProperties, StreamIOAssumption
<1>2. Touched' = Len(buf')
  BY <1>1 DEF Touched, Larger
<1> QED  BY <1>1, <1>2 DEF Fits, LineLength

\* No call has been made.
LEMMA InitIInv == Init => IInv
<1> SUFFICES ASSUME Init PROVE IInv
  OBVIOUS
<1>1. TypeOK
  <2>1. << >> \in Seq(1..StreamLen) /\ << >> \in Seq(Data)
    BY EmptySeq
  <2>2. /\ fn \in Readers \cup Writers /\ eof \in BOOLEAN
        /\ pc \in {"idle", "loop", "done", "broke", "crashed"}
        /\ buf \in Seq(1..StreamLen) /\ data \in Seq(Data) /\ rbuf \in Seq(1..StreamLen)
    BY <2>1 DEF Init
  <2>3. /\ arrived \in 0..StreamLen /\ taken \in 0..StreamLen /\ errors \in 0..MaxErrors
        /\ count \in 0..(sz + MaxErrors) /\ ret \in (-1 - MaxErrors)..sz
        /\ zero \in 0..(sz + 1) /\ wasted \in 0..sz /\ nread \in -1..RIO_BUFSIZE
        /\ ptr \in (1 - MaxErrors)..(sz + 1)
    BY StreamIOAssumption DEF Init
  <2> QED  BY <2>2, <2>3 DEF TypeOK, Data
<1>2. << >> = Bytes(0, 0)
  BY DEF Bytes
<1>3. Len(<< >>) = 0
  BY EmptySeq
<1>4. ReadsStop /\ RioExact /\ NoLine
  BY <1>3, StreamIOAssumption
  DEF Init, ReadsStop, Fits, Touched, Larger, OneLine, LineLength, RioExact, RioCounts,
      RioPrefix, NoLine
<1>5. Read_sInv /\ ReadlineInv /\ HttpRcvInv /\ RioReadInv /\ WriteInv
  <2>1. Read_sInv /\ ReadlineInv
    BY <1>2, <1>3 DEF Init, Read_sInv, ReadlineInv
  <2>2. HttpRcvInv /\ WriteInv
    BY DEF Init, HttpRcvInv, WriteInv
  <2>3. RioReadInv
    BY <1>3 DEF Init, RioReadInv
  <2> QED  BY <2>1, <2>2, <2>3
<1> QED  BY <1>1, <1>4, <1>5 DEF IInv

\* The peer sends or closes: the invariant does not relate it to the reader.
LEMMA PeerIInv ==
  ASSUME IInv, PeerSends \/ PeerCloses
  PROVE  IInv'
<1>1. /\ arrived' \in 0..StreamLen /\ eof' \in BOOLEAN
      /\ UNCHANGED <<fn, taken, pc, count, buf, zero, wasted, data, ret, rbuf, nread, ptr,
                     errors>>
  <2>1. CASE PeerSends
    BY <2>1, StreamIOAssumption DEF IInv, TypeOK, PeerSends, rio, line
  <2>2. CASE PeerCloses
    BY <2>2 DEF IInv, TypeOK, PeerCloses, rio, line
  <2> QED  BY <2>1, <2>2
<1>2. TypeOK' /\ ReadsStop' /\ RioExact' /\ NoLine'
  BY <1>1 DEF IInv, TypeOK, ReadsStop, Fits, Touched, OneLine, LineLength, RioExact,
              RioCounts, RioPrefix, NoLine
<1>3. Read_sInv' /\ ReadlineInv' /\ HttpRcvInv' /\ RioReadInv'
  BY <1>1 DEF IInv, Read_sInv, ReadlineInv, HttpRcvInv, RioReadInv
<1>4. WriteInv'
  BY <1>1 DEF IInv, WriteInv
<1> QED  BY <1>2, <1>3, <1>4 DEF IInv

\* A call begins with an empty buffer.
LEMMA CallIInv ==
  ASSUME IInv, Call
  PROVE  IInv'
<1> USE DEF IInv
<1>1. /\ pc = "idle" /\ pc' = "loop" /\ buf' = << >>
      /\ count' = (IF fn = "readline" THEN 0 ELSE sz)
      /\ zero' = 0 /\ wasted' = 0
      /\ UNCHANGED <<fn, arrived, eof, taken, data, ret, rbuf, nread, ptr, errors>>
  BY DEF Call, peer, rio
<1>2. << >> \in Seq(1..StreamLen) /\ Len(<< >>) = 0
  BY EmptySeq
<1>3. TypeOK'
  BY <1>1, <1>2, StreamIOAssumption DEF TypeOK
<1>4. ReadsStop' /\ NoLine'
  <2>1. OneLine' /\ NoLine'
    BY <1>1, <1>2 DEF OneLine, NoLine
  <2>2. zero' = 0 /\ Len(buf') <= sz
    BY <1>1, <1>2, StreamIOAssumption
  <2>3. Fits' /\ LineLength'
    BY <1>3, <2>2, StoresOnly DEF TypeOK
  <2> QED  BY <2>1, <2>3 DEF ReadsStop
<1>5. data \o << >> = data
  BY ConcatEmptySeq DEF TypeOK
<1>6. Read_sInv' /\ ReadlineInv'
  <2>1. Read_sInv'
    <3>1. CASE fn = "Read_s"
      <4>1. count' \in 1..sz /\ Len(buf') + count' = sz
        BY <1>1, <1>2, <3>1, StreamIOAssumption
      <4>2. data' \o buf' = Bytes(0, taken')
        BY <1>1, <1>5, <3>1 DEF Read_sInv
      <4> QED  BY <1>1, <4>1, <4>2 DEF Read_sInv
    <3> QED  BY <1>1, <3>1 DEF Read_sInv
  <2>2. ReadlineInv'
    <3>1. CASE fn = "readline"
      <4>1. /\ count' \in 0..(sz - 1) /\ Len(buf') + wasted' = count' /\ zero' = 0
            /\ \A i \in DOMAIN buf' : buf'[i] \notin NewLines
        BY <1>1, <1>2, <3>1, StreamIOAssumption
      <4>2. errors' = 0 => data' \o buf' = Bytes(0, taken')
        BY <1>1, <1>5, <3>1 DEF ReadlineInv
      <4> QED  BY <1>1, <4>1, <4>2 DEF ReadlineInv
    <3> QED  BY <1>1, <3>1 DEF ReadlineInv
  <2> QED  BY <2>1, <2>2
<1>7. HttpRcvInv' /\ RioReadInv'
  BY <1>1 DEF HttpRcvInv, RioReadInv
<1>8. RioExact'
  <2>1. sz - sz = 0 /\ << >> = Bytes(0, 0)
    BY StreamIOAssumption DEF Bytes
  <2> QED  BY <1>1, <2>1 DEF RioExact, RioCounts, RioPrefix, WriteInv, Writers
<1>9. WriteInv'
  BY <1>1, StreamIOAssumption DEF WriteInv, Writers, TypeOK
<1> QED  BY <1>3, <1>4, <1>6, <1>7, <1>8, <1>9

\* The invariant when Read_s() is called: the parts of the others are vacuous.
LEMMA Read_sOnly ==
  ASSUME TypeOK', fn' = "Read_s", NoLine', Len(buf') <= sz, Read_sInv'
  PROVE  IInv'
<1>1. Fits' /\ LineLength'
  <2>1. zero' = 0 /\ buf' \in Seq(1..StreamLen) /\ Len(buf') <= sz
    BY DEF NoLine, TypeOK
  <2> QED  BY <2>1, StoresOnly
<1> QED  BY <1>1
         DEF IInv, ReadsStop, OneLine, RioExact, RioCounts, RioPrefix, ReadlineInv,
             HttpRcvInv, RioReadInv, WriteInv, Writers

\* Read_s(): what read() returns is stored behind what the call has already.
LEMMA Read_sIInv ==
  ASSUME IInv, Read_sStops \/ \E n \in 1..StreamLen : Read_sGot(n)
  PROVE  IInv'
<1> USE DEF IInv
<1>1. ASSUME NEW n \in 1..StreamLen, Read_sGot(n) PROVE IInv'
  <2>1. /\ pc = "loop" /\ fn = "Read_s" /\ n \in Nat /\ n <= count
        /\ taken' = taken + n /\ taken + n <= StreamLen /\ count' = count - n
        /\ buf' = buf \o Bytes(taken, taken + n)
        /\ UNCHANGED <<fn, arrived, eof, zero, wasted, rbuf, nread, ptr, errors>>
        /\ NoLine'
    BY <1>1, StreamIOAssumption
    DEF Read_sGot, In, Got, Smaller, TypeOK, peer, rio, line, NoLine
  <2>2. /\ count \in 1..sz /\ Len(buf) + count = sz
        /\ data \o buf = Bytes(0, taken)
    BY <2>1 DEF Read_sInv
  <2>3. buf' \in Seq(1..StreamLen) /\ Len(buf') = Len(buf) + n
    BY <2>1, Stored DEF TypeOK
  <2>4. data \o buf' = Bytes(0, taken')
    BY <2>1, <2>2, ReadOn DEF TypeOK, Data
  <2>5. data \o buf' \in Seq(Data)
    BY <2>3, HandOver DEF TypeOK, Data
  <2>6. CASE n = count
    <3>1. pc' = "idle" /\ ret' = sz /\ data' = data \o buf'
      BY <1>1, <2>6 DEF Read_sGot, Return
    <3>2. TypeOK'
      BY <2>1, <2>2, <2>3, <2>5, <3>1, StreamIOAssumption DEF TypeOK, Data
    <3>3. Len(buf') <= sz
      BY <2>1, <2>2, <2>3, LenProperties DEF TypeOK
    <3> QED  BY <2>1, <2>4, <3>1, <3>2, <3>3, Read_sOnly DEF Read_sInv
  <2>7. CASE n # count
    <3>1. UNCHANGED <<pc, ret, data>>
      BY <1>1, <2>7 DEF Read_sGot
    <3>2. TypeOK'
      BY <2>1, <2>2, <2>3, <3>1, StreamIOAssumption DEF TypeOK
    <3>3. count' \in 1..sz /\ Len(buf') + count' = sz /\ Len(buf') <= sz
      <4>1. Len(buf) \in Nat
        BY LenProperties DEF TypeOK
      <4>2. count' \in 1..sz
        BY <2>1, <2>2, <2>7, StreamIOAssumption
      <4>3. Len(buf') = Len(buf) + n /\ count' = count - n /\ n \in Nat
        BY <2>1, <2>3, Zenon
      <4> QED  BY <2>2, <4>1, <4>2, <4>3, StreamIOAssumption
    <3>4. Read_sInv'
      BY <2>1, <2>4, <3>1, <3>3 DEF Read_sInv
    <3> QED  BY <2>1, <3>2, <3>3, <3>4, Read_sOnly
  <2> QED  BY <2>6, <2>7
<1>2. ASSUME Read_sStops PROVE IInv'
  <2>1. /\ pc = "loop" /\ fn = "Read_s" /\ pc' = "idle" /\ ret' = sz - count
        /\ data' = data \o buf /\ errors' \in 0..MaxErrors
        /\ UNCHANGED <<fn, arrived, eof, taken, count, buf, zero, wasted, rbuf, nread, ptr>>
        /\ NoLine'
    BY <1>2, StreamIOAssumption
    DEF Read_sStops, In, Return, Broken, TypeOK, peer, rio, line, NoLine
  <2>2. count \in 1..sz /\ data \o buf = Bytes(0, taken)
    BY <2>1 DEF Read_sInv
  <2>3. data' \in Seq(Data)
    BY <2>1, HandOver DEF TypeOK, Data
  <2>4. TypeOK'
    BY <2>1, <2>2, <2>3, StreamIOAssumption DEF TypeOK, Data
  <2>5. Read_sInv' /\ Len(buf') <= sz
    BY <2>1, <2>2 DEF Read_sInv, ReadsStop, Fits
  <2> QED  BY <2>1, <2>4, <2>5, Read_sOnly
<1> QED  BY <1>1, <1>2

\* http_rcv(): one recv() for the whole buffer.
LEMMA HttpRcvIInv ==
  ASSUME IInv,
         HttpRcvEof \/ HttpRcvFails \/ \E n \in 1..StreamLen : HttpRcvGot(n)
  PROVE  IInv'
<1> USE DEF IInv
<1>1. /\ fn = "http_rcv" /\ pc = "loop" /\ pc' = "idle"
      /\ UNCHANGED <<fn, arrived, eof, count, zero, wasted, data, rbuf, nread, ptr>>
      /\ ret' \in {-1, 0} /\ errors' \in 0..MaxErrors
      /\ zero = 0 /\ wasted = 0
  <2>1. fn = "http_rcv" /\ zero = 0 /\ wasted = 0
    BY DEF HttpRcvEof, HttpRcvFails, HttpRcvGot, In, NoLine
  <2> QED  BY <2>1, StreamIOAssumption
           DEF HttpRcvEof, HttpRcvFails, HttpRcvGot, In, Return, Broken, TypeOK, peer,
               rio, line
<1>2. /\ taken' \in 0..StreamLen
      /\ buf' \in Seq(1..StreamLen) /\ Len(buf') <= sz
  <2>1. CASE HttpRcvEof \/ HttpRcvFails
    BY <2>1 DEF HttpRcvEof, HttpRcvFails, TypeOK, ReadsStop, Fits
  <2>2. ASSUME NEW n \in 1..StreamLen, HttpRcvGot(n)
        PROVE  /\ taken' \in 0..StreamLen
               /\ buf' \in Seq(1..StreamLen) /\ Len(buf') <= sz
    <3>1. count = sz /\ buf = << >> /\ Len(buf) = 0
      BY <1>1, EmptySeq DEF HttpRcvInv
    <3>2. /\ n \in Nat /\ n <= sz /\ taken' = taken + n /\ taken + n <= StreamLen
          /\ buf' = buf \o Bytes(taken, taken + n)
      <4>1. /\ n \in 1..Smaller(arrived - taken, sz) /\ taken' = taken + n
            /\ buf' = buf \o Bytes(taken, taken + n)
        BY <2>2, <3>1 DEF HttpRcvGot, Got
      <4>2. n \in Nat /\ n <= sz /\ taken + n <= StreamLen
        BY <4>1, StreamIOAssumption DEF Smaller, TypeOK
      <4> QED  BY <4>1, <4>2
    <3>3. buf' \in Seq(1..StreamLen) /\ Len(buf') = Len(buf) + n
      BY <3>2, Stored DEF TypeOK
    <3> QED  BY <3>1, <3>2, <3>3, StreamIOAssumption DEF TypeOK
  <2> QED  BY <2>1, <2>2
<1>3. TypeOK'
  BY <1>1, <1>2, StreamIOAssumption DEF TypeOK
<1>4. Fits' /\ LineLength'
  <2>1. zero' = 0 /\ buf' \in Seq(1..StreamLen) /\ Len(buf') <= sz
    BY <1>1, <1>2
  <2> QED  BY <2>1, StoresOnly
<1> QED  BY <1>1, <1>2, <1>3, <1>4
         DEF NoLine, ReadsStop, OneLine, RioExact, RioCounts, RioPrefix, Read_sInv,
             ReadlineInv, HttpRcvInv, RioReadInv, WriteInv, Writers

\* The invariant when readline() is called.
LEMMA ReadlineOnly ==
  ASSUME TypeOK', fn' = "readline", Fits', OneLine', LineLength', ReadlineInv'
  PROVE  IInv'
  BY DEF IInv, NoLine, ReadsStop, RioExact, RioCounts, RioPrefix, Read_sInv, HttpRcvInv,
         RioReadInv, WriteInv, Writers

\* readline() ends its line: the '\0' fits unless the buffer is full.
LEMMA LineEndsFits ==
  ASSUME buf' \in Seq(1..StreamLen), Len(buf') <= sz, zero' = Len(buf') + 1
  PROVE  Fits' /\ zero' \in 0..(sz + 1)
<1>1. Len(buf') \in Nat /\ sz \in Nat
  BY LenProperties, StreamIOAssumption
<1>2. Touched' = zero'
  BY <1>1 DEF Touched, Larger
<1> QED  BY <1>1, <1>2 DEF Fits

\* readline(): a byte is stored behind those the call has already, and ends the
\* call if it is '\n'.
LEMMA ReadlineGotIInv ==
  ASSUME IInv, ReadlineGot
  PROVE  IInv'
<1> USE DEF IInv
<1>1. /\ pc = "loop" /\ fn = "readline"
      /\ taken' = taken + 1 /\ taken + 1 <= StreamLen
      /\ buf' = Append(buf, taken + 1)
      /\ UNCHANGED <<fn, arrived, eof, wasted, rbuf, nread, ptr, errors>>
  <2>1. 1 \in 1..Smaller(arrived - taken, 1)
    BY DEF ReadlineGot, Got
  <2>2. taken + 1 <= StreamLen
    BY <2>1, StreamIOAssumption DEF Smaller, TypeOK
  <2> QED  BY <2>2 DEF ReadlineGot, In, peer, rio
<1>2. /\ count \in 0..(sz - 1) /\ Len(buf) + wasted = count
      /\ \A i \in DOMAIN buf : buf[i] \notin NewLines
      /\ errors = 0 => data \o buf = Bytes(0, taken)
  BY <1>1 DEF ReadlineInv
<1>3. taken + 1 \in 1..StreamLen
  BY <1>1, StreamIOAssumption DEF TypeOK
<1>4. /\ buf' \in Seq(1..StreamLen) /\ Len(buf') = Len(buf) + 1
      /\ \A i \in 1..Len(buf) : buf'[i] = buf[i]
      /\ buf'[Len(buf) + 1] = taken + 1
  BY <1>1, <1>3, AppendProperties DEF TypeOK
<1>5. /\ Len(buf) \in Nat /\ DOMAIN buf = 1..Len(buf)
      /\ DOMAIN buf' = 1..(Len(buf) + 1)
  BY <1>4, LenProperties DEF TypeOK
<1>6. errors = 0 => data \o buf' = Bytes(0, taken')
  <2>1. buf' = buf \o Bytes(taken, taken + 1)
    <3>1. buf' = buf \o <<taken + 1>>
      BY <1>1, <1>3, AppendIsConcat DEF TypeOK
    <3>2. taken \in Nat
      BY StreamIOAssumption DEF TypeOK
    <3>3. <<taken + 1>> = Bytes(taken, taken + 1)
      BY <3>2, BytesAppend
    <3> QED  BY <3>1, <3>3, Zenon
  <2>2. /\ data \in Seq(Data) /\ buf \in Seq(1..StreamLen) /\ taken \in 0..StreamLen
        /\ 1 \in Nat
    BY DEF TypeOK, Data
  <2>3. ASSUME errors = 0
        PROVE  data \o (buf \o Bytes(taken, taken + 1)) = Bytes(0, taken + 1)
    BY <1>1, <1>2, <2>2, <2>3, ReadOn, Zenon
  <2> QED  BY <1>1, <2>1, <2>3
<1>7. data \o buf' \in Seq(Data)
  BY <1>4, HandOver DEF TypeOK, Data
<1>8. Len(buf') <= sz /\ Len(buf) + wasted = count
  BY <1>1, <1>2, <1>4, <1>5, StreamIOAssumption DEF ReadlineInv, TypeOK
<1>9. OneLine'
  BY <1>2, <1>4, <1>5 DEF OneLine
<1>10. DOMAIN buf' = 1..Len(buf') /\ buf'[Len(buf')] = taken' /\ Len(buf') > 0
  BY <1>1, <1>4, <1>5
<1>11. CASE taken' \in NewLines \/ count' = sz
  <2>1. /\ pc' = "idle" /\ ret' = count' - 1 /\ data' = data \o buf'
        /\ zero' = Len(buf') + 1
        /\ count' = IF taken' \in NewLines THEN count ELSE count + 1
    BY <1>11 DEF ReadlineGot, LineEnds, Return
  <2>2. Fits' /\ zero' \in 0..(sz + 1)
    <3>1. buf' \in Seq(1..StreamLen) /\ Len(buf') <= sz /\ zero' = Len(buf') + 1
      BY <1>4, <1>8, <2>1
    <3> QED  BY <3>1, LineEndsFits
  <2>3. TypeOK'
    BY <1>1, <1>2, <1>4, <1>7, <2>1, <2>2, StreamIOAssumption DEF TypeOK, Data
  <2>4. ReadlineInv'
    BY <1>1, <1>6, <2>1 DEF ReadlineInv
  <2>5. LineLength'
    BY <1>1, <1>4, <1>5, <1>8, <1>10, <2>1, StreamIOAssumption DEF LineLength, TypeOK
  <2> QED  BY <1>1, <1>9, <2>2, <2>3, <2>4, <2>5, ReadlineOnly
<1>12. CASE taken' \notin NewLines /\ count' # sz
  <2>1. count' = count + 1 /\ zero' = 0 /\ UNCHANGED <<pc, ret, data>>
    BY <1>1, <1>12 DEF ReadlineGot, ReadlineInv
  <2>2. Fits' /\ LineLength'
    <3>1. zero' = 0 /\ buf' \in Seq(1..StreamLen) /\ Len(buf') <= sz
      BY <1>4, <1>8, <2>1
    <3> QED  BY <3>1, StoresOnly
  <2>3. TypeOK'
    BY <1>1, <1>2, <1>4, <2>1, StreamIOAssumption DEF TypeOK, Data
  <2>4. count' \in 0..(sz - 1) /\ Len(buf') + wasted' = count'
    BY <1>1, <1>2, <1>4, <1>5, <1>8, <1>12, <2>1, StreamIOAssumption DEF TypeOK
  <2>5. \A i \in DOMAIN buf' : buf'[i] \notin NewLines
    BY <1>1, <1>2, <1>4, <1>5, <1>12
  <2>6. ReadlineInv'
    BY <1>1, <1>6, <2>1, <2>4, <2>5 DEF ReadlineInv
  <2> QED  BY <1>1, <1>9, <2>2, <2>3, <2>6, ReadlineOnly
<1> QED  BY <1>11, <1>12

\* readline() without a byte: the end of the stream, a lost attempt, an error.
LEMMA ReadlineNoByteIInv ==
  ASSUME IInv, ReadlineEof \/ ReadlineAgain \/ ReadlineFails
  PROVE  IInv'
<1> USE DEF IInv
<1>1. /\ pc = "loop" /\ fn = "readline"
      /\ UNCHANGED <<fn, arrived, eof, taken, buf, rbuf, nread, ptr>>
  BY DEF ReadlineEof, ReadlineAgain, ReadlineFails, In, peer, rio
<1>2. /\ count \in 0..(sz - 1) /\ Len(buf) + wasted = count /\ zero = 0
      /\ \A i \in DOMAIN buf : buf[i] \notin NewLines
      /\ errors = 0 => data \o buf = Bytes(0, taken)
  BY <1>1 DEF ReadlineInv
<1>3. data \o buf \in Seq(Data)
  BY HandOver DEF TypeOK, Data
<1>4. /\ Len(buf) \in Nat /\ wasted \in Nat /\ DOMAIN buf = 1..Len(buf)
      /\ Len(buf) <= sz
  BY <1>1, <1>2, LenProperties, StreamIOAssumption DEF TypeOK
<1>5. OneLine'
  BY <1>1 DEF ReadsStop, OneLine
<1>6. ASSUME LineEnds(buf, count'), count' = Len(buf) + wasted', wasted' \in 0..sz,
             count' \in 0..sz, UNCHANGED errors
      PROVE  IInv'
  <2>1. /\ pc' = "idle" /\ ret' = count' - 1 /\ data' = data \o buf
        /\ zero' = Len(buf) + 1
    BY <1>6 DEF LineEnds, Return
  <2>2. Fits' /\ zero' \in 0..(sz + 1)
    <3>1. buf' \in Seq(1..StreamLen) /\ Len(buf') <= sz /\ zero' = Len(buf') + 1
      BY <1>1, <1>4, <2>1 DEF TypeOK
    <3> QED  BY <3>1, LineEndsFits
  <2>3. TypeOK'
    BY <1>1, <1>3, <1>6, <2>1, <2>2, StreamIOAssumption DEF TypeOK, Data
  <2>4. ReadlineInv'
    BY <1>1, <1>2, <2>1, <1>6 DEF ReadlineInv
  <2>5. LineLength'
    <3>1. ~(Len(buf) > 0 /\ buf[Len(buf)] \in NewLines)
      BY <1>2, <1>4
    <3>2. ret' = Len(buf) + wasted' - 1
      BY <1>4, <1>6, <2>1
    <3> QED  BY <1>1, <3>1, <3>2 DEF LineLength
  <2> QED  BY <1>1, <1>5, <2>2, <2>3, <2>4, <2>5, ReadlineOnly
<1>7. CASE ReadlineEof
  <2>1. LineEnds(buf, count) /\ UNCHANGED <<count, wasted, errors>>
    BY <1>7 DEF ReadlineEof
  <2>2. count \in 0..sz /\ wasted \in 0..sz
    BY <1>2, <1>4, StreamIOAssumption DEF TypeOK
  <2> QED  BY <1>2, <1>6, <2>1, <2>2
<1>8. CASE ReadlineAgain /\ count + 1 = sz
  <2>1. /\ LineEnds(buf, count') /\ count' = sz /\ wasted' = wasted + 1
        /\ UNCHANGED errors
    BY <1>8 DEF ReadlineAgain
  <2>2. wasted' \in 0..sz /\ count' \in 0..sz /\ count' = Len(buf) + wasted'
    BY <1>2, <1>4, <1>8, <2>1, StreamIOAssumption
  <2> QED  BY <1>6, <2>1, <2>2
<1>9. ASSUME UNCHANGED <<data, zero>>, pc' \in {"idle", "loop"}, ret' \in {-1, ret},
             errors' \in 0..MaxErrors, count' \in 0..(sz - 1),
             Len(buf) + wasted' = count', wasted' \in 0..sz,
             errors' = 0 => UNCHANGED <<errors, pc>>
      PROVE  IInv'
  <2>1. Fits' /\ LineLength'
    <3>1. zero' = 0 /\ buf' \in Seq(1..StreamLen) /\ Len(buf') <= sz
      BY <1>1, <1>2, <1>4, <1>9 DEF TypeOK
    <3> QED  BY <3>1, StoresOnly
  <2>2. TypeOK'
    BY <1>1, <1>9, StreamIOAssumption DEF TypeOK
  <2>3. ReadlineInv'
    BY <1>1, <1>2, <1>9 DEF ReadlineInv
  <2> QED  BY <1>1, <1>5, <2>1, <2>2, <2>3, ReadlineOnly
<1>10. CASE ReadlineAgain /\ count + 1 # sz
  <2>1. /\ count' = count + 1 /\ wasted' = wasted + 1
        /\ UNCHANGED <<pc, ret, data, zero, errors>>
    BY <1>10 DEF ReadlineAgain
  <2>2. /\ count' \in 0..(sz - 1) /\ Len(buf) + wasted' = count' /\ wasted' \in 0..sz
        /\ errors \in 0..MaxErrors
    BY <1>2, <1>4, <1>10, <2>1, StreamIOAssumption DEF TypeOK
  <2> QED  BY <1>1, <1>9, <2>1, <2>2
<1>11. CASE ReadlineFails
  <2>1. /\ pc' = "idle" /\ ret' = -1 /\ errors' \in 1..MaxErrors
        /\ UNCHANGED <<count, data, zero, wasted>>
    BY <1>11, StreamIOAssumption DEF ReadlineFails, Return, Broken, TypeOK, line
  <2>2. wasted' \in 0..sz /\ errors' \in 0..MaxErrors /\ errors' # 0
    BY <2>1, StreamIOAssumption DEF TypeOK
  <2> QED  BY <1>2, <1>9, <2>1, <2>2
<1> QED  BY <1>7, <1>8, <1>10, <1>11 DEF ReadlineAgain

\* The invariant when rio_read() is called.
LEMMA RioReadOnly ==
  ASSUME TypeOK', fn' = "rio_read", NoLine', Len(buf') <= sz, RioCounts', RioReadInv'
  PROVE  IInv'
<1>1. Fits' /\ LineLength'
  <2>1. zero' = 0 /\ buf' \in Seq(1..StreamLen) /\ Len(buf') <= sz
    BY DEF NoLine, TypeOK
  <2> QED  BY <2>1, StoresOnly
<1> QED  BY <1>1
         DEF IInv, ReadsStop, OneLine, RioExact, RioPrefix, Read_sInv, ReadlineInv,
             HttpRcvInv, WriteInv, Writers

\* rio_read() fills its buffer from the front, over what was there before.
LEMMA RioFillIInv ==
  ASSUME IInv, NEW n \in 1..StreamLen, RioFill(n)
  PROVE  IInv'
<1> USE DEF IInv
<1>1. /\ pc = "loop" /\ fn = "rio_read" /\ nread <= 0
      /\ taken' = taken + n /\ nread' = n
      /\ rbuf' = Bytes(taken, taken + n) \o SubSeq(rbuf, n + 1, Len(rbuf))
      /\ UNCHANGED <<fn, arrived, eof, pc, count, buf, zero, wasted, data, ret, ptr, errors>>
      /\ NoLine'
  BY DEF RioFill, In, peer, line, NoLine
<1>2. n \in Nat /\ taken + n <= StreamLen /\ n <= RIO_BUFSIZE
  <2>1. n \in 1..Smaller(arrived - taken, RIO_BUFSIZE)
    BY DEF RioFill, Got
  <2> QED  BY <2>1, StreamIOAssumption DEF Smaller, TypeOK
<1>3. Bytes(taken, taken + n) \in Seq(1..StreamLen) /\ Len(Bytes(taken, taken + n)) = n
  BY <1>2, Stored DEF TypeOK
<1>4. Len(rbuf) \in Nat /\ \A i \in 1..Len(rbuf) : rbuf[i] \in 1..StreamLen
  BY LenProperties, ElementOfSeq DEF TypeOK
<1>5. /\ SubSeq(rbuf, n + 1, Len(rbuf)) \in Seq(1..StreamLen)
      /\ Len(SubSeq(rbuf, n + 1, Len(rbuf))) \in Nat
  <2>1. \A i \in (n + 1)..Len(rbuf) : rbuf[i] \in 1..StreamLen
    BY <1>2, <1>4
  <2>2. n + 1 \in Int /\ Len(rbuf) \in Int
    BY <1>2, <1>4
  <2>3. SubSeq(rbuf, n + 1, Len(rbuf)) \in Seq(1..StreamLen)
    BY <2>1, <2>2, SubSeqProperties
  <2> QED  BY <2>3, LenProperties
<1>6. /\ rbuf' \in Seq(1..StreamLen)
      /\ Len(rbuf') = n + Len(SubSeq(rbuf, n + 1, Len(rbuf)))
  BY <1>1, <1>3, <1>5, ConcatProperties
<1>7. n <= Len(rbuf')
  BY <1>2, <1>5, <1>6
<1>8. TypeOK'
  BY <1>1, <1>2, <1>6, StreamIOAssumption DEF TypeOK
<1>9. RioCounts'
  <2>1. Len(data) = taken
    BY <1>1, LenProperties DEF RioExact, RioCounts, TypeOK
  <2> QED  BY <1>1, <2>1, StreamIOAssumption DEF RioCounts, TypeOK
<1>10. Len(buf') <= sz /\ RioReadInv'
  BY <1>1, <1>7 DEF ReadsStop, Fits, RioReadInv
<1> QED  BY <1>1, <1>8, <1>9, <1>10, RioReadOnly

\* rio_read() gets nothing: the end of the stream, an error, an interruption.
LEMMA RioEmptyIInv ==
  ASSUME IInv, RioEof \/ RioFails \/ RioInterrupted
  PROVE  IInv'
<1> USE DEF IInv
<1>1. /\ fn = "rio_read" /\ nread <= 0 /\ nread' \in {-1, 0}
      /\ pc' \in {"idle", "crashed"} /\ ret' \in {-1, 0, ret}
      /\ errors' \in 0..MaxErrors
      /\ UNCHANGED <<fn, arrived, eof, taken, count, buf, zero, wasted, data, rbuf, ptr>>
      /\ NoLine'
  <2>1. CASE RioEof
    BY <2>1 DEF RioEof, In, Return, TypeOK, peer, line, NoLine
  <2>2. CASE RioFails
    BY <2>2, StreamIOAssumption
    DEF RioFails, In, Return, Broken, TypeOK, peer, line, NoLine
  <2>3. CASE RioInterrupted
    BY <2>3 DEF RioInterrupted, In, TypeOK, peer, line, NoLine
  <2> QED  BY <2>1, <2>2, <2>3
<1>2. TypeOK'
  BY <1>1, StreamIOAssumption DEF TypeOK
<1>3. Len(buf') <= sz
  BY <1>1 DEF ReadsStop, Fits
<1>4. RioCounts'
  <2>1. Len(data) + 0 = taken /\ ~(nread' > 0)
    BY <1>1 DEF RioExact, RioCounts, TypeOK
  <2> QED  BY <1>1, <2>1 DEF RioCounts
<1>5. RioReadInv'
  <2>1. Len(rbuf) \in Nat
    BY LenProperties DEF TypeOK
  <2> QED  BY <1>1, <2>1 DEF RioReadInv
<1> QED  BY <1>1, <1>2, <1>3, <1>4, <1>5, RioReadOnly

\* rio_read() hands over as many bytes as it counts off.
LEMMA RioCopyIInv ==
  ASSUME IInv, RioCopy
  PROVE  IInv'
<1> USE DEF IInv
<1> DEFINE cnt == Smaller(sz, nread)
<1>1. /\ pc = "loop" /\ fn = "rio_read" /\ nread > 0
      /\ buf' = SubSeq(rbuf, 1, cnt) /\ data' = data \o buf'
      /\ nread' = nread - cnt /\ pc' = "idle" /\ ret' = cnt
      /\ UNCHANGED <<fn, arrived, eof, taken, count, zero, wasted, rbuf, ptr, errors>>
      /\ NoLine'
  BY DEF RioCopy, In, Return, peer, line, NoLine
<1>2. cnt \in 1..sz /\ cnt <= nread
  BY <1>1, StreamIOAssumption DEF Smaller, TypeOK
<1> HIDE DEF cnt
<1>3. nread \in Nat /\ nread <= Len(rbuf) /\ Len(rbuf) \in Nat
  BY <1>1, LenProperties DEF RioReadInv, TypeOK
<1>4. buf' \in Seq(1..StreamLen) /\ Len(buf') = cnt
  <2>1. \A i \in 1..Len(rbuf) : rbuf[i] \in 1..StreamLen
    BY ElementOfSeq DEF TypeOK
  <2>2. \A i \in 1..cnt : rbuf[i] \in 1..StreamLen
    BY <1>2, <1>3, <2>1
  <2>3. 1 \in Int /\ cnt \in Int /\ 1 <= cnt /\ cnt - 1 + 1 = cnt
    BY <1>2
  <2>4. /\ SubSeq(rbuf, 1, cnt) \in Seq(1..StreamLen)
        /\ Len(SubSeq(rbuf, 1, cnt)) = IF 1 <= cnt THEN cnt - 1 + 1 ELSE 0
    BY <2>2, <2>3, SubSeqProperties
  <2> QED  BY <1>1, <2>3, <2>4
<1>5. data' \in Seq(Data) /\ Len(data') = Len(data) + cnt
  BY <1>1, <1>4, HandOver DEF TypeOK, Data
<1>6. TypeOK'
  BY <1>1, <1>2, <1>3, <1>4, <1>5, StreamIOAssumption DEF TypeOK, Data
<1>7. RioCounts'
  <2>1. Len(data) + nread = taken /\ Len(data) \in Nat
    BY <1>1, LenProperties DEF RioExact, RioCounts, TypeOK
  <2>2. nread' = nread - cnt /\ taken' = taken
    BY <1>1
  <2>3. Len(data') + (IF nread' > 0 THEN nread' ELSE 0) = taken'
    BY <1>2, <1>3, <1>5, <2>1, <2>2
  <2> QED  BY <2>3 DEF RioCounts
<1>8. Len(buf') <= sz /\ RioReadInv'
  BY <1>1, <1>2, <1>3, <1>4, StreamIOAssumption DEF RioReadInv
<1> QED  BY <1>1, <1>6, <1>7, <1>8, RioReadOnly

\* The invariant when Write_s() or rio_write() is called.
LEMMA WriteOnly ==
  ASSUME TypeOK', fn' \in Writers, NoLine', RioPrefix', WriteInv'
  PROVE  IInv'
<1>1. Fits' /\ LineLength'
  <2>1. buf' = << >> /\ Len(<< >>) = 0
    BY EmptySeq DEF WriteInv
  <2>2. zero' = 0 /\ buf' \in Seq(1..StreamLen) /\ Len(buf') <= sz
    BY <2>1, StreamIOAssumption DEF NoLine, TypeOK, Writers
  <2> QED  BY <2>2, StoresOnly
<1> QED  BY <1>1
         DEF IInv, ReadsStop, OneLine, RioExact, RioCounts, Read_sInv, ReadlineInv,
             HttpRcvInv, RioReadInv, Writers

\* Both functions go on behind the bytes that write() has accepted.
LEMMA WrittenIInv ==
  ASSUME IInv, NEW n \in 1..(sz + MaxErrors), Written(n)
  PROVE  IInv'
<1> USE DEF IInv
<1> DEFINE part == [i \in 1..n |-> ptr + i - 1]
<1>1. /\ pc = "loop" /\ fn \in Writers /\ n <= count
      /\ data' = data \o part /\ ptr' = ptr + n /\ count' = count - n
      /\ UNCHANGED <<fn, arrived, eof, taken, buf, zero, wasted, rbuf, nread, pc, ret,
                     errors>>
      /\ NoLine'
  BY DEF Written, Writing, reader, peer, rio, line, NoLine
<1>2. /\ ptr + count = sz + 1 /\ count <= sz + errors
      /\ fn = "rio_write" => count <= sz
      /\ 1..(ptr - 1) \subseteq {data[i] : i \in DOMAIN data}
      /\ buf = << >> /\ rbuf = << >>
  BY <1>1 DEF WriteInv
<1>3. n \in Nat /\ ptr \in Int /\ count \in Nat /\ errors \in Nat
  BY StreamIOAssumption DEF TypeOK
<1>4. part \in Seq(Data)
  <2>1. \A i \in 1..n : ptr + i - 1 \in Data
    BY <1>1, <1>2, <1>3, StreamIOAssumption DEF TypeOK, Data, Larger
  <2>2. part \in [1..n -> Data]
    BY <2>1
  <2> HIDE DEF part
  <2> QED  BY <1>3, <2>2, SeqDef
<1>5. {part[i] : i \in DOMAIN part} = ptr..(ptr + n - 1)
  <2>1. ASSUME NEW x \in ptr..(ptr + n - 1) PROVE x \in {part[i] : i \in DOMAIN part}
    <3>1. x - ptr + 1 \in 1..n /\ ptr + (x - ptr + 1) - 1 = x
      BY <1>3
    <3>2. x - ptr + 1 \in DOMAIN part /\ part[x - ptr + 1] = x
      BY <3>1
    <3> QED  BY <3>2, Zenon
  <2>2. \A i \in DOMAIN part : part[i] \in ptr..(ptr + n - 1)
    BY <1>3
  <2> QED  BY <2>1, <2>2, Zenon
<1>6. fn = "rio_write" => part = Bytes(sz - count, sz - count + n)
  <2>1. (sz - count + n) - (sz - count) = n
    BY <1>3, StreamIOAssumption
  <2>2. \A i \in 1..n : ptr + i - 1 = (sz - count) + i
    BY <1>2, <1>3, StreamIOAssumption
  <2> QED  BY <2>1, <2>2 DEF Bytes
<1> HIDE DEF part
<1>7. data \in Seq(Data) /\ data \o part \in Seq(Data)
  BY <1>4, ConcatProperties DEF TypeOK, Data
<1>8. TypeOK'
  <2>1. ptr' \in (1 - MaxErrors)..(sz + 1) /\ count' \in 0..(sz + MaxErrors)
    BY <1>1, <1>2, <1>3, StreamIOAssumption DEF TypeOK
  <2> QED  BY <1>1, <1>7, <2>1 DEF TypeOK, Data
<1>9. 1..(ptr' - 1) \subseteq {data'[i] : i \in DOMAIN data'}
  <2>1. Elements(data \o part) = Elements(data) \cup Elements(part)
    BY <1>4, <1>7, ElementsOfConcat
  <2>2. 1..(ptr' - 1) \subseteq 1..(ptr - 1) \cup ptr..(ptr + n - 1)
    BY <1>1, <1>3
  <2>3. 1..(ptr - 1) \subseteq Elements(data) /\ Elements(part) = ptr..(ptr + n - 1)
    BY <1>2, <1>5 DEF Elements
  <2>4. 1..(ptr' - 1) \subseteq Elements(data \o part)
    BY <2>1, <2>2, <2>3, Zenon
  <2> QED  BY <1>1, <2>4, Zenon DEF Elements
<1>10. WriteInv'
  <2>1. /\ ptr' + count' = sz + 1 /\ count' <= sz + errors
        /\ (fn = "rio_write" => count' <= sz)
    BY <1>1, <1>2, <1>3, StreamIOAssumption
  <2> QED  BY <1>1, <1>2, <1>9, <2>1 DEF WriteInv
<1>11. RioPrefix'
  <2>1. SUFFICES ASSUME fn = "rio_write" PROVE data' = Bytes(0, sz - count')
    BY <1>1 DEF RioPrefix
  <2>2. data = Bytes(0, sz - count)
    BY <1>1, <2>1 DEF RioExact, RioPrefix
  <2>3. sz - count \in Nat /\ sz - count + n \in Nat /\ sz - count <= sz - count + n
    BY <1>2, <1>3, <2>1, StreamIOAssumption
  <2>4. Bytes(0, sz - count) \o Bytes(sz - count, sz - count + n) = Bytes(0, sz - count + n)
    BY <2>3, BytesConcat
  <2>5. sz - count + n = sz - count'
    BY <1>1, <1>3, StreamIOAssumption
  <2> QED  BY <1>1, <1>6, <2>1, <2>2, <2>4, <2>5
<1> QED  BY <1>1, <1>8, <1>10, <1>11, WriteOnly

\* A failed write() moves the pointer of Write_s() back, never that of
\* rio_write(); a call returns what it has counted off.
LEMMA WriteEndsIInv ==
  ASSUME IInv, Write_sError \/ RioWriteError \/ WriteReturns \/ WriteBreaks
  PROVE  IInv'
<1> USE DEF IInv
<1>1. /\ pc = "loop" /\ fn \in Writers
      /\ UNCHANGED <<fn, arrived, eof, taken, buf, zero, wasted, rbuf, nread, data>>
      /\ NoLine'
  BY DEF Write_sError, RioWriteError, WriteReturns, WriteBreaks, Writing, In, Writers,
         reader, peer, rio, line, NoLine
<1>2. /\ ptr + count = sz + 1 /\ count <= sz + errors
      /\ fn = "rio_write" => count <= sz
      /\ 1..(ptr - 1) \subseteq {data[i] : i \in DOMAIN data}
      /\ buf = << >> /\ rbuf = << >>
  BY <1>1 DEF WriteInv
<1>3. ptr \in Int /\ count \in Nat /\ errors \in Nat /\ errors <= MaxErrors
  BY StreamIOAssumption DEF TypeOK
<1>4. CASE Write_sError
  <2>1. /\ fn = "Write_s" /\ count' = count + 1 /\ ptr' = ptr - 1
        /\ errors' = errors + 1 /\ errors < MaxErrors /\ UNCHANGED <<pc, ret>>
    BY <1>4 DEF Write_sError, Broken, In
  <2>2. TypeOK'
    <3>1. /\ count' \in 0..(sz + MaxErrors) /\ ptr' \in (1 - MaxErrors)..(sz + 1)
          /\ errors' \in 0..MaxErrors
      BY <1>2, <1>3, <2>1, StreamIOAssumption
    <3> QED  BY <1>1, <2>1, <3>1 DEF TypeOK
  <2>3. WriteInv'
    <3>1. ptr' + count' = sz + 1 /\ count' <= sz + errors'
      BY <1>2, <1>3, <2>1, StreamIOAssumption
    <3>2. 1..(ptr' - 1) \subseteq 1..(ptr - 1)
      BY <1>3, <2>1
    <3> QED  BY <1>1, <1>2, <2>1, <3>1, <3>2 DEF WriteInv
  <2>4. RioPrefix'
    BY <1>1, <2>1 DEF RioPrefix
  <2> QED  BY <1>1, <2>2, <2>3, <2>4, WriteOnly
<1>5. CASE RioWriteError \/ WriteReturns \/ WriteBreaks
  <2>1. /\ UNCHANGED <<count, ptr>> /\ pc' \in {"loop", "done", "broke"}
        /\ errors' \in errors..MaxErrors /\ ret' \in {-1, ret, sz - count}
        /\ fn = "Write_s" /\ pc' \in {"done", "broke"} => ret' = sz - count
        /\ fn = "Write_s" /\ pc' = "done" => count = 0
    <3>1. CASE RioWriteError
      BY <1>3, <3>1, StreamIOAssumption DEF RioWriteError, In, Broken
    <3>2. CASE WriteReturns \/ WriteBreaks
      <4>1. /\ UNCHANGED <<count, ptr, errors>> /\ pc' \in {"done", "broke"}
            /\ ret' = sz - count /\ (pc' = "done" => count = 0)
        BY <3>2, StreamIOAssumption DEF WriteReturns, WriteBreaks
      <4>2. errors \in errors..MaxErrors
        BY <1>3, StreamIOAssumption
      <4> QED  BY <4>1, <4>2
    <3> QED  BY <1>5, <3>1, <3>2
  <2>2. TypeOK'
    <3>1. sz - count \in (-1 - MaxErrors)..sz
      BY <1>2, <1>3, StreamIOAssumption
    <3>2. errors' \in 0..MaxErrors /\ ret' \in (-1 - MaxErrors)..sz
      BY <1>3, <2>1, <3>1, StreamIOAssumption DEF TypeOK
    <3> QED  BY <1>1, <2>1, <3>2 DEF TypeOK
  <2>3. WriteInv'
    <3>1. errors' \in Nat /\ errors <= errors'
      <4>1. errors' \in errors..MaxErrors
        BY <2>1
      <4> QED  BY <1>3, <4>1, StreamIOAssumption
    <3>2. count <= sz + errors'
      <4>1. count <= sz + errors
        BY <1>2, Zenon
      <4>2. sz \in Nat
        BY StreamIOAssumption
      <4>3. \A c, e, f \in Nat : c <= sz + e /\ e <= f => c <= sz + f
        BY <4>2
      <4> QED  BY <1>3, <3>1, <4>1, <4>3
    <3> QED  BY <1>1, <1>2, <2>1, <3>2 DEF WriteInv
  <2>4. RioPrefix'
    BY <1>1, <2>1 DEF RioExact, RioPrefix
  <2> QED  BY <1>1, <2>2, <2>3, <2>4, WriteOnly
<1> QED  BY <1>4, <1>5

\* Every step keeps the invariant.
LEMMA NextIInv == IInv /\ [Next]_vars => IInv'
<1> SUFFICES ASSUME IInv, [Next]_vars PROVE IInv'
  OBVIOUS
<1>1. CASE UNCHANGED vars
  <2>1. UNCHANGED <<fn, arrived, eof, taken, pc, count, buf, zero, wasted, data, ret,
                    rbuf, nread, ptr, errors>>
    BY <1>1 DEF vars
  <2>2. TypeOK' /\ ReadsStop' /\ RioExact' /\ NoLine'
    BY <2>1 DEF IInv, TypeOK, ReadsStop, Fits, Touched, OneLine, LineLength, RioExact,
                RioCounts, RioPrefix, NoLine
  <2>3. Read_sInv' /\ ReadlineInv' /\ HttpRcvInv' /\ RioReadInv'
    BY <2>1 DEF IInv, Read_sInv, ReadlineInv, HttpRcvInv, RioReadInv
  <2>4. WriteInv'
    BY <2>1 DEF IInv, WriteInv
  <2> QED  BY <2>2, <2>3, <2>4 DEF IInv
<1>2. CASE Next
  BY <1>2, PeerIInv, CallIInv, Read_sIInv, HttpRcvIInv, ReadlineGotIInv,
     ReadlineNoByteIInv, RioFillIInv, RioEmptyIInv, RioCopyIInv, WrittenIInv,
     WriteEndsIInv
  DEF Next
<1> QED  BY <1>1, <1>2

----------------------------------------------------------------------------
(* The theorems.                                                           *)

\* The invariant of the loops holds in every reachable state.
THEOREM StreamInvariance == Spec => []IInv
  BY InitIInv, NextIInv, PTL DEF Spec

\* Counts, pointers and results of the loops stay in their ranges: nleft of
\* Write_s() grows by at most one for each failed write().
THEOREM StreamTypes == Spec => []TypeOK
<1>1. IInv => TypeOK
  BY DEF IInv
<1> QED  BY <1>1, StreamInvariance, PTL

\* Read_s(), and readline() until an error, hand over exactly what was taken
\* from the stream, in order, over any number of calls.
THEOREM BytesConserved == Spec => []Conserved
<1>1. IInv => Conserved
  BY DEF IInv, Conserved, Read_sInv, ReadlineInv
<1> QED  BY <1>1, StreamInvariance, PTL

\* No reading loop stores more bytes than it was asked for, readline() none
\* behind the end of a line; but a readline() that stored all it was asked for
\* does write its '\0' one byte behind the buffer, no other call ever does, and
\* what readline() returns is off by one or two and by the attempts it wasted.
THEOREM ReadingStops == Spec => []ReadsStop
<1>1. IInv => ReadsStop
  BY DEF IInv
<1> QED  BY <1>1, StreamInvariance, PTL

\* rio_read() counts its bytes right, rio_write() writes its buffer once.
THEOREM RioCountsRight == Spec => []RioExact
<1>1. IInv => RioExact
  BY DEF IInv
<1> QED  BY <1>1, StreamInvariance, PTL

\* Every byte that Write_s() counts as written was written, and only a write()
\* that returned 0 makes it return less than sz: no failure does.
THEOREM Write_sWritesAll == Spec => []Write_sClaim
<1>1. IInv => Write_sClaim
  <2>1. SUFFICES ASSUME IInv, fn = "Write_s", pc \in {"done", "broke"}
                 PROVE  /\ pc = "done" => ret = sz
                        /\ 1..ret \subseteq {data[i] : i \in DOMAIN data}
    BY DEF Write_sClaim
  <2>2. /\ ptr + count = sz + 1 /\ ret = sz - count /\ (pc = "done" => count = 0)
        /\ 1..(ptr - 1) \subseteq {data[i] : i \in DOMAIN data}
    BY <2>1 DEF IInv, WriteInv, Writers
  <2>3. ptr - 1 = ret /\ (count = 0 => ret = sz)
    BY <2>1, <2>2, StreamIOAssumption DEF IInv, TypeOK
  <2> QED  BY <2>2, <2>3
<1> QED  BY <1>1, StreamInvariance, PTL
============================================================================
