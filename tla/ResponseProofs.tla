--------------------------- MODULE ResponseProofs ---------------------------
(***************************************************************************)
(* A response, for every size of the file and of its pieces, every send    *)
(* buffer that holds a page, any changes of the file, and a client that    *)
(* reads, or resets the connection, whenever it likes.                     *)
(*                                                                         *)
(* The page is received in order because each unit that is written is      *)
(* behind all that were written before (Bounded); nothing is missing       *)
(* because the lines of a page with bare send()s fit into the send buffer  *)
(* (LinesFit), and the body is as long as announced because, unless        *)
(* somebody changes it, stat(), fopen() and fread() see the same file      *)
(* (SameFile).                                                             *)
(***************************************************************************)
EXTENDS Response, SequenceTheorems, TLAPS

\* What the call has done when it is at pc.
Stages ==
  /\ pc \in {"accept", "error"} => flag = 0 /\ line = 0
  /\ pc \in {"open", "stat"} => flag = 200 /\ line = 0
  /\ pc = "line" => flag # 0 /\ line < PageLen(flag)
  /\ pc = "pad" => flag \in Padded /\ line < PageLen(flag)
  /\ pc \in {"accept", "error", "open", "stat", "line", "pad"}
       => pos = 0 /\ nleft = 0 /\ ~ateof
  /\ pc \in {"loop", "body"} => flag = 200
  /\ pc = "loop" => nleft = 0
  /\ pc = "body" => nleft > 0
  /\ pc = "done" /\ flag = 200 => fp.kind = "file" /\ ateof /\ nleft = 0
  /\ nleft <= pos

\* The lines that have been tried, the body that has been written.
LinesTried == IF pc = "pad" THEN line + 1 ELSE line
PadsTried == IF flag \in Padded THEN line ELSE 0

\* Nothing was written that has not been tried.
Bounded ==
  pc # "killed" => \A i \in DOMAIN stream :
    /\ stream[i].what = "line" => stream[i].n \in 1..LinesTried
    /\ stream[i].what = "pad" => stream[i].n \in 1..PadsTried
    /\ stream[i].what = "body" => stream[i].n \in 1..(pos - nleft)

\* A page of single send()s has taken no more of the buffer than its lines.
LinesFit == pc \in {"accept", "open", "stat", "line"} /\ flag \notin Padded
              => Len(stream) <= line

\* As long as nobody changes it, the file that is looked up, opened, measured
\* and read is one.
SameFile ==
  changes = 0 =>
    /\ flag = 200 => disk.kind # "absent"
    /\ flag = 200 /\ pc \notin {"open", "stat"} => iDataNum = disk.size
    /\ fp.kind = "file" => /\ fp.size = disk.size /\ pos <= fp.size
                           /\ ateof => pos = fp.size
    /\ fp.kind = "null" => disk.kind \in {"absent", "locked"}
    /\ fp.kind = "none" => pos = 0 /\ ~ateof

IInv == /\ TypeOK /\ Stages
        /\ Bounded /\ InOrder /\ LinesFit /\ NothingMissing
        /\ SameFile /\ CrashesExplained

----------------------------------------------------------------------------
(* Pages and pieces.                                                       *)

\* No page is longer than the send buffer, and the padded ones have no bare
\* send().
LEMMA Pages ==
  ASSUME NEW f \in Flags \cup Padded
  PROVE  /\ PageLen(f) \in 0..10
         /\ f # 0 => 0 < PageLen(f)
         /\ f \in Padded => Bare(f) = {}
         /\ f = 200 => f \notin Padded
<1>1. CASE f = 0
  BY <1>1 DEF PageLen, Bare, Padded
<1>2. CASE f = 200
  BY <1>2 DEF PageLen, Bare, Padded
<1>3. CASE f = 404
  BY <1>3 DEF PageLen, Bare, Padded
<1>4. CASE f = 500
  BY <1>4 DEF PageLen, Bare, Padded
<1>5. CASE f \in Padded
  <2>1. f # 200 /\ f # 404 /\ f # 500 /\ f # 0
    BY <1>5 DEF Padded
  <2> QED  BY <1>5, <2>1 DEF PageLen, Bare
<1> QED  BY <1>1, <1>2, <1>3, <1>4, <1>5 DEF Flags

\* What is at a path has a size.
LEMMA FileSizes ==
  ASSUME NEW f \in Files
  PROVE  f.size \in Nat
<1>1. CASE f \in [kind : {"absent", "dir", "locked"}, size : {0}]
  BY <1>1
<1>2. CASE f \in [kind : {"file"}, size : Sizes]
  <2>1. f.size \in Sizes
    BY <1>2
  <2> QED  BY <2>1, ResponseAssumption
<1> QED  BY <1>1, <1>2 DEF Files

\* fread() returns at most what was asked for, and less only at the end.
LEMMA Piece ==
  ASSUME TypeOK
  PROVE  /\ fread \in 0..BUFFER_SIZE /\ fp.size \in Nat
         /\ pos <= fp.size => /\ pos + fread <= fp.size
                              /\ fread < BUFFER_SIZE => pos + fread = fp.size
<1>1. fp.size \in Nat /\ pos \in Nat /\ BUFFER_SIZE \in Nat
  BY ResponseAssumption DEF TypeOK
<1> QED  BY <1>1 DEF fread, Smaller, Larger

----------------------------------------------------------------------------
(* Types.                                                                  *)

\* A page goes to its next line, to the body or to its end.
LEMMA NextLineEffect ==
  ASSUME TypeOK, Stages, pc \in {"line", "pad"}, NextLine
  PROVE  /\ line' = line + 1 /\ line' \in 0..10 /\ flag # 0
         /\ \/ pc' = "line" /\ line' < PageLen(flag)
            \/ pc' = "loop" /\ flag = 200
            \/ pc' = "done" /\ flag # 200
         /\ UNCHANGED <<method, chars, disk, changes, fp, flag, iDataNum, pos, ateof, nleft>>
<1>1. flag \in Flags \cup Padded /\ line \in 0..10
  BY DEF TypeOK
<1>2. flag # 0 /\ line < PageLen(flag) /\ PageLen(flag) \in 0..10
  BY <1>1, Pages DEF Stages, Padded
<1>3. /\ line' = line + 1
      /\ pc' = CASE line' < PageLen(flag) -> "line"
                 [] flag = 200 -> "loop"
                 [] OTHER -> "done"
      /\ UNCHANGED <<method, chars, disk, changes, fp, flag, iDataNum, pos, ateof, nleft>>
  BY DEF NextLine, env, request
<1>4. line' \in 0..10
  BY <1>1, <1>2, <1>3
<1>5. \/ pc' = "line" /\ line' < PageLen(flag)
      \/ pc' = "loop" /\ flag = 200
      \/ pc' = "done" /\ flag # 200
  BY <1>3
<1> QED  BY <1>2, <1>3, <1>4, <1>5

\* What is written is added to the stream.
LEMMA StreamGrows ==
  ASSUME stream \in Seq(Unit), NEW part \in Seq(Unit), stream' = stream \o part
  PROVE  /\ stream' \in Seq(Unit) /\ Len(stream) \in Nat /\ Len(part) \in Nat
         /\ Len(stream') = Len(stream) + Len(part)
         /\ DOMAIN stream = 1..Len(stream) /\ DOMAIN part = 1..Len(part)
         /\ DOMAIN stream' = 1..(Len(stream) + Len(part))
         /\ \A i \in DOMAIN stream : i \in DOMAIN stream' /\ stream'[i] = stream[i]
         /\ \A i \in DOMAIN part : /\ i + Len(stream) \in DOMAIN stream'
                                   /\ stream'[i + Len(stream)] = part[i]
<1>1. /\ Len(stream) \in Nat /\ DOMAIN stream = 1..Len(stream)
      /\ Len(part) \in Nat /\ DOMAIN part = 1..Len(part)
  BY LenProperties
<1>2. /\ stream' \in Seq(Unit) /\ Len(stream') = Len(stream) + Len(part)
      /\ \A i \in 1..(Len(stream) + Len(part)) :
           stream'[i] = IF i <= Len(stream) THEN stream[i] ELSE part[i - Len(stream)]
  BY ConcatProperties
<1>3. DOMAIN stream' = 1..(Len(stream) + Len(part))
  BY <1>2, LenProperties
<1>4. \A i \in DOMAIN stream : i \in DOMAIN stream' /\ stream'[i] = stream[i]
  BY <1>1, <1>2, <1>3
<1>5. ASSUME NEW i \in DOMAIN part
      PROVE  i + Len(stream) \in DOMAIN stream' /\ stream'[i + Len(stream)] = part[i]
  <2>1. /\ i + Len(stream) \in 1..(Len(stream) + Len(part))
        /\ ~(i + Len(stream) <= Len(stream)) /\ i + Len(stream) - Len(stream) = i
    BY <1>1
  <2> DEFINE k == i + Len(stream)
  <2>2. stream'[k] = IF k <= Len(stream) THEN stream[k] ELSE part[k - Len(stream)]
    BY <1>2, <2>1
  <2> QED  BY <1>3, <2>1, <2>2
<1> QED  BY <1>1, <1>2, <1>3, <1>4, <1>5, Zenon

\* The three kinds of units, and a sequence of one of them.
LEMMA Units ==
  /\ \A n \in Nat : Line(n) \in Unit /\ Pad(n) \in Unit /\ Body(n) \in Unit
  /\ \A u \in Unit : /\ <<u>> \in Seq(Unit) /\ Len(<<u>>) = 1
                     /\ DOMAIN <<u>> = 1..1 /\ <<u>>[1] = u
  BY DEF Line, Pad, Body, Unit

\* A line or its padding is lost, or goes out as one unit.
LEMMA LineEffect ==
  ASSUME TypeOK, Stages, SendLine \/ HttpSendLine \/ PaddedLine \/ SendPad
  PROVE  /\ pc \in {"line", "pad"} /\ UNCHANGED seen
         /\ sock' \in SockStates /\ (sock' = "open" => sock = "open")
         /\ \/ NextLine
            \/ /\ pc = "line" /\ pc' = "pad" /\ flag \in Padded
               /\ UNCHANGED <<method, chars, disk, changes, fp, flag, line, iDataNum, pos,
                              ateof, nleft>>
         /\ \/ stream' = stream
            \/ pc = "line" /\ stream' = stream \o <<Line(line + 1)>>
            \/ pc = "pad" /\ stream' = stream \o <<Pad(line + 1)>>
<1>1. CASE SendLine
  BY <1>1 DEF SendLine, WriteError, Put, Lost, wire, SockStates, TypeOK
<1>2. CASE HttpSendLine
  BY <1>2 DEF HttpSendLine, WriteError, Put, Lost, wire, SockStates, TypeOK
<1>3. CASE PaddedLine
  BY <1>3 DEF PaddedLine, WriteError, Put, Lost, wire, SockStates, TypeOK, env, request
<1>4. CASE SendPad
  BY <1>4 DEF SendPad, WriteError, Put, Lost, wire, SockStates, TypeOK
<1> QED  BY <1>1, <1>2, <1>3, <1>4

\* A piece is written in part.
LEMMA PieceEffect ==
  ASSUME TypeOK, Stages, HttpSendPiece
  PROVE  \E n \in 1..nleft :
           LET part == [i \in 1..n |-> Body(pos - nleft + i)]
           IN  /\ pc = "body" /\ sock = "open"
               /\ part \in Seq(Unit) /\ Len(part) = n
               /\ stream' = stream \o part /\ nleft' = nleft - n
               /\ pc' = (IF nleft' = 0 THEN "loop" ELSE "body")
               /\ UNCHANGED <<sock, seen, method, chars, disk, changes, fp, flag, line,
                              iDataNum, pos, ateof>>
<1>1. PICK n \in 1..Smaller(nleft, room) :
        /\ Put([i \in 1..n |-> Body(pos - nleft + i)]) /\ nleft' = nleft - n
  BY DEF HttpSendPiece
<1>2. n \in 1..nleft /\ n \in Nat
  BY <1>1, ResponseAssumption DEF Smaller, room, TypeOK
<1> DEFINE part == [i \in 1..n |-> Body(pos - nleft + i)]
<1>3. part \in Seq(Unit) /\ Len(part) = n
  <2>1. \A i \in 1..n : pos - nleft + i \in Nat
    BY <1>2 DEF TypeOK, Stages
  <2>2. part \in [1..n -> Unit]
    BY <2>1, Units
  <2>3. DOMAIN part = 1..n
    OBVIOUS
  <2> HIDE DEF part
  <2>4. part \in Seq(Unit)
    BY <1>2, <2>2, SeqDef
  <2>5. DOMAIN part = 1..Len(part) /\ Len(part) \in Nat
    BY <2>4, LenProperties
  <2> QED  BY <1>2, <2>3, <2>4, <2>5
<1>4. /\ pc = "body" /\ sock = "open" /\ stream' = stream \o part
      /\ pc' = (IF nleft' = 0 THEN "loop" ELSE "body")
      /\ UNCHANGED <<sock, seen, method, chars, disk, changes, fp, flag, line, iDataNum, pos,
                     ateof>>
  BY <1>1 DEF HttpSendPiece, Put, env, request
<1> QED  BY <1>1, <1>2, <1>3, <1>4, Zenon

\* The variables keep their types.
LEMMA TypeStep ==
  ASSUME TypeOK, Stages, [Next]_vars
  PROVE  TypeOK'
<1>1. CASE SendLine \/ HttpSendLine \/ PaddedLine \/ SendPad
  <2>1. stream' \in Seq(Unit) /\ seen \in 0..Len(stream')
    <3>1. line + 1 \in Nat
      BY DEF TypeOK
    <3>2. \/ stream' = stream
          \/ stream' = stream \o <<Line(line + 1)>>
          \/ stream' = stream \o <<Pad(line + 1)>>
      BY <1>1, LineEffect
    <3>3. ASSUME NEW u \in Unit, stream' = stream \o <<u>>
          PROVE  stream' \in Seq(Unit) /\ seen \in 0..Len(stream')
      <4>1. /\ stream' \in Seq(Unit) /\ Len(stream) \in Nat
            /\ Len(stream') = Len(stream) + 1
        BY <3>3, Units, StreamGrows DEF TypeOK
      <4> QED  BY <4>1 DEF TypeOK
    <3> QED  BY <3>1, <3>2, <3>3, Units DEF TypeOK
  <2>2. /\ line' \in 0..10 /\ pc' \in Pcs
        /\ UNCHANGED <<method, chars, disk, changes, fp, flag, iDataNum, pos, ateof, nleft>>
    <3>1. CASE NextLine
      BY <1>1, <3>1, LineEffect, NextLineEffect DEF Pcs
    <3>2. CASE ~NextLine
      BY <1>1, <3>2, LineEffect DEF TypeOK, Pcs
    <3> QED  BY <3>1, <3>2
  <2> QED  BY <1>1, <2>1, <2>2, LineEffect DEF TypeOK
<1>2. CASE HttpSendPiece
  <2>1. PICK n \in 1..nleft :
          LET part == [i \in 1..n |-> Body(pos - nleft + i)]
          IN  /\ part \in Seq(Unit) /\ Len(part) = n
              /\ stream' = stream \o part /\ nleft' = nleft - n
              /\ pc' = (IF nleft' = 0 THEN "loop" ELSE "body")
              /\ UNCHANGED <<sock, seen, method, chars, disk, changes, fp, flag, line,
                             iDataNum, pos, ateof>>
    BY <1>2, PieceEffect
  <2>2. /\ stream' \in Seq(Unit) /\ Len(stream) \in Nat
        /\ Len(stream') = Len(stream) + n
    BY <2>1, StreamGrows DEF TypeOK
  <2>3. seen \in 0..Len(stream') /\ nleft' \in 0..BUFFER_SIZE /\ pc' \in Pcs
    BY <2>1, <2>2, ResponseAssumption DEF TypeOK, Pcs
  <2> QED  BY <2>1, <2>2, <2>3 DEF TypeOK
<1>3. CASE HttpSendFails
  BY <1>3, ResponseAssumption
  DEF HttpSendFails, WriteError, Lost, wire, env, request, TypeOK, Pcs, SockStates
<1>4. CASE AcceptRequest
  BY <1>4 DEF AcceptRequest, accept_request, TypeOK, Flags, Pcs, env, wire, request
<1>5. CASE Fopen
  <2>1. disk.size \in Nat
    BY FileSizes DEF TypeOK
  <2>2. fp' \in [kind : {"none", "null", "dir", "file"}, size : Nat, linked : BOOLEAN]
    BY <1>5, <2>1 DEF Fopen, NoFile
  <2> QED  BY <1>5, <2>2 DEF Fopen, TypeOK, Pcs, wire, request
<1>6. CASE StatSize
  <2>1. iDataNum' \in Nat
    BY <1>6, FileSizes, ResponseAssumption DEF StatSize, TypeOK
  <2> QED  BY <1>6, <2>1 DEF StatSize, TypeOK, Pcs, env, wire, request
<1>7. CASE ReadPiece
  <2>1. nleft' \in 0..BUFFER_SIZE /\ pos' \in Nat
    BY <1>7, Piece DEF ReadPiece, TypeOK
  <2> QED  BY <1>7, <2>1 DEF ReadPiece, TypeOK, Pcs, env, wire, request
<1>8. CASE http_module_error \/ ReadNull \/ Finish \/ Sigpipe \/ StackSmashed
  BY <1>8 DEF http_module_error, get_file_length, ReadNull, Finish, log_err, Sigpipe,
              StackSmashed, TypeOK, Pcs, env, wire, request
<1>9. CASE DiskChanges
  <2>1. PICK f \in Files :
          /\ disk' = f
          /\ \/ fp' = [fp EXCEPT !.linked = FALSE]
             \/ f.kind = "file" /\ fp' = [fp EXCEPT !.size = f.size]
    BY <1>9 DEF DiskChanges
  <2>2. f.size \in Nat
    BY FileSizes
  <2>3. fp' \in [kind : {"none", "null", "dir", "file"}, size : Nat, linked : BOOLEAN]
    <3>1. CASE fp' = [fp EXCEPT !.linked = FALSE]
      BY <3>1 DEF TypeOK
    <3>2. CASE fp' = [fp EXCEPT !.size = f.size]
      BY <2>2, <3>2 DEF TypeOK
    <3> QED  BY <2>1, <3>1, <3>2
  <2>4. changes' \in 0..MaxChanges
    BY <1>9, ResponseAssumption DEF DiskChanges, TypeOK
  <2> QED  BY <1>9, <2>1, <2>3, <2>4 DEF DiskChanges, TypeOK, wire, request
<1>10. CASE ClientReads
  <2>1. Len(stream) \in Nat
    BY LenProperties DEF TypeOK
  <2> QED  BY <1>10, <2>1 DEF ClientReads, TypeOK, env, request
<1>11. CASE ClientResets
  BY <1>11 DEF ClientResets, TypeOK, SockStates, env, request
<1>12. CASE UNCHANGED vars
  BY <1>12 DEF vars, TypeOK
<1> QED  BY <1>1, <1>2, <1>3, <1>4, <1>5, <1>6, <1>7, <1>8, <1>9, <1>10, <1>11, <1>12
         DEF Next, Runs, ReadDirectory

----------------------------------------------------------------------------
(* Where the call is.                                                      *)

\* Each step leaves the call where the next one expects it.
LEMMA StagesStep ==
  ASSUME TypeOK, Stages, [Next]_vars
  PROVE  Stages'
<1>1. CASE SendLine \/ HttpSendLine \/ PaddedLine \/ SendPad
  <2>1. CASE NextLine
    <3>1. /\ flag # 0 /\ pos = 0 /\ nleft = 0 /\ ~ateof
          /\ \/ pc' = "line" /\ line' < PageLen(flag)
             \/ pc' = "loop" /\ flag = 200
             \/ pc' = "done" /\ flag # 200
          /\ UNCHANGED <<fp, flag, pos, ateof, nleft>>
      BY <1>1, <2>1, LineEffect, NextLineEffect DEF Stages
    <3> QED  BY <3>1 DEF Stages
  <2>2. CASE ~NextLine
    <3>1. /\ pc = "line" /\ pc' = "pad" /\ flag \in Padded
          /\ UNCHANGED <<fp, flag, line, pos, ateof, nleft>>
      BY <1>1, <2>2, LineEffect
    <3> QED  BY <3>1 DEF Stages
  <2> QED  BY <2>1, <2>2
<1>2. CASE HttpSendPiece
  <2>1. PICK n \in 1..nleft :
          /\ pc = "body" /\ nleft' = nleft - n
          /\ pc' = (IF nleft' = 0 THEN "loop" ELSE "body")
          /\ UNCHANGED <<fp, flag, line, pos, ateof>>
    BY <1>2, PieceEffect
  <2>2. nleft' \in Nat /\ nleft' <= pos
    BY <2>1, ResponseAssumption DEF TypeOK, Stages
  <2> QED  BY <2>1, <2>2 DEF Stages
<1>3. CASE HttpSendFails
  BY <1>3 DEF HttpSendFails, Stages, env, TypeOK
<1>4. CASE AcceptRequest
  <2>1. /\ pc = "accept" /\ flag' \in {200, 404, 500}
        /\ pc' = (IF flag' = 200 THEN "open" ELSE "line")
        /\ UNCHANGED <<fp, line, pos, ateof, nleft>>
    BY <1>4 DEF AcceptRequest, accept_request, env
  <2>2. flag' # 0 /\ line' < PageLen(flag')
    <3>1. flag' \in Flags \cup Padded /\ flag' # 0
      BY <2>1 DEF Flags
    <3>2. 0 < PageLen(flag')
      BY <3>1, Pages
    <3> QED  BY <2>1, <3>1, <3>2 DEF Stages
  <2> QED  BY <2>1, <2>2 DEF Stages
<1>5. CASE Fopen
  BY <1>5 DEF Fopen, Stages
<1>6. CASE StatSize
  <2>1. 0 < PageLen(200)
    BY DEF PageLen
  <2> QED  BY <1>6, <2>1 DEF StatSize, Stages, env
<1>7. CASE ReadPiece
  <2>1. /\ pc = "loop" /\ nleft' = fread /\ pos' = pos + fread
        /\ pc' = (IF fread = 0 THEN "loop" ELSE "body")
        /\ UNCHANGED <<fp, flag, line>>
    BY <1>7 DEF ReadPiece, env
  <2>2. fread \in Nat /\ pos \in Nat
    BY Piece, ResponseAssumption DEF TypeOK
  <2> HIDE DEF fread
  <2>3. nleft' <= pos' /\ (pc' = "loop" => nleft' = 0) /\ (pc' = "body" => nleft' > 0)
    BY <2>1, <2>2
  <2> QED  BY <2>1, <2>3 DEF Stages
<1>8. CASE http_module_error \/ ReadNull \/ Finish \/ Sigpipe \/ StackSmashed
  BY <1>8 DEF http_module_error, get_file_length, ReadNull, Finish, log_err, Sigpipe,
              StackSmashed, Stages, env
<1>9. CASE DiskChanges
  <2>1. /\ pc' = pc /\ pc # "done"
        /\ UNCHANGED <<flag, line, pos, ateof, nleft>>
    BY <1>9 DEF DiskChanges, Ended
  <2> QED  BY <2>1 DEF Stages
<1>10. CASE ClientReads \/ ClientResets
  BY <1>10 DEF ClientReads, ClientResets, Stages, env
<1>11. CASE UNCHANGED vars
  BY <1>11 DEF vars, Stages
<1> QED  BY <1>1, <1>2, <1>3, <1>4, <1>5, <1>6, <1>7, <1>8, <1>9, <1>10, <1>11
         DEF Next, Runs, ReadDirectory

\* As long as nobody changes the file, every step that looks at it finds the
\* same, and a crash has its cause.
LEMMA SameFileStep ==
  ASSUME TypeOK, Stages, SameFile, CrashesExplained, [Next]_vars
  PROVE  SameFile' /\ CrashesExplained'
<1>1. CASE SendLine \/ HttpSendLine \/ PaddedLine \/ SendPad
  <2>1. /\ pc \in {"line", "pad"} /\ pc' \in {"line", "pad", "loop", "done"}
        /\ UNCHANGED <<chars, disk, changes, fp, flag, iDataNum, pos, ateof, nleft>>
    <3>1. CASE NextLine
      BY <1>1, <3>1, LineEffect, NextLineEffect
    <3>2. CASE ~NextLine
      BY <1>1, <3>2, LineEffect
    <3> QED  BY <3>1, <3>2
  <2> QED  BY <2>1 DEF SameFile, CrashesExplained, TooLong
<1>2. CASE HttpSendPiece
  <2>1. /\ pc = "body" /\ pc' \in {"loop", "body"}
        /\ UNCHANGED <<chars, disk, changes, fp, flag, iDataNum, pos, ateof>>
    BY <1>2, PieceEffect
  <2> QED  BY <2>1 DEF SameFile, CrashesExplained, TooLong
<1>3. CASE HttpSendFails
  BY <1>3 DEF HttpSendFails, SameFile, CrashesExplained, TooLong, env, request
<1>4. CASE AcceptRequest
  <2>1. /\ pc' \in {"open", "line"} /\ pos = 0 /\ ~ateof
        /\ flag' = 200 => disk.kind # "absent" /\ pc' = "open"
        /\ UNCHANGED <<disk, changes, fp, iDataNum, pos, ateof, nleft>>
    BY <1>4 DEF AcceptRequest, accept_request, Stages, env
  <2> QED  BY <2>1 DEF SameFile, CrashesExplained
<1>5. CASE Fopen
  <2>1. /\ pc = "open" /\ pc' = "stat" /\ pos = 0 /\ ~ateof
        /\ UNCHANGED <<disk, changes, flag, iDataNum, pos, ateof, nleft>>
        /\ fp' = IF disk.kind \in {"dir", "file"}
                 THEN [kind |-> disk.kind, size |-> disk.size, linked |-> TRUE]
                 ELSE NoFile("null")
    BY <1>5 DEF Fopen, Stages
  <2>2. disk.kind \in {"absent", "dir", "locked", "file"} /\ disk.size \in Nat
    BY FileSizes DEF TypeOK, Files
  <2> QED  BY <2>1, <2>2 DEF NoFile, SameFile, CrashesExplained
<1>6. CASE StatSize
  BY <1>6 DEF StatSize, SameFile, CrashesExplained, Stages, env
<1>7. CASE ReadPiece
  <2>1. /\ pc = "loop" /\ ~ateof /\ ateof' = (fread < BUFFER_SIZE) /\ pos' = pos + fread
        /\ pc' \in {"loop", "body"} /\ fp.kind = "file"
        /\ UNCHANGED <<disk, changes, fp, flag, iDataNum>>
    BY <1>7 DEF ReadPiece, env
  <2>2. pos <= fp.size => /\ pos + fread <= fp.size
                          /\ fread < BUFFER_SIZE => pos + fread = fp.size
    BY Piece
  <2> HIDE DEF fread
  <2> QED  BY <2>1, <2>2 DEF SameFile, CrashesExplained, TooLong
<1>8. CASE http_module_error \/ Sigpipe
  BY <1>8 DEF http_module_error, get_file_length, Sigpipe, SameFile, CrashesExplained,
              Stages, env
<1>9. CASE ReadNull \/ Finish \/ StackSmashed
  <2>1. /\ pc \in {"loop", "accept", "line", "done"} /\ pc' \in {"done", "crashed"}
        /\ UNCHANGED <<chars, disk, changes, fp, flag, iDataNum, pos, ateof, nleft>>
    BY <1>9 DEF ReadNull, Finish, StackSmashed, log_err, env, request
  <2>2. SameFile'
    <3>1. CASE pc = "loop" \/ pc = "line" \/ pc = "done"
      BY <2>1, <3>1 DEF SameFile
    <3>2. CASE pc = "accept"
      BY <2>1, <3>2 DEF SameFile, Stages
    <3> QED  BY <2>1, <3>1, <3>2
  <2>3. CASE ReadNull
    <3>1. fp.kind = "null" /\ flag = 200
      BY <2>3 DEF ReadNull, Stages
    <3>2. changes > 0 \/ disk.kind = "locked"
      BY <3>1 DEF SameFile, TypeOK
    <3> QED  BY <2>1, <2>2, <3>1, <3>2 DEF CrashesExplained
  <2>4. CASE Finish
    BY <2>1, <2>2, <2>4 DEF Finish, CrashesExplained, Stages
  <2>5. CASE StackSmashed
    BY <2>1, <2>2, <2>5 DEF StackSmashed, CrashesExplained, TooLong
  <2> QED  BY <1>9, <2>3, <2>4, <2>5
<1>10. CASE DiskChanges
  <2>1. changes' # 0 /\ pc' = pc /\ pc # "crashed"
    BY <1>10 DEF DiskChanges, Ended, TypeOK
  <2> QED  BY <2>1 DEF SameFile, CrashesExplained
<1>11. CASE ClientReads \/ ClientResets
  BY <1>11 DEF ClientReads, ClientResets, SameFile, CrashesExplained, TooLong, env, request
<1>12. CASE UNCHANGED vars
  BY <1>12 DEF vars, SameFile, CrashesExplained, TooLong
<1> QED  BY <1>1, <1>2, <1>3, <1>4, <1>5, <1>6, <1>7, <1>8, <1>9, <1>10, <1>11, <1>12
         DEF Next, Runs, ReadDirectory

----------------------------------------------------------------------------
(* What the client receives.                                               *)

\* The numbers of the units of one kind in a part of the stream.
SentIn(part, w) == {part[i].n : i \in {j \in DOMAIN part : part[j].what = w}}

\* What is written is added to what was sent.
LEMMA SentGrows ==
  ASSUME stream \in Seq(Unit), NEW part \in Seq(Unit), stream' = stream \o part, NEW w
  PROVE  Sent(w)' = Sent(w) \cup SentIn(part, w)
<1>1. /\ Len(stream) \in Nat /\ Len(part) \in Nat
      /\ DOMAIN stream = 1..Len(stream) /\ DOMAIN part = 1..Len(part)
      /\ DOMAIN stream' = 1..(Len(stream) + Len(part))
      /\ \A i \in DOMAIN stream : i \in DOMAIN stream' /\ stream'[i] = stream[i]
      /\ \A i \in DOMAIN part : /\ i + Len(stream) \in DOMAIN stream'
                                /\ stream'[i + Len(stream)] = part[i]
  BY StreamGrows
<1>2. \A k \in DOMAIN stream' :
        \/ k \in DOMAIN stream
        \/ k - Len(stream) \in DOMAIN part /\ k - Len(stream) + Len(stream) = k
  BY <1>1
<1>3. Sent(w) \subseteq Sent(w)'
  BY <1>1 DEF Sent
<1>4. SentIn(part, w) \subseteq Sent(w)'
  <2>1. ASSUME NEW i \in DOMAIN part, part[i].what = w PROVE part[i].n \in Sent(w)'
    BY <1>1, <2>1 DEF Sent
  <2> QED  BY <2>1 DEF SentIn
<1>5. ASSUME NEW k \in DOMAIN stream', stream'[k].what = w
      PROVE  stream'[k].n \in Sent(w) \cup SentIn(part, w)
  <2>1. CASE k \in DOMAIN stream
    BY <1>1, <1>5, <2>1 DEF Sent
  <2>2. CASE k - Len(stream) \in DOMAIN part /\ k - Len(stream) + Len(stream) = k
    <3>1. stream'[k] = part[k - Len(stream)]
      BY <1>1, <2>2
    <3> QED  BY <1>5, <2>2, <3>1 DEF SentIn
  <2> QED  BY <1>2, <2>1, <2>2
<1>6. Sent(w)' \subseteq Sent(w) \cup SentIn(part, w)
  BY <1>5 DEF Sent
<1> QED  BY <1>3, <1>4, <1>6

\* The stream stays in order if what is written is, and is behind the rest.
LEMMA OrderGrows ==
  ASSUME stream \in Seq(Unit), NEW part \in Seq(Unit), stream' = stream \o part,
         InOrder,
         \A i, j \in DOMAIN part : i < j => Before(part[i], part[j]),
         \A i \in DOMAIN stream : \A j \in DOMAIN part : Before(stream[i], part[j])
  PROVE  InOrder'
<1>1. /\ Len(stream) \in Nat /\ Len(part) \in Nat
      /\ DOMAIN stream = 1..Len(stream) /\ DOMAIN part = 1..Len(part)
      /\ DOMAIN stream' = 1..(Len(stream) + Len(part))
      /\ \A i \in DOMAIN stream : i \in DOMAIN stream' /\ stream'[i] = stream[i]
      /\ \A i \in DOMAIN part : /\ i + Len(stream) \in DOMAIN stream'
                                /\ stream'[i + Len(stream)] = part[i]
  BY StreamGrows
<1>2. SUFFICES ASSUME NEW i \in DOMAIN stream', NEW j \in DOMAIN stream', i < j
               PROVE  Before(stream'[i], stream'[j])
  BY DEF InOrder, Before
<1>3. CASE j <= Len(stream)
  <2>1. i \in DOMAIN stream /\ j \in DOMAIN stream
    BY <1>1, <1>2, <1>3
  <2>2. Before(stream[i], stream[j])
    BY <1>2, <2>1 DEF InOrder
  <2> QED  BY <1>1, <2>1, <2>2
<1>4. CASE ~(j <= Len(stream))
  <2> DEFINE k == j - Len(stream)
  <2>1. k \in DOMAIN part /\ k + Len(stream) = j
    BY <1>1, <1>4
  <2>2. stream'[j] = part[k]
    <3>1. \A x \in DOMAIN part : x + Len(stream) = j => stream'[j] = part[x]
      BY <1>1
    <3> QED  BY <2>1, <3>1
  <2>3. CASE i <= Len(stream)
    <3>1. i \in DOMAIN stream
      BY <1>1, <2>3
    <3>2. Before(stream[i], part[k])
      BY <2>1, <3>1
    <3> QED  BY <1>1, <2>2, <3>1, <3>2
  <2>4. CASE ~(i <= Len(stream))
    <3> DEFINE m == i - Len(stream)
    <3>1. m \in DOMAIN part /\ m + Len(stream) = i /\ m < k
      BY <1>1, <1>2, <2>4
    <3>2. stream'[i] = part[m]
      <4>1. \A x \in DOMAIN part : x + Len(stream) = i => stream'[i] = part[x]
        BY <1>1
      <4> QED  BY <3>1, <4>1
    <3>3. Before(part[m], part[k])
      BY <2>1, <3>1
    <3> QED  BY <2>2, <3>2, <3>3
  <2> QED  BY <2>3, <2>4
<1> QED  BY <1>3, <1>4

\* Nothing is written, or what should be is lost with the connection.
LEMMA NothingWritten ==
  ASSUME TypeOK, Bounded, InOrder, NothingMissing, stream' = stream,
         sock' = "open" => /\ sock = "open" /\ LinesTried' = LinesTried
                           /\ PadsTried' = PadsTried /\ pos' - nleft' = pos - nleft,
         pc' # "killed" => /\ pc # "killed"
                           /\ 1..LinesTried \subseteq 1..LinesTried'
                           /\ 1..PadsTried \subseteq 1..PadsTried'
                           /\ 1..(pos - nleft) \subseteq 1..(pos' - nleft')
  PROVE  Bounded' /\ InOrder' /\ NothingMissing'
<1>1. Bounded'
  BY DEF Bounded
<1>2. InOrder'
  BY DEF InOrder, Before
<1>3. \A w : Sent(w)' = Sent(w)
  BY DEF Sent
<1>4. NothingMissing'
  BY <1>3 DEF NothingMissing, BodySent, LinesTried, PadsTried
<1> QED  BY <1>1, <1>2, <1>4

\* A line is lost only with the connection: a bare send() finds room, since the
\* lines before it have taken less than the buffer holds.
LEMMA LineCases ==
  ASSUME TypeOK, Stages, LinesFit, SendLine \/ HttpSendLine \/ PaddedLine \/ SendPad
  PROVE  \/ stream' = stream /\ sock' # "open" /\ NextLine /\ pc \in {"line", "pad"}
         \/ /\ pc = "line" /\ stream' = stream \o <<Line(line + 1)>> /\ sock' = sock
            /\ flag \notin Padded /\ NextLine
         \/ /\ pc = "line" /\ stream' = stream \o <<Line(line + 1)>> /\ sock' = sock
            /\ flag \in Padded /\ pc' = "pad"
            /\ UNCHANGED <<flag, line, pos, nleft>>
         \/ /\ pc = "pad" /\ stream' = stream \o <<Pad(line + 1)>> /\ sock' = sock
            /\ flag \in Padded /\ NextLine
<1>1. CASE SendLine
  <2>1. pc = "line" /\ line + 1 \in Bare(flag) /\ NextLine
    BY <1>1 DEF SendLine
  <2>2. flag \notin Padded /\ PageLen(flag) \in 0..10
    BY <2>1, Pages DEF TypeOK
  <2>3. room > 0
    <3>1. Len(stream) \in Nat /\ Len(stream) <= line
      BY <2>1, <2>2, LenProperties DEF LinesFit, TypeOK
    <3>2. line < 10 /\ line \in Nat /\ seen \in Nat
      BY <2>1, <2>2 DEF Stages, TypeOK
    <3> QED  BY <3>1, <3>2, ResponseAssumption DEF room
  <2> QED  BY <1>1, <2>1, <2>2, <2>3 DEF SendLine, Put, WriteError, Lost, wire
<1>2. CASE HttpSendLine
  BY <1>2 DEF HttpSendLine, Put, WriteError, Lost, wire
<1>3. CASE PaddedLine
  BY <1>3 DEF PaddedLine, Put, WriteError, Lost, wire
<1>4. CASE SendPad
  <2>1. pc = "pad" /\ NextLine /\ flag \in Padded
    BY <1>4 DEF SendPad, Stages
  <2> QED  BY <1>4, <2>1 DEF SendPad, Put, WriteError, Lost, wire
<1> QED  BY <1>1, <1>2, <1>3, <1>4

\* One unit goes out, a line or its padding, and is the next of its kind.
LEMMA UnitWritten ==
  ASSUME TypeOK, Stages, Bounded, InOrder, NothingMissing, NEW u \in Unit,
         stream' = stream \o <<u>>, pc \in {"line", "pad"}, pc' # "killed",
         sock' = sock, UNCHANGED <<pos, nleft>>,
         \/ /\ u = Line(LinesTried + 1) /\ LinesTried' = LinesTried + 1
            /\ LinesTried = line /\ PadsTried' = PadsTried
         \/ /\ u = Pad(PadsTried + 1) /\ PadsTried' = PadsTried + 1
            /\ LinesTried = PadsTried + 1 /\ LinesTried' = LinesTried
  PROVE  Bounded' /\ InOrder' /\ NothingMissing'
<1> DEFINE part == <<u>>
<1>1. part \in Seq(Unit) /\ DOMAIN part = 1..1 /\ Len(part) = 1 /\ part[1] = u
  BY Units
<1>2. \A i \in DOMAIN part : i = 1 /\ part[i] = u
  BY <1>1
<1> HIDE DEF part
<1>3. stream \in Seq(Unit) /\ stream' = stream \o part
  BY DEF part, TypeOK
<1>4. /\ line \in Nat /\ LinesTried \in Nat /\ PadsTried \in Nat
      /\ PadsTried <= LinesTried /\ PadsTried <= line /\ pos = 0 /\ nleft = 0
  <2>1. line \in Nat
    BY DEF TypeOK
  <2>2. pos = 0 /\ nleft = 0
    BY DEF Stages
  <2> QED  BY <2>1, <2>2 DEF LinesTried, PadsTried
<1>5. \A i \in DOMAIN stream :
        /\ stream[i].what \in {"line", "pad", "body"} /\ stream[i].n \in Nat
        /\ stream[i].what = "line" => stream[i].n \in 1..LinesTried
        /\ stream[i].what = "pad" => stream[i].n \in 1..PadsTried
        /\ stream[i].what # "body"
  <2>1. \A i \in DOMAIN stream : stream[i] \in Unit
    BY LenProperties, ElementOfSeq DEF TypeOK
  <2>2. \A i \in DOMAIN stream :
        /\ stream[i].what = "line" => stream[i].n \in 1..LinesTried
        /\ stream[i].what = "pad" => stream[i].n \in 1..PadsTried
        /\ stream[i].what = "body" => stream[i].n \in 1..(pos - nleft)
    BY DEF Bounded
  <2>3. 1..(pos - nleft) = {}
    BY <1>4
  <2> QED  BY <2>1, <2>2, <2>3 DEF Unit
<1>6. /\ \/ u.what = "line" /\ u.n = LinesTried + 1
         \/ u.what = "pad" /\ u.n = PadsTried + 1
      /\ LinesTried' \in Nat /\ PadsTried' \in Nat
      /\ LinesTried <= LinesTried' /\ PadsTried <= PadsTried'
      /\ u.what = "line" => u.n \in 1..LinesTried'
      /\ u.what = "pad" => u.n \in 1..PadsTried'
  BY <1>4 DEF Line, Pad
<1>7. Bounded'
  <2>1. /\ DOMAIN stream = 1..Len(stream) /\ Len(stream) \in Nat
        /\ DOMAIN stream' = 1..(Len(stream) + 1)
        /\ \A i \in DOMAIN stream : stream'[i] = stream[i]
    BY <1>1, <1>3, StreamGrows
  <2>2. stream'[Len(stream) + 1] = u
    BY <1>1, <1>3, StreamGrows
  <2>3. ASSUME NEW i \in DOMAIN stream'
        PROVE  /\ stream'[i].what = "line" => stream'[i].n \in 1..LinesTried'
               /\ stream'[i].what = "pad" => stream'[i].n \in 1..PadsTried'
               /\ stream'[i].what # "body"
    <3>1. CASE i \in DOMAIN stream
      <4>1. stream'[i] = stream[i]
        BY <2>1, <3>1
      <4>2. 1..LinesTried \subseteq 1..LinesTried' /\ 1..PadsTried \subseteq 1..PadsTried'
        BY <1>4, <1>6
      <4> QED  BY <1>5, <3>1, <4>1, <4>2
    <3>2. CASE i = Len(stream) + 1
      BY <1>6, <2>2, <3>2
    <3> QED  BY <2>1, <3>1, <3>2
  <2> QED  BY <2>3 DEF Bounded
<1>8. InOrder'
  <2>1. \A i \in DOMAIN stream : Before(stream[i], u)
    BY <1>4, <1>5, <1>6 DEF Before, Line, Pad
  <2> QED  BY <1>1, <1>2, <1>3, <2>1, OrderGrows
<1>9. NothingMissing'
  <2>1. SUFFICES ASSUME sock = "open"
                 PROVE  /\ Sent("line")' = 1..LinesTried' /\ Sent("pad")' = 1..PadsTried'
                        /\ Sent("body")' = 1..(pos' - nleft')
    BY DEF NothingMissing, LinesTried, PadsTried, BodySent
  <2>2. /\ Sent("line") = 1..LinesTried /\ Sent("pad") = 1..PadsTried
        /\ Sent("body") = 1..(pos - nleft)
    BY <2>1 DEF NothingMissing, LinesTried, PadsTried, BodySent
  <2>3. \A w : Sent(w)' = Sent(w) \cup SentIn(part, w)
    BY <1>1, <1>3, SentGrows
  <2>4. \A w : SentIn(part, w) = IF u.what = w THEN {u.n} ELSE {}
    BY <1>1 DEF SentIn
  <2>5. Sent("body")' = 1..(pos' - nleft')
    BY <1>6, <2>2, <2>3, <2>4
  <2>6. CASE u = Line(LinesTried + 1)
    <3>1. u.what = "line" /\ u.n = LinesTried + 1
      BY <2>6 DEF Line
    <3>2. PadsTried' = PadsTried /\ LinesTried' = LinesTried + 1
      BY <3>1 DEF Pad
    <3>3. 1..LinesTried \cup {LinesTried + 1} = 1..(LinesTried + 1)
      BY <1>4
    <3> QED  BY <2>2, <2>3, <2>4, <2>5, <3>1, <3>2, <3>3
  <2>7. CASE u = Pad(PadsTried + 1)
    <3>1. u.what = "pad" /\ u.n = PadsTried + 1
      BY <2>7 DEF Pad
    <3>2. LinesTried' = LinesTried /\ PadsTried' = PadsTried + 1
      BY <3>1 DEF Line
    <3>3. 1..PadsTried \cup {PadsTried + 1} = 1..(PadsTried + 1)
      BY <1>4
    <3> QED  BY <2>2, <2>3, <2>4, <2>5, <3>1, <3>2, <3>3
  <2> QED  BY <2>5, <2>6, <2>7
<1> QED  BY <1>7, <1>8, <1>9

\* A part of a piece goes out, behind the parts before it.
LEMMA PartWritten ==
  ASSUME TypeOK, Stages, Bounded, InOrder, NothingMissing, HttpSendPiece
  PROVE  Bounded' /\ InOrder' /\ NothingMissing'
<1>1. PICK n \in 1..nleft :
        LET part == [i \in 1..n |-> Body(pos - nleft + i)]
        IN  /\ pc = "body" /\ sock = "open"
            /\ part \in Seq(Unit) /\ Len(part) = n
            /\ stream' = stream \o part /\ nleft' = nleft - n
            /\ pc' = (IF nleft' = 0 THEN "loop" ELSE "body")
            /\ UNCHANGED <<sock, flag, line, pos>>
  BY PieceEffect
<1> DEFINE part == [i \in 1..n |-> Body(pos - nleft + i)]
           done == pos - nleft
<1>2. /\ n \in Nat /\ nleft \in Nat /\ pos \in Nat /\ done \in Nat
      /\ pos' - nleft' = done + n
  BY <1>1 DEF TypeOK, Stages
<1>3. /\ DOMAIN part = 1..n
      /\ \A i \in DOMAIN part : part[i].what = "body" /\ part[i].n = done + i
  BY DEF Body
<1>4. /\ part \in Seq(Unit) /\ Len(part) = n /\ stream' = stream \o part
      /\ stream \in Seq(Unit)
  BY <1>1 DEF TypeOK
<1>5. LinesTried' = LinesTried /\ PadsTried' = PadsTried
  BY <1>1 DEF LinesTried, PadsTried
<1> HIDE DEF part
<1>6. \A i \in DOMAIN stream :
        /\ stream[i].what \in {"line", "pad", "body"} /\ stream[i].n \in Nat
        /\ stream[i].what = "line" => stream[i].n \in 1..LinesTried
        /\ stream[i].what = "pad" => stream[i].n \in 1..PadsTried
        /\ stream[i].what = "body" => stream[i].n \in 1..done
  <2>1. \A i \in DOMAIN stream : stream[i] \in Unit
    BY LenProperties, ElementOfSeq DEF TypeOK
  <2> QED  BY <1>1, <2>1 DEF Bounded, Unit
<1> HIDE DEF done
<1>7. Bounded'
  <2>1. /\ DOMAIN stream = 1..Len(stream) /\ Len(stream) \in Nat
        /\ DOMAIN stream' = 1..(Len(stream) + n)
        /\ \A i \in DOMAIN stream : stream'[i] = stream[i]
        /\ \A i \in DOMAIN part : stream'[i + Len(stream)] = part[i]
    BY <1>4, StreamGrows
  <2>2. ASSUME NEW k \in DOMAIN stream'
        PROVE  /\ stream'[k].what = "line" => stream'[k].n \in 1..LinesTried
               /\ stream'[k].what = "pad" => stream'[k].n \in 1..PadsTried
               /\ stream'[k].what = "body" => stream'[k].n \in 1..(done + n)
    <3>1. CASE k \in DOMAIN stream
      <4>1. stream'[k] = stream[k] /\ 1..done \subseteq 1..(done + n)
        BY <1>2, <2>1, <3>1
      <4> QED  BY <1>6, <3>1, <4>1
    <3>2. CASE k \notin DOMAIN stream
      <4>1. PICK i \in DOMAIN part : i + Len(stream) = k
        <5>1. k - Len(stream) \in 1..n /\ k - Len(stream) + Len(stream) = k
          BY <1>2, <2>1, <3>2
        <5> QED  BY <1>3, <5>1
      <4>2. stream'[k] = part[i]
        BY <2>1, <4>1
      <4>3. done + i \in 1..(done + n)
        BY <1>2, <1>3
      <4> QED  BY <1>3, <4>2, <4>3
    <3> QED  BY <3>1, <3>2
  <2> QED  BY <1>2, <1>5, <2>2 DEF Bounded
<1>8. InOrder'
  <2>1. \A i, j \in DOMAIN part : i < j => Before(part[i], part[j])
    <3>1. ASSUME NEW i \in DOMAIN part, NEW j \in DOMAIN part, i < j
          PROVE  Before(part[i], part[j])
      <4>1. done + i < done + j
        BY <1>2, <1>3, <3>1
      <4> QED  BY <1>3, <4>1 DEF Before
    <3> QED  BY <3>1
  <2>2. ASSUME NEW i \in DOMAIN stream, NEW j \in DOMAIN part
        PROVE  Before(stream[i], part[j])
    <3>1. CASE stream[i].what = "body"
      <4>1. stream[i].n < done + j
        BY <1>2, <1>3, <1>6, <3>1
      <4> QED  BY <1>3, <3>1, <4>1 DEF Before
    <3>2. CASE stream[i].what # "body"
      BY <1>3, <3>2 DEF Before
    <3> QED  BY <3>1, <3>2
  <2> QED  BY <1>4, <2>1, <2>2, OrderGrows
<1>9. NothingMissing'
  <2>1. /\ Sent("line") = 1..LinesTried /\ Sent("pad") = 1..PadsTried
        /\ Sent("body") = 1..done
    BY <1>1 DEF NothingMissing, LinesTried, PadsTried, BodySent, done
  <2>2. \A w : Sent(w)' = Sent(w) \cup SentIn(part, w)
    BY <1>4, SentGrows
  <2>3. SentIn(part, "line") = {} /\ SentIn(part, "pad") = {}
    BY <1>3 DEF SentIn
  <2>4. 1..done \cup SentIn(part, "body") = 1..(done + n)
    <3>1. ASSUME NEW x \in (done + 1)..(done + n) PROVE x \in SentIn(part, "body")
      <4>1. x - done \in 1..n /\ done + (x - done) = x
        BY <1>2
      <4>2. /\ x - done \in DOMAIN part
            /\ part[x - done].n = x /\ part[x - done].what = "body"
        BY <1>3, <4>1
      <4> QED  BY <4>2 DEF SentIn
    <3>2. \A i \in DOMAIN part : part[i].n \in 1..(done + n)
      BY <1>2, <1>3
    <3>3. SentIn(part, "body") \subseteq 1..(done + n)
      BY <3>2 DEF SentIn
    <3>4. 1..(done + n) \subseteq 1..done \cup (done + 1)..(done + n)
      BY <1>2
    <3>5. 1..done \subseteq 1..(done + n)
      BY <1>2
    <3> QED  BY <3>1, <3>3, <3>4, <3>5, Zenon
  <2>5. /\ Sent("line")' = 1..LinesTried' /\ Sent("pad")' = 1..PadsTried'
        /\ Sent("body")' = 1..(pos' - nleft')
    BY <1>2, <1>5, <2>1, <2>2, <2>3, <2>4
  <2> QED  BY <2>5 DEF NothingMissing, LinesTried, PadsTried, BodySent
<1> QED  BY <1>7, <1>8, <1>9

\* Lines, their padding and pieces are written in order, and none is missing.
LEMMA StreamStep ==
  ASSUME IInv, [Next]_vars
  PROVE  Bounded' /\ InOrder' /\ NothingMissing' /\ LinesFit'
<1> USE DEF IInv
<1>1. CASE SendLine \/ HttpSendLine \/ PaddedLine \/ SendPad
  <2>0. line \in Nat /\ line + 1 \in Nat /\ Len(stream) \in Nat /\ stream \in Seq(Unit)
    BY LenProperties DEF TypeOK
  <2>1. CASE stream' = stream /\ sock' # "open" /\ NextLine /\ pc \in {"line", "pad"}
    <3>1. /\ line' = line + 1 /\ pc' \in {"line", "loop", "done"}
          /\ UNCHANGED <<flag, pos, nleft>>
      BY <2>1, NextLineEffect
    <3>2. /\ LinesTried' = line + 1 /\ LinesTried \in {line, line + 1}
          /\ PadsTried \in Nat /\ PadsTried' \in {PadsTried, PadsTried + 1}
      BY <2>0, <3>1 DEF LinesTried, PadsTried
    <3>3. 1..LinesTried \subseteq 1..LinesTried' /\ 1..PadsTried \subseteq 1..PadsTried'
      BY <2>0, <3>2
    <3>4. Bounded' /\ InOrder' /\ NothingMissing'
      BY <2>1, <3>1, <3>3, NothingWritten
    <3>5. LinesFit'
      BY <2>0, <2>1, <3>1 DEF LinesFit, Stages
    <3> QED  BY <3>4, <3>5
  <2>2. CASE /\ pc = "line" /\ stream' = stream \o <<Line(line + 1)>> /\ sock' = sock
             /\ flag \notin Padded /\ NextLine
    <3>1. /\ line' = line + 1 /\ pc' \in {"line", "loop", "done"}
          /\ UNCHANGED <<flag, pos, nleft>>
      BY <2>2, NextLineEffect
    <3>2. /\ LinesTried = line /\ LinesTried' = line + 1
          /\ PadsTried' = PadsTried
      BY <2>2, <3>1 DEF LinesTried, PadsTried
    <3>3. Line(line + 1) \in Unit
      BY <2>0, Units
    <3>4. Bounded' /\ InOrder' /\ NothingMissing'
      BY <2>2, <3>1, <3>2, <3>3, UnitWritten
    <3>5. Len(stream') = Len(stream) + 1
      BY <2>0, <2>2, <3>3, Units, StreamGrows
    <3>6. LinesFit'
      BY <2>0, <2>2, <3>1, <3>5 DEF LinesFit
    <3> QED  BY <3>4, <3>6
  <2>3. CASE /\ pc = "line" /\ stream' = stream \o <<Line(line + 1)>> /\ sock' = sock
             /\ flag \in Padded /\ pc' = "pad"
             /\ UNCHANGED <<flag, line, pos, nleft>>
    <3>1. /\ LinesTried = line /\ LinesTried' = line + 1
          /\ PadsTried' = PadsTried
      BY <2>3 DEF LinesTried, PadsTried
    <3>2. Line(line + 1) \in Unit
      BY <2>0, Units
    <3>3. Bounded' /\ InOrder' /\ NothingMissing'
      BY <2>3, <3>1, <3>2, UnitWritten
    <3> QED  BY <2>3, <3>3 DEF LinesFit
  <2>4. CASE /\ pc = "pad" /\ stream' = stream \o <<Pad(line + 1)>> /\ sock' = sock
             /\ flag \in Padded /\ NextLine
    <3>1. /\ line' = line + 1 /\ pc' \in {"line", "loop", "done"}
          /\ UNCHANGED <<flag, pos, nleft>>
      BY <2>4, NextLineEffect
    <3>2. /\ LinesTried = line + 1 /\ LinesTried' = line + 1
          /\ PadsTried = line /\ PadsTried' = line + 1
      BY <2>4, <3>1 DEF LinesTried, PadsTried
    <3>3. Pad(line + 1) \in Unit
      BY <2>0, Units
    <3>4. Bounded' /\ InOrder' /\ NothingMissing'
      BY <2>4, <3>1, <3>2, <3>3, UnitWritten
    <3> QED  BY <2>4, <3>1, <3>4 DEF LinesFit
  <2> QED  BY <1>1, <2>1, <2>2, <2>3, <2>4, LineCases
<1>2. CASE HttpSendPiece
  <2>1. pc' \in {"loop", "body"}
    BY <1>2 DEF HttpSendPiece
  <2> QED  BY <1>2, <2>1, PartWritten DEF LinesFit
<1>3. CASE HttpSendFails
  <2>1. /\ pc = "body" /\ pc' = "loop" /\ stream' = stream /\ sock' # "open"
        /\ nleft' = 0 /\ UNCHANGED <<flag, line, pos>>
    BY <1>3 DEF HttpSendFails, WriteError, Lost, wire
  <2>2. LinesTried' = LinesTried /\ PadsTried' = PadsTried
    BY <2>1 DEF LinesTried, PadsTried
  <2>3. 1..(pos - nleft) \subseteq 1..(pos' - nleft')
    BY <2>1 DEF TypeOK, Stages
  <2> QED  BY <2>1, <2>2, <2>3, NothingWritten DEF LinesFit
<1>4. CASE Sigpipe
  <2>1. pc' = "killed" /\ stream' = stream /\ sock' # "open"
    BY <1>4 DEF Sigpipe, wire
  <2> QED  BY <2>1, NothingWritten DEF LinesFit
<1>5. CASE \/ AcceptRequest \/ Fopen \/ StatSize \/ http_module_error \/ ReadPiece
           \/ ReadNull \/ Finish \/ StackSmashed \/ DiskChanges \/ ClientReads \/ ClientResets
           \/ UNCHANGED vars
  <2>1. /\ stream' = stream /\ line' = line
        /\ sock' = "open" => sock = "open"
        /\ pc' # "killed" => pc # "killed"
    BY <1>5 DEF AcceptRequest, Fopen, StatSize, http_module_error, ReadPiece, ReadNull,
                Finish, StackSmashed, DiskChanges, ClientReads, ClientResets, Ended, vars, wire
  <2>2. pos' - nleft' = pos - nleft
    <3>1. CASE ReadPiece
      <4>1. pos' = pos + fread /\ nleft' = fread /\ nleft = 0
        BY <3>1 DEF ReadPiece, Stages
      <4>2. fread \in Nat /\ pos \in Nat
        BY Piece, ResponseAssumption DEF TypeOK
      <4> HIDE DEF fread
      <4> QED  BY <4>1, <4>2
    <3>2. CASE ~ReadPiece
      BY <1>5, <3>2 DEF AcceptRequest, Fopen, StatSize, http_module_error, ReadNull,
                        Finish, StackSmashed, DiskChanges, ClientReads, ClientResets, vars
    <3> QED  BY <3>1, <3>2
  <2>3. LinesTried' = LinesTried /\ PadsTried' = PadsTried
    <3>1. (pc' = "pad") = (pc = "pad")
      BY <1>5 DEF AcceptRequest, Fopen, StatSize, http_module_error, get_file_length,
                  ReadPiece, ReadNull, Finish, log_err, StackSmashed, DiskChanges, ClientReads,
                  ClientResets, vars
    <3>2. CASE AcceptRequest
      <4>1. flag = 0 /\ flag' \in {200, 404, 500}
        BY <3>2 DEF AcceptRequest, accept_request, Stages
      <4> QED  BY <2>1, <3>1, <4>1 DEF LinesTried, PadsTried, Padded
    <3>3. CASE ~AcceptRequest
      <4>1. flag' = flag
        BY <1>5, <3>3 DEF Fopen, StatSize, http_module_error, ReadPiece, ReadNull,
                          Finish, StackSmashed, DiskChanges, ClientReads, ClientResets, vars
      <4> QED  BY <2>1, <3>1, <4>1 DEF LinesTried, PadsTried
    <3> QED  BY <3>2, <3>3
  <2>4. LinesFit'
    <3>1. /\ pc' \in {"accept", "open", "stat", "line"}
               => pc \in {"accept", "open", "stat", "line"}
          /\ flag' = flag \/ flag \notin Padded
      BY <1>5 DEF AcceptRequest, Fopen, StatSize, http_module_error, get_file_length,
                  ReadPiece, ReadNull, Finish, log_err, StackSmashed, DiskChanges, ClientReads,
                  ClientResets, vars, Stages, Padded, accept_request
    <3> QED  BY <2>1, <3>1 DEF LinesFit
  <2> QED  BY <2>1, <2>2, <2>3, <2>4, NothingWritten
<1> QED  BY <1>1, <1>2, <1>3, <1>4, <1>5 DEF Next, Runs, ReadDirectory

----------------------------------------------------------------------------
(* The theorems.                                                           *)

\* The call has written nothing.
LEMMA InitIInv == Init => IInv
<1> SUFFICES ASSUME Init PROVE IInv
  OBVIOUS
<1>1. << >> \in Seq(Unit) /\ Len(<< >>) = 0 /\ DOMAIN << >> = {}
  BY EmptySeq
<1>2. TypeOK
  <2>1. /\ stream \in Seq(Unit) /\ seen \in 0..Len(stream) /\ ateof \in BOOLEAN
        /\ fp \in [kind : {"none", "null", "dir", "file"}, size : Nat, linked : BOOLEAN]
    <3>1. stream = << >> /\ seen = 0 /\ ateof = FALSE
      BY DEF Init
    <3>2. fp = [kind |-> "none", size |-> 0, linked |-> FALSE]
      BY DEF Init, NoFile
    <3>3. stream \in Seq(Unit) /\ Len(stream) = 0
      BY <1>1, <3>1, Zenon
    <3>4. seen \in 0..Len(stream)
      BY <3>1, <3>3
    <3>5. fp \in [kind : {"none", "null", "dir", "file"}, size : Nat, linked : BOOLEAN]
      BY <3>2
    <3> QED  BY <3>1, <3>3, <3>4, <3>5
  <2>2. /\ sock \in SockStates /\ pc \in Pcs /\ flag \in Flags \cup Padded
        /\ method \in Methods /\ disk \in Files
    BY DEF Init, SockStates, Pcs, Flags
  <2>3. /\ changes \in 0..MaxChanges /\ line \in 0..10 /\ nleft \in 0..BUFFER_SIZE
        /\ iDataNum \in Nat /\ pos \in Nat
    BY ResponseAssumption DEF Init
  <2>4. chars \in [method : Nat, url : Nat]
    <3>1. \/ chars \in [method : Lengths, url : Lengths]
          \/ chars = [method |-> 0, url |-> 0]
      BY DEF Init
    <3>2. Lengths \subseteq Nat /\ 0 \in Nat
      BY ResponseAssumption
    <3>3. CASE chars \in [method : Lengths, url : Lengths]
      BY <3>2, <3>3
    <3>4. CASE chars = [method |-> 0, url |-> 0]
      BY <3>4
    <3> QED  BY <3>1, <3>3, <3>4
  <2> QED  BY <2>1, <2>2, <2>3, <2>4 DEF TypeOK
<1>3. Stages
  <2>1. \A f \in Padded : 0 < PageLen(f) /\ f # 0 /\ f # 200
    BY Pages DEF Padded
  <2> QED  BY <2>1 DEF Init, Stages
<1>4. Bounded /\ InOrder /\ LinesFit
  BY <1>1 DEF Init, Bounded, InOrder, LinesFit
<1>5. NothingMissing
  <2>1. \A w : Sent(w) = {}
    BY <1>1 DEF Init, Sent
  <2>2. pc # "pad" /\ line = 0 /\ pos - nleft = 0
    BY DEF Init
  <2> QED  BY <2>1, <2>2 DEF NothingMissing, BodySent
<1>6. SameFile /\ CrashesExplained
  BY DEF Init, SameFile, CrashesExplained, NoFile, Padded
<1> QED  BY <1>2, <1>3, <1>4, <1>5, <1>6 DEF IInv

\* The invariant of a response holds in every reachable state.
THEOREM ResponseInvariance == Spec => []IInv
<1>1. IInv /\ [Next]_vars => IInv'
  BY TypeStep, StagesStep, SameFileStep, StreamStep DEF IInv
<1> QED  BY <1>1, InitIInv, PTL DEF Spec

\* The variables of a response keep their types: no line behind the last one
\* of a page, no more than BUFFER_SIZE units left of a piece.
THEOREM ResponseTypes == Spec => []TypeOK
<1>1. IInv => TypeOK
  BY DEF IInv
<1> QED  BY <1>1, ResponseInvariance, PTL

\* The client receives the page in order, nothing twice and nothing missing
\* while the connection stands, and as long as Content-Length says if nobody
\* changes the file, although the result of most send()s is dropped.
THEOREM PageReceived == Spec => []Received
<1>1. IInv => Received
  <2>1. ASSUME IInv, pc = "done", flag = 200, sock = "open", changes = 0
        PROVE  BodySent = 1..iDataNum
    <3>1. fp.kind = "file" /\ ateof /\ nleft = 0
      BY <2>1 DEF IInv, Stages
    <3>2. iDataNum = disk.size /\ fp.size = disk.size /\ pos = fp.size
      BY <2>1, <3>1 DEF IInv, SameFile
    <3>3. BodySent = 1..(pos - nleft)
      BY <2>1 DEF IInv, NothingMissing
    <3>4. pos - nleft = pos
      BY <2>1, <3>1 DEF IInv, TypeOK
    <3> QED  BY <3>2, <3>3, <3>4
  <2> QED  BY <2>1 DEF IInv, Received, LengthHonest
<1> QED  BY <1>1, ResponseInvariance, PTL

\* A response crashes only over a file that it had found and could then not
\* open, over its log after the whole body, or over a request that is longer
\* than the buffers it is put together in.
THEOREM ResponseCrashes == Spec => []CrashesExplained
<1>1. IInv => CrashesExplained
  BY DEF IInv
<1> QED  BY <1>1, ResponseInvariance, PTL
=============================================================================
