------------------------------ MODULE StreamIO ------------------------------
(***************************************************************************)
(* The loops the repository offers for reading and writing a stream:       *)
(* Read_s() and Write_s() (inc/sock.h, and the same text in inc/common.h), *)
(* http_rcv() and readline() (http_module/http_module.h), rio_read() and   *)
(* rio_write() (utils/rio_r_w.h).  http_send() is part of module Response. *)
(*                                                                         *)
(* A reading function, fn, is called again and again with a buffer of sz   *)
(* bytes, while the peer sends StreamLen bytes and closes; a byte is its   *)
(* position in the peer's stream, NewLines are the positions that hold     *)
(* '\n'.  A writing function is called once for a buffer of sz bytes; a    *)
(* byte is its position in the buffer, and positions below 1 lie in front  *)
(* of it.  Any system call may be short, be interrupted or fail.           *)
(***************************************************************************)
EXTENDS Integers, Sequences

CONSTANTS StreamLen,     \* bytes the peer sends
          NewLines,      \* which of them end a line
          sz,            \* the size the caller asks for
          RIO_BUFSIZE,   \* the size of the buffer inside rio_t
          MaxErrors      \* bound: system calls that fail for good

ASSUME StreamIOAssumption == /\ StreamLen \in Nat
                             /\ NewLines \subseteq 1..StreamLen
                             /\ sz \in Nat \ {0}
                             /\ RIO_BUFSIZE \in Nat \ {0}
                             /\ MaxErrors \in Nat

Readers == {"Read_s", "http_rcv", "readline", "rio_read"}
Writers == {"Write_s", "rio_write"}

VARIABLES fn,            \* the function that is called
          arrived, eof,  \* bytes the peer has sent; has it closed?
          taken,         \* bytes read() has returned so far
          pc,            \* "idle" before and between calls, "loop" inside one
          count,         \* nleft, or i in readline()
          buf,           \* what the call has stored for its caller
          data,          \* the bytes all calls have handed over, or written
          zero,          \* where the call has put a '\0' behind it, 0 if nowhere
          wasted,        \* attempts of readline() that got nothing
          ret,           \* the result of the last call
          rbuf, nread,   \* rio_t: the buffer, and the bytes not handed over
          ptr,           \* where the next write() starts
          errors         \* how many system calls have failed for good

peer == <<arrived, eof>>
rio == <<rbuf, nread>>
line == <<zero, wasted>>
vars == <<fn, arrived, eof, taken, pc, count, buf, zero, wasted, data, ret, rbuf,
          nread, ptr, errors>>

Smaller(a, b) == IF a <= b THEN a ELSE b
Larger(a, b) == IF a >= b THEN a ELSE b

Bytes(a, b) == [i \in 1..(b - a) |-> a + i]

TypeOK == /\ fn \in Readers \cup Writers
          /\ arrived \in 0..StreamLen /\ eof \in BOOLEAN
          /\ taken \in 0..StreamLen
          /\ pc \in {"idle", "loop", "done", "broke", "crashed"}
          /\ count \in 0..(sz + MaxErrors)
          /\ buf \in Seq(1..StreamLen)
          /\ data \in Seq((1 - MaxErrors)..Larger(sz, StreamLen))
          /\ zero \in 0..(sz + 1) /\ wasted \in 0..sz
          /\ ret \in (-1 - MaxErrors)..sz
          /\ rbuf \in Seq(1..StreamLen) /\ nread \in -1..RIO_BUFSIZE
          /\ ptr \in (1 - MaxErrors)..(sz + 1)
          /\ errors \in 0..MaxErrors

Init == /\ fn \in Readers \cup Writers
        /\ arrived = 0 /\ eof = FALSE
        /\ taken = 0
        /\ pc = "idle"
        /\ count = 0
        /\ buf = << >> /\ data = << >>
        /\ zero = 0 /\ wasted = 0
        /\ ret = 0
        /\ rbuf = << >> /\ nread = 0
        /\ ptr = 1
        /\ errors = 0

PeerSends == /\ fn \in Readers
             /\ arrived < StreamLen /\ ~eof
             /\ arrived' = arrived + 1
             /\ UNCHANGED <<fn, eof, taken, pc, count, buf, line, data, ret, rio, ptr,
                            errors>>

PeerCloses == /\ fn \in Readers /\ ~eof
              /\ eof' = TRUE
              /\ UNCHANGED <<fn, arrived, taken, pc, count, buf, line, data, ret, rio, ptr,
                             errors>>

\* The outcomes of read(): some bytes, the end of the stream, nothing yet
\* (EAGAIN, or EINTR if the descriptor blocks), or another error.
Got(n, want) == n \in 1..Smaller(arrived - taken, want)
AtEof == arrived = taken /\ eof
Again == arrived = taken /\ ~eof
Broken == errors < MaxErrors /\ errors' = errors + 1

Call == /\ pc = "idle"
        /\ pc' = "loop"
        /\ buf' = << >> /\ zero' = 0 /\ wasted' = 0
        /\ count' = IF fn = "readline" THEN 0 ELSE sz
        /\ UNCHANGED <<fn, peer, taken, data, ret, rio, ptr, errors>>

In(f) == pc = "loop" /\ fn = f
Return(r) == pc' = "idle" /\ ret' = r

----------------------------------------------------------------------------
(* Read_s(): any failure ends the loop, what was read so far is returned.  *)

Read_sGot(n) ==
  /\ In("Read_s") /\ Got(n, count)
  /\ taken' = taken + n
  /\ buf' = buf \o Bytes(taken, taken + n)
  /\ count' = count - n
  /\ IF n = count THEN Return(sz) /\ data' = data \o buf'
                  ELSE UNCHANGED <<pc, ret, data>>
  /\ UNCHANGED <<fn, peer, line, rio, ptr, errors>>

\* Mutant: a failure after some bytes is reported as a failure.
Read_sStops_Error ==
  /\ In("Read_s")
  /\ Return(-1)
  /\ AtEof \/ Again
  /\ UNCHANGED <<fn, peer, taken, count, buf, line, data, rio, ptr, errors>>

Read_sStops ==
  /\ In("Read_s")
  /\ \/ (AtEof \/ Again) /\ UNCHANGED errors
     \/ Broken
  /\ Return(sz - count) /\ data' = data \o buf
  /\ UNCHANGED <<fn, peer, taken, count, buf, line, rio, ptr>>

----------------------------------------------------------------------------
(* http_rcv(): `nread=recv(...)<0' stores the comparison, so data and end   *)
(* of file both look like 0: the loop ends and 0 is returned.              *)

HttpRcvGot(n) ==
  /\ In("http_rcv") /\ Got(n, count)
  /\ taken' = taken + n
  /\ buf' = buf \o Bytes(taken, taken + n)
  /\ Return(0)
  /\ UNCHANGED <<fn, peer, count, line, data, rio, ptr, errors>>

HttpRcvEof == /\ In("http_rcv") /\ AtEof
              /\ Return(0)
              /\ UNCHANGED <<fn, peer, taken, count, buf, line, data, rio, ptr, errors>>

\* EINTR is repeated; any other failure, EAGAIN included, is returned.
HttpRcvFails == /\ In("http_rcv")
                /\ \/ Again /\ UNCHANGED errors
                   \/ Broken
                /\ Return(-1)
                /\ UNCHANGED <<fn, peer, taken, count, buf, line, data, rio, ptr>>

----------------------------------------------------------------------------
(* readline(): one byte at a time; an interrupted or empty read counts as  *)
(* one of the maxlen attempts.                                             *)

\* The loop is over, however it ended: a '\0' is put behind the bytes b stored,
\* without a look at maxlen, and i - 1 is returned.
LineEnds(b, i) == /\ zero' = Len(b) + 1
                  /\ Return(i - 1)
                  /\ data' = data \o b

\* Mutant: the newline does not end the line.
ReadlineGot_NoBreak ==
  /\ In("readline") /\ Got(1, 1)
  /\ taken' = taken + 1
  /\ buf' = Append(buf, taken + 1)
  /\ count' = count + 1
  /\ IF count' = sz THEN LineEnds(buf', count')
                    ELSE UNCHANGED <<pc, ret, data, zero>>
  /\ UNCHANGED <<fn, peer, wasted, rio, ptr, errors>>

ReadlineGot ==
  /\ In("readline") /\ Got(1, 1)
  /\ taken' = taken + 1
  /\ buf' = Append(buf, taken + 1)
  /\ count' = IF taken' \in NewLines THEN count ELSE count + 1
  /\ IF taken' \in NewLines \/ count' = sz THEN LineEnds(buf', count')
                                           ELSE UNCHANGED <<pc, ret, data, zero>>
  /\ UNCHANGED <<fn, peer, wasted, rio, ptr, errors>>

ReadlineEof == /\ In("readline") /\ AtEof
               /\ LineEnds(buf, count)
               /\ UNCHANGED <<fn, peer, taken, count, buf, wasted, rio, ptr, errors>>

\* Mutant: the attempts of an empty read are not limited.
ReadlineAgain_Unlimited == /\ In("readline") /\ Again
                           /\ count <= sz + MaxErrors
                           /\ count' = count + 1 /\ wasted' = wasted + 1
                           /\ UNCHANGED <<fn, peer, taken, pc, buf, zero, data, ret, rio,
                                          ptr, errors>>

ReadlineAgain == /\ In("readline") /\ Again
                 /\ count' = count + 1 /\ wasted' = wasted + 1
                 /\ IF count' = sz THEN LineEnds(buf, count')
                                   ELSE UNCHANGED <<pc, ret, data, zero>>
                 /\ UNCHANGED <<fn, peer, taken, buf, rio, ptr, errors>>

\* What was read before the error stays in the buffer of the failed call.
ReadlineFails == /\ In("readline") /\ Broken
                 /\ Return(-1)
                 /\ UNCHANGED <<fn, peer, taken, count, buf, line, data, rio, ptr>>

----------------------------------------------------------------------------
(* rio_read(): fills its buffer when it is empty, then hands over cnt bytes *)
(* - always from the beginning of the buffer, not from ptr.                *)

RioFill(n) == /\ In("rio_read") /\ nread <= 0
              /\ Got(n, RIO_BUFSIZE)
              /\ taken' = taken + n
              /\ rbuf' = Bytes(taken, taken + n) \o SubSeq(rbuf, n + 1, Len(rbuf))
              /\ nread' = n
              /\ UNCHANGED <<fn, peer, pc, count, buf, line, data, ret, ptr, errors>>

RioEof == /\ In("rio_read") /\ nread <= 0 /\ AtEof
          /\ nread' = 0
          /\ Return(0)
          /\ UNCHANGED <<fn, peer, taken, count, buf, line, data, rbuf, ptr, errors>>

\* EAGAIN and the like: -1 is returned, and left in rp->nread.
RioFails == /\ In("rio_read") /\ nread <= 0
            /\ \/ Again /\ UNCHANGED errors
               \/ Broken
            /\ nread' = -1
            /\ Return(-1)
            /\ UNCHANGED <<fn, peer, taken, count, buf, line, data, rbuf, ptr>>

\* EINTR leaves the loop with nread = -1: memcpy() of (size_t)-1 bytes.
RioInterrupted == /\ In("rio_read") /\ nread <= 0 /\ Again
                  /\ nread' = -1
                  /\ pc' = "crashed"
                  /\ UNCHANGED <<fn, peer, taken, count, buf, line, data, ret, rbuf, ptr,
                                 errors>>

RioCopy ==
  LET cnt == Smaller(sz, nread)
  IN /\ In("rio_read") /\ nread > 0
     /\ buf' = SubSeq(rbuf, 1, cnt)
     /\ data' = data \o buf'
     /\ nread' = nread - cnt
     /\ Return(cnt)
     /\ UNCHANGED <<fn, peer, taken, count, line, rbuf, ptr, errors>>

----------------------------------------------------------------------------
(* Write_s() and rio_write().                                              *)

reader == <<peer, taken, buf, line, rio>>

Writing == pc = "loop" /\ fn \in Writers

\* Mutant: the pointer is set from the start of the buffer.
Written_Restart(n) ==
  /\ Writing /\ n <= count
  /\ data' = data \o [i \in 1..n |-> ptr + i - 1]
  /\ ptr' = 1 + n
  /\ count' = count - n
  /\ UNCHANGED <<fn, reader, pc, ret, errors>>

\* write() accepts n bytes: both functions advance.
Written(n) == /\ Writing /\ n <= count
              /\ data' = data \o [i \in 1..n |-> ptr + i - 1]
              /\ ptr' = ptr + n
              /\ count' = count - n
              /\ UNCHANGED <<fn, reader, pc, ret, errors>>

\* Mutant: the -1 of a failed write() is added to the pointer only.
Write_sError_Uncounted ==
  /\ In("Write_s") /\ count > 0
  /\ Broken
  /\ ptr' = ptr - 1
  /\ UNCHANGED <<fn, reader, pc, count, data, ret>>

\* nwrite is unsigned, so -1 is neither negative nor zero: nleft grows by one,
\* the pointer goes back by one, and the loop goes on.
Write_sError == /\ In("Write_s") /\ count > 0
                /\ Broken
                /\ count' = count + 1
                /\ ptr' = ptr - 1
                /\ UNCHANGED <<fn, reader, pc, data, ret>>

\* An interrupted write() is repeated, any other failure is returned.
RioWriteError == /\ In("rio_write") /\ count > 0
                 /\ Broken
                 /\ \/ UNCHANGED <<pc, ret>>
                    \/ pc' = "done" /\ ret' = -1
                 /\ UNCHANGED <<fn, reader, count, data, ptr>>

WriteReturns == /\ Writing /\ count = 0
                /\ pc' = "done" /\ ret' = sz
                /\ UNCHANGED <<fn, reader, count, data, ptr, errors>>

\* A write() of 0 bytes ends both loops: what was counted off is returned, less
\* than nothing (a huge size_t) if Write_s() has counted more failures.
WriteBreaks == /\ Writing /\ count > 0
               /\ pc' = "broke" /\ ret' = sz - count
               /\ UNCHANGED <<fn, reader, count, data, ptr, errors>>

----------------------------------------------------------------------------

Next == \/ PeerSends \/ PeerCloses \/ Call
        \/ \E n \in 1..StreamLen : Read_sGot(n) \/ HttpRcvGot(n) \/ RioFill(n)
        \/ Read_sStops
        \/ HttpRcvEof \/ HttpRcvFails
        \/ ReadlineGot \/ ReadlineEof \/ ReadlineAgain \/ ReadlineFails
        \/ RioEof \/ RioFails \/ RioInterrupted \/ RioCopy
        \/ \E n \in 1..(sz + MaxErrors) : Written(n)
        \/ Write_sError \/ RioWriteError \/ WriteReturns \/ WriteBreaks

Spec == Init /\ [][Next]_vars

----------------------------------------------------------------------------

\* Read_s() and readline() lose no byte, repeat none and keep the order over
\* any number of calls, short reads and interruptions: what was handed over is
\* what was taken from the stream.  readline() only until a hard error.
Conserved ==
  pc = "idle" /\ (fn = "Read_s" \/ (fn = "readline" /\ errors = 0))
    => data = Bytes(0, taken)

\* The bytes at its caller's buffer that a call has written, '\0' included.
Touched == Larger(Len(buf), zero)

\* No call stores more bytes than it was asked for, and only one call writes
\* behind the sz bytes it was given: a readline() that stored sz of them puts
\* its '\0' into the byte that follows, and always does.
Fits == /\ Len(buf) <= sz /\ Touched <= sz + 1
        /\ Touched > sz <=> zero # 0 /\ Len(buf) = sz

\* readline() never goes past the end of a line.
OneLine == fn = "readline" =>
             \A i \in 1..(Len(buf) - 1) : buf[i] \notin NewLines

\* The result of readline() is not the length of the line: it is one less, two
\* less when the line ended in '\n', and one more for each attempt that got
\* nothing.
LineLength == zero # 0 =>
  ret = Len(buf) + wasted - (IF Len(buf) > 0 /\ buf[Len(buf)] \in NewLines THEN 2 ELSE 1)

\* The reading loops stop in time: at the size they were given, but for the
\* '\0' of readline(), and readline() at the end of its line, with a result
\* that says where up to the attempts it wasted.
ReadsStop == Fits /\ OneLine /\ LineLength

\* rio_read() counts right: what it handed over and what it still holds is as
\* much as it has read (which bytes it hands over is another matter).
RioCounts == fn = "rio_read" =>
               Len(data) + (IF nread > 0 THEN nread ELSE 0) = taken

\* rio_write() writes its buffer from the front, each byte once, through any
\* partial writes and interruptions.
RioPrefix == fn = "rio_write" /\ pc # "idle" => data = Bytes(0, sz - count)

\* rio_read() and rio_write() keep count of their bytes over any short calls.
RioExact == RioCounts /\ RioPrefix

\* Write_s() cannot fail: every byte it counts as written was written at least
\* once, whatever it wrote besides, and it returns less than sz only if a
\* write() returned 0, never because one failed.
Write_sClaim ==
  fn = "Write_s" /\ pc \in {"done", "broke"} =>
    /\ pc = "done" => ret = sz
    /\ 1..ret \subseteq {data[i] : i \in DOMAIN data}
=============================================================================
