------------------------------- MODULE Parser -------------------------------
(***************************************************************************)
(* The two parsers of inc/http_types.h.                                    *)
(*                                                                         *)
(* analasy() is called by callback() each time onRecv() has appended a     *)
(* piece of the request to tcp->buf: it works on a fresh copy of all that  *)
(* has arrived, takes an http_request from the heap, and gives up (without *)
(* returning that to the heap) as long as there is no blank line.  Each of *)
(* its strtok() calls is an action.  An entry of nhead has a header and a  *)
(* value, of which analasy() writes one and leaves the other as malloc()   *)
(* returned it: the model keeps which one was written, and what.           *)
(*                                                                         *)
(* The copy is cut at BUFSIZE.  tcp->buf has BUFSIZE bytes as well, and    *)
(* strncat() writes behind them.                                           *)
(*                                                                         *)
(* readline_buf() takes one line at a time from a text that is complete,   *)
(* into a buffer of maxlen bytes.                                          *)
(*                                                                         *)
(* The text is a request line, header lines, a blank line and a body; the  *)
(* sets of lines are parameters, and need not be well formed.              *)
(***************************************************************************)
EXTENDS CString

CONSTANTS RequestLines, HeaderLines, Bodies,   \* what a request is made of
          BUFSIZE,       \* bytes of tcp->buf and of http_ctx->buf, entries of nhead
          maxlen,        \* bytes of usr, as readline_buf() is told
          MaxHeaders,    \* bound: header lines of a request
          MaxHeap        \* bound: http_requests that malloc() can still give

ASSUME ParserAssumption == /\ MaxHeaders \in Nat /\ MaxHeap \in Nat
                           /\ BUFSIZE \in Nat \ {0} /\ maxlen \in Nat

\* What a request is made of are strings.
ASSUME TextAssumption ==
  \A s \in RequestLines \cup HeaderLines \cup Bodies : s \in Seq(ToSet(s))

VARIABLES fn,            \* the function that parses
          req,           \* the lines and the body the client sends
          arrived,       \* characters of the text in tcp->buf
          heap,          \* http_requests that malloc() can still give
          headline,      \* did malloc() return one to this call?
          pc,            \* where the call is
          save,          \* the pointer inside strtok(), or *buf
          method, url, version, nhead,   \* the http_request
          lines,         \* the lines readline_buf() has returned
          ret            \* its last result

alloc == <<heap, headline>>
fields == <<method, url, version, nhead>>
vars == <<fn, req, arrived, heap, headline, pc, save, method, url, version,
          nhead, lines, ret>>

Requests == [line : RequestLines, heads : BoundedSeq(HeaderLines, MaxHeaders),
             body : Bodies]

\* The lines of a request, the blank one included, and its text.
LinesOf(r) == <<r.line>> \o r.heads \o << << >> >>
HeadText(r) == FlattenSeq([i \in DOMAIN LinesOf(r) |-> LinesOf(r)[i] \o CRLF])
Text == HeadText(req) \o req.body

Chars == {CR, LF} \cup UNION {ToSet(s) : s \in RequestLines \cup HeaderLines \cup Bodies}

\* What callback() has copied to http_ctx->buf for this call.
copied == IF arrived < BUFSIZE THEN arrived ELSE BUFSIZE - 1
buf == SubSeq(Text, 1, copied)

\* An entry of nhead: the member that strcpy() has written, and its text.
Entries == [member : {"header", "value"}, text : Seq(Chars)]
Stored(m, s) == [member |-> m, text |-> s]

TypeOK == /\ fn \in {"analasy", "readline_buf"}
          /\ req \in Requests
          /\ arrived \in 0..Len(Text)
          /\ heap \in 0..MaxHeap /\ headline \in BOOLEAN
          /\ pc \in {"wait", "call", "method", "url", "version", "header", "value",
                     "parsed", "crashed", "stuck", "lost"}
          /\ save \in 1..(Len(Text) + 2)
          /\ {method, url, version} \subseteq Seq(Chars)
          /\ nhead \in Seq(Entries) /\ lines \in Seq(Seq(Chars))
          /\ ret \in -1..Len(Text)

Init == /\ fn \in {"analasy", "readline_buf"}
        /\ req \in Requests
        /\ arrived = IF fn = "analasy" THEN 0 ELSE Len(Text)
        /\ heap \in 0..MaxHeap /\ headline = FALSE
        /\ pc = "wait"
        /\ save = 1
        /\ method = << >> /\ url = << >> /\ version = << >>
        /\ nhead = << >> /\ lines = << >>
        /\ ret = -1

----------------------------------------------------------------------------
(* analasy(), called once for each piece.                                  *)

\* onRecv() appends a piece of any length, or finds the end of a stream that
\* the client has closed half way, and callback() copies all of tcp->buf.
Recv == /\ fn = "analasy" /\ pc = "wait"
        /\ arrived' \in arrived..Len(Text)
        /\ pc' = "call"
        /\ UNCHANGED <<fn, req, alloc, save, fields, lines, ret>>

\* What strncat() has overwritten behind tcp->buf may stop the child at any step.
Overrun == /\ fn = "analasy" /\ arrived >= BUFSIZE /\ pc \notin {"parsed", "crashed"}
           /\ pc' = "crashed"
           /\ UNCHANGED <<fn, req, arrived, alloc, save, fields, lines, ret>>

\* Mutant: the last character is not waited for.
BlankLine_Short == strstr(buf, <<CR, LF, CR>>)

BlankLine == strstr(buf, CRLF \o CRLF)

\* Mutant: an allocation that fails is counted as well.
Begin_Counts == /\ pc = "call"
                /\ headline' = (heap > 0)
                /\ heap' = heap - 1
                /\ pc' = IF BlankLine THEN "method" ELSE "wait"
                /\ save' = 1
                /\ UNCHANGED <<fn, req, arrived, fields, lines, ret>>

\* The allocation comes first, the test second; NULL leaves the object behind.
Begin == /\ pc = "call"
         /\ headline' = (heap > 0)
         /\ heap' = IF heap > 0 THEN heap - 1 ELSE 0
         /\ pc' = IF BlankLine THEN "method" ELSE "wait"
         /\ save' = 1
         /\ UNCHANGED <<fn, req, arrived, fields, lines, ret>>

\* strtok(NULL, d) at each step, with the d of that step.
Delims == [method |-> {SP}, url |-> {SP}, version |-> {CR, LF},
           header |-> {":"}, value |-> {CR, LF}]
NextToken == strtok(buf, save, Delims[pc])
NoToken == ~NextToken.ok \/ ~headline

Token(at) == /\ pc = at /\ ~NoToken
             /\ save' = NextToken.save
             /\ UNCHANGED <<fn, req, arrived, alloc, lines, ret>>

\* No token means that a null pointer is used, as does a missing headline.
NullPointer == /\ pc \in DOMAIN Delims /\ NoToken
               /\ pc' = "crashed"
               /\ UNCHANGED <<fn, req, arrived, alloc, save, fields, lines, ret>>

Method == /\ Token("method") /\ method' = NextToken.tok /\ pc' = "url"
          /\ UNCHANGED <<url, version, nhead>>

Url == /\ Token("url") /\ url' = NextToken.tok /\ pc' = "version"
       /\ UNCHANGED <<method, version, nhead>>

Version == /\ Token("version") /\ version' = NextToken.tok /\ pc' = "header"
           /\ UNCHANGED <<method, url, nhead>>

\* nhead[i++]: a new entry for each text, with one member written.  A token begins
\* with what is left of the line before, hence the p+1.
Add(m) == /\ nhead' = Append(nhead, Stored(m, Tail(NextToken.tok)))
          /\ UNCHANGED <<method, url, version>>

\* Mutant: the header is stored at every round, also at the last.
Header_NoBreak == Token("header") /\ pc' = "value" /\ Add("header")

\* The loop ends where the token is the blank line.
Header == /\ Token("header")
          /\ IF At(NextToken.tok, 2, CRLF)
             THEN pc' = "parsed" /\ UNCHANGED fields
             ELSE pc' = "value" /\ Add("header")

\* Mutant: the index is counted up once more.
Value_Twice == /\ Token("value") /\ pc' = "header"
               /\ nhead' = nhead \o <<Stored("value", Tail(NextToken.tok)), Stored("value", << >>)>>
               /\ UNCHANGED <<method, url, version>>

Value == Token("value") /\ pc' = "header" /\ Add("value")

----------------------------------------------------------------------------
(* readline_buf()                                                          *)

\* The text from *buf on, without leading blanks.
Remaining == LET s == SubSeq(Text, save, Len(Text))
             IN  SubSeq(s, strspn(s, {SP}) + 1, Len(s))

\* The loop looks at the second character first, and stops at a '\n' behind
\* a '\r', at a '\n' in front of a '\r', or at the end.  Its limit is the larger of
\* maxlen and the length of the text, so that it never stops for want of room.
StopsAt(s) ==
  LET ends == {i \in 2..Len(s) : s[i] = LF /\ (s[i - 1] = CR \/ At(s, i + 1, <<CR>>))}
  IN  IF ends = {} THEN Len(s) + 1 ELSE CHOOSE i \in ends : \A j \in ends : i <= j

\* Mutant: the carriage return stays in the line.
LineBefore_Cr(s, i) == SubSeq(s, 1, i - 1)

LineBefore(s, i) == SubSeq(s, 1, IF At(s, i - 1, CRLF) THEN i - 2 ELSE i - 1)

\* One call.  It writes i bytes of usr, the zeros included.  A line that ends in
\* '\n' alone is returned with 0 and without moving *buf, so that the next call
\* would return it again.  Nothing is said of what follows where more than maxlen
\* bytes were written, or where only blanks were left and the second character is
\* one behind the text.
ReadlineBuf ==
  /\ fn = "readline_buf" /\ pc = "wait" /\ save <= Len(Text)
  /\ LET s == Remaining
         i == StopsAt(s)
         stays == i <= Len(s) /\ ~At(s, i - 1, CRLF)
     IN  /\ lines' = Append(lines, LineBefore(s, i))
         /\ ret' = IF stays THEN 0 ELSE i - 1
         /\ save' = Len(Text) - Len(s) + (IF stays THEN 1 ELSE i + 1)
         /\ pc' = IF s = << >> \/ i > maxlen THEN "lost"
                  ELSE IF stays THEN "stuck" ELSE "wait"
  /\ UNCHANGED <<fn, req, arrived, alloc, fields>>

Next == \/ Recv \/ Overrun \/ Begin \/ Method \/ Url \/ Version \/ Header \/ Value
        \/ NullPointer \/ ReadlineBuf

Spec == Init /\ [][Next]_vars

----------------------------------------------------------------------------
(* Properties.  The reference is read off the lines the client sends.      *)

Words(s) == LET a == FirstIn(s, 1, {SP})
                b == FirstIn(s, a + 1, {SP})
            IN  <<SubSeq(s, 1, a - 1), SubSeq(s, a + 1, b - 1),
                  SubSeq(s, b + 1, Len(s))>>

GoodLine(s) == \A i \in 1..3 : Words(s)[i] # << >> /\ SP \notin ToSet(Words(s)[i])

Colon(s) == FirstIn(s, 1, {":"})
GoodHeader(s) == Colon(s) > 1 /\ At(s, Colon(s) + 1, <<SP>>) /\ Len(s) > Colon(s) + 1
NameValue(s) == <<SubSeq(s, 1, Colon(s) - 1), SubSeq(s, Colon(s) + 2, Len(s))>>

NoBreaks(s) == ToSet(s) \cap {CR, LF} = {}

WellFormed(r) == /\ GoodLine(r.line)
                 /\ \A i \in DOMAIN r.heads : GoodHeader(r.heads[i])
                 /\ \A i \in DOMAIN LinesOf(r) : NoBreaks(LinesOf(r)[i])

\* A well-formed request is taken apart into the fields that were sent: three
\* words, and for header k its name as the header of one entry and its text as the
\* value of the next, so that no entry has both; whatever the values and the body
\* contain and however the text was cut into pieces.
ParsedAsSent ==
  pc = "parsed" /\ WellFormed(req) =>
    /\ <<method, url, version>> = Words(req.line)
    /\ Len(nhead) = 2 * Len(req.heads)
    /\ \A k \in DOMAIN req.heads :
         /\ nhead[2 * k - 1] = Stored("header", NameValue(req.heads[k])[1])
         /\ nhead[2 * k] = Stored("value", NameValue(req.heads[k])[2])

\* A request is parsed as soon as its blank line is there, not before and not
\* later: no piece of it is taken for the whole, and none is waited for in vain;
\* but one whose blank line is cut off by BUFSIZE is never parsed.
Fits(r) == Len(HeadText(r)) < BUFSIZE
ParsedInTime ==
  WellFormed(req) /\ fn = "analasy" =>
    /\ pc = "wait" /\ Fits(req) => arrived < Len(HeadText(req))
    /\ pc \notin {"wait", "call", "crashed"} => Fits(req) /\ arrived >= Len(HeadText(req))

\* analasy() parses a well-formed request once it is complete, into what was sent.
ParsedRight == ParsedAsSent /\ ParsedInTime

\* The null pointers of strtok() are reached only by requests that are not
\* well formed: a header line without a colon or without a value, too few
\* words; or when the heap has run out.  Any other crash is of a text that does
\* not fit tcp->buf.
CrashIsIllFormed == pc = "crashed" => ~WellFormed(req) \/ ~headline \/ arrived >= BUFSIZE

\* Two entries of nhead cost four characters of the text at least, behind the
\* six of the shortest request line, and the copy is cut at BUFSIZE: no text fills
\* the array (BUFSIZE entries as well), although i has no check.
NheadFits == nhead # << >> => 2 * Len(nhead) + 6 < save /\ save <= BUFSIZE

\* Taking lines until the text is used up returns the lines that were sent,
\* without the blanks in front, and never moves *buf behind the final zero,
\* unless the text does not end with a line.  The result counts the '\r' as well.
\* maxlen is not respected: the calls go wrong at the first line that does not fit
\* usr with its '\r' and a zero, and there only.
Trim(s) == SubSeq(s, strspn(s, {SP}) + 1, Len(s))
TooLong(s) == Len(s) + 2 > maxlen
LinesAsSent ==
  (\A i \in DOMAIN LinesOf(req) : NoBreaks(LinesOf(req)[i])) /\ req.body = << >> =>
    /\ \A i \in DOMAIN lines : /\ i <= Len(LinesOf(req)) /\ lines[i] = Trim(LinesOf(req)[i])
                               /\ TooLong(lines[i]) <=> i = Len(lines) /\ pc = "lost"
    /\ lines # << >> => ret = Len(lines[Len(lines)]) + 1
    /\ pc # "stuck" /\ (pc = "lost" => lines # << >>)
    /\ save <= Len(Text) + 1
    /\ fn = "readline_buf" /\ save = Len(Text) + 1 => Len(lines) = Len(LinesOf(req))
=============================================================================
