----------------------------- MODULE Multipart -----------------------------
(***************************************************************************)
(* The incremental multipart parser (`lonejson_multipart_*`,               *)
(* src/src/impl/34_protocol_framing_api.h).  Bytes are pushed in any       *)
(* pieces; delimiter and header lines are collected in `line`, the body of *)
(* a part without Content-Length is searched for its delimiter in a        *)
(* lookahead buffer `body`.  Any callback or allocation may fail, which    *)
(* stops the parse.                                                        *)
(***************************************************************************)
EXTENDS Integers, Sequences, FiniteSets

CONSTANTS
  BodyBytes,      \* the bytes, "CR" and "LF" among them
  Boundary,       \* the boundary parameter, a sequence of bytes
  Headers,        \* header lines, each taken as one symbol
  ContentLength,  \* header -> its Content-Length, NoLength or BadLength
  MaxLine,        \* options.max_header_line_bytes
  MaxHeaders,     \* options.max_header_count
  MaxBuffered,    \* options.max_part_buffered_bytes
  RawBound,       \* bound: bytes in the body of the first part
  LaterBound,     \* bound: the same for a later part, or after a line ended by CR
  PartBound       \* bound: parts in one stream

NoLength  == -1
BadLength == -2

ASSUME MultipartAssumption ==
  /\ {"CR", "LF", "-"} \subseteq BodyBytes
  /\ Boundary \in Seq(BodyBytes \ {"CR", "LF"}) /\ Boundary # <<>>
  /\ BodyBytes \cap Headers = {}
  /\ ContentLength \in [Headers -> Int]
  /\ {MaxLine, MaxHeaders, MaxBuffered} \subseteq Nat \ {0}
  /\ {RawBound, LaterBound, PartBound} \subseteq Nat

VARIABLES
  phase,          \* mp->phase
  line,           \* mp->line
  sawCr,          \* mp->saw_cr
  headerCount,    \* mp->header_count
  contentLength,  \* mp->content_length
  remaining,      \* mp->remaining
  body,           \* mp->body: the lookahead
  closed,         \* mp->closed
  stopped,        \* history: a call returned an error
  finished,       \* history: what finish returned
  begun,          \* history: begin_part calls that returned OK
  partsEnded,     \* history: end_part calls
  raw,            \* history: the bytes of the current part's body
  bodyOut,        \* history: what part_data took of them
  bareCr          \* history: a line was ended by a CR alone

partVars == <<headerCount, contentLength, remaining, body>>
multipartVars == <<phase, line, sawCr, partVars, closed, stopped, finished, begun,
                   partsEnded, raw, bodyOut, bareCr>>

LineEnds == {<<"LF">>, <<"CR", "LF">>}

\* multipart_open: the two delimiter lines.
BoundaryLine == <<"-", "-">> \o Boundary
ClosingLine  == BoundaryLine \o <<"-", "-">>
Delimiters   == {BoundaryLine, ClosingLine}

Fails == {"none", "begin", "data", "end", "memory"}

(***************************************************************************)
(* Searching the lookahead.                                                *)
(***************************************************************************)
Matches(b, p, s) == /\ p + Len(s) - 1 <= Len(b)
                    /\ SubSeq(b, p, p + Len(s) - 1) = s

\* boundary_line_complete: the delimiter and its line end are all there.
BoundaryComplete(b, p, l) == \E e \in LineEnds : Matches(b, p, l \o e)

BoundaryPrefix_NoEndCheck(b, p, l) ==
  LET rest == SubSeq(b, p, Len(b)) IN
  IF Len(rest) > Len(l) THEN Matches(b, p, l) ELSE rest = SubSeq(l, 1, Len(rest))

\* boundary_line_prefix: what is there may still become the delimiter.
BoundaryPrefix(b, p, l) ==
  LET rest == SubSeq(b, p, Len(b)) IN
  IF Len(rest) > Len(l) THEN Matches(b, p, l) /\ rest[Len(l) + 1] \in {"CR", "LF"}
                        ELSE rest = SubSeq(l, 1, Len(rest))

EmitLength_KeepsCr(b, n) == IF n > 0 /\ b[n] = "LF" THEN n - 1 ELSE n

\* emit_len_before_boundary: the line end before a delimiter belongs to it.
EmitLength(b, n) ==
  IF n > 1 /\ b[n] = "LF" /\ b[n - 1] = "CR" THEN n - 2
  ELSE IF n > 0 /\ b[n] = "LF" THEN n - 1 ELSE n

\* With no delimiter in sight, a line end is still held back: CR, LF or CRLF.
HoldLineEnd(b, n) == IF n > 0 /\ b[n] = "CR" THEN n - 1 ELSE EmitLength(b, n)

LineStart(b, p) == p = 1 \/ b[p - 1] = "LF"

Candidates(b) ==
  {p \in 1..Len(b) :
     /\ LineStart(b, p)
     /\ \E l \in Delimiters : BoundaryComplete(b, p, l) \/ BoundaryPrefix(b, p, l)}

First(S) == CHOOSE p \in S : \A q \in S : p <= q

\* process_body_buffer: how many bytes go to the client, and which complete
\* delimiter line follows them, if any.
BodySearch(b) ==
  IF Candidates(b) = {}
  THEN [emit |-> HoldLineEnd(b, Len(b)), found |-> {}]
  ELSE LET p == First(Candidates(b)) IN
       [emit  |-> EmitLength(b, p - 1),
        found |-> {l \in Delimiters : BoundaryComplete(b, p, l)}]

-----------------------------------------------------------------------------
(***************************************************************************)
(* Delimiter and header lines.                                             *)
(***************************************************************************)

\* multipart_reset_part.
ResetPart ==
  /\ headerCount' = 0 /\ contentLength' = NoLength /\ remaining' = 0 /\ body' = <<>>

\* Any error: the call returns it and leaves the rest of the push unread.
Stop == stopped' = TRUE

\* process_line where a delimiter is expected.
ExpectBoundary ==
  /\ phase = "expect"
  /\ \/ /\ line = <<>>
        /\ UNCHANGED <<phase, partVars, closed, stopped>>
     \/ /\ line = BoundaryLine
        /\ ResetPart /\ phase' = "headers"
        /\ UNCHANGED <<closed, stopped>>
     \/ /\ line = ClosingLine
        /\ phase' = "done" /\ closed' = TRUE
        /\ UNCHANGED <<partVars, stopped>>
     \/ /\ line \notin Delimiters \cup {<<>>}
        /\ Stop /\ UNCHANGED <<phase, partVars, closed>>
  /\ UNCHANGED <<begun, partsEnded>>

\* process_header_line and add_header: the header is retained, then looked at.
HeaderLine(fail) ==
  /\ phase = "headers" /\ line # <<>>
  /\ \/ /\ \/ line \notin {<<h>> : h \in Headers}
           \/ headerCount = MaxHeaders
           \/ fail = "memory"
        /\ Stop /\ UNCHANGED <<headerCount, contentLength>>
     \/ /\ line \in {<<h>> : h \in Headers} /\ headerCount < MaxHeaders
        /\ headerCount' = headerCount + 1
        /\ IF \/ ContentLength[line[1]] = BadLength
              \/ ContentLength[line[1]] = NoLength /\ fail = "memory"
           THEN Stop ELSE UNCHANGED stopped
        /\ contentLength' = IF ContentLength[line[1]] >= 0 THEN ContentLength[line[1]]
                            ELSE contentLength
  /\ UNCHANGED <<phase, remaining, body, closed, begun, partsEnded>>

\* The blank line: the part begins, and an empty one ends at once.
EndOfHeaders(fail) ==
  /\ phase = "headers" /\ line = <<>> /\ begun < PartBound
  /\ \/ /\ fail = "begin"
        /\ Stop /\ UNCHANGED <<phase, partVars, begun, partsEnded>>
     \/ /\ fail # "begin" /\ contentLength = 0
        /\ begun' = begun + 1 /\ partsEnded' = partsEnded + 1
        /\ ResetPart /\ phase' = "expect"
        /\ IF fail = "end" THEN Stop ELSE UNCHANGED stopped
     \/ /\ fail # "begin" /\ contentLength > 0
        /\ begun' = begun + 1 /\ phase' = "length" /\ remaining' = contentLength
        /\ UNCHANGED <<headerCount, contentLength, body, partsEnded, stopped>>
     \/ /\ fail # "begin" /\ contentLength < 0
        /\ begun' = begun + 1 /\ phase' = "scan"
        /\ UNCHANGED <<partVars, partsEnded, stopped>>
  /\ UNCHANGED closed

\* What follows the closing delimiter in the same push is skipped.
Epilogue == phase = "done" /\ UNCHANGED <<phase, partVars, closed, begun, partsEnded, stopped>>

ProcessLine(fail) ==
  ExpectBoundary \/ HeaderLine(fail) \/ EndOfHeaders(fail) \/ Epilogue

InLines == phase \in {"expect", "headers", "done"} /\ ~stopped /\ finished = "no"

ForgetPart == raw' = <<>> /\ bodyOut' = <<>>

\* feed_line_char, LF: it ends the line, alone or after the CR of the line.
FeedLf(fail) ==
  /\ InLines /\ ProcessLine(fail)
  /\ line' = <<>> /\ sawCr' = FALSE
  /\ ForgetPart /\ UNCHANGED <<finished, bareCr>>

\* feed_line_char, another byte after a CR: the CR alone ended the line.  The
\* byte starts the next line, even where a part's body has just begun.  (That
\* append can fail as in FeedLineByte, with the same effect as there.)
FeedAfterCr(ch, fail) ==
  /\ InLines /\ sawCr /\ ch # "LF" /\ ProcessLine(fail)
  /\ sawCr' = (ch = "CR" /\ ~stopped')
  /\ line' = IF stopped' \/ ch = "CR" THEN <<>> ELSE <<ch>>
  /\ raw' = IF phase' \in {"length", "scan"} THEN <<ch>> ELSE <<>>
  /\ bodyOut' = <<>> /\ bareCr' = TRUE
  /\ UNCHANGED finished

FeedCr ==
  /\ InLines /\ ~sawCr
  /\ sawCr' = TRUE
  /\ ForgetPart
  /\ UNCHANGED <<phase, line, partVars, closed, stopped, finished, begun, partsEnded, bareCr>>

\* feed_line_char, a byte of the line.
FeedLineByte(ch, fail) ==
  /\ InLines /\ ~sawCr
  /\ IF Len(line) = MaxLine \/ fail = "memory"
     THEN Stop /\ UNCHANGED line
     ELSE line' = Append(line, ch) /\ UNCHANGED stopped
  /\ ForgetPart
  /\ UNCHANGED <<phase, sawCr, partVars, closed, finished, begun, partsEnded, bareCr>>

(***************************************************************************)
(* Bodies.                                                                 *)
(***************************************************************************)
BodyBound == IF begun > 1 \/ bareCr THEN LaterBound ELSE RawBound

\* multipart_push in a part with Content-Length: a piece of at most
\* `remaining` bytes goes straight to the client.
FeedLength(data, fail) ==
  /\ phase = "length" /\ ~stopped /\ finished = "no" /\ Len(raw) + Len(data) <= BodyBound
  /\ data # <<>> /\ Len(data) <= remaining
  /\ raw' = raw \o data
  /\ \/ /\ fail = "data" /\ Stop
        /\ UNCHANGED <<phase, partVars, partsEnded, bodyOut>>
     \/ /\ fail # "data" /\ bodyOut' = bodyOut \o data
        /\ \/ /\ Len(data) < remaining
              /\ remaining' = remaining - Len(data)
              /\ UNCHANGED <<phase, headerCount, contentLength, body, partsEnded, stopped>>
           \/ /\ Len(data) = remaining /\ fail = "end"
              /\ remaining' = 0 /\ partsEnded' = partsEnded + 1 /\ Stop
              /\ UNCHANGED <<phase, headerCount, contentLength, body>>
           \/ /\ Len(data) = remaining /\ fail # "end"
              /\ partsEnded' = partsEnded + 1
              /\ ResetPart /\ phase' = "expect" /\ UNCHANGED stopped
  /\ UNCHANGED <<line, sawCr, closed, finished, begun, bareCr>>

ScanStep_ConsumesOneMore(b, fail) ==
  LET s == BodySearch(b) IN
  /\ s.found = {}
  /\ bodyOut' = bodyOut \o SubSeq(b, 1, s.emit)
  /\ body' = SubSeq(b, s.emit + (IF s.emit > 0 THEN 2 ELSE 1), Len(b))
  /\ UNCHANGED <<phase, headerCount, contentLength, remaining, closed, partsEnded, stopped>>

\* process_body_buffer and finish_boundary, with lookahead b.  A failed
\* part_data keeps the bytes it refused; a failed end_part stays in the part.
ScanStep(b, fail) ==
  LET s == BodySearch(b)
      data == SubSeq(b, 1, s.emit) IN
  \/ /\ fail = "data" /\ data # <<>>
     /\ body' = b /\ Stop
     /\ UNCHANGED <<phase, headerCount, contentLength, remaining, closed, partsEnded,
                    bodyOut>>
  \/ /\ ~(fail = "data" /\ data # <<>>) /\ bodyOut' = bodyOut \o data
     /\ \/ /\ s.found = {}
           /\ body' = SubSeq(b, s.emit + 1, Len(b))
           /\ UNCHANGED <<phase, headerCount, contentLength, remaining, closed, partsEnded,
                          stopped>>
        \/ /\ s.found # {} /\ fail = "end"
           /\ body' = <<>> /\ partsEnded' = partsEnded + 1 /\ Stop
           /\ UNCHANGED <<phase, headerCount, contentLength, remaining, closed>>
        \/ /\ s.found # {} /\ fail # "end"
           /\ partsEnded' = partsEnded + 1
           /\ ResetPart
           /\ closed' = (ClosingLine \in s.found)
           /\ phase' = IF closed' THEN "done" ELSE "headers"
           /\ UNCHANGED stopped

\* feed_body_scan_char.
FeedScan(ch, fail) ==
  /\ phase = "scan" /\ ~stopped /\ finished = "no" /\ Len(raw) < BodyBound
  /\ raw' = Append(raw, ch)
  /\ IF Len(body) = MaxBuffered \/ fail = "memory"
     THEN Stop /\ UNCHANGED <<phase, partVars, closed, partsEnded, bodyOut>>
     ELSE ScanStep(Append(body, ch), fail)
  /\ UNCHANGED <<line, sawCr, finished, begun, bareCr>>

-----------------------------------------------------------------------------
(***************************************************************************)
(* multipart_finish, multipart_close and the next parser.                  *)
(***************************************************************************)
\* multipart_finish: OK only after the closing delimiter.
FinishParts ==
  /\ finished = "no"
  /\ IF closed \/ phase = "done"
     THEN closed' = TRUE /\ finished' = "ok"
     ELSE finished' = "error" /\ UNCHANGED closed
  /\ ForgetPart
  /\ UNCHANGED <<phase, line, sawCr, partVars, stopped, begun, partsEnded, bareCr>>

MultipartInit ==
  /\ phase = "expect" /\ line = <<>> /\ sawCr = FALSE
  /\ headerCount = 0 /\ contentLength = NoLength /\ remaining = 0 /\ body = <<>>
  /\ closed = FALSE /\ stopped = FALSE /\ finished = "no"
  /\ begun = 0 /\ partsEnded = 0
  /\ raw = <<>> /\ bodyOut = <<>> /\ bareCr = FALSE

\* multipart_close, and a new parser for the next stream.
CloseAndReopen ==
  /\ finished # "no" \/ stopped
  /\ phase' = "expect" /\ line' = <<>> /\ sawCr' = FALSE
  /\ ResetPart
  /\ closed' = FALSE /\ stopped' = FALSE /\ finished' = "no"
  /\ begun' = 0 /\ partsEnded' = 0
  /\ raw' = <<>> /\ bodyOut' = <<>> /\ bareCr' = FALSE

LineBytes == BodyBytes \ {"CR", "LF"}

\* A header symbol stands for a whole line: it is only fed to an empty one.
Feed ==
  \E fail \in Fails :
    \/ FeedLf(fail)
    \/ \E ch \in LineBytes \cup {"CR"} : FeedAfterCr(ch, fail)
    \/ \E ch \in LineBytes : FeedLineByte(ch, fail)
    \/ \E h \in Headers : line = <<>> /\ FeedLineByte(h, fail)
    \/ \E a \in LineBytes : \E data \in {<<a>>, <<a, "LF">>} : FeedLength(data, fail)
    \/ \E ch \in BodyBytes : FeedScan(ch, fail)

MultipartNext == Feed \/ FeedCr \/ FinishParts \/ CloseAndReopen

MultipartSpec == MultipartInit /\ [][MultipartNext]_multipartVars

-----------------------------------------------------------------------------

InBody == phase \in {"scan", "length"} /\ ~stopped /\ finished = "no"

\* While a part's body is open, every byte of it was delivered or is still
\* held, in order, and exactly once; a length-delimited body is never held.
NoByteLost ==
  InBody /\ ~bareCr => /\ bodyOut \o body = raw
                       /\ phase = "length" => Len(raw) + remaining = contentLength

JustEnded == phase \in {"headers", "done"} /\ raw # <<>> /\ ~bareCr

\* When a delimiter ends a part, the client has the whole body: everything
\* before the delimiter line but the line end that belongs to it.  A closing
\* delimiter, and no other, ends the stream.
PartEndsAtDelimiter ==
  JustEnded => \E eol \in LineEnds \cup {<<>>}, e \in LineEnds, l \in Delimiters :
                 /\ raw = bodyOut \o eol \o l \o e
                 /\ (l = ClosingLine) = (phase = "done")
                 /\ eol = <<>> => bodyOut = <<>> \/ bodyOut[Len(bodyOut)] # "LF"
                 /\ eol = <<"LF">> => bodyOut = <<>> \/ bodyOut[Len(bodyOut)] # "CR"

\* No delimiter line is ever passed on as body data, however it was split
\* over pushes and whatever nearly matched before it.
NoDelimiterDelivered ==
  \A p \in 1..Len(bodyOut) :
    phase = "scan" /\ LineStart(bodyOut, p)
      => \A l \in Delimiters : ~BoundaryComplete(bodyOut, p, l)

\* finish answers OK only for a complete stream: its closing delimiter was
\* seen, and every part that was begun was ended.
FinishOkMeansComplete == finished = "ok" => phase = "done" /\ begun = partsEnded

\* Bodies are cut at the delimiters and nowhere else (process_body_buffer),
\* down to the one that closes the stream.
CutAtDelimiters == PartEndsAtDelimiter /\ NoDelimiterDelivered /\ FinishOkMeansComplete

\* The lookahead is what include/lonejson.h:2186 promises, a line end and the
\* beginning of a delimiter line: body bytes are not kept longer.  The one
\* exception: a delimiter followed by a CR without LF holds everything after
\* it.
LookaheadBounded ==
  InBody => \E eol \in LineEnds \cup {<<>>, <<"CR">>}, l \in Delimiters :
              \/ \E k \in 0..Len(l) + 1 : body = eol \o SubSeq(l \o <<"CR">>, 1, k)
              \/ Matches(body, 1, eol \o l \o <<"CR">>)

\* MIME (and README.md:889 with it) has a delimiter start a line: body text
\* that merely contains it does not end the part.
DelimiterStartsLine ==
  JustEnded => \E l \in Delimiters, e \in LineEnds :
                 \E eol \in LineEnds \cup (IF bodyOut = <<>> THEN {<<>>} ELSE {}) :
                   raw = bodyOut \o eol \o l \o e

=============================================================================
