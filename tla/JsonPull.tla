------------------------------ MODULE JsonPull ------------------------------
(***************************************************************************)
(* The JSON pull reader (src/src/impl/25_json_pull.h, 35_json_pull_impl.h):*)
(* reads the text of a lonejson_json_value and hands out the same value    *)
(* without white space, or indented, a bounded piece at a time.  The       *)
(* module defines the reader's state, a record, and what one turn of the   *)
(* loop of lonejson__json_pull_read does to it; the generator owns one.    *)
(*                                                                         *)
(* A byte read and pushed back (ungetc) is a byte not taken from `in`.     *)
(* Pending bytes, given by pointer or as a repeated space, are a sequence. *)
(***************************************************************************)
EXTENDS JsonText

CONSTANT NumberCapacity   \* sizeof(number_buf)

\* lonejson__json_pull_init: text is the value's bytes; the read of byte
\* number failAt fails (an I/O error or the byte limit), Len(text) + 2: none.
PullInit(text, failAt, pretty, baseDepth) ==
  [in |-> text, failAt |-> failAt, taken |-> 0, frames |-> <<>>, pending |-> <<>>,
   pretty |-> pretty, baseDepth |-> baseDepth, rootStarted |-> FALSE,
   rootFinished |-> FALSE, finished |-> FALSE, lex |-> "none", isKey |-> FALSE,
   escape |-> FALSE, uni |-> <<>>, uniLeft |-> 0, uniLow |-> "no", err |-> "ok"]

\* The same for a null value: no text is read.
PullInitNull ==
  [PullInit(<<>>, 2, FALSE, 0) EXCEPT !.pending = Literals.null,
                                       !.rootStarted = TRUE, !.rootFinished = TRUE]

PullFail(p, status) == [p EXCEPT !.err = status]

\* lonejson__json_pull_getc: the bytes that can be had, and the status once
\* they run out: end of text, or the error of the reader.
Lost(p, n) == p.taken + n >= p.failAt
Take(p, n) == [p EXCEPT !.in = SubSeq(@, n + 1, Len(@)), !.taken = @ + n]

\* How many white-space bytes are in front (lonejson__json_pull_peek_nonspace).
Blank(p) ==
  CHOOSE n \in 0..Len(p.in) :
    /\ \A k \in 1..n : p.in[k] \in Spaces
    /\ n < Len(p.in) => p.in[n + 1] \notin Spaces

\* What peek_nonspace shows: a byte, "eof" or "fail".
Peek(p) ==
  CASE Lost(p, Blank(p) + 1)    -> "fail"
    [] Blank(p) >= Len(p.in)    -> "eof"
    [] OTHER                    -> p.in[Blank(p) + 1]

SkipBlank(p) == Take(p, Blank(p))
TakePeeked(p) == Take(p, Blank(p) + 1)
Pend(p, bytes) == [p EXCEPT !.pending = bytes]

TopPhase(p) == Last(p.frames).phase
SetPhase(p, phase) == [p EXCEPT !.frames[Len(p.frames)].phase = phase]

Indent(p, depth) == [k \in 1..(2 * (p.baseDepth + depth)) |-> " "]

\* lonejson__json_pull_value_complete.
ValueComplete(p) ==
  CASE p.frames = <<>> -> [p EXCEPT !.rootFinished = TRUE]
    [] p.frames # <<>> /\ TopPhase(p) = "value" ->
         [SetPhase(p, "comma") EXCEPT !.frames[Len(p.frames)].count = @ + 1]
    [] OTHER -> p

BeginString(p, isKey) ==
  Pend([p EXCEPT !.lex = "string", !.isKey = isKey, !.escape = FALSE,
                 !.uni = <<>>, !.uniLeft = 0, !.uniLow = "no"], <<Quote>>)

PushFrame(p, kind, depth, phase) ==
  [p EXCEPT !.frames = Append(@, [kind |-> kind, phase |-> phase, depth |-> depth,
                                  count |-> 0])]

\* lonejson__json_pull_start_value.
StartPullValue(p, depth) ==
  LET q == [p EXCEPT !.rootStarted = TRUE]
      c == Peek(q)
      r == TakePeeked(q) IN
  CASE c = "fail"  -> PullFail(q, "io")
    [] c = "eof"   -> PullFail(q, "invalid")
    [] c = Quote   -> BeginString(r, FALSE)
    [] c = "{"     -> Pend(PushFrame(r, "object", depth, "first"), <<"{">>)
    [] c = "["     -> Pend(PushFrame(r, "array", depth, "first"), <<"[">>)
    [] c \in NumberBytes \ {"+", ".", "e", "E"} ->
         [SkipBlank(q) EXCEPT !.lex = "number"]
    [] LiteralOf(c) # {} -> [SkipBlank(q) EXCEPT !.lex = "literal"]
    [] OTHER       -> PullFail(r, "invalid")

\* lonejson__json_pull_step_number: the whole number, then value_complete.
StepNumber(p) ==
  LET n == CHOOSE k \in 0..Len(p.in) :
             /\ \A j \in 1..k : p.in[j] \in NumberBytes
             /\ k < Len(p.in) => p.in[k + 1] \notin NumberBytes
      number == SubSeq(p.in, 1, n) IN
  CASE n >= NumberCapacity /\ ~Lost(p, NumberCapacity) -> PullFail(p, "overflow")
    [] n < NumberCapacity /\ Lost(p, n + 1) -> PullFail(p, "io")
    [] n >= NumberCapacity /\ Lost(p, NumberCapacity) -> PullFail(p, "io")
    [] n < NumberCapacity /\ ~Lost(p, n + 1) /\ ~Complete(GrammarRun(GrammarStart(FALSE), number)) ->
         PullFail(p, "invalid")
    [] OTHER -> Pend(ValueComplete([Take(p, n) EXCEPT !.lex = "none"]), number)

\* lonejson__json_pull_step_literal.
StepLiteral(p) ==
  LET word == Literals[CHOOSE l \in LiteralOf(p.in[1]) : TRUE]
      same == CHOOSE k \in 0..Len(word) :
                /\ IsPrefix(SubSeq(word, 1, k), p.in)
                /\ k < Len(word) => ~IsPrefix(SubSeq(word, 1, k + 1), p.in) IN
  CASE same < Len(word) -> PullFail(p, IF Lost(p, same + 1) THEN "io" ELSE "invalid")
    [] same = Len(word) /\ Lost(p, same) -> PullFail(p, "io")
    [] OTHER -> Pend(ValueComplete([Take(p, same) EXCEPT !.lex = "none"]), word)

\* The closing quote of a string: a key is followed by its colon.
EndPullString(p) ==
  LET q == [p EXCEPT !.lex = "none"] IN
  Pend(IF p.isKey THEN SetPhase(q, "colon") ELSE ValueComplete(q), <<Quote>>)

UniValue(digits) ==
  4096 * HexValue(digits[1]) + 256 * HexValue(digits[2])
    + 16 * HexValue(digits[3]) + HexValue(digits[4])

\* A hexadecimal digit; the fourth one decides about surrogate pairs.
StepHex(p, c) ==
  LET digits == Append(p.uni, c)
      q == Pend([p EXCEPT !.uniLeft = @ - 1, !.uni = digits], <<c>>)
      cp == UniValue(digits) IN
  CASE c \notin HexDigits -> PullFail(p, "invalid")
    [] c \in HexDigits /\ p.uniLeft > 1 -> q
    [] c \in HexDigits /\ p.uniLeft = 1 /\ p.uniLow = "digits" ->
         IF IsLow(cp) THEN [q EXCEPT !.uni = <<>>, !.uniLow = "no"]
                      ELSE PullFail(p, "invalid")
    [] c \in HexDigits /\ p.uniLeft = 1 /\ p.uniLow = "no" ->
         CASE IsHigh(cp) -> [q EXCEPT !.uni = <<>>, !.uniLow = "slash"]
           [] IsLow(cp)  -> PullFail(p, "invalid")
           [] OTHER      -> [q EXCEPT !.uni = <<>>]

StartHex(p, low) == [p EXCEPT !.escape = FALSE, !.uniLeft = 4, !.uni = <<>>, !.uniLow = low]

\* lonejson__json_pull_step_string: one byte of a string.
StepString(p) ==
  LET c == p.in[1]
      q == Take(p, 1) IN
  CASE Lost(p, 1) -> PullFail(p, "io")
    [] ~Lost(p, 1) /\ p.in = <<>> -> PullFail(p, "invalid")
    [] ~Lost(p, 1) /\ p.in # <<>> ->
         CASE p.uniLow = "slash" ->
                IF c = Backslash THEN Pend([q EXCEPT !.uniLow = "u"], <<c>>)
                                 ELSE PullFail(q, "invalid")
           [] p.uniLow = "u" ->
                IF c = "u" THEN Pend(StartHex(q, "digits"), <<c>>)
                           ELSE PullFail(q, "invalid")
           [] p.uniLeft > 0 /\ p.uniLow \in {"no", "digits"} -> StepHex(q, c)
           [] p.escape ->
                CASE c = "u"               -> Pend(StartHex(q, "no"), <<c>>)
                  [] c \in SimpleEscapes   -> Pend([q EXCEPT !.escape = FALSE], <<c>>)
                  [] OTHER                 -> PullFail(q, "invalid")
           [] OTHER ->
                CASE c = Quote       -> EndPullString(q)
                  [] c \in Controls  -> PullFail(q, "invalid")
                  [] OTHER           -> Pend([q EXCEPT !.escape = (c = Backslash)], <<c>>)

\* The phases of lonejson__json_pull_step_frame: a container's first member,
\* the line and indent before a member, its key, colon and value, the comma,
\* and the line and indent before the closing bracket.
MemberPhase(p, kind) ==
  IF p.pretty THEN "line" ELSE IF kind = "object" THEN "key" ELSE "value"

Closer(kind) == IF kind = "object" THEN "}" ELSE "]"

StepFrame(p) ==
  LET f == Last(p.frames)
      c == Peek(p)
      reads == f.phase \in {"first", "key", "colon", "comma"} IN
  CASE reads /\ c = "fail" -> PullFail(p, "io")
    [] reads /\ c = "eof" -> PullFail(p, "invalid")
    [] f.phase = "first" /\ c \notin {"fail", "eof"} ->
         IF c = Closer(f.kind) THEN SetPhase(TakePeeked(p), "close")
                               ELSE SetPhase(SkipBlank(p), MemberPhase(p, f.kind))
    [] f.phase = "line" -> Pend(SetPhase(p, "indent"), <<"\n">>)
    [] f.phase = "indent" ->
         Pend(SetPhase(p, IF f.kind = "object" THEN "key" ELSE "value"),
              Indent(p, f.depth + 1))
    [] f.phase = "key" /\ c \notin {"fail", "eof"} ->
         IF c = Quote THEN BeginString(TakePeeked(p), TRUE) ELSE PullFail(p, "invalid")
    [] f.phase = "colon" /\ c \notin {"fail", "eof"} ->
         IF c = ":" THEN Pend(SetPhase(TakePeeked(p), "value"),
                              IF p.pretty THEN <<":", " ">> ELSE <<":">>)
                    ELSE PullFail(p, "invalid")
    [] f.phase = "value" -> StartPullValue(p, f.depth + 1)
    [] f.phase = "comma" /\ c \notin {"fail", "eof"} ->
         CASE c = "," -> Pend(SetPhase(TakePeeked(p), MemberPhase(p, f.kind)), <<",">>)
           [] c = Closer(f.kind) ->
                SetPhase(TakePeeked(p), IF p.pretty THEN "closeLine" ELSE "close")
           [] OTHER -> PullFail(p, "invalid")
    [] f.phase = "closeLine" -> Pend(SetPhase(p, "closeIndent"), <<"\n">>)
    [] f.phase = "closeIndent" -> Pend(SetPhase(p, "close"), Indent(p, f.depth))
    [] f.phase = "close" ->
         Pend(ValueComplete([p EXCEPT !.frames = Front(@)]), <<Closer(f.kind)>>)

\* After the root value only white space may follow.
StepEnd(p) ==
  CASE Peek(p) = "eof"  -> [SkipBlank(p) EXCEPT !.finished = TRUE]
    [] Peek(p) = "fail" -> PullFail(p, "io")
    [] OTHER            -> PullFail(p, "invalid")

\* One turn of the loop of lonejson__json_pull_read once nothing is pending.
PullStep(p) ==
  CASE p.lex = "string"  -> StepString(p)
    [] p.lex = "number"  -> StepNumber(p)
    [] p.lex = "literal" -> StepLiteral(p)
    [] p.lex = "none" /\ p.frames = <<>> /\ p.rootFinished -> StepEnd(p)
    [] p.lex = "none" /\ p.frames = <<>> /\ ~p.rootFinished ->
         IF p.rootStarted THEN [p EXCEPT !.rootFinished = TRUE] ELSE StartPullValue(p, 0)
    [] OTHER             -> StepFrame(p)

=============================================================================
