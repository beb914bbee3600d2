------------------------------ MODULE JsonVisit ------------------------------
(***************************************************************************)
(* The readers of one JSON value that call the application back: the       *)
(* visitor (src/src/impl/13_json_value_visit.h), with and without paths,   *)
(* and the transcoder that writes the value compactly or indented          *)
(* (12_json_value_parse.h), over the cursor of 11_json_value_io.h.  Both   *)
(* are recursive descents over getc; here the recursion is the stack of a  *)
(* record, and one byte, or one run of plain bytes of a string, is one     *)
(* step.  A step leaves the callbacks it makes in `events`, in order; the  *)
(* module that uses a reader delivers them before the next step.           *)
(*                                                                         *)
(* A byte peeked and pushed back is read and counted where it is consumed. *)
(***************************************************************************)
EXTENDS JsonText

CONSTANT PlainCapacity    \* sizeof(plain) in visit_string_value

\* lonejson__json_visit_cursor and lonejson__json_transcode_cursor: limits
\* are filled from the defaults before they get here; a transcoder has none.
VisitStart(mode, limits, pretty, withPaths) ==
  [mode |-> mode, limits |-> limits, pretty |-> pretty, withPaths |-> withPaths,
   at |-> "value", stack |-> <<>>, isKey |-> FALSE, plain |-> <<>>, decoded |-> 0,
   token |-> <<>>, left |-> 0, cp |-> 0, high |-> 0, total |-> 0, path |-> <<>>,
   key |-> <<>>, events |-> <<>>, code |-> "OK", done |-> FALSE]

Visiting(v) == v.mode = "visit"
VisitFail(v, code) == [v EXCEPT !.code = code, !.done = TRUE]

(***************************************************************************)
(* Callbacks.                                                              *)
(***************************************************************************)

\* lonejson__json_visit_any_event and _any_chunk; a key's text also becomes
\* the next segment of the path (lonejson__json_path_key_append).
Call(v, name, text) ==
  [v EXCEPT !.events = Append(@, [name |-> name, text |-> text, path |-> v.path]),
            !.key = IF name = "key_chunk" /\ v.withPaths THEN @ \o text ELSE @]

\* lonejson__json_emit.
Put(v, text) == [v EXCEPT !.events = Append(@, [name |-> "emit", text |-> text,
                                                path |-> <<>>])]

\* A visitor is called where a transcoder writes.
Say(v, name, text) == IF Visiting(v) THEN Call(v, name, <<>>) ELSE Put(v, text)

\* lonejson__json_emit_indent, when pretty.
VisitIndent(v, depth) ==
  IF Visiting(v) \/ ~v.pretty THEN v
  ELSE Put(v, <<"\n">> \o [i \in 1..(2 * depth) |-> " "])

(***************************************************************************)
(* Values.                                                                 *)
(***************************************************************************)

VisitTop(v) == Last(v.stack)

\* Decimal text of an array index.
IndexText(n) == <<LowerHex[n + 1]>>

\* Mutant: the segment of a value stays on the path.
VisitValueDone_PathKept(v) ==
  IF v.stack = <<>> THEN [v EXCEPT !.at = "trail"]
  ELSE [v EXCEPT !.at = "loop", !.stack[Len(v.stack)].first = FALSE,
                 !.stack[Len(v.stack)].index = @ + 1,
                 !.path = IF v.withPaths /\ VisitTop(v).kind = "object"
                          THEN Front(@) ELSE @]

\* visit_value returned to its caller: lonejson__json_path_pop, ++next_index.
VisitValueDone(v) ==
  IF v.stack = <<>> THEN [v EXCEPT !.at = "trail"]
  ELSE [v EXCEPT !.at = "loop", !.stack[Len(v.stack)].first = FALSE,
                 !.stack[Len(v.stack)].index = @ + 1,
                 !.path = IF v.withPaths THEN Front(@) ELSE @]

\* The entry of lonejson__json_visit_string_value and _parse_string.
VisitBeginString(v, isKey) ==
  Say([v EXCEPT !.at = "string", !.isKey = isKey, !.plain = <<>>, !.decoded = 0,
                !.key = IF isKey THEN <<>> ELSE @],
      IF isKey THEN "key_begin" ELSE "string_begin", <<Quote>>)

\* The entry of lonejson__json_visit_number; the limit admits one byte.
VisitBeginNumber(v, c) ==
  [(IF Visiting(v) THEN Call(v, "number_begin", <<>>) ELSE v)
     EXCEPT !.at = "number", !.token = <<c>>]

\* lonejson__json_visit_literal, lonejson__json_parse_literal.
VisitBeginLiteral(v, c) ==
  LET l == CHOOSE x \in LiteralOf(c) : TRUE
      w == [v EXCEPT !.at = "literal", !.token = Tail(Literals[l]), !.isKey = FALSE] IN
  IF Visiting(v) THEN [w EXCEPT !.plain = <<l>>] ELSE Put(w, <<c>>)

\* The entry of lonejson__json_visit_array and _object.
VisitOpen(v, kind, c) ==
  IF Visiting(v) /\ Len(v.stack) >= v.limits.depth THEN VisitFail(v, "OVERFLOW")
  ELSE Say([v EXCEPT !.stack = Append(@, [kind |-> kind, first |-> TRUE, index |-> 0]),
                     !.at = "loop"],
           IF kind = "array" THEN "array_begin" ELSE "object_begin", <<c>>)

VisitClose(v, c) ==
  LET kind == VisitTop(v).kind
      w == IF VisitTop(v).first THEN v ELSE VisitIndent(v, Len(v.stack) - 1) IN
  VisitValueDone([Say(w, IF kind = "array" THEN "array_end" ELSE "object_end", <<c>>)
                    EXCEPT !.stack = Front(@)])

\* lonejson__json_visit_value.
VisitValue(v, c) ==
  CASE c = Quote -> VisitBeginString(v, FALSE)
    [] c = "{"   -> VisitOpen(v, "object", c)
    [] c = "["   -> VisitOpen(v, "array", c)
    [] c = "-" \/ c \in Digits -> VisitBeginNumber(v, c)
    [] LiteralOf(c) # {} -> VisitBeginLiteral(v, c)
    [] OTHER -> VisitFail(v, "INVALID_JSON")

\* lonejson__json_path_push_array_index, before an item.
PushIndex(v) ==
  IF v.withPaths THEN [v EXCEPT !.path = Append(@, IndexText(VisitTop(v).index))]
  ELSE v

\* lonejson__json_path_push_object_key, before a member's value.
PushKey(v) == IF v.withPaths THEN [v EXCEPT !.path = Append(@, v.key)] ELSE v

\* What a transcoder writes between two members or items.
Separated(v) == IF Visiting(v) THEN v ELSE VisitIndent(Put(v, <<",">>), Len(v.stack))

\* The head of the loop of visit_array: the byte is not a space.
ArrayLoop(v, c) ==
  CASE c = "]" -> VisitClose(v, c)
    [] c # "]" /\ VisitTop(v).first ->
         VisitValue(PushIndex(VisitIndent(v, Len(v.stack))), c)
    [] c = "," /\ ~VisitTop(v).first -> [PushIndex(Separated(v)) EXCEPT !.at = "value"]
    [] OTHER -> VisitFail(v, "INVALID_JSON")

\* The head of the loop of visit_object.
ObjectLoop(v, c) ==
  LET w == VisitIndent(v, Len(v.stack)) IN
  CASE c = "}" -> VisitClose(v, c)
    [] c # "}" /\ VisitTop(v).first ->
         IF c = Quote THEN VisitBeginString(w, TRUE) ELSE VisitFail(w, "INVALID_JSON")
    [] c = "," /\ ~VisitTop(v).first -> [Separated(v) EXCEPT !.at = "key"]
    [] OTHER -> VisitFail(v, "INVALID_JSON")

\* A byte where the readers skip spaces.
BetweenTokens(v, c) ==
  CASE c \in Spaces -> v
    [] c \notin Spaces /\ v.at = "value" -> VisitValue(v, c)
    [] c \notin Spaces /\ v.at = "loop" ->
         IF VisitTop(v).kind = "array" THEN ArrayLoop(v, c) ELSE ObjectLoop(v, c)
    [] v.at = "key" /\ c = Quote -> VisitBeginString(v, TRUE)
    [] v.at = "colon" /\ c = ":" ->
         LET w == IF Visiting(v) THEN v
                  ELSE Put(v, IF v.pretty THEN <<":", " ">> ELSE <<":">>) IN
         [PushKey(w) EXCEPT !.at = "value"]
    [] OTHER -> VisitFail(v, "INVALID_JSON")

(***************************************************************************)
(* Strings.                                                                *)
(***************************************************************************)

ChunkName(v) == IF v.isKey THEN "key_chunk" ELSE "string_chunk"

\* The plain bytes gathered so far go to the visitor.
FlushPlain(v) ==
  IF v.plain = <<>> THEN v ELSE Call([v EXCEPT !.plain = <<>>], ChunkName(v), v.plain)

GatherPlain(v, c) ==
  LET w == [v EXCEPT !.plain = Append(@, c)] IN
  IF Len(w.plain) = PlainCapacity THEN FlushPlain(w) ELSE w

\* The limit on decoded bytes, after n more.
OverText(v, n) == v.decoded + n > (IF v.isKey THEN v.limits.key ELSE v.limits.string)

Decoded(v, text) ==
  IF OverText(v, Len(text)) THEN VisitFail(v, "OVERFLOW")
  ELSE Call([v EXCEPT !.decoded = @ + Len(text)], ChunkName(v), text)

\* lonejson__json_visit_plain_chunk, with the span found by plain_span; the
\* span of lonejson__json_parse_string.
VisitSpan(v, span) ==
  LET w == [v EXCEPT !.total = @ + Len(span), !.decoded = @ + Len(span)] IN
  CASE ~Visiting(v) -> Put(v, span)
    [] Visiting(v) /\ v.limits.total # 0 /\ w.total > v.limits.total ->
         VisitFail(v, "OVERFLOW")
    [] Visiting(v) /\ ~(v.limits.total # 0 /\ w.total > v.limits.total)
         /\ OverText(v, Len(span)) -> VisitFail(w, "OVERFLOW")
    [] OTHER -> IF v.plain = <<>> THEN Call(w, ChunkName(v), span)
                ELSE FoldLeft(GatherPlain, w, span)

\* The closing quote.
VisitEndString(v) ==
  LET w == IF Visiting(v)
           THEN Call(FlushPlain(v), IF v.isKey THEN "key_end" ELSE "string_end", <<>>)
           ELSE Put(v, <<Quote>>) IN
  IF v.isKey THEN [w EXCEPT !.at = "colon"] ELSE VisitValueDone(w)

\* A byte of a string that getc read.
VisitStringByte(v, c) ==
  CASE c = Quote -> VisitEndString(v)
    [] c \in Controls -> VisitFail(v, "INVALID_JSON")
    [] c = Backslash ->
         [(IF Visiting(v) THEN FlushPlain(v) ELSE Put(v, <<c>>)) EXCEPT !.at = "escape"]
    [] OTHER -> IF ~Visiting(v) THEN Put(v, <<c>>)
                ELSE IF OverText(v, 1) THEN VisitFail(v, "OVERFLOW")
                ELSE GatherPlain([v EXCEPT !.decoded = @ + 1], c)

\* The byte after a backslash.
VisitEscape(v, c) ==
  LET w == IF Visiting(v) THEN v ELSE Put(v, <<c>>) IN
  CASE c = "u" -> [w EXCEPT !.at = "hex", !.left = 4, !.cp = 0, !.high = 0]
    [] c \in SimpleEscapes ->
         [(IF Visiting(v) THEN Decoded(v, <<DecodeEscape(c)>>) ELSE w)
            EXCEPT !.at = "string"]
    [] OTHER -> VisitFail(v, "INVALID_JSON")

\* Four hexadecimal digits were read: a high surrogate needs its low one.
CodePointRead(v, cp) ==
  CASE v.high = 0 /\ IsHigh(cp) -> [v EXCEPT !.at = "low", !.high = cp]
    [] v.high = 0 /\ ~IsHigh(cp) /\ ~IsLow(cp) ->
         [Decoded(v, Utf8(cp)) EXCEPT !.at = "string"]
    [] v.high # 0 /\ IsLow(cp) ->
         [Decoded(v, Utf8(65536 + (v.high - 55296) * 1024 + cp - 56320))
            EXCEPT !.at = "string", !.high = 0]
    [] OTHER -> VisitFail(v, "INVALID_JSON")

\* A digit of a \u escape; the transcoder does not look at the code point.
VisitHex(v, c) ==
  LET cp == v.cp * 16 + HexValue(c)
      w  == [(IF Visiting(v) THEN v ELSE Put(v, <<c>>)) EXCEPT !.left = @ - 1, !.cp = cp] IN
  CASE c \notin HexDigits -> VisitFail(v, "INVALID_JSON")
    [] c \in HexDigits /\ v.left > 1 -> w
    [] OTHER -> IF Visiting(v) THEN CodePointRead([w EXCEPT !.cp = 0], cp)
                ELSE [w EXCEPT !.at = "string", !.cp = 0]

(***************************************************************************)
(* Numbers, literals and the end of the text.                              *)
(***************************************************************************)

\* The end of lonejson__json_visit_number and _parse_number.
VisitEndNumber(v) ==
  LET w == [v EXCEPT !.token = <<>>] IN
  IF ~IsValidJsonNumber(v.token) THEN VisitFail(v, "INVALID_JSON")
  ELSE VisitValueDone(IF Visiting(v) THEN Call(Call(w, "number_chunk", v.token),
                                               "number_end", <<>>)
                      ELSE Put(w, v.token))

VisitLiteralByte(v, c) ==
  LET w == [(IF Visiting(v) THEN v ELSE Put(v, <<c>>)) EXCEPT !.token = Tail(@)] IN
  CASE c # Head(v.token) -> VisitFail(v, "INVALID_JSON")
    [] c = Head(v.token) /\ Len(v.token) > 1 -> w
    [] OTHER -> VisitValueDone(IF Visiting(v)
                               THEN Call([w EXCEPT !.plain = <<>>], Head(v.plain), <<>>)
                               ELSE w)

\* Where a read that fails, or a byte over the limit, is taken for a byte
\* that does not belong there.
Masks(v) == v.at \in {"colon", "trail", "low", "low_u"} \/ (v.at = "key" /\ Visiting(v))

\* getc returned -2.
ReadFails(v, code) == VisitFail(v, IF Masks(v) THEN "INVALID_JSON" ELSE code)

\* lonejson__json_enforce_total_limit.
OverTotal(v) == Visiting(v) /\ v.limits.total # 0 /\ v.total > v.limits.total

TokenByte(v, c) ==
  CASE v.at = "string" -> VisitStringByte(v, c)
    [] v.at = "escape" -> VisitEscape(v, c)
    [] v.at = "hex"    -> VisitHex(v, c)
    [] v.at = "low" /\ c = Backslash -> [v EXCEPT !.at = "low_u"]
    [] v.at = "low_u" /\ c = "u" -> [v EXCEPT !.at = "hex", !.left = 4, !.cp = 0]
    [] v.at = "literal" -> VisitLiteralByte(v, c)
    [] v.at \in {"low", "low_u"} /\ c # (IF v.at = "low" THEN Backslash ELSE "u") ->
         VisitFail(v, "INVALID_JSON")
    [] OTHER -> BetweenTokens(v, c)

\* lonejson__json_cursor_getc: the byte is counted, then looked at.
CountedByte(v, c) ==
  LET w == [v EXCEPT !.total = @ + 1] IN
  IF OverTotal(w) THEN ReadFails(w, "OVERFLOW") ELSE TokenByte(w, c)

\* lonejson__json_cursor_getc_lookahead: the byte after a number is counted
\* when it is read again.
AfterNumber(ended, c) == IF ended.done THEN ended ELSE CountedByte(ended, c)

VisitNumberByte(v, c) ==
  LET w == [v EXCEPT !.total = @ + 1, !.token = Append(@, c)] IN
  CASE c \in NumberBytes /\ (OverTotal(w)
         \/ (Visiting(v) /\ Len(v.token) >= v.limits.number)) -> VisitFail(v, "OVERFLOW")
    [] c \notin NumberBytes -> AfterNumber(VisitEndNumber(v), c)
    [] OTHER -> w

VisitByte(v, c) == IF v.at = "number" THEN VisitNumberByte(v, c) ELSE CountedByte(v, c)

\* getc returned EOF.
EofAfter(w) ==
  CASE w.done -> w
    [] ~w.done /\ w.at = "trail" -> [w EXCEPT !.done = TRUE]
    [] OTHER -> VisitFail(w, "INVALID_JSON")

VisitEof(v) == EofAfter(IF v.at = "number" THEN VisitEndNumber(v) ELSE v)

=============================================================================
