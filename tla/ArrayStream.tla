----------------------------- MODULE ArrayStream -----------------------------
(***************************************************************************)
(* The array stream (src/src/impl/33_array_stream_api.h): it walks a       *)
(* document and hands out the items of the root array, or of the array a   *)
(* root member holds, one by one.  It keeps everything it needs to stop    *)
(* anywhere, in the middle of a key or an item too, and to go on with the  *)
(* next call.                                                              *)
(*                                                                         *)
(* A state of the stream is a record; AsByte is what next_raw does with    *)
(* one byte, AsEof what it does at the end of the input.  The parser of an *)
(* item is a JsonVisit reader: the stream only asks it whether the value   *)
(* is complete, whether it is a number that may go on, and what is wrong.  *)
(*                                                                         *)
(* A destination names its mode: d1 and d2 are mapped structures, item is  *)
(* the buffer of next_value, sink a sink, string a string handler, skip    *)
(* nothing.                                                                *)
(***************************************************************************)
EXTENDS JsonVisit

CONSTANT FieldBytes   \* what a string field of a mapped structure holds

Mapped == {"d1", "d2"}
Destinations == Mapped \cup {"item", "sink", "string"}

\* lonejson__array_stream_open_common.
AsStart(path, reject, limits) ==
  [path |-> path, reject |-> reject, limits |-> limits, state |-> "init",
   phase |-> "start", keyPhase |-> "idle", key |-> <<>>, cp |-> 0, left |-> 0,
   high |-> 0, rootKeys |-> {}, afterComma |-> FALSE, matched |-> FALSE,
   seen |-> FALSE, rootArray |-> FALSE, first |-> FALSE, active |-> FALSE,
   dst |-> "skip", parser |-> VisitStart("visit", limits, FALSE, FALSE),
   dup |-> <<>>, dupKey |-> <<>>, holds |-> [d \in Destinations |-> <<>>],
   stringSeen |-> FALSE, cut |-> FALSE, truncated |-> FALSE,
   pushTruncated |-> FALSE, pending |-> FALSE,
   pendingDst |-> "skip", back |-> <<>>, arg |-> "skip", refuse |-> FALSE,
   code |-> "OK", result |-> "run"]

\* lonejson__array_stream_set_error: the error stays.
AsFail(s, code) == [s EXCEPT !.state = "error", !.code = code, !.result = "ERROR"]
AsRuns(s) == s.result = "run"

(***************************************************************************)
(* Keys of the root object.                                                *)
(***************************************************************************)

\* lonejson__array_stream_note_root_key, and the match with the path.
RootKeyRead(s) ==
  LET matched == s.key = s.path IN
  IF s.reject /\ s.key \in s.rootKeys THEN AsFail(s, "DUPLICATE_FIELD")
  ELSE [s EXCEPT !.rootKeys = IF s.reject THEN @ \cup {s.key} ELSE @,
                 !.afterComma = FALSE, !.matched = matched, !.seen = @ \/ matched,
                 !.phase = "colon"]

\* The opening quote was read.
BeginRootKey(s) ==
  [s EXCEPT !.key = <<>>, !.keyPhase = "body", !.cp = 0, !.high = 0, !.left = 0]

KeyAppend(s, text) == [s EXCEPT !.key = @ \o text, !.keyPhase = "body", !.cp = 0]

\* Four hexadecimal digits were read; lonejson__array_stream_append_key_codepoint.
KeyCodePoint(s, cp) ==
  CASE s.keyPhase = "unicode" /\ IsHigh(cp) ->
         [s EXCEPT !.high = cp, !.cp = 0, !.keyPhase = "slash"]
    [] s.keyPhase = "unicode" /\ ~IsHigh(cp) /\ ~IsLow(cp) -> KeyAppend(s, Utf8(cp))
    [] s.keyPhase = "low" /\ IsLow(cp) ->
         KeyAppend([s EXCEPT !.high = 0],
                   Utf8(65536 + (s.high - 55296) * 1024 + cp - 56320))
    [] OTHER -> AsFail(s, "INVALID_JSON")

KeyHex(s, c) ==
  LET cp == s.cp * 16 + HexValue(c) IN
  CASE c \notin HexDigits -> AsFail(s, "INVALID_JSON")
    [] c \in HexDigits /\ s.left > 1 -> [s EXCEPT !.cp = cp, !.left = @ - 1]
    [] OTHER -> KeyCodePoint([s EXCEPT !.left = 0], cp)

\* lonejson__array_stream_read_key.
KeyByte(s, c) ==
  LET Hex(phase) == [s EXCEPT !.keyPhase = phase, !.cp = 0, !.left = 4] IN
  CASE s.keyPhase = "body" /\ c = Quote -> RootKeyRead([s EXCEPT !.keyPhase = "idle"])
    [] s.keyPhase = "body" /\ c = Backslash -> [s EXCEPT !.keyPhase = "escape"]
    [] s.keyPhase = "body" /\ c \notin Controls \cup {Quote, Backslash} ->
         KeyAppend(s, <<c>>)
    [] s.keyPhase = "escape" /\ c = "u" -> Hex("unicode")
    [] s.keyPhase = "escape" /\ c \in SimpleEscapes -> KeyAppend(s, <<DecodeEscape(c)>>)
    [] s.keyPhase \in {"unicode", "low"} -> KeyHex(s, c)
    [] s.keyPhase = "slash" /\ c = Backslash -> [s EXCEPT !.keyPhase = "slash_u"]
    [] s.keyPhase = "slash_u" /\ c = "u" -> Hex("low")
    [] OTHER -> AsFail(s, "INVALID_JSON")

(***************************************************************************)
(* Values.                                                                 *)
(***************************************************************************)

\* lonejson__array_stream_start_value and _start_mapped_value, with no value
\* active.
AsStartValue(s, dst) ==
  [s EXCEPT !.active = TRUE, !.dst = dst, !.dup = <<>>, !.dupKey = <<>>, !.cut = FALSE,
            !.stringSeen = IF dst = "string" THEN FALSE ELSE @,
            !.parser = VisitStart("visit", s.limits, FALSE, FALSE),
            !.holds = IF dst \in Mapped \cup {"item"} THEN [@ EXCEPT ![dst] = <<>>] ELSE @]

\* lonejson__array_stream_clear_value.
ClearValue(s) == [s EXCEPT !.active = FALSE, !.dst = "skip"]

\* The duplicate-key visitor; a mapped structure looks at its fields alike.
DupEvent(s, e) ==
  LET n == Len(s.dup) IN
  CASE e.name = "object_begin" -> [s EXCEPT !.dup = Append(@, {})]
    [] e.name = "object_end"   -> [s EXCEPT !.dup = Front(@)]
    [] e.name = "key_begin"    -> [s EXCEPT !.dupKey = <<>>]
    [] e.name = "key_chunk"    -> [s EXCEPT !.dupKey = @ \o e.text]
    [] e.name = "key_end"      ->
         IF s.dupKey \in s.dup[n] THEN AsFail(s, "DUPLICATE_FIELD")
         ELSE [s EXCEPT !.dup[n] = @ \cup {s.dupKey}]
    [] OTHER -> s

\* The string visitor: anything but one string is refused.
StringEvent(s, e) ==
  CASE e.name \in {"string_begin", "string_chunk"} /\ s.refuse ->
         AsFail(s, "CALLBACK_FAILED")
    [] e.name = "string_begin" /\ ~s.refuse ->
         [s EXCEPT !.stringSeen = TRUE, !.holds["string"] = <<>>]
    [] e.name = "string_chunk" /\ ~s.refuse ->
         [s EXCEPT !.holds["string"] = @ \o e.text]
    [] e.name = "string_end" -> s
    [] OTHER -> AsFail(s, "TYPE_MISMATCH")

ValueEvent(s, e) ==
  CASE ~AsRuns(s) -> s
    [] AsRuns(s) /\ s.dst = "string" -> StringEvent(s, e)
    [] OTHER -> IF s.reject THEN DupEvent(s, e) ELSE s

\* The byte goes to the buffer, the sink or the structure.
Store(s, c) ==
  CASE s.dst \in Mapped \cup {"item"} -> [s EXCEPT !.holds[s.dst] = Append(@, c)]
    [] s.dst = "sink" -> IF s.refuse THEN AsFail(s, "CALLBACK_FAILED")
                         ELSE [s EXCEPT !.holds["sink"] = Append(@, c)]
    [] OTHER -> s

\* The number that is the whole value has ended before c.
RootNumberEnds(s, c) ==
  s.active /\ s.parser.at = "number" /\ s.parser.stack = <<>> /\ c \notin NumberBytes

\* lonejson__array_stream_finish_value; an item waits for what follows it.
ValueFinished(s, p, e) ==
  CASE ~AsRuns(e) -> ClearValue(e)
    [] AsRuns(e) /\ p.code # "OK" -> ClearValue(AsFail(s, p.code))
    [] OTHER -> [ClearValue(e) EXCEPT
                   !.truncated = s.cut,
                   !.phase = IF s.phase = "item" THEN "after" ELSE "comma",
                   !.pending = s.phase = "item",
                   !.pendingDst = IF s.phase = "item" THEN s.dst ELSE "skip"]

FinishParsed(s, p) == ValueFinished(s, p, FoldLeft(ValueEvent, s, p.events))

FinishValue(s) ==
  FinishParsed(s, IF s.parser.at = "number" THEN VisitEndNumber(s.parser) ELSE s.parser)

\* One byte for the parser of the value.  A sink's answer hides what the
\* parser says of the byte: the next byte, or the end, shows it.
ParserByte(s, c) ==
  IF s.parser.at = "value" /\ s.parser.stack = <<>> /\ s.dst \in Mapped
     /\ c \notin Spaces \cup {"{"}
  THEN VisitFail(s.parser, "TYPE_MISMATCH") ELSE VisitByte(s.parser, c)

ValueStepped(s, t) ==
  CASE ~AsRuns(t) -> ClearValue(t)
    [] AsRuns(t) /\ t.parser.done ->
         IF s.dst = "sink" THEN t ELSE ClearValue(AsFail(t, t.parser.code))
    [] OTHER -> IF t.parser.at = "trail" THEN FinishValue(t) ELSE t

ValueParsed(s, c, p, e) ==
  LET q == IF AsRuns(e) \/ p.done THEN p ELSE VisitFail(p, e.code) IN
  ValueStepped(s, [Store([e EXCEPT !.result = "run", !.state = s.state, !.code = s.code], c)
                     EXCEPT !.parser = [q EXCEPT !.events = <<>>],
                            !.cut = @ \/ (s.dst \in Mapped /\ p.at = "string" /\ ~p.isKey
                                            /\ p.decoded > FieldBytes)])

ValueByte(s, c, p) == ValueParsed(s, c, p, FoldLeft(ValueEvent, s, p.events))

StepValue(s, c) ==
  IF s.parser.done THEN ClearValue(AsFail(s, s.parser.code))
  ELSE ValueByte(s, c, ParserByte(s, c))

(***************************************************************************)
(* lonejson__array_stream_next_raw.                                        *)
(***************************************************************************)

ArrayEnds(s) == [s EXCEPT !.phase = IF s.rootArray THEN "finish" ELSE "comma"]
BeginArray(s) == [s EXCEPT !.state = "in_array", !.first = TRUE, !.phase = "item"]
ObjectEnds(s) ==
  IF s.seen THEN [s EXCEPT !.phase = "finish"] ELSE AsFail(s, "MISSING_REQUIRED_FIELD")

\* Mutant: the byte that shows the end of an item is not pushed back.
AfterItem_Consumed(s, c) ==
  IF c \in {",", "]"}
  THEN [s EXCEPT !.first = FALSE, !.phase = "next", !.pending = FALSE, !.result = "ITEM"]
  ELSE AsFail(s, "INVALID_JSON")

\* An item is handed out once the byte after it was seen and pushed back.
AfterItem(s, c) ==
  IF c \in {",", "]"}
  THEN [s EXCEPT !.back = <<c>>, !.first = FALSE, !.phase = "next", !.pending = FALSE,
                 !.result = "ITEM"]
  ELSE AsFail(s, "INVALID_JSON")

\* A byte that is not a space, by phase.
PhaseByte(s, c) ==
  CASE s.phase = "start" /\ s.path = <<>> /\ c = "[" ->
         BeginArray([s EXCEPT !.rootArray = TRUE])
    [] s.phase = "start" /\ s.path # <<>> /\ c = "{" -> [s EXCEPT !.phase = "key"]
    [] s.phase = "start" /\ c # (IF s.path = <<>> THEN "[" ELSE "{") ->
         AsFail(s, "TYPE_MISMATCH")
    [] s.phase = "key" /\ c = Quote -> BeginRootKey(s)
    [] s.phase = "key" /\ c = "}" /\ ~s.afterComma -> ObjectEnds(s)
    [] s.phase = "colon" /\ c = ":" -> [s EXCEPT !.phase = "value"]
    [] s.phase = "value" /\ s.matched ->
         IF c = "[" THEN BeginArray(s) ELSE AsFail(s, "TYPE_MISMATCH")
    [] s.phase = "value" /\ ~s.matched -> StepValue(AsStartValue(s, "skip"), c)
    [] s.phase = "comma" /\ c = "}" -> ObjectEnds(s)
    [] s.phase = "comma" /\ c = "," -> [s EXCEPT !.afterComma = TRUE, !.phase = "key"]
    [] s.phase = "item" /\ c = "]" /\ s.first -> ArrayEnds(s)
    [] s.phase = "item" /\ c # "]" -> StepValue(AsStartValue(s, s.arg), c)
    [] s.phase = "next" /\ c = "]" -> ArrayEnds(s)
    [] s.phase = "next" /\ c = "," -> [s EXCEPT !.first = FALSE, !.phase = "item"]
    [] s.phase = "after" -> AfterItem(s, c)
    [] OTHER -> AsFail(s, "INVALID_JSON")

Between(s, c) == IF c \in Spaces THEN s ELSE PhaseByte(s, c)

AfterRootNumber(f, c) == IF AsRuns(f) THEN Between(f, c) ELSE f

AsByte(s, c) ==
  CASE s.keyPhase # "idle" -> KeyByte(s, c)
    [] s.keyPhase = "idle" /\ RootNumberEnds(s, c) -> AfterRootNumber(FinishValue(s), c)
    [] s.keyPhase = "idle" /\ s.active /\ ~RootNumberEnds(s, c) -> StepValue(s, c)
    [] OTHER -> Between(s, c)

\* The input has ended.
EndReached(f) ==
  CASE ~AsRuns(f) -> f
    [] AsRuns(f) /\ f.phase = "finish" -> [f EXCEPT !.state = "done", !.result = "EOF"]
    [] AsRuns(f) /\ (f.phase = "start" \/ (f.phase = "value" /\ f.matched)) ->
         AsFail(f, "TYPE_MISMATCH")
    [] OTHER -> AsFail(f, "INVALID_JSON")

AsEof(s) == EndReached(IF s.active /\ s.parser.at = "number" THEN FinishValue(s) ELSE s)

\* A call begins: the checks before next_raw reads anything.
AsCall(s, dst) ==
  LET t == [s EXCEPT !.arg = dst, !.result = "run"] IN
  CASE s.state = "error" -> [s EXCEPT !.result = "ERROR"]
    [] s.state = "done"  -> [s EXCEPT !.result = "EOF"]
    [] s.state \notin {"error", "done"} /\
         ((s.active /\ s.dst # "skip" /\ s.dst # dst)
            \/ (s.pending /\ s.pendingDst # dst)) -> AsFail(t, "INVALID_ARGUMENT")
    [] OTHER -> t

=============================================================================
