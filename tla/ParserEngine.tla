---------------------------- MODULE ParserEngine ----------------------------
(***************************************************************************)
(* The push parser (src/src/impl/22_parser_engine.h and                    *)
(* 22_parser_actions.h): lonejson_parser_feed cuts the document anywhere,  *)
(* each call runs a loop whose iterations are the actions below, and       *)
(* lonejson_parser_finish closes the document.  The parser validates       *)
(* (validate_only) or fills a map of integer and fixed integer-array       *)
(* fields.  Bytes are one-character strings; `ref` runs the JSON grammar   *)
(* over the bytes consumed.                                                *)
(***************************************************************************)
EXTENDS JsonText, FiniteSets

CONSTANTS
  Streams,         \* sets of byte sequences: what a caller's feed calls pass
  FieldKind,       \* the root map: key spelling -> "i64" or "i64_array"
  Required,        \* the keys flagged LONEJSON_FIELD_REQUIRED
  RejectDuplicates,\* options.reject_duplicate_keys
  ArrayCapacity,   \* capacity of the caller's fixed array
  Policy,          \* its overflow_policy: "fail", "truncate" or "silent"
  StopAtRoot,      \* the stop_at_root argument of feed_bytes
  MaxDepth,        \* options.max_depth, 0: unlimited
  FrameBytes,      \* sizeof(lonejson_frame)
  WorkspaceSize    \* parser->workspace_size

ASSUME ParserAssumption ==
  /\ \A stream \in Streams : stream \subseteq Seq(STRING) \ {<<>>}
  /\ \A k \in DOMAIN FieldKind : FieldKind[k] \in {"i64", "i64_array"}
  /\ Required \subseteq DOMAIN FieldKind
  /\ RejectDuplicates \in BOOLEAN /\ StopAtRoot \in BOOLEAN
  /\ Policy \in {"fail", "truncate", "silent"}
  /\ ArrayCapacity \in Nat /\ MaxDepth \in Nat
  /\ FrameBytes \in Nat \ {0} /\ WorkspaceSize \in Nat

\* The fields are named with bytes that are not escaped code points, which
\* the model does not tell apart.
ASSUME KeyAssumption == \A k \in DOMAIN FieldKind : CodePoint \notin Range(k)

VARIABLES
  source, \* the member of Streams this caller's chunks come from
  p,      \* the lonejson_parser
  chunk,  \* the bytes of the running feed call not yet consumed
  result, \* what finish returned, "open" before
  ref     \* history: the grammar's view of the bytes consumed

vars == <<source, p, chunk, result, ref>>

Fail(q, code) == [q EXCEPT !.code = code]
Ok(q) == q.code = "OK"

\* parser_init_state.
InitState(validate) ==
  [validate |-> validate, frames |-> <<>>, started |-> FALSE, finished |-> FALSE,
   failed |-> FALSE, code |-> "OK", truncated |-> FALSE,
   lex |-> "none", isKey |-> FALSE, capture |-> "token", token |-> <<>>,
   escape |-> FALSE, need |-> 0, acc |-> 0, high |-> 0, count |-> 0]

Top(q) == Last(q.frames)
SetTop(q, f) == [q EXCEPT !.frames[Len(q.frames)] = f]

-----------------------------------------------------------------------------
(***************************************************************************)
(* Tokens share the workspace with the frames below them.                  *)
(***************************************************************************)

\* token_limit.
TokenLimit(q) ==
  LET frameBytes == Len(q.frames) * FrameBytes IN
  IF WorkspaceSize <= frameBytes THEN 0 ELSE WorkspaceSize - frameBytes - 1

\* prepare_token.
PrepareToken(q) ==
  LET r == [q EXCEPT !.token = <<>>] IN
  IF TokenLimit(q) = 0 THEN Fail(r, "OVERFLOW") ELSE r

\* Mutant: the frames below the token are forgotten.
ScratchReserve_AtRootOnly(q, need) == need + 1 <= WorkspaceSize

\* scratch_reserve.
ScratchReserve(q, need) == need + 1 <= TokenLimit(q)

\* scratch_append_bytes, utf8_append.
ScratchAppendBytes(q, s) ==
  IF ScratchReserve(q, Len(q.token) + Len(s) + 1) THEN [q EXCEPT !.token = @ \o s]
  ELSE Fail(q, "ALLOCATION_FAILED")

\* scratch_append: one byte, for which it asks room for two.
ScratchAppend(q, c) ==
  IF ScratchReserve(q, Len(q.token) + 2) THEN [q EXCEPT !.token = Append(@, c)]
  ELSE Fail(q, "ALLOCATION_FAILED")

\* append_string_byte, a plain run, append_unicode_codepoint: a discarded
\* string keeps nothing.
AppendByte(q, c) == IF q.capture = "token" THEN ScratchAppend(q, c) ELSE q
AppendText(q, s) == IF q.capture = "token" THEN ScratchAppendBytes(q, s) ELSE q

\* begin_string_lex, begin_string_value_lex.
BeginString(q, isKey) ==
  LET r == [q EXCEPT !.lex = "string", !.isKey = isKey, !.escape = FALSE,
                     !.high = 0, !.need = 0,
                     !.capture = IF q.validate THEN "discard" ELSE "token"] IN
  IF q.validate THEN [r EXCEPT !.token = <<>>] ELSE PrepareToken(r)

\* begin_number_lex, begin_literal_lex.
BeginScalar(q, mode, c) ==
  LET r == PrepareToken([q EXCEPT !.lex = mode, !.isKey = FALSE]) IN
  IF Ok(r) THEN ScratchAppend(r, c) ELSE r

\* parse_i64_token; the tokens of an instance are too short to overflow.
ParsesAsI64(t) ==
  LET int == IF t[1] = "-" THEN 2 ELSE 1 IN
  /\ int <= Len(t)
  /\ t[int] = "0" => int = Len(t)
  /\ \A i \in int..Len(t) : t[i] \in Digits

-----------------------------------------------------------------------------
(***************************************************************************)
(* Containers and values.                                                  *)
(***************************************************************************)

\* complete_parent_after_value.
CompleteParent(q) ==
  IF q.frames = <<>> THEN [q EXCEPT !.finished = TRUE]
  ELSE SetTop(q, [Top(q) EXCEPT !.state = "comma",
                                !.field = IF Top(q).kind = "object" THEN {} ELSE @])

\* push_frame.
PushFrame(q, kind, map, field) ==
  IF \/ MaxDepth # 0 /\ Len(q.frames) >= MaxDepth
     \/ (Len(q.frames) + 1) * FrameBytes > WorkspaceSize
  THEN Fail(q, "OVERFLOW")
  ELSE [q EXCEPT !.frames =
          Append(@, [kind |-> kind, state |-> IF kind = "object" THEN "key" ELSE "item",
                     comma |-> FALSE, map |-> map, field |-> field, seen |-> {}])]

\* mark_field_seen, for the field the object is waiting for.
Duplicate(q) == RejectDuplicates /\ Top(q).field \cap Top(q).seen # {}
MarkSeen(q) == SetTop(q, [Top(q) EXCEPT !.seen = @ \cup Top(q).field])

\* begin_object_value.
BeginObject(q) ==
  LET r == SetTop(q, [Top(q) EXCEPT !.comma = FALSE]) IN
  CASE ~q.started -> PushFrame([q EXCEPT !.started = TRUE], "object", ~q.validate, {})
    [] q.started /\ Top(q).field = {} -> PushFrame(r, "object", FALSE, {})
    [] q.started /\ Top(q).field # {} /\ Top(q).kind = "object" /\ Duplicate(q) ->
         Fail(r, "DUPLICATE_FIELD")
    [] OTHER -> Fail(r, "TYPE_MISMATCH")

\* The kind of a field that may be absent.
KindOf(field) == IF field = {} THEN "none" ELSE FieldKind[CHOOSE k \in field : TRUE]

\* begin_array_value.
BeginArray(q) ==
  LET r == SetTop(q, [Top(q) EXCEPT !.comma = FALSE])
      inObject == q.frames # <<>> /\ Top(q).kind = "object" IN
  CASE ~q.started ->
         IF q.validate THEN PushFrame([q EXCEPT !.started = TRUE], "array", FALSE, {})
         ELSE Fail(q, "TYPE_MISMATCH")
    [] q.started /\ Top(q).field = {} -> PushFrame(r, "array", FALSE, {})
    [] q.started /\ inObject /\ Top(q).field # {} /\ Duplicate(q) ->
         Fail(r, "DUPLICATE_FIELD")
    [] q.started /\ inObject /\ KindOf(Top(q).field) = "i64_array" /\ ~Duplicate(q) ->
         PushFrame([MarkSeen(r) EXCEPT !.count = 0], "array", FALSE, Top(q).field)
    [] OTHER -> Fail(r, "TYPE_MISMATCH")

PopFrame(q) == [q EXCEPT !.frames = Front(@)]

\* finalize_object.
FinalizeObject(q) ==
  IF Top(q).map /\ ~(Required \subseteq Top(q).seen)
  THEN Fail(q, "MISSING_REQUIRED_FIELD")
  ELSE CompleteParent(PopFrame(q))

\* finalize_array.
FinalizeArray(q) == CompleteParent(PopFrame(q))

\* deliver_key_text.
DeliverKey(q, text) ==
  SetTop(q, [Top(q) EXCEPT !.state = "colon",
                           !.field = IF Top(q).map /\ text \in DOMAIN FieldKind
                                     THEN {text} ELSE {}])

\* handle_scalar_for_field and assign_null, then complete_parent_after_value.
ScalarForField(q, mode) ==
  LET kind == KindOf(Top(q).field) IN
  CASE kind = "none" -> CompleteParent(q)
    [] kind # "none" /\ Duplicate(q) -> Fail(q, "DUPLICATE_FIELD")
    [] kind = "i64" /\ mode = "number" /\ ParsesAsI64(q.token) /\ ~Duplicate(q) ->
         CompleteParent(MarkSeen(q))
    [] kind = "i64_array" /\ mode = "null" /\ ~Duplicate(q) ->
         CompleteParent([MarkSeen(q) EXCEPT !.count = 0])
    [] OTHER -> Fail(MarkSeen(q), "TYPE_MISMATCH")

\* The array already holds ArrayCapacity items when one more arrives.
ArrayFull(q) == q.count >= ArrayCapacity

\* handle_array_scalar and array_append_i64.
ScalarForArray(q, mode) ==
  LET next == SetTop(q, [Top(q) EXCEPT !.state = "comma"]) IN
  CASE mode # "number" \/ ~ParsesAsI64(q.token) -> Fail(q, "TYPE_MISMATCH")
    [] mode = "number" /\ ParsesAsI64(q.token) /\ ~ArrayFull(q) ->
         [next EXCEPT !.count = @ + 1]
    [] mode = "number" /\ ParsesAsI64(q.token) /\ ArrayFull(q) /\ Policy = "fail" ->
         Fail(q, "OVERFLOW")
    [] OTHER -> [next EXCEPT !.truncated = TRUE]

\* deliver_token reports LONEJSON_STATUS_TRUNCATED, leaving error.code alone.
ReportsTruncation(q) ==
  /\ q.frames # <<>> /\ Top(q).kind = "array" /\ Top(q).field # {}
  /\ ParsesAsI64(q.token) /\ ArrayFull(q) /\ Policy = "truncate"

\* mapped_numeric_target.
MappedNumericTarget(q) ==
  KindOf(Top(q).field) = (IF Top(q).kind = "object" THEN "i64" ELSE "i64_array")

\* deliver_token.
DeliverToken(q, mode) ==
  LET badNumber == mode = "number" /\ ~IsValidJsonNumber(q.token) IN
  CASE q.isKey -> DeliverKey(q, q.token)
    [] ~q.isKey /\ q.frames = <<>> ->
         IF q.started \/ ~q.validate \/ badNumber THEN Fail(q, "INVALID_JSON")
         ELSE [q EXCEPT !.started = TRUE, !.finished = TRUE]
    [] ~q.isKey /\ q.frames # <<>> ->
         IF badNumber /\ (q.validate \/ ~MappedNumericTarget(q))
         THEN Fail(q, "INVALID_JSON")
         ELSE IF Top(q).kind = "object" THEN ScalarForField(q, mode)
         ELSE IF Top(q).field = {}
              THEN SetTop(q, [Top(q) EXCEPT !.comma = FALSE, !.state = "comma"])
         ELSE ScalarForArray(q, mode)

-----------------------------------------------------------------------------
(***************************************************************************)
(* One byte outside every token: the container branches of feed_bytes and  *)
(* the end of consume_char, which treat a byte alike where both know it.   *)
(***************************************************************************)

\* A scalar begins inside a container.
ScalarStart(q, c) ==
  CASE c = Quote -> BeginString(q, FALSE)
    [] c = "-" \/ c \in Digits -> BeginScalar(q, "number", c)
    [] LiteralOf(c) # {} -> BeginScalar(q, CHOOSE l \in LiteralOf(c) : TRUE, c)
    [] OTHER -> Fail(q, "INVALID_JSON")

\* Where a value may stand.
ValueStart(q, c) ==
  CASE c = "{" -> BeginObject(q)
    [] c = "[" -> BeginArray(q)
    [] OTHER   -> ScalarStart(q, c)

\* The first byte of a document: a map is filled from an object only.
RootStart(q, c) ==
  LET scalar == c \in Digits \cup {"-", Quote} \/ LiteralOf(c) # {} IN
  CASE c \in {"{", "["} -> ValueStart(q, c)
    [] c \notin {"{", "["} /\ q.validate -> ScalarStart(q, c)
    [] OTHER -> Fail(IF scalar THEN ScalarStart(q, c) ELSE q, "TYPE_MISMATCH")

ObjectByte(q, c) ==
  LET f == Top(q) IN
  CASE f.state = "key" /\ c = Quote -> BeginString(q, TRUE)
    [] f.state = "key" /\ c = "}" /\ ~f.comma -> FinalizeObject(q)
    [] f.state = "colon" /\ c = ":" -> SetTop(q, [f EXCEPT !.state = "value"])
    [] f.state = "value" -> ValueStart(q, c)
    [] f.state = "comma" /\ c = "," -> SetTop(q, [f EXCEPT !.state = "key", !.comma = TRUE])
    [] f.state = "comma" /\ c = "}" -> FinalizeObject(q)
    [] OTHER -> Fail(q, "INVALID_JSON")

ArrayByte(q, c) ==
  LET f == Top(q) IN
  CASE f.state = "item" /\ c = "]" ->
         IF f.comma THEN Fail(q, "INVALID_JSON") ELSE FinalizeArray(q)
    [] f.state = "item" /\ c # "]" -> ValueStart(q, c)
    [] f.state = "comma" /\ c = "," -> SetTop(q, [f EXCEPT !.state = "item", !.comma = TRUE])
    [] f.state = "comma" /\ c = "]" -> FinalizeArray(q)
    [] OTHER -> Fail(q, "INVALID_JSON")

StructureByte(q, c) ==
  CASE c \in Spaces -> q
    [] c \notin Spaces /\ ~q.started -> RootStart(q, c)
    [] c \notin Spaces /\ q.started /\ q.frames = <<>> -> Fail(q, "INVALID_JSON")
    [] OTHER -> IF Top(q).kind = "object" THEN ObjectByte(q, c) ELSE ArrayByte(q, c)

\* parser_root_complete.
RootComplete(q) == q.finished /\ q.frames = <<>> /\ q.lex = "none"

-----------------------------------------------------------------------------
(***************************************************************************)
(* Bytes inside tokens.                                                    *)
(***************************************************************************)

\* How many leading bytes of s are in the set, at most all of them.
RunLength(s, set) ==
  CHOOSE n \in 0..Len(s) : /\ \A i \in 1..n : s[i] \in set
                           /\ n = Len(s) \/ s[n + 1] \notin set

\* Bytes of a string that stand for themselves.
PlainLength(s) ==
  CHOOSE n \in 0..Len(s) :
    /\ \A i \in 1..n : s[i] \notin Controls \cup {Quote, Backslash}
    /\ n = Len(s) \/ s[n + 1] \in Controls \cup {Quote, Backslash}

\* decode_unicode_quad.
IsQuad(s, i) == i + 3 <= Len(s) /\ \A k \in i..(i + 3) : s[k] \in HexDigits
Quad(s, i) == 4096 * HexValue(s[i]) + 256 * HexValue(s[i + 1])
                + 16 * HexValue(s[i + 2]) + HexValue(s[i + 3])

\* The UTF-8 bytes of a code point of the basic plane.
Utf8Of(cp) == CASE cp <= 127               -> <<DecodedPoint(cp)>>
                [] cp > 127 /\ cp <= 2047  -> <<CodePoint, "cont">>
                [] OTHER                   -> <<CodePoint, "cont", "cont">>

\* A complete \uXXXX: pair it with the high surrogate before it, or keep it.
AcceptCodePoint(q, cp) ==
  CASE q.high # 0 /\ ~IsLow(cp) -> Fail(q, "INVALID_JSON")
    [] q.high # 0 /\ IsLow(cp)  -> 
         AppendText([q EXCEPT !.high = 0], <<CodePoint, "cont", "cont", "cont">>)
    [] q.high = 0 /\ IsHigh(cp) -> [q EXCEPT !.high = cp]
    [] q.high = 0 /\ IsLow(cp)  -> Fail(q, "INVALID_JSON")
    [] OTHER -> AppendText(q, Utf8Of(cp))

\* The closing quote: deliver_token for a key or a value.
EndString(q) ==
  IF q.high # 0 THEN Fail(q, "INVALID_JSON")
  ELSE DeliverToken([q EXCEPT !.lex = "none"], "string")

-----------------------------------------------------------------------------
(***************************************************************************)
(* The loop of feed_bytes.  Consume(q, n): the iteration leaves the parser *)
(* as q, having read n bytes.                                              *)
(***************************************************************************)

\* Mutant: the loop runs on after the root value.
Looping_ToTheEnd == chunk # <<>> /\ result = "open"

Looping == /\ chunk # <<>> /\ result = "open"
           /\ ~(StopAtRoot /\ RootComplete(p))

byte == Head(chunk)

Consume(q, n) ==
  /\ p' = [q EXCEPT !.failed = ~Ok(q)]
  /\ chunk' = IF Ok(q) THEN SubSeq(chunk, n + 1, Len(chunk)) ELSE <<>>
  /\ ref' = GrammarRun(ref, SubSeq(chunk, 1, n))
  /\ UNCHANGED <<source, result>>

\* consume_string_fast runs: no escape is half read.
InString == Looping /\ p.lex = "string" /\ p.need = 0 /\ ~p.escape

\* Mutant: the beginning of the key in an earlier chunk is forgotten.
KeyAtOnce_AnyChunk == /\ p.isKey /\ p.capture = "token"
                      /\ PlainLength(chunk) < Len(chunk)
                      /\ chunk[PlainLength(chunk) + 1] = Quote

\* The key shortcut: the whole key lies in this chunk.
KeyAtOnce == /\ p.isKey /\ p.capture = "token" /\ p.token = <<>>
             /\ PlainLength(chunk) < Len(chunk)
             /\ chunk[PlainLength(chunk) + 1] = Quote

KeyInChunk ==
  /\ InString /\ KeyAtOnce
  /\ LET n == PlainLength(chunk) IN
     Consume(DeliverKey([p EXCEPT !.lex = "none"], SubSeq(chunk, 1, n)), n + 1)

PlainRun ==
  /\ InString /\ ~KeyAtOnce /\ PlainLength(chunk) > 0
  /\ LET n == PlainLength(chunk) IN Consume(AppendText(p, SubSeq(chunk, 1, n)), n)

StringEnd ==
  /\ InString /\ ~KeyAtOnce /\ byte = Quote
  /\ Consume(EndString(p), 1)

ControlInString ==
  /\ InString /\ byte \in Controls
  /\ Consume(Fail(p, "INVALID_JSON"), 1)

\* consume_simple_escape_fast takes both bytes.
SimpleFast == /\ Len(chunk) >= 2 /\ p.high = 0 /\ chunk[2] \in SimpleEscapes

SimpleEscape ==
  /\ InString /\ byte = Backslash /\ SimpleFast
  /\ Consume(AppendByte(p, Unescape(chunk[2])), 2)

\* consume_unicode_escape_fast takes the escape, with its low surrogate
\* after a high one.
PairFollows == /\ Len(chunk) >= 12 /\ chunk[7] = Backslash /\ chunk[8] = "u"
               /\ IsQuad(chunk, 9)
UnicodeFast == /\ Len(chunk) >= 6 /\ chunk[2] = "u" /\ IsQuad(chunk, 3)
               /\ (p.high = 0 /\ IsHigh(Quad(chunk, 3))) => PairFollows

UnicodeEscape ==
  /\ InString /\ byte = Backslash /\ UnicodeFast
  /\ LET cp == Quad(chunk, 3)
         n  == IF p.high = 0 /\ IsHigh(cp) THEN 12 ELSE 6
         q  == AcceptCodePoint(p, cp)
         r  == IF n = 12 THEN AcceptCodePoint(q, Quad(chunk, 9)) ELSE q IN
     Consume(r, n)

\* consume_char reads the backslash alone.
EscapeOpens ==
  /\ InString /\ byte = Backslash /\ ~SimpleFast /\ ~UnicodeFast
  /\ Consume([p EXCEPT !.escape = TRUE], 1)

EscapedByte ==
  /\ Looping /\ p.lex = "string" /\ p.need = 0 /\ p.escape
  /\ LET q == [p EXCEPT !.escape = FALSE] IN
     Consume(CASE byte = "u" -> [q EXCEPT !.need = 4, !.acc = 0]
               [] byte \in SimpleEscapes -> AppendByte(q, Unescape(byte))
               [] OTHER -> Fail(q, "INVALID_JSON"), 1)

HexDigit ==
  /\ Looping /\ p.lex = "string" /\ p.need # 0
  /\ IF byte \notin HexDigits THEN Consume(Fail(p, "INVALID_JSON"), 1)
     ELSE LET cp == p.acc * 16 + HexValue(byte)
              q  == [p EXCEPT !.acc = cp, !.need = @ - 1] IN
          Consume(IF q.need = 0 THEN AcceptCodePoint([q EXCEPT !.acc = 0], cp) ELSE q,
                  1)

\* The number branch of feed_bytes: a run of number bytes, and the value if
\* the chunk goes on after it.  A value is refused with the byte after it in
\* view.
NumberRun ==
  /\ Looping /\ p.lex = "number" /\ byte \in NumberBytes
  /\ LET n == RunLength(chunk, NumberBytes)
         q == ScratchAppendBytes(p, SubSeq(chunk, 1, n))
         r == DeliverToken([q EXCEPT !.lex = "none"], "number") IN
     CASE ~Ok(q) \/ n = Len(chunk) -> Consume(q, n)
       [] Ok(q) /\ n < Len(chunk) -> Consume(r, IF Ok(r) THEN n ELSE n + 1)

\* consume_char on the byte after a number: the value is delivered and the
\* byte read again.  A status other than OK returns before that.
EndNumber(q, c) ==
  LET r == DeliverToken([q EXCEPT !.lex = "none"], "number") IN
  IF ~Ok(r) \/ ReportsTruncation(q) THEN r ELSE StructureByte(r, c)

NumberEnd ==
  /\ Looping /\ p.lex = "number" /\ byte \notin NumberBytes
  /\ Consume(EndNumber(p, byte), 1)

LiteralByte ==
  /\ Looping /\ p.lex \in DOMAIN Literals
  /\ LET want == Literals[p.lex]
         q == ScratchAppend(p, byte) IN
     IF byte # want[Len(p.token) + 1] THEN Consume(Fail(p, "INVALID_JSON"), 1)
     ELSE IF ~Ok(q) \/ Len(q.token) < Len(want) THEN Consume(q, 1)
     ELSE Consume(DeliverToken([q EXCEPT !.lex = "none"], p.lex), 1)

Structure ==
  /\ Looping /\ p.lex = "none"
  /\ Consume(StructureByte(p, byte), 1)

\* feed_bytes returns at the end of the root value; the caller keeps the rest.
StopFeed ==
  /\ chunk # <<>> /\ result = "open" /\ StopAtRoot /\ RootComplete(p)
  /\ chunk' = <<>>
  /\ UNCHANGED <<source, p, result, ref>>

\* lonejson_parser_feed; a failed parser refuses the bytes.
Feed ==
  /\ chunk = <<>> /\ result = "open" /\ ~p.failed
  /\ chunk' \in source
  /\ UNCHANGED <<source, p, result, ref>>

\* lonejson_parser_finish: a number may still be open.  A status other than
\* OK from its delivery returns error.code, whatever the status was.
Finish ==
  /\ chunk = <<>> /\ result = "open"
  /\ LET open == ~p.failed /\ p.lex = "number"
         q == IF open THEN DeliverToken([p EXCEPT !.lex = "none"], "number") ELSE p
         returned == p.failed \/ ~Ok(q) \/ (open /\ ReportsTruncation(p))
         whole == q.lex = "none" /\ q.started /\ q.finished /\ q.frames = <<>>
         r == IF returned \/ whole THEN q ELSE Fail(q, "INVALID_JSON") IN
     /\ p' = r
     /\ result' = IF ~returned /\ whole /\ q.truncated THEN "TRUNCATED" ELSE r.code
  /\ UNCHANGED <<source, chunk, ref>>

\* The next document: the parser is initialised again.
Restart ==
  /\ result # "open"
  /\ p' = InitState(p.validate)
  /\ result' = "open" /\ chunk' = <<>> /\ ref' = GrammarStart(~p.validate)
  /\ UNCHANGED source

Init ==
  /\ source \in Streams
  /\ \E validate \in BOOLEAN : /\ p = InitState(validate)
                               /\ ref = GrammarStart(~validate)
  /\ chunk = <<>> /\ result = "open"

Next ==
  \/ Feed \/ StopFeed \/ Finish \/ Restart
  \/ KeyInChunk \/ PlainRun \/ StringEnd \/ ControlInString
  \/ SimpleEscape \/ UnicodeEscape \/ EscapeOpens \/ EscapedByte \/ HexDigit
  \/ NumberRun \/ NumberEnd \/ LiteralByte \/ Structure

Spec == Init /\ [][Next]_vars

-----------------------------------------------------------------------------
(***************************************************************************)
(* Properties.                                                             *)
(***************************************************************************)

\* However the document is cut into chunks, what the parser has accepted is
\* the beginning of a JSON text, and what finish accepts is a whole one; a
\* number is only judged when it ends.
AcceptsOnlyJson ==
  /\ Ok(p) /\ p.lex # "number" => Alive(ref)
  /\ result \in {"OK", "TRUNCATED"} => Complete(ref)

\* INVALID_JSON is reported for what is not JSON only: no way of cutting a
\* valid document into chunks makes the parser refuse it as malformed.  An
\* unpaired surrogate escape may be refused.
RejectsOnlyInvalid ==
  /\ p.failed /\ p.code = "INVALID_JSON" => ~Alive(ref) \/ ~ref.paired
  /\ result = "INVALID_JSON" => ~Complete(ref) \/ ~ref.paired

\* The parser's language is JSON: neither more nor less is accepted, and no
\* mapped array holds more items than it has room for.
ArrayFits == p.count <= ArrayCapacity
AcceptsExactlyJson == AcceptsOnlyJson /\ RejectsOnlyInvalid /\ ArrayFits

\* A token is being read into the workspace.  A discarded string (token.data
\* is NULL) and a token for which prepare_token found no room are not.
HoldsToken(q) ==
  /\ q.lex # "none" /\ ~(q.lex = "string" /\ q.capture = "discard")
  /\ Ok(q) \/ q.token # <<>>

\* The frames grow from one end of the workspace and the token starts where
\* they stop: both, and the token's terminator, fit, and the nesting limit
\* is kept.
WorkspaceFits ==
  /\ Len(p.frames) * FrameBytes <= WorkspaceSize
  /\ HoldsToken(p) =>
       Len(p.frames) * FrameBytes + Len(p.token) + 1 <= WorkspaceSize
  /\ MaxDepth # 0 => Len(p.frames) <= MaxDepth

\* The field a value is about to fill.
AwaitsValue == /\ ~p.failed /\ result = "open" /\ p.lex = "none" /\ p.frames # <<>>
               /\ Top(p).map /\ Top(p).state \in {"colon", "value"}
KeyField == IF ref.text \in DOMAIN FieldKind THEN {ref.text} ELSE {}

\* A value fills the field whose key is the decoded spelling of the key in
\* the document, wherever the key was cut and however it was escaped.
KeyNamesField == AwaitsValue => Top(p).field = KeyField

\* The same for documents without unpaired surrogate escapes.
PairedKeyNamesField == AwaitsValue /\ ref.paired => Top(p).field = KeyField

\* With stop_at_root the bytes after a mapped document stay with the caller.
StopLeavesRest == StopAtRoot /\ ~p.validate => ~ref.past

=============================================================================
