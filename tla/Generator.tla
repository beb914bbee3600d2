----------------------------- MODULE Generator -----------------------------
(***************************************************************************)
(* The mapped generator (src/src/impl/32_generator_api.h): a pull-style    *)
(* serializer.  It keeps a stack of frames, one for each value it is in    *)
(* the middle of, at most one piece of output that did not fit the         *)
(* caller's buffer (pending), and one I/O buffer that the streamed values  *)
(* on the stack take turns to own.  The module defines the generator's     *)
(* state, a record, and what one turn of the loop of lonejson_generator_   *)
(* read does to it; a read result of a file or spool may vary, so a turn   *)
(* yields a set of states.                                                 *)
(*                                                                         *)
(* A value is a record: a string, a scalar with its text, null, text or    *)
(* bytes read from a source ("fd", "file" or "spooled"), JSON text, a map  *)
(* with its fields, or an array with its items.                            *)
(***************************************************************************)
EXTENDS JsonPull

CONSTANTS
  IoCapacity,   \* sizeof(io_buffer)
  Values        \* the values that are generated, and the values in them

Sources == {"fd", "file", "spooled", "fail"}

\* What the mapping hands to a generator.
IsValue(v) ==
  /\ v.kind \in {"null", "scalar", "string", "text", "base64", "json", "map", "array"}
  /\ v.kind \in {"scalar", "string"} => v.data \in Seq(STRING)
  /\ v.kind = "text" => v.data \in Seq(STRING) /\ v.source \in Sources
  /\ v.kind = "base64" => v.bytes \in Seq(0..255) /\ v.source \in Sources
  /\ v.kind = "json" => v.null \in BOOLEAN /\ v.data \in Seq(STRING) /\ v.failAt \in Nat
  /\ v.kind = "map" => v.items \in Seq([key : Seq(STRING), omit : BOOLEAN, val : Values])
  /\ v.kind = "array" => v.items \in Seq(Values)

ASSUME GeneratorAssumption ==
  /\ IoCapacity \in Nat \ {0}
  /\ \A v \in Values : IsValue(v)

SmallerOf(m, n) == IF m < n THEN m ELSE n
Cut(s, n) == SubSeq(s, n + 1, Len(s))

\* lonejson__generator_emit_base64_quad: one, two or three bytes as four.
Base64Alphabet ==
  <<"A", "B", "C", "D", "E", "F", "G", "H", "I", "J", "K", "L", "M", "N", "O", "P",
    "Q", "R", "S", "T", "U", "V", "W", "X", "Y", "Z", "a", "b", "c", "d", "e", "f",
    "g", "h", "i", "j", "k", "l", "m", "n", "o", "p", "q", "r", "s", "t", "u", "v",
    "w", "x", "y", "z", "0", "1", "2", "3", "4", "5", "6", "7", "8", "9", "+", "/">>
Quad(data) ==
  LET b(k) == IF k <= Len(data) THEN data[k] ELSE 0 IN
  <<Base64Alphabet[(b(1) \div 4) + 1],
    Base64Alphabet[(b(1) % 4) * 16 + (b(2) \div 16) + 1],
    IF Len(data) > 1 THEN Base64Alphabet[(b(2) % 16) * 4 + (b(3) \div 64) + 1] ELSE "=",
    IF Len(data) > 2 THEN Base64Alphabet[(b(3) % 64) + 1] ELSE "=">>

(***************************************************************************)
(* Frames.                                                                 *)
(***************************************************************************)

Frame(val, depth) ==
  [val |-> val, kind |-> val.kind, depth |-> depth, phase |-> "open", index |-> 1,
   emitted |-> 0, carry |-> <<>>,
   rest |-> CASE val.kind \in {"string", "text"} -> val.data
              [] val.kind = "base64"             -> val.bytes
              [] OTHER                           -> <<>>]

\* lonejson__generator_init_with_options and lonejson__writer_child_init: a
\* generator whose only frame is the root value.
GenInit(val, pretty) ==
  [frames |-> <<Frame(val, 0)>>, pending |-> <<>>, out |-> <<>>, cap |-> 0,
   reading |-> FALSE, io |-> <<>>, ioEof |-> FALSE, ioOwner |-> 0,
   pull |-> PullInitNull, chunk |-> <<>>, jsonOwner |-> 0, finished |-> FALSE,
   pretty |-> pretty, err |-> "ok"]

GenPend(g, bytes) == [g EXCEPT !.pending = bytes]
GenTop(g) == Last(g.frames)
GenFail(g, status) == [g EXCEPT !.err = status, !.reading = FALSE]
SetTop(g, f) == [g EXCEPT !.frames[Len(g.frames)] = f]
ToPhase(g, phase) == [g EXCEPT !.frames[Len(g.frames)].phase = phase]
PushVal(g, val, depth) == [g EXCEPT !.frames = Append(@, Frame(val, depth))]

PopFrame_KeepsOwner(g) == [g EXCEPT !.frames = Front(@)]

\* lonejson__generator_pop_frame: a frame takes the I/O buffer and the JSON
\* reader it owned with it.
PopFrame(g) ==
  LET h == [g EXCEPT !.frames = Front(@)]
      i == IF h.ioOwner > Len(h.frames)
           THEN [h EXCEPT !.ioOwner = 0, !.io = <<>>, !.ioEof = FALSE] ELSE h IN
  IF i.jsonOwner > Len(i.frames) THEN [i EXCEPT !.jsonOwner = 0, !.pull = PullInitNull]
                                 ELSE i

\* lonejson__generator_push_value_from_field: values that need no frame are
\* formatted at once.
PushValue(g, val, depth) ==
  CASE val.kind = "null"   -> GenPend(g, Literals.null)
    [] val.kind = "scalar" -> GenPend(g, val.data)
    [] OTHER               -> PushVal(g, val, depth)

\* lonejson__generator_flush_pending: as much of the pending output as fits.
FlushPending(g) ==
  LET n == SmallerOf(Len(g.pending), g.cap - Len(g.out)) IN
  [g EXCEPT !.out = @ \o SubSeq(g.pending, 1, n), !.pending = Cut(@, n)]

(***************************************************************************)
(* Strings and streamed values.                                            *)
(***************************************************************************)

\* The longest run of bytes in front that need no escape.
PlainRun(s) ==
  CHOOSE n \in 0..Len(s) :
    /\ \A k \in 1..n : ~NeedsEscape(s[k])
    /\ n < Len(s) => NeedsEscape(s[n + 1])

\* lonejson__generator_step_string.
StepGenString(g) ==
  LET f == GenTop(g)
      n == PlainRun(f.rest) IN
  CASE f.phase = "open"  -> GenPend(ToPhase(g, "body"), <<Quote>>)
    [] f.phase = "close" -> GenPend(PopFrame(g), <<Quote>>)
    [] f.phase = "body" /\ n > 0 ->
         GenPend(SetTop(g, [f EXCEPT !.rest = Cut(@, n)]), SubSeq(f.rest, 1, n))
    [] f.phase = "body" /\ f.rest = <<>> -> ToPhase(g, "close")
    [] OTHER ->
         GenPend(SetTop(g, [f EXCEPT !.rest = Tail(@)]), EscapeOf(Head(f.rest)))

\* What a read of a source or a spool can return (lonejson__source_cursor_
\* read, lonejson_spooled_read): an fd may return less than asked for and
\* reports the end by returning nothing; a FILE ends with a short read; a
\* spool knows its size.  "fail" is a source whose first read fails.
ReadResults(source, rest) ==
  LET n == SmallerOf(IoCapacity, Len(rest)) IN
  CASE source = "fd"      -> IF rest = <<>> THEN {[n |-> 0, eof |-> TRUE]}
                             ELSE [n : 1..n, eof : {FALSE}]
    [] source = "file"    -> {[n |-> n, eof |-> n < IoCapacity]}
    [] source = "spooled" -> {[n |-> n, eof |-> n = Len(rest)]}
    [] source = "fail"    -> {}

\* lonejson__generator_stream_refill_source and _spooled: the frame's bytes
\* into the I/O buffer, which is empty.
Refills(g) ==
  LET f == GenTop(g) IN
  IF ReadResults(f.val.source, f.rest) = {} THEN {GenFail(g, "io")}
  ELSE {[SetTop(g, [f EXCEPT !.rest = Cut(@, r.n)])
           EXCEPT !.io = SubSeq(f.rest, 1, r.n), !.ioEof = r.eof] :
          r \in ReadResults(f.val.source, f.rest)}

\* lonejson__generator_prepare_stream_owner.
PrepareOwner(g) ==
  IF g.ioOwner = Len(g.frames) THEN g
  ELSE [g EXCEPT !.ioOwner = Len(g.frames), !.io = <<>>, !.ioEof = FALSE]

\* lonejson__generator_step_stream_text once the buffer was filled.
EmitText(g) ==
  LET n == PlainRun(g.io) IN
  CASE n > 0          -> GenPend([g EXCEPT !.io = Cut(@, n)], SubSeq(g.io, 1, n))
    [] n = 0 /\ g.io # <<>> ->
         GenPend([g EXCEPT !.io = Tail(@)], EscapeOf(Head(g.io)))
    [] g.io = <<>> /\ g.ioEof -> ToPhase(g, "close")
    [] OTHER          -> g

StepText(g) ==
  LET h == PrepareOwner(g)
      f == GenTop(h) IN
  CASE f.phase = "open"  -> {GenPend(ToPhase(h, "body"), <<Quote>>)}
    [] f.phase = "close" -> {GenPend(PopFrame(h), <<Quote>>)}
    [] f.phase = "body" /\ (h.io # <<>> \/ h.ioEof) -> {EmitText(h)}
    [] OTHER -> {IF r.err = "ok" THEN EmitText(r) ELSE r : r \in Refills(h)}

\* lonejson__generator_step_stream_base64: bytes are carried until there are
\* three, or the source ends.  A turn of its inner loop is one step here.
EmitQuad(g) ==
  GenPend([g EXCEPT !.frames[Len(g.frames)].carry = <<>>], Quad(GenTop(g).carry))

StepBase64(g) ==
  LET h == PrepareOwner(g)
      f == GenTop(h) IN
  CASE f.phase = "open"  -> {GenPend(ToPhase(h, "body"), <<Quote>>)}
    [] f.phase = "close" -> {GenPend(PopFrame(h), <<Quote>>)}
    [] f.phase = "body" /\ Len(f.carry) = 3 -> {EmitQuad(h)}
    [] f.phase = "body" /\ Len(f.carry) < 3 /\ h.io # <<>> ->
         {[SetTop(h, [f EXCEPT !.carry = Append(@, Head(h.io))]) EXCEPT !.io = Tail(@)]}
    [] f.phase = "body" /\ Len(f.carry) < 3 /\ h.io = <<>> /\ h.ioEof ->
         {IF f.carry = <<>> THEN ToPhase(h, "close") ELSE EmitQuad(h)}
    [] OTHER -> Refills(h)

(***************************************************************************)
(* Containers.                                                             *)
(***************************************************************************)

NewLine(depth) == <<"\n">> \o [k \in 1..(2 * depth) |-> " "]

\* lonejson__generator_step_map: members that are not omitted, each with the
\* comma, line and indent before it.  Each omitted member that the loop passes
\* over is a step here.
StepMap(g) ==
  LET f == GenTop(g)
      members == f.val.items
      m == members[f.index] IN
  CASE f.phase = "open" -> GenPend(ToPhase(g, "next"), <<"{">>)
    [] f.phase = "next" /\ f.index > Len(members) ->
         ToPhase(g, IF g.pretty /\ f.emitted > 0 THEN "endLine" ELSE "close")
    [] f.phase = "next" /\ f.index <= Len(members) /\ m.omit ->
         SetTop(g, [f EXCEPT !.index = @ + 1])
    [] f.phase = "next" /\ f.index <= Len(members) /\ ~m.omit ->
         ToPhase(g, IF f.emitted > 0 THEN "comma" ELSE IF g.pretty THEN "line" ELSE "key")
    [] f.phase = "comma" -> GenPend(ToPhase(g, IF g.pretty THEN "line" ELSE "key"), <<",">>)
    [] f.phase = "line" -> GenPend(ToPhase(g, "key"), NewLine(f.depth + 1))
    [] f.phase = "key" -> PushVal(ToPhase(g, "colon"),
                                  [kind |-> "string", data |-> m.key], f.depth + 1)
    [] f.phase = "colon" ->
         GenPend(ToPhase(g, "value"), IF g.pretty THEN <<":", " ">> ELSE <<":">>)
    [] f.phase = "value" -> PushValue(ToPhase(g, "done"), m.val, f.depth + 1)
    [] f.phase = "done" ->
         SetTop(g, [f EXCEPT !.index = @ + 1, !.emitted = @ + 1, !.phase = "next"])
    [] f.phase = "endLine" -> GenPend(ToPhase(g, "close"), NewLine(f.depth))
    [] f.phase = "close" -> GenPend(PopFrame(g), <<"}">>)

\* The typed arrays and lonejson__generator_step_object_array.
StepArray(g) ==
  LET f == GenTop(g)
      items == f.val.items IN
  CASE f.phase = "open" -> GenPend(ToPhase(g, "next"), <<"[">>)
    [] f.phase = "next" /\ f.index > Len(items) ->
         ToPhase(g, IF g.pretty /\ items # <<>> THEN "endLine" ELSE "close")
    [] f.phase = "next" /\ f.index <= Len(items) ->
         ToPhase(g, IF f.index > 1 THEN "comma" ELSE IF g.pretty THEN "line" ELSE "value")
    [] f.phase = "comma" -> GenPend(ToPhase(g, IF g.pretty THEN "line" ELSE "value"), <<",">>)
    [] f.phase = "line" -> GenPend(ToPhase(g, "value"), NewLine(f.depth + 1))
    [] f.phase = "value" -> PushValue(ToPhase(g, "done"), items[f.index], f.depth + 1)
    [] f.phase = "done" -> SetTop(g, [f EXCEPT !.index = @ + 1, !.phase = "next"])
    [] f.phase = "endLine" -> GenPend(ToPhase(g, "close"), NewLine(f.depth))
    [] f.phase = "close" -> GenPend(PopFrame(g), <<"]">>)

(***************************************************************************)
(* JSON values: lonejson__generator_prepare_json_owner and _step_json_     *)
(* value.  A call of lonejson__json_pull_read fills `chunk` over several   *)
(* steps.                                                                  *)
(***************************************************************************)

PrepareJson(g) ==
  LET f == GenTop(g) IN
  IF g.jsonOwner = Len(g.frames) THEN g
  ELSE [g EXCEPT !.jsonOwner = Len(g.frames), !.chunk = <<>>,
                 !.pull = IF f.val.null THEN PullInitNull
                          ELSE PullInit(f.val.data, f.val.failAt, g.pretty, f.depth)]

PullFlush(g) ==
  LET n == SmallerOf(Len(g.pull.pending), IoCapacity - Len(g.chunk)) IN
  [g EXCEPT !.chunk = @ \o SubSeq(g.pull.pending, 1, n),
            !.pull.pending = Cut(@, n)]

PullDone(g) ==
  IF g.chunk # <<>> THEN GenPend([g EXCEPT !.chunk = <<>>], g.chunk)
  ELSE PopFrame([g EXCEPT !.jsonOwner = 0, !.pull = PullInitNull])

StepJson(g) ==
  LET h == PullFlush(PrepareJson(g))
      p == PullStep(h.pull) IN
  CASE h.pull.pending # <<>> \/ Len(h.chunk) = IoCapacity ->
         GenPend([h EXCEPT !.chunk = <<>>], h.chunk)
    [] h.pull.pending = <<>> /\ Len(h.chunk) < IoCapacity ->
         CASE p.err # "ok" -> GenFail([h EXCEPT !.pull = p], p.err)
           [] p.err = "ok" /\ p.finished -> PullDone([h EXCEPT !.pull = p])
           [] OTHER -> [h EXCEPT !.pull = p]

(***************************************************************************)
(* lonejson_generator_read.                                                *)
(***************************************************************************)

\* lonejson__generator_step_frame.
StepTop(g) ==
  CASE GenTop(g).kind = "map"    -> {StepMap(g)}
    [] GenTop(g).kind = "string" -> {StepGenString(g)}
    [] GenTop(g).kind = "array"  -> {StepArray(g)}
    [] GenTop(g).kind = "text"   -> StepText(g)
    [] GenTop(g).kind = "base64" -> StepBase64(g)
    [] GenTop(g).kind = "json"   -> {StepJson(g)}

\* The call begins: the caller's buffer is empty.
GenRead(g, cap) == [g EXCEPT !.out = <<>>, !.cap = cap, !.reading = TRUE]

\* One turn of the read loop; reading ends when the buffer is full, the last
\* frame is done or a step fails.
GenTurn(g) ==
  LET f == FlushPending(g) IN
  CASE Len(g.out) >= g.cap -> {[g EXCEPT !.reading = FALSE]}
    [] Len(g.out) < g.cap /\ (f.pending # <<>> \/ Len(f.out) = f.cap) ->
         {[f EXCEPT !.reading = FALSE]}
    [] Len(g.out) < g.cap /\ f.pending = <<>> /\ Len(f.out) < f.cap ->
         IF f.finished \/ f.frames = <<>>
         THEN {[f EXCEPT !.finished = TRUE, !.reading = FALSE]}
         ELSE StepTop(f)

\* The eof the call reports.
GenEof(g) == (g.finished \/ g.frames = <<>>) /\ g.pending = <<>>

=============================================================================
