------------------------------- MODULE Writer -------------------------------
(***************************************************************************)
(* The streaming writer (src/src/impl/38_writer_api.h) and the generator   *)
(* made of a writer and a producer callback (src/src/impl/32_generator_    *)
(* api.h).  The client makes any call in any order.  In sink mode each     *)
(* emission is a call of the sink, which may fail; in generator mode the   *)
(* bytes go to the buffer of the read in progress, what does not fit is    *)
(* kept as pending output, and a call that finds the output blocked        *)
(* returns TRUNCATED, to be made again with the same arguments in a later  *)
(* run of the producer.                                                    *)
(*                                                                         *)
(* A call takes a step for each emission; call.at is where it is.  What a  *)
(* call must remember when it is made again is in the writer (w.ev,        *)
(* w.reader, w.child), as in the code: a repeated call starts over.        *)
(***************************************************************************)
EXTENDS Generator

CONSTANTS
  Keys, Strings, Numbers, Scalars,  \* arguments of the calls
  Readers,          \* reader callbacks: [data, fails]
  Children,         \* mapped, streamed and JSON values: [val, pretty]
  Pieces,           \* what is pushed into a value stream
  ItemLists,        \* what an array stream yields: [items, end]
  Capacities,       \* capacities of the consumer's reads
  ChildCapacity,    \* sizeof(event_child_buffer)
  FirstFrames,      \* the first capacity of a stack of frames
  MaxNumberBytes,   \* the limit of number_chunk
  MaxValueBytes,    \* the byte limit of a value stream
  MaxText, MaxLong  \* bounds: no call starts once the text is longer than
                    \* MaxText, no call of a streamed value than MaxLong

\* The calls there are.  A null or a scalar value is written as a scalar.
ASSUME WriterAssumption ==
  /\ Keys \cup Strings \cup Numbers \cup Scalars \cup Pieces \subseteq Seq(STRING)
  /\ Readers \subseteq [data : Seq(STRING), fails : BOOLEAN]
  /\ Children \subseteq [val : {v \in Values : v.kind \notin {"null", "scalar"}},
                          pretty : BOOLEAN]
  /\ ItemLists \subseteq [items : Seq(Seq(STRING)), end : {"eof", "fail"}]
  /\ Capacities \subseteq Nat /\ ChildCapacity \in Nat \ {0}
  /\ FirstFrames \in Nat \ {0}

VARIABLES
  mode,      \* "sink" or "generator"; "mapped": no writer, a mapped generator
  w,         \* lonejson__writer_state
  gen,       \* lonejson__writer_generator_state and its read in progress
  call,      \* the writer call in progress
  written,   \* history: the bytes accepted from the writer
  got,       \* history: the bytes the consumer's reads returned
  eof,       \* the consumer was told that the text has ended
  broken     \* history: a call returned the error of a reader, a source or,
             \* in the middle of a value, of the allocator

writerVars == <<mode, w, gen, call, written, got, eof, broken>>

NoEvent == [op |-> "none", arg |-> <<>>, phase |-> 0, rest |-> <<>>]
NoReader == [active |-> FALSE, arg |-> <<>>, left |-> <<>>, rest |-> <<>>, eof |-> FALSE]
NoChild == GenInit([kind |-> "null"], FALSE)
NoStream == [open |-> FALSE, failed |-> FALSE, frames |-> <<>>, room |-> 0, root |-> FALSE,
             strOpen |-> FALSE, numOpen |-> FALSE, total |-> 0, word |-> "null",
             text |-> GrammarStart(FALSE)]
NoCall == [op |-> "none", arg |-> <<>>, at |-> "enter", rest |-> <<>>,
           started |-> FALSE, emitted |-> FALSE]

WriterStart ==
  [frames |-> <<>>, room |-> 0, rootWritten |-> FALSE, finished |-> FALSE, strOpen |-> FALSE,
   numOpen |-> FALSE, number |-> <<>>, failed |-> FALSE, streamOpen |-> FALSE,
   ev |-> NoEvent, child |-> NoChild, reader |-> NoReader, stream |-> NoStream]

GenStart == [out |-> <<>>, cap |-> 0, pending |-> <<>>, blocked |-> FALSE,
             done |-> FALSE, phase |-> "idle"]

WriterInit ==
  /\ w = WriterStart
  /\ gen = GenStart
  /\ call = NoCall
  /\ written = <<>> /\ got = <<>>
  /\ eof = FALSE /\ broken = FALSE

(***************************************************************************)
(* The generator's sink.                                                   *)
(***************************************************************************)

\* lonejson__writer_generator_flush_pending.
GenFlush(s) ==
  LET n == SmallerOf(Len(s.pending), s.cap - Len(s.out)) IN
  [s EXCEPT !.out = @ \o SubSeq(s.pending, 1, n), !.pending = Cut(@, n)]

\* lonejson__writer_output_blocked and writer_generator_output_blocked.
Blocked ==
  /\ mode = "generator"
  /\ gen.blocked \/ gen.pending # <<>> \/ Len(gen.out) >= gen.cap

\* lonejson__writer_generator_set_pending, after what fits was copied.
GenTake(s, bytes) ==
  LET n == SmallerOf(Len(bytes), s.cap - Len(s.out)) IN
  [s EXCEPT !.out = @ \o SubSeq(bytes, 1, n),
            !.pending = IF n < Len(bytes) THEN Cut(bytes, n) ELSE @,
            !.blocked = n < Len(bytes)]

GenSink_Overwrites(s, bytes) == [taken |-> TRUE, gen |-> GenTake(s, bytes)]

\* lonejson__writer_generator_sink.
GenSink(s, bytes) ==
  LET f == GenFlush(s) IN
  CASE ~s.blocked -> [taken |-> TRUE, gen |-> GenTake(s, bytes)]
    [] s.blocked /\ (f.pending # <<>> \/ Len(f.out) >= f.cap) ->
         [taken |-> FALSE, gen |-> f]
    [] OTHER -> [taken |-> TRUE, gen |-> GenTake([f EXCEPT !.blocked = FALSE], bytes)]

(***************************************************************************)
(* How a call ends or goes on.                                             *)
(***************************************************************************)

At(place) == [call EXCEPT !.at = place]

\* The call returns, accepted or refused; v is the writer it leaves.
Return(v) ==
  /\ w' = v
  /\ call' = NoCall
  /\ UNCHANGED <<mode, gen, written, got, eof, broken>>

Continue(v, c) ==
  /\ w' = v
  /\ call' = c
  /\ UNCHANGED <<mode, gen, written, got, eof, broken>>

\* TRUNCATED: the producer returns it, and the read loop runs.
Truncate(v) ==
  /\ w' = v
  /\ call' = [NoCall EXCEPT !.op = call.op, !.arg = call.arg]
  /\ gen' = [gen EXCEPT !.phase = "reading"]
  /\ UNCHANGED <<mode, written, got, eof, broken>>

\* A reader or a source failed: the call returns its error.
BreakCall(v) ==
  /\ w' = v
  /\ call' = NoCall
  /\ broken' = TRUE
  /\ UNCHANGED <<mode, gen, written, got, eof>>

\* The state a failed emission or source leaves: the writer is poisoned, and
\* so is the value stream that was being fed; a value reader also cleans its
\* stream up (lonejson__writer_value_destroy).
Poisoned(v) ==
  LET f == [v EXCEPT !.failed = TRUE] IN
  CASE call.op = "value_reader" -> [f EXCEPT !.streamOpen = FALSE, !.stream = NoStream]
    [] call.op \in {"stream_push", "stream_close"} -> [f EXCEPT !.stream.failed = TRUE]
    [] OTHER -> f

\* lonejson__writer_emit: v is the writer if the sink does not take the
\* bytes, u and c the writer and the call if it does.
Emit(bytes, v, u, c) ==
  IF bytes = <<>> THEN Continue(u, c)
  ELSE
    \/ /\ mode = "generator"
       /\ LET r == GenSink(gen, bytes) IN
          IF r.taken
          THEN /\ gen' = r.gen
               /\ w' = u /\ call' = c
               /\ written' = written \o bytes
               /\ UNCHANGED <<mode, got, eof, broken>>
          ELSE /\ gen' = [r.gen EXCEPT !.phase = "reading"]
               /\ w' = v
               /\ call' = [NoCall EXCEPT !.op = call.op, !.arg = call.arg]
               /\ UNCHANGED <<mode, written, got, eof, broken>>
    \/ /\ mode = "sink"
       /\ w' = u /\ call' = c
       /\ written' = written \o bytes
       /\ UNCHANGED <<mode, gen, got, eof, broken>>
    \/ /\ mode = "sink"
       /\ Return(Poisoned(v))

\* The bytes are taken, and the allocation that follows fails: the call
\* returns its error.
EmitBreaks(bytes, v) ==
  /\ gen' = IF mode = "generator" /\ bytes # <<>> THEN GenSink(gen, bytes).gen ELSE gen
  /\ mode = "generator" /\ bytes # <<>> => GenSink(gen, bytes).taken
  /\ w' = v
  /\ call' = NoCall
  /\ broken' = TRUE
  /\ written' = written \o bytes
  /\ UNCHANGED <<mode, got, eof>>

(***************************************************************************)
(* Where a value may be written.                                           *)
(***************************************************************************)

WFrame(kind) == [kind |-> kind, any |-> FALSE, afterKey |-> FALSE]
Inside(v, kind) == v.frames # <<>> /\ Last(v.frames).kind = kind
AfterKey(v) == v.frames # <<>> /\ Last(v.frames).afterKey

\* The comma due before a value or key.
Comma(v) == IF v.frames # <<>> /\ Last(v.frames).any THEN <<",">> ELSE <<>>

\* lonejson__writer_before_value: what it refuses before it asks whether the
\* output is blocked, what it refuses after, and what it does.
BeforeRefuses(v) == v.failed \/ v.streamOpen \/ v.strOpen \/ v.numOpen \/ v.finished

PlaceRefuses(v) ==
  IF v.frames = <<>> THEN v.rootWritten ELSE Inside(v, "object") /\ ~AfterKey(v)

Placed_Uncounted(v) ==
  IF v.frames = <<>> THEN [v EXCEPT !.rootWritten = TRUE]
  ELSE [v EXCEPT !.frames[Len(v.frames)].afterKey = FALSE]

Placed(v) ==
  IF v.frames = <<>> THEN [v EXCEPT !.rootWritten = TRUE]
  ELSE [v EXCEPT !.frames[Len(v.frames)] = [@ EXCEPT !.any = TRUE, !.afterKey = FALSE]]

\* v: the writer on entry; u: the writer once the place was prepared.
BeforeValue(v, u, c) ==
  CASE BeforeRefuses(v)                  -> Return(v)
    [] ~BeforeRefuses(v) /\ Blocked      -> Truncate(v)
    [] ~BeforeRefuses(v) /\ ~Blocked /\ PlaceRefuses(v) -> Return(v)
    [] OTHER -> Emit(IF Inside(v, "array") THEN Comma(v) ELSE <<>>, v, u, c)

\* The calls of the client run in sink mode, or in a run of the producer.
Running == mode = "sink" \/ (mode = "generator" /\ gen.phase = "producing")
Doing(ops, place) == Running /\ call.op \in ops /\ call.at = place

(***************************************************************************)
(* begin_object, begin_array, string_begin and a source that holds null:   *)
(* a place, then one piece of text.                                        *)
(***************************************************************************)

OpeningOps == {"begin_object", "begin_array", "string_begin", "null_source"}

Opening ==
  [begin_object |-> <<"{">>, begin_array |-> <<"[">>, string_begin |-> <<Quote>>,
   null_source |-> Literals.null]

\* lonejson__writer_push_frame and _value_push_frame: a full stack is grown.
Full(v) == Len(v.frames) = v.room
Pushed(v, kind) ==
  [v EXCEPT !.frames = Append(@, WFrame(kind)),
            !.room = CASE ~Full(v) -> @ [] Full(v) /\ @ = 0 -> FirstFrames [] OTHER -> 2 * @]

\* The new frame, and the flag of string_begin.
Opened(v) ==
  CASE call.op = "begin_object" -> Pushed(v, "object")
    [] call.op = "begin_array"  -> Pushed(v, "array")
    [] call.op = "string_begin" -> [v EXCEPT !.strOpen = TRUE]
    [] call.op = "null_source"  -> v

OpenPlace == Doing(OpeningOps, "enter") /\ BeforeValue(w, Placed(w), At("open"))
OpenEmit == Doing(OpeningOps, "open") /\ Emit(Opening[call.op], w, Opened(w), NoCall)

\* lonejson__writer_push_frame cannot grow the stack: the bracket is out, and
\* no frame stands for it.  The writer is not poisoned.
OpenBreaks ==
  /\ Doing({"begin_object", "begin_array"}, "open")
  /\ Full(w)
  /\ EmitBreaks(Opening[call.op], w)

\* lonejson_writer_end_object and _end_array.
EndKind == IF call.op = "end_object" THEN "object" ELSE "array"

EndRefuses(v) ==
  \/ v.failed \/ v.streamOpen \/ v.strOpen \/ v.numOpen
  \/ ~Inside(v, EndKind) \/ AfterKey(v)

EndContainer ==
  /\ Doing({"end_object", "end_array"}, "enter")
  /\ IF EndRefuses(w) THEN Return(w)
     ELSE Emit(<<Closer(EndKind)>>, w, [w EXCEPT !.frames = Front(@)], NoCall)

\* lonejson_writer_string_end: it does not ask whether the writer failed.
StringEnd ==
  /\ Doing({"string_end"}, "enter")
  /\ IF ~w.strOpen THEN Return(w)
     ELSE Emit(<<Quote>>, w, [w EXCEPT !.strOpen = FALSE], NoCall)

(***************************************************************************)
(* Events: calls that may be truncated between any two bytes.              *)
(***************************************************************************)

\* lonejson__writer_begin_event (lonejson__writer_require_available first).
EventRefused(v) ==
  \/ v.failed \/ v.streamOpen \/ v.numOpen
  \/ v.ev.op # "none" /\ (v.ev.op # call.op \/ v.ev.arg # call.arg)

EventBegun(v, data) ==
  IF v.ev.op # "none" THEN v
  ELSE [v EXCEPT !.ev = [op |-> call.op, arg |-> call.arg, phase |-> 0, rest |-> data]]

\* lonejson__writer_clear_event.
Cleared(v) == [v EXCEPT !.ev = NoEvent, !.child = NoChild]
Phase(v, n) == [v EXCEPT !.ev.phase = n]

\* The part of lonejson_writer_key before its quote.
KeyEnter ==
  LET v == EventBegun(w, call.arg) IN
  /\ Doing({"key"}, "enter")
  /\ CASE EventRefused(w)     -> Return(w)
       [] ~EventRefused(w) /\ v.ev.phase > 0 -> Continue(v, At("text"))
       [] ~EventRefused(w) /\ v.ev.phase = 0 /\ v.strOpen -> Return(v)
       [] ~EventRefused(w) /\ v.ev.phase = 0 /\ ~v.strOpen /\ Blocked -> Truncate(v)
       [] ~EventRefused(w) /\ v.ev.phase = 0 /\ ~v.strOpen /\ ~Blocked
            /\ (~Inside(v, "object") \/ AfterKey(v)) -> Return(v)
       [] OTHER -> Emit(Comma(v), v, Phase(v, 1), At("text"))

\* lonejson_writer_string, _number_text, the scalars (lonejson__writer_emit_
\* scalar_bytes, which resumes an event without asking whether the writer
\* failed) and the values a child generator writes: an event, then a place.
IsNumber(text) == text # <<>> /\ text[1] \in Digits \cup {"-"}
                    /\ Complete(GrammarRun(GrammarStart(FALSE), text))

ValueEnter ==
  LET data == IF call.op = "child" THEN <<>> ELSE call.arg
      v == EventBegun(w, data)
      resumes == w.ev.op = call.op /\ w.ev.arg = call.arg
      refused == IF call.op = "scalar" /\ resumes THEN FALSE ELSE EventRefused(w)
      begun == IF call.op = "child"
               THEN [Phase(Placed(v), 1) EXCEPT !.child = GenInit(call.arg.val, call.arg.pretty)]
               ELSE Phase(Placed(v), 1)
      next == At(IF call.op = "child" THEN "child" ELSE "text") IN
  /\ Doing({"string", "number_text", "scalar", "child"}, "enter")
  /\ CASE call.op = "number_text" /\ ~IsNumber(call.arg) -> Return(w)
       [] (call.op = "number_text" => IsNumber(call.arg)) /\ refused -> Return(w)
       [] (call.op = "number_text" => IsNumber(call.arg)) /\ ~refused /\ v.ev.phase > 0 ->
            Continue(v, next)
       [] OTHER -> BeforeValue(v, begun, next)

\* lonejson__writer_child_init cannot allocate the child generator: the event
\* is over, and its place is taken.
ChildBreaks ==
  LET v == EventBegun(w, <<>>) IN
  /\ Doing({"child"}, "enter")
  /\ ~EventRefused(w) /\ v.ev.phase = 0
  /\ ~BeforeRefuses(v) /\ ~Blocked /\ ~PlaceRefuses(v)
  /\ EmitBreaks(IF Inside(v, "array") THEN Comma(v) ELSE <<>>, Cleared(Placed(v)))

\* lonejson_writer_string_chunk.
ChunkEnter ==
  /\ Doing({"string_chunk"}, "enter")
  /\ IF w.failed \/ w.streamOpen \/ ~w.strOpen \/ EventRefused(w) THEN Return(w)
     ELSE Continue(EventBegun(w, call.arg), At("text"))

\* lonejson_writer_number_begin, _number_chunk and _number_end.
NumberBegin ==
  /\ Doing({"number_begin"}, "enter")
  /\ BeforeValue(w, [Placed(w) EXCEPT !.number = <<>>, !.numOpen = TRUE], NoCall)

NumberChunk ==
  /\ Doing({"number_chunk"}, "enter")
  /\ CASE w.failed \/ w.streamOpen \/ ~w.numOpen -> Return(w)
       [] w.numOpen /\ ~w.failed /\ ~w.streamOpen
            /\ Len(w.number) + Len(call.arg) > MaxNumberBytes ->
            Return([w EXCEPT !.failed = TRUE])
       [] OTHER -> \/ Return([w EXCEPT !.number = @ \o call.arg])
                   \/ Return([w EXCEPT !.failed = TRUE])  \* out of memory

NumberEnd ==
  LET begun == IF w.ev.op # "none" THEN w
               ELSE [w EXCEPT !.ev = [op |-> "number_end", arg |-> <<>>, phase |-> 1,
                                      rest |-> w.number]] IN
  /\ Doing({"number_end"}, "enter")
  /\ CASE w.failed \/ ~w.numOpen -> Return(w)
       [] ~w.failed /\ w.numOpen /\ ~IsNumber(w.number) -> Return([w EXCEPT !.failed = TRUE])
       [] ~w.failed /\ w.numOpen /\ IsNumber(w.number)
            /\ w.ev.op \notin {"none", "number_end"} -> Return(w)
       [] OTHER -> Continue(begun, At("text"))

\* lonejson__writer_emit_escaped_event, _emit_bytes_event and the quotes
\* around them: one byte of the event's data, or its end.
Quoted == {"key", "string"}
PieceOf(c) ==
  IF call.op \in {"key", "string", "string_chunk"} THEN EscapeOf(c) ELSE <<c>>

EventDone(v) ==
  CASE call.op = "key" ->
         [Cleared(v) EXCEPT !.frames[Len(v.frames)].afterKey = TRUE]
    [] call.op = "number_end" -> [Cleared(v) EXCEPT !.number = <<>>, !.numOpen = FALSE]
    [] OTHER -> Cleared(v)

EventText ==
  LET e == w.ev IN
  /\ Doing({"key", "string", "string_chunk", "number_text", "number_end", "scalar"}, "text")
  /\ CASE e.rest = <<>> /\ call.op \notin Quoted -> Return(EventDone(w))
       [] (e.rest # <<>> \/ call.op \in Quoted) /\ Blocked -> Truncate(w)
       [] ~Blocked /\ call.op \in Quoted /\ e.phase = 1 ->
            Emit(<<Quote>>, w, Phase(w, 2), call)
       [] ~Blocked /\ (call.op \in Quoted => e.phase = 2) /\ e.rest # <<>> ->
            Emit(PieceOf(Head(e.rest)), w, [w EXCEPT !.ev.rest = Tail(@)], call)
       [] OTHER ->
            Emit(IF call.op = "key" THEN <<Quote, ":">> ELSE <<Quote>>,
                 Phase(w, 3), EventDone(w), NoCall)

(***************************************************************************)
(* lonejson_writer_string_reader.                                          *)
(***************************************************************************)

ReaderOpen ==
  LET begun == [w EXCEPT !.strOpen = TRUE,
                  !.reader = [NoReader EXCEPT !.active = TRUE, !.arg = call.arg,
                                              !.left = call.arg.data]] IN
  \/ /\ Doing({"string_reader"}, "enter")
     /\ CASE w.reader.active /\ w.reader.arg # call.arg -> Return(w)
          [] w.reader.active /\ w.reader.arg = call.arg -> Continue(w, At("text"))
          [] OTHER -> BeforeValue(w, Placed(w), At("quote"))
  \/ /\ Doing({"string_reader"}, "quote")
     /\ Emit(<<Quote>>, w, begun, At("text"))

\* A byte of the buffer, a read of the callback, or the closing quote.
ReaderText ==
  LET r == w.reader IN
  /\ Doing({"string_reader"}, "text")
  /\ CASE Blocked -> Truncate(w)
       [] ~Blocked /\ r.rest # <<>> ->
            Emit(EscapeOf(Head(r.rest)), w, [w EXCEPT !.reader.rest = Tail(@)], call)
       [] ~Blocked /\ r.rest = <<>> /\ ~r.eof ->
            \/ r.left = <<>> /\ r.arg.fails /\ BreakCall(w)
            \/ /\ r.left = <<>> /\ ~r.arg.fails
               /\ Continue([w EXCEPT !.reader.eof = TRUE], call)
            \/ \E n \in 1..SmallerOf(IoCapacity, Len(r.left)) :
                 Continue([w EXCEPT !.reader.rest = SubSeq(r.left, 1, n),
                                    !.reader.left = Cut(@, n)], call)
       [] OTHER ->
            IF ~w.strOpen THEN Return(w)
            ELSE Emit(<<Quote>>, w, [w EXCEPT !.strOpen = FALSE, !.reader = NoReader], NoCall)

(***************************************************************************)
(* lonejson__writer_child_event: a child generator is read into a buffer   *)
(* no larger than what the output has room for.                            *)
(***************************************************************************)

ChildRoom ==
  IF mode = "generator" THEN SmallerOf(ChildCapacity, gen.cap - Len(gen.out))
                        ELSE ChildCapacity

ChildRead ==
  /\ Doing({"child"}, "child")
  /\ IF Blocked THEN Truncate(w)
     ELSE Continue([w EXCEPT !.child = GenRead(@, ChildRoom)], At("turn"))

ChildTurn ==
  /\ Doing({"child"}, "turn")
  /\ w.child.reading
  /\ \E g \in GenTurn(w.child) : Continue([w EXCEPT !.child = g], call)

ChildEmit ==
  LET g == w.child IN
  /\ Doing({"child"}, "turn")
  /\ ~g.reading
  /\ CASE g.err # "ok" -> BreakCall(w)
       [] g.err = "ok" /\ g.out # <<>> ->
            Emit(g.out, w, [w EXCEPT !.child.out = <<>>], At("sent"))
       [] g.err = "ok" /\ g.out = <<>> /\ GenEof(g) -> Return(Cleared(w))
       [] OTHER -> Truncate(w)

ChildSent ==
  /\ Doing({"child"}, "sent")
  /\ CASE Blocked -> Truncate(w)
       [] ~Blocked /\ GenEof(w.child) -> Return(Cleared(w))
       [] OTHER -> Continue(w, At("child"))

(***************************************************************************)
(* Value streams: JSON text is parsed and written again token by token.    *)
(* The parser is the automaton of JsonGrammar, which ParserEngine's runs   *)
(* compare it with; the visitor below is the writer's.  Escapes other than *)
(* the short ones are not fed.                                             *)
(***************************************************************************)

\* The visitor call a byte brings about.
VisitorEvent(g, c) ==
  CASE g.ctl = "string" /\ c = Quote -> IF g.key THEN "key_end" ELSE "string_end"
    [] g.ctl = "string" /\ c = Backslash -> "none"
    [] g.ctl = "escape" \/ (g.ctl = "string" /\ c \notin {Quote, Backslash}) -> "string_chunk"
    [] g.ctl = "literal" -> IF Len(g.want) = 1 THEN "literal" ELSE "none"
    [] g.ctl \in NumberStates /\ NumberStep(g.ctl, c) # "end" -> "number_chunk"
    [] OTHER ->
         CASE c = "{" -> "object_begin"
           [] c = "[" -> "array_begin"
           [] c = "}" -> "object_end"
           [] c = "]" -> "array_end"
           [] c = Quote -> IF g.ctl \in {"firstKey", "key"} THEN "key_begin" ELSE "string_begin"
           [] c \in Digits \cup {"-"} -> "number_begin"
           [] OTHER -> "none"

\* What a short escape stands for.
Meant(g, c) ==
  IF g.ctl = "escape" /\ c \in Range(EscapeLetter)
  THEN CHOOSE d \in DOMAIN EscapeLetter : EscapeLetter[d] = c ELSE c

\* lonejson__writer_value_before and the visitor's functions: what they
\* refuse, the text they emit, and the state they leave.
BeginsValue == {"object_begin", "array_begin", "string_begin", "number_begin", "literal"}

VisitorRefuses(s, event) ==
  CASE event \in BeginsValue ->
         IF s.frames = <<>> THEN s.root ELSE Inside(s, "object") /\ ~AfterKey(s)
    [] event \in {"object_end", "key_begin"} -> ~Inside(s, "object") \/ AfterKey(s)
    [] event = "array_end" -> ~Inside(s, "array")
    [] event = "key_end" -> ~Inside(s, "object") \/ ~s.strOpen
    [] event = "string_end" -> ~s.strOpen
    [] OTHER -> FALSE

VisitorText(s, event, c) ==
  LET comma == IF event = "key_begin" \/ (event \in BeginsValue /\ Inside(s, "array"))
               THEN Comma(s) ELSE <<>> IN
  comma \o
  CASE event = "key_end" -> <<Quote, ":">>
    [] event \in {"key_begin", "string_begin", "string_end"} -> <<Quote>>
    [] event = "string_chunk" -> EscapeOf(Meant(s.text, c))
    [] event = "literal" -> Literals[s.word]
    [] event = "none" -> <<>>
    [] OTHER -> <<c>>

VisitorState(s, event) ==
  LET placed == IF s.frames = <<>> THEN [s EXCEPT !.root = TRUE]
                ELSE [s EXCEPT !.frames[Len(s.frames)] =
                                 [@ EXCEPT !.any = TRUE, !.afterKey = FALSE]] IN
  CASE event = "object_begin" -> Pushed(placed, "object")
    [] event = "array_begin"  -> Pushed(placed, "array")
    [] event \in {"object_end", "array_end"} -> [s EXCEPT !.frames = Front(@)]
    [] event = "key_begin"    -> [s EXCEPT !.strOpen = TRUE]
    [] event = "key_end"      ->
         [s EXCEPT !.frames[Len(s.frames)].afterKey = TRUE, !.strOpen = FALSE]
    [] event = "string_begin" -> [placed EXCEPT !.strOpen = TRUE]
    [] event = "string_end"   -> [s EXCEPT !.strOpen = FALSE]
    [] event = "number_begin" -> [placed EXCEPT !.numOpen = TRUE]
    [] event = "literal"      -> placed
    [] OTHER                  -> s

\* lonejson_writer_value_stream_open; a value reader opens one of its own.  A
\* state or a parser that cannot be allocated refuses the call.
StreamOpen ==
  /\ Doing({"stream_open", "value_reader"}, "enter")
  /\ \/ Return(w)
     \/ /\ mode = "sink" /\ ~w.streamOpen /\ w.ev.op = "none" /\ ~w.failed
        /\ BeforeValue(w, [Placed(w) EXCEPT !.streamOpen = TRUE,
                             !.stream = [NoStream EXCEPT !.open = TRUE]],
                       IF call.op = "stream_open" THEN NoCall
                       ELSE [At("read") EXCEPT !.rest = call.arg.data])

\* lonejson__writer_json_value_stream_reader_with_limits: the next piece the
\* reader returns is pushed; its end closes the stream.
ValueRead ==
  /\ Doing({"value_reader"}, "read")
  /\ \/ call.rest = <<>> /\ call.arg.fails /\ Return(Poisoned(w))
     \/ call.rest = <<>> /\ ~call.arg.fails /\ Continue(w, At("close"))
     \/ \E n \in 1..SmallerOf(IoCapacity, Len(call.rest)) :
          IF w.stream.total + n > MaxValueBytes THEN Return(Poisoned(w))
          ELSE Continue([w EXCEPT !.stream.total = @ + n],
                        [call EXCEPT !.at = "feed",
                                     !.rest = <<SubSeq(@, 1, n), Cut(@, n)>>])

\* lonejson_writer_value_stream_push up to the parser.
StreamPush ==
  /\ Doing({"stream_push"}, "enter")
  /\ CASE ~w.stream.open \/ w.stream.failed -> Return(w)
       [] w.stream.open /\ ~w.stream.failed
            /\ w.stream.total + Len(call.arg) > MaxValueBytes -> Return(Poisoned(w))
       [] OTHER -> Continue([w EXCEPT !.stream.total = @ + Len(call.arg)],
                            [call EXCEPT !.at = "feed", !.rest = <<call.arg, <<>>>>])

\* One byte: the parser's step, the visitor's answer and what it emits.
StreamFeed ==
  LET bytes == call.rest[1]
      c == Head(bytes)
      s == w.stream
      before == IF s.numOpen /\ NumberStep(s.text.ctl, c) = "end"
                THEN [s EXCEPT !.numOpen = FALSE] ELSE s
      event == VisitorEvent(s.text, c)
      starts == s.text.ctl \notin {"string", "escape", "literal"} /\ LiteralOf(c) # {}
      after == [VisitorState(before, event) EXCEPT
                  !.text = GrammarStep(s.text, c),
                  !.word = IF starts THEN CHOOSE l \in LiteralOf(c) : TRUE ELSE @] IN
  /\ Doing({"stream_push", "value_reader"}, "feed")
  /\ CASE bytes = <<>> ->
            IF call.op = "stream_push" THEN Return(w)
            ELSE Continue(w, [call EXCEPT !.at = "read", !.rest = call.rest[2]])
       [] bytes # <<>> /\ (~Alive(GrammarStep(s.text, c)) \/ VisitorRefuses(before, event)) ->
            Return(Poisoned(w))
       [] OTHER ->
            \/ Emit(VisitorText(before, event, c), w, [w EXCEPT !.stream = after],
                    [call EXCEPT !.rest[1] = Tail(@)])
            \/ /\ event \in {"object_begin", "array_begin"} /\ Full(s)
               /\ EmitBreaks(VisitorText(before, event, c), Poisoned(w))

StreamUnfinished_AnyText(s) == s.frames # <<>> \/ ~s.root

\* lonejson_parser_finish of the stream's parser, which ends a number, and
\* the visitor's own account.
StreamUnfinished(s) ==
  \/ ~Complete(s.text) \/ s.frames # <<>> \/ s.strOpen \/ ~s.root
  \/ s.numOpen /\ s.text.ctl \notin NumberEnds

\* lonejson_writer_value_stream_close.
StreamClose ==
  /\ Doing({"stream_close"}, "enter") \/ Doing({"value_reader"}, "close")
  /\ CASE ~w.stream.open \/ w.stream.failed -> Return(w)
       [] w.stream.open /\ ~w.stream.failed /\ StreamUnfinished(w.stream) ->
            Return(Poisoned(w))
       [] OTHER -> Return([w EXCEPT !.streamOpen = FALSE, !.stream = NoStream])

\* lonejson_writer_value_stream_cleanup.
StreamCleanup ==
  /\ Doing({"stream_cleanup"}, "enter")
  /\ IF ~w.stream.open THEN Return(w)
     ELSE Return([w EXCEPT !.failed = TRUE, !.streamOpen = FALSE, !.stream = NoStream])

(***************************************************************************)
(* lonejson__writer_array_items_from_stream: the items of an array stream, *)
(* each in pieces, then its end, an error or a reader that would block.    *)
(***************************************************************************)

ItemsEnter ==
  /\ Doing({"array_items"}, "enter")
  /\ IF mode # "sink" \/ w.failed \/ w.streamOpen \/ w.strOpen \/ w.ev.op # "none"
          \/ ~Inside(w, "array")
     THEN Return(w)
     ELSE Continue(w, [At("item") EXCEPT !.rest = call.arg.items])

\* lonejson__writer_array_items_sink: the place of the item, then its text.
ItemStart ==
  /\ Doing({"array_items"}, "item")
  /\ call.rest # <<>> /\ ~call.started
  /\ BeforeValue(w, Placed(w), [call EXCEPT !.started = TRUE])

ItemText ==
  /\ Doing({"array_items"}, "item")
  /\ call.rest # <<>> /\ call.started
  /\ IF Head(call.rest) = <<>>
     THEN Continue(w, [call EXCEPT !.rest = Tail(@), !.started = FALSE, !.emitted = TRUE])
     ELSE Emit(<<Head(Head(call.rest))>>, w, w, [call EXCEPT !.rest[1] = Tail(@)])

\* The stream may fail in the middle of an item.
ItemsEnd ==
  /\ Doing({"array_items"}, "item")
  /\ \/ call.rest = <<>> /\ call.arg.end = "eof" /\ Return(w)
     \/ /\ call.arg.end # "eof"
        /\ Return(IF call.started \/ call.emitted THEN [w EXCEPT !.failed = TRUE] ELSE w)

(***************************************************************************)
(* lonejson_writer_finish.                                                 *)
(***************************************************************************)

FinishRefuses(v) ==
  \/ v.failed \/ v.streamOpen \/ v.strOpen \/ v.numOpen
  \/ ~v.rootWritten \/ v.frames # <<>>

Finish ==
  /\ Doing({"finish"}, "enter")
  /\ IF FinishRefuses(w) THEN Return(w) ELSE Return([w EXCEPT !.finished = TRUE])

(***************************************************************************)
(* The client: any call in any order, as long as the text is short.  It    *)
(* gives up once a reader or a source has failed, or an allocation in the  *)
(* middle of a value: all it may still do is finish.                       *)
(***************************************************************************)

Start(op, arg) ==
  /\ Running
  /\ call = NoCall
  /\ broken => op = "finish"
  /\ call' = [NoCall EXCEPT !.op = op, !.arg = arg]
  /\ UNCHANGED <<mode, w, gen, written, got, eof, broken>>

Short == Len(written) <= MaxText
Shorter == Len(written) <= MaxLong

CallShort ==
  \E op \in {"end_object", "end_array", "string_end", "number_end"} : Start(op, <<>>)

CallPlain ==
  Short /\ \E op \in OpeningOps \cup {"number_begin"} : Start(op, <<>>)

CallWithText ==
  /\ Short
  /\ \/ \E k \in Keys : Start("key", k)
     \/ \E s \in Strings : \E op \in {"string", "string_chunk"} : Start(op, s)
     \/ \E n \in Numbers : \E op \in {"number_text", "number_chunk"} : Start(op, n)
     \/ \E t \in Scalars : Start("scalar", t)

CallStreamed ==
  /\ Shorter
  /\ \/ \E r \in Readers : Start("string_reader", r)
     \/ \E v \in Children : Start("child", v)

CallSinkOnly ==
  /\ mode = "sink"
  /\ \/ Start("finish", <<>>)
     \/ \E op \in {"stream_close", "stream_cleanup"} : Start(op, <<>>)
     \/ \E p \in Pieces : Short /\ Start("stream_push", p)
     \/ /\ Shorter
        /\ \/ Start("stream_open", <<>>)
           \/ \E r \in Readers : Start("value_reader", r)
           \/ \E i \in ItemLists : Start("array_items", i)

Client == CallShort \/ CallPlain \/ CallWithText \/ CallStreamed \/ CallSinkOnly

CallStep ==
  \/ OpenPlace \/ OpenEmit \/ OpenBreaks \/ ChildBreaks \/ EndContainer \/ StringEnd
  \/ KeyEnter \/ ValueEnter \/ ChunkEnter \/ NumberBegin \/ NumberChunk \/ NumberEnd
  \/ EventText \/ ReaderOpen \/ ReaderText
  \/ ChildRead \/ ChildEmit \/ ChildSent
  \/ StreamOpen \/ ValueRead \/ StreamPush \/ StreamFeed \/ StreamClose \/ StreamCleanup
  \/ ItemsEnter \/ ItemStart \/ ItemText \/ ItemsEnd \/ Finish

(***************************************************************************)
(* lonejson__writer_generator_read.                                        *)
(***************************************************************************)

ReadStart(cap) ==
  /\ mode = "generator" /\ gen.phase = "idle" /\ ~eof
  /\ gen' = [gen EXCEPT !.phase = "reading", !.cap = cap, !.out = <<>>]
  /\ UNCHANGED <<mode, w, call, written, got, eof, broken>>

ReadFlush_KeepsBlocked(s) == GenFlush(s)

\* The top of the loop: the pending output first.
ReadFlush(s) ==
  LET f == GenFlush(s) IN [f EXCEPT !.blocked = @ /\ f.pending # <<>>]

ReadReturns_AnyOutput(f) == f.pending # <<>> \/ f.out # <<>> \/ f.done

ReadReturns(f) == f.pending # <<>> \/ Len(f.out) >= f.cap \/ f.done

ReadLoop ==
  LET f == IF Len(gen.out) >= gen.cap THEN gen ELSE ReadFlush(gen) IN
  /\ mode = "generator" /\ gen.phase = "reading"
  /\ IF ReadReturns(f)
     THEN /\ gen' = [f EXCEPT !.phase = "idle", !.out = <<>>]
          /\ got' = got \o f.out
          /\ eof' = (f.done /\ f.pending = <<>>)
     ELSE /\ gen' = [f EXCEPT !.phase = "producing"]
          /\ UNCHANGED <<got, eof>>
  /\ UNCHANGED <<mode, w, call, written, broken>>

\* The producer returns OK: the writer is finished.  A refused finish, like
\* an error of the producer, fails the read, and the consumer gives up.
ProducerReturns ==
  /\ mode = "generator" /\ gen.phase = "producing" /\ call = NoCall
  /\ \/ /\ ~FinishRefuses(w)
        /\ w' = [w EXCEPT !.finished = TRUE]
        /\ gen' = [gen EXCEPT !.phase = "reading", !.done = TRUE]
     \/ /\ gen' = [gen EXCEPT !.phase = "failed"]
        /\ UNCHANGED w
  /\ UNCHANGED <<mode, call, written, got, eof, broken>>

GeneratorRead == (\E cap \in Capacities : ReadStart(cap)) \/ ReadLoop \/ ProducerReturns

WriterNext == Client \/ CallStep \/ ChildTurn \/ GeneratorRead

\* The writer alone.
WriterSpec ==
  mode \in {"sink", "generator"} /\ WriterInit /\ [][WriterNext]_writerVars

\* In generator mode each byte a call has emitted is in one place: delivered,
\* in the buffer of the read in progress, or pending (lonejson__writer_
\* generator_sink, _set_pending and _flush_pending).
NothingLost == mode = "generator" => got \o gen.out \o gen.pending = written

\* The consumer's side of a writer behind a generator: a byte pipe.
WriterPipe == INSTANCE BytePipe WITH in <- written, out <- got, closed <- gen.done,
                                ended <- eof, replays <- FALSE

=============================================================================
