------------------------------- MODULE Streams -------------------------------
(***************************************************************************)
(* Array streams and object streams in use.  The source gives the text in  *)
(* pieces of any length, would block, fails or ends anywhere; a pushing    *)
(* application gives it in pieces of its own.  The application calls again *)
(* after every answer, with any destination, and may refuse what it is     *)
(* given.                                                                  *)
(*                                                                         *)
(* A task is a stream over one text: op is "array" (pulled), "push" (an    *)
(* array stream that is fed), "curl" (one that curl feeds), "loose" (an    *)
(* array stream over bytes nobody wrote beforehand) or "objects".          *)
(***************************************************************************)
EXTENDS ArrayStream, ObjectStream, JsonTree

CONSTANTS
  Tasks,         \* the streams
  LooseTokens,   \* what a text nobody wrote is made of
  MaxLoose,      \* how many of them
  MaxPiece       \* the most bytes a source returns, or a push passes, at once

ASSUME StreamsAssumption ==
  /\ MaxLoose \in Nat /\ MaxPiece \in Nat \ {0} /\ FieldBytes \in Nat

VARIABLES
  task,    \* the stream that is open
  stream,  \* its state
  rest,    \* the text not yet read
  ahead,   \* io_buffer
  ended,   \* push_eof: finish was called; the source has ended
  answer,  \* "closed", "running" during a call, or what the last call returned
  got,     \* history: what the application was handed
  harm,    \* history: what went wrong
  loose,   \* the tokens of a text nobody wrote
  seen     \* history: the grammar's view of it

streamVars == <<task, stream, rest, ahead, ended, answer, got, harm, loose, seen>>

NoTask == [op |-> "none"]
Objects == task.op = "objects"
Curl == task.op = "curl"
Fed == task.op = "push" \/ Curl
Ready == answer \notin {"closed", "running", "refused"}

StreamsInit ==
  /\ task = NoTask /\ stream = NoTask /\ rest = <<>> /\ ahead = <<>>
  /\ ended = FALSE /\ answer = "closed" /\ got = <<>> /\ harm = {}
  /\ loose = 0 /\ seen = GrammarStart(FALSE)

\* The stream of a task, at the beginning of its text.
Begin(t, state, status) ==
  /\ task' = t /\ stream' = state /\ answer' = status /\ rest' = t.text
  /\ ahead' = <<>> /\ ended' = FALSE /\ got' = <<>> /\ harm' = {}
  /\ UNCHANGED <<loose, seen>>

\* lonejson__array_stream_open_common: a path of more than one segment is
\* refused.
ArrayStatus(t) ==
  IF \E i \in DOMAIN t.path : t.path[i] = "." THEN "refused" ELSE "opened"

\* lonejson_array_stream_open_reader, _filep, _fd, _path and _push.
OpenArray(t) ==
  /\ answer = "closed" /\ t.op \in {"array", "push", "loose"}
  /\ Begin(t, AsStart(t.path, t.reject, t.limits), ArrayStatus(t))

\* lonejson_stream_open_reader, _filep, _fd and _path.
OpenObjects(t) ==
  /\ answer = "closed" /\ t.op = "objects"
  /\ Begin(t, OsStart(t.limits), "opened")

\* lonejson_curl_array_parse_init, _string_array_ and _string_items_: on a
\* context that is in use it cleans up first, whatever the transfer was doing.
CurlInit(t) ==
  /\ t.op = "curl"
  /\ answer = "closed" \/ (Curl /\ (Ready \/ answer = "refused"))
  /\ Begin(t, AsStart(t.path, t.reject, t.limits), ArrayStatus(t))

\* lonejson_array_stream_close, lonejson_stream_close and the cleanup of the
\* curl adapters, which may come in the middle of a transfer.
CloseStream ==
  /\ \/ answer \in {"refused", "EOF", "ERROR"}
     \/ Fed /\ Ready /\ (Curl \/ stream.state \in {"done", "error"})
  /\ task' = NoTask /\ stream' = NoTask /\ rest' = <<>> /\ ahead' = <<>>
  /\ ended' = FALSE /\ answer' = "closed" /\ got' = <<>> /\ harm' = {}
  /\ loose' = 0 /\ seen' = GrammarStart(FALSE)

-----------------------------------------------------------------------------
(***************************************************************************)
(* Calls.                                                                  *)
(***************************************************************************)

\* The destination changes while an item may be in progress.
Switched(dst) ==
  IF answer \in {"WOULD_BLOCK", "OK", "TRUNCATED"} /\ stream.state # "done"
     /\ stream.arg # dst THEN {"switched"} ELSE {}

\* lonejson_array_stream_next, _next_value and next_sink.
NextItem(dst) ==
  /\ Ready /\ ~Fed /\ ~Objects
  /\ stream' = AsCall(stream, dst)
  /\ answer' = IF AsRuns(stream') THEN "running" ELSE stream'.result
  /\ harm' = harm \cup Switched(dst)
  /\ UNCHANGED <<task, rest, ahead, ended, got, loose, seen>>

\* lonejson_stream_next.
NextObject(dst) ==
  /\ Ready /\ Objects
  /\ stream' = OsCall(stream, dst)
  /\ answer' = IF stream'.result = "run" THEN "running" ELSE stream'.result
  /\ harm' = harm \cup (IF stream'.result = "run" THEN {} ELSE {"switched"})
  /\ UNCHANGED <<task, rest, ahead, ended, got, loose, seen>>

\* The checks of lonejson__array_stream_push_common and _push_string_common:
\* a finished stream refuses more, a failed one repeats its error.
PushCall(dst, more) ==
  /\ stream' = IF stream.state = "done" THEN stream ELSE AsCall(stream, dst)
  /\ answer' = CASE stream.state = "done" -> "INVALID_ARGUMENT"
                 [] stream.state # "done" /\ AsRuns(stream') -> "running"
                 [] OTHER -> "ERROR"
  /\ harm' = harm \cup Switched(dst) \cup more

\* The next piece of the text is pushed.
PushPiece(dst) ==
  /\ rest # <<>>
  /\ \E n \in 1..MaxPiece :
       /\ n <= Len(rest)
       /\ PushCall(dst, {})
       /\ ahead' = IF answer' = "running" THEN SubSeq(rest, 1, n) ELSE <<>>
       /\ rest' = SubSeq(rest, n + 1, Len(rest))
  /\ UNCHANGED <<task, ended, got, loose, seen>>

\* lonejson_array_stream_push, _push_string and _push_string_items.
Push(dst) == Ready /\ Fed /\ ~Curl /\ PushPiece(dst)

\* What the write callbacks report as taken: a cut field does not stop a
\* transfer of mapped items.
ArrayTakes(status) == status \in {"opened", "OK", "TRUNCATED"}
StringTakes(status) == status \in {"opened", "OK"}

\* lonejson_curl_array_write_callback, _string_array_ and _string_items_:
\* curl goes on as long as each piece was taken.
CurlWrite(dst) ==
  /\ Ready /\ Curl
  /\ IF dst \in Mapped THEN ArrayTakes(answer) ELSE StringTakes(answer)
  /\ PushPiece(dst)

\* What is missing when the text ends here.
Cut == IF \E i \in DOMAIN rest : rest[i] \notin Spaces THEN {"cut"} ELSE {}

\* lonejson_array_stream_finish, _finish_string and _finish_string_items.
Finish(dst) ==
  /\ Ready /\ Fed /\ (rest # <<>> => task.faulty \/ Curl)
  /\ PushCall(dst, Cut)
  /\ rest' = <<>> /\ ended' = TRUE
  /\ UNCHANGED <<task, ahead, got, loose, seen>>

-----------------------------------------------------------------------------
(***************************************************************************)
(* Items and objects.                                                      *)
(***************************************************************************)

Gets(dst, text) == got' = Append(got, [dst |-> dst, text |-> text])

\* An item is ready.  A pulling application takes it; the item of next_value
\* becomes a json_value, which may fail; a sink starts the next item.
HandItem(s) ==
  \/ /\ Gets(s.arg, s.holds[s.arg])
     /\ stream' = IF s.arg = "sink" THEN [s EXCEPT !.holds["sink"] = <<>>] ELSE s
     /\ answer' = "ITEM" /\ harm' = harm
  \/ /\ s.arg = "item" /\ task.faulty
     /\ stream' = AsFail(s, "ALLOCATION_FAILED")
     /\ answer' = "ERROR" /\ harm' = harm \cup {"memory"} /\ got' = got

\* lonejson__array_stream_note_truncation.
NoteTruncation(s) == [s EXCEPT !.pushTruncated = @ \/ s.truncated]

\* lonejson__array_stream_push_invoke and _string_finish_item: the callback
\* takes the item and the stream goes on, or refuses and the stream fails.
PushItem(s) ==
  \/ /\ Gets(s.arg, s.holds[s.arg])
     /\ stream' = LET t == IF s.arg \in Mapped THEN NoteTruncation(s)
                           ELSE [s EXCEPT !.stringSeen = FALSE] IN
                  [AsCall(t, s.arg) EXCEPT !.holds[s.arg] = <<>>]
     /\ answer' = "running" /\ harm' = harm
  \/ /\ task.faulty
     /\ stream' = AsFail(s, "CALLBACK_FAILED")
     /\ answer' = "ERROR" /\ harm' = harm \cup {"refused"} /\ got' = got

\* The state of an array stream after a byte, or at the end.
SettleItem(s) ==
  CASE s.result = "ITEM" -> IF Fed THEN PushItem(s) ELSE HandItem(s)
    [] s.result = "run"  -> /\ stream' = s /\ answer' = "running"
                            /\ UNCHANGED <<got, harm>>
    [] OTHER -> /\ stream' = s
                /\ answer' = IF Fed /\ s.result = "EOF"
                             THEN (IF s.arg \in Mapped /\ s.pushTruncated
                                   THEN "TRUNCATED" ELSE "OK")
                             ELSE s.result
                /\ harm' = harm \cup (IF s.code = "CALLBACK_FAILED" THEN {"refused"} ELSE {})
                /\ got' = got

\* The same of an object stream.
SettleObject(s) ==
  /\ stream' = s
  /\ answer' = IF s.result = "run" THEN "running" ELSE s.result
  /\ IF s.result = "OBJECT"
     THEN LET dst == stream.dst IN Gets(dst, s.holds[dst]) ELSE got' = got
  /\ harm' = harm \cup (IF s.result = "ERROR" /\ s.code \notin {"IO_ERROR"}
                        THEN {"parse"} ELSE {})

-----------------------------------------------------------------------------
(***************************************************************************)
(* Reading.                                                                *)
(***************************************************************************)

\* The next byte: the one pushed back, or the first of the buffer.
TakeItemByte ==
  /\ answer = "running" /\ ~Objects /\ (stream.back # <<>> \/ ahead # <<>>)
  /\ \E refuse \in BOOLEAN :
       /\ refuse => task.faulty /\ stream.phase = "item" /\ stream.arg \in {"sink", "string"}
       /\ LET pushed == stream.back # <<>>
              c == IF pushed THEN Head(stream.back) ELSE Head(ahead)
              s == [stream EXCEPT !.back = <<>>, !.refuse = refuse] IN
          /\ ahead' = IF pushed THEN ahead ELSE Tail(ahead)
          /\ SettleItem([AsByte(s, c) EXCEPT !.refuse = FALSE])
  /\ UNCHANGED <<task, rest, ended, loose, seen>>

TakeObjectByte ==
  /\ answer = "running" /\ Objects /\ ahead # <<>>
  /\ \E s \in {OsByte(stream, Head(ahead))} :
     /\ ahead' = IF s.taken THEN Tail(ahead) ELSE ahead
     /\ SettleObject(s)
  /\ UNCHANGED <<task, rest, ended, loose, seen>>

Exhausted ==
  answer = "running" /\ ahead = <<>> /\ (~Objects => stream.back = <<>>)

\* lonejson__array_stream_read and lonejson__stream_read return bytes.
Fill ==
  /\ Exhausted /\ ~Fed /\ rest # <<>> /\ ~ended
  /\ \E n \in 1..MaxPiece :
       /\ n <= Len(rest)
       /\ ahead' = SubSeq(rest, 1, n) /\ rest' = SubSeq(rest, n + 1, Len(rest))
  /\ UNCHANGED <<task, stream, ended, answer, got, harm, loose, seen>>

FillLoose ==
  /\ Exhausted /\ task.op = "loose" /\ ~ended /\ loose < MaxLoose
  /\ \E t \in LooseTokens : ahead' = t /\ seen' = GrammarRun(seen, t)
  /\ loose' = loose + 1
  /\ UNCHANGED <<task, stream, rest, ended, answer, got, harm>>

\* A source would block.
Block ==
  /\ Exhausted /\ ~Fed /\ task.faulty /\ ~ended
  /\ answer' = "WOULD_BLOCK"
  /\ UNCHANGED <<task, stream, rest, ahead, ended, got, harm, loose, seen>>

\* A push has nothing left: next_raw would block, the push returns.
PushReturns ==
  /\ Exhausted /\ Fed /\ ~ended
  /\ answer' = IF stream.arg \in Mapped /\ stream.pushTruncated THEN "TRUNCATED" ELSE "OK"
  /\ UNCHANGED <<task, stream, rest, ahead, ended, got, harm, loose, seen>>

\* A read fails: an array stream stays failed, an object stream can go on.
ReadError ==
  /\ Exhausted /\ ~Fed /\ task.faulty
  /\ stream' = IF Objects THEN OsReadError(stream) ELSE AsFail(stream, "IO_ERROR")
  /\ answer' = "ERROR" /\ harm' = harm \cup {"read"}
  /\ UNCHANGED <<task, rest, ahead, ended, got, loose, seen>>

\* The source ends before the text does.
CutShort ==
  /\ Exhausted /\ ~Fed /\ ~ended /\ task.faulty /\ rest # <<>>
  /\ rest' = <<>> /\ ended' = TRUE /\ harm' = harm \cup Cut
  /\ UNCHANGED <<task, stream, ahead, answer, got, loose, seen>>

EndOfInput ==
  /\ Exhausted /\ (Fed => ended) /\ rest = <<>>
  /\ ended' = TRUE
  /\ IF Objects THEN SettleObject(OsEof(stream)) ELSE SettleItem(AsEof(stream))
  /\ UNCHANGED <<task, rest, ahead, loose, seen>>

StreamsNext ==
  \/ (answer = "closed" \/ Curl) /\ \E t \in Tasks : OpenArray(t) \/ OpenObjects(t) \/ CurlInit(t)
  \/ \E dst \in IF task.op = "none" THEN {} ELSE task.dsts :
       NextItem(dst) \/ NextObject(dst) \/ Push(dst) \/ CurlWrite(dst) \/ Finish(dst)
  \/ TakeItemByte \/ TakeObjectByte \/ Fill \/ FillLoose \/ Block \/ PushReturns
  \/ ReadError \/ CutShort \/ EndOfInput \/ CloseStream

-----------------------------------------------------------------------------
(***************************************************************************)
(* Properties.                                                             *)
(***************************************************************************)

\* The arrays a path selects: the root, or the values of the root members of
\* that name.
SelectedValues(t) ==
  CASE t.path = <<>> -> <<t.tree>>
    [] t.path # <<>> /\ t.tree.kind = "object" ->
         LET Named(m) == m.key.dec = t.path
             found == SelectSeq(t.tree.members, Named) IN
         [i \in DOMAIN found |-> found[i].val]
    [] OTHER -> <<>>

\* Their items, up to the first selected value that is no array.
SelectedItems(t) ==
  LET vals == SelectedValues(t) IN
  Flat([i \in DOMAIN vals |->
          IF \A j \in 1..i : vals[j].kind = "array" THEN vals[i].items ELSE <<>>])

\* The document is one the stream should read to its end.
Selectable(t) ==
  LET vals == SelectedValues(t) IN
  /\ t.good /\ vals # <<>>
  /\ \A i \in DOMAIN vals : vals[i].kind = "array"
  /\ t.reject => ~t.repeats

\* An item fits the structure or the handler it goes to.
FitsDestination(item, dst, limits) ==
  CASE dst \in Mapped  -> item.kind = "object"
    [] dst = "string"  -> item.kind = "string" /\ Len(item.dec) <= limits.string
    [] OTHER           -> TRUE

ItemText(item, dst, gap) == IF dst = "string" THEN item.dec ELSE SourceText(item, gap)

\* The application has a beginning of the selected items, in order, each
\* whole, none twice, in the destination of the call that answered: however
\* the text was cut, wherever the stream stopped and went on.
ItemsInOrder(items) ==
  /\ Len(got) <= Len(items)
  /\ \A i \in DOMAIN got :
       /\ FitsDestination(items[i], got[i].dst, task.limits)
       /\ got[i].text = ItemText(items[i], got[i].dst, task.gap)

\* Of a text that was given, an array stream hands out the items of the
\* selected arrays, says that it is done only when it has handed out all of
\* them and the whole document is sound, and fails only for a reason: the
\* document, the source, the application.  A push reports truncation exactly
\* when an item it handed out was truncated, now or earlier; a transfer that
\* curl was told to go on with has lost nothing of what it brought so far.
GivenExact ==
  task.op \in {"array", "push", "curl"} /\ answer # "refused" =>
    LET items == SelectedItems(task) IN
    /\ ItemsInOrder(items)
    /\ stream.state = "done" =>
         Selectable(task) /\ Len(got) = Len(items) /\ "cut" \notin harm
    /\ stream.state = "error" =>
         \/ harm # {} \/ ~Selectable(task)
         \/ \E dst \in task.dsts : ~FitsDestination(items[Len(got) + 1], dst, task.limits)
    /\ answer \in {"OK", "TRUNCATED"} /\ stream.arg \in Mapped =>
         (answer = "TRUNCATED" <=>
            \E i \in DOMAIN got : got[i].dst \in Mapped
                                 /\ Longest(items[i], "string") > FieldBytes)

\* Of texts nobody wrote an array stream reads those to the end that are
\* JSON, and gives up as soon as no text can follow that makes them so.
LooseExact ==
  task.op = "loose" /\ harm = {} =>
    /\ stream.state = "done" => Complete(seen)
    /\ stream.code = "INVALID_JSON" => ~Alive(seen) \/ (ended /\ ~Complete(seen))
    /\ Exhausted /\ stream.parser.at # "number" => Alive(seen)

\* An array stream hands out exactly the items of the selected arrays, and
\* accepts exactly the texts that are JSON.
ItemsExact == GivenExact /\ LooseExact

\* An object stream hands out the objects of the input in order, each whole
\* and once, also after a call that would block or a read that failed; it
\* answers that there is no more only when there is none.
ObjectsExact ==
  task.op = "objects" =>
    LET texts == task.objects IN
    /\ \A i \in DOMAIN got : i <= Len(texts) => got[i].text = texts[i]
    /\ "parse" \notin harm => Len(got) <= Len(texts)
    /\ "parse" \in harm => ~task.good \/ "cut" \in harm
    /\ answer = "EOF" /\ harm \cap {"parse", "cut"} = {} =>
         Len(got) = Len(texts) /\ task.good

=============================================================================
