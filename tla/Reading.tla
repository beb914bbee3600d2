------------------------------- MODULE Reading -------------------------------
(***************************************************************************)
(* Calls that read one JSON value and act while they read it: the visits,  *)
(* the array rewrite, the value rewrite, and the json_value handle, which  *)
(* keeps a value as compact text or as a source to read it from            *)
(* (src/src/impl/14_json_value_api.h).  The value comes from a buffer, a   *)
(* reader or a file, in pieces of any length; the source may fail, the     *)
(* application may refuse a callback, the sink a write.                    *)
(*                                                                         *)
(* A job is one call with its arguments.                                   *)
(***************************************************************************)
EXTENDS JsonVisit, ArrayRewrite, ValueRewrite, JsonTree

CONSTANTS
  Jobs,         \* the calls
  FreeBytes,    \* the bytes of a document nobody wrote beforehand
  MaxFree,      \* how many of them
  MaxRead,      \* the most bytes a source returns at once
  MaxCalls      \* calls on one json_value handle

ASSUME ReadingAssumption ==
  /\ MaxFree \in Nat /\ MaxRead \in Nat \ {0} /\ MaxCalls \in Nat \ {0}
  /\ PlainCapacity \in Nat \ {0}
  /\ MaxFrames \in Nat \ {0} /\ MaxSegments \in Nat \ {0} /\ MaxParents \in Nat \ {0}

VARIABLES
  job,     \* the running call
  value,   \* the json_value handle
  calls,   \* calls on it so far, or reads of a free document
  src,     \* what the source has not returned yet
  buf,     \* what the cursor has read ahead
  v,       \* the reader of the value
  rec,     \* what an application that records its callbacks, or a sink, has
  rw, vr,  \* the rewriters
  result,  \* "idle", "open" while the call runs, then what it returned
  hurt,    \* history: what went wrong
  ref      \* history: the grammar's view of a free document

readingVars == <<job, value, calls, src, buf, v, rec, rw, vr, result, hurt, ref>>

NoJob == [op |-> "none"]
Op == job.op

\* Nothing a JSON value may hold is over these.
NoLimits == [depth |-> 99, string |-> 99, key |-> 99, number |-> 99, total |-> 0]
Unlimited == 99

NullHandle == [kind |-> "null", text |-> Literals["null"], doc |-> Lit("null")]
NoCapture == [log |-> <<>>, status |-> "OK", last |-> "OK", accept |-> 0,
              truncate |-> FALSE]
NoOptions == [item |-> "none", parents |-> <<>>, append |-> <<>>, reject |-> FALSE]

Idle ==
  /\ job = NoJob /\ src = <<>> /\ buf = <<>> /\ v = VisitStart("visit", NoLimits, FALSE, FALSE)
  /\ rec = NoCapture /\ rw = RwStart(<<>>, NoOptions) /\ vr = VrStart(<<>>, "keep")
  /\ result = "idle" /\ hurt = {} /\ ref = GrammarStart(FALSE)

ReadingInit == Idle /\ value = NullHandle /\ calls = 0

-----------------------------------------------------------------------------
(***************************************************************************)
(* Starting a call.                                                        *)
(***************************************************************************)

\* lonejson__json_cursor_open: a buffer is read in place.
Open(from, text) ==
  /\ buf' = IF from = "buffer" THEN text ELSE <<>>
  /\ src' = IF from = "buffer" THEN <<>> ELSE text

\* The parts of a call that do not concern it.
Plain == /\ rec' = rec /\ hurt' = hurt /\ ref' = ref

\* lonejson__json_visit, lonejson_visit_value_buffer, _reader, _filep, _fd
\* and _path; with paths, the path visitors.
Visit(j) ==
  /\ result = "idle" /\ calls = 0 /\ j.op = "visit"
  /\ job' = j /\ result' = "open"
  /\ Open(j.from, j.text)
  /\ v' = VisitStart("visit", j.limits, FALSE, j.paths)
  /\ Plain /\ UNCHANGED <<value, calls, rw, vr>>

\* The same over bytes chosen one by one.
VisitFree(j) ==
  /\ result = "idle" /\ calls = 0 /\ j.op = "free"
  /\ job' = j /\ result' = "open"
  /\ v' = VisitStart(j.mode, j.limits, FALSE, FALSE)
  /\ Plain /\ UNCHANGED <<value, calls, src, buf, rw, vr>>

\* lonejson_array_rewrite_reader and the entry points around it.
RewriteArrays(j) ==
  LET path == j.path
      status == ParseSelector(path) IN
  /\ result = "idle" /\ calls = 0 /\ j.op = "arrays"
  /\ job' = j /\ result' = IF status = "OK" THEN "open" ELSE status
  /\ Open("reader", j.text)
  /\ v' = VisitStart("visit", j.limits, FALSE, FALSE)
  /\ rw' = RwStart([i \in DOMAIN path |-> SegmentOf(path[i])], j.options)
  /\ Plain /\ UNCHANGED <<value, calls, vr>>

\* lonejson_value_rewrite_reader and the entry points around it.
RewriteValue(j) ==
  LET t == ParseTarget(j.path)
      status == IF t.bad THEN "INVALID_ARGUMENT" ELSE VrOptions(t.segs, j.action) IN
  /\ result = "idle" /\ calls = 0 /\ j.op = "target"
  /\ job' = j /\ result' = IF status = "OK" THEN "open" ELSE status
  /\ Open("reader", j.text)
  /\ v' = VisitStart("visit", j.limits, FALSE, FALSE)
  /\ vr' = VrStart(t.segs, j.action)
  /\ Plain /\ UNCHANGED <<value, calls, rw>>

\* lonejson_json_value_set_buffer begins: the text is made compact in a
\* handle of its own.
SetBuffer(j) ==
  /\ result = "idle" /\ j.op = "set"
  /\ job' = j /\ result' = "open"
  /\ Open("buffer", j.text)
  /\ v' = VisitStart("transcode", NoLimits, FALSE, FALSE)
  /\ Plain /\ UNCHANGED <<value, calls, rw, vr>>

\* lonejson_json_value_set_reader, _file, _fd and _path.
SetSource(j) ==
  /\ result = "idle" /\ j.op = "attach"
  /\ job' = j /\ result' = "OK"
  /\ value' = [kind |-> j.from, text |-> j.text, doc |-> j.tree]
  /\ Plain /\ UNCHANGED <<calls, src, buf, v, rw, vr>>

\* lonejson__json_transcode: what is known to be compact is written as it is.
AtOnce(pretty) == value.kind = "null" \/ (value.kind = "buffer" /\ ~pretty)

WriteWhole(j) ==
  /\ result = "idle" /\ calls > 0 /\ j.op = "write" /\ AtOnce(j.pretty)
  /\ job' = j
  /\ \/ /\ rec' = [rec EXCEPT !.log = value.text] /\ result' = "OK" /\ hurt' = hurt
     \/ /\ rec' = rec /\ result' = "CALLBACK_FAILED" /\ hurt' = {"sink"}
  /\ UNCHANGED <<value, calls, src, buf, v, rw, vr, ref>>

WriteStart(j) ==
  /\ result = "idle" /\ calls > 0 /\ j.op = "write" /\ ~AtOnce(j.pretty)
  /\ job' = j /\ result' = "open"
  /\ Open(value.kind, value.text)
  /\ v' = VisitStart("transcode", NoLimits, j.pretty, FALSE)
  /\ Plain /\ UNCHANGED <<value, calls, rw, vr>>

-----------------------------------------------------------------------------
(***************************************************************************)
(* The application.                                                        *)
(***************************************************************************)

\* A recording visitor, or a sink.
RecEvent(c, e) ==
  LET chunk == e.name \in {"key_chunk", "string_chunk", "number_chunk"} IN
  CASE c.status # "OK" -> c
    [] c.status = "OK" /\ c.accept = 0 -> [c EXCEPT !.status = "CALLBACK_FAILED"]
    [] OTHER -> [c EXCEPT !.accept = @ - 1, !.truncate = FALSE,
                   !.last = IF c.truncate THEN "TRUNCATED" ELSE "OK",
                   !.log = CASE e.name = "emit" -> @ \o e.text
                             [] e.name # "emit" /\ chunk -> @ \o LogText(e.text, e.path)
                             [] OTHER -> Append(@, <<e.name, e.path>>)]

\* The transcoder loses the sink's status after a string or a literal.
Transcoded(w) ==
  IF w.mode = "transcode" /\ rec.log # <<>> /\ Head(rec.log) \notin {"{", "[", "-"} \cup Digits
  THEN "OK" ELSE "last"

\* An item ends in this step.
MayFinish(w) ==
  Op = "arrays" /\ \E i \in DOMAIN w.events :
    w.events[i].name \in {"object_end", "array_end", "string_end", "number_end",
                          "true", "false", "null"}

\* What the application answers to an item.
Acts == {"keep", "drop", "replace", "before", "after", "replace_after", "fail", "invalid"}

\* Items or parents are parsed into maps of the application.
HasMaps(options) == options.item = "map" \/ options.parents # <<>>

\* The answers of the application, its maps and the sink to the callbacks of one step.
Answers(w) ==
  [accept : IF Op \in {"free", "set"} \/ ~job.faulty \/ w.events = <<>>
            THEN {Unlimited} ELSE {Unlimited, 0, 1},
   truncate : IF Op \in {"visit", "arrays"} /\ job.faulty /\ w.events # <<>>
              THEN BOOLEAN ELSE {FALSE},
   cut : IF Op = "arrays" /\ HasMaps(job.options) /\ w.events # <<>> THEN BOOLEAN ELSE {FALSE},
   act : IF MayFinish(w) THEN Acts ELSE {"keep"}]

\* Mutant: what was made of a text that ends badly is kept.
Settle_Partial(status, log) ==
  value' = CASE Op = "set" /\ status # "open" ->
                  [kind |-> "buffer", text |-> log, doc |-> job.tree]
             [] Op = "write" /\ value.kind = "reader" -> [value EXCEPT !.text = src']
             [] OTHER -> value

\* lonejson_json_value_set_buffer ends: the handle is replaced by the compact
\* copy, or left alone.
Settle(status, log) ==
  value' = CASE Op = "set" /\ status \in {"OK", "TRUNCATED"} ->
                  [kind |-> "buffer", text |-> log, doc |-> job.tree]
             [] Op = "write" /\ value.kind = "reader" -> [value EXCEPT !.text = src']
             [] OTHER -> value

\* The callbacks of a step are made and the call goes on, or returns.
Deliver(w, n, fault) ==
  \E a \in Answers(w) :
  \E rec1 \in {IF Op \in {"visit", "set", "write"}
               THEN FoldLeft(RecEvent, [rec EXCEPT !.accept = a.accept,
                                                   !.truncate = a.truncate], w.events)
               ELSE rec},
     rw1 \in {IF Op = "arrays"
              THEN FoldLeft(RwEvent, [rw EXCEPT !.accept = a.accept, !.truncate = a.truncate,
                                                !.cut = a.cut, !.act = a.act], w.events)
              ELSE rw},
     vr1 \in {IF Op = "target" THEN FoldLeft(VrEvent, [vr EXCEPT !.accept = a.accept], w.events)
              ELSE vr} :
    LET refused == CASE Op = "arrays" -> rw1.status
                     [] Op = "target" -> vr1.status
                     [] OTHER -> rec1.status
        ended == CASE w.code # "OK" -> w.code
                   [] w.code = "OK" /\ Op = "arrays" -> RwResult(rw1, "OK")
                   [] w.code = "OK" /\ Op = "target" -> VrResult(vr1, "OK")
                   [] OTHER -> IF Transcoded(w) = "OK" THEN "OK" ELSE rec1.last
        status == CASE refused # "OK" -> refused
                    [] refused = "OK" /\ w.done -> ended
                    [] OTHER -> "open" IN
    /\ v' = [w EXCEPT !.events = <<>>]
    /\ rec' = [rec1 EXCEPT !.accept = 0, !.truncate = FALSE]
    /\ rw' = [rw1 EXCEPT !.accept = 0, !.truncate = FALSE, !.cut = FALSE, !.act = "keep"]
    /\ vr' = [vr1 EXCEPT !.accept = 0]
    /\ result' = status
    /\ hurt' = hurt \cup fault
                 \cup (IF a.accept # Unlimited /\ refused # "OK" THEN {"sink"} ELSE {})
                 \cup (IF a.truncate /\ ~(IF Op = "arrays" THEN rw1 ELSE rec1).truncate
                     THEN {"truncate"} ELSE {})
                 \cup (IF a.cut /\ ~rw1.cut THEN {"truncate"} ELSE {})
    /\ ref' = IF Op = "free" THEN GrammarRun(ref, n) ELSE ref
    /\ Settle(status, rec1.log)
    /\ UNCHANGED <<job, calls>>

-----------------------------------------------------------------------------
(***************************************************************************)
(* Reading.                                                                *)
(***************************************************************************)

\* The bytes before the first that ends a run of plain string bytes.
PlainSpan(s) ==
  CHOOSE n \in 0..Len(s) :
    /\ \A i \in 1..n : s[i] \notin Controls \cup {Quote, Backslash}
    /\ n = Len(s) \/ s[n + 1] \in Controls \cup {Quote, Backslash}

\* lonejson__json_cursor_plain_span and the run it finds.
TakeSpan ==
  /\ result = "open" /\ buf # <<>> /\ v.at = "string" /\ PlainSpan(buf) > 0
  /\ LET n == PlainSpan(buf) IN
     /\ buf' = SubSeq(buf, n + 1, Len(buf)) /\ src' = src
     /\ Deliver(VisitSpan(v, SubSeq(buf, 1, n)), SubSeq(buf, 1, n), {})

\* lonejson__json_cursor_getc, of a byte read ahead.
TakeByte ==
  /\ result = "open" /\ buf # <<>> /\ ~(v.at = "string" /\ PlainSpan(buf) > 0)
  /\ buf' = Tail(buf) /\ src' = src
  /\ Deliver(VisitByte(v, Head(buf)), <<Head(buf)>>, {})

\* lonejson__json_cursor_refill_getc and _refill_source_getc: the first of
\* the bytes read is returned, even inside a string.
Refill ==
  /\ result = "open" /\ buf = <<>> /\ src # <<>>
  /\ \E n \in 1..MaxRead :
       /\ n <= Len(src)
       /\ buf' = SubSeq(src, 2, n) /\ src' = SubSeq(src, n + 1, Len(src))
       /\ Deliver(VisitByte(v, Head(src)), <<Head(src)>>, {})

\* The source of a free document.
RefillFree ==
  /\ result = "open" /\ Op = "free" /\ buf = <<>> /\ calls < MaxFree
  /\ \E c \in FreeBytes[job.alphabet] :
       /\ buf' = Tail(c) /\ src' = src
       /\ LET w == VisitByte(v, Head(c)) IN
          /\ v' = [w EXCEPT !.events = <<>>]
          /\ result' = IF w.done THEN w.code ELSE "open"
          /\ ref' = GrammarRun(ref, <<Head(c)>>)
  /\ calls' = calls + 1
  /\ UNCHANGED <<job, value, rec, rw, vr, hurt>>

\* The source has no more.
Eof ==
  /\ result = "open" /\ buf = <<>> /\ src = <<>>
  /\ UNCHANGED <<buf, src>>
  /\ Deliver(VisitEof(v), <<>>, {})

\* The source fails, or a reader would block: both end the call.
SourceFails ==
  /\ result = "open" /\ buf = <<>> /\ Op \notin {"free", "set"} /\ job.faulty
  /\ (Op = "visit" => job.from # "buffer") /\ (Op = "write" => value.kind # "buffer")
  /\ LET file == IF Op = "visit" THEN job.from = "file" ELSE Op = "write" /\ value.kind = "file" IN
     /\ UNCHANGED <<buf, src>>
     /\ Deliver(ReadFails(v, IF file THEN "IO_ERROR" ELSE "CALLBACK_FAILED"), <<>>, {"read"})

\* A reader returns nothing and says nothing: that is taken for the end.
ReaderStalls ==
  /\ result = "open" /\ buf = <<>> /\ src # <<>> /\ Op \in {"visit", "arrays", "target"}
  /\ job.faulty /\ (Op = "visit" => job.from = "reader")
  /\ UNCHANGED <<buf, src>>
  /\ Deliver(VisitEof(v), <<>>, {"stall"})

\* The call has returned.  A handle is used again, then cleaned up.
Return ==
  /\ result \notin {"idle", "open"}
  /\ job' = NoJob /\ src' = <<>> /\ buf' = <<>> /\ rec' = NoCapture /\ result' = "idle"
  /\ v' = VisitStart("visit", NoLimits, FALSE, FALSE)
  /\ rw' = RwStart(<<>>, NoOptions) /\ vr' = VrStart(<<>>, "keep")
  /\ hurt' = {} /\ ref' = GrammarStart(FALSE)
  /\ LET n == (IF Op \in {"set", "attach", "write"} THEN calls + 1 ELSE 0) % MaxCalls IN
     calls' = n /\ value' = IF n = 0 THEN NullHandle ELSE value

ReadingNext ==
  \/ result = "idle" /\ \E j \in Jobs :
       \/ Visit(j) \/ VisitFree(j) \/ RewriteArrays(j) \/ RewriteValue(j)
       \/ SetBuffer(j) \/ SetSource(j) \/ WriteWhole(j) \/ WriteStart(j)
  \/ TakeSpan \/ TakeByte \/ Refill \/ RefillFree \/ Eof \/ SourceFails \/ ReaderStalls
  \/ Return

-----------------------------------------------------------------------------
(***************************************************************************)
(* Properties.                                                             *)
(***************************************************************************)

Returned == result \notin {"idle", "open"}
Accepted == result \in {"OK", "TRUNCATED"}

\* Some part of the document is larger than the limits allow.
TooLarge(j) ==
  \/ Depth(j.tree) > j.limits.depth
  \/ Longest(j.tree, "string") > j.limits.string
  \/ Longest(j.tree, "number") > j.limits.number
  \/ LongestKey(j.tree) > j.limits.key
  \/ j.limits.total # 0 /\ Len(j.text) > j.limits.total

\* A failure that is nobody's fault but the environment's.
Explained ==
  /\ result \in {"CALLBACK_FAILED", "IO_ERROR"} => hurt \cap {"read", "sink"} # {}
  /\ result = "OVERFLOW" => TooLarge(job)
  /\ result = "INVALID_JSON" =>
       hurt \cap {"read", "stall"} # {} \/ (job.limits.total # 0 /\ Len(job.text) > job.limits.total)

\* What the callbacks of a visit must be.
VisitLog == EventLog(job.tree, <<>>, job.paths)

\* A visitor sees a given document and nothing else: however the source cuts the
\* text, its callbacks are those of the document in order, each with the path
\* of its value, a visit that succeeds made all of them, within the limits,
\* and a visit that fails has a reason outside the reader.
GivenSeen ==
  Op = "visit" /\ Returned =>
    /\ "stall" \notin hurt =>
         /\ IsPrefix(rec.log, VisitLog)
         /\ Accepted => rec.log = VisitLog /\ ~TooLarge(job)
    /\ Explained

\* Of bytes nobody chose the visitor and the transcoder accept the JSON texts
\* and no others; the visitor refuses surrogates that are not paired, which
\* the transcoder copies.
FreeExact ==
  Op = "free" =>
    /\ result = "OK" => Complete(ref) /\ (job.mode = "visit" => ref.paired)
    /\ result = "INVALID_JSON" =>
         ~Alive(ref) \/ ~Complete(ref) \/ (job.mode = "visit" /\ ~ref.paired)
    /\ result = "open" /\ v.at # "number" => Alive(ref)

\* The visitor reads what is there and accepts what is JSON.
VisitExact == GivenSeen /\ FreeExact

\* The text a json_value handle is written as.
HandleText(doc, pretty) ==
  IF pretty THEN PrettyText(doc, 0) ELSE SourceText(doc, <<>>)

\* A handle is replaced as a whole or not at all, by valid JSON only; what is
\* written from it is the document it holds, whatever source it reads.
HandleExact ==
  /\ value.kind = "buffer" => value.text = HandleText(value.doc, FALSE)
  /\ Op = "set" /\ Returned => (Accepted <=> job.good)
  /\ Op = "write" =>
       /\ Accepted => rec.log = HandleText(value.doc, job.pretty)
       /\ calls = 1 => IsPrefix(rec.log, HandleText(value.doc, job.pretty))

\* What an array rewrite must write, for the answers it got.
How(options) == [asked |-> options.item # "none", added |-> options.append,
                 new |-> Replacement, extra |-> Insertion, anywhere |-> TRUE]
RewriteRef == ArraysRewritten(job.tree, rw.segs, How(job.options), rw.acts)

\* A mapped item that is no object, a name that repeats.
Unmappable == job.options.item = "map"

\* The parents the application asked for, each whole and as it was.
ParentsSeen(parents) ==
  LET asked(p) == \E i \in DOMAIN job.options.parents : job.options.parents[i] = p.segment
      index(p) == CHOOSE i \in DOMAIN job.options.parents :
                    job.options.parents[i] = p.segment
      named == SelectSeq(parents, asked) IN
  [i \in DOMAIN named |-> [parent |-> index(named[i]), text |-> named[i].text]]

\* An array rewrite that succeeds wrote the document with every item of the
\* selected arrays replaced by what the application answered, commas and all,
\* and nothing else touched; every parent it asked for saw the whole object
\* as it was, and was complete up to the item when the application was asked
\* about one; truncation is reported exactly when the sink or a map reported
\* it.  The selected arrays are those the code selects: where the path cannot
\* go on, below a key that does not match or in an array that is no fanout, it
\* is searched again from the segment reached.
RewriteExact ==
  Op = "arrays" /\ Returned =>
    /\ Accepted =>
         /\ job.legal /\ RewriteRef.fits /\ RewriteRef.arrays > 0
         /\ rw.out = RewriteRef.text /\ RewriteRef.acts = <<>>
         /\ rw.parsed = ParentsSeen(RewriteRef.parents) /\ rw.inContext
         /\ result = "TRUNCATED" <=> "truncate" \in hurt
    /\ result \in {"CALLBACK_FAILED", "INVALID_JSON"} =>
         hurt # {} \/ (rw.acts # <<>> /\ Last(rw.acts) = "fail")
    /\ result = "INVALID_ARGUMENT" =>
         ~job.legal \/ (rw.acts # <<>> /\ Last(rw.acts) = "invalid")
    /\ result = "TYPE_MISMATCH" =>
         Unmappable \/ LET keep == ArraysRewritten(job.tree, rw.segs,
                                     [How(job.options) EXCEPT !.asked = FALSE], <<>>) IN
                       ~keep.fits \/ keep.arrays = 0
    /\ result = "OVERFLOW" => Depth(job.tree) > MaxFrames \/ Len(job.path) > MaxSegments
    /\ result = "DUPLICATE_FIELD" => job.options.reject /\ job.repeats
    /\ Accepted /\ job.options.reject => ~job.repeats

\* Every array rewritten is one the selector names from the root, key by key,
\* through arrays only at `[]`: what README.md:786 says of selectors.
SelectorExact ==
  Op = "arrays" /\ Returned /\ Accepted =>
    rw.out = ArraysRewritten(job.tree, rw.segs, [How(job.options) EXCEPT !.anywhere = FALSE],
                             rw.acts).text

\* What a value rewrite must do.
Targets == ValueAt(job.tree, vr.segs)
Reachable ==
  \/ job.action = "keep" \/ Targets # {}
  \/ job.action \in {"replace", "replace_with"} /\ Creatable(job.tree, vr.segs)
WantedCalls == CallsOf(Head(ValueRewritten(job.tree, vr.segs, job.action)))

\* The old value the application is shown.
OldSeen ==
  LET t == CHOOSE x \in Targets : TRUE
      type == IF t.kind \in {"true", "false"} THEN "bool" ELSE t.kind IN
  IF Targets = {} THEN [old |-> NoOld, log |-> <<>>]
  ELSE [old |-> [present |-> TRUE, type |-> type,
                 number |-> IF type = "number" THEN t.src ELSE <<>>,
                 boolean |-> IF type = "bool" THEN t.kind ELSE "none"],
        log |-> EventLog(t, <<>>, FALSE)]

\* A value rewrite writes the document with the value the path names kept,
\* dropped or replaced, or made where it was missing, and every other value
\* as it was; until it fails it has written a beginning of that; the
\* application is asked once, when it has seen all of the old value.
ValueRewriteExact ==
  Op = "target" =>
    /\ result = "INVALID_ARGUMENT" <=> ~job.legal
    /\ job.legal /\ Reachable => IsPrefix(vr.calls, WantedCalls)
    /\ result = "OK" =>
         /\ Reachable /\ vr.calls = WantedCalls
         /\ vr.asked = IF job.action = "replace_with" THEN <<OldSeen>> ELSE <<>>
    /\ result = "TYPE_MISMATCH" => ~Reachable
    /\ result \in {"CALLBACK_FAILED", "INVALID_JSON"} => hurt # {}

=============================================================================
