---------------------------- MODULE ArrayRewrite ----------------------------
(***************************************************************************)
(* The streaming array rewriter (src/src/impl/37_array_rewrite_api.h): a   *)
(* visitor that copies a document to a sink, captures each item of the     *)
(* arrays a selector names, asks the application what to do with it, and   *)
(* writes the answer in its place.  Objects an explicit fanout `name[]`    *)
(* goes through are parsed into the application's parent destinations as   *)
(* they pass.  The module defines the rewriter's state, a record, and what *)
(* each callback of the visitor does to it; an operation that follows a    *)
(* failed one does nothing, as the code returns.                           *)
(*                                                                         *)
(* act: what the application answers for the item that ends in this step.  *)
(* accept: how many more writes the sink takes.  truncate: it reports      *)
(* truncation of the next one.  cut: a map has a field too short for what  *)
(* it is given next, and its parser reports truncation.                    *)
(***************************************************************************)
EXTENDS JsonText, FiniteSets

CONSTANTS
  MaxFrames,      \* the length of frames[]
  MaxSegments,    \* the length of segments[]
  MaxParents      \* the length of parent_runtime[]

NoParent == 0

\* A frame, as lonejson__array_rewrite_push_frame clears it.
RwFrame(kind, path, selected, fanout) ==
  [kind |-> kind, count |-> 0, path |-> path, selected |-> selected,
   fanout |-> fanout, key |-> <<>>, parent |-> NoParent]

\* lonejson__array_rewrite_reader_common before the visit.  options: item
\* ("none", "value", "map"), parents (their segments), append (the texts the
\* append callback emits), reject (reject_duplicate_keys).
RwStart(segs, options) ==
  [segs |-> segs, options |-> options, frames |-> <<>>, capture |-> <<>>,
   capturing |-> FALSE, depth |-> 0, rewritten |-> 0, selected |-> 0,
   truncated |-> FALSE, keys |-> <<>>, name |-> <<>>,
   slots |-> [i \in 1..MaxParents |-> [parent |-> NoParent, fed |-> <<>>]],
   out |-> <<>>, match |-> "none", status |-> "OK", accept |-> 0, truncate |-> FALSE,
   cut |-> FALSE, act |-> "keep", acts |-> <<>>, parsed |-> <<>>, inContext |-> TRUE]

RwOk(r) == r.status = "OK"
RwFail(r, code) == IF RwOk(r) THEN [r EXCEPT !.status = code] ELSE r
RwTop(r) == Last(r.frames)
RwSetTop(r, f) == [r EXCEPT !.frames[Len(r.frames)] = f]

-----------------------------------------------------------------------------
(***************************************************************************)
(* The selector.                                                           *)
(***************************************************************************)

\* lonejson__array_rewrite_parse_selector, of the text between the dots.
SegmentOf(text) ==
  LET n == Len(text)
      fanout == n >= 2 /\ text[n - 1] = "[" /\ text[n] = "]" IN
  [key |-> IF fanout THEN SubSeq(text, 1, n - 2) ELSE text, fanout |-> fanout]

ParseSelector(texts) ==
  LET segs == [i \in DOMAIN texts |-> SegmentOf(texts[i])]
      bad(i) == segs[i].key = <<>> IN
  CASE \E i \in DOMAIN segs : bad(i) /\ i <= MaxSegments -> "INVALID_ARGUMENT"
    [] (~\E i \in DOMAIN segs : bad(i) /\ i <= MaxSegments) /\ Len(segs) > MaxSegments ->
         "OVERFLOW"
    [] OTHER -> IF segs # <<>> /\ Last(segs).fanout THEN "INVALID_ARGUMENT" ELSE "OK"

-----------------------------------------------------------------------------
(***************************************************************************)
(* Output.                                                                 *)
(***************************************************************************)

\* lonejson__emit to the sink, and lonejson__array_rewrite_note_truncation.
RwWrite(r, text) ==
  CASE ~RwOk(r) \/ text = <<>> -> r
    [] RwOk(r) /\ text # <<>> /\ r.accept = 0 -> RwFail(r, "CALLBACK_FAILED")
    [] OTHER -> [r EXCEPT !.out = @ \o text, !.accept = @ - 1, !.truncate = FALSE,
                          !.truncated = @ \/ r.truncate]

\* The truncation of a map parse is noted.
NoteCut(r) == [r EXCEPT !.truncated = @ \/ r.cut, !.cut = FALSE]

\* lonejson__array_rewrite_feed_parents.
FeedParents(r, text) ==
  LET s == IF \E i \in DOMAIN r.slots : r.slots[i].parent # NoParent THEN NoteCut(r) ELSE r IN
  IF ~RwOk(r) THEN r
  ELSE [s EXCEPT !.slots = [i \in DOMAIN @ |->
          IF @[i].parent = NoParent THEN @[i] ELSE [@[i] EXCEPT !.fed = @ \o text]]]

\* lonejson__array_rewrite_emit: into the capture, or out.
RwPlace(s, text) ==
  IF RwOk(s) /\ s.capturing THEN [s EXCEPT !.capture = @ \o text] ELSE RwWrite(s, text)

RwEmit(r, text) == RwPlace(FeedParents(r, text), text)

\* An item was written.
Rewrote(s) == IF RwOk(s) THEN [s EXCEPT !.rewritten = @ + 1] ELSE s

\* Mutant: the comma follows the number of items read.
EmitSource_CommaByRead(r, text) ==
  IF ~RwOk(r) THEN r
  ELSE Rewrote(RwWrite(RwWrite(r, IF RwTop(r).count > 1 THEN <<",">> ELSE <<>>), text))

\* lonejson__array_rewrite_emit_source: straight to the sink; the parents
\* have seen the original.
EmitSource(r, text) ==
  IF ~RwOk(r) THEN r
  ELSE Rewrote(RwWrite(RwWrite(r, IF r.rewritten # 0 THEN <<",">> ELSE <<>>), text))

\* lonejson__array_rewrite_emit_original_item.
EmitOriginal(r) == EmitSource(r, r.capture)

-----------------------------------------------------------------------------
(***************************************************************************)
(* Parents.                                                                *)
(***************************************************************************)

\* The parent destination of fanout segment i: the one with its name, the
\* n-th of them for the n-th fanout of that name; NoParent: none.
ParentFor(r, i) ==
  LET key == r.segs[i].key
      nth == Cardinality({j \in 1..(i - 1) : r.segs[j].fanout /\ r.segs[j].key = key}) + 1
      named == {j \in DOMAIN r.options.parents : r.options.parents[j] = key} IN
  IF Cardinality(named) < nth THEN NoParent
  ELSE CHOOSE j \in named : Cardinality({k \in named : k <= j}) = nth

\* lonejson__array_rewrite_begin_parent: r.match becomes the slot, NoParent
\* if the application asked for no such parent.
BeginParent(r, i) ==
  LET parent == ParentFor(r, i)
      free == {j \in DOMAIN r.slots : r.slots[j].parent = NoParent}
      slot == CHOOSE j \in free : \A k \in free : j <= k IN
  CASE ~RwOk(r) \/ parent = NoParent -> [r |-> r, slot |-> NoParent]
    [] RwOk(r) /\ parent # NoParent /\ free = {} ->
         [r |-> RwFail(r, "OVERFLOW"), slot |-> NoParent]
    [] OTHER -> [r |-> [r EXCEPT !.slots[slot] = [parent |-> parent, fed |-> <<>>]],
                 slot |-> slot]

\* lonejson__array_rewrite_end_parent: the parser must have seen a whole
\* object.  parsed is what each parent destination was given in the end.
EndParent(r, slot) ==
  LET s == r.slots[slot] IN
  CASE ~RwOk(r) \/ slot = NoParent -> r
    [] RwOk(r) /\ slot # NoParent /\ ~Complete(GrammarRun(GrammarStart(FALSE), s.fed)) ->
         RwFail(r, "INVALID_JSON")
    [] OTHER -> [r EXCEPT !.slots[slot] = [parent |-> NoParent, fed |-> <<>>],
                          !.parsed = Append(@, [parent |-> s.parent, text |-> s.fed])]

-----------------------------------------------------------------------------
(***************************************************************************)
(* Items.                                                                  *)
(***************************************************************************)

\* The texts the application replaces an item by and inserts.
Replacement == <<"7">>
Insertion == <<"8">>

\* lonejson__array_rewrite_finish_item.  A mapped item must be an object, and
\* may be truncated.
\* inContext: the parents the callback sees end with the item it is given.
FinishItem(r) ==
  LET asked == r.options.item # "none"
      act == IF asked THEN r.act ELSE "keep"
      seen == \A i \in DOMAIN r.slots :
                r.slots[i].parent # NoParent => IsSuffix(r.capture, r.slots[i].fed)
      p == IF r.options.item = "map" THEN NoteCut(r) ELSE r
      s == IF asked THEN [p EXCEPT !.acts = Append(@, act), !.inContext = @ /\ seen]
           ELSE p IN
  CASE ~RwOk(r) -> r
    [] RwOk(r) /\ r.options.item = "map" /\ Head(r.capture) # "{" ->
         RwFail(r, "TYPE_MISMATCH")
    [] RwOk(r) /\ ~(r.options.item = "map" /\ Head(r.capture) # "{") ->
         CASE act = "keep"          -> EmitOriginal(s)
           [] act = "drop"          -> s
           [] act = "replace"       -> EmitSource(s, Replacement)
           [] act = "before"        -> EmitOriginal(EmitSource(s, Insertion))
           [] act = "after"         -> EmitSource(EmitOriginal(s), Insertion)
           [] act = "replace_after" -> EmitSource(EmitSource(s, Replacement), Insertion)
           [] act = "fail"          -> RwFail(s, "CALLBACK_FAILED")
           [] act = "invalid"       -> RwFail(s, "INVALID_ARGUMENT")

\* The end of a value at the top of a capture.
EndCaptured(r) ==
  IF RwOk(r) /\ r.capturing /\ r.depth = 0 THEN FinishItem([r EXCEPT !.capturing = FALSE])
  ELSE r

\* lonejson__array_rewrite_append_selected.
AppendSelected(r) == FoldLeft(EmitSource, r, r.options.append)

-----------------------------------------------------------------------------
(***************************************************************************)
(* Values.                                                                 *)
(***************************************************************************)

\* lonejson__array_rewrite_key_matches, for the member about to begin.
KeyMatches(r) ==
  LET f == RwTop(r) IN
  ~r.capturing /\ f.path <= Len(r.segs) /\ r.segs[f.path].key = f.key

\* The comma before an item of a selected array; the output's is written
\* with the item.
ItemComma(r) == IF RwTop(r).count # 0 THEN FeedParents(r, <<",">>) ELSE r

\* lonejson__array_rewrite_before_value.  match: "select", "fanout", "object"
\* when the key of the value is the next segment of the selector.
BeforeValue(r) ==
  LET f == RwTop(r)
      n == [r EXCEPT !.match = "none"]
      counted(s) == RwSetTop(s, [f EXCEPT !.count = @ + 1])
      comma == IF f.count # 0 THEN <<",">> ELSE <<>>
      matched == CASE ~KeyMatches(r) -> "none"
                   [] KeyMatches(r) /\ r.segs[f.path].fanout -> "fanout"
                   [] OTHER -> IF f.path = Len(r.segs) THEN "select" ELSE "object" IN
  CASE ~RwOk(r) \/ r.frames = <<>> -> n
    [] RwOk(r) /\ r.frames # <<>> /\ f.selected ->
         [counted(ItemComma(n)) EXCEPT !.capturing = TRUE, !.depth = 0, !.capture = <<>>]
    [] RwOk(r) /\ r.frames # <<>> /\ ~f.selected /\ f.kind = "array" ->
         RwEmit(counted(n), comma)
    [] OTHER -> [RwEmit(counted(n),
                        comma \o <<Quote>> \o Escaped(f.key) \o <<Quote, ":">>)
                   EXCEPT !.match = matched]

\* lonejson__array_rewrite_push_frame: the position in the selector is the
\* parent's, one further below a fanout: also when the key did not match and
\* in an array that is no fanout.
RwPush(r, kind, selected, fanout) ==
  LET f == RwTop(r)
      path == CASE r.frames = <<>> -> 1
                [] r.frames # <<>> /\ f.fanout /\ kind = "object" -> f.path + 1
                [] OTHER -> f.path IN
  CASE ~RwOk(r) -> r
    [] RwOk(r) /\ Len(r.frames) >= MaxFrames -> RwFail(r, "OVERFLOW")
    [] OTHER -> [r EXCEPT !.frames = Append(@, RwFrame(kind, path, selected, fanout)),
                          !.selected = IF selected THEN @ + 1 ELSE @,
                          !.rewritten = IF selected THEN 0 ELSE @]

RwPop(r) == IF RwOk(r) THEN [r EXCEPT !.frames = Front(@)] ELSE r

\* A value that is no array where the selector needs one.
NotArray(r) ==
  IF r.match \in {"select", "fanout"} THEN RwFail(r, "TYPE_MISMATCH") ELSE r

Deeper(r) == IF RwOk(r) /\ r.capturing THEN [r EXCEPT !.depth = @ + 1] ELSE r
Shallower(r) == IF RwOk(r) /\ r.capturing THEN [r EXCEPT !.depth = @ - 1] ELSE r

\* lonejson__array_rewrite_object_begin: below a fanout the object is that of
\* a parent.
ParentBelow(r, a) ==
  IF /\ r.frames # <<>> /\ RwTop(r).fanout
     /\ ~a.capturing /\ RwTop(r).path <= Len(r.segs)
  THEN BeginParent(a, RwTop(r).path) ELSE [r |-> a, slot |-> NoParent]

ObjectPushed(d, slot) ==
  LET n == Len(d.frames) IN
  IF ~RwOk(d) THEN d
  ELSE [d EXCEPT !.frames[n].parent = slot,
                 !.frames[n].path = IF d.match = "object" THEN d.frames[n - 1].path + 1
                                    ELSE @]

ObjectOpened(b) ==
  LET r == IF b.r.options.reject THEN [b.r EXCEPT !.keys = Append(@, {})] ELSE b.r IN
  ObjectPushed(RwPush(Deeper(RwEmit(r, <<"{">>)), "object", FALSE, FALSE), b.slot)

RwObjectBegin(r) == ObjectOpened(ParentBelow(r, NotArray(BeforeValue(r))))

\* lonejson__array_rewrite_object_end.
RwObjectEnd(r) ==
  LET slot == RwTop(r).parent
      a == IF r.options.reject THEN [r EXCEPT !.keys = Front(@)] ELSE r IN
  EndCaptured(EndParent(RwPop(Shallower(RwEmit(a, <<"}">>))), slot))

\* lonejson__array_rewrite_array_begin.
ArrayOpened(b) ==
  IF b.capturing THEN RwPush(Deeper(b), "array", FALSE, FALSE)
  ELSE RwPush(b, "array", b.match = "select", b.match = "fanout")

RwArrayBegin(r) ==
  ArrayOpened(RwEmit(IF r.frames = <<>> /\ r.segs = <<>>
                     THEN [r EXCEPT !.match = "select"] ELSE BeforeValue(r), <<"[">>))

\* lonejson__array_rewrite_array_end.
RwArrayEnd(r) ==
  IF r.capturing THEN EndCaptured(RwPop(Shallower(RwEmit(r, <<"]">>))))
  ELSE RwPop(RwEmit(IF RwTop(r).selected THEN AppendSelected(r) ELSE r, <<"]">>))

\* lonejson__array_rewrite_key_begin, _key_chunk and _key_end, with the
\* duplicate check of 33_array_stream_api.h.
RwKeyBegin(r) == [RwSetTop(r, [RwTop(r) EXCEPT !.key = <<>>]) EXCEPT !.name = <<>>]
RwKeyChunk(r, text) ==
  [RwSetTop(r, [RwTop(r) EXCEPT !.key = @ \o text]) EXCEPT !.name = @ \o text]
RwKeyEnd(r) ==
  CASE ~r.options.reject -> r
    [] r.options.reject /\ r.name \in Last(r.keys) -> RwFail(r, "DUPLICATE_FIELD")
    [] OTHER -> [r EXCEPT !.keys[Len(r.keys)] = @ \cup {r.name}]

\* lonejson__array_rewrite_boolean, _null.
RwLiteral(r, name) == EndCaptured(RwEmit(NotArray(BeforeValue(r)), Literals[name]))

\* One callback of the visitor.
RwEvent(r, e) ==
  CASE ~RwOk(r) -> r
    [] RwOk(r) /\ e.name = "object_begin" -> RwObjectBegin(r)
    [] RwOk(r) /\ e.name = "object_end"   -> RwObjectEnd(r)
    [] RwOk(r) /\ e.name = "array_begin"  -> RwArrayBegin(r)
    [] RwOk(r) /\ e.name = "array_end"    -> RwArrayEnd(r)
    [] RwOk(r) /\ e.name = "key_begin"    -> RwKeyBegin(r)
    [] RwOk(r) /\ e.name = "key_chunk"    -> RwKeyChunk(r, e.text)
    [] RwOk(r) /\ e.name = "key_end"      -> RwKeyEnd(r)
    [] RwOk(r) /\ e.name = "string_begin" -> RwEmit(NotArray(BeforeValue(r)), <<Quote>>)
    [] RwOk(r) /\ e.name = "string_chunk" -> RwEmit(r, Escaped(e.text))
    [] RwOk(r) /\ e.name = "string_end"   -> EndCaptured(RwEmit(r, <<Quote>>))
    [] RwOk(r) /\ e.name = "number_begin" -> NotArray(BeforeValue(r))
    [] RwOk(r) /\ e.name = "number_chunk" -> RwEmit(r, e.text)
    [] RwOk(r) /\ e.name = "number_end"   -> EndCaptured(r)
    [] OTHER -> RwLiteral(r, e.name)

\* The end of lonejson__array_rewrite_reader_common, for the status of the
\* visit.
RwResult(r, visit) ==
  CASE visit # "OK" -> visit
    [] visit = "OK" /\ r.selected = 0 -> "TYPE_MISMATCH"
    [] OTHER -> IF r.truncated THEN "TRUNCATED" ELSE "OK"

=============================================================================
