---------------------------- MODULE ValueRewrite ----------------------------
(***************************************************************************)
(* The value rewriter (src/src/impl/39_value_rewrite_api.h): a visitor     *)
(* that copies a document to a writer, except for the one value a path     *)
(* names, which it keeps, drops, or replaces by a value given beforehand   *)
(* or by one the application makes from the old value; a missing member    *)
(* that is to be replaced is created.  The module defines the rewriter's   *)
(* state, a record, and what each callback of the visitor does to it.  The *)
(* writer is the sequence of the calls made on it.                         *)
(*                                                                         *)
(* accept: how many more calls on the writer succeed.                      *)
(***************************************************************************)
EXTENDS JsonText

NoOld == [present |-> FALSE, type |-> "absent", number |-> <<>>, boolean |-> "none"]

VrFrame(kind, plen, prefix) ==
  [kind |-> kind, plen |-> plen, count |-> 0, prefix |-> prefix, saw |-> FALSE,
   key |-> <<>>]

\* lonejson__value_rewrite_reader_with_options before the visit.  asked is
\* what the replace callback was shown: the old value and its callbacks.
VrStart(segs, action) ==
  [segs |-> segs, action |-> action, frames |-> <<>>, found |-> FALSE, emit |-> FALSE,
   replace |-> FALSE, replacing |-> FALSE, rdepth |-> 0, skipping |-> FALSE,
   sdepth |-> 0, number |-> <<>>, old |-> NoOld, oldLog |-> <<>>, push |-> FALSE,
   plen |-> 0, calls |-> <<>>, asked |-> <<>>, status |-> "OK", accept |-> 0]

VrOk(s) == s.status = "OK"
VrFail(s, code) == IF VrOk(s) THEN [s EXCEPT !.status = code] ELSE s
VrTop(s) == Last(s.frames)
VrSetTop(s, f) == [s EXCEPT !.frames[Len(s.frames)] = f]

\* lonejson__value_rewrite_validate_options: the action on the empty path.
VrOptions(segs, action) ==
  IF action = "drop" /\ segs = <<>> THEN "INVALID_ARGUMENT" ELSE "OK"

-----------------------------------------------------------------------------
(***************************************************************************)
(* The target, as a dotted text whose backslashes escape the next byte.    *)
(***************************************************************************)

\* lonejson__value_rewrite_selector_add.
SelectorAdd(t) ==
  IF t.seg = <<>> THEN [t EXCEPT !.bad = TRUE]
  ELSE [t EXCEPT !.segs = Append(@, t.seg), !.seg = <<>>]

TargetByte(t, c) ==
  CASE t.bad -> t
    [] ~t.bad /\ t.esc -> [t EXCEPT !.seg = Append(@, c), !.esc = FALSE]
    [] ~t.bad /\ ~t.esc /\ c = "." -> SelectorAdd(t)
    [] ~t.bad /\ ~t.esc /\ c = Backslash -> [t EXCEPT !.esc = TRUE]
    [] OTHER -> [t EXCEPT !.seg = Append(@, c)]

\* lonejson__value_rewrite_parse_selector.
ParseTarget(text) ==
  LET start == [segs |-> <<>>, seg |-> <<>>, esc |-> FALSE, bad |-> FALSE]
      t == FoldLeft(TargetByte, start, text) IN
  CASE text = <<>> -> start
    [] text # <<>> /\ t.esc -> [t EXCEPT !.bad = TRUE]
    [] OTHER -> IF t.bad THEN t ELSE SelectorAdd(t)

\* lonejson__value_rewrite_segment_is_index.
IsIndex(seg) == seg # <<>> /\ \A i \in DOMAIN seg : seg[i] \in Digits

\* Mutant: items are counted from one.
FormatSize_FromOne(n) == <<LowerHex[n + 2]>>

\* lonejson__value_rewrite_format_size, for less than ten items.
FormatSize(n) == <<LowerHex[n + 1]>>

-----------------------------------------------------------------------------
(***************************************************************************)
(* The writer and the application.                                         *)
(***************************************************************************)

\* A call on the writer; the text of a chunk is kept byte by byte.
VrCall(s, name, text) ==
  CASE ~VrOk(s) -> s
    [] VrOk(s) /\ s.accept = 0 -> VrFail(s, "CALLBACK_FAILED")
    [] OTHER -> [s EXCEPT !.accept = @ - 1,
                          !.calls = IF name = "chunk"
                                    THEN @ \o [i \in DOMAIN text |-> <<name, <<text[i]>>>>]
                                    ELSE Append(@, <<name, text>>)]

\* lonejson__value_rewrite_emit_source.
EmitReplacement(s) == VrCall(s, "value", <<>>)

\* lonejson__value_rewrite_replace_with: the application writes the new value.
ReplaceWith(s) ==
  IF ~VrOk(s) THEN s
  ELSE EmitReplacement([s EXCEPT !.asked = Append(@, [old |-> s.old, log |-> s.oldLog])])

\* lonejson__value_rewrite_begin_replace_with.
BeginReplaceWith(s, type) ==
  [s EXCEPT !.old = [NoOld EXCEPT !.present = TRUE, !.type = type], !.oldLog = <<>>,
            !.replacing = TRUE, !.rdepth = 0, !.replace = FALSE]

\* lonejson__value_rewrite_visit_event, _visit_chunk and _visit_bool: the
\* old value passes to the application's visitor.
VisitOld(s, e) ==
  [s EXCEPT !.oldLog = IF e.name \in {"key_chunk", "string_chunk", "number_chunk"}
                       THEN @ \o [i \in DOMAIN e.text |-> <<e.text[i], <<>>>>]
                       ELSE Append(@, <<e.name, <<>>>>)]

\* The old value has ended, unless it is inside the old value.
EndReplaced(s) ==
  IF s.rdepth # 0 THEN s ELSE ReplaceWith([s EXCEPT !.replacing = FALSE])

-----------------------------------------------------------------------------
(***************************************************************************)
(* Values.                                                                 *)
(***************************************************************************)

\* lonejson__value_rewrite_parent_child_matches.
ChildMatches(s) ==
  /\ s.frames # <<>> /\ VrTop(s).prefix /\ VrTop(s).plen < Len(s.segs)
  /\ s.segs[VrTop(s).plen + 1] =
       (IF VrTop(s).kind = "object" THEN VrTop(s).key ELSE FormatSize(VrTop(s).count))

\* The key of the value that begins, if it is a member.
KeyFirst(s) ==
  IF s.frames # <<>> /\ VrTop(s).kind = "object" THEN VrCall(s, "key", VrTop(s).key)
  ELSE s

\* The value that begins is the one the path names.
IsTarget(s) ==
  LET plen == IF s.frames = <<>> THEN 0 ELSE VrTop(s).plen + 1 IN
  plen = Len(s.segs) /\ (s.frames = <<>> \/ ChildMatches(s))

\* lonejson__value_rewrite_before_value: emit is emit_original, push and plen
\* what a container that begins is pushed with.
VrBefore(s) ==
  LET f == VrTop(s)
      root == s.frames = <<>>
      match == ChildMatches(s)
      base == [s EXCEPT !.emit = FALSE, !.push = root \/ match,
                        !.plen = IF root THEN 0 ELSE f.plen + 1]
      t == IF root THEN base
           ELSE VrSetTop(base, [f EXCEPT !.saw = @ \/ match,
                                         !.count = IF f.kind = "array" THEN @ + 1 ELSE @])
      found == [t EXCEPT !.found = TRUE] IN
  CASE s.skipping -> [s EXCEPT !.emit = FALSE, !.push = FALSE, !.plen = 0]
    [] ~s.skipping /\ ~IsTarget(s) -> KeyFirst([t EXCEPT !.emit = TRUE])
    [] ~s.skipping /\ IsTarget(s) ->
         CASE s.action = "keep"         -> KeyFirst([found EXCEPT !.emit = TRUE])
           [] s.action = "drop"         -> found
           [] s.action = "replace"      -> EmitReplacement(KeyFirst(found))
           [] s.action = "replace_with" -> KeyFirst([found EXCEPT !.replace = TRUE])

\* lonejson__value_rewrite_object_begin and _array_begin.
VrFramed(o, kind) ==
  IF VrOk(o) THEN [o EXCEPT !.frames = Append(@, VrFrame(kind, o.plen, o.push))] ELSE o

VrBegun(t, kind, e) ==
  CASE ~VrOk(t) -> t
    [] VrOk(t) /\ t.emit ->
         VrFramed(VrCall(t, IF kind = "object" THEN "begin_object" ELSE "begin_array", <<>>),
                  kind)
    [] VrOk(t) /\ ~t.emit /\ t.replace ->
         VisitOld([BeginReplaceWith(t, kind) EXCEPT !.rdepth = 1], e)
    [] OTHER -> [t EXCEPT !.skipping = TRUE, !.sdepth = 1]

VrBegin(s, kind, e) ==
  CASE s.replacing -> VisitOld([s EXCEPT !.rdepth = @ + 1], e)
    [] ~s.replacing /\ s.skipping -> [s EXCEPT !.sdepth = @ + 1]
    [] OTHER -> VrBegun(VrBefore(s), kind, e)

\* The members still missing on the way to the target of frame f.
Missing(s, f) == SubSeq(s.segs, f.plen + 1, Len(s.segs))

NeedsChain(s, f) ==
  /\ ~s.found /\ s.action \in {"replace", "replace_with"} /\ f.prefix
  /\ Missing(s, f) # <<>> /\ ~f.saw /\ ~IsIndex(Head(Missing(s, f)))

\* lonejson__value_rewrite_emit_missing_chain: an array is never created,
\* the objects above it may have been written by then.
ChainWritten(s) == IF VrOk(s) THEN [s EXCEPT !.found = TRUE] ELSE s

EmitMissingChain(s, f) ==
  LET rest == Missing(s, f)
      n == Len(rest)
      indexed == {i \in 2..n : IsIndex(rest[i])}
      stop == IF indexed = {} THEN n
              ELSE (CHOOSE i \in indexed : \A j \in indexed : i <= j) - 1
      Open(t, i) == IF i < n THEN VrCall(VrCall(t, "key", rest[i]), "begin_object", <<>>)
                    ELSE VrCall(t, "key", rest[i])
      Opened == FoldLeft(Open, s, [i \in 1..stop |-> i])
      Made(t) == IF s.action = "replace" THEN EmitReplacement(t)
                 ELSE ReplaceWith([t EXCEPT !.old = NoOld, !.oldLog = <<>>])
      Closed(t) == FoldLeft(LAMBDA u, i : VrCall(u, "end_object", <<>>), t,
                            [i \in 1..(n - 1) |-> i]) IN
  CASE ~NeedsChain(s, f) -> s
    [] NeedsChain(s, f) /\ stop < n -> VrFail(Opened, "TYPE_MISMATCH")
    [] OTHER -> ChainWritten(Closed(Made(Opened)))

\* lonejson__value_rewrite_object_end and _array_end.
VrUnframed(o) == IF VrOk(o) THEN [o EXCEPT !.frames = Front(@)] ELSE o

VrEnd(s, kind, e) ==
  CASE s.replacing -> EndReplaced([VisitOld(s, e) EXCEPT !.rdepth = @ - 1])
    [] ~s.replacing /\ s.skipping ->
         [s EXCEPT !.sdepth = @ - 1, !.skipping = s.sdepth > 1]
    [] OTHER -> VrUnframed(IF kind = "object"
                           THEN VrCall(EmitMissingChain(s, VrTop(s)), "end_object", <<>>)
                           ELSE VrCall(s, "end_array", <<>>))

\* lonejson__value_rewrite_key_begin, _key_chunk and _key_end.
VrKey(s, e) ==
  CASE s.replacing -> VisitOld(s, e)
    [] ~s.replacing /\ s.skipping -> s
    [] ~s.replacing /\ ~s.skipping /\ e.name = "key_begin" ->
         VrSetTop(s, [VrTop(s) EXCEPT !.key = <<>>])
    [] ~s.replacing /\ ~s.skipping /\ e.name = "key_chunk" ->
         VrSetTop(s, [VrTop(s) EXCEPT !.key = @ \o e.text])
    [] OTHER -> s

\* lonejson__value_rewrite_string_begin and _number_begin.
VrTextBegun(t, type, e) ==
  CASE VrOk(t) /\ t.replace -> VisitOld(BeginReplaceWith(t, type), e)
    [] VrOk(t) /\ ~t.replace /\ t.emit -> VrCall(t, e.name, <<>>)
    [] OTHER -> t

VrTextBegin(s, type, e) ==
  LET r == IF type = "number" THEN [s EXCEPT !.number = <<>>] ELSE s IN
  IF s.replacing THEN VisitOld(r, e) ELSE VrTextBegun(VrBefore(r), type, e)

\* lonejson__value_rewrite_string_chunk and _number_chunk.
VrTextChunk(s, type, e) ==
  CASE s.replacing ->
         VisitOld(IF type = "number" THEN [s EXCEPT !.number = @ \o e.text] ELSE s, e)
    [] ~s.replacing /\ s.emit -> VrCall(s, "chunk", e.text)
    [] OTHER -> s

\* lonejson__value_rewrite_string_end and _number_end.
VrTextEnd(s, type, e) ==
  LET old == IF type = "number" /\ s.rdepth = 0
             THEN [VisitOld(s, e) EXCEPT !.old.number = s.number] ELSE VisitOld(s, e) IN
  CASE s.replacing -> [EndReplaced(old) EXCEPT !.number = <<>>]
    [] ~s.replacing /\ s.emit -> [VrCall(s, e.name, <<>>) EXCEPT !.emit = FALSE]
    [] OTHER -> s

\* lonejson__value_rewrite_boolean and _null.
OldLiteral(t, e) ==
  [BeginReplaceWith(t, IF e.name = "null" THEN "null" ELSE "bool") EXCEPT
     !.old.boolean = IF e.name = "null" THEN @ ELSE e.name]

VrLiteralBegun(t, e) ==
  CASE VrOk(t) /\ t.replace -> EndReplaced(VisitOld(OldLiteral(t, e), e))
    [] VrOk(t) /\ ~t.replace /\ t.emit -> VrCall(t, e.name, <<>>)
    [] OTHER -> t

VrLiteral(s, e) == IF s.replacing THEN VisitOld(s, e) ELSE VrLiteralBegun(VrBefore(s), e)

\* One callback of the visitor.
VrEvent(s, e) ==
  CASE ~VrOk(s) -> s
    [] VrOk(s) /\ e.name = "object_begin" -> VrBegin(s, "object", e)
    [] VrOk(s) /\ e.name = "array_begin"  -> VrBegin(s, "array", e)
    [] VrOk(s) /\ e.name = "object_end"   -> VrEnd(s, "object", e)
    [] VrOk(s) /\ e.name = "array_end"    -> VrEnd(s, "array", e)
    [] VrOk(s) /\ e.name \in {"key_begin", "key_chunk", "key_end"} -> VrKey(s, e)
    [] VrOk(s) /\ e.name = "string_begin" -> VrTextBegin(s, "string", e)
    [] VrOk(s) /\ e.name = "number_begin" -> VrTextBegin(s, "number", e)
    [] VrOk(s) /\ e.name = "string_chunk" -> VrTextChunk(s, "string", e)
    [] VrOk(s) /\ e.name = "number_chunk" -> VrTextChunk(s, "number", e)
    [] VrOk(s) /\ e.name = "string_end"   -> VrTextEnd(s, "string", e)
    [] VrOk(s) /\ e.name = "number_end"   -> VrTextEnd(s, "number", e)
    [] OTHER -> VrLiteral(s, e)

\* The end of lonejson__value_rewrite_reader_with_options, for the status of
\* the visit.
VrResult(s, visit) ==
  CASE visit # "OK" -> visit
    [] visit = "OK" /\ ~s.found /\ s.action # "keep" -> "TYPE_MISMATCH"
    [] OTHER -> "OK"

=============================================================================
