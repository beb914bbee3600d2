------------------------------ MODULE JsonTree ------------------------------
(***************************************************************************)
(* JSON values as trees, and what the library promises to make of them:    *)
(* the text a tree is read from, the callbacks a visitor gets for it, the  *)
(* text it is written as.  The readers and rewriters, which see bytes, are *)
(* compared with these definitions, which see the tree.                    *)
(*                                                                         *)
(* A scalar is [kind, src, dec]: its text in the document (of a string,    *)
(* between the quotes) and, of a string, its decoded bytes.  An array has  *)
(* items, an object members, each with its key (a string) and value.       *)
(***************************************************************************)
EXTENDS JsonText

Str(src, dec) == [kind |-> "string", src |-> src, dec |-> dec]
PlainStr(text) == Str(text, text)
Num(src) == [kind |-> "number", src |-> src, dec |-> src]
Lit(name) == [kind |-> name, src |-> Literals[name], dec |-> <<>>]
Arr(items) == [kind |-> "array", items |-> items]
Member(key, val) == [key |-> key, val |-> val]
Obj(members) == [kind |-> "object", members |-> members]

Quoted(text) == <<Quote>> \o text \o <<Quote>>

\* FlattenSeq; the concatenation makes TLC evaluate the sequence only once.
Flat(seqs) == LET tuple == seqs \o <<>> IN FlattenSeq(tuple)

\* The sequences joined, sep between them.
Joined(seqs, sep) ==
  LET tuple == seqs \o <<>> IN
  Flat([i \in DOMAIN tuple |-> IF i = 1 THEN tuple[i] ELSE sep \o tuple[i]])

-----------------------------------------------------------------------------
(***************************************************************************)
(* Text.                                                                   *)
(***************************************************************************)

ScalarText(t) == IF t.kind = "string" THEN Quoted(t.src) ELSE t.src

\* A document, with `gap` (spaces) between its tokens; <<>>: compact.
RECURSIVE SourceText(_, _)
SourceText(t, gap) ==
  CASE t.kind = "array" ->
         <<"[">> \o gap
           \o Joined([i \in DOMAIN t.items |-> SourceText(t.items[i], gap) \o gap],
                     <<",">> \o gap)
           \o <<"]">>
    [] t.kind = "object" ->
         <<"{">> \o gap
           \o Joined([i \in DOMAIN t.members |->
                        Quoted(t.members[i].key.src) \o gap \o <<":">> \o gap
                          \o SourceText(t.members[i].val, gap) \o gap], <<",">> \o gap)
           \o <<"}">>
    [] OTHER -> ScalarText(t)

NewLineAt(depth) == <<"\n">> \o [i \in 1..(2 * depth) |-> " "]

\* Indented, two spaces a level; an empty container stays on its line.
RECURSIVE PrettyText(_, _)
PrettyText(t, depth) ==
  LET Lines(open, parts, close) ==
        IF parts = <<>> THEN <<open, close>>
        ELSE <<open>> \o NewLineAt(depth + 1)
               \o Joined(parts, <<",">> \o NewLineAt(depth + 1))
               \o NewLineAt(depth) \o <<close>> IN
  CASE t.kind = "array" ->
         Lines("[", [i \in DOMAIN t.items |-> PrettyText(t.items[i], depth + 1)], "]")
    [] t.kind = "object" ->
         Lines("{", [i \in DOMAIN t.members |->
                       Quoted(t.members[i].key.src) \o <<":", " ">>
                         \o PrettyText(t.members[i].val, depth + 1)], "}")
    [] OTHER -> ScalarText(t)

\* Compact, every string decoded and escaped again.
RECURSIVE Canonical(_)
Canonical(t) ==
  CASE t.kind = "array" ->
         <<"[">> \o Joined([i \in DOMAIN t.items |-> Canonical(t.items[i])], <<",">>)
           \o <<"]">>
    [] t.kind = "object" ->
         <<"{">> \o Joined([i \in DOMAIN t.members |->
                              Quoted(Escaped(t.members[i].key.dec)) \o <<":">>
                                \o Canonical(t.members[i].val)], <<",">>)
           \o <<"}">>
    [] t.kind = "string" -> Quoted(Escaped(t.dec))
    [] OTHER -> t.src

-----------------------------------------------------------------------------
(***************************************************************************)
(* Callbacks.  A log is a sequence of <<callback, path>> and, for the text *)
(* of a chunk, of <<byte, path>>: how a text is cut into chunks is not     *)
(* part of it.                                                             *)
(***************************************************************************)

LogText(text, path) == [i \in DOMAIN text |-> <<text[i], path>>]
Segment(path, seg, withPaths) == IF withPaths THEN Append(path, seg) ELSE path

RECURSIVE EventLog(_, _, _)
EventLog(t, path, withPaths) ==
  CASE t.kind = "array" ->
         <<<<"array_begin", path>>>>
           \o Flat([i \in DOMAIN t.items |->
                EventLog(t.items[i],
                         Segment(path, <<LowerHex[i]>>, withPaths), withPaths)])
           \o <<<<"array_end", path>>>>
    [] t.kind = "object" ->
         <<<<"object_begin", path>>>>
           \o Flat([i \in DOMAIN t.members |->
                <<<<"key_begin", path>>>> \o LogText(t.members[i].key.dec, path)
                  \o <<<<"key_end", path>>>>
                  \o EventLog(t.members[i].val,
                              Segment(path, t.members[i].key.dec, withPaths), withPaths)])
           \o <<<<"object_end", path>>>>
    [] t.kind = "string" ->
         <<<<"string_begin", path>>>> \o LogText(t.dec, path) \o <<<<"string_end", path>>>>
    [] t.kind = "number" ->
         <<<<"number_begin", path>>>> \o LogText(t.src, path) \o <<<<"number_end", path>>>>
    [] OTHER -> <<<<t.kind, path>>>>

-----------------------------------------------------------------------------
(***************************************************************************)
(* Sizes.                                                                  *)
(***************************************************************************)

Largest(set) == IF set = {} THEN 0 ELSE CHOOSE n \in set : \A m \in set : m <= n

Children(t) ==
  CASE t.kind = "array"  -> Range(t.items)
    [] t.kind = "object" -> {t.members[i].val : i \in DOMAIN t.members}
    [] OTHER             -> {}

RECURSIVE Depth(_)
Depth(t) ==
  IF t.kind \in {"array", "object"}
  THEN 1 + Largest({Depth(c) : c \in Children(t)}) ELSE 0

\* The decoded length of the longest string or number below t.
RECURSIVE Longest(_, _)
Longest(t, kind) ==
  IF t.kind = kind THEN Len(t.dec) ELSE Largest({Longest(c, kind) : c \in Children(t)})

RECURSIVE LongestKey(_)
LongestKey(t) ==
  Largest({LongestKey(c) : c \in Children(t)}
            \cup (IF t.kind = "object"
                  THEN {Len(t.members[i].key.dec) : i \in DOMAIN t.members} ELSE {}))

-----------------------------------------------------------------------------
(***************************************************************************)
(* Rewritten arrays.  A path is a sequence of segments [key, fanout]: an    *)
(* array it names is reached from an object member by member, and through  *)
(* every item of an array where the segment is a fanout.  It is searched   *)
(* from the root only, or (how.anywhere) below every value where it could  *)
(* not go on, from the segment reached there.  acts are the application's  *)
(* answers, in the order it is asked.                                      *)
(***************************************************************************)

\* What stands in the place of an item.
Rewritten(item, act, new, extra) ==
  CASE act = "keep"          -> <<Canonical(item)>>
    [] act = "drop"          -> <<>>
    [] act = "replace"       -> <<new>>
    [] act = "before"        -> <<extra, Canonical(item)>>
    [] act = "after"         -> <<Canonical(item), extra>>
    [] act = "replace_after" -> <<new, extra>>

\* text: what t becomes; acts: the answers left; arrays: how many were
\* selected; parents: the objects below a fanout, as they were, in the order
\* they end; fits: every value on the path has the type the path needs.
Kept(t, acts) == [text |-> Canonical(t), acts |-> acts, arrays |-> 0,
                  parents |-> <<>>, fits |-> TRUE]
Unfit(t, acts) == [Kept(t, acts) EXCEPT !.fits = FALSE]

\* The parts of a container, one after the other.
Gathered(acc, r, label) ==
  [parts |-> Append(acc.parts, label \o r.text), acts |-> r.acts,
   arrays |-> acc.arrays + r.arrays, parents |-> acc.parents \o r.parents,
   fits |-> acc.fits /\ r.fits]
Empty(acts) == [parts |-> <<>>, acts |-> acts, arrays |-> 0, parents |-> <<>>,
                fits |-> TRUE]
Wrapped(acc, open, close) ==
  [text |-> <<open>> \o Joined(acc.parts, <<",">>) \o <<close>>, acts |-> acc.acts,
   arrays |-> acc.arrays, parents |-> acc.parents, fits |-> acc.fits]

\* The selected array t; asked: the application is asked about every item.
SelectedArray(t, asked, added, new, extra, acts) ==
  LET Item(acc, item) ==
        IF ~asked THEN [acc EXCEPT !.parts = Append(@, Canonical(item))]
        ELSE [acc EXCEPT !.parts = @ \o Rewritten(item, Head(acc.acts), new, extra),
                         !.acts = Tail(@)]
      acc == FoldLeft(Item, Empty(acts), t.items) IN
  Wrapped([acc EXCEPT !.parts = @ \o added, !.arrays = 1], "[", "]")

\* asked, added, new, extra: as above, in one record, with anywhere.
RECURSIVE ArraysRewritten(_, _, _, _)
ArraysRewritten(t, path, how, acts) ==
  LET key == Head(path).key
      Elsewhere(val, left) ==
        IF how.anywhere THEN ArraysRewritten(val, path, how, left) ELSE Kept(val, left)
      Inside(acc, item) == Gathered(acc, Elsewhere(item, acc.acts), <<>>)
      Below(acc, item) ==
        LET r == IF item.kind = "object"
                 THEN LET s == ArraysRewritten(item, Tail(path), how, acc.acts) IN
                      [s EXCEPT !.parents =
                         Append(@, [segment |-> key, text |-> Canonical(item)])]
                 ELSE Elsewhere(item, acc.acts) IN
        Gathered(acc, r, <<>>)
      Fanned(val, left) == IF val.kind # "array" THEN Unfit(val, left)
                           ELSE Wrapped(FoldLeft(Below, Empty(left), val.items), "[", "]")
      Named(val, left) ==
        CASE Head(path).fanout -> Fanned(val, left)
          [] ~Head(path).fanout /\ (Tail(path) = <<>> \/ val.kind = "object") ->
               ArraysRewritten(val, Tail(path), how, left)
          [] OTHER -> Elsewhere(val, left)
      OneMember(acc, m) ==
        Gathered(acc, IF m.key.dec = key THEN Named(m.val, acc.acts)
                      ELSE Elsewhere(m.val, acc.acts),
                 Quoted(Escaped(m.key.dec)) \o <<":">>) IN
  CASE path = <<>> /\ t.kind = "array" ->
         SelectedArray(t, how.asked, how.added, how.new, how.extra, acts)
    [] path = <<>> /\ t.kind # "array" -> Unfit(t, acts)
    [] path # <<>> /\ t.kind = "object" ->
         Wrapped(FoldLeft(OneMember, Empty(acts), t.members), "{", "}")
    [] path # <<>> /\ t.kind = "array" ->
         Wrapped(FoldLeft(Inside, Empty(acts), t.items), "[", "]")
    [] OTHER -> Kept(t, acts)

-----------------------------------------------------------------------------
(***************************************************************************)
(* The value a path of keys and indices names, and the document with that  *)
(* value kept, dropped or replaced.                                        *)
(***************************************************************************)

Replaced == [kind |-> "replaced"]
IndexSegment(seg) == seg # <<>> /\ \A i \in DOMAIN seg : seg[i] \in Digits

\* The children of t the segment names, as positions.
NamedBy(t, seg) ==
  CASE t.kind = "object" -> {i \in DOMAIN t.members : t.members[i].key.dec = seg}
    [] t.kind = "array"  -> {i \in DOMAIN t.items : <<LowerHex[i]>> = seg}
    [] OTHER             -> {}

\* The value a path names, as a set of at most one.
RECURSIVE ValueAt(_, _)
ValueAt(t, path) ==
  IF path = <<>> THEN {t}
  ELSE UNION {ValueAt(IF t.kind = "object" THEN t.members[i].val ELSE t.items[i],
                      Tail(path)) : i \in NamedBy(t, Head(path))}

\* The path ends at an object whose missing members can be made.
RECURSIVE Creatable(_, _)
Creatable(t, path) ==
  /\ path # <<>>
  /\ IF NamedBy(t, Head(path)) = {}
     THEN t.kind = "object" /\ \A i \in DOMAIN path : ~IndexSegment(path[i])
     ELSE \E i \in NamedBy(t, Head(path)) :
            Creatable(IF t.kind = "object" THEN t.members[i].val ELSE t.items[i],
                      Tail(path))

RECURSIVE Created(_)
Created(path) ==
  IF path = <<>> THEN Replaced
  ELSE Obj(<<Member(PlainStr(Head(path)), Created(Tail(path)))>>)

\* As a sequence of at most one value: <<>> when t itself is dropped.
RECURSIVE ValueRewritten(_, _, _)
ValueRewritten(t, path, action) ==
  CASE path = <<>> ->
         CASE action = "keep" -> <<t>> [] action = "drop" -> <<>> [] OTHER -> <<Replaced>>
    [] path # <<>> /\ t.kind = "object" ->
         LET kept == Flat([i \in DOMAIN t.members |->
               LET r == IF i \in NamedBy(t, Head(path))
                        THEN ValueRewritten(t.members[i].val, Tail(path), action)
                        ELSE <<t.members[i].val>> IN
               [j \in DOMAIN r |-> Member(t.members[i].key, r[j])]])
             made == IF /\ NamedBy(t, Head(path)) = {} /\ Creatable(t, path)
                        /\ action \in {"replace", "replace_with"}
                     THEN <<Member(PlainStr(Head(path)), Created(Tail(path)))>> ELSE <<>> IN
         <<Obj(kept \o made)>>
    [] path # <<>> /\ t.kind = "array" ->
         <<Arr(Flat([i \in DOMAIN t.items |->
                 IF i \in NamedBy(t, Head(path))
                 THEN ValueRewritten(t.items[i], Tail(path), action) ELSE <<t.items[i]>>]))>>
    [] OTHER -> <<t>>

\* The calls on a writer that write t.
CallText(text) == [i \in DOMAIN text |-> <<"chunk", <<text[i]>>>>]
Bare(name) == <<name, <<>>>>

RECURSIVE CallsOf(_)
CallsOf(t) ==
  CASE t.kind = "array" ->
         <<Bare("begin_array")>> \o Flat([i \in DOMAIN t.items |-> CallsOf(t.items[i])])
           \o <<Bare("end_array")>>
    [] t.kind = "object" ->
         <<Bare("begin_object")>>
           \o Flat([i \in DOMAIN t.members |->
                <<<<"key", t.members[i].key.dec>>>> \o CallsOf(t.members[i].val)])
           \o <<Bare("end_object")>>
    [] t.kind = "string" ->
         <<Bare("string_begin")>> \o CallText(t.dec) \o <<Bare("string_end")>>
    [] t.kind = "number" ->
         <<Bare("number_begin")>> \o CallText(t.src) \o <<Bare("number_end")>>
    [] t.kind = "replaced" -> <<Bare("value")>>
    [] OTHER -> <<Bare(t.kind)>>

=============================================================================
