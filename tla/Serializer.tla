---------------------------- MODULE Serializer ----------------------------
(***************************************************************************)
(* The text the one-shot serializer writes for a value                     *)
(* (src/src/impl/24_serializer.h, 23_serializer_io.h), as a function of    *)
(* the value, which lonejson_generator_measure counts; and the text the    *)
(* generator (32_generator_api.h) hands out for it, the same but for the   *)
(* indent of JSON values.                                                  *)
(***************************************************************************)
EXTENDS Generator

QuotedText(data) == <<Quote>> \o Escaped(data) \o <<Quote>>

\* lonejson__serialize_spooled_base64 and _source_base64: groups of three
\* bytes, whatever pieces the source hands out.
Base64Text(data) ==
  LET quads == (Len(data) + 2) \div 3
      quad(k) == Quad(SubSeq(data, 3 * k - 2, SmallerOf(3 * k, Len(data)))) IN
  <<Quote>> \o FlattenSeq([k \in 1..quads |-> quad(k)]) \o <<Quote>>

Line(pretty, depth) ==
  IF pretty THEN <<"\n">> \o [k \in 1..(2 * depth) |-> " "] ELSE <<>>

\* lonejson__json_transcode (lonejson__json_parse_array, _object), and the text
\* of lonejson__json_pull_read: a JSON text without the white space between its
\* tokens, or with its members and items on lines of their own, `base` deep.
Transcoded(text, pretty, base) ==
  LET piece(acc, c) ==
        CASE c = ":" -> IF pretty THEN <<":", " ">> ELSE <<":">>
          [] c = "," -> <<",">> \o Line(pretty, base + acc.depth)
          [] c \in {"}", "]"} ->
               (IF acc.fresh THEN <<>> ELSE Line(pretty, base + acc.depth - 1)) \o <<c>>
          [] OTHER -> (IF acc.fresh THEN Line(pretty, base + acc.depth) ELSE <<>>) \o <<c>>
      token(acc, c) ==
        [acc EXCEPT !.s = @ \o piece(acc, c), !.fresh = c \in {"{", "["},
                    !.depth = CASE c \in {"{", "["} -> @ + 1 [] c \in {"}", "]"} -> @ - 1
                                [] OTHER -> @]
      step(acc, c) ==
        [CASE acc.g.ctl \in {"string", "escape", "hex"} -> [acc EXCEPT !.s = Append(@, c)]
           [] acc.g.ctl \notin {"string", "escape", "hex"} /\ c \in Spaces -> acc
           [] OTHER -> token(acc, c)
         EXCEPT !.g = GrammarStep(acc.g, c)] IN
  FoldLeft(step, [g |-> GrammarStart(FALSE), s |-> <<>>, depth |-> 0, fresh |-> FALSE], text).s

\* Parts between brackets, separated by commas, on lines of their own.
Bracketed(open, parts, close, pretty, depth) ==
  LET part(k) == (IF k > 1 THEN <<",">> ELSE <<>>) \o Line(pretty, depth + 1) \o parts[k] IN
  <<open>> \o FlattenSeq([k \in 1..Len(parts) |-> part(k)])
    \o (IF parts # <<>> THEN Line(pretty, depth) ELSE <<>>) \o <<close>>

\* lonejson__serialize_spooled_text, _source_text, _base64: a streamed field.
StreamedText(val) ==
  IF val.kind = "base64" THEN Base64Text(val.bytes) ELSE QuotedText(val.data)

\* A value without members or items; the lines of a JSON value are `base` deep.
LeafText(val, pretty, base) ==
  CASE val.kind = "null"   -> Literals.null
    [] val.kind = "scalar" -> val.data
    [] val.kind = "string" -> QuotedText(val.data)
    [] val.kind = "json"   -> IF val.null THEN Literals.null ELSE Transcoded(val.data, pretty, base)
    [] OTHER               -> StreamedText(val)

\* The members that lonejson__field_should_omit does not omit.
Shown(val) == SelectSeq(val.items, LAMBDA m : ~m.omit)

\* lonejson__serialize_value_compact and _map_compact.
RECURSIVE CompactText(_)
CompactText(val) ==
  CASE val.kind = "array" ->
         Bracketed("[", [k \in 1..Len(val.items) |-> CompactText(val.items[k])],
                   "]", FALSE, 0)
    [] val.kind = "map" ->
         LET members == Shown(val) IN
         Bracketed("{", [k \in 1..Len(members) |->
                           QuotedText(members[k].key) \o <<":">>
                             \o CompactText(members[k].val)],
                   "}", FALSE, 0)
    [] OTHER -> LeafText(val, FALSE, 0)

\* lonejson__serialize_value_pretty and _map_pretty, at a depth.  JSON values
\* are deeper by `more`: the serializer passes lonejson__json_transcode its
\* depth, which the map has already increased, plus one; the generator passes
\* lonejson__json_pull_init the depth of the frame.
RECURSIVE PrettyText(_, _, _)
PrettyText(val, depth, more) ==
  CASE val.kind = "array" ->
         Bracketed("[", [k \in 1..Len(val.items) |-> PrettyText(val.items[k], depth + 1, more)],
                   "]", TRUE, depth)
    [] val.kind = "map" ->
         LET members == Shown(val) IN
         Bracketed("{", [k \in 1..Len(members) |->
                           QuotedText(members[k].key) \o <<":", " ">>
                             \o PrettyText(members[k].val, depth + 1, more)],
                   "}", TRUE, depth)
    [] OTHER -> LeafText(val, TRUE, depth + more)

Serialized(val, pretty) == IF pretty THEN PrettyText(val, 0, 1) ELSE CompactText(val)
Generated(val, pretty) == IF pretty THEN PrettyText(val, 0, 0) ELSE CompactText(val)

\* lonejson__serialize_jsonl_records and _compact: each value on a line.
JsonLines(vals, pretty) ==
  FlattenSeq([k \in 1..Len(vals) |-> Serialized(vals[k], pretty) \o <<"\n">>])

\* lonejson__map_is_rewindable_for_serialize and _field_: whether the value
\* can be written a second time.  JSON text behind a reader cannot; files and
\* descriptors seek back, memory and paths are read again.
RECURSIVE Rewindable(_)
Rewindable(val) ==
  CASE val.kind = "json"  -> ~val.reader
    [] val.kind = "map"   -> \A k \in DOMAIN val.items :
                               val.items[k].omit \/ Rewindable(val.items[k].val)
    [] val.kind = "array" -> \A k \in DOMAIN val.items : Rewindable(val.items[k])
    [] OTHER              -> TRUE

=============================================================================
