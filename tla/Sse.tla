-------------------------------- MODULE Sse --------------------------------
(***************************************************************************)
(* The incremental Server-Sent Events parser (`lonejson_sse_*`,            *)
(* src/src/impl/34_protocol_framing_api.h), used through its callbacks     *)
(* (api = "plain") or to decode selected events as JSON (api = "json").    *)
(* Lines end with CR, LF or CRLF, and pushes may be cut anywhere.  The     *)
(* content of a line is one symbol: the data, event, id or retry field it  *)
(* carries, or a comment.                                                  *)
(***************************************************************************)
EXTENDS Integers, Sequences, FiniteSets

CONSTANTS
  DataLines,   \* lines with a data field, one byte long each
  NameLines,   \* lines with an event field: the names
  IdLines,     \* lines with an id field: the ids
  RetryLines,  \* lines with a retry field that parses: the times
  OtherLines,  \* comments, unknown fields, malformed retries, ids with a NUL
  Selected,    \* json_options.event_names; None stands for the empty name
  Args,        \* the arguments of a JSON push: [dst, runtime]
  MaxData,     \* options.max_event_data_bytes
  RawBound,    \* bound: symbols in the first stream
  LaterBound   \* bound: symbols after a dropped event, and in a later stream

\* A field the event does not have.  The callbacks are shown "", or NULL for an
\* id before the stream's first one.
None == "none"
Contents == DataLines \cup NameLines \cup IdLines \cup RetryLines \cup OtherLines
Dests == {a.dst : a \in Args}

ASSUME SseAssumption ==
  /\ Contents \cap {"CR", "LF", None, "newline"} = {}
  /\ DataLines \cap (NameLines \cup IdLines \cup RetryLines \cup OtherLines) = {}
  /\ OtherLines \cap (NameLines \cup IdLines \cup RetryLines) = {}
  /\ Selected \subseteq NameLines \cup {None}
  /\ MaxData \in Nat /\ RawBound \in Nat /\ LaterBound \in Nat

VARIABLES
  api,       \* which family of calls the client uses
  filtered,  \* the JSON options carry a list of names
  clear,     \* parse option clear_destination
  line,      \* sse->line
  sawCr,     \* sse->saw_cr
  closed,    \* sse->closed
  finishing, \* {the arguments of a sse_finish that processed the last line}
  event,     \* sse->event
  id,        \* sse->id
  retry,     \* sse->retry_ms and has_retry
  pending,   \* sse->event_pending
  started,   \* sse->event_started
  seen,      \* sse->data_seen, sse->json_data_seen
  len,       \* sse->event_data_len, sse->json_data_len
  parser,    \* {the arguments of the active JSON parser}, or {}
  locked,    \* sse->json_selection_locked
  selected,  \* sse->json_selected
  retained,  \* {sse->json_retained_dst}, or {}
  dst,       \* what each JSON destination holds; destinations are the client's
  orphans,   \* history: the destinations of events their stream was closed on
  result,    \* history: what the last call returned
  begin,     \* history: the metadata begin_event was given
  fed,       \* history: the data handed to the client or to the JSON parser
  raw,       \* history: the stream
  later,     \* history: an event was dropped, or a stream closed, before it
  log        \* history: the events dispatched

metaVars   == <<event, id, retry>>
plainVars  == <<pending, started, begin>>
destVars   == <<retained, dst, orphans>>
jsonVars   == <<parser, locked, selected, destVars>>
configVars == <<api, filtered, clear>>
frameVars  == <<line, sawCr, closed, finishing>>
eventVars  == <<metaVars, plainVars, seen, len, jsonVars, fed>>
vars == <<configVars, frameVars, eventVars, result, raw, later, log>>

Meta == [event |-> event, id |-> id, retry |-> retry]
NoMeta == [event |-> None, id |-> None, retry |-> None]

Fails == {"none", "callback", "parse", "memory"}

\* The error is returned; the event in progress is left as it is.
Failed == result' = "failed"

-----------------------------------------------------------------------------
(***************************************************************************)
(* The plain API.                                                          *)
(***************************************************************************)

\* sse_reset_event.
ResetEvent ==
  /\ event' = None /\ id' = None /\ retry' = None
  /\ pending' = FALSE /\ started' = FALSE /\ begin' = {}
  /\ seen' = FALSE /\ len' = 0 /\ fed' = <<>>

Begin_EveryTime == {Meta}

\* sse_begin_if_needed: begin_event is called once, and sees what is known.
Begin == IF started THEN begin ELSE {Meta}

\* The bytes a data line adds: a newline joins it to the data before it.
Joined == IF seen THEN <<"newline">> ELSE <<>>

\* The check against max_event_data_bytes, the newline included.
TooLong == len + Len(Joined) + 1 > MaxData

\* sse_emit_data.  The client may refuse begin_event, the newline or the data.
PlainData(data, fail) ==
  \/ /\ TooLong /\ Failed
     /\ UNCHANGED <<plainVars, seen, len, fed, log>>
  \/ /\ ~TooLong
     /\ pending' = TRUE /\ started' = TRUE /\ begin' = Begin
     /\ IF fail = "callback"
        THEN /\ Failed /\ UNCHANGED seen
             /\ \/ UNCHANGED <<len, fed>>
                \/ seen /\ len' = len + 1 /\ fed' = fed \o Joined
        ELSE /\ fed' = fed \o Joined \o <<data>>
             /\ len' = len + Len(Joined) + 1
             /\ seen' = TRUE /\ UNCHANGED result
     /\ UNCHANGED log

\* sse_emit: the event is dispatched and, if the client took it, forgotten.
PlainEmit(fail) ==
  \/ /\ ~pending
     /\ UNCHANGED <<metaVars, plainVars, seen, len, fed, result, log>>
  \/ /\ pending /\ fail = "callback"
     /\ started' = TRUE /\ begin' = Begin /\ Failed
     /\ UNCHANGED <<metaVars, pending, seen, len, fed, log>>
  \/ /\ pending /\ fail # "callback"
     /\ log' = Append(log, [begin |-> Begin, data |-> fed, len |-> len, end |-> Meta])
     /\ ResetEvent /\ UNCHANGED result

-----------------------------------------------------------------------------
(***************************************************************************)
(* The JSON API.                                                           *)
(***************************************************************************)

\* sse_json_reset_event.
JsonReset ==
  /\ parser' = {} /\ seen' = FALSE /\ len' = 0 /\ fed' = <<>>
  /\ locked' = FALSE /\ selected' = FALSE
  /\ event' = None /\ id' = None /\ retry' = None

\* sse_json_event_selected.
EventSelected == filtered => event \in Selected

\* The first data line, or the end of an event without one, decides.
Lock == /\ locked' = TRUE
        /\ selected' = IF locked THEN selected ELSE EventSelected

IsValue(d) == d = "value"

\* With clear_destination the map an event is decoded into is retained.
Retains(args) == clear /\ ~IsValue(args.dst)

\* sse_json_begin_parser, unless it is active: a value, or a map with
\* clear_destination, is emptied first, and so is the map retained before it.
Begun(args) ==
  [d \in Dests |-> IF parser # {} THEN dst[d]
                   ELSE IF args.dst = d THEN "partial"
                   ELSE IF Retains(args) /\ d \in retained THEN "empty"
                   ELSE dst[d]]

\* sse_json_cleanup_current_destination: a map is emptied only with
\* clear_destination, and else keeps what was decoded into it.
Cleaned(held, p, left) ==
  [d \in Dests |-> IF \A a \in p : a.dst # d THEN held[d]
                   ELSE IF clear \/ IsValue(d) THEN "empty" ELSE left]

\* The event is dropped with its destination, and the error returned.
JsonDrop(held, p, left) ==
  /\ dst' = Cleaned(held, p, left)
  /\ retained' = IF \E a \in p : Retains(a) THEN {} ELSE retained
  /\ orphans' = orphans \ {a.dst : a \in p}
  /\ JsonReset /\ result' = "dropped"

\* sse_json_feed_data.
JsonData(data, args, fail) ==
  \/ /\ ~(IF locked THEN selected ELSE EventSelected)
     /\ Lock
     /\ UNCHANGED <<parser, destVars, fed, len, seen, metaVars, result>>
  \/ /\ IF locked THEN selected ELSE EventSelected
     /\ \/ /\ TooLong \/ parser \notin {{}, {args}} \/ (parser = {} /\ fail = "memory")
           /\ Lock /\ Failed
           /\ UNCHANGED <<parser, destVars, fed, len, seen, metaVars>>
        \/ /\ ~TooLong /\ parser \in {{}, {args}} /\ fail = "parse"
           /\ JsonDrop(Begun(args), {args}, "partial")
        \/ /\ ~TooLong /\ parser \in {{}, {args}} /\ fail = "none"
           /\ Lock
           /\ parser' = {args} /\ dst' = Begun(args)
           /\ retained' = IF Retains(args) THEN {args.dst} ELSE retained
           /\ orphans' = orphans \ {args.dst}
           /\ fed' = fed \o Joined \o <<data>> /\ len' = len + Len(Joined) + 1
           /\ seen' = TRUE
           /\ UNCHANGED <<metaVars, result>>

Decoded == [d \in Dests |-> IF \E a \in parser : a.dst = d THEN "decoded" ELSE dst[d]]

JsonEmit_KeepsFailedDestination(args, fail) ==
  \/ ~seen /\ JsonReset /\ UNCHANGED <<destVars, result, log>>
  \/ /\ seen /\ fail = "parse"
     /\ JsonReset /\ result' = "dropped" /\ UNCHANGED <<destVars, log>>
  \/ /\ seen /\ fail = "none"
     /\ dst' = Decoded /\ UNCHANGED <<retained, orphans>>
     /\ log' = Append(log, [data |-> fed, len |-> len, end |-> Meta])
     /\ JsonReset /\ UNCHANGED result

JsonEmit_SelectionKept(args, fail) ==
  \/ /\ ~seen
     /\ UNCHANGED <<jsonVars, metaVars, seen, len, fed, result, log>>
  \/ /\ seen /\ fail = "none"
     /\ dst' = Decoded /\ UNCHANGED <<retained, orphans>>
     /\ log' = Append(log, [data |-> fed, len |-> len, end |-> Meta])
     /\ JsonReset /\ UNCHANGED result

\* sse_json_emit.  An event without data, id, name and retry is no event: it
\* returns at once.  Of the arguments of the call that ends the event only the
\* runtime is compared with the event's own.
JsonEmit(args, fail) ==
  \/ /\ ~seen /\ Meta = NoMeta
     /\ UNCHANGED <<jsonVars, metaVars, seen, len, fed, result, log>>
  \/ /\ ~seen /\ Meta # NoMeta
     /\ JsonReset /\ UNCHANGED <<destVars, result, log>>
  \/ /\ seen /\ UNCHANGED log
     /\ \/ (\E a \in parser : a.runtime # args.runtime) /\ JsonDrop(dst, parser, "partial")
        \/ fail = "parse" /\ JsonDrop(dst, parser, "partial")
        \/ /\ \A a \in parser : a.runtime = args.runtime
           /\ fail = "callback" /\ JsonDrop(dst, parser, "decoded")
  \/ /\ seen /\ fail = "none"
     /\ \A a \in parser : a.runtime = args.runtime
     /\ dst' = Decoded /\ UNCHANGED <<retained, orphans>>
     /\ log' = Append(log, [data |-> fed, len |-> len, end |-> Meta])
     /\ JsonReset /\ UNCHANGED result

-----------------------------------------------------------------------------
(***************************************************************************)
(* sse_process_line and sse_json_process_line.                             *)
(***************************************************************************)
Emit(args, fail) ==
  IF api = "plain" THEN PlainEmit(fail) /\ UNCHANGED jsonVars
                   ELSE JsonEmit(args, fail) /\ UNCHANGED plainVars

Data(data, args, fail) ==
  IF api = "plain" THEN PlainData(data, fail) /\ UNCHANGED <<jsonVars, metaVars>>
                   ELSE JsonData(data, args, fail) /\ UNCHANGED <<plainVars, log>>

\* An event field after data would come too late for the filter.
NameTooLate(l) == api = "json" /\ l \in NameLines /\ seen /\ filtered

\* event, id and retry fields.  A failed append leaves the field empty.
Field(l, fail) ==
  \/ /\ NameTooLate(l) /\ Failed
     /\ UNCHANGED <<metaVars, plainVars, jsonVars, seen, len, fed, log>>
  \/ /\ ~NameTooLate(l)
     /\ LET broken == fail = "memory" /\ l \in NameLines \cup IdLines
            value  == IF broken THEN None ELSE l IN
        /\ event' = IF l \in NameLines THEN value ELSE event
        /\ id' = IF l \in IdLines THEN value ELSE id
        /\ retry' = IF l \in RetryLines THEN value ELSE retry
        /\ pending' = (pending \/ (api = "plain" /\ l \notin OtherLines))
        /\ IF broken THEN Failed ELSE UNCHANGED result
     /\ UNCHANGED <<started, begin, jsonVars, seen, len, fed, log>>

ProcessLine(args, fail) ==
  \/ line = <<>> /\ Emit(args, fail)
  \/ \E l \in DataLines : line = <<l>> /\ Data(l, args, fail)
  \/ \E l \in Contents \ DataLines : line = <<l>> /\ Field(l, fail)

-----------------------------------------------------------------------------
(***************************************************************************)
(* sse_feed_char, sse_push and sse_finish.  A client that was told that an *)
(* event was dropped goes on with the next event; after another error it   *)
(* gives up.                                                               *)
(***************************************************************************)
Accepting ==
  /\ ~closed /\ finishing = {} /\ result = "ok"
  /\ Len(raw) < (IF later THEN LaterBound ELSE RawBound)

\* The stream the events are judged by: it starts anew after an error.
Note(ch) == raw' = IF result' = "ok" THEN Append(raw, ch) ELSE <<>>

\* LF ends a line, by itself or after the line's CR.
FeedLf(args, fail) ==
  /\ Accepting
  /\ ProcessLine(args, fail)
  /\ line' = <<>> /\ sawCr' = FALSE
  /\ Note("LF") /\ UNCHANGED <<configVars, closed, finishing, later>>

\* Anything but LF after a CR: the line ended at the CR.
FeedAfterCr(ch, args, fail) ==
  /\ Accepting /\ sawCr
  /\ ProcessLine(args, fail)
  /\ sawCr' = (ch = "CR" /\ result' = "ok")
  /\ line' = IF result' = "ok" /\ ch # "CR" THEN <<ch>> ELSE <<>>
  /\ Note(ch) /\ UNCHANGED <<configVars, closed, finishing, later>>

FeedCr ==
  /\ Accepting /\ ~sawCr
  /\ sawCr' = TRUE
  /\ raw' = Append(raw, "CR")
  /\ UNCHANGED <<configVars, line, closed, finishing, eventVars, result, later, log>>

\* The bytes of a line; the line may be too long, or memory short.
FeedContent(l, fail) ==
  /\ Accepting /\ ~sawCr /\ line = <<>>
  /\ IF fail = "memory" THEN Failed /\ UNCHANGED line
                        ELSE line' = <<l>> /\ UNCHANGED result
  /\ Note(l)
  /\ UNCHANGED <<configVars, sawCr, closed, finishing, eventVars, later, log>>

\* sse_finish, first half: the line that was not ended.  No other call comes
\* between the two halves.
FinishLine(args, fail) ==
  /\ ~closed /\ finishing = {} /\ result = "ok" /\ (sawCr \/ line # <<>>)
  /\ ProcessLine(args, fail)
  /\ line' = <<>> /\ sawCr' = FALSE
  /\ finishing' = IF result' = "ok" THEN {args} ELSE {}
  /\ UNCHANGED <<configVars, closed, raw, later>>

\* sse_finish, second half: the event that was not ended.
FinishEmit(args, fail) ==
  /\ ~closed /\ result = "ok" /\ ~sawCr /\ line = <<>>
  /\ finishing \in {{}, {args}}
  /\ Emit(args, fail)
  /\ closed' = (result' = "ok") /\ finishing' = {}
  /\ UNCHANGED <<configVars, line, sawCr, raw, later>>

\* The next push after a dropped event starts with the event after it.
Resume ==
  /\ result = "dropped"
  /\ result' = "ok" /\ raw' = <<>> /\ later' = TRUE /\ log' = <<>>
  /\ UNCHANGED <<configVars, frameVars, eventVars>>

\* sse_open.
Init ==
  /\ api \in {"plain", "json"} /\ filtered \in BOOLEAN /\ clear \in BOOLEAN
  /\ api = "plain" => ~filtered /\ ~clear
  /\ line = <<>> /\ sawCr = FALSE /\ closed = FALSE /\ finishing = {}
  /\ event = None /\ id = None /\ retry = None
  /\ pending = FALSE /\ started = FALSE /\ begin = {}
  /\ seen = FALSE /\ len = 0
  /\ parser = {} /\ locked = FALSE /\ selected = FALSE
  /\ retained = {} /\ dst = [d \in Dests |-> "empty"] /\ orphans = {}
  /\ result = "ok" /\ fed = <<>> /\ raw = <<>> /\ later = FALSE /\ log = <<>>

\* sse_close, and the client opens the next stream with the same destinations:
\* close leaves them as they are, one with an event in progress half-decoded.
Close ==
  /\ closed \/ result = "failed"
  /\ line' = <<>> /\ sawCr' = FALSE /\ closed' = FALSE /\ finishing' = {}
  /\ ResetEvent
  /\ parser' = {} /\ locked' = FALSE /\ selected' = FALSE
  /\ retained' = {} /\ orphans' = orphans \cup {a.dst : a \in parser}
  /\ result' = "ok" /\ raw' = <<>> /\ later' = TRUE /\ log' = <<>>
  /\ UNCHANGED <<configVars, dst>>

Next ==
  \/ \E args \in Args, fail \in Fails :
       \/ FeedLf(args, fail)
       \/ \E ch \in Contents \cup {"CR"} : FeedAfterCr(ch, args, fail)
       \/ FinishLine(args, fail)
       \/ FinishEmit(args, fail)
  \/ \E l \in Contents, fail \in Fails : FeedContent(l, fail)
  \/ FeedCr \/ Resume \/ Close

Spec == Init /\ [][Next]_vars

-----------------------------------------------------------------------------
(***************************************************************************)
(* What a stream means, independently of how it is parsed: CR, LF and CRLF *)
(* end a line, an empty line ends an event, and the fields of an event are *)
(* those between two empty lines.                                          *)
(***************************************************************************)
EndsLine(s, i) == s[i] = "CR" \/ (s[i] = "LF" /\ (i = 1 \/ s[i - 1] # "CR"))
EmptyLine(s, i) == EndsLine(s, i) /\ (i = 1 \/ s[i - 1] \notin Contents)
EventNumber(s, i) == Cardinality({j \in 1..(i - 1) : EmptyLine(s, j)})

\* The elements of s at the places in S, in their order.
Chosen(s, S) ==
  LET upto[k \in 0..Len(s)] ==
        IF k = 0 THEN <<>>
        ELSE IF k \in S THEN Append(upto[k - 1], s[k]) ELSE upto[k - 1]
  IN  upto[Len(s)]

\* The field lines of the k-th event.
EventLines(s, k) ==
  Chosen(s, {i \in 1..Len(s) : s[i] \in Contents /\ EventNumber(s, i) = k})

\* Where the lines of an event that carry a field are, and the last of them.
Places(g, S) == {j \in 1..Len(g) : g[j] \in S}
LastOf(g, S) ==
  IF Places(g, S) = {} THEN None
  ELSE g[CHOOSE j \in Places(g, S) : \A i \in Places(g, S) : i <= j]

MetaOf(g) ==
  [event |-> LastOf(g, NameLines), id |-> LastOf(g, IdLines),
   retry |-> LastOf(g, RetryLines)]

\* The data lines, joined by newlines.
HasData(g) == Places(g, DataLines) # {}
DataOf(g) ==
  LET d == Chosen(g, Places(g, DataLines))
  IN  [j \in 1..(IF d = <<>> THEN 0 ELSE 2 * Len(d) - 1) |->
         IF j % 2 = 1 THEN d[(j + 1) \div 2] ELSE "newline"]

\* The lines up to the first data line, or all of them.
FirstData(g) ==
  CHOOSE j \in Places(g, DataLines) : \A i \in Places(g, DataLines) : j <= i
BeforeData(g) == IF HasData(g) THEN SubSeq(g, 1, FirstData(g) - 1) ELSE g

AllEvents(s) == [k \in 1..(EventNumber(s, Len(s) + 1) + 1) |-> EventLines(s, k - 1)]

\* Comments alone are no event.
IsEvent(g) == \E j \in 1..Len(g) : g[j] \notin OtherLines
PlainEvent(g) == [begin |-> {MetaOf(BeforeData(g))}, data |-> DataOf(g),
                  len |-> Len(DataOf(g)), end |-> MetaOf(g)]
PlainEvents(all) ==
  LET chosen == Chosen(all, {k \in 1..Len(all) : IsEvent(all[k])})
  IN  [k \in 1..Len(chosen) |-> PlainEvent(chosen[k])]
PlainReference(s) == PlainEvents(AllEvents(s))

Matching(g) == filtered => MetaOf(BeforeData(g)).event \in Selected
JsonEvent(g) == [data |-> DataOf(g), len |-> Len(DataOf(g)), end |-> MetaOf(g)]
JsonEvents(all) ==
  LET chosen == Chosen(all, {k \in 1..Len(all) : HasData(all[k]) /\ Matching(all[k])})
  IN  [k \in 1..Len(chosen) |-> JsonEvent(chosen[k])]
JsonReference(s) == JsonEvents(AllEvents(s))

\* The events dispatched so far, out of those the stream holds.
Agrees(reference) == /\ log = SubSeq(reference, 1, Len(log))
                     /\ closed => log = reference

-----------------------------------------------------------------------------

\* However the stream is cut and whichever line ends it uses, the callbacks
\* see exactly its events: begin_event once, with the metadata known by then,
\* the data joined by newlines, end_event with all of the metadata; no event
\* has more data, joining newlines counted, than max_event_data_bytes.
PlainEventsFaithful ==
  /\ Len(fed) <= MaxData
  /\ api = "plain" /\ result = "ok" => Agrees(PlainReference(raw))

\* An unselected event with nothing but data, which sse_json_emit takes for no
\* event at all: what follows it is not what the reference says.
BareUnselected(s) ==
  \E k \in 0..EventNumber(s, Len(s) + 1) :
    LET g == EventLines(s, k) IN
    HasData(g) /\ ~Matching(g) /\ MetaOf(g) = NoMeta

\* The JSON callback gets each event the filter selects, with all of its data,
\* also after an event whose data or callback failed.
JsonEventsFaithful ==
  api = "json" /\ result = "ok" /\ ~BareUnselected(raw) => Agrees(JsonReference(raw))

\* The same without the exception: what include/lonejson.h:2149 says of the
\* filter.
JsonFilterExact == api = "json" /\ result = "ok" => Agrees(JsonReference(raw))

\* An event that fails leaves no half-decoded result behind: a destination is
\* half-decoded only while its event is in progress, if it is a map that
\* clear_destination does not empty, or if its stream was closed on the event
\* and no other event was decoded into it since.
NoPartialResult ==
  \A d \in Dests : dst[d] = "partial" =>
    \/ \E a \in parser : a.dst = d
    \/ ~clear /\ ~IsValue(d)
    \/ d \in orphans

=============================================================================
