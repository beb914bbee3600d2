---------------------------- MODULE ObjectStream ----------------------------
(***************************************************************************)
(* The object stream (lonejson_stream of src/src/impl/30_api.h): objects,  *)
(* one after the other in one input, are parsed into structures of the     *)
(* application, one for each call of next.  A call that ends early leaves  *)
(* the object in progress; the next one goes on with it.                   *)
(*                                                                         *)
(* OsByte gives the next state and says whether the byte was taken from    *)
(* the buffer.  The parser of an object is a JsonVisit reader.             *)
(***************************************************************************)
EXTENDS JsonVisit

\* lonejson__stream_open_common.
OsStart(limits) ==
  [limits |-> limits, busy |-> FALSE, started |-> FALSE, dst |-> "none",
   parser |-> VisitStart("visit", limits, FALSE, FALSE), taken |-> TRUE,
   holds |-> [d \in {"d1", "d2"} |-> <<>>], code |-> "OK", result |-> "run"]

OsIdle(s, result, code) ==
  [s EXCEPT !.busy = FALSE, !.dst = "none", !.result = result, !.code = code]

\* lonejson__stream_prepare_parser, lonejson__parser_restart_stream.
Prepare(s, dst) ==
  [s EXCEPT !.busy = TRUE, !.dst = dst, !.started = FALSE, !.holds[dst] = <<>>,
            !.parser = VisitStart("visit", s.limits, FALSE, FALSE)]

\* Mutant: every call starts the parser again.
OsCall_Restarts(s, dst) == [Prepare(s, dst) EXCEPT !.result = "run"]

\* lonejson_stream_next begins.  Another destination is refused, and the
\* object stays in progress.
OsCall(s, dst) ==
  CASE ~s.busy -> [Prepare(s, dst) EXCEPT !.result = "run"]
    [] s.busy /\ s.dst = dst -> [s EXCEPT !.result = "run"]
    [] OTHER -> [s EXCEPT !.result = "ERROR", !.code = "INVALID_ARGUMENT"]

\* lonejson__parser_feed_bytes, up to the end of the object.
OsFed(s, c, p) ==
  LET t == [s EXCEPT !.started = TRUE, !.taken = TRUE, !.holds[s.dst] = Append(@, c),
                     !.parser = [p EXCEPT !.events = <<>>]] IN
  CASE p.done -> OsIdle(t, "ERROR", p.code)
    [] ~p.done /\ p.at = "trail" -> OsIdle(t, "OBJECT", "OK")
    [] OTHER -> t

OsFeed(s, c) == OsFed(s, c, VisitByte(s.parser, c))

OsByte(s, c) ==
  CASE s.started \/ c = "{" -> OsFeed(s, c)
    [] ~s.started /\ c \in Spaces -> [s EXCEPT !.taken = TRUE]
    [] OTHER -> [s EXCEPT !.taken = FALSE, !.result = "ERROR", !.code = "INVALID_JSON"]

\* The end of the input; lonejson_parser_finish refuses what has begun.
OsEof(s) ==
  IF s.started THEN OsIdle(s, "ERROR", "INVALID_JSON") ELSE [s EXCEPT !.result = "EOF"]

\* A read that fails leaves the object in progress.
OsReadError(s) == [s EXCEPT !.result = "ERROR", !.code = "IO_ERROR"]

=============================================================================
