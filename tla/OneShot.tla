------------------------------ MODULE OneShot ------------------------------
(***************************************************************************)
(* The one-shot serializers that fill memory: lonejson_serialize_buffer    *)
(* and _jsonl_buffer into a buffer of the caller, lonejson_serialize_owned,*)
(* _alloc and their JSONL forms into a buffer that grows                   *)
(* (src/src/impl/23_serializer_io.h, 30_api.h).                            *)
(*                                                                         *)
(* The serializer hands its text to the buffer piece by piece.  Where one  *)
(* piece ends is a detail of each kind of value: here a piece is any       *)
(* beginning of what is left.  The count of the bytes needed is not        *)
(* bounded: no text is as long as SIZE_MAX.                                *)
(***************************************************************************)
EXTENDS Integers, Sequences, FiniteSetsExt

CONSTANTS
  Shots,           \* the calls: [text, good, into, room, policy]
  FirstCapacity,   \* the first allocation of a growing buffer, 2048
  SizeMax          \* SIZE_MAX

\* The calls there are: a caller's buffer has any capacity, an owned one a
\* limit that is never 0, which stands for LONEJSON_WRITE_MAX_OUTPUT_BYTES
\* (lonejson__write_max_output_bytes).
ShotCalls ==
  [into : {"buffer"}, text : Seq(STRING), good : BOOLEAN, room : 0..SizeMax,
   policy : {"fail", "truncate", "silent"}]
    \cup [into : {"owned"}, text : Seq(STRING), good : BOOLEAN, room : 1..SizeMax,
          policy : {"none"}]

ASSUME OneShotAssumption ==
  /\ SizeMax \in Nat /\ FirstCapacity \in 1..SizeMax
  /\ Shots \subseteq ShotCalls

VARIABLE shot      \* the call, its lonejson_buffer_sink and its status

NoShot == [status |-> "none"]

\* The call begins.  room is the capacity of a caller's buffer, which must
\* not be 0, or max_output_bytes.
ShotStart(j) ==
  [job |-> j, out |-> <<>>, needed |-> 0, truncated |-> FALSE, capacity |-> 0,
   status |-> IF j.into = "buffer" /\ j.room = 0 THEN "INVALID_ARGUMENT" ELSE "running"]

ShotEnds(s, status) == [s EXCEPT !.status = status]

\* Bytes a fixed buffer still takes; the last one is for the terminator.
Writable(s) == s.job.room - Len(s.out) - 1

Copied_WholePieces(s, piece) == IF Len(piece) > Writable(s) THEN 0 ELSE Len(piece)

Copied(s, piece) == Min({Len(piece), Writable(s)})

\* lonejson__sink_buffer: as much as fits.  LONEJSON_OVERFLOW_TRUNCATE stops
\* the serializer, but not in the middle of a JSON value, whose transcoder
\* goes on; the silent policy never does.
PutTruncated(s, piece) ==
  LET t == [s EXCEPT !.out = @ \o SubSeq(piece, 1, Copied(s, piece)),
                     !.needed = @ + Len(piece),
                     !.truncated = @ \/ Len(piece) > Writable(s)] IN
  {t} \cup (IF Len(piece) > Writable(s) /\ s.job.policy = "truncate"
            THEN {ShotEnds(t, "TRUNCATED")} ELSE {})

\* lonejson__sink_buffer_exact and lonejson__buffer_emit_exact: all of the
\* piece or an error.
PutExact(s, piece) ==
  LET t == [s EXCEPT !.needed = @ + Len(piece)] IN
  IF Len(piece) > Writable(s) THEN {ShotEnds([t EXCEPT !.truncated = TRUE], "OVERFLOW")}
  ELSE {[t EXCEPT !.out = @ \o piece]}

\* The capacity lonejson__buffer_reserve_grow asks for: doubled until it is
\* enough, or just enough when a size_t cannot be doubled any more.
GrownCapacity(s, required) ==
  LET first == IF s.capacity = 0 THEN FirstCapacity ELSE s.capacity
      enough == {first * 2^k : k \in 0..required} \cap required..SizeMax IN
  Min({IF enough = {} THEN required ELSE Min(enough), s.job.room + 1})

\* A growing buffer is freed when the call fails.
ShotFreed(s, status) == [ShotEnds(s, status) EXCEPT !.out = <<>>, !.capacity = 0]

\* lonejson__sink_grow and lonejson__buffer_emit_grow.  A limit of SIZE_MAX
\* leaves no room for the terminator: every allocation is refused.
PutGrown(s, piece) ==
  LET required == Len(s.out) + Len(piece) + 1
      t == [s EXCEPT !.out = @ \o piece, !.needed = @ + Len(piece)] IN
  IF required - 1 > s.job.room \/ (required > s.capacity /\ s.job.room = SizeMax)
  THEN {ShotFreed(s, "OVERFLOW")}
  ELSE IF required <= s.capacity THEN {t}
  ELSE {[t EXCEPT !.capacity = GrownCapacity(s, required)],
        ShotFreed(s, "ALLOCATION_FAILED")}

\* What is still to be handed over: after a truncation the text goes on
\* behind the end of the buffer.
ShotLeft(s) == SubSeq(s.job.text, s.needed + 1, Len(s.job.text))

ShotPuts(s, piece) ==
  CASE s.job.into = "owned" -> PutGrown(s, piece)
    [] s.job.into = "buffer" /\ s.job.policy = "fail" -> PutExact(s, piece)
    [] OTHER -> PutTruncated(s, piece)

\* The next piece is written.
ShotPut ==
  /\ shot.status = "running" /\ ShotLeft(shot) # <<>>
  /\ \E n \in 1..Len(ShotLeft(shot)) :
       shot' \in ShotPuts(shot, SubSeq(ShotLeft(shot), 1, n))

\* A value cannot be written: a source fails, a JSON value is not JSON, a
\* number is not finite.
ShotFails ==
  /\ shot.status = "running" /\ ~shot.job.good
  /\ shot' = IF shot.job.into = "owned" THEN ShotFreed(shot, "FAILED")
             ELSE ShotEnds(shot, "FAILED")

\* lonejson__serialize_buffer_with_options and _owned_with_options return: a
\* truncation that no status has told yet is told now.
ShotReturns ==
  /\ shot.status = "running" /\ shot.job.good /\ ShotLeft(shot) = <<>>
  /\ shot' = ShotEnds(shot, IF shot.truncated /\ shot.job.policy = "truncate"
                            THEN "TRUNCATED" ELSE "OK")

ShotStep == ShotPut \/ ShotFails \/ ShotReturns

ShotInit == shot = NoShot \/ \E j \in Shots : shot = ShotStart(j)

ShotSpec == ShotInit /\ [][ShotStep]_shot

-----------------------------------------------------------------------------

\* A caller's buffer holds a beginning of the text and room for the byte that
\* ends it, whatever pieces did not fit before others that would have: all of
\* it on OK, unless the policy cuts silently, and then `needed` is the size
\* that would have done; exactly as much as fits on TRUNCATED.  An error
\* about the size is only given for a text that is too long.
FixedExact ==
  LET text == shot.job.text
      most == shot.job.room - 1 IN
  shot.job.into = "buffer" /\ shot.job.room > 0 =>
    /\ shot.out = SubSeq(text, 1, Len(shot.out)) /\ Len(shot.out) <= most
    /\ shot.status = "OK" => /\ shot.needed = Len(text)
                             /\ Len(text) > most => shot.job.policy = "silent"
    /\ shot.status \in {"OK", "TRUNCATED"} =>
         Len(shot.out) = Min({Len(text), most})
    /\ shot.status \in {"TRUNCATED", "OVERFLOW"} => most < Len(text) /\ most < shot.needed

\* A growing buffer holds the whole text, with room for the byte that ends
\* it and never more than max_output_bytes and that byte, or nothing at all;
\* it is refused only when it would have been longer, or when the limit is
\* SIZE_MAX.
GrownExact ==
  LET text == shot.job.text IN
  shot.job.into = "owned" =>
    /\ shot.capacity <= shot.job.room + 1
    /\ shot.out # <<>> => Len(shot.out) < shot.capacity
    /\ shot.status = "OK" => shot.out = text
    /\ shot.status = "OVERFLOW" => Len(text) > shot.job.room \/ shot.job.room = SizeMax
    /\ shot.status \notin {"OK", "running"} => shot.out = <<>> /\ shot.capacity = 0

\* The one-shot calls (lonejson_serialize_buffer, _owned, _alloc and their
\* JSONL forms) give all of the text or say how it was cut.
BufferExact == shot.status # "none" => FixedExact /\ GrownExact

=============================================================================
