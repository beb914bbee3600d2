------------------------------- MODULE Output -------------------------------
(***************************************************************************)
(* Everything lonejson hands out as JSON text: a writer with a sink, a     *)
(* writer behind a generator, a mapped generator, read by a consumer in    *)
(* pieces of any size or by curl as the body of an upload, and the one-    *)
(* shot calls that fill a buffer.  The generators are shown to be byte     *)
(* pipes (module BytePipe), and their text the one of the serializer.      *)
(***************************************************************************)
EXTENDS Writer, Serializer, OneShot

CONSTANTS
  Documents,          \* the mapped values to generate: [val, pretty, good]
  MappedCapacities,   \* capacities of the reads of a mapped generator
  MaxRewinds          \* bound: times an upload is sent again

VARIABLES
  doc,      \* the mapped value, the text to be generated for it, whether
            \* all JSON text in it is JSON, and the rewinds left
  mapped    \* lonejson__generator_state and its read in progress

vars == <<mode, w, gen, call, written, got, eof, broken, doc, mapped, shot>>
mappedVars == <<doc, mapped, shot>>

NoDocument == [text |-> <<>>, good |-> TRUE, again |-> FALSE, left |-> 0]

\* lonejson_curl_upload_init and lonejson_generator_init: a generator of the
\* document, which an upload can rewind if its value can be read again.
UploadOf(d) ==
  [val |-> d.val, pretty |-> d.pretty, good |-> d.good,
   text |-> Generated(d.val, d.pretty), again |-> Rewindable(d.val),
   left |-> MaxRewinds]

Init ==
  /\ WriterInit
  /\ \/ /\ mode \in {"sink", "generator"}
        /\ doc = NoDocument
        /\ mapped = NoChild /\ shot = NoShot
     \/ /\ mode = "buffer"
        /\ doc = NoDocument /\ mapped = NoChild
        /\ \E j \in Shots : shot = ShotStart(j)
     \/ /\ mode = "mapped" /\ shot = NoShot
        /\ \E d \in Documents :
             /\ doc = UploadOf(d)
             /\ mapped = GenInit(d.val, d.pretty)

\* lonejson_generator_read: the call, and a turn of its loop.  A read that
\* fails reports no bytes, and the consumer gives up, as lonejson_curl_read_
\* callback makes curl do (CURL_READFUNC_ABORT).
MappedRead(cap) ==
  /\ mode = "mapped" /\ ~mapped.reading /\ mapped.err = "ok" /\ ~eof
  /\ mapped' = GenRead(mapped, cap)
  /\ UNCHANGED <<mode, w, gen, call, written, got, eof, broken, doc, shot>>

MappedTurn ==
  /\ mode = "mapped" /\ mapped.reading
  /\ \E g \in GenTurn(mapped) :
       IF g.reading \/ g.err # "ok" THEN mapped' = g /\ UNCHANGED <<got, eof>>
       ELSE /\ mapped' = [g EXCEPT !.out = <<>>]
            /\ got' = got \o g.out
            /\ eof' = GenEof(g)
  /\ UNCHANGED <<mode, w, gen, call, written, broken, doc, shot>>

\* lonejson_curl_seek_callback: curl sends the body again, after a redirect,
\* an authentication round or a broken connection, from the middle of the
\* upload, after its end or after an error (lonejson_curl_upload_rewind).  The
\* old generator goes with its frames, its pending output and its cursors; a
\* replacement that cannot be allocated leaves it as it is.
Rewind ==
  /\ mode = "mapped" /\ ~mapped.reading
  /\ doc.again /\ doc.left > 0
  /\ mapped' = GenInit(doc.val, doc.pretty)
  /\ got' = <<>> /\ eof' = FALSE
  /\ doc' = [doc EXCEPT !.left = @ - 1]
  /\ UNCHANGED <<mode, w, gen, call, written, broken, shot>>

WriterStep == WriterNext /\ UNCHANGED mappedVars

\* A one-shot call goes on.
Fills ==
  /\ mode = "buffer"
  /\ ShotStep
  /\ UNCHANGED <<mode, w, gen, call, written, got, eof, broken, doc, mapped>>

Next == WriterStep \/ (\E cap \in MappedCapacities : MappedRead(cap)) \/ MappedTurn
        \/ Rewind \/ Fills

\* The code runs to the end of every call once it was made; the consumer
\* reads on, and not with empty buffers for ever.  A turn of a generator's
\* loop is possible whenever it is reading, so its weak fairness is written
\* without ENABLED, which TLC evaluates slowly on it.
Turning == mapped.reading \/ w.child.reading

Fairness ==
  /\ WF_vars(CallStep /\ UNCHANGED mappedVars)
  /\ WF_vars(Fills)
  /\ WF_vars(ReadLoop /\ UNCHANGED mappedVars)
  /\ ([]<>~Turning) \/ []<><<MappedTurn \/ ChildTurn>>_vars
  /\ SF_vars(\E cap \in Capacities \ {0} : ReadStart(cap) /\ UNCHANGED mappedVars)
  /\ SF_vars(\E cap \in MappedCapacities \ {0} : MappedRead(cap))

Spec == Init /\ [][Next]_vars /\ Fairness

(***************************************************************************)
(* Properties.                                                             *)
(***************************************************************************)

Text == GrammarRun(GrammarStart(FALSE), written)

\* Between calls the writer's own account of the document is true of the
\* bytes it has written: the open containers, whether a key awaits its value
\* or a string its end, and whether a comma is due (lonejson__writer_before_
\* value, key, end_object, push_frame).  Nothing else decides whether the next
\* call is accepted, so a wrong account is invalid JSON later on.  A reader or a
\* source that fails, and a stack or a child that cannot be allocated, stop the
\* call in the middle of its text without poisoning the writer: from then on
\* the account is not the text's, and the property says nothing.
FramesDescribeText ==
  (/\ call.op = "none" /\ mode # "mapped" /\ ~w.failed /\ ~broken
   /\ w.ev.phase = 0 /\ ~w.streamOpen) =>
    /\ Text.stack = [k \in 1..Len(w.frames) |-> w.frames[k].kind]
    /\ CASE w.strOpen -> Text.ctl = "string" /\ ~Text.key
         [] ~w.strOpen /\ w.numOpen -> Text.ctl \in {"root", "firstItem", "item", "value"}
         [] ~w.strOpen /\ ~w.numOpen /\ w.frames = <<>> ->
              IF w.rootWritten THEN Complete(Text) ELSE written = <<>>
         [] OTHER ->
              IF AfterKey(w) THEN Text.ctl = "value"
              ELSE Last(w.frames).any <=>
                     Text.ctl \notin {"firstKey", "firstItem"}

\* lonejson_writer_finish and a read that reports the end vouch for exactly
\* one complete JSON value, whatever calls were refused, truncated and made
\* again, whatever streams were opened, fed and abandoned before, as long as no
\* call stopped in the middle of its text without poisoning the writer.
FinishMeansComplete == (w.finished /\ ~broken) => Complete(Text) /\ ~w.failed

\* The same after any call: lonejson_writer_finish "validates that exactly one
\* complete JSON value was emitted and all containers were closed".  It asks
\* only for the root, the frames and what is open: after begin_object could not
\* grow the stack, or a child's source failed, it accepts what is written.
FinishVouches == w.finished => Complete(Text)

\* A read that returns fewer bytes than asked for is the last one
\* (lonejson_generator_read): a consumer may take a short read for the end,
\* and curl, told only of the bytes, does.  A rewind is no read.
ShortReadEnds ==
  [][(got' # got \/ eof' # eof) =>
       \/ eof' \/ (mode = "mapped" /\ ~mapped.reading)
       \/ Len(got') - Len(got) = (IF mode = "mapped" THEN mapped.cap ELSE gen.cap)]_vars

\* Both generators are byte pipes.  What goes into a mapped one is the text
\* of the one-shot serializer, with the lines of its JSON values one level less
\* deep (lonejson__generator_prepare_json_owner), which lonejson_generator_
\* measure, a run of the serializer, does not count; a document with a JSON value
\* that is no JSON never ends.  An upload that is rewound sends the same text
\* again from its first byte.
Produced == IF mode = "mapped" THEN doc.text ELSE written
Ready == IF mode = "mapped" THEN doc.good ELSE gen.done

Pipe == INSTANCE BytePipe WITH in <- Produced, out <- got, closed <- Ready, ended <- eof,
                           replays <- doc.again

PipeRefined == Pipe!PipeSpec

\* No call waits for ever: a writer call in generator mode is truncated only
\* as long as the consumer's buffers are the reason, and a mapped generator
\* comes to its end or to an error.
OutputProgress ==
  /\ (mode = "generator" /\ call.op # "none") ~> (call.op = "none")
  /\ (mode = "buffer") ~> (shot.status # "running")
  /\ (mode = "mapped") ~> (eof \/ mapped.err # "ok")

=============================================================================
