# A TLA+ model of lonejson

lonejson is a C library that parses and writes JSON incrementally: input comes
in pieces of any size, output goes to sinks or small buffers, and large values
spill to disk.  This directory models the parts of it whose correctness depends
on order, on interleaving or on failures: TLA+ modules, TLC configurations that
check small instances, and TLAPS proofs for all instances.  Line numbers are
those of `src/`.

## Inventory

| Component (files in `src/src/impl`) | State | Operations | What is hard |
|---|---|---|---|
| Runtime handles (`30_api.h`) | live list, generation counter, per runtime `active_pins`, `closing`, token | `lonejson_new`, `lonejson_free`, borrow/release around every API call, snapshots, provider setters | threads race with free; lock-free owner path; address reuse; drain loop |
| Allocator and parse ceiling (`00_prelude.h`) | statistics, block headers with their owner, bytes charged to a parse | alloc, realloc, free, note, adopt, detach | shared counters; ceiling over failed growths; blocks that outlive a parse |
| Spooled values (`00_prelude.h`) | memory prefix, temporary file, size, read cursor | append, read, rewind, sink, reset, cleanup | boundary between memory and file; partial failures; temp files |
| Parser engine (`20_parser.h`, `22_*`) | frame stack, token state, pending bytes | feed, finish, destroy | tokens cut anywhere; depth; clean-up after errors |
| Mapping and values (`20_parser_map.h`, `21_parser_values.h`) | field masks, arrays, strings | begin/assign/end of fields | required and duplicate fields; overflow policies; numbers |
| json_value (`11`-`14`) | handle: compact text or a source; cursor, path and limits of a visit | set, parse, visit, write | text cut anywhere; limits; a handle that changes only as a whole |
| Array rewrite (`37`), value rewrite (`39`) | capture, parents, comma state, path | the visitor's callbacks | commas after dropped items; missing members; failing sinks |
| Array stream (`33`), object stream (`30_api.h`) | phase, pushback, item parser, read-ahead | open, next, push, finish, curl callback | stop and resume anywhere; destinations; errors inside an item |
| Serializer (`23`, `24`), one-shot calls (`30_api.h`) | buffer, `needed`, policy | serialize into fixed and owned buffers, JSON lines | a full buffer; terminator; limits |
| Writer (`38`) | frames, event in progress, value stream, poisoned flag | begin/end/key/value, readers, value streams, children, finish | calls that are cut and made again; failures of the sink |
| Generator (`32`), pull reader (`25`, `35`), curl upload (`36`) | frames, pending output, one shared I/O buffer | read into a buffer, rewind | resuming anywhere in a token |
| Multipart parser (`34_protocol_framing_api.h`) | phase, line, lookahead, part headers, remaining length | push, finish, close | delimiters cut by pushes; bounded lookahead; failing callbacks |
| SSE parser (same file) | line, event fields, JSON parser, filter lock | push, finish, JSON push and finish, close | CR/LF split over pushes; state that leaks from one event to the next |
| Authentication (`40_auth_api.h`) | token flow, key cache, refreshes under way; credential store of the application | login, redeem, ensure, refresh, revoke; fetch keys, validate; generate, sign up, verify | lost answers, rotation, restarts; stale and foreign keys; revoked credentials |
| Sources (`10`), base64 (`09`) | offset | read, encode, decode | inside the generator |
| Lua binding | none of its own | marshalling | input and output |

Interactions: every public call borrows the runtime (handles); parsers write
into spooled values and json_values; the SSE parser runs the parser engine on
the data of an event; the generator reads sources, spooled values and
json_values through the pull reader; a writer runs a generator for a mapped
child and sits behind another one when it is pulled; the rewriters are visitors
in front of a sink or a writer.  A runtime is shared by threads; every other
handle is used by one thread at a time (include/lonejson.h:2934-2949), so only
the registry, the allocator statistics and the providers are concurrent.

`PROJECT.json` lists the hazards of this code with the properties that address
them, and for each definition the lines it models.

## Modules

| Module | Models | Checked by |
|---|---|---|
| `RuntimeHandles`, `MCRuntimeHandles` | the live-handle registry | run `handles` |
| `RuntimeHandlesProofs`, `SpooledProofs`, `AllocatorProofs`, `ParserEngineProofs`, `MultipartProofs`, `SseProofs`, `OutputProofs`, `AuthProofs` | theorems about the modules they extend | TLAPS |
| `Multipart`, `MCMultipart` | `lonejson_multipart_*` | runs `values`, `multipart_delimiter` |
| `Sse`, `MCSse` | `lonejson_sse_*` | runs `sse`, `sse_filter` |
| `JsonGrammar` | reference: RFC 8259 as an automaton over bytes | compared with the engine and the writer |
| `JsonText` | numbers, escapes and UTF-8, as all readers and writers treat them | used by the modules below |
| `ParserEngine`, `MCParserEngine` | `lonejson_parser_feed`, `lonejson_parser_finish` and the mapping of integer fields | runs `parser`, `parser_truncate`, `parser_key` |
| `Serializer` | the text of a mapped value, compact, indented and as JSON lines, as the serializer and as the generator write it | reference of `Generator`; texts of `OneShot` |
| `JsonPull`, `Generator` | the pull reader; the mapped generator and its turns | run `output` |
| `Writer` | the writer, with a sink and behind a generator | run `output` |
| `OneShot` | the calls that serialize into a fixed or an owned buffer | run `output` |
| `BytePipe` | abstract: what a generator promises its consumer | refined by `Output` and `Writer` |
| `Output`, `MCOutput` | composition: writer, generators, curl uploads, one-shot calls | runs `output`, `writer_finish` |
| `JsonTree` | reference: JSON values as trees, their text, callbacks and rewritten forms | compared with the readers |
| `JsonVisit` | the visitor and the transcoder of json_value | run `values` |
| `ArrayRewrite`, `ValueRewrite` | the two rewriters, as visitors | run `values` |
| `Reading` | calls that read one value: visits, rewrites, the json_value handle | runs `values`, `rewrite_selector` |
| `ArrayStream`, `ObjectStream`, `Streams` | the two kinds of stream and their use | run `values` |
| `Allocator` | statistics and parse ceiling | run `values` |
| `Spooled`, `Values`, `MCValues` | `lonejson_spooled`; composition of the parts that carry values | run `values` |
| `Jwt`, `AuthTime` | tokens, keys and claims as pure functions; the caller's clock | run `auth` |
| `TokenFlow`, `Bearer`, `M2m` | client flow, bearer validation with its key cache, machine credentials | run `auth` |
| `Auth`, `MCAuth` | composition of these | run `auth` |

`Values` and `Auth` each hold parts that share no state in the code.  A
behaviour of theirs works with one part, chosen in the initial state: an
interleaving of parts that share nothing shows nothing that each part alone
does not.

An operator with a suffix after an underscore (`Release_Twice`) is a mutated
form of the operator without it.  It is used by no specification; replacing the
body of the original by it must make TLC report the property it is paired with
in `PROJECT.json`.

### RuntimeHandles

A runtime is one allocation (the bundle): wrapper, state and registry entry.
A thread runs a stack of calls, one frame each; a call at depth d+1 is made
from a callback of the call at depth d.  Sections under the registry spin lock
are one step.  The owner path of `borrow_const` takes no lock and is split into
entry checks (`OwnerEnter`), increment of `active_pins` (`OwnerPin`), second
look (`OwnerAdmitted`, `OwnerRejected`) and list walk (`OwnerFallback`).
`lonejson_free` is `FreeClose` (lock, closing, unlink), `FreeDrained` (the spin
loop ends) and `FreeReclaim`.  All accesses to `active_pins` are sequentially
consistent in the code, and `closing` is published with release/acquire.

What the client owes is part of the model, because the code relies on it: an
owner pointer is not used after it was passed to `lonejson_free`, and when
`lonejson_free` is called no other thread is between its entry and its answer
from the registry on the same owner pointer, unless an enclosing call has the
runtime pinned (`OwnerQuiet`).  Copies need no such care.  `lonejson_free` is
not called from a callback; the code would wait for its own pin.

`set_*_provider` on a by-value copy (`CopySetProvider`) resolves the copy
without a pin, so nothing keeps the bundle while the provider is stored.  The
path is in the model and `NoUseAfterFree` and `ReclaimIsExclusive` except a
frame that is on it; the header tells clients not to copy the wrapper at all.
All other properties hold with such calls running beside everything else.

### Spooled

`memory`, `spill` and the cursor are byte sequences and offsets; `accepted` and
`delivered` are history.  Each way an append can end is an action: stored,
`open_temp` failed, seek or write failed after some bytes.  `failed` remembers
that bytes were stored which `size` does not count; the content properties are
about handles where that has not happened, the limits and the files about all.
`PreadFails` is a read from the file that fails: no bytes, the cursor as it was,
and no end of file.

### Multipart

Bytes are fed one at a time in the line and scan phases, as the code does, and
in pieces in the length phase.  A header line is one symbol with its effect
(content length or not); delimiter lines are spelled out, since matching them
is what can go wrong.  Every callback and allocation may fail, which ends the
parse.  The parser is one of the parts of `Values`.

### Sse

A field line is one symbol (its kind and its value); line ends are spelled out.
`PlainReference` and `JsonReference` say what a stream means without saying how
it is parsed: the properties compare the dispatched events with them after
every symbol.  The JSON document of an event is accepted or refused by the
parser, nondeterministically.

`dst` is what each of the client's destinations holds, `retained` the map that
the parser remembers to clean before it decodes into the next one
(`json_retained_dst`).  An event that fails, and the first use of a destination
by a new event, empty it as the code does.  `lonejson_sse_close` empties
nothing: an event it interrupts leaves its destination half-decoded.
`NoPartialResult` names that destination (`orphans`) and asks that there is no
other, and that the next event decoded into it makes it whole again; a map with
`clear_destination = 0` is the caller's to clean.

`None` is a field an event does not have.  The callbacks see NULL for an id
before the stream's first one and an empty string after it, since the buffer is
kept and only its length reset (33_array_stream_api.h:119,
34_protocol_framing_api.h:51); include/lonejson.h:2119-2122 documents NULL.  The
model does not tell the two apart.

### ParserEngine

`p` is the `lonejson_parser`: frames, flags, error code, and the state of the
token being read (`lex`, `token`, `escape`, `need`, `acc`, `high`).  `Feed`
hands it a chunk; every iteration of the loop in `lonejson__parser_feed_bytes`
is one action: `KeyInChunk`, `PlainRun`, `StringEnd`, `ControlInString`,
`SimpleEscape` and `UnicodeEscape` are the fast paths for strings, `EscapeOpens`,
`EscapedByte` and `HexDigit` what `consume_char` does when a chunk ends inside
an escape, `NumberRun` and `NumberEnd` the two ways a number ends, `LiteralByte`
and `Structure` the rest.  `StopFeed` is the return at the root value
(`stop_at_root`), `Finish` is `lonejson_parser_finish`.  Where the fast path and
`consume_char` know the same byte, the fast path sees it first, so that is what
`ObjectByte` and `ArrayByte` follow.

The parser validates or fills a map with one required integer and one fixed
integer array; strings are kept in the workspace and then refused or skipped.
Not modelled: capture into a json_value, visitors, streamed and directly stored
strings, nested maps, maps of more than 64 fields, integers out of range (the
tokens of an instance are too short), and the line, column and offset of an
error.  A decoded code point takes as many bytes of the token as its UTF-8
form; the letter a is the only one an instance spells.

`ref` is the automaton of `JsonGrammar` after the bytes read; it does not
influence the parser.  It also keeps the decoded spelling of the current key
and whether every high surrogate escape was followed by a low one.

### Writer, Generator, OneShot, Output

A writer call is a series of emissions, one step each, because each is a call
of the sink that may fail or a copy into a buffer that may be full.  In
generator mode a call that finds the output blocked answers TRUNCATED and is
made again from the start; what it remembers meanwhile is in the writer
(`w.ev`, `w.reader`, `w.child`), as in the code.  The client makes any call in
any order, wrong ones included.

Growing the frame stack, making a child or a value stream and keeping a long
number may run out of memory (`EmitBreaks`, `OpenBreaks`, `ChildBreaks`,
`NumberChunk`, `StreamOpen`, `StreamFeed`).  In the first two the writer has
already recorded the root value, and `{` or `[` may be out, but the writer is
not poisoned.  `broken` marks that, as it marks the error of a reader or a
source in the middle of a value; `FramesDescribeText` and `FinishMeansComplete`
speak of writers it has not happened to.  `FinishVouches`, without that
exception, is what the header says of `lonejson_writer_finish`, and the run
`writer_finish` refutes it.  After such an error the client only calls finish.

The mapped generator is a record and a turn of its loop a function to sets of
records, so that a writer can run one for a child value (`ChildTurn`).  Files
and spools return any number of bytes; a JSON value inside a document goes
through `JsonPull`, which may find that it is not JSON.  `Rewind` is curl's
seek callback: the generator is replaced and the text starts over.  `Values`
is the set of values that are generated, closed under taking the values in a
value; `GeneratorAssumption` and `WriterAssumption` say what they and the
arguments of the calls are.  The loop of `lonejson__generator_step_map` that
passes over omitted members is a step for each of them.

A JSON value inside an indented document is transcoded by both writers, with
different base depths: the serializer passes `depth + 1` with `depth` already
that of the members (24_serializer.h:605), the generator the depth of the frame
that owns the value (32_generator_api.h:1055).  A container in such a value is
therefore indented one level less by the generator.  `Serialized` and
`Generated` are the two texts; `PipeRefined` and `BufferExact` compare each
writer with its own.  `lonejson_generator_measure` (include/lonejson.h:5990)
counts the serializer's bytes, so for these documents its answer is not the
number of bytes the generator gives.

`WriterSpec` is the writer alone.  `Output` changes the writer's own state by
`WriterNext` only and, in the modes of a writer, makes no other step that
changes what is delivered, so what holds of `WriterSpec` holds of `Output` in
those modes.  `NothingLost` and `WriterPipe`, the refinement mapping to
`BytePipe`, are stated in `Writer` for that reason.

`FramesDescribeText` compares the writer's frame stack with the automaton of
`JsonGrammar` after the written bytes; nothing but that stack decides which
commas and brackets come next.  `FinishMeansComplete` says that `finish`
vouches for exactly one complete value.  `PipeRefined` is the refinement: with
the text of `Serializer` (or what the writer calls emitted) as input and the
bytes of the reads as output, both generators implement `BytePipe`.

`OneShot` hands the text to the buffer in pieces cut anywhere, with each
overflow policy, with capacities from 0 to beyond the text and with
`max_output_bytes`; `BufferExact` states what is in the buffer, what `needed`
and the length say, and the status.  A growing buffer doubles until it is large
enough, or until a `size_t` cannot be doubled (`SizeMax`).  `Fills` is the only
action of `Output` that changes `shot`, so `ShotSpec` holds of every behaviour
of `Output`.

### JsonVisit, ArrayRewrite, ValueRewrite, Reading

The visitor is a recursive descent in the code; here the recursion is a stack
and a step takes one byte or one run of plain bytes.  The callbacks of a step
are delivered before the next one, to the application (`VisitExact`), to the
transcoder and the handle (`HandleExact`) or to a rewriter (`RewriteExact`,
`ValueRewriteExact`).  The properties compare with `JsonTree`, which knows the
tree the text was made from and never sees bytes: callbacks, paths and pieces
that join to the decoded strings; for a rewrite, the text of the tree with
items replaced.  When a source fails, a limit is met, a callback or the sink
refuses, what was given is a beginning of that.  Besides texts of trees the
visitor is run on every text of up to five bytes of a small alphabet and
compared with the grammar.

The array rewriter matches its selector through containers under keys that are
not in it: a frame under an unmatched key inherits the `path_index` of its
parent (37_array_rewrite_api.h:570).  The tree reference of `RewriteExact` has
that rule (`anywhere`): an object below an unmatched key is searched as its
parent is.  `SelectorExact` has the strict one, in which a selector is a path
from the root, as the repository's README says (786-788), and the run
`rewrite_selector` refutes it.  A map that an item or a parent is parsed into
may be cut (`NoteCut`): the rewrite goes on and answers TRUNCATED.

### ArrayStream, ObjectStream, Streams

`AsByte` is what `next_raw` does with a byte, `AsEof` what it does at the end.
The input is pulled from a reader that gives any piece, would block, fails or
ends; pushed in pieces of the application's choosing; or given by curl, for
whose callback TRUNCATED is no reason to stop.  A call may name another
destination than the call before it.  `ItemsExact` says that the items handed
out are those of the selected array, each whole and once, in order, and
relates the last answer to what is left.  The parser of an item is a
`JsonVisit` reader: the stream asks it only whether the value is complete.
`ObjectsExact` says the same of `lonejson_stream`.

### Allocator

One thread parses documents into a structure with a string and an array,
another works with a buffer of the same runtime; a call of the allocator and
the note in the statistics are two steps.  `MemoryExact` says that at every
moment the statistics are the blocks that exist minus the notes still due,
and that a parse never holds more than its ceiling.

The ceiling has an exception, marked `stale` in the model.
`lonejson__parser_restart_stream` sets the account of a parser to 0
(20_parser_map.h:369).  When the destination is not cleared its blocks still
carry the tag of that parser, so `try_adopt` (00_prelude.h:1098) takes them for
counted and they are not.  A stream of objects with `clear_destination = 0` may
then hold more than `max_alloc_bytes`, against "Maximum lonejson-owned live
parse heap bytes" (include/lonejson.h:876).

### Jwt, TokenFlow, Bearer, M2m

The network, the browser, the clock, the issuers, the random numbers and the
digests are external; lonejson keeps nothing between calls and takes the time
from its caller.  `TokenFlow`: a request may be refused, answered, answered
with text the client does not accept, or its answer may be lost after the
endpoint acted on it; retries, storage and restarts come in between.  As in
tests/oidc_fixture_server.c:437, the application passes the time at which it
made the request, so an expiry is never too late.  The endpoint of the model
sends no empty `refresh_token`; the code would put it in place of the old one
(40_auth_api.h:2164).  `Bearer`: blocking refreshes
and one streamed transfer overlap while issuers rotate keys; a token is the
text of its documents and who signed it, `minted` is what its issuer meant.
`M2m`: records of credentials and invitations are generated, stored, revoked,
removed and redeemed, and headers of every provenance are verified.

## Runs and bounds

* `handles`: 2 threads, 2 addresses, 1 copy, nesting 2, 3 runtimes made.  Two
  addresses and three runtimes are what address reuse needs; nesting 2 gives a
  call inside a callback during free.  The generation counter is modulo 4, so
  that the third runtime is numbered after it wraps past 0.  There is no
  symmetry, because liveness is checked too.  Fairness: weak for the steps of a
  call (threads are scheduled), strong for the return of a call (its callbacks
  may make nested calls again and again, but they do return).
* `multipart_delimiter`: the instance of the `values` run; TLC finds a body whose delimiter
  does not start a line.  Cause: `pos == 0u` counts as the start of a line
  although the byte before it was consumed (34_protocol_framing_api.h:1655).
* `sse`: streams of up to 6 symbols (`RawBound`), that is two events, the first
  of them with a field of its own, or one of three data lines, which exceeds the
  limit of 4 bytes.  After a dropped event or a closed stream 4 more symbols
  (`LaterBound`): a whole event decoded into what the failed one left.  Two maps
  with one runtime and a value with another; the maps are symmetric.
* `sse_filter`: the same instance; TLC finds an event that matches the filter
  and is dropped, because an earlier unselected event with only data left the
  selection locked (34_protocol_framing_api.h:563).
* `parser`: two kinds of callers.  One cuts numbers, literals and containers,
  one keys and strings with escapes; documents have any length, since the state
  is bounded by the workspace of 8 bytes.  With frames of 1 byte and nesting up
  to 3 a token has room for 5 bytes at the root and 2 at the bottom, enough for
  a literal, a number with fraction or exponent, and a key with an escape and
  a plain byte.  The fixed array holds one integer, so the second one overflows
  (silently, here).
* `parser_truncate`: the same with `LONEJSON_OVERFLOW_TRUNCATE`.  TLC finds a
  valid document refused as malformed: the byte after the number that did not
  fit is lost (22_parser_engine.h:1016-1019).
* `parser_key`: TLC finds a key that names a field it does not spell: the
  shortcut at 22_parser_engine.h:654 ignores a pending high surrogate.
* `output`: a call of the writer that may nest is begun while at most 5 bytes
  are written, a long one at 4 (`MaxText`, `MaxLong`): two levels of containers
  with a key or an item, and one streamed value, child or item list inside.
  Read buffers of 0, 1, 2 and 3 bytes, a number buffer of 3 and an I/O buffer
  of 2 cut every escape, base64 group and number.  Documents: streamed fields
  of each source side by side, nesting, JSON values that are good, bad, fail or
  are read from a reader.  One rewind: a second one finds a generator like the
  one the first found.  Buffers of 0 to 11 bytes around texts of that size,
  owned ones that start at 5 bytes and grow up to limits below, at and above the
  text; a `size_t` of at most 16, so that the second doubling of a capacity is
  already impossible and a limit can be `SIZE_MAX`.  The first frame stack has
  room for 1 frame (8 in the code), so that two levels already grow it.
* `writer_finish`: the same instance; TLC finds a child that could not be made,
  after which `lonejson_writer_finish` accepts a document without any text
  (38_writer_api.h:2912); `begin_object` leaves `{` in the same way.
* `values`: spooled, memory limit 2, maximum 5, chunks of 1 to 3 bytes, at most
  7 bytes stored: chunks end before, at and beyond both limits.  Reading:
  pieces of up to 3 bytes, a plain buffer of 3, up to 3 calls on a handle, free
  texts of 5 symbols, selectors of 2 segments with 1 parent, 7 frames, documents with the selected
  name below a name that is not, in arrays and twice; each limit
  of a document is met exactly and with one less.  Streams: pieces of up to 2 bytes, free texts of 7
  tokens, string fields of 2 bytes, so that a longer one is truncated.  Memory:
  a ceiling of 7 and sizes 1 and 3, so that two growths fit and a third does
  not; two addresses for a parser that comes back where another one was.
  Multipart: a boundary of one character; a first body of up to 7 bytes,
  which is a whole delimiter line with its line ends and room for a near miss
  before it, and 5 bytes (a delimiter line) in a second part or when a line was
  ended by CR alone; 2 parts; buffers and header count at their limits.  `CutAtDelimiters` joins
  what is said of the cuts: a part ends at a delimiter, no delimiter is
  delivered, a length is exact, `finish` answers OK only for a whole stream.
* `rewrite_selector`: the same instance; TLC finds `{"z":{"r":[1]}}`, whose
  array is rewritten for the selector `r`.
* `auth`: a 64-bit clock that ends at 4, so that expiries overflow.  Flow: time
  to 2, lifetime 3, skews -1 (none), 0 (the default) and 3 (always due), 3 access
  tokens (login, refresh, refresh after rotation), 2 logins (a late redirect
  needs an older one), one retry.  Bearer: time to 3 with a ttl of 2, 4
  documents an issuer may publish (two good key sets, one that is no JSON, one
  with an incomplete key), two issuers with equal key ids, about 26 tokens.
  Machine credentials: 2 records, 2 credentials handed out, 1 invitation.

Fairness in `output`: a call that was made runs to its end, and the consumer
reads on with a buffer that is not always empty.  The weak fairness of a
generator's turn is written out as "not turning infinitely often, or a turn
infinitely often", since a turn is possible whenever a generator is reading.
Without a consumer that reads, a truncated writer call never completes, and
the code does not promise it does.

Deadlock is checked in all runs but `output`, `writer_finish` and `auth`: a
finished document and an application with nothing left to ask may stop.

## Proofs

`RuntimeHandlesProofs` proves type correctness, memory safety, pin accounting,
no stale copy, admission and exclusive release for any sets of threads,
addresses and copies and any nesting, from `ConstantsAssumption` and
`Unwrapped`: fewer generations are handed out than the counter has values (2^32
in the code; after a wrap a copy that is 2^32 generations old could match
again).  Frames that set a provider through a copy are steps like any other, and
are excepted where the properties except them.  The inductive invariant `IInv` adds
to the properties that stacks have no gaps (`StackInv`), that `lonejson_new`
and `lonejson_free` own their bundle (`ExclusiveInv`, `NewInv`, `FreeInv`),
that a frame in its entry works on a bundle that is published or held by an
enclosing call (`EntryInv`), and that tokens and copies carry generations
already handed out (`LiveInv`, `PublishedInv`, `TokenInv`).  `EntryInv` is what
makes it inductive: between entry and increment a call is protected by nothing
in the code.

`SpooledProofs` proves the properties of spooled values in the `values` run for all limits,
chunks and buffer sizes.  `IInv` adds that the file is used only when the
memory prefix is full (`PrefixFull`) and that memory followed by file is what
was accepted (`ContentsInv`).

`AllocatorProofs` proves `MemoryExact` for any ceiling, sizes and parser
addresses, with the two threads interleaved at every allocator call and every
note.  `MemoryInv` adds what each half-done operation may rely on (`DutyInv`,
`ChoreInv`): the block it is about exists, has the size it will note, and the
statistics know it or not (`KnownSize`, `KnownFresh`, `KnownBuffer`).  Without
them a note due could be one for a block that is gone.  `CeilingInv` says that
in a parse that is not `stale` every block carries the parser's tag and its
size; that is what `can_grow` relies on.

`ParserEngineProofs` proves `WorkspaceFits` and that a mapped array never holds
more than its capacity, for any documents, map, workspace, frame size, nesting
limit and overflow policy.  The invariant is a predicate on a parser, `Sound`,
that each operator of the engine is shown to preserve, in the order in which
they call each other.  Two facts carry it: containers open and close between
tokens only (`Between`), so the room computed by `prepare_token` is still the
room when a byte is appended; and every append goes through `scratch_reserve`.
A discarded string and a token for which there was no room hold nothing
(`HoldsToken`), so they need none.

The same module proves `AcceptsExactlyJson`, `PairedKeyNamesField` and
`StopLeavesRest` under the `fail` and `silent` policies (`truncate` breaks the
first: run `parser_truncate`): the push parser's language is JSON for every
stream of bytes and every way to cut it.  It is a simulation.  `Follows(q, g)`
relates a parser to the automaton of `JsonGrammar` that has read the same
bytes: the frames are the automaton's stack, the top frame's state and comma
flag are its control between tokens (`InNone`), and in a token the lexer's
fields say where in it the automaton stands (`InText`, `InNumber`,
`InLiteral`).  Each operator is shown to keep the relation, or to fail with a
status other than `INVALID_JSON`, or with that one where the automaton dies.
Four points are not a step-by-step match.  A number is judged only when it
ends, so the automaton may be dead while the parser still collects: the token
itself is the witness, and `NumberAccepted` (the theorem `NumbersAreJson`) says
that `is_valid_json_number` and the automaton agree about it.  A number that
ended inside a chunk is delivered before the byte after it is read, so the
automaton is still in the number (`Ended`).  The fast paths consume a run, a
whole key or one or two whole escapes in one iteration; `RunConcat` and the
lemmas about runs relate them to single bytes.  And a key is compared by its
spelling as far as surrogates are paired, where a code point may be one symbol
or its bytes (`SameSpelling`); `KeyAssumption` says that no field is named with
such a symbol.  `GrammarInv` adds what holds between calls and after `finish`.
The runs of the automaton are recursive functions; induction over them is done
with the least index at which a set of indices fails (`InductTo`).

`MultipartProofs` proves `NoByteLost`, `CutAtDelimiters` and `LookaheadBounded`
for any boundary, any limits and streams of any length.  None is inductive.
`ScanInv` says what the lookahead is between two pushes: at most one line end,
then bytes that spell a delimiter line so far.  `SettledInv` says that no line
among the bytes already delivered can still become a delimiter; it is what
makes "no delimiter was delivered" survive the next byte.  `PartsInv` carries
the same to the parts that have ended.

`SseProofs` proves `NoPartialResult`, and that the data of an event stays
within `max_event_data_bytes` and is counted exactly (`DataWithinLimit`), for
any lines, filters and destinations.  `ParserInv` adds that at most one event
is decoded at a time and only once it has data.  What carries it is that every
way out of an event other than close goes through the clean-up of its
destination, and that a destination in `orphans` stays there until an event is
decoded into it, which begins by emptying it.

It also proves `PlainEventsFaithful` and `JsonEventsFaithful` (`PlainFaithful`,
`JsonFaithful`), for streams of any length, from `SseAssumption`: the kinds of
lines do not overlap with the line ends, and data lines and comments are no
other kind.  The reference looks at the whole stream: it counts the empty lines
before each place and picks the lines of an event by that number.  The first
half of the module turns it into steps: what one more symbol adds to the events
ended (`Past`) and to the lines of the one that is not (`Current`), what one
more line adds to the data and metadata of an event, what one more event adds
to those to be told of.  `FaithInv` then says that the stream is `pre`, the part
whose lines were processed, the line being read and perhaps its CR (`Framed`),
and that the parser's fields and the events dispatched are those of
`Past(pre)` and `Current(pre)` (`Describes`).  Where `pre` may end is what makes
it inductive: after a CR only while a CR or a line follows, so that an LF that
comes next is never taken for an empty line of its own.  For the JSON calls
`Describes` holds as long as no past event is unselected and of nothing but
data, the exception `JsonEventsFaithful` names and the run `sse_filter` shows.

`OutputProofs` proves `NothingLost` of `WriterSpec` (`EveryByteKept`), that no
read gathers more than its capacity (`NoBufferOverrun`), and that a writer
behind a generator implements `BytePipe` (`GeneratorIsPipe`), for any arguments,
readers, capacities and children.  None of it is about JSON: it is about where
the bytes are.  `WriterInv` says that what the consumer got, followed by the
buffer of the read and the pending bytes, is what the calls have emitted
(`Whole`), that the buffer is no fuller than its capacity (`Buffered`), that a
writer between two attempts at a call has what it needs to go on
(`Resumable`), and that the call in progress has arguments of its kind and is
where its event stands (`Callable`, `InEvent`).  The last two are what makes
it inductive: a truncated call is made again from the start and skips what the
event remembers as done, and only because the two agree is nothing emitted
twice or left out.

A child makes the writer copy what another generator has produced, so its
state must be known to be text after any turn, for values nested to any depth.
`Gens` is that: the fields of the generator, its frames and its pull reader are
of their types, its output fits its capacity, and the shared I/O buffer holds
bytes of the frame that owns it (`GenHolds`).  It speaks of the stack frame by
frame and of values through the set `Values`, so nesting needs no induction
over values.  `GenTurnFacts` puts together what every step of every frame, of
the pull reader and of the sources keeps.  For the refinement, `PipeInv` adds
that a finished writer makes no more calls and that the end is told when
nothing is pending; `Moves` and `Kept` describe a step of a call: the text
grows at its end, or not at all, and nothing is delivered.  From `PipeInv` also
follows that a read shorter than asked for is the last one (`ShortReadIsLast`):
bytes wait only where the buffer is full (`FlushFills`).

The same module proves `BufferExact` of `ShotSpec` (`BuffersAreExact`) for any
texts, limits and policies and any way to cut a text into pieces, from
`OneShotAssumption`.
`FixedInv` and `GrownInv` relate the buffer to the bytes handed over so far:
all of them are in it as far as they fit, and `truncated` is true exactly when
some do not.  `GrownIsEnough` is the lemma about the capacity: never below what
is required and never above the limit, also where doubling has to stop.

`AuthProofs` proves `FlowTracksServer`, `M2mExact` and `AcceptedKeyIsRecent`,
the part of `AcceptedIsGenuine` about keys, of the composed specification for
any lifetimes, skews, retry counts, claims and bounds.  For the flow, `Backed`
must hold of the flow in memory, of the stored one and of an answer under way
(`AnswerBacked`), since a restart brings back the stored one and a late answer
replaces the flow; `RefreshInv` says where the endpoint's refresh token is when
no answer was lost.  For machine credentials, `RecordsInv` and `SignupsInv` tie
every stored record to a credential or invitation that was handed out, and
`IssuedInv` says that client identifiers are drawn once.  For bearer tokens,
`Served` says that a document was served after a given time; it survives
rotations and time, so it can be stated of the answer of each refresh under way
(`AnswerServed`, from the moment the refresh began) and of the cache
(`CacheInv`, from a ttl before it expires), whatever order the refreshes end in.
The ttl in the theorem is that of the policy the cache was filled under: the
code compares issuer and jwks_uri with the policy of a validation, not the ttl.
The digest is injective, as it is in the model; that is the cryptography's
promise.

The proofs assume of the constants what the modules' ASSUMEs state, which TLC
evaluates in the runs.

Only model-checked:

* `FreeReturns` and `OutputProgress`: liveness is out of the prover's reach.
* What recursive definitions compute (`Serializer`, `JsonTree`), and so the
  properties of `Reading`, `Streams` and `Output` that compare with them.
  `PipeRefined` is among them because of the mapped generator, whose text is
  the serializer's; for the writer it is the theorem `GeneratorIsPipe`.
* `ShortReadEnds` for the mapped generator; for the writer it is the theorem
  `ShortReadIsLast`.
* `FramesDescribeText` and `FinishMeansComplete`: the writer hands the text of
  child values to its sink, and that this text is JSON is a fact about the
  generator's whole stack over values nested to any depth.
* The rest of `AcceptedIsGenuine`: it compares the verdict with how a token was
  minted, which is a fact about the tokens of an instance, and a token is
  decoded by a fold over its members.

## Behaviour met while modelling, outside the properties

* `lonejson_free` from a callback of a call on the same runtime waits for its
  own pin; providers are structs of several words, stored without a lock.
* After a failed `end_part` or `end_event` the parser keeps the part or event;
  pushing on would report it again.  The models close the parser after an error.
* The call that ends an SSE event may pass another destination than the ones
  that fed it; only the runtime is compared (34_protocol_framing_api.h:580).
* Maps of more than 64 fields take memory from the top of the workspace while a
  token may be open below it (21_parser_values.h:372).
* The byte after a number is counted twice in offset and column
  (22_parser_engine.h:1020).
* `lonejson_serialize_path` ignores the result of `fclose` (30_api.h:3669), so
  a full disk may go unnoticed.
* A reader that returns no bytes and no end is called again for ever by
  `lonejson__parse_reader` (30_api.h:1690) and taken for the end by the json
  cursor (11_json_value_io.h:182).
* A `write_max_output_bytes` of `SIZE_MAX` leaves no room for the terminator, so
  every growing buffer is refused with OVERFLOW (23_serializer_io.h:95, 348).
* `needed` is the size up to the point where serialization stopped, so under
  the failing policy it is not the size of the whole text.
* A byte that does not begin an object is not consumed by an object stream
  (30_api.h:2468): the next call meets it again.

## Not modelled

* The Lua binding: marshalling between Lua values and the C API, without state
  that outlives a call other than the handles modelled here.
* Cryptography: `verify_jws` is the provider's callback, an oracle that knows
  who signed; the OpenSSL provider that comes with the library, with its x5c
  checks, is in 40_auth_api.h:4301-5079.  HTTP, discovery, introspection and
  userinfo requests, and the text of URLs and forms.
* Files, descriptors and paths around parsing and serializing: operating-system
  calls around the modelled operations.
* The frame stack of the mapped generator: its growth may run out of memory
  (32_generator_api.h:216), which ends the generator with an error.
* In the parser engine: capture of json_values, visitors, streamed and directly
  stored strings, nested maps, maps of more than 64 fields, conversion of
  numbers at the edges of their types.
* The base64 decoder; the wording of error messages, and lines, columns and
  offsets of errors.
* The curl parse adapter, which only forwards to feed and finish.
* Benchmarks, examples, fuzzers and generated headers.
