------------------------------ MODULE Allocator ------------------------------
(***************************************************************************)
(* The allocator of a runtime (src/src/impl/00_prelude.h): its statistics, *)
(* which all threads share and update under a lock, apart from the calls   *)
(* of the allocator itself, and the ceiling on what one parse may hold     *)
(* (max_alloc_bytes), kept in the parser and in the header of every block. *)
(*                                                                         *)
(* One thread parses, one document after the other, into a structure with  *)
(* a dynamic string and a dynamic array; another one works with a buffer   *)
(* of the same runtime.                                                    *)
(***************************************************************************)
EXTENDS Naturals, FiniteSets

CONSTANTS
  Ceiling,      \* max_alloc_bytes
  Sizes,        \* the sizes of strings and buffers
  Addresses     \* where a parser may lie: a later one may lie where an earlier did

ASSUME AllocatorAssumption ==
  /\ Ceiling \in Nat \ {0} /\ Sizes \subseteq Nat \ {0} /\ Addresses \subseteq Nat \ {0}

VARIABLES
  held,    \* the blocks of the structure
  fresh,   \* a new block that is not yet in it
  parse,   \* the parser
  duty,    \* what the parsing thread does next
  block,   \* the size of the buffer, 0: none
  chore,   \* what its thread does next
  stats    \* lonejson_allocator_stats; calls: alloc_calls minus free_calls

memoryVars == <<held, fresh, parse, duty, block, chore, stats>>

Fields == {"string", "array"}
Nowhere == 0   \* no parser
NoBlock == [size |-> 0, tag |-> Nowhere, budget |-> 0]
NoParse == [at |-> Nowhere, live |-> 0, failed |-> FALSE, stale |-> FALSE]
NoDuty == [op |-> "none", field |-> "string", size |-> 0]
Parsing == parse.at # Nowhere

MemoryInit ==
  /\ held = [f \in Fields |-> NoBlock] /\ fresh = NoBlock /\ parse = NoParse
  /\ duty = NoDuty /\ block = 0 /\ chore = NoDuty
  /\ stats = [live |-> 0, peak |-> 0, calls |-> 0]

\* What the counters do instead of going below zero.
Less(a, b) == IF a >= b THEN a - b ELSE 0

-----------------------------------------------------------------------------
(***************************************************************************)
(* The statistics, under their lock.                                       *)
(***************************************************************************)

Lived(s, n) == [s EXCEPT !.live = n, !.peak = IF n > @ THEN n ELSE @]

NoteAlloc(s, size) == [Lived(s, s.live + size) EXCEPT !.calls = @ + 1]
NoteRealloc(s, old, new) == Lived(s, Less(s.live, old) + new)
NoteFree(s, size) == [s EXCEPT !.live = Less(@, size), !.calls = @ - 1]

-----------------------------------------------------------------------------
(***************************************************************************)
(* The account of a parse.                                                 *)
(***************************************************************************)

\* Mutant: what the parse holds already is not looked at.
CanGrow_Alone(p, current, next) == next <= current \/ next <= Ceiling

\* lonejson__parser_alloc_can_grow.
CanGrow(p, current, next) ==
  LET base == Less(p.live, current) IN
  next <= current \/ (base <= Ceiling /\ next <= Ceiling - base)

\* lonejson__parser_alloc_counted_bytes.
Counted(p, b) == IF b.tag = p.at THEN b.budget ELSE 0

\* lonejson__parser_alloc_note_resize: the parser's side and the header's.
NoteResize(p, b, next) == [p EXCEPT !.live = Less(@, Counted(p, b)) + next]
Tagged(p, b, next) == [b EXCEPT !.size = next, !.tag = p.at, !.budget = next]

\* lonejson__parser_alloc_note_release; with no parser, nothing.
NoteRelease(p, b) == [p EXCEPT !.live = Less(@, Counted(p, b))]

\* lonejson__parser_adopt_owned_pointer of one block, try_adopt.
Adopt(a, f) ==
  LET b == a.held[f]
      fits == CanGrow(a.parse, Counted(a.parse, b), b.size) IN
  CASE a.parse.failed \/ b = NoBlock -> a
    [] ~a.parse.failed /\ b # NoBlock /\ ~fits -> [a EXCEPT !.parse.failed = TRUE]
    [] OTHER -> [parse |-> NoteResize(a.parse, b, b.size),
                 held |-> [a.held EXCEPT ![f] = Tagged(a.parse, b, b.size)]]

-----------------------------------------------------------------------------
(***************************************************************************)
(* The parsing thread.                                                     *)
(***************************************************************************)

\* lonejson__parser_init_state, lonejson__parser_restart_stream: what the
\* structure holds is taken over.
\* stale: some of it carries the tag of an earlier parser at this address.
StartKeeping(at) ==
  /\ duty = NoDuty /\ ~Parsing
  /\ LET p == [NoParse EXCEPT !.at = at, !.stale = \E f \in Fields : held[f].tag = at]
         a == Adopt(Adopt([parse |-> p, held |-> held], "string"), "array") IN
     parse' = a.parse /\ held' = a.held
  /\ UNCHANGED <<fresh, duty, block, chore, stats>>

\* The same with clear_destination: lonejson__reset_map_parse follows.
StartClearing(at) ==
  /\ duty = NoDuty /\ ~Parsing
  /\ parse' = [NoParse EXCEPT !.at = at]
  /\ duty' = [NoDuty EXCEPT !.op = "clear"]
  /\ UNCHANGED <<held, fresh, block, chore, stats>>

\* lonejson__owned_free_parse and lonejson__owned_free begin: the block is
\* taken off the accounts, and freed in the next step.
Discard(f) ==
  /\ held[f] # NoBlock
  /\ parse' = NoteRelease(parse, held[f])
  /\ stats' = NoteFree(stats, held[f].size)
  /\ duty' = [op |-> IF duty.op = "clear" THEN "clear_free" ELSE "free", field |-> f, size |-> 0]
  /\ UNCHANGED <<held, fresh, block, chore>>

\* lonejson__cleanup_value_parse.
ClearField(f) == duty.op = "clear" /\ Discard(f)

ClearDone ==
  /\ duty.op = "clear" /\ \A f \in Fields : held[f] = NoBlock
  /\ duty' = NoDuty
  /\ UNCHANGED <<held, fresh, parse, block, chore, stats>>

\* lonejson__cleanup_value, after the parse.
CleanupField(f) == duty = NoDuty /\ ~Parsing /\ Discard(f)

\* free_fn returns; what replaces the block, if anything, is stored.
Freed ==
  /\ duty.op \in {"free", "clear_free"}
  /\ held' = [held EXCEPT ![duty.field] = fresh] /\ fresh' = NoBlock
  /\ duty' = IF duty.op = "free" THEN NoDuty ELSE [NoDuty EXCEPT !.op = "clear"]
  /\ UNCHANGED <<parse, block, chore, stats>>

\* The growth is over the ceiling, or the allocator has no memory.
GrowthFails == /\ parse' = [parse EXCEPT !.failed = TRUE]
               /\ UNCHANGED <<held, fresh, duty, block, chore, stats>>

Working == duty = NoDuty /\ Parsing /\ ~parse.failed

\* lonejson__assign_string: the new string beside the old one, with
\* lonejson__owned_malloc_parse.
AssignString(n) ==
  /\ Working
  /\ \/ /\ CanGrow(parse, 0, n)
        /\ fresh' = [NoBlock EXCEPT !.size = n]
        /\ duty' = [op |-> "note_alloc", field |-> "string", size |-> n]
        /\ UNCHANGED <<held, parse, block, chore, stats>>
     \/ GrowthFails

\* lonejson__array_ensure_bytes: twice the room, with
\* lonejson__owned_realloc_parse.
GrowArray ==
  LET b == held["array"]
      n == IF b = NoBlock THEN 1 ELSE 2 * b.size IN
  /\ Working
  /\ \/ /\ CanGrow(parse, Counted(parse, b), n)
        /\ duty' = [op |-> IF b = NoBlock THEN "note_alloc" ELSE "note_realloc",
                    field |-> "array", size |-> n]
        /\ fresh' = IF b = NoBlock THEN [NoBlock EXCEPT !.size = n] ELSE fresh
        /\ UNCHANGED <<held, parse, block, chore, stats>>
     \/ GrowthFails

\* The statistics of a new block, then the account of the parse.
Allocated ==
  /\ duty.op = "note_alloc"
  /\ stats' = NoteAlloc(stats, duty.size)
  /\ parse' = NoteResize(parse, fresh, duty.size)
  /\ fresh' = Tagged(parse, fresh, duty.size)
  /\ duty' = [duty EXCEPT !.op = "store"]
  /\ UNCHANGED <<held, block, chore>>

\* A new block takes its place.  The string that was there is freed.
Stored ==
  /\ duty.op = "store"
  /\ \/ held[duty.field] # NoBlock /\ Discard(duty.field)
     \/ /\ held[duty.field] = NoBlock
        /\ held' = [held EXCEPT ![duty.field] = fresh] /\ fresh' = NoBlock
        /\ duty' = NoDuty
        /\ UNCHANGED <<parse, block, chore, stats>>

\* The statistics and the account of a block that has grown.
Reallocated ==
  /\ duty.op = "note_realloc"
  /\ stats' = NoteRealloc(stats, held["array"].size, duty.size)
  /\ parse' = NoteResize(parse, held["array"], duty.size)
  /\ held' = [held EXCEPT !["array"] = Tagged(parse, @, duty.size)]
  /\ duty' = NoDuty
  /\ UNCHANGED <<fresh, block, chore>>

\* The parse ends; the structure keeps its blocks and they keep their tags.
EndParse ==
  /\ duty = NoDuty /\ Parsing
  /\ parse' = NoParse
  /\ UNCHANGED <<held, fresh, duty, block, chore, stats>>

-----------------------------------------------------------------------------
(***************************************************************************)
(* The other thread.                                                       *)
(***************************************************************************)

\* lonejson__buffer_alloc and lonejson__buffer_realloc: malloc_fn or
\* realloc_fn, then the statistics.
BufferGrow(n) ==
  /\ chore = NoDuty /\ n > block
  /\ chore' = [NoDuty EXCEPT !.op = IF block = 0 THEN "note_alloc" ELSE "note_realloc", !.size = n]
  /\ UNCHANGED <<held, fresh, parse, duty, block, stats>>

BufferNoted ==
  /\ chore.op \in {"note_alloc", "note_realloc"}
  /\ stats' = IF chore.op = "note_alloc" THEN NoteAlloc(stats, chore.size)
              ELSE NoteRealloc(stats, block, chore.size)
  /\ block' = chore.size /\ chore' = NoDuty
  /\ UNCHANGED <<held, fresh, parse, duty>>

\* lonejson__buffer_free: the statistics, then free_fn.
BufferFree ==
  /\ chore = NoDuty /\ block # 0
  /\ stats' = NoteFree(stats, block)
  /\ chore' = [NoDuty EXCEPT !.op = "free"]
  /\ UNCHANGED <<held, fresh, parse, duty, block>>

BufferFreed ==
  /\ chore.op = "free"
  /\ block' = 0 /\ chore' = NoDuty
  /\ UNCHANGED <<held, fresh, parse, duty, stats>>

MemoryNext ==
  \/ \E at \in Addresses : StartKeeping(at) \/ StartClearing(at)
  \/ \E f \in Fields : ClearField(f) \/ CleanupField(f)
  \/ \E n \in Sizes : AssignString(n) \/ BufferGrow(n)
  \/ ClearDone \/ Freed \/ GrowArray \/ Allocated \/ Stored \/ Reallocated \/ EndParse
  \/ BufferNoted \/ BufferFree \/ BufferFreed

MemorySpec == MemoryInit /\ [][MemoryNext]_memoryVars

-----------------------------------------------------------------------------
(***************************************************************************)
(* Properties.                                                             *)
(***************************************************************************)

Count(b) == IF b.size = 0 THEN 0 ELSE 1
Grown == IF duty.op = "note_realloc" THEN duty.size - held["array"].size ELSE 0
StructureBytes == held["string"].size + held["array"].size + fresh.size + Grown
BufferBytes == IF chore.op \in {"note_alloc", "note_realloc"} THEN chore.size ELSE block

\* The statistics are what the threads hold, whatever the order in which
\* they allocate and update them; in between they never show more.
StatsExact ==
  /\ stats.live <= StructureBytes + BufferBytes /\ stats.live <= stats.peak
  /\ duty.op \notin {"note_alloc", "note_realloc", "free", "clear_free"} /\ chore = NoDuty =>
       /\ stats.live = StructureBytes + BufferBytes
       /\ stats.calls = Count(held["string"]) + Count(held["array"]) + Count(fresh)
                          + (IF block = 0 THEN 0 ELSE 1)

\* The ceiling: what the structure holds while a parse fills it, the new
\* value beside the old one included, stays below max_alloc_bytes, and the
\* parser's count is exact between its steps.  Excepted is a parse whose
\* parser lies where an earlier one did and that keeps the blocks that one
\* tagged: it takes them for counted.
CeilingHolds ==
  Parsing /\ ~parse.failed /\ ~parse.stale /\ duty.op \notin {"clear", "clear_free"} =>
    /\ StructureBytes <= Ceiling
    /\ duty = NoDuty => parse.live = StructureBytes

\* Memory is accounted for: in the statistics and against the ceiling.
MemoryExact == StatsExact /\ CeilingHolds

=============================================================================
