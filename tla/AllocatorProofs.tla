-------------------------- MODULE AllocatorProofs --------------------------
(***************************************************************************)
(* Proofs about Allocator for any ceiling, sizes and parser addresses: the *)
(* statistics and the account of a parse are exact.                        *)
(***************************************************************************)
EXTENDS Allocator, Integers, TLAPS

Blocks == [size : Nat, tag : Nat, budget : Nat]

Parses == [at : Nat, live : Nat, failed : BOOLEAN, stale : BOOLEAN]

Statistics == [live : Nat, peak : Nat, calls : Int]

Duties == [op : {"none", "note_alloc", "note_realloc", "store", "clear", "free", "clear_free"},
           field : Fields, size : Nat]

MemoryTypeOK ==
  /\ held \in [Fields -> Blocks] /\ fresh \in Blocks
  /\ parse \in Parses
  /\ duty \in Duties /\ chore \in Duties
  /\ block \in Nat
  /\ stats \in Statistics

\* A block without bytes is no block.
BlocksWhole ==
  /\ \A f \in Fields : held[f].size = 0 => held[f] = NoBlock
  /\ fresh.size = 0 => fresh = NoBlock

\* What each step of the parsing thread relies on.
DutyInv ==
  /\ duty.op = "none" => duty = NoDuty
  /\ duty.op \notin {"note_alloc", "store", "free"} => fresh = NoBlock
  /\ duty.op = "note_alloc" => fresh = [NoBlock EXCEPT !.size = duty.size] /\ duty.size > 0
  /\ duty.op = "note_realloc" => /\ held["array"].size > 0 /\ duty.field = "array"
                                 /\ duty.size = 2 * held["array"].size
  /\ duty.op = "store" => fresh.size > 0 /\ fresh.tag = parse.at /\ fresh.budget = fresh.size
  /\ duty.op \in {"free", "clear_free"} => held[duty.field].size > 0
  /\ duty.op \in {"note_alloc", "note_realloc", "store"} => Parsing /\ ~parse.failed
  /\ duty.op \in {"clear", "clear_free"} => Parsing /\ parse.live = 0
  /\ duty.op = "free" /\ Parsing =>
       fresh.size > 0 /\ fresh.tag = parse.at /\ fresh.budget = fresh.size

\* The same for the thread with the buffer.
ChoreInv ==
  /\ chore.op \in {"none", "note_alloc", "note_realloc", "free"}
  /\ chore.op = "none" => chore = NoDuty
  /\ chore.op = "note_alloc" => block = 0 /\ chore.size > 0
  /\ chore.op = "note_realloc" => block > 0 /\ chore.size > block
  /\ chore.op = "free" => block > 0

\* What the statistics know of: a block is counted after it was allocated
\* and until just before it is freed.
KnownSize(f) ==
  IF duty.op \in {"free", "clear_free"} /\ duty.field = f THEN 0 ELSE held[f].size
KnownFresh == IF duty.op = "note_alloc" THEN 0 ELSE fresh.size
KnownBuffer == IF chore.op = "free" THEN 0 ELSE block
One(n) == IF n = 0 THEN 0 ELSE 1

StatsInv ==
  /\ stats.live = KnownSize("string") + KnownSize("array") + KnownFresh + KnownBuffer
  /\ stats.calls = One(KnownSize("string")) + One(KnownSize("array")) + One(KnownFresh)
                     + One(KnownBuffer)
  /\ stats.live <= stats.peak

\* What the parser knows of, in a parse that took over no block it mistakes
\* for its own: every block carries its tag and its size.
Accounted == Parsing /\ ~parse.failed /\ ~parse.stale /\ duty.op \notin {"clear", "clear_free"}

CeilingInv ==
  Accounted =>
    /\ \A f \in Fields :
         held[f] # NoBlock => held[f].tag = parse.at /\ held[f].budget = held[f].size
    /\ parse.live = KnownSize("string") + KnownSize("array") + KnownFresh
    /\ held["string"].size + held["array"].size + fresh.size + Grown <= Ceiling

\* The inductive invariant.
MemoryInv ==
  MemoryTypeOK /\ BlocksWhole /\ DutyInv /\ ChoreInv /\ StatsInv /\ CeilingInv

-----------------------------------------------------------------------------

USE AllocatorAssumption DEF Blocks, Parses, Duties, Fields, NoBlock, NoParse, NoDuty, Nowhere, Parsing

LEMMA MemoryInitial == MemoryInit => MemoryInv
BY DEF MemoryInit, MemoryInv, MemoryTypeOK, BlocksWhole, DutyInv, ChoreInv, StatsInv, CeilingInv,
       KnownSize, KnownFresh, KnownBuffer, One, Accounted, Grown, Statistics


\* The counters stay natural numbers, and are exact where they do not saturate.
LEMMA LessFacts ==
  \A a, b \in Nat : Less(a, b) \in Nat /\ (b <= a => Less(a, b) = a - b)
BY DEF Less

LEMMA CountedType ==
  ASSUME NEW p \in Parses, NEW b \in Blocks
  PROVE  Counted(p, b) \in Nat
BY DEF Counted

LEMMA LivedFacts ==
  ASSUME NEW s \in Statistics, NEW n \in Nat
  PROVE  /\ Lived(s, n) \in Statistics
         /\ Lived(s, n).live = n /\ Lived(s, n).calls = s.calls /\ n <= Lived(s, n).peak
<1>1. s.peak \in Nat /\ s.live \in Nat /\ s.calls \in Int
  BY DEF Statistics
<1>2. CASE n > s.peak
  <2>1. Lived(s, n) = [s EXCEPT !.live = n, !.peak = n]
    BY <1>2 DEF Lived
  <2>2. [s EXCEPT !.live = n, !.peak = n] \in Statistics
    BY <1>1 DEF Statistics
  <2>3. /\ [s EXCEPT !.live = n, !.peak = n].live = n
        /\ [s EXCEPT !.live = n, !.peak = n].peak = n
        /\ [s EXCEPT !.live = n, !.peak = n].calls = s.calls
    BY DEF Statistics
  <2> QED
    BY <1>1, <1>2, <2>1, <2>2, <2>3
<1>3. CASE ~(n > s.peak)
  <2>1. Lived(s, n) = [s EXCEPT !.live = n, !.peak = s.peak]
    BY <1>3 DEF Lived
  <2>2. [s EXCEPT !.live = n, !.peak = s.peak] \in Statistics
    BY <1>1 DEF Statistics
  <2>3. /\ [s EXCEPT !.live = n, !.peak = s.peak].live = n
        /\ [s EXCEPT !.live = n, !.peak = s.peak].peak = s.peak
        /\ [s EXCEPT !.live = n, !.peak = s.peak].calls = s.calls
    BY DEF Statistics
  <2> QED
    BY <1>1, <1>3, <2>1, <2>2, <2>3
<1> QED
  BY <1>2, <1>3

\* The three ways the statistics change.
LEMMA NoteFacts ==
  ASSUME NEW s \in Statistics, NEW old \in Nat, NEW new \in Nat, s.live <= s.peak
  PROVE  /\ /\ NoteAlloc(s, new) \in Statistics
            /\ NoteAlloc(s, new).live = s.live + new
            /\ NoteAlloc(s, new).calls = s.calls + 1
            /\ NoteAlloc(s, new).live <= NoteAlloc(s, new).peak
         /\ /\ NoteRealloc(s, old, new) \in Statistics
            /\ NoteRealloc(s, old, new).live = Less(s.live, old) + new
            /\ NoteRealloc(s, old, new).calls = s.calls
            /\ NoteRealloc(s, old, new).live <= NoteRealloc(s, old, new).peak
         /\ /\ NoteFree(s, old) \in Statistics
            /\ NoteFree(s, old).live = Less(s.live, old)
            /\ NoteFree(s, old).calls = s.calls - 1
            /\ NoteFree(s, old).live <= NoteFree(s, old).peak
<1>1. s.peak \in Nat /\ s.live \in Nat /\ s.calls \in Int
  BY DEF Statistics
<1>2. s.live + new \in Nat /\ Less(s.live, old) \in Nat /\ Less(s.live, old) + new \in Nat
      /\ Less(s.live, old) <= s.live
  BY <1>1, LessFacts DEF Less
<1>3. /\ NoteAlloc(s, new) \in Statistics
      /\ NoteAlloc(s, new).live = s.live + new
      /\ NoteAlloc(s, new).calls = s.calls + 1
      /\ NoteAlloc(s, new).live <= NoteAlloc(s, new).peak
  <2> DEFINE t == Lived(s, s.live + new)
  <2>1. t \in Statistics /\ t.live = s.live + new /\ t.calls = s.calls /\ t.live <= t.peak
    BY <1>2, LivedFacts
  <2>2. NoteAlloc(s, new) = [t EXCEPT !.calls = t.calls + 1]
    BY DEF NoteAlloc
  <2> HIDE DEF t
  <2> QED
    BY <1>1, <2>1, <2>2 DEF Statistics
<1>4. /\ NoteRealloc(s, old, new) \in Statistics
      /\ NoteRealloc(s, old, new).live = Less(s.live, old) + new
      /\ NoteRealloc(s, old, new).calls = s.calls
      /\ NoteRealloc(s, old, new).live <= NoteRealloc(s, old, new).peak
  BY <1>2, LivedFacts DEF NoteRealloc
<1>5. /\ NoteFree(s, old) \in Statistics
      /\ NoteFree(s, old).live = Less(s.live, old)
      /\ NoteFree(s, old).calls = s.calls - 1
      /\ NoteFree(s, old).live <= NoteFree(s, old).peak
  <2> DEFINE l == Less(s.live, old)
             c == s.calls - 1
  <2>1. NoteFree(s, old) = [s EXCEPT !.live = l, !.calls = c]
    BY DEF NoteFree
  <2>2. l \in Nat /\ c \in Int /\ l <= s.peak
    BY <1>1, <1>2
  <2> HIDE DEF l, c
  <2>3. [s EXCEPT !.live = l, !.calls = c] \in Statistics
    BY <2>2 DEF Statistics
  <2> QED
    BY <1>1, <2>1, <2>2, <2>3 DEF Statistics, l, c
<1> QED
  BY <1>3, <1>4, <1>5

\* A block put on the account of a parse.
LEMMA ResizeFacts ==
  ASSUME NEW p \in Parses, NEW b \in Blocks, NEW n \in Nat
  PROVE  /\ NoteResize(p, b, n) \in Parses
         /\ NoteResize(p, b, n) = [p EXCEPT !.live = Less(p.live, Counted(p, b)) + n]
         /\ Tagged(p, b, n) \in Blocks
         /\ Tagged(p, b, n).size = n /\ Tagged(p, b, n).tag = p.at
         /\ Tagged(p, b, n).budget = n
<1>1. Less(p.live, Counted(p, b)) + n \in Nat
  <2>1. p.live \in Nat /\ Counted(p, b) \in Nat
    BY CountedType
  <2>2. Less(p.live, Counted(p, b)) \in Nat
    BY <2>1, LessFacts
  <2> QED
    BY <2>2
<1>2. NoteResize(p, b, n) = [p EXCEPT !.live = Less(p.live, Counted(p, b)) + n]
  BY DEF NoteResize
<1>3. NoteResize(p, b, n) \in Parses
  BY <1>1, <1>2
<1>4. /\ Tagged(p, b, n) \in Blocks
      /\ Tagged(p, b, n).size = n /\ Tagged(p, b, n).tag = p.at
      /\ Tagged(p, b, n).budget = n
  BY DEF Tagged
<1> QED
  BY <1>2, <1>3, <1>4

\* Taking a block off the accounts.
LEMMA DiscardFacts ==
  ASSUME MemoryInv, NEW f \in Fields, Discard(f), duty.op \in {"none", "clear", "store"}
  PROVE  /\ parse' \in Parses /\ stats' \in Statistics
         /\ stats'.live = stats.live - held[f].size /\ stats'.live <= stats'.peak
         /\ stats'.calls = stats.calls - 1
         /\ held[f].size \in Nat /\ held[f].size > 0 /\ held[f].size <= stats.live
<1>1. held[f].size \in Nat \ {0} /\ held[f].size <= stats.live /\ stats.live <= stats.peak
  BY DEF MemoryInv, MemoryTypeOK, BlocksWhole, StatsInv, Discard, KnownSize, KnownFresh,
         KnownBuffer, Statistics
<1>2. Counted(parse, held[f]) \in Nat
  BY CountedType DEF MemoryInv, MemoryTypeOK
<1>3. parse' \in Parses
  <2>1. Less(parse.live, Counted(parse, held[f])) \in Nat
    BY <1>2, LessFacts DEF MemoryInv, MemoryTypeOK
  <2>2. parse' = [parse EXCEPT !.live = Less(parse.live, Counted(parse, held[f]))]
    BY DEF Discard, NoteRelease
  <2> QED
    BY <2>1, <2>2 DEF MemoryInv, MemoryTypeOK
<1>4. stats \in Statistics /\ stats.live \in Nat
  BY DEF MemoryInv, MemoryTypeOK, Statistics
<1>5. /\ stats' \in Statistics /\ stats'.live = Less(stats.live, held[f].size)
      /\ stats'.live <= stats'.peak /\ stats'.calls = stats.calls - 1
  BY <1>1, <1>4, NoteFacts DEF Discard
<1>6. Less(stats.live, held[f].size) = stats.live - held[f].size
  BY <1>1, <1>4, LessFacts
<1> QED
  BY <1>1, <1>3, <1>5, <1>6

\* a is p and h after the block of f was taken over: its size stays, and
\* unless the ceiling is in the way it is on the account, once, with the
\* parser's tag.
Adopted(p, h, f, a) ==
  /\ a = [parse |-> a.parse, held |-> a.held]
  /\ a.parse \in Parses /\ a.held \in [Fields -> Blocks]
  /\ a.parse.at = p.at /\ a.parse.stale = p.stale
  /\ a.held[f].size = h[f].size
  /\ h[f] = NoBlock => a.held[f] = NoBlock
  /\ \A g \in Fields \ {f} : a.held[g] = h[g]
  /\ ~a.parse.failed =>
       /\ ~p.failed
       /\ h[f] = NoBlock => a.parse.live = p.live
       /\ h[f] # NoBlock /\ h[f].tag # p.at =>
            /\ a.held[f].tag = p.at /\ a.held[f].budget = h[f].size
            /\ a.parse.live = p.live + h[f].size /\ a.parse.live <= Ceiling

LEMMA AdoptFacts ==
  ASSUME NEW p \in Parses, NEW h \in [Fields -> Blocks], NEW f \in Fields,
         h[f].size = 0 => h[f] = NoBlock
  PROVE  Adopted(p, h, f, Adopt([parse |-> p, held |-> h], f))
<1> DEFINE b == h[f]
           a0 == [parse |-> p, held |-> h]
           fits == CanGrow(p, Counted(p, b), b.size)
<1>1. b \in Blocks /\ p.live \in Nat /\ b.size \in Nat
  OBVIOUS
<1>2. CASE p.failed \/ b = NoBlock
  <2>1. Adopt(a0, f) = a0
    BY <1>2 DEF Adopt
  <2> QED
    BY <1>2, <2>1 DEF Adopted
<1>3. CASE ~p.failed /\ b # NoBlock /\ ~fits
  <2>1. Adopt(a0, f) = [a0 EXCEPT !.parse.failed = TRUE]
    BY <1>3 DEF Adopt
  <2> DEFINE q == [p EXCEPT !.failed = TRUE]
  <2>2. Adopt(a0, f) = [parse |-> q, held |-> h]
    BY <2>1
  <2>3. q \in Parses /\ q.failed /\ q.at = p.at /\ q.stale = p.stale
    OBVIOUS
  <2> HIDE DEF q
  <2> QED
    BY <2>2, <2>3 DEF Adopted
<1>4. CASE ~p.failed /\ b # NoBlock /\ fits
  <2> DEFINE q == NoteResize(p, b, b.size)
             t == Tagged(p, b, b.size)
  <2>1. Adopt(a0, f) = [parse |-> q, held |-> [h EXCEPT ![f] = t]]
    BY <1>4 DEF Adopt
  <2>2. /\ q \in Parses /\ q = [p EXCEPT !.live = Less(p.live, Counted(p, b)) + b.size]
        /\ t \in Blocks /\ t.size = b.size /\ t.tag = p.at /\ t.budget = b.size
    BY <1>1, ResizeFacts
  <2>3. b.tag # p.at => q.live = p.live + b.size /\ q.live <= Ceiling
    <3>1. SUFFICES ASSUME b.tag # p.at PROVE q.live = p.live + b.size /\ q.live <= Ceiling
      OBVIOUS
    <3>2. Counted(p, b) = 0 /\ Less(p.live, 0) = p.live
      BY <1>1, <3>1 DEF Counted, Less
    <3>3. b.size > 0
      BY <1>1, <1>4
    <3>4. p.live + b.size <= Ceiling
      BY <1>1, <1>4, <3>2, <3>3 DEF CanGrow
    <3> QED
      BY <1>1, <2>2, <3>2, <3>4
  <2> HIDE DEF q, t
  <2>4. /\ q.at = p.at /\ q.stale = p.stale /\ q.failed = p.failed
        /\ t.size = b.size /\ t.tag = p.at /\ t.budget = b.size
    BY <2>2
  <2> QED
    BY <1>4, <2>1, <2>2, <2>3, <2>4 DEF Adopted
<1> QED
  BY <1>2, <1>3, <1>4

LEMMA StartKeepingStep ==
  ASSUME MemoryInv, NEW at \in Addresses, StartKeeping(at)
  PROVE  MemoryInv'
<1> DEFINE p0 == [NoParse EXCEPT !.at = at, !.stale = \E f \in Fields : held[f].tag = at]
           a1 == Adopt([parse |-> p0, held |-> held], "string")
           a2 == Adopt(a1, "array")
<1>1. /\ duty = NoDuty /\ ~Parsing /\ parse' = a2.parse /\ held' = a2.held
      /\ UNCHANGED <<fresh, duty, block, chore, stats>>
  BY DEF StartKeeping
<1>2. /\ p0 \in Parses /\ p0.at = at /\ p0.live = 0 /\ ~p0.failed
      /\ p0.stale = (\E f \in Fields : held[f].tag = at)
  OBVIOUS
<1>3. /\ held \in [Fields -> Blocks] /\ "string" \in Fields /\ "array" \in Fields
      /\ \A f \in Fields : held[f].size = 0 => held[f] = NoBlock
  BY DEF MemoryInv, MemoryTypeOK, BlocksWhole
<1>4. /\ a1 = [parse |-> a1.parse, held |-> a1.held]
      /\ a1.parse \in Parses /\ a1.held \in [Fields -> Blocks]
      /\ a1.parse.at = at /\ a1.parse.stale = p0.stale
      /\ a1.held["string"].size = held["string"].size
      /\ held["string"] = NoBlock => a1.held["string"] = NoBlock
      /\ a1.held["array"] = held["array"]
      /\ ~a1.parse.failed =>
           /\ held["string"] = NoBlock => a1.parse.live = 0
           /\ held["string"] # NoBlock /\ held["string"].tag # at =>
                /\ a1.held["string"].tag = at
                /\ a1.held["string"].budget = held["string"].size
                /\ a1.parse.live = held["string"].size
                /\ a1.parse.live <= Ceiling
  <2> HIDE DEF p0
  <2>1. Adopted(p0, held, "string", a1)
    BY <1>2, <1>3, AdoptFacts
  <2> HIDE DEF a1
  <2> QED
    BY <1>2, <1>3, <2>1 DEF Adopted
<1> HIDE DEF a1
<1>5. /\ a2.parse \in Parses /\ a2.held \in [Fields -> Blocks]
      /\ a2.parse.at = at /\ a2.parse.stale = p0.stale
      /\ a2.held["array"].size = held["array"].size
      /\ held["array"] = NoBlock => a2.held["array"] = NoBlock
      /\ a2.held["string"] = a1.held["string"]
      /\ ~a2.parse.failed =>
           /\ ~a1.parse.failed
           /\ held["array"] = NoBlock => a2.parse.live = a1.parse.live
           /\ held["array"] # NoBlock /\ held["array"].tag # at =>
                /\ a2.held["array"].tag = at
                /\ a2.held["array"].budget = held["array"].size
                /\ a2.parse.live = a1.parse.live + held["array"].size
                /\ a2.parse.live <= Ceiling
  <2> DEFINE ap == a1.parse
             ah == a1.held
  <2>1. a2 = Adopt([parse |-> ap, held |-> ah], "array")
    BY <1>4
  <2>2. /\ ap \in Parses /\ ah \in [Fields -> Blocks] /\ ah["array"] = held["array"]
        /\ ap.at = at /\ ap.stale = p0.stale
    BY <1>4
  <2> HIDE DEF ap, ah, a2, p0
  <2>3. Adopted(ap, ah, "array", a2)
    BY <1>3, <2>1, <2>2, AdoptFacts
  <2> QED
    BY <1>3, <2>2, <2>3 DEF Adopted, ap, ah
<1> HIDE DEF a2
<1>6. MemoryTypeOK'
  BY <1>1, <1>5 DEF MemoryInv, MemoryTypeOK
<1>7. BlocksWhole'
  BY <1>1, <1>3, <1>4, <1>5 DEF MemoryInv, BlocksWhole
<1>8. DutyInv' /\ ChoreInv'
  BY <1>1 DEF MemoryInv, DutyInv, ChoreInv
<1>9. StatsInv'
  BY <1>1, <1>4, <1>5 DEF MemoryInv, StatsInv, KnownSize, KnownFresh, KnownBuffer
<1>10. CeilingInv'
  <2> HIDE DEF p0
  <2> QED
    BY <1>1, <1>2, <1>3, <1>4, <1>5
       DEF MemoryInv, MemoryTypeOK, DutyInv, CeilingInv, KnownSize, KnownFresh, Accounted, Grown
<1> QED
  BY <1>6, <1>7, <1>8, <1>9, <1>10 DEF MemoryInv

LEMMA StartClearingStep ==
  ASSUME MemoryInv, NEW at \in Addresses, StartClearing(at)
  PROVE  MemoryInv'
<1>1. MemoryTypeOK'
  BY DEF MemoryInv, MemoryTypeOK, BlocksWhole, DutyInv, ChoreInv, StatsInv, StartClearing
<1>2. BlocksWhole'
  BY DEF MemoryInv, MemoryTypeOK, BlocksWhole, DutyInv, ChoreInv, StatsInv, StartClearing
<1>3. DutyInv'
  BY DEF MemoryInv, MemoryTypeOK, BlocksWhole, DutyInv, StartClearing
<1>4. ChoreInv'
  BY DEF MemoryInv, MemoryTypeOK, ChoreInv, StartClearing
<1>5. StatsInv'
  BY DEF MemoryInv, MemoryTypeOK, BlocksWhole, DutyInv, ChoreInv, StatsInv, KnownSize, KnownFresh, KnownBuffer, One, StartClearing
<1>6. CeilingInv'
  BY DEF MemoryInv, MemoryTypeOK, BlocksWhole, DutyInv, CeilingInv, KnownSize, KnownFresh, Accounted, Grown, StartClearing
<1> QED
  BY <1>1, <1>2, <1>3, <1>4, <1>5, <1>6 DEF MemoryInv

LEMMA ClearFieldStep ==
  ASSUME MemoryInv, NEW f \in Fields, ClearField(f)
  PROVE  MemoryInv'
<1>1. MemoryTypeOK'
  BY DiscardFacts DEF MemoryInv, MemoryTypeOK, ClearField, Discard
<1>2. BlocksWhole'
  BY DEF MemoryInv, MemoryTypeOK, BlocksWhole, DutyInv, ChoreInv, StatsInv, ClearField, Discard, NoteRelease, NoteFree, Counted, Less
<1>3. DutyInv'
  BY DEF MemoryInv, MemoryTypeOK, BlocksWhole, DutyInv, ClearField, Discard, NoteRelease, NoteFree, Counted, Less
<1>4. ChoreInv'
  BY DEF MemoryInv, MemoryTypeOK, ChoreInv, ClearField, Discard, NoteRelease, NoteFree, Counted, Less
<1>5. StatsInv'
  <2>1. Discard(f) /\ duty.op = "clear"
    BY DEF ClearField
  <2> QED
    BY <2>1, DiscardFacts DEF MemoryInv, MemoryTypeOK, DutyInv, StatsInv, Discard, KnownSize, KnownFresh, KnownBuffer, One
<1>6. CeilingInv'
  BY DEF MemoryInv, MemoryTypeOK, BlocksWhole, DutyInv, CeilingInv, KnownSize, KnownFresh, Accounted, Grown, ClearField, Discard, NoteRelease, NoteFree, Counted, Less
<1> QED
  BY <1>1, <1>2, <1>3, <1>4, <1>5, <1>6 DEF MemoryInv

LEMMA CleanupFieldStep ==
  ASSUME MemoryInv, NEW f \in Fields, CleanupField(f)
  PROVE  MemoryInv'
<1>1. MemoryTypeOK'
  BY DiscardFacts DEF MemoryInv, MemoryTypeOK, CleanupField, Discard
<1>2. BlocksWhole'
  BY DEF MemoryInv, MemoryTypeOK, BlocksWhole, DutyInv, ChoreInv, StatsInv, CleanupField, Discard, NoteRelease, NoteFree, Counted, Less
<1>3. DutyInv'
  BY DEF MemoryInv, MemoryTypeOK, BlocksWhole, DutyInv, CleanupField, Discard, NoteRelease, NoteFree, Counted, Less
<1>4. ChoreInv'
  BY DEF MemoryInv, MemoryTypeOK, ChoreInv, CleanupField, Discard, NoteRelease, NoteFree, Counted, Less
<1>5. StatsInv'
  <2>1. Discard(f) /\ duty.op = "none"
    BY DEF CleanupField
  <2> QED
    BY <2>1, DiscardFacts DEF MemoryInv, MemoryTypeOK, DutyInv, StatsInv, Discard, KnownSize, KnownFresh, KnownBuffer, One
<1>6. CeilingInv'
  BY DEF MemoryInv, MemoryTypeOK, BlocksWhole, DutyInv, CeilingInv, KnownSize, KnownFresh, Accounted, Grown, CleanupField, Discard, NoteRelease, NoteFree, Counted, Less
<1> QED
  BY <1>1, <1>2, <1>3, <1>4, <1>5, <1>6 DEF MemoryInv

LEMMA ClearDoneStep ==
  ASSUME MemoryInv, ClearDone
  PROVE  MemoryInv'
<1>1. MemoryTypeOK'
  BY DEF MemoryInv, MemoryTypeOK, BlocksWhole, DutyInv, ChoreInv, StatsInv, ClearDone
<1>2. BlocksWhole'
  BY DEF MemoryInv, MemoryTypeOK, BlocksWhole, DutyInv, ChoreInv, StatsInv, ClearDone
<1>3. DutyInv'
  BY DEF MemoryInv, MemoryTypeOK, BlocksWhole, DutyInv, ClearDone
<1>4. ChoreInv'
  BY DEF MemoryInv, MemoryTypeOK, ChoreInv, ClearDone
<1>5. StatsInv'
  BY DEF MemoryInv, MemoryTypeOK, BlocksWhole, DutyInv, ChoreInv, StatsInv, KnownSize, KnownFresh, KnownBuffer, One, ClearDone
<1>6. CeilingInv'
  BY DEF MemoryInv, MemoryTypeOK, BlocksWhole, DutyInv, CeilingInv, KnownSize, KnownFresh, Accounted, Grown, ClearDone
<1> QED
  BY <1>1, <1>2, <1>3, <1>4, <1>5, <1>6 DEF MemoryInv

LEMMA FreedStep ==
  ASSUME MemoryInv, Freed
  PROVE  MemoryInv'
<1>1. MemoryTypeOK'
  BY DEF MemoryInv, MemoryTypeOK, BlocksWhole, DutyInv, ChoreInv, StatsInv, Freed
<1>2. BlocksWhole'
  BY DEF MemoryInv, MemoryTypeOK, BlocksWhole, DutyInv, ChoreInv, StatsInv, Freed
<1>3. DutyInv'
  BY DEF MemoryInv, MemoryTypeOK, BlocksWhole, DutyInv, Freed
<1>4. ChoreInv'
  BY DEF MemoryInv, MemoryTypeOK, ChoreInv, Freed
<1>5. StatsInv'
  BY DEF MemoryInv, MemoryTypeOK, BlocksWhole, DutyInv, ChoreInv, StatsInv, KnownSize, KnownFresh, KnownBuffer, One, Freed
<1>6. CeilingInv'
  BY DEF MemoryInv, MemoryTypeOK, BlocksWhole, DutyInv, CeilingInv, KnownSize, KnownFresh, Accounted, Grown, Freed
<1> QED
  BY <1>1, <1>2, <1>3, <1>4, <1>5, <1>6 DEF MemoryInv

LEMMA AssignStringStep ==
  ASSUME MemoryInv, NEW n \in Sizes, AssignString(n)
  PROVE  MemoryInv'
<1>1. MemoryTypeOK'
  <2>1. n \in Nat
    OBVIOUS
  <2>2. fresh' \in Blocks /\ duty' \in Duties
    BY <2>1 DEF MemoryInv, MemoryTypeOK, AssignString, GrowthFails
  <2> QED
    BY <2>2 DEF MemoryInv, MemoryTypeOK, AssignString, GrowthFails
<1>2. BlocksWhole'
  BY DEF MemoryInv, MemoryTypeOK, BlocksWhole, DutyInv, ChoreInv, StatsInv, AssignString, GrowthFails, Working, CanGrow, Less
<1>3. DutyInv'
  BY DEF MemoryInv, MemoryTypeOK, BlocksWhole, DutyInv, AssignString, GrowthFails, Working, CanGrow, Less
<1>4. ChoreInv'
  BY DEF MemoryInv, MemoryTypeOK, ChoreInv, AssignString, GrowthFails, Working, CanGrow, Less
<1>5. StatsInv'
  BY DEF MemoryInv, MemoryTypeOK, BlocksWhole, DutyInv, ChoreInv, StatsInv, KnownSize, KnownFresh, KnownBuffer, One, AssignString, GrowthFails, Working, CanGrow, Less
<1>6. CeilingInv'
  BY DEF MemoryInv, MemoryTypeOK, BlocksWhole, DutyInv, CeilingInv, KnownSize, KnownFresh, Accounted, Grown, AssignString, GrowthFails, Working, CanGrow, Less
<1> QED
  BY <1>1, <1>2, <1>3, <1>4, <1>5, <1>6 DEF MemoryInv

LEMMA GrowArrayStep ==
  ASSUME MemoryInv, GrowArray
  PROVE  MemoryInv'
<1>1. MemoryTypeOK'
  <2>1. 2 * held["array"].size \in Nat
    BY DEF MemoryInv, MemoryTypeOK
  <2>2. fresh' \in Blocks /\ duty' \in Duties
    BY <2>1 DEF MemoryInv, MemoryTypeOK, GrowArray, GrowthFails
  <2> QED
    BY <2>2 DEF MemoryInv, MemoryTypeOK, GrowArray, GrowthFails
<1>2. BlocksWhole'
  BY DEF MemoryInv, MemoryTypeOK, BlocksWhole, DutyInv, ChoreInv, StatsInv, GrowArray, GrowthFails, Working, CanGrow, Counted, Less
<1>3. DutyInv'
  BY DEF MemoryInv, MemoryTypeOK, BlocksWhole, DutyInv, GrowArray, GrowthFails, Working, CanGrow, Counted, Less
<1>4. ChoreInv'
  BY DEF MemoryInv, MemoryTypeOK, ChoreInv, GrowArray, GrowthFails, Working, CanGrow, Counted, Less
<1>5. StatsInv'
  BY DEF MemoryInv, MemoryTypeOK, BlocksWhole, DutyInv, ChoreInv, StatsInv, KnownSize, KnownFresh, KnownBuffer, One, GrowArray, GrowthFails, Working, CanGrow, Counted, Less
<1>6. CeilingInv'
  BY DEF MemoryInv, MemoryTypeOK, BlocksWhole, DutyInv, CeilingInv, KnownSize, KnownFresh, Accounted, Grown, GrowArray, GrowthFails, Working, CanGrow, Counted, Less
<1> QED
  BY <1>1, <1>2, <1>3, <1>4, <1>5, <1>6 DEF MemoryInv

LEMMA AllocatedStep ==
  ASSUME MemoryInv, Allocated
  PROVE  MemoryInv'
<1>1. MemoryTypeOK'
  <2>1. stats \in Statistics /\ stats.live <= stats.peak /\ duty.size \in Nat
    BY DEF MemoryInv, MemoryTypeOK, StatsInv
  <2>2. stats' \in Statistics
    BY <2>1, NoteFacts DEF Allocated
  <2>3. parse' \in Parses /\ fresh' \in Blocks
    BY <2>1, ResizeFacts DEF MemoryInv, MemoryTypeOK, Allocated
  <2> QED
    BY <2>2, <2>3 DEF MemoryInv, MemoryTypeOK, Allocated
<1>2. BlocksWhole'
  BY DEF MemoryInv, MemoryTypeOK, BlocksWhole, DutyInv, ChoreInv, StatsInv, Allocated, NoteAlloc, Lived, NoteResize, Tagged, Counted, Less
<1>3. DutyInv'
  BY DEF MemoryInv, MemoryTypeOK, BlocksWhole, DutyInv, Allocated, NoteAlloc, Lived, NoteResize, Tagged, Counted, Less
<1>4. ChoreInv'
  BY DEF MemoryInv, MemoryTypeOK, ChoreInv, Allocated, NoteAlloc, Lived, NoteResize, Tagged, Counted, Less
<1>5. StatsInv'
  <2>1. stats \in Statistics /\ stats.live <= stats.peak /\ duty.size \in Nat
    BY DEF MemoryInv, MemoryTypeOK, StatsInv
  <2>2. /\ stats'.live = stats.live + duty.size /\ stats'.calls = stats.calls + 1
        /\ stats'.live <= stats'.peak
    BY <2>1, NoteFacts DEF Allocated
  <2>3. fresh'.size = duty.size
    BY <2>1, ResizeFacts DEF MemoryInv, MemoryTypeOK, Allocated
  <2> QED
    BY <2>2, <2>3 DEF MemoryInv, MemoryTypeOK, Statistics, Allocated, DutyInv, ChoreInv, StatsInv, KnownSize, KnownFresh, KnownBuffer, One
<1>6. CeilingInv'
  BY DEF MemoryInv, MemoryTypeOK, BlocksWhole, DutyInv, CeilingInv, KnownSize, KnownFresh, Accounted, Grown, Allocated, NoteAlloc, Lived, NoteResize, Tagged, Counted, Less
<1> QED
  BY <1>1, <1>2, <1>3, <1>4, <1>5, <1>6 DEF MemoryInv

LEMMA StoredStep ==
  ASSUME MemoryInv, Stored
  PROVE  MemoryInv'
<1>1. MemoryTypeOK'
  <2>1. CASE held[duty.field] # NoBlock /\ Discard(duty.field)
    BY <2>1, DiscardFacts DEF MemoryInv, MemoryTypeOK, Stored, Discard
  <2>2. CASE held[duty.field] = NoBlock
    BY <2>2 DEF MemoryInv, MemoryTypeOK, Stored, Discard
  <2> QED
    BY <2>1, <2>2 DEF Stored
<1>2. BlocksWhole'
  BY DEF MemoryInv, MemoryTypeOK, BlocksWhole, DutyInv, ChoreInv, StatsInv, Stored, Discard, NoteRelease, NoteFree, Counted, Less
<1>3. DutyInv'
  BY DEF MemoryInv, MemoryTypeOK, BlocksWhole, DutyInv, Stored, Discard, NoteRelease, NoteFree, Counted, Less
<1>4. ChoreInv'
  BY DEF MemoryInv, MemoryTypeOK, ChoreInv, Stored, Discard, NoteRelease, NoteFree, Counted, Less
<1>5. StatsInv'
  <2>1. CASE held[duty.field] # NoBlock /\ Discard(duty.field)
    BY <2>1, DiscardFacts
       DEF MemoryInv, MemoryTypeOK, DutyInv, StatsInv, Stored, Discard, KnownSize, KnownFresh,
           KnownBuffer, One
  <2>2. CASE held[duty.field] = NoBlock
    BY <2>2 DEF MemoryInv, MemoryTypeOK, DutyInv, StatsInv, Stored, Discard, KnownSize, KnownFresh,
                KnownBuffer, One
  <2> QED
    BY <2>1, <2>2 DEF Stored
<1>6. CeilingInv'
  BY DEF MemoryInv, MemoryTypeOK, BlocksWhole, DutyInv, CeilingInv, KnownSize, KnownFresh, Accounted, Grown, Stored, Discard, NoteRelease, NoteFree, Counted, Less
<1> QED
  BY <1>1, <1>2, <1>3, <1>4, <1>5, <1>6 DEF MemoryInv

LEMMA ReallocatedStep ==
  ASSUME MemoryInv, Reallocated
  PROVE  MemoryInv'
<1>1. MemoryTypeOK'
  <2>1. /\ stats \in Statistics /\ stats.live <= stats.peak /\ duty.size \in Nat
        /\ held["array"].size \in Nat
    BY DEF MemoryInv, MemoryTypeOK, StatsInv
  <2>2. stats' \in Statistics
    BY <2>1, NoteFacts DEF Reallocated
  <2>3. parse' \in Parses /\ held' \in [Fields -> Blocks]
    BY <2>1, ResizeFacts DEF MemoryInv, MemoryTypeOK, Reallocated
  <2> QED
    BY <2>2, <2>3 DEF MemoryInv, MemoryTypeOK, Reallocated
<1>2. BlocksWhole'
  BY DEF MemoryInv, MemoryTypeOK, BlocksWhole, DutyInv, ChoreInv, StatsInv, Reallocated, NoteRealloc, Lived, NoteResize, Tagged, Counted, Less
<1>3. DutyInv'
  BY DEF MemoryInv, MemoryTypeOK, BlocksWhole, DutyInv, Reallocated, NoteRealloc, Lived, NoteResize, Tagged, Counted, Less
<1>4. ChoreInv'
  BY DEF MemoryInv, MemoryTypeOK, ChoreInv, Reallocated, NoteRealloc, Lived, NoteResize, Tagged, Counted, Less
<1>5. StatsInv'
  <2>1. /\ stats \in Statistics /\ stats.live <= stats.peak /\ duty.size \in Nat
        /\ held["array"].size \in Nat /\ stats.live \in Nat
    BY DEF MemoryInv, MemoryTypeOK, StatsInv, Statistics
  <2>2. held["array"].size <= stats.live
    BY DEF MemoryInv, MemoryTypeOK, StatsInv, KnownSize, KnownFresh, KnownBuffer, Reallocated
  <2>3. /\ stats'.live = stats.live - held["array"].size + duty.size
        /\ stats'.calls = stats.calls /\ stats'.live <= stats'.peak
    <3>1. Less(stats.live, held["array"].size) = stats.live - held["array"].size
      BY <2>1, <2>2, LessFacts
    <3> DEFINE t == NoteRealloc(stats, held["array"].size, duty.size)
    <3>2. /\ t.live = Less(stats.live, held["array"].size) + duty.size
          /\ t.calls = stats.calls /\ t.live <= t.peak
      BY <2>1, NoteFacts
    <3>3. stats' = t
      BY DEF Reallocated
    <3> QED
      BY <3>1, <3>2, <3>3
  <2>4. held'["string"] = held["string"] /\ held'["array"].size = duty.size
    BY <2>1, ResizeFacts DEF MemoryInv, MemoryTypeOK, Reallocated
  <2> QED
    BY <2>1, <2>3, <2>4 DEF MemoryInv, MemoryTypeOK, Reallocated, DutyInv, ChoreInv, StatsInv, KnownSize, KnownFresh, KnownBuffer, One
<1>6. CeilingInv'
  BY DEF MemoryInv, MemoryTypeOK, BlocksWhole, DutyInv, CeilingInv, KnownSize, KnownFresh, Accounted, Grown, Reallocated, NoteRealloc, Lived, NoteResize, Tagged, Counted, Less
<1> QED
  BY <1>1, <1>2, <1>3, <1>4, <1>5, <1>6 DEF MemoryInv

LEMMA EndParseStep ==
  ASSUME MemoryInv, EndParse
  PROVE  MemoryInv'
<1>1. MemoryTypeOK'
  BY DEF MemoryInv, MemoryTypeOK, BlocksWhole, DutyInv, ChoreInv, StatsInv, EndParse
<1>2. BlocksWhole'
  BY DEF MemoryInv, MemoryTypeOK, BlocksWhole, DutyInv, ChoreInv, StatsInv, EndParse
<1>3. DutyInv'
  BY DEF MemoryInv, MemoryTypeOK, BlocksWhole, DutyInv, EndParse
<1>4. ChoreInv'
  BY DEF MemoryInv, MemoryTypeOK, ChoreInv, EndParse
<1>5. StatsInv'
  BY DEF MemoryInv, MemoryTypeOK, BlocksWhole, DutyInv, ChoreInv, StatsInv, KnownSize, KnownFresh, KnownBuffer, One, EndParse
<1>6. CeilingInv'
  BY DEF MemoryInv, MemoryTypeOK, BlocksWhole, DutyInv, CeilingInv, KnownSize, KnownFresh, Accounted, Grown, EndParse
<1> QED
  BY <1>1, <1>2, <1>3, <1>4, <1>5, <1>6 DEF MemoryInv

LEMMA BufferGrowStep ==
  ASSUME MemoryInv, NEW n \in Sizes, BufferGrow(n)
  PROVE  MemoryInv'
<1>1. MemoryTypeOK'
  BY DEF MemoryInv, MemoryTypeOK, BlocksWhole, DutyInv, ChoreInv, StatsInv, BufferGrow
<1>2. BlocksWhole'
  BY DEF MemoryInv, MemoryTypeOK, BlocksWhole, DutyInv, ChoreInv, StatsInv, BufferGrow
<1>3. DutyInv'
  BY DEF MemoryInv, MemoryTypeOK, BlocksWhole, DutyInv, BufferGrow
<1>4. ChoreInv'
  BY DEF MemoryInv, MemoryTypeOK, ChoreInv, BufferGrow
<1>5. StatsInv'
  BY DEF MemoryInv, MemoryTypeOK, BlocksWhole, DutyInv, ChoreInv, StatsInv, KnownSize, KnownFresh, KnownBuffer, One, BufferGrow
<1>6. CeilingInv'
  BY DEF MemoryInv, MemoryTypeOK, BlocksWhole, DutyInv, CeilingInv, KnownSize, KnownFresh, Accounted, Grown, BufferGrow
<1> QED
  BY <1>1, <1>2, <1>3, <1>4, <1>5, <1>6 DEF MemoryInv

LEMMA BufferNotedStep ==
  ASSUME MemoryInv, BufferNoted
  PROVE  MemoryInv'
<1>1. MemoryTypeOK'
  <2>1. /\ stats \in Statistics /\ stats.live <= stats.peak /\ chore.size \in Nat
        /\ block \in Nat
    BY DEF MemoryInv, MemoryTypeOK, StatsInv
  <2>2. stats' \in Statistics
    BY <2>1, NoteFacts DEF BufferNoted
  <2> QED
    BY <2>2 DEF MemoryInv, MemoryTypeOK, BufferNoted
<1>2. BlocksWhole'
  BY DEF MemoryInv, MemoryTypeOK, BlocksWhole, DutyInv, ChoreInv, StatsInv, BufferNoted, NoteAlloc, NoteRealloc, Lived, Less
<1>3. DutyInv'
  BY DEF MemoryInv, MemoryTypeOK, BlocksWhole, DutyInv, BufferNoted, NoteAlloc, NoteRealloc, Lived, Less
<1>4. ChoreInv'
  BY DEF MemoryInv, MemoryTypeOK, ChoreInv, BufferNoted, NoteAlloc, NoteRealloc, Lived, Less
<1>5. StatsInv'
  <2>1. /\ stats \in Statistics /\ stats.live <= stats.peak /\ chore.size \in Nat
        /\ block \in Nat /\ stats.live \in Nat
    BY DEF MemoryInv, MemoryTypeOK, StatsInv, Statistics
  <2>2. CASE chore.op = "note_alloc"
    <3>1. /\ stats'.live = stats.live + chore.size /\ stats'.calls = stats.calls + 1
          /\ stats'.live <= stats'.peak
      BY <2>1, <2>2, NoteFacts DEF BufferNoted
    <3> QED
      BY <2>1, <2>2, <3>1 DEF MemoryInv, MemoryTypeOK, BufferNoted, DutyInv, ChoreInv, StatsInv, KnownSize, KnownFresh, KnownBuffer, One
  <2>3. CASE chore.op = "note_realloc"
    <3>1. block <= stats.live
      BY <2>3 DEF MemoryInv, MemoryTypeOK, StatsInv, KnownSize, KnownFresh, KnownBuffer
    <3>2. /\ stats'.live = stats.live - block + chore.size /\ stats'.calls = stats.calls
          /\ stats'.live <= stats'.peak
      <4>1. Less(stats.live, block) = stats.live - block
        BY <2>1, <3>1, LessFacts
      <4> DEFINE t == NoteRealloc(stats, block, chore.size)
      <4>2. /\ t.live = Less(stats.live, block) + chore.size
            /\ t.calls = stats.calls /\ t.live <= t.peak
        BY <2>1, NoteFacts
      <4>3. stats' = t
        BY <2>3 DEF BufferNoted
      <4> QED
        BY <4>1, <4>2, <4>3
    <3> QED
      BY <2>1, <2>3, <3>2 DEF MemoryInv, MemoryTypeOK, BufferNoted, DutyInv, ChoreInv, StatsInv, KnownSize, KnownFresh, KnownBuffer, One
  <2> QED
    BY <2>2, <2>3 DEF BufferNoted
<1>6. CeilingInv'
  BY DEF MemoryInv, MemoryTypeOK, BlocksWhole, DutyInv, CeilingInv, KnownSize, KnownFresh, Accounted, Grown, BufferNoted, NoteAlloc, NoteRealloc, Lived, Less
<1> QED
  BY <1>1, <1>2, <1>3, <1>4, <1>5, <1>6 DEF MemoryInv

LEMMA BufferFreeStep ==
  ASSUME MemoryInv, BufferFree
  PROVE  MemoryInv'
<1>1. MemoryTypeOK'
  <2>1. stats \in Statistics /\ stats.live <= stats.peak /\ block \in Nat
    BY DEF MemoryInv, MemoryTypeOK, StatsInv
  <2>2. stats' \in Statistics
    BY <2>1, NoteFacts DEF BufferFree
  <2> QED
    BY <2>2 DEF MemoryInv, MemoryTypeOK, BufferFree
<1>2. BlocksWhole'
  BY DEF MemoryInv, MemoryTypeOK, BlocksWhole, DutyInv, ChoreInv, StatsInv, BufferFree, NoteFree, Less
<1>3. DutyInv'
  BY DEF MemoryInv, MemoryTypeOK, BlocksWhole, DutyInv, BufferFree, NoteFree, Less
<1>4. ChoreInv'
  BY DEF MemoryInv, MemoryTypeOK, ChoreInv, BufferFree, NoteFree, Less
<1>5. StatsInv'
  <2>1. /\ stats \in Statistics /\ stats.live <= stats.peak /\ block \in Nat
        /\ stats.live \in Nat
    BY DEF MemoryInv, MemoryTypeOK, StatsInv, Statistics
  <2>2. block <= stats.live
    BY DEF MemoryInv, MemoryTypeOK, StatsInv, KnownSize, KnownFresh, KnownBuffer, BufferFree
  <2>3. /\ stats'.live = stats.live - block /\ stats'.calls = stats.calls - 1
        /\ stats'.live <= stats'.peak
    <3>1. Less(stats.live, block) = stats.live - block
      BY <2>1, <2>2, LessFacts
    <3> QED
      BY <2>1, <3>1, NoteFacts DEF BufferFree
  <2> QED
    BY <2>1, <2>3 DEF MemoryInv, MemoryTypeOK, BufferFree, DutyInv, ChoreInv, StatsInv, KnownSize, KnownFresh, KnownBuffer, One
<1>6. CeilingInv'
  BY DEF MemoryInv, MemoryTypeOK, BlocksWhole, DutyInv, CeilingInv, KnownSize, KnownFresh, Accounted, Grown, BufferFree, NoteFree, Less
<1> QED
  BY <1>1, <1>2, <1>3, <1>4, <1>5, <1>6 DEF MemoryInv

LEMMA BufferFreedStep ==
  ASSUME MemoryInv, BufferFreed
  PROVE  MemoryInv'
<1>1. MemoryTypeOK'
  BY DEF MemoryInv, MemoryTypeOK, BlocksWhole, DutyInv, ChoreInv, StatsInv, BufferFreed
<1>2. BlocksWhole'
  BY DEF MemoryInv, MemoryTypeOK, BlocksWhole, DutyInv, ChoreInv, StatsInv, BufferFreed
<1>3. DutyInv'
  BY DEF MemoryInv, MemoryTypeOK, BlocksWhole, DutyInv, BufferFreed
<1>4. ChoreInv'
  BY DEF MemoryInv, MemoryTypeOK, ChoreInv, BufferFreed
<1>5. StatsInv'
  BY DEF MemoryInv, MemoryTypeOK, BlocksWhole, DutyInv, ChoreInv, StatsInv, KnownSize, KnownFresh, KnownBuffer, One, BufferFreed
<1>6. CeilingInv'
  BY DEF MemoryInv, MemoryTypeOK, BlocksWhole, DutyInv, CeilingInv, KnownSize, KnownFresh, Accounted, Grown, BufferFreed
<1> QED
  BY <1>1, <1>2, <1>3, <1>4, <1>5, <1>6 DEF MemoryInv

\* The invariant is inductive.
LEMMA MemoryStep == MemoryInv /\ [MemoryNext]_memoryVars => MemoryInv'
<1> SUFFICES ASSUME MemoryInv, [MemoryNext]_memoryVars PROVE MemoryInv'
  OBVIOUS
<1>1. CASE UNCHANGED memoryVars
  BY <1>1 DEF memoryVars, MemoryInv, MemoryTypeOK, BlocksWhole, DutyInv, ChoreInv, StatsInv,
              CeilingInv, KnownSize, KnownFresh, KnownBuffer, One, Accounted, Grown
<1>2. CASE MemoryNext
  BY <1>2, StartKeepingStep, StartClearingStep, ClearFieldStep, CleanupFieldStep,
     ClearDoneStep, FreedStep, AssignStringStep, GrowArrayStep, AllocatedStep, StoredStep,
     ReallocatedStep, EndParseStep, BufferGrowStep, BufferNotedStep, BufferFreeStep,
     BufferFreedStep, Zenon
     DEF MemoryNext
<1> QED
  BY <1>1, <1>2

\* It gives what the runs check.
LEMMA MemoryInvExact == MemoryInv => MemoryExact
<1> SUFFICES ASSUME MemoryInv PROVE StatsExact /\ CeilingHolds
  BY DEF MemoryExact
<1>1. StatsExact
  BY DEF MemoryInv, MemoryTypeOK, BlocksWhole, DutyInv, ChoreInv, StatsInv, KnownSize,
         KnownFresh, KnownBuffer, One, Statistics, StatsExact, StructureBytes, BufferBytes,
         Grown, Count
<1>2. CeilingHolds
  BY DEF MemoryInv, MemoryTypeOK, DutyInv, CeilingInv, KnownSize, KnownFresh, Accounted,
         CeilingHolds, StructureBytes, Grown
<1> QED
  BY <1>1, <1>2

\* Memory is accounted for (lonejson__allocator_note_alloc and its like,
\* lonejson__parser_alloc_can_grow): for any ceiling and any interleaving of
\* the threads the statistics are what the threads hold, and a parse that
\* takes over no block it mistakes for its own stays below the ceiling.
THEOREM MemoryIsExact == MemorySpec => []MemoryExact
<1>1. MemorySpec => []MemoryInv
  BY MemoryInitial, MemoryStep, PTL DEF MemorySpec
<1> QED
  BY <1>1, MemoryInvExact, PTL

=============================================================================
