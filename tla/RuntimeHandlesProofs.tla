------------------------ MODULE RuntimeHandlesProofs ------------------------
(***************************************************************************)
(* Proofs about RuntimeHandles for any number of threads, addresses,       *)
(* copies and nested calls.                                                *)
(***************************************************************************)
EXTENDS RuntimeHandles, FiniteSetTheorems, TLAPS

\* Below a running frame every frame of its thread is in a callback.
StackInv ==
  \A f \in Frames : pc[f] # "idle" =>
    \A d \in 1..MaxDepth : d < f[2] => pc[<<f[1], d>>] = "use"

\* A bundle under construction, or being released, is nobody else's, but for
\* a set_*_provider on a copy.
ExclusiveInv ==
  \A f, g \in Frames : f # g =>
    /\ pc[f] \in NewPC \cup {"reclaim"} /\ pc[g] \notin {"idle", "copyWrite"}
         => at[g] # at[f]
    /\ pc[f] \in FreePC /\ pc[g] \in FreePC => at[g] # at[f]

\* A bundle between its allocation and the return of lonejson_new.
NewInv ==
  \A f \in Frames : pc[f] \in NewPC =>
    /\ at[f] \notin published
    /\ ~closing[at[f]]
    /\ pc[f] = "registered" <=> at[f] \in live
    /\ pc[f] # "new" => generation[at[f]] = birth[at[f]] + 1

\* A bundle that lonejson_free has closed.
FreeInv ==
  \A f \in Frames : pc[f] \in FreePC =>
    at[f] \notin published /\ at[f] \notin live /\ closing[at[f]]

\* A call between its entry and the answer of the registry is protected by
\* the client's use of an open runtime or by the pin of an enclosing call.
EntryInv ==
  \A f \in Frames : pc[f] \in EntryPC => at[f] \in published \/ HeldBelow(f, at[f])

\* The live list holds open, numbered bundles.
LiveInv ==
  \A a \in live : /\ a \in allocated /\ ~closing[a]
                  /\ generation[a] = birth[a] + 1

\* The owner pointers in use.
PublishedInv ==
  \A a \in published : a \in live /\ token[a] = generation[a]

\* As long as the counter has not wrapped, a token identifies its runtime, and
\* no copy carries the token of a runtime that was not returned yet.
TokenInv ==
  /\ genCounter = news + 1
  /\ \A a \in Addrs : birth[a] <= news
  /\ \A c \in Copies : copies[c].token # 0 =>
       /\ copies[c].token = copies[c].birth + 1
       /\ copies[c].birth <= news
       /\ \A f \in Frames :
            pc[f] \in {"numbered", "registered"} /\ copies[c].addr = at[f]
              => copies[c].birth < birth[at[f]]

\* The inductive invariant: memory safety and the pin count need each other.
IInv ==
  /\ TypeOK
  /\ NoUseAfterFree
  /\ PinsCountBorrows
  /\ StackInv /\ ExclusiveInv /\ NewInv /\ FreeInv /\ EntryInv
  /\ LiveInv /\ PublishedInv /\ TokenInv

\* What the theorems assume of the counter: the 32-bit generation has not
\* wrapped.
Unwrapped == MaxNews + 1 < GenMod

-----------------------------------------------------------------------------

\* The call stacks are finite, so the pinners of a bundle can be counted.
LEMMA PinnersFinite == \A a : IsFiniteSet(Pinners(a))
<1>1. IsFiniteSet(Frames)
  <2>1. IsFiniteSet(1..MaxDepth)
    BY ConstantsAssumption, FS_Interval
  <2>2. IsFiniteSet(Threads)
    BY ConstantsAssumption
  <2> QED
    BY <2>1, <2>2, FS_Product, Zenon DEF Frames
<1>2. \A a : Pinners(a) \in SUBSET Frames
  BY DEF Pinners
<1> QED
  BY <1>1, <1>2, FS_Subset, Zenon

\* One frame more, or one frame less, among the pinners of a bundle.
LEMMA PinnersStep ==
  ASSUME NEW a, NEW f, NEW S
  PROVE  /\ S = Pinners(a) \cup {f} /\ f \notin Pinners(a) =>
              Cardinality(S) = Cardinality(Pinners(a)) + 1
         /\ S = Pinners(a) \ {f} /\ f \in Pinners(a) =>
              Cardinality(S) = Cardinality(Pinners(a)) - 1
         /\ Cardinality(Pinners(a)) \in Nat
         /\ f \in Pinners(a) => Cardinality(Pinners(a)) > 0
BY PinnersFinite, FS_AddElement, FS_RemoveElement, FS_CardinalityType, FS_EmptySet

\* The initial state satisfies the invariant.
LEMMA InitIInv == Init => IInv
<1> SUFFICES ASSUME Init PROVE IInv
  OBVIOUS
<1>1. TypeOK
  BY ConstantsAssumption DEF Init, Somewhere, TypeOK, PC, Frames
<1>2. /\ NoUseAfterFree /\ PinsCountBorrows /\ StackInv /\ ExclusiveInv
      /\ NewInv /\ FreeInv /\ EntryInv /\ LiveInv /\ PublishedInv /\ TokenInv
  BY DEF Init, NoUseAfterFree, PinsCountBorrows, StackInv, ExclusiveInv, NewInv,
         FreeInv, EntryInv, LiveInv, PublishedInv, TokenInv, NewPC, FreePC, EntryPC
<1> QED
  BY <1>1, <1>2 DEF IInv

-----------------------------------------------------------------------------
(***************************************************************************)
(* Facts about the call stacks.                                            *)
(***************************************************************************)

\* A call is made only from the callback of the call below it.
LEMMA BelowAvailable ==
  ASSUME TypeOK, StackInv, NEW f \in Frames, Available(f), NEW d \in 1..MaxDepth,
         d < f[2]
  PROVE  pc[<<f[1], d>>] = "use"
<1> DEFINE g == <<f[1], f[2] - 1>>
<1>1. g \in Frames /\ pc[g] = "use" /\ g[1] = f[1] /\ g[2] = f[2] - 1
  BY ConstantsAssumption DEF Available, Frames
<1>2. CASE d = f[2] - 1
  BY <1>1, <1>2
<1>3. CASE d < f[2] - 1
  BY <1>1, <1>3 DEF StackInv
<1> QED
  BY <1>2, <1>3, ConstantsAssumption DEF Frames

\* Nothing runs above a frame that is idle, or innermost and in use.
LEMMA IdleAbove ==
  ASSUME TypeOK, StackInv, NEW f \in Frames, NEW g \in Frames,
         g[1] = f[1], f[2] < g[2],
         pc[f] = "idle" \/ Innermost(f)
  PROVE  pc[g] = "idle"
<1> DEFINE h == <<f[1], f[2] + 1>>
<1>1. f = <<f[1], f[2]>> /\ f[2] \in 1..MaxDepth /\ g[2] \in 1..MaxDepth
      /\ g = <<g[1], g[2]>> /\ f[1] \in Threads
  BY DEF Frames
<1>2. CASE pc[f] = "idle"
  BY <1>1, <1>2 DEF StackInv
<1>3. CASE Innermost(f)
  <2>1. /\ h \in Frames /\ pc[h] = "idle"
        /\ h[2] = f[2] + 1 /\ h[2] \in 1..MaxDepth /\ h = <<g[1], h[2]>>
    BY <1>1, <1>3, ConstantsAssumption DEF Frames, Innermost
  <2>2. CASE g = h
    BY <2>1, <2>2
  <2>3. CASE g # h
    <3>1. h[2] < g[2]
      BY <1>1, <2>1, <2>3, ConstantsAssumption
    <3> QED
      BY <1>1, <2>1, <3>1 DEF StackInv
  <2> QED
    BY <2>2, <2>3
<1> QED
  BY <1>2, <1>3

\* The pin of an enclosing call survives a step that ends no call in use
\* below g, so a protected entry stays protected.
LEMMA HeldBelowKept ==
  ASSUME NEW g \in Frames, NEW a, HeldBelow(g, a),
         \A h \in Frames : h[1] = g[1] /\ h[2] < g[2] /\ pc[h] = "use"
                             => pc'[h] = "use" /\ at'[h] = at[h]
  PROVE  HeldBelow(g, a)'
<1>1. PICK d \in 1..MaxDepth :
        d < g[2] /\ pc[<<g[1], d>>] = "use" /\ at[<<g[1], d>>] = a
  BY DEF HeldBelow
<1>2. <<g[1], d>> \in Frames /\ <<g[1], d>>[1] = g[1] /\ <<g[1], d>>[2] = d
  BY DEF Frames
<1>3. pc'[<<g[1], d>>] = "use" /\ at'[<<g[1], d>>] = a
  BY <1>1, <1>2
<1> QED
  BY <1>1, <1>3 DEF HeldBelow

\* An enclosing pin is a pin.
LEMMA HeldBelowIsPinned ==
  ASSUME NEW g \in Frames, NEW a, HeldBelow(g, a)
  PROVE  \E h \in Frames : h # g /\ pc[h] = "use" /\ at[h] = a
<1>1. PICK d \in 1..MaxDepth :
        d < g[2] /\ pc[<<g[1], d>>] = "use" /\ at[<<g[1], d>>] = a
  BY DEF HeldBelow
<1>2. <<g[1], d>> \in Frames /\ <<g[1], d>>[2] = d
  BY DEF Frames
<1> QED
  BY <1>1, <1>2 DEF Frames

\* EntryInv is kept by a step that ends no call in use and leaves every
\* entering call on a published or enclosed bundle.
LEMMA EntryKept ==
  ASSUME EntryInv,
         \A h \in Frames : pc[h] = "use" => pc'[h] = "use" /\ at'[h] = at[h],
         \A g \in Frames : pc'[g] \in EntryPC =>
           \/ at'[g] \in published' \/ HeldBelow(g, at'[g])
  PROVE  EntryInv'
<1> SUFFICES ASSUME NEW g \in Frames, pc'[g] \in EntryPC, at'[g] \notin published'
             PROVE  HeldBelow(g, at[g])'
  BY DEF EntryInv, EntryPC
<1>1. HeldBelow(g, at'[g])
  OBVIOUS
<1> DEFINE b == at'[g]
<1>2. PICK d \in 1..MaxDepth :
        d < g[2] /\ pc[<<g[1], d>>] = "use" /\ at[<<g[1], d>>] = b
  BY <1>1 DEF HeldBelow
<1>3. <<g[1], d>> \in Frames
  BY DEF Frames
<1> QED
  BY <1>2, <1>3 DEF HeldBelow

-----------------------------------------------------------------------------

\* Below the modulus, the generation counter counts.
LEMMA ModSmall ==
  ASSUME NEW x \in Nat, NEW n \in Nat, x < n
  PROVE  x % n = x
OBVIOUS

(***************************************************************************)
(* Facts about pins.                                                       *)
(***************************************************************************)

\* PinsCountBorrows is kept when every bundle keeps its pinners and its
\* count, or gains or loses frame f in both.
LEMMA PinsKept ==
  ASSUME PinsCountBorrows, NEW f,
         \A a \in allocated' :
           /\ a \in allocated
           /\ \/ Pinners(a)' = Pinners(a) /\ pins'[a] = pins[a]
              \/ /\ Pinners(a)' = Pinners(a) \cup {f} /\ f \notin Pinners(a)
                 /\ pins'[a] = pins[a] + 1
              \/ /\ Pinners(a)' = Pinners(a) \ {f} /\ f \in Pinners(a)
                 /\ pins'[a] = pins[a] - 1
  PROVE  PinsCountBorrows'
<1> SUFFICES ASSUME NEW a \in allocated'
             PROVE  pins'[a] = Cardinality(Pinners(a)')
  BY DEF PinsCountBorrows
<1>1. pins[a] = Cardinality(Pinners(a))
  BY DEF PinsCountBorrows
<1> QED
  BY <1>1, PinnersStep

\* A call that holds a bundle is counted.
LEMMA PinnedIsCounted ==
  ASSUME TypeOK, NoUseAfterFree, PinsCountBorrows, NEW f \in Frames,
         pc[f] \in PinnedPC
  PROVE  pins[at[f]] > 0
<1>1. f \in Pinners(at[f])
  BY DEF Pinners
<1>2. at[f] \in allocated
  BY DEF NoUseAfterFree, PinnedPC
<1> QED
  BY <1>1, <1>2, PinnersStep DEF PinsCountBorrows

\* The owner pointer of a call that may be made leads to a bundle that is
\* neither under construction nor being released.
LEMMA OwnerUsable ==
  ASSUME IInv, NEW f \in Frames, NEW a \in Addrs, MayUseOwner(f, a)
  PROVE  /\ a \in allocated
         /\ \A g \in Frames : pc[g] \in NewPC \cup {"reclaim"} => at[g] # a
<1>1. CASE a \in published
  BY <1>1 DEF IInv, PublishedInv, LiveInv, NewInv, FreeInv, FreePC, NewPC
<1>2. CASE HeldBelow(f, a)
  <2>1. PICK h \in Frames : pc[h] = "use" /\ at[h] = a
    BY <1>2, HeldBelowIsPinned
  <2> QED
    BY <2>1 DEF IInv, NoUseAfterFree, ExclusiveInv, NewPC
<1> QED
  BY <1>1, <1>2 DEF MayUseOwner

\* When the drain loop reads zero, the freeing call is alone.
LEMMA DrainedAlone ==
  ASSUME IInv, NEW f \in Frames, pc[f] = "drain", pins[at[f]] = 0,
         NEW g \in Frames, g # f, pc[g] \notin {"idle", "copyWrite"}
  PROVE  at[g] # at[f]
<1> SUFFICES ASSUME at[g] = at[f] PROVE FALSE
  OBVIOUS
<1>1. \A h \in Frames : pc[h] \in PinnedPC => at[h] # at[f]
  BY PinnedIsCounted DEF IInv
<1>2. CASE pc[g] \in NewPC
  BY <1>2 DEF IInv, ExclusiveInv
<1>3. CASE pc[g] \in FreePC
  BY <1>3 DEF IInv, ExclusiveInv, FreePC
<1>4. CASE pc[g] \in EntryPC
  <2>1. HeldBelow(g, at[g])
    BY <1>4 DEF IInv, EntryInv, FreeInv, FreePC
  <2> QED
    BY <1>1, <2>1, HeldBelowIsPinned DEF PinnedPC
<1>5. CASE pc[g] = "use"
  BY <1>1, <1>5 DEF PinnedPC
<1> QED
  BY <1>2, <1>3, <1>4, <1>5 DEF IInv, TypeOK, PC

-----------------------------------------------------------------------------
(***************************************************************************)
(* Every action keeps the invariant.                                       *)
(***************************************************************************)

\* A bundle is allocated.
LEMMA NewAllocateStep ==
  ASSUME Unwrapped, IInv, NEW f \in Frames, NEW a \in Addrs, NewAllocate(f, a)
  PROVE  IInv'
<1> USE DEF handleVars, historyVars
<1>1. TypeOK'
  BY DEF IInv, TypeOK, NewAllocate, PC, NewPC, EntryPC, FreePC
<1>2. NoUseAfterFree' /\ ExclusiveInv'
  BY <1>1 DEF IInv, TypeOK, NewAllocate, Available, NoUseAfterFree,
              ExclusiveInv, NewInv, FreeInv, LiveInv, NewPC, FreePC
<1>3. StackInv'
  BY <1>1, BelowAvailable, IdleAbove
     DEF IInv, TypeOK, NewAllocate, Available, StackInv, Frames
<1>4. NewInv' /\ FreeInv'
  BY <1>1 DEF IInv, TypeOK, NewAllocate, Available, NoUseAfterFree,
              ExclusiveInv, NewInv, FreeInv, LiveInv, PublishedInv, NewPC,
              FreePC
<1>5. LiveInv' /\ PublishedInv' /\ TokenInv'
  BY <1>1 DEF IInv, TypeOK, NewAllocate, Available, NoUseAfterFree,
              ExclusiveInv, NewInv, FreeInv, LiveInv, PublishedInv, TokenInv,
              NewPC, FreePC
<1>6. EntryInv'
  BY <1>1, EntryKept DEF IInv, TypeOK, NewAllocate, Available, EntryInv, EntryPC
<1>7. PinsCountBorrows'
  <2>1. \A b \in allocated : Pinners(b)' = Pinners(b) /\ pins'[b] = pins[b]
    BY DEF IInv, TypeOK, NewAllocate, Available, Pinners, PinnedPC,
           NoUseAfterFree
  <2>2. Pinners(a)' = {} /\ pins'[a] = 0
    BY DEF IInv, TypeOK, NewAllocate, Available, Pinners, PinnedPC,
           NoUseAfterFree
  <2> QED
    BY <2>1, <2>2, FS_EmptySet DEF IInv, NewAllocate, PinsCountBorrows
<1> QED
  BY <1>1, <1>2, <1>3, <1>4, <1>5, <1>6, <1>7 DEF IInv

\* lonejson_new gives the bundle back.
LEMMA NewFailsStep ==
  ASSUME Unwrapped, IInv, NEW f \in Frames, NewFails(f)
  PROVE  IInv'
<1> USE DEF handleVars, historyVars
<1>1. TypeOK'
  BY DEF IInv, TypeOK, NewFails, PC, NewPC, EntryPC, FreePC
<1>2. NoUseAfterFree' /\ ExclusiveInv'
  BY <1>1 DEF IInv, TypeOK, NewFails, NoUseAfterFree, ExclusiveInv,
              NewInv, FreeInv, LiveInv, NewPC, FreePC
<1>3. StackInv'
  BY <1>1 DEF IInv, TypeOK, NewFails, StackInv, Frames
<1>4. NewInv' /\ FreeInv'
  BY <1>1 DEF IInv, TypeOK, NewFails, NoUseAfterFree, ExclusiveInv,
              NewInv, FreeInv, LiveInv, PublishedInv, NewPC, FreePC
<1>5. LiveInv' /\ PublishedInv' /\ TokenInv'
  BY <1>1 DEF IInv, TypeOK, NewFails, NoUseAfterFree, ExclusiveInv,
              NewInv, FreeInv, LiveInv, PublishedInv, TokenInv, NewPC, FreePC
<1>6. EntryInv'
  BY <1>1, EntryKept DEF IInv, TypeOK, NewFails, EntryInv, EntryPC
<1>7. PinsCountBorrows'
  BY <1>1, PinsKept DEF IInv, TypeOK, NewFails, Pinners, PinnedPC
<1> QED
  BY <1>1, <1>2, <1>3, <1>4, <1>5, <1>6, <1>7 DEF IInv

\* A bundle gets its generation.
LEMMA NewNumberStep ==
  ASSUME Unwrapped, IInv, NEW f \in Frames, NewNumber(f)
  PROVE  IInv'
<1> USE DEF handleVars, historyVars
<1>1. TypeOK'
  BY ConstantsAssumption
     DEF IInv, TypeOK, NewNumber, PC, NewPC, EntryPC, FreePC, NextGeneration
<1>2. NoUseAfterFree' /\ ExclusiveInv'
  BY <1>1 DEF IInv, TypeOK, NewNumber, NoUseAfterFree, ExclusiveInv,
              NewInv, FreeInv, LiveInv, NewPC, FreePC
<1>3. StackInv'
  BY <1>1 DEF IInv, TypeOK, NewNumber, StackInv, Frames
<1>0. genCounter' = news + 2
  <2>1. /\ genCounter + 1 = news + 2 /\ news + 2 \in Nat /\ news + 2 # 0
        /\ news + 2 < GenMod /\ GenMod \in Nat
    BY ConstantsAssumption DEF IInv, TypeOK, NewNumber, TokenInv, Unwrapped
  <2>2. (genCounter + 1) % GenMod = news + 2
    BY <2>1, ModSmall
  <2> QED
    BY <2>1, <2>2 DEF NewNumber, NextGeneration
<1>4. NewInv' /\ FreeInv'
  BY <1>0, <1>1 DEF IInv, TypeOK, NewNumber, NoUseAfterFree, ExclusiveInv,
                    NewInv, FreeInv, LiveInv, PublishedInv, NewPC, FreePC
<1>5. LiveInv' /\ PublishedInv' /\ TokenInv'
  BY <1>0, <1>1 DEF IInv, TypeOK, NewNumber, NoUseAfterFree, ExclusiveInv,
                    NewInv, FreeInv, LiveInv, PublishedInv, TokenInv, NewPC,
                    FreePC
<1>6. EntryInv'
  BY <1>1, EntryKept DEF IInv, TypeOK, NewNumber, EntryInv, EntryPC
<1>7. PinsCountBorrows'
  BY <1>1, PinsKept DEF IInv, TypeOK, NewNumber, Pinners, PinnedPC
<1> QED
  BY <1>1, <1>2, <1>3, <1>4, <1>5, <1>6, <1>7 DEF IInv

\* A bundle joins the live list.
LEMMA NewRegisterStep ==
  ASSUME Unwrapped, IInv, NEW f \in Frames, NewRegister(f)
  PROVE  IInv'
<1> USE DEF handleVars, historyVars
<1>1. TypeOK'
  BY DEF IInv, TypeOK, NewRegister, PC, NewPC, EntryPC, FreePC
<1>2. NoUseAfterFree' /\ ExclusiveInv'
  BY <1>1 DEF IInv, TypeOK, NewRegister, NoUseAfterFree, ExclusiveInv,
              NewInv, FreeInv, LiveInv, NewPC, FreePC
<1>3. StackInv'
  BY <1>1 DEF IInv, TypeOK, NewRegister, StackInv, Frames
<1>4. NewInv' /\ FreeInv'
  BY <1>1 DEF IInv, TypeOK, NewRegister, NoUseAfterFree, ExclusiveInv,
              NewInv, FreeInv, LiveInv, PublishedInv, NewPC, FreePC
<1>5. LiveInv' /\ PublishedInv' /\ TokenInv'
  BY <1>1 DEF IInv, TypeOK, NewRegister, NoUseAfterFree, ExclusiveInv,
              NewInv, FreeInv, LiveInv, PublishedInv, TokenInv, NewPC, FreePC
<1>6. EntryInv'
  BY <1>1, EntryKept DEF IInv, TypeOK, NewRegister, EntryInv, EntryPC
<1>7. PinsCountBorrows'
  BY <1>1, PinsKept DEF IInv, TypeOK, NewRegister, Pinners, PinnedPC
<1> QED
  BY <1>1, <1>2, <1>3, <1>4, <1>5, <1>6, <1>7 DEF IInv

\* lonejson_new returns.
LEMMA NewReturnStep ==
  ASSUME Unwrapped, IInv, NEW f \in Frames, NewReturn(f)
  PROVE  IInv'
<1> USE DEF handleVars, historyVars
<1>1. TypeOK'
  BY DEF IInv, TypeOK, NewReturn, PC, NewPC, EntryPC, FreePC
<1>2. NoUseAfterFree' /\ ExclusiveInv'
  BY <1>1 DEF IInv, TypeOK, NewReturn, NoUseAfterFree, ExclusiveInv,
              NewInv, FreeInv, LiveInv, NewPC, FreePC
<1>3. StackInv'
  BY <1>1 DEF IInv, TypeOK, NewReturn, StackInv, Frames
<1>4. NewInv' /\ FreeInv'
  BY <1>1 DEF IInv, TypeOK, NewReturn, NoUseAfterFree, ExclusiveInv,
              NewInv, FreeInv, LiveInv, PublishedInv, NewPC, FreePC
<1>5. LiveInv' /\ PublishedInv' /\ TokenInv'
  BY <1>1 DEF IInv, TypeOK, NewReturn, NoUseAfterFree, ExclusiveInv,
              NewInv, FreeInv, LiveInv, PublishedInv, TokenInv, NewPC, FreePC
<1>6. EntryInv'
  BY <1>1, EntryKept DEF IInv, TypeOK, NewReturn, EntryInv, EntryPC
<1>7. PinsCountBorrows'
  BY <1>1, PinsKept DEF IInv, TypeOK, NewReturn, Pinners, PinnedPC
<1> QED
  BY <1>1, <1>2, <1>3, <1>4, <1>5, <1>6, <1>7 DEF IInv

\* A call enters through the owner pointer.
LEMMA OwnerEnterStep ==
  ASSUME Unwrapped, IInv, NEW f \in Frames, NEW a \in Addrs, OwnerEnter(f, a)
  PROVE  IInv'
<1> USE DEF handleVars, historyVars
<1>1. TypeOK'
  BY DEF IInv, TypeOK, OwnerEnter, PC, NewPC, EntryPC, FreePC
<1>2. NoUseAfterFree' /\ ExclusiveInv'
  BY <1>1, OwnerUsable
     DEF IInv, TypeOK, OwnerEnter, MayUseOwner, Available, NoUseAfterFree,
         ExclusiveInv, NewInv, FreeInv, LiveInv, NewPC, FreePC
<1>3. StackInv'
  BY <1>1, BelowAvailable, IdleAbove
     DEF IInv, TypeOK, OwnerEnter, MayUseOwner, Available, StackInv, Frames
<1>4. NewInv' /\ FreeInv'
  BY <1>1 DEF IInv, TypeOK, OwnerEnter, MayUseOwner, Available,
              NoUseAfterFree, ExclusiveInv, NewInv, FreeInv, LiveInv,
              PublishedInv, NewPC, FreePC
<1>5. LiveInv' /\ PublishedInv' /\ TokenInv'
  BY <1>1 DEF IInv, TypeOK, OwnerEnter, MayUseOwner, Available,
              NoUseAfterFree, ExclusiveInv, NewInv, FreeInv, LiveInv,
              PublishedInv, TokenInv, NewPC, FreePC
<1>6. EntryInv'
  BY <1>1, EntryKept
     DEF IInv, TypeOK, OwnerEnter, MayUseOwner, Available, EntryInv, EntryPC
<1>7. PinsCountBorrows'
  BY <1>1, PinsKept
     DEF IInv, TypeOK, OwnerEnter, MayUseOwner, Available, Pinners, PinnedPC
<1> QED
  BY <1>1, <1>2, <1>3, <1>4, <1>5, <1>6, <1>7 DEF IInv

\* set_*_provider takes the state of the owner.
LEMMA OwnerSetProviderStep ==
  ASSUME Unwrapped, IInv, NEW f \in Frames, NEW a \in Addrs, OwnerSetProvider(f, a)
  PROVE  IInv'
<1> USE DEF handleVars, historyVars
<1>1. TypeOK'
  BY DEF IInv, TypeOK, OwnerSetProvider, PC, NewPC, EntryPC, FreePC
<1>2. NoUseAfterFree' /\ ExclusiveInv'
  BY <1>1, OwnerUsable
     DEF IInv, TypeOK, OwnerSetProvider, MayUseOwner, Available,
         NoUseAfterFree, ExclusiveInv, NewInv, FreeInv, LiveInv, NewPC, FreePC
<1>3. StackInv'
  BY <1>1, BelowAvailable, IdleAbove
     DEF IInv, TypeOK, OwnerSetProvider, MayUseOwner, Available, StackInv,
         Frames
<1>4. NewInv' /\ FreeInv'
  BY <1>1 DEF IInv, TypeOK, OwnerSetProvider, MayUseOwner, Available,
              NoUseAfterFree, ExclusiveInv, NewInv, FreeInv, LiveInv,
              PublishedInv, NewPC, FreePC
<1>5. LiveInv' /\ PublishedInv' /\ TokenInv'
  BY <1>1 DEF IInv, TypeOK, OwnerSetProvider, MayUseOwner, Available,
              NoUseAfterFree, ExclusiveInv, NewInv, FreeInv, LiveInv,
              PublishedInv, TokenInv, NewPC, FreePC
<1>6. EntryInv'
  BY <1>1, EntryKept
     DEF IInv, TypeOK, OwnerSetProvider, MayUseOwner, Available, EntryInv,
         EntryPC
<1>7. PinsCountBorrows'
  BY <1>1, PinsKept
     DEF IInv, TypeOK, OwnerSetProvider, MayUseOwner, Available, Pinners,
         PinnedPC
<1> QED
  BY <1>1, <1>2, <1>3, <1>4, <1>5, <1>6, <1>7 DEF IInv

\* The optimistic increment.
LEMMA OwnerPinStep ==
  ASSUME Unwrapped, IInv, NEW f \in Frames, OwnerPin(f)
  PROVE  IInv'
<1> USE DEF handleVars, historyVars
<1>1. TypeOK'
  BY DEF IInv, TypeOK, OwnerPin, PC, NewPC, EntryPC, FreePC
<1>2. NoUseAfterFree' /\ ExclusiveInv'
  BY <1>1 DEF IInv, TypeOK, OwnerPin, NoUseAfterFree, ExclusiveInv,
              NewInv, FreeInv, LiveInv, NewPC, FreePC
<1>3. StackInv'
  BY <1>1 DEF IInv, TypeOK, OwnerPin, StackInv, Frames
<1>4. NewInv' /\ FreeInv'
  BY <1>1 DEF IInv, TypeOK, OwnerPin, NoUseAfterFree, ExclusiveInv,
              NewInv, FreeInv, LiveInv, PublishedInv, NewPC, FreePC
<1>5. LiveInv' /\ PublishedInv' /\ TokenInv'
  BY <1>1 DEF IInv, TypeOK, OwnerPin, NoUseAfterFree, ExclusiveInv,
              NewInv, FreeInv, LiveInv, PublishedInv, TokenInv, NewPC, FreePC
<1>6. EntryInv'
  BY <1>1, EntryKept DEF IInv, TypeOK, OwnerPin, EntryInv, EntryPC
<1>7. PinsCountBorrows'
  BY <1>1, PinsKept DEF IInv, TypeOK, OwnerPin, Pinners, PinnedPC
<1> QED
  BY <1>1, <1>2, <1>3, <1>4, <1>5, <1>6, <1>7 DEF IInv

\* The owner path admits a call.
LEMMA OwnerAdmittedStep ==
  ASSUME Unwrapped, IInv, NEW f \in Frames, OwnerAdmitted(f)
  PROVE  IInv'
<1> USE DEF handleVars, historyVars
<1>1. TypeOK'
  BY DEF IInv, TypeOK, OwnerAdmitted, PC, NewPC, EntryPC, FreePC
<1>2. NoUseAfterFree' /\ ExclusiveInv'
  BY <1>1 DEF IInv, TypeOK, OwnerAdmitted, NoUseAfterFree, ExclusiveInv,
              NewInv, FreeInv, LiveInv, NewPC, FreePC
<1>3. StackInv'
  BY <1>1 DEF IInv, TypeOK, OwnerAdmitted, StackInv, Frames
<1>4. NewInv' /\ FreeInv'
  BY <1>1 DEF IInv, TypeOK, OwnerAdmitted, NoUseAfterFree, ExclusiveInv,
              NewInv, FreeInv, LiveInv, PublishedInv, NewPC, FreePC
<1>5. LiveInv' /\ PublishedInv' /\ TokenInv'
  BY <1>1 DEF IInv, TypeOK, OwnerAdmitted, NoUseAfterFree, ExclusiveInv,
              NewInv, FreeInv, LiveInv, PublishedInv, TokenInv, NewPC, FreePC
<1>6. EntryInv'
  BY <1>1, EntryKept DEF IInv, TypeOK, OwnerAdmitted, EntryInv, EntryPC
<1>7. PinsCountBorrows'
  BY <1>1, PinsKept DEF IInv, TypeOK, OwnerAdmitted, Pinners, PinnedPC
<1> QED
  BY <1>1, <1>2, <1>3, <1>4, <1>5, <1>6, <1>7 DEF IInv

\* The owner path rejects a call.
LEMMA OwnerRejectedStep ==
  ASSUME Unwrapped, IInv, NEW f \in Frames, OwnerRejected(f)
  PROVE  IInv'
<1> USE DEF handleVars, historyVars
<1>0. pins[at[f]] - 1 \in Nat
  BY PinnedIsCounted DEF IInv, TypeOK, OwnerRejected, PinnedPC
<1>1. TypeOK'
  BY <1>0 DEF IInv, TypeOK, OwnerRejected, PC, NewPC, EntryPC, FreePC
<1>2. NoUseAfterFree' /\ ExclusiveInv'
  BY <1>1 DEF IInv, TypeOK, OwnerRejected, NoUseAfterFree, ExclusiveInv,
              NewInv, FreeInv, LiveInv, NewPC, FreePC
<1>3. StackInv'
  BY <1>1 DEF IInv, TypeOK, OwnerRejected, StackInv, Frames
<1>4. NewInv' /\ FreeInv'
  BY <1>1 DEF IInv, TypeOK, OwnerRejected, NoUseAfterFree, ExclusiveInv,
              NewInv, FreeInv, LiveInv, PublishedInv, NewPC, FreePC
<1>5. LiveInv' /\ PublishedInv' /\ TokenInv'
  BY <1>1 DEF IInv, TypeOK, OwnerRejected, NoUseAfterFree, ExclusiveInv,
              NewInv, FreeInv, LiveInv, PublishedInv, TokenInv, NewPC, FreePC
<1>6. EntryInv'
  BY <1>1, EntryKept DEF IInv, TypeOK, OwnerRejected, EntryInv, EntryPC
<1>7. PinsCountBorrows'
  <2>1. pc' \in [Frames -> PC] /\ pc'[f] \notin PinnedPC
        /\ \A g \in Frames : g # f => pc'[g] = pc[g]
    BY <1>1 DEF IInv, TypeOK, OwnerRejected, PinnedPC
  <2>2. f \in Pinners(at[f]) /\ Pinners(at[f])' = Pinners(at[f]) \ {f}
    BY <2>1 DEF IInv, TypeOK, OwnerRejected, Pinners, PinnedPC
  <2>3. \A b : b # at[f] => Pinners(b)' = Pinners(b)
    BY <2>1 DEF IInv, TypeOK, OwnerRejected, Pinners, PinnedPC
  <2> QED
    BY <1>1, <2>2, <2>3, PinsKept DEF IInv, TypeOK, OwnerRejected
<1> QED
  BY <1>1, <1>2, <1>3, <1>4, <1>5, <1>6, <1>7 DEF IInv

\* A rejected call walks the live list.
LEMMA OwnerFallbackStep ==
  ASSUME Unwrapped, IInv, NEW f \in Frames, OwnerFallback(f)
  PROVE  IInv'
<1> USE DEF handleVars, historyVars
<1>1. TypeOK'
  BY DEF IInv, TypeOK, OwnerFallback, PC, NewPC, EntryPC, FreePC
<1>2. NoUseAfterFree' /\ ExclusiveInv'
  BY <1>1 DEF IInv, TypeOK, OwnerFallback, Resolves, NoUseAfterFree,
              ExclusiveInv, NewInv, FreeInv, LiveInv, NewPC, FreePC
<1>3. StackInv'
  BY <1>1 DEF IInv, TypeOK, OwnerFallback, Resolves, StackInv, Frames
<1>4. NewInv' /\ FreeInv'
  BY <1>1 DEF IInv, TypeOK, OwnerFallback, Resolves, NoUseAfterFree,
              ExclusiveInv, NewInv, FreeInv, LiveInv, PublishedInv, NewPC,
              FreePC
<1>5. LiveInv' /\ PublishedInv' /\ TokenInv'
  BY <1>1 DEF IInv, TypeOK, OwnerFallback, Resolves, NoUseAfterFree,
              ExclusiveInv, NewInv, FreeInv, LiveInv, PublishedInv, TokenInv,
              NewPC, FreePC
<1>6. EntryInv'
  BY <1>1, EntryKept
     DEF IInv, TypeOK, OwnerFallback, Resolves, EntryInv, EntryPC
<1>7. PinsCountBorrows'
  BY <1>1, PinsKept DEF IInv, TypeOK, OwnerFallback, Resolves, Pinners, PinnedPC
<1> QED
  BY <1>1, <1>2, <1>3, <1>4, <1>5, <1>6, <1>7 DEF IInv

\* A policy snapshot.
LEMMA OwnerSnapshotStep ==
  ASSUME Unwrapped, IInv, NEW f \in Frames, OwnerSnapshot(f)
  PROVE  IInv'
<1> USE DEF handleVars, historyVars
<1>1. TypeOK'
  BY DEF IInv, TypeOK, OwnerSnapshot, PC, NewPC, EntryPC, FreePC
<1>2. NoUseAfterFree' /\ ExclusiveInv'
  BY <1>1 DEF IInv, TypeOK, OwnerSnapshot, NoUseAfterFree, ExclusiveInv,
              NewInv, FreeInv, LiveInv, NewPC, FreePC
<1>3. StackInv'
  BY <1>1 DEF IInv, TypeOK, OwnerSnapshot, StackInv, Frames
<1>4. NewInv' /\ FreeInv'
  BY <1>1 DEF IInv, TypeOK, OwnerSnapshot, NoUseAfterFree, ExclusiveInv,
              NewInv, FreeInv, LiveInv, PublishedInv, NewPC, FreePC
<1>5. LiveInv' /\ PublishedInv' /\ TokenInv'
  BY <1>1 DEF IInv, TypeOK, OwnerSnapshot, NoUseAfterFree, ExclusiveInv,
              NewInv, FreeInv, LiveInv, PublishedInv, TokenInv, NewPC, FreePC
<1>6. EntryInv'
  BY <1>1, EntryKept DEF IInv, TypeOK, OwnerSnapshot, EntryInv, EntryPC
<1>7. PinsCountBorrows'
  BY <1>1, PinsKept DEF IInv, TypeOK, OwnerSnapshot, Pinners, PinnedPC
<1> QED
  BY <1>1, <1>2, <1>3, <1>4, <1>5, <1>6, <1>7 DEF IInv

\* A call enters through a copy.
LEMMA CopyBorrowStep ==
  ASSUME Unwrapped, IInv, NEW f \in Frames, NEW c \in Copies, NEW a \in Addrs, CopyBorrow(f, c, a)
  PROVE  IInv'
<1> USE DEF handleVars, historyVars
<1>1. TypeOK'
  BY DEF IInv, TypeOK, CopyBorrow, PC, NewPC, EntryPC, FreePC
<1>2. NoUseAfterFree' /\ ExclusiveInv'
  BY <1>1 DEF IInv, TypeOK, CopyBorrow, CopyMatches, Resolves, Available,
              TokenInv, NoUseAfterFree, ExclusiveInv, NewInv, FreeInv,
              LiveInv, NewPC, FreePC
<1>3. StackInv'
  BY <1>1, BelowAvailable, IdleAbove
     DEF IInv, TypeOK, CopyBorrow, CopyMatches, Resolves, Available,
         TokenInv, StackInv, Frames
<1>4. NewInv' /\ FreeInv'
  BY <1>1 DEF IInv, TypeOK, CopyBorrow, CopyMatches, Resolves, Available,
              NoUseAfterFree, ExclusiveInv, NewInv, FreeInv, LiveInv,
              PublishedInv, NewPC, FreePC
<1>5. LiveInv' /\ PublishedInv' /\ TokenInv'
  BY <1>1 DEF IInv, TypeOK, CopyBorrow, CopyMatches, Resolves, Available,
              NoUseAfterFree, ExclusiveInv, NewInv, FreeInv, LiveInv,
              PublishedInv, TokenInv, NewPC, FreePC
<1>6. EntryInv'
  BY <1>1, EntryKept
     DEF IInv, TypeOK, CopyBorrow, CopyMatches, Resolves, Available,
         EntryInv, EntryPC
<1>7. PinsCountBorrows'
  BY <1>1, PinsKept
     DEF IInv, TypeOK, CopyBorrow, CopyMatches, Resolves, Available, Pinners,
         PinnedPC
<1> QED
  BY <1>1, <1>2, <1>3, <1>4, <1>5, <1>6, <1>7 DEF IInv

\* set_*_provider looks a copy up.
LEMMA CopySetProviderStep ==
  ASSUME Unwrapped, IInv, NEW f \in Frames, NEW c \in Copies, NEW a \in Addrs, CopySetProvider(f, c, a)
  PROVE  IInv'
<1> USE DEF handleVars, historyVars
<1>1. TypeOK'
  BY DEF IInv, TypeOK, CopySetProvider, PC, NewPC, EntryPC, FreePC
<1>2. NoUseAfterFree' /\ ExclusiveInv'
  BY <1>1 DEF IInv, TypeOK, CopySetProvider, CopyMatches, Resolves, Available,
              TokenInv, NoUseAfterFree, ExclusiveInv, NewInv, FreeInv,
              LiveInv, NewPC, FreePC
<1>3. StackInv'
  BY <1>1, BelowAvailable, IdleAbove
     DEF IInv, TypeOK, CopySetProvider, CopyMatches, Resolves, Available,
         TokenInv, StackInv, Frames
<1>4. NewInv' /\ FreeInv'
  BY <1>1 DEF IInv, TypeOK, CopySetProvider, CopyMatches, Resolves, Available,
              NoUseAfterFree, ExclusiveInv, NewInv, FreeInv, LiveInv,
              PublishedInv, NewPC, FreePC
<1>5. LiveInv' /\ PublishedInv' /\ TokenInv'
  BY <1>1 DEF IInv, TypeOK, CopySetProvider, CopyMatches, Resolves, Available,
              NoUseAfterFree, ExclusiveInv, NewInv, FreeInv, LiveInv,
              PublishedInv, TokenInv, NewPC, FreePC
<1>6. EntryInv'
  BY <1>1, EntryKept
     DEF IInv, TypeOK, CopySetProvider, CopyMatches, Resolves, Available,
         EntryInv, EntryPC
<1>7. PinsCountBorrows'
  BY <1>1, PinsKept
     DEF IInv, TypeOK, CopySetProvider, CopyMatches, Resolves, Available, Pinners,
         PinnedPC
<1> QED
  BY <1>1, <1>2, <1>3, <1>4, <1>5, <1>6, <1>7 DEF IInv

\* set_*_provider stores the provider.
LEMMA ProviderStoreStep ==
  ASSUME Unwrapped, IInv, NEW f \in Frames, ProviderStore(f)
  PROVE  IInv'
<1> USE DEF handleVars, historyVars
<1>1. TypeOK'
  BY DEF IInv, TypeOK, ProviderStore, PC, NewPC, EntryPC, FreePC
<1>2. NoUseAfterFree' /\ ExclusiveInv'
  BY <1>1 DEF IInv, TypeOK, ProviderStore, NoUseAfterFree, ExclusiveInv,
              NewInv, FreeInv, LiveInv, NewPC, FreePC
<1>3. StackInv'
  BY <1>1 DEF IInv, TypeOK, ProviderStore, StackInv, Frames
<1>4. NewInv' /\ FreeInv'
  BY <1>1 DEF IInv, TypeOK, ProviderStore, NoUseAfterFree, ExclusiveInv,
              NewInv, FreeInv, LiveInv, PublishedInv, NewPC, FreePC
<1>5. LiveInv' /\ PublishedInv' /\ TokenInv'
  BY <1>1 DEF IInv, TypeOK, ProviderStore, NoUseAfterFree, ExclusiveInv,
              NewInv, FreeInv, LiveInv, PublishedInv, TokenInv, NewPC, FreePC
<1>6. EntryInv'
  BY <1>1, EntryKept DEF IInv, TypeOK, ProviderStore, EntryInv, EntryPC
<1>7. PinsCountBorrows'
  BY <1>1, PinsKept DEF IInv, TypeOK, ProviderStore, Pinners, PinnedPC
<1> QED
  BY <1>1, <1>2, <1>3, <1>4, <1>5, <1>6, <1>7 DEF IInv

\* A call returns and gives its pin back.
LEMMA ReleaseStep ==
  ASSUME Unwrapped, IInv, NEW f \in Frames, Release(f)
  PROVE  IInv'
<1> USE DEF handleVars, historyVars
<1>0. pins[at[f]] - 1 \in Nat
  BY PinnedIsCounted DEF IInv, TypeOK, Release, PinnedPC
<1>1. TypeOK'
  BY <1>0 DEF IInv, TypeOK, Release, PC, NewPC, EntryPC, FreePC
<1>2. NoUseAfterFree' /\ ExclusiveInv'
  BY <1>1 DEF IInv, TypeOK, Release, NoUseAfterFree, ExclusiveInv, NewInv,
              FreeInv, LiveInv, NewPC, FreePC
<1>3. StackInv'
  BY <1>1, IdleAbove DEF IInv, TypeOK, Release, StackInv, Frames
<1>4. NewInv' /\ FreeInv'
  BY <1>1 DEF IInv, TypeOK, Release, NoUseAfterFree, ExclusiveInv, NewInv,
              FreeInv, LiveInv, PublishedInv, NewPC, FreePC
<1>5. LiveInv' /\ PublishedInv' /\ TokenInv'
  BY <1>1 DEF IInv, TypeOK, Release, NoUseAfterFree, ExclusiveInv, NewInv,
              FreeInv, LiveInv, PublishedInv, TokenInv, NewPC, FreePC
<1>6. EntryInv'
  <2> SUFFICES ASSUME NEW g \in Frames, pc'[g] \in EntryPC, at'[g] \notin published'
               PROVE  HeldBelow(g, at[g])'
    BY DEF EntryInv, EntryPC
  <2>1. g # f /\ pc[g] = pc'[g] /\ at'[g] = at[g]
    BY DEF IInv, TypeOK, Release, EntryPC
  <2>2. HeldBelow(g, at[g])
    BY <2>1 DEF IInv, EntryInv, Release
  <2>3. ~(g[1] = f[1] /\ f[2] < g[2])
    BY <2>1, IdleAbove DEF IInv, Release, EntryPC
  <2>4. \A h \in Frames : h[1] = g[1] /\ h[2] < g[2] /\ pc[h] = "use"
                             => pc'[h] = "use" /\ at'[h] = at[h]
    BY <2>3 DEF IInv, TypeOK, Release
  <2>5. \A b : HeldBelow(g, b) => HeldBelow(g, b)'
    BY <2>4, HeldBelowKept
  <2> QED
    BY <2>1, <2>2, <2>5 DEF HeldBelow, Release
<1>7. PinsCountBorrows'
  BY <1>1, PinsKept DEF IInv, TypeOK, Release, Pinners, PinnedPC
<1> QED
  BY <1>1, <1>2, <1>3, <1>4, <1>5, <1>6, <1>7 DEF IInv

\* The client copies a wrapper.
LEMMA CopyWrapperStep ==
  ASSUME Unwrapped, IInv, NEW c \in Copies, NEW a \in Addrs, CopyWrapper(c, a)
  PROVE  IInv'
<1> USE DEF handleVars, historyVars
<1>1. TypeOK'
  BY DEF IInv, TypeOK, CopyWrapper, PC, NewPC, EntryPC, FreePC
<1>2. NoUseAfterFree' /\ ExclusiveInv'
  BY <1>1 DEF IInv, TypeOK, CopyWrapper, NoUseAfterFree, ExclusiveInv,
              NewInv, FreeInv, LiveInv, NewPC, FreePC
<1>3. StackInv'
  BY <1>1 DEF IInv, TypeOK, CopyWrapper, StackInv, Frames
<1>4. NewInv' /\ FreeInv'
  BY <1>1 DEF IInv, TypeOK, CopyWrapper, NoUseAfterFree, ExclusiveInv,
              NewInv, FreeInv, LiveInv, PublishedInv, NewPC, FreePC
<1>5. LiveInv' /\ PublishedInv' /\ TokenInv'
  BY <1>1 DEF IInv, TypeOK, CopyWrapper, NoUseAfterFree, ExclusiveInv,
              NewInv, FreeInv, LiveInv, PublishedInv, TokenInv, NewPC, FreePC
<1>6. EntryInv'
  BY <1>1, EntryKept DEF IInv, TypeOK, CopyWrapper, EntryInv, EntryPC
<1>7. PinsCountBorrows'
  BY <1>1, PinsKept DEF IInv, TypeOK, CopyWrapper, Pinners, PinnedPC
<1> QED
  BY <1>1, <1>2, <1>3, <1>4, <1>5, <1>6, <1>7 DEF IInv

\* lonejson_free on a copy.
LEMMA FreeCopyStep ==
  ASSUME Unwrapped, IInv, NEW c \in Copies, FreeCopy(c)
  PROVE  IInv'
<1> USE DEF handleVars, historyVars
<1>1. TypeOK'
  BY DEF IInv, TypeOK, FreeCopy, PC, NewPC, EntryPC, FreePC
<1>2. NoUseAfterFree' /\ ExclusiveInv'
  BY <1>1 DEF IInv, TypeOK, FreeCopy, NoUseAfterFree, ExclusiveInv,
              NewInv, FreeInv, LiveInv, NewPC, FreePC
<1>3. StackInv'
  BY <1>1 DEF IInv, TypeOK, FreeCopy, StackInv, Frames
<1>4. NewInv' /\ FreeInv'
  BY <1>1 DEF IInv, TypeOK, FreeCopy, NoUseAfterFree, ExclusiveInv,
              NewInv, FreeInv, LiveInv, PublishedInv, NewPC, FreePC
<1>5. LiveInv' /\ PublishedInv' /\ TokenInv'
  BY <1>1 DEF IInv, TypeOK, FreeCopy, NoUseAfterFree, ExclusiveInv,
              NewInv, FreeInv, LiveInv, PublishedInv, TokenInv, NewPC, FreePC
<1>6. EntryInv'
  BY <1>1, EntryKept DEF IInv, TypeOK, FreeCopy, EntryInv, EntryPC
<1>7. PinsCountBorrows'
  BY <1>1, PinsKept DEF IInv, TypeOK, FreeCopy, Pinners, PinnedPC
<1> QED
  BY <1>1, <1>2, <1>3, <1>4, <1>5, <1>6, <1>7 DEF IInv

\* lonejson_free closes a bundle.
LEMMA FreeCloseStep ==
  ASSUME Unwrapped, IInv, NEW f \in Frames, NEW a \in Addrs, FreeClose(f, a)
  PROVE  IInv'
<1> USE DEF handleVars, historyVars
<1>1. TypeOK'
  BY DEF IInv, TypeOK, FreeClose, PC, NewPC, EntryPC, FreePC
<1>2. NoUseAfterFree' /\ ExclusiveInv'
  BY <1>1 DEF IInv, TypeOK, FreeClose, Available, OwnerQuiet,
              PublishedInv, NoUseAfterFree, ExclusiveInv, NewInv, FreeInv,
              LiveInv, NewPC, FreePC
<1>3. StackInv'
  BY <1>1, BelowAvailable, IdleAbove
     DEF IInv, TypeOK, FreeClose, Available, OwnerQuiet, PublishedInv,
         StackInv, Frames
<1>4. NewInv' /\ FreeInv'
  BY <1>1 DEF IInv, TypeOK, FreeClose, Available, OwnerQuiet,
              NoUseAfterFree, ExclusiveInv, NewInv, FreeInv, LiveInv,
              PublishedInv, NewPC, FreePC
<1>5. LiveInv' /\ PublishedInv' /\ TokenInv'
  BY <1>1 DEF IInv, TypeOK, FreeClose, Available, OwnerQuiet,
              NoUseAfterFree, ExclusiveInv, NewInv, FreeInv, LiveInv,
              PublishedInv, TokenInv, NewPC, FreePC
<1>6. EntryInv'
  BY <1>1, EntryKept
     DEF IInv, TypeOK, FreeClose, Available, OwnerQuiet, EntryInv, EntryPC
<1>7. PinsCountBorrows'
  BY <1>1, PinsKept
     DEF IInv, TypeOK, FreeClose, Available, OwnerQuiet, Pinners, PinnedPC
<1> QED
  BY <1>1, <1>2, <1>3, <1>4, <1>5, <1>6, <1>7 DEF IInv

\* The drain loop ends.
LEMMA FreeDrainedStep ==
  ASSUME Unwrapped, IInv, NEW f \in Frames, FreeDrained(f)
  PROVE  IInv'
<1> USE DEF handleVars, historyVars
<1>1. TypeOK'
  BY DEF IInv, TypeOK, FreeDrained, PC, NewPC, EntryPC, FreePC
<1>2. NoUseAfterFree' /\ ExclusiveInv'
  BY <1>1, DrainedAlone
     DEF IInv, TypeOK, FreeDrained, NoUseAfterFree, ExclusiveInv, NewInv,
         FreeInv, LiveInv, NewPC, FreePC
<1>3. StackInv'
  BY <1>1 DEF IInv, TypeOK, FreeDrained, StackInv, Frames
<1>4. NewInv' /\ FreeInv'
  BY <1>1 DEF IInv, TypeOK, FreeDrained, NoUseAfterFree, ExclusiveInv,
              NewInv, FreeInv, LiveInv, PublishedInv, NewPC, FreePC
<1>5. LiveInv' /\ PublishedInv' /\ TokenInv'
  BY <1>1 DEF IInv, TypeOK, FreeDrained, NoUseAfterFree, ExclusiveInv,
              NewInv, FreeInv, LiveInv, PublishedInv, TokenInv, NewPC, FreePC
<1>6. EntryInv'
  BY <1>1, EntryKept DEF IInv, TypeOK, FreeDrained, EntryInv, EntryPC
<1>7. PinsCountBorrows'
  BY <1>1, PinsKept DEF IInv, TypeOK, FreeDrained, Pinners, PinnedPC
<1> QED
  BY <1>1, <1>2, <1>3, <1>4, <1>5, <1>6, <1>7 DEF IInv

\* The bundle is released.
LEMMA FreeReclaimStep ==
  ASSUME Unwrapped, IInv, NEW f \in Frames, FreeReclaim(f)
  PROVE  IInv'
<1> USE DEF handleVars, historyVars
<1>1. TypeOK'
  BY DEF IInv, TypeOK, FreeReclaim, PC, NewPC, EntryPC, FreePC
<1>2. NoUseAfterFree' /\ ExclusiveInv'
  BY <1>1 DEF IInv, TypeOK, FreeReclaim, NoUseAfterFree, ExclusiveInv,
              NewInv, FreeInv, LiveInv, NewPC, FreePC
<1>3. StackInv'
  BY <1>1 DEF IInv, TypeOK, FreeReclaim, StackInv, Frames
<1>4. NewInv' /\ FreeInv'
  BY <1>1 DEF IInv, TypeOK, FreeReclaim, NoUseAfterFree, ExclusiveInv,
              NewInv, FreeInv, LiveInv, PublishedInv, NewPC, FreePC
<1>5. LiveInv' /\ PublishedInv' /\ TokenInv'
  BY <1>1 DEF IInv, TypeOK, FreeReclaim, NoUseAfterFree, ExclusiveInv,
              NewInv, FreeInv, LiveInv, PublishedInv, TokenInv, NewPC, FreePC
<1>6. EntryInv'
  BY <1>1, EntryKept DEF IInv, TypeOK, FreeReclaim, EntryInv, EntryPC
<1>7. PinsCountBorrows'
  BY <1>1, PinsKept DEF IInv, TypeOK, FreeReclaim, Pinners, PinnedPC
<1> QED
  BY <1>1, <1>2, <1>3, <1>4, <1>5, <1>6, <1>7 DEF IInv

\* Every step keeps the invariant.
LEMMA NextIInv == ASSUME Unwrapped, IInv, [Next]_vars PROVE IInv'
<1>1. CASE UNCHANGED vars
  <2>1. TypeOK' /\ NoUseAfterFree' /\ PinsCountBorrows'
    BY <1>1, Zenon DEF vars, IInv, TypeOK, NoUseAfterFree, PinsCountBorrows, Pinners
  <2>2. StackInv' /\ ExclusiveInv' /\ NewInv' /\ FreeInv' /\ EntryInv'
    BY <1>1, Zenon DEF vars, IInv, StackInv, ExclusiveInv, NewInv, FreeInv,
                       EntryInv, HeldBelow
  <2>3. LiveInv' /\ PublishedInv' /\ TokenInv'
    BY <1>1, Zenon DEF vars, IInv, LiveInv, PublishedInv, TokenInv
  <2> QED
    BY <2>1, <2>2, <2>3 DEF IInv
<1>2. ASSUME NEW f \in Frames, Call(f) PROVE IInv'
  <2>1. ASSUME NEW c \in Copies, NEW a \in Addrs, CopySetProvider(f, c, a)
        PROVE  IInv'
    BY <2>1, CopySetProviderStep
  <2> QED
    BY <1>2, <2>1, NewAllocateStep, OwnerEnterStep, OwnerSetProviderStep,
       FreeCloseStep, CopyBorrowStep DEF Call
<1>3. ASSUME NEW f \in Frames, Step(f) PROVE IInv'
  BY <1>3, NewFailsStep, NewNumberStep, NewRegisterStep, NewReturnStep,
     OwnerPinStep, OwnerAdmittedStep, OwnerRejectedStep, OwnerFallbackStep,
     OwnerSnapshotStep, ProviderStoreStep, FreeDrainedStep, FreeReclaimStep
     DEF Step
<1>4. ASSUME NEW f \in Frames, Release(f) PROVE IInv'
  BY <1>4, ReleaseStep
<1>5. ASSUME NEW c \in Copies, FreeCopy(c) \/ \E a \in Addrs : CopyWrapper(c, a)
      PROVE  IInv'
  BY <1>5, FreeCopyStep, CopyWrapperStep
<1>6. CASE Finished
  BY <1>1, <1>6 DEF Finished
<1> QED
  BY <1>1, <1>2, <1>3, <1>4, <1>5, <1>6 DEF Next

-----------------------------------------------------------------------------

\* The invariant holds in every reachable state, for any number of threads,
\* addresses, copies and nested calls.
THEOREM Invariance == ASSUME Unwrapped PROVE Spec => []IInv
<1>1. Init => IInv
  BY InitIInv
<1>2. IInv /\ [Next]_vars => IInv'
  BY NextIInv
<1> QED
  BY <1>1, <1>2, PTL DEF Spec

\* The registry and the call stacks keep their types.
THEOREM TypeCorrect == ASSUME Unwrapped PROVE Spec => []TypeOK
<1>1. IInv => TypeOK
  BY DEF IInv
<1> QED
  BY <1>1, Invariance, PTL

\* No call, and no walk of the live list, touches a bundle that lonejson_free
\* has released; the store of a set_*_provider on a copy is excepted.
THEOREM MemorySafety == ASSUME Unwrapped PROVE Spec => []NoUseAfterFree
<1>1. IInv => NoUseAfterFree
  BY DEF IInv
<1> QED
  BY <1>1, Invariance, PTL

\* active_pins counts exactly the calls that hold the bundle.
THEOREM PinAccounting == ASSUME Unwrapped PROVE Spec => []PinsCountBorrows
<1>1. IInv => PinsCountBorrows
  BY DEF IInv
<1> QED
  BY <1>1, Invariance, PTL

\* A stale copy does not resolve to a runtime that reuses its address.
THEOREM NoStaleCopy == ASSUME Unwrapped PROVE Spec => []StaleCopyNeverResolves
<1>1. IInv => StaleCopyNeverResolves
  <2> SUFFICES ASSUME IInv, NEW c \in Copies, NEW a \in Addrs, CopyMatches(c, a)
               PROVE  copies[c].birth = birth[a]
    BY DEF StaleCopyNeverResolves
  <2>1. copies[c].birth \in Nat /\ birth[a] \in Nat
    BY ConstantsAssumption DEF IInv, TypeOK
  <2>2. copies[c].birth + 1 = birth[a] + 1
    BY DEF IInv, LiveInv, TokenInv, CopyMatches, Resolves
  <2> QED
    BY <2>1, <2>2
<1> QED
  BY <1>1, Invariance, PTL

\* An open runtime admits calls through its owner pointer.
THEOREM OpenAdmits == ASSUME Unwrapped PROVE Spec => []PublishedAdmits
<1>1. IInv => PublishedAdmits
  BY DEF IInv, TypeOK, LiveInv, PublishedInv, PublishedAdmits, Resolves, OwnerAdmits
<1> QED
  BY <1>1, Invariance, PTL

\* When lonejson_free releases a bundle, no other call is working on it, but
\* for the store of a set_*_provider on a copy.
THEOREM ReleaseAlone == ASSUME Unwrapped PROVE Spec => []ReclaimIsExclusive
<1>1. IInv => ReclaimIsExclusive
  BY DEF IInv, ExclusiveInv, ReclaimIsExclusive
<1> QED
  BY <1>1, Invariance, PTL

=============================================================================
