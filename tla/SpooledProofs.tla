--------------------------- MODULE SpooledProofs ---------------------------
(***************************************************************************)
(* Proofs about Spooled for any memory limit, size limit, chunks and read  *)
(* capacities, and with any of the failures.                               *)
(***************************************************************************)
EXTENDS Spooled, SequenceTheorems, TLAPS

\* The file is used only once the memory prefix is full.
PrefixFull ==
  /\ open => Len(memory) = MemoryLimit
  /\ ~open => spill = <<>>

\* Memory and file together hold what was accepted, until an append fails.
ContentsInv == ~failed => memory \o spill = accepted

\* The inductive invariant.
IInv ==
  /\ TypeOK
  /\ LimitsRespected
  /\ PrefixFull
  /\ ContentsInv
  /\ ReadsReturnAppended
  /\ NoFileLeaked

-----------------------------------------------------------------------------
(***************************************************************************)
(* Facts about sequences.                                                  *)
(***************************************************************************)

\* Cutting a chunk in two loses nothing.
LEMMA CutAndJoin ==
  ASSUME NEW B, NEW d \in Seq(B), NEW k \in 0..Len(d)
  PROVE  /\ SubSeq(d, 1, k) \in Seq(B) /\ Len(SubSeq(d, 1, k)) = k
         /\ SubSeq(d, k + 1, Len(d)) \in Seq(B)
         /\ Len(SubSeq(d, k + 1, Len(d))) = Len(d) - k
         /\ SubSeq(d, 1, k) \o SubSeq(d, k + 1, Len(d)) = d
<1>1. /\ SubSeq(d, 1, k) \in Seq(B) /\ Len(SubSeq(d, 1, k)) = k
      /\ SubSeq(d, k + 1, Len(d)) \in Seq(B)
      /\ Len(SubSeq(d, k + 1, Len(d))) = Len(d) - k
  OBVIOUS
<1>2. SubSeq(d, 1, k) \o SubSeq(d, k + 1, Len(d)) = SubSeq(d, 1, Len(d))
  <2>1. 1 \in 1..Len(d) + 1 /\ k \in (1 - 1)..Len(d) /\ Len(d) \in k..Len(d)
    OBVIOUS
  <2> QED
    BY <2>1, ConcatAdjacentSubSeq, Zenon
<1> QED
  BY <1>1, <1>2, SubSeqFull

\* Concatenation associates.
LEMMA JoinAssociative ==
  \A a, b, c \in Seq(Byte) : (a \o b) \o c = a \o (b \o c)
BY ConcatAssociative

\* Appending in two parts is appending, when nothing was spilled before or
\* nothing goes to memory any more.
LEMMA TwoPartAppend ==
  ASSUME NEW m \in Seq(Byte), NEW s \in Seq(Byte), NEW d \in Seq(Byte),
         NEW k \in 0..Len(d), s = <<>> \/ k = 0
  PROVE  (m \o SubSeq(d, 1, k)) \o (s \o SubSeq(d, k + 1, Len(d))) = (m \o s) \o d
<1> DEFINE d1 == SubSeq(d, 1, k)
           d2 == SubSeq(d, k + 1, Len(d))
<1>1. d1 \in Seq(Byte) /\ d2 \in Seq(Byte) /\ d1 \o d2 = d /\ Len(d1) = k
  BY CutAndJoin
<1>2. CASE s = <<>>
  <2>1. s \o d2 = d2 /\ m \o s = m
    BY <1>1, <1>2, ConcatEmptySeq
  <2>2. (m \o d1) \o d2 = m \o d
    <3> HIDE DEF d1, d2
    <3>1. (m \o d1) \o d2 = m \o (d1 \o d2)
      BY <1>1, JoinAssociative
    <3> QED
      BY <1>1, <3>1, Zenon
  <2> QED
    BY <2>1, <2>2
<1>3. CASE k = 0
  <2>1. d1 = <<>> /\ d2 = d
    BY <1>1, <1>3, EmptySeq, ConcatEmptySeq
  <2>2. m \o d1 = m
    BY <2>1, ConcatEmptySeq
  <2>3. m \o (s \o d) = (m \o s) \o d
    BY ConcatAssociative
  <2> QED
    BY <2>1, <2>2, <2>3
<1> QED
  BY <1>2, <1>3

\* A read that stays in the memory prefix continues the bytes read so far.
LEMMA ReadInPrefix ==
  ASSUME NEW m \in Seq(Byte), NEW s \in Seq(Byte), NEW o \in Nat, NEW n \in Nat,
         o + n <= Len(m)
  PROVE  SubSeq(m \o s, 1, o) \o SubSeq(m, o + 1, o + n) = SubSeq(m \o s, 1, o + n)
OBVIOUS

\* So does a read from the file at the cursor's distance from the prefix.
LEMMA ReadInFile ==
  ASSUME NEW m \in Seq(Byte), NEW s \in Seq(Byte), NEW o \in Nat, NEW n \in Nat,
         o >= Len(m), o + n <= Len(m) + Len(s)
  PROVE  SubSeq(m \o s, 1, o) \o SubSeq(s, o - Len(m) + 1, o - Len(m) + n)
           = SubSeq(m \o s, 1, o + n)
OBVIOUS

\* Appending does not change what has been read.
LEMMA PrefixKept ==
  ASSUME NEW B, NEW a \in Seq(B), NEW d \in Seq(B), NEW o \in Nat, o <= Len(a)
  PROVE  SubSeq(a \o d, 1, o) = SubSeq(a, 1, o)
OBVIOUS

-----------------------------------------------------------------------------

\* How a chunk is divided between memory and file.
LEMMA Division ==
  ASSUME IInv, NEW data \in Chunks
  PROVE  /\ data \in Seq(Byte) /\ MemoryCopy(data) \in 0..Len(data)
         /\ MemoryPart(data) \in Seq(Byte) /\ SpillPart(data) \in Seq(Byte)
         /\ Len(memory \o MemoryPart(data)) <= MemoryLimit
         /\ NeedsSpill(data) => Len(memory \o MemoryPart(data)) = MemoryLimit
         /\ ~NeedsSpill(data) => SpillPart(data) = <<>>
         /\ open => MemoryCopy(data) = 0 /\ MemoryPart(data) = <<>>
<1>1. data \in Seq(Byte) /\ Len(data) \in Nat /\ Len(memory) \in Nat
  BY SpooledAssumption DEF IInv, TypeOK
<1>2. /\ MemoryCopy(data) \in 0..Len(data)
      /\ Len(memory) + MemoryCopy(data) <= MemoryLimit
      /\ NeedsSpill(data) => Len(memory) + MemoryCopy(data) = MemoryLimit
      /\ open => MemoryCopy(data) = 0
  BY <1>1, SpooledAssumption
     DEF IInv, LimitsRespected, PrefixFull, MemoryCopy, NeedsSpill, Least
<1>3. /\ MemoryPart(data) \in Seq(Byte) /\ Len(MemoryPart(data)) = MemoryCopy(data)
      /\ SpillPart(data) \in Seq(Byte)
      /\ Len(SpillPart(data)) = Len(data) - MemoryCopy(data)
  BY <1>1, <1>2, CutAndJoin DEF MemoryPart, SpillPart
<1>4. Len(memory \o MemoryPart(data)) = Len(memory) + MemoryCopy(data)
  BY <1>1, <1>3, ConcatProperties DEF IInv, TypeOK
<1>5. ~NeedsSpill(data) => SpillPart(data) = <<>>
  BY <1>1, <1>2, <1>3, EmptySeq DEF NeedsSpill
<1>6. open => MemoryPart(data) = <<>>
  BY <1>2, <1>3, EmptySeq
<1> QED
  BY <1>1, <1>2, <1>3, <1>4, <1>5, <1>6

\* The initial handle satisfies the invariant.
LEMMA InitIInv == Init => IInv
<1> SUFFICES ASSUME Init PROVE IInv
  OBVIOUS
<1>1. TypeOK
  BY EmptySeq DEF Init, TypeOK
<1>2. LimitsRespected /\ PrefixFull /\ NoFileLeaked
  BY SpooledAssumption, EmptySeq DEF Init, LimitsRespected, PrefixFull, NoFileLeaked
<1>3. ContentsInv /\ ReadsReturnAppended
  BY EmptySeq, ConcatEmptySeq, SubSeqEmpty DEF Init, ContentsInv, ReadsReturnAppended
<1> QED
  BY <1>1, <1>2, <1>3 DEF IInv

\* A successful append.
LEMMA AppendStoresStep ==
  ASSUME IInv, NEW data \in Chunks, AppendStores(data)
  PROVE  IInv'
<1>1. /\ data \in Seq(Byte) /\ Len(data) \in Nat
      /\ memory \in Seq(Byte) /\ spill \in Seq(Byte) /\ accepted \in Seq(Byte)
  BY SpooledAssumption DEF IInv, TypeOK
<1>2. /\ memory' \in Seq(Byte) /\ spill' \in Seq(Byte) /\ accepted' \in Seq(Byte)
      /\ Len(accepted') = Len(accepted) + Len(data)
  BY <1>1, Division, ConcatProperties DEF AppendStores
<1>3. TypeOK'
  <2>1. open' \in BOOLEAN /\ tempDir' = tempDir /\ onDisk' \in BOOLEAN
        /\ tempPath' \in {"empty", "ours", "stray"}
    BY DEF IInv, TypeOK, AppendStores, OpenTemp, fileVars
  <2>2. size' \in Nat /\ failed' = failed /\ readVars' = readVars
    BY <1>1 DEF IInv, TypeOK, AppendStores, readVars
  <2> QED
    BY <1>2, <2>1, <2>2 DEF IInv, TypeOK, readVars
<1>4. LimitsRespected'
  BY <1>1, <1>2, Division, SpooledAssumption
     DEF IInv, TypeOK, LimitsRespected, AppendStores, Fits
<1>5. PrefixFull'
  <2>1. CASE NeedsSpill(data)
    BY <2>1, Division DEF AppendStores, OpenTemp, PrefixFull
  <2>2. CASE ~NeedsSpill(data)
    <3>1. spill' = spill /\ open' = open
      BY <1>1, <2>2, Division, ConcatEmptySeq DEF AppendStores, fileVars
    <3>2. open => memory' = memory
      BY <1>1, Division, ConcatEmptySeq DEF AppendStores
    <3> QED
      BY <3>1, <3>2 DEF IInv, PrefixFull
  <2> QED
    BY <2>1, <2>2
<1>6. ContentsInv'
  <2>1. spill = <<>> \/ MemoryCopy(data) = 0
    BY Division DEF IInv, PrefixFull
  <2>2. memory' \o spill' = (memory \o spill) \o data
    <3> DEFINE k == MemoryCopy(data)
    <3>1. k \in 0..Len(data) /\ (spill = <<>> \/ k = 0)
      BY <2>1, Division
    <3> HIDE DEF k
    <3>2. (memory \o SubSeq(data, 1, k)) \o (spill \o SubSeq(data, k + 1, Len(data)))
            = (memory \o spill) \o data
      BY <1>1, <3>1, TwoPartAppend, Zenon
    <3> QED
      BY <3>2, Zenon DEF k, AppendStores, MemoryPart, SpillPart
  <2> QED
    BY <2>2 DEF IInv, ContentsInv, AppendStores
<1>7. ReadsReturnAppended'
  BY <1>1, <1>2, PrefixKept
     DEF IInv, TypeOK, ReadsReturnAppended, AppendStores, readVars
<1>8. NoFileLeaked'
  BY DEF IInv, TypeOK, NoFileLeaked, AppendStores, OpenTemp, fileVars
<1> QED
  BY <1>3, <1>4, <1>5, <1>6, <1>7, <1>8 DEF IInv

\* An append whose temporary file cannot be created.
LEMMA AppendOpenFailsStep ==
  ASSUME IInv, NEW data \in Chunks, AppendOpenFails(data)
  PROVE  IInv'
<1>1. memory' \in Seq(Byte)
  BY Division, ConcatProperties DEF AppendOpenFails, IInv, TypeOK
<1>2. TypeOK'
  BY <1>1 DEF IInv, TypeOK, AppendOpenFails, readVars
<1>3. LimitsRespected'
  BY Division DEF IInv, LimitsRespected, AppendOpenFails
<1>4. PrefixFull' /\ NoFileLeaked' /\ ContentsInv' /\ ReadsReturnAppended'
  BY DEF IInv, PrefixFull, NoFileLeaked, ContentsInv, ReadsReturnAppended,
         AppendOpenFails
<1> QED
  BY <1>2, <1>3, <1>4 DEF IInv

\* An append that fails while it writes the file.
LEMMA AppendSpillFailsStep ==
  ASSUME IInv, NEW data \in Chunks, NEW written \in 0..Len(data),
         AppendSpillFails(data, written)
  PROVE  IInv'
<1>1. SpillPart(data) \in Seq(Byte) /\ written \in 0..Len(SpillPart(data))
  BY Division, SpooledAssumption DEF AppendSpillFails
<1>2. memory' \in Seq(Byte) /\ spill' \in Seq(Byte)
  BY <1>1, Division, CutAndJoin, ConcatProperties DEF AppendSpillFails, IInv, TypeOK
<1>3. TypeOK'
  BY <1>2 DEF IInv, TypeOK, AppendSpillFails, OpenTemp, readVars
<1>4. LimitsRespected' /\ PrefixFull'
  BY Division DEF IInv, LimitsRespected, PrefixFull, AppendSpillFails, OpenTemp
<1>5. NoFileLeaked' /\ ContentsInv' /\ ReadsReturnAppended'
  BY DEF IInv, NoFileLeaked, ContentsInv, ReadsReturnAppended, AppendSpillFails,
         OpenTemp
<1> QED
  BY <1>3, <1>4, <1>5 DEF IInv

\* A read inside the memory prefix.
LEMMA ReadMemoryStep ==
  ASSUME IInv, NEW capacity \in Capacities, ReadMemory(capacity)
  PROVE  IInv'
<1> DEFINE copied == Least(Len(memory) - readOffset, capacity)
<1>1. /\ memory \in Seq(Byte) /\ spill \in Seq(Byte) /\ readOffset \in Nat
      /\ Len(memory) \in Nat /\ Len(spill) \in Nat /\ delivered \in Seq(Byte)
  BY DEF IInv, TypeOK
<1>2. copied \in Nat /\ readOffset + copied <= Len(memory)
  BY <1>1, SpooledAssumption DEF Least, ReadMemory
<1>3. SubSeq(memory, readOffset + 1, readOffset + copied) \in Seq(Byte)
  BY <1>1, <1>2
<1>4. TypeOK'
  BY <1>1, <1>2, <1>3, ConcatProperties DEF IInv, TypeOK, ReadMemory, fileVars
<1>5. ReadsReturnAppended'
  <2> SUFFICES ASSUME ~failed
               PROVE  /\ readOffset' <= Len(accepted)
                      /\ delivered' = SubSeq(accepted, 1, readOffset')
    BY DEF ReadsReturnAppended, ReadMemory
  <2>1. accepted = memory \o spill /\ delivered = SubSeq(accepted, 1, readOffset)
    BY DEF IInv, ContentsInv, ReadsReturnAppended
  <2>2. Len(accepted) = Len(memory) + Len(spill)
    BY <1>1, <2>1, ConcatProperties
  <2>3. readOffset' = readOffset + copied
        /\ delivered' = delivered \o SubSeq(memory, readOffset + 1, readOffset + copied)
    BY DEF ReadMemory
  <2> QED
    <3> HIDE DEF copied
    <3>0. SubSeq(memory \o spill, 1, readOffset)
            \o SubSeq(memory, readOffset + 1, readOffset + copied)
            = SubSeq(memory \o spill, 1, readOffset + copied)
      BY <1>1, <1>2, ReadInPrefix, Zenon
    <3>1. delivered' = SubSeq(memory \o spill, 1, readOffset + copied)
      BY <2>1, <2>3, <3>0, Zenon
    <3>2. readOffset' <= Len(accepted)
      BY <1>1, <1>2, <2>2, <2>3
    <3> QED
      BY <2>1, <2>3, <3>1, <3>2, Zenon
<1>6. LimitsRespected' /\ PrefixFull' /\ ContentsInv' /\ NoFileLeaked'
  BY DEF IInv, LimitsRespected, PrefixFull, ContentsInv, NoFileLeaked, ReadMemory,
         fileVars
<1> QED
  BY <1>4, <1>5, <1>6 DEF IInv

\* A read from the file.
LEMMA ReadSpillStep ==
  ASSUME IInv, NEW capacity \in Capacities, NEW got \in 0..capacity,
         ReadSpill(capacity, got)
  PROVE  IInv'
<1> DEFINE offset == readOffset - Len(memory)
<1>1. /\ memory \in Seq(Byte) /\ spill \in Seq(Byte) /\ readOffset \in Nat
      /\ Len(memory) \in Nat /\ Len(spill) \in Nat /\ delivered \in Seq(Byte)
      /\ got \in Nat /\ capacity \in Nat
  BY SpooledAssumption DEF IInv, TypeOK
<1>2. /\ offset \in Nat
      /\ offset <= Len(spill) => offset + got <= Len(spill)
      /\ offset > Len(spill) => got = 0
  BY <1>1 DEF Least, ReadSpill
<1>3. SubSeq(spill, offset + 1, offset + got) \in Seq(Byte)
  <2>1. CASE offset <= Len(spill)
    BY <1>1, <1>2, <2>1
  <2>2. CASE offset > Len(spill)
    BY <1>1, <1>2, <2>2, SubSeqEmpty, EmptySeq
  <2> QED
    BY <1>1, <1>2, <2>1, <2>2
<1>4. TypeOK'
  BY <1>1, <1>2, <1>3, ConcatProperties DEF IInv, TypeOK, ReadSpill, fileVars
<1>5. ReadsReturnAppended'
  <2> SUFFICES ASSUME ~failed
               PROVE  /\ readOffset' <= Len(accepted)
                      /\ delivered' = SubSeq(accepted, 1, readOffset')
    BY DEF ReadsReturnAppended, ReadSpill
  <2>1. /\ accepted = memory \o spill /\ delivered = SubSeq(accepted, 1, readOffset)
        /\ readOffset <= Len(accepted)
    BY DEF IInv, ContentsInv, ReadsReturnAppended
  <2>2. Len(accepted) = Len(memory) + Len(spill)
    BY <1>1, <2>1, ConcatProperties
  <2>3. /\ readOffset' = readOffset + got
        /\ delivered' = delivered \o SubSeq(spill, offset + 1, offset + got)
    BY DEF ReadSpill
  <2>4. readOffset >= Len(memory) /\ readOffset + got <= Len(memory) + Len(spill)
    BY <1>1, <1>2, <2>1, <2>2
  <2> QED
    <3>0. SubSeq(memory \o spill, 1, readOffset)
            \o SubSeq(spill, readOffset - Len(memory) + 1,
                              readOffset - Len(memory) + got)
            = SubSeq(memory \o spill, 1, readOffset + got)
      BY <1>1, <2>4, ReadInFile
    <3>1. delivered' = SubSeq(memory \o spill, 1, readOffset + got)
      BY <2>1, <2>3, <3>0, Zenon
    <3>2. readOffset' <= Len(accepted)
      BY <1>1, <2>2, <2>3, <2>4
    <3> QED
      BY <2>1, <2>3, <3>1, <3>2, Zenon
<1>6. LimitsRespected' /\ PrefixFull' /\ ContentsInv' /\ NoFileLeaked'
  BY DEF IInv, LimitsRespected, PrefixFull, ContentsInv, NoFileLeaked, ReadSpill,
         fileVars
<1> QED
  BY <1>4, <1>5, <1>6 DEF IInv

\* Reads past the end, rewinds, resets and cleanups.
LEMMA OtherSteps ==
  ASSUME IInv, PreadFails \/ ReadEnd \/ Rewind \/ Reset \/ Cleanup
  PROVE  IInv'
<1>1. CASE ReadEnd
  BY <1>1 DEF IInv, TypeOK, LimitsRespected, PrefixFull, ContentsInv,
              ReadsReturnAppended, NoFileLeaked, ReadEnd, fileVars
<1>0. CASE PreadFails
  BY <1>0 DEF IInv, TypeOK, LimitsRespected, PrefixFull, ContentsInv,
              ReadsReturnAppended, NoFileLeaked, PreadFails, fileVars
<1>2. CASE Rewind
  <2>1. ReadsReturnAppended'
    BY <1>2, SubSeqEmpty DEF IInv, TypeOK, ReadsReturnAppended, Rewind
  <2>2. TypeOK'
    BY <1>2, EmptySeq DEF IInv, TypeOK, Rewind, fileVars
  <2> QED
    BY <1>2, <2>1, <2>2 DEF IInv, LimitsRespected, PrefixFull, ContentsInv,
                            NoFileLeaked, Rewind, fileVars
<1>3. CASE Reset \/ Cleanup
  <2>1. Clear /\ tempDir' \in BOOLEAN
    BY <1>3 DEF Reset, Cleanup, IInv, TypeOK
  <2>2. TypeOK'
    BY <2>1, EmptySeq DEF TypeOK, Clear, CloseTemp
  <2>3. ContentsInv' /\ ReadsReturnAppended'
    BY <2>1, EmptySeq, ConcatEmptySeq, SubSeqEmpty
       DEF Clear, ContentsInv, ReadsReturnAppended
  <2>4. LimitsRespected' /\ PrefixFull' /\ NoFileLeaked'
    <3>1. LimitsRespected' /\ PrefixFull'
      BY <2>1, EmptySeq, SpooledAssumption
         DEF Clear, CloseTemp, LimitsRespected, PrefixFull
    <3>2. NoFileLeaked'
      BY <2>1, Zenon DEF IInv, Clear, CloseTemp, NoFileLeaked
    <3> QED
      BY <3>1, <3>2
  <2> QED
    BY <2>2, <2>3, <2>4 DEF IInv
<1> QED
  BY <1>0, <1>1, <1>2, <1>3

\* Every step keeps the invariant.
LEMMA NextIInv == ASSUME IInv, [Next]_vars PROVE IInv'
<1>1. CASE UNCHANGED vars
  BY <1>1 DEF vars, IInv, TypeOK, LimitsRespected, PrefixFull, ContentsInv,
              ReadsReturnAppended, NoFileLeaked
<1>2. CASE AppendData
  BY <1>2, AppendStoresStep, AppendOpenFailsStep, AppendSpillFailsStep DEF AppendData
<1>3. CASE Read
  BY <1>3, ReadMemoryStep, ReadSpillStep DEF Read
<1> QED
  BY <1>1, <1>2, <1>3, OtherSteps DEF Next

-----------------------------------------------------------------------------

\* The invariant holds in every reachable state.
THEOREM Invariance == Spec => []IInv
<1> QED
  BY InitIInv, NextIInv, PTL DEF Spec

\* The handle keeps its types.
THEOREM TypeCorrect == Spec => []TypeOK
<1>1. IInv => TypeOK
  BY DEF IInv
<1> QED
  BY <1>1, Invariance, PTL

\* Sequential reads return exactly the appended bytes, in order.
THEOREM ReadsAreFaithful == Spec => []ReadsReturnAppended
<1>1. IInv => ReadsReturnAppended
  BY DEF IInv
<1> QED
  BY <1>1, Invariance, PTL

\* Streaming to a sink passes on exactly the appended bytes.
THEOREM SinkIsFaithful == Spec => []SinkStreamsAppended
<1>1. IInv => SinkStreamsAppended
  <2> SUFFICES ASSUME IInv, ~failed PROVE SinkOutput = accepted
    BY DEF SinkStreamsAppended
  <2>1. /\ memory \in Seq(Byte) /\ spill \in Seq(Byte) /\ memory \o spill = accepted
        /\ size = Len(accepted) /\ (~open => spill = <<>>)
    BY DEF IInv, TypeOK, ContentsInv, LimitsRespected, PrefixFull
  <2>2. size = Len(memory) + Len(spill)
    BY <2>1, ConcatProperties
  <2>3. Len(memory) = size => spill = <<>>
    BY <2>1, <2>2, EmptySeq
  <2>4. spill = <<>> => memory = accepted
    BY <2>1, ConcatEmptySeq
  <2> QED
    BY <2>1, <2>3, <2>4 DEF SinkOutput
<1> QED
  BY <1>1, Invariance, PTL

\* The limits hold whatever fails.
THEOREM LimitsHold == Spec => []LimitsRespected
<1>1. IInv => LimitsRespected
  BY DEF IInv
<1> QED
  BY <1>1, Invariance, PTL

\* No temporary file outlives the handle's knowledge of it.
THEOREM FilesAccounted == Spec => []NoFileLeaked
<1>1. IInv => NoFileLeaked
  BY DEF IInv
<1> QED
  BY <1>1, Invariance, PTL

\* The eof flag is exact.
THEOREM EofIsExact == Spec => EofMeansAllRead
<1>1. IInv /\ (Read \/ ReadEnd) /\ ~failed => (eof' <=> readOffset' = Len(accepted))
  <2> SUFFICES ASSUME IInv, Read \/ ReadEnd, ~failed
               PROVE  eof' <=> readOffset' = Len(accepted)
    OBVIOUS
  <2>1. /\ memory \in Seq(Byte) /\ spill \in Seq(Byte) /\ memory \o spill = accepted
        /\ size = Len(accepted) /\ (~open => spill = <<>>)
        /\ readOffset \in Nat /\ readOffset <= Len(accepted)
    BY DEF IInv, TypeOK, ContentsInv, LimitsRespected, PrefixFull, ReadsReturnAppended
  <2>2. CASE ReadEnd
    <3>1. accepted = memory
      BY <2>1, <2>2, ConcatEmptySeq DEF ReadEnd
    <3>2. readOffset = Len(accepted)
      <4>1. readOffset >= Len(memory) /\ Len(memory) = Len(accepted)
        BY <2>2, <3>1 DEF ReadEnd
      <4>2. Len(accepted) \in Nat
        BY <2>1, <3>1, LenProperties
      <4> QED
        BY <2>1, <4>1, <4>2
    <3> QED
      BY <2>1, <2>2, <3>1, <3>2, Zenon DEF ReadEnd
  <2>3. ASSUME NEW capacity \in Capacities, ReadMemory(capacity)
        PROVE  eof' <=> readOffset' = Len(accepted)
    BY <2>1, <2>3 DEF ReadMemory
  <2>4. ASSUME NEW capacity \in Capacities, NEW got \in 0..capacity,
               ReadSpill(capacity, got)
        PROVE  eof' <=> readOffset' = Len(accepted)
    <3>1. IInv' /\ failed' = failed /\ accepted' = accepted
      BY <2>4, ReadSpillStep DEF ReadSpill
    <3>2. readOffset' <= Len(accepted) /\ readOffset' \in Nat /\ Len(accepted) \in Nat
      BY <2>1, <3>1 DEF IInv, TypeOK, ReadsReturnAppended
    <3>3. eof' = (readOffset' >= size)
      BY <2>4 DEF ReadSpill
    <3>4. (readOffset' >= size) <=> readOffset' = Len(accepted)
      BY <2>1, <3>2
    <3> QED
      BY <3>3, <3>4, Zenon
  <2> QED
    BY <2>2, <2>3, <2>4 DEF Read
<1>2. IInv => [(Read \/ ReadEnd) /\ ~failed => (eof' <=> readOffset' = Len(accepted))]_vars
  BY <1>1
<1> QED
  BY <1>2, Invariance, PTL DEF EofMeansAllRead

=============================================================================
