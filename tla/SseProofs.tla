------------------------------ MODULE SseProofs ------------------------------
(***************************************************************************)
(* Proofs about Sse, for any lines, filters, destinations and limits and   *)
(* streams of any length: the callbacks and the JSON calls see exactly the *)
(* events of the stream, a failed event leaves no half-decoded value       *)
(* behind, and no event has more data than max_event_data_bytes.           *)
(*                                                                         *)
(* The reference reads a stream by places: where lines end, how many empty *)
(* lines come before a place, which places are data.  The first sections   *)
(* turn it into what one more symbol, one more line and one more event     *)
(* add; the invariant then says that the parser's state is what the        *)
(* reference makes of the part of the stream whose lines were processed.   *)
(***************************************************************************)
EXTENDS Sse, SequenceTheorems, FiniteSetTheorems, NaturalsInduction, WellFoundedInduction, TLAPS

\* Every nonempty set of naturals has a least member.
LEMMA LeastIndex ==
  ASSUME NEW T, T \subseteq Nat, T # {}
  PROVE  \E x \in T : \A y \in T : x <= y
<1>1. IsWellFoundedOn(OpToRel(<, Nat), Nat)
  BY NatLessThanWellFounded
<1>2. PICK x \in T : \A y \in T : ~(<<y, x>> \in OpToRel(<, Nat))
  BY <1>1, WFMin
<1>3. \A y \in T : ~(y < x)
  BY <1>2 DEF OpToRel
<1> QED
  BY <1>3

\* Induction up to n, for sets of naturals.
LEMMA InductTo ==
  ASSUME NEW n \in Nat, NEW T, 0 \in T, \A k \in 0..(n - 1) : k \in T => k + 1 \in T
  PROVE  \A k \in 0..n : k \in T
<1> DEFINE Bad == {k \in 0..n : k \notin T}
<1>1. SUFFICES ASSUME Bad # {} PROVE FALSE
  OBVIOUS
<1>2. PICK x \in Bad : \A y \in Bad : x <= y
  <2>1. Bad \subseteq Nat
    OBVIOUS
  <2> HIDE DEF Bad
  <2> QED
    BY <1>1, <2>1, LeastIndex
<1>3. x \in 1..n /\ x - 1 \notin Bad
  BY <1>2
<1>4. x - 1 \in T /\ x - 1 \in 0..(n - 1) /\ (x - 1) + 1 = x
  BY <1>3
<1> QED
  BY <1>2, <1>4

-----------------------------------------------------------------------------
(***************************************************************************)
(* The places of a sequence that are chosen.                               *)
(***************************************************************************)

\* What Chosen has collected after each place.
Collects(f, s, S) ==
  /\ f[0] = <<>>
  /\ \A k \in 1..Len(s) :
       f[k] = IF k \in S THEN Append(f[k - 1], s[k]) ELSE f[k - 1]

\* The recursion in Chosen has a solution, and Chosen is its last value.
LEMMA ChosenCollects ==
  ASSUME NEW E, NEW s \in Seq(E), NEW S
  PROVE  \E f : Collects(f, s, S) /\ Chosen(s, S) = f[Len(s)]
<1> DEFINE n == Len(s)
           More(x, k) == IF k \in S THEN Append(x, s[k]) ELSE x
           Rule(f) == [k \in 0..n |-> IF k = 0 THEN <<>>
                                      ELSE IF k \in S THEN Append(f[k - 1], s[k]) ELSE f[k - 1]]
           upto == CHOOSE f : f = Rule(f)
           Upto(f, j) == /\ f[0] = <<>>
                         /\ \A k \in 1..j : f[k] = More(f[k - 1], k)
           T == {j \in 0..n : \E f : Upto(f, j)}
<1>0. n \in Nat
  OBVIOUS
<1>1. Chosen(s, S) = upto[n]
  BY DEF Chosen
<1> HIDE DEF More
<1>2. \A j \in 0..n : j \in T
  <2>1. 0 \in T
    <3>1. Upto([k \in {0} |-> <<>>], 0)
      OBVIOUS
    <3>2. \E f : Upto(f, 0)
      <4> HIDE DEF Upto
      <4> QED
        BY <3>1
    <3> QED
      BY <1>0, <3>2
  <2>2. ASSUME NEW j \in 0..(n - 1), j \in T PROVE j + 1 \in T
    <3>1. PICK f : Upto(f, j)
      BY <2>2
    <3> DEFINE e == [k \in 0..(j + 1) |-> IF k = j + 1 THEN More(f[j], k) ELSE f[k]]
    <3>2. e[0] = <<>>
      BY <3>1, <1>0
    <3>3. ASSUME NEW k \in 1..(j + 1) PROVE e[k] = More(e[k - 1], k)
      <4>1. CASE k = j + 1
        BY <4>1, <1>0
      <4>2. CASE k # j + 1
        <5>1. k \in 1..j /\ k - 1 \in 0..j
          BY <4>2, <1>0
        <5>2. e[k] = f[k] /\ e[k - 1] = f[k - 1]
          BY <5>1, <1>0
        <5> QED
          BY <3>1, <5>1, <5>2
      <4> QED
        BY <4>1, <4>2
    <3> HIDE DEF e
    <3>4. Upto(e, j + 1)
      BY <3>2, <3>3
    <3> QED
      BY <1>0, <3>4
  <2> HIDE DEF T
  <2> QED
    BY <1>0, <2>1, <2>2, InductTo
<1>3. PICK f : Upto(f, n)
  <2>0. n \in 0..n
    BY <1>0
  <2>1. n \in T
    <3> HIDE DEF T, n
    <3> QED
      BY <1>2, <2>0
  <2> HIDE DEF Upto
  <2> QED
    BY <2>1
<1> DEFINE e == [k \in 0..n |-> f[k]]
<1>4. e = Rule(e)
  <2>1. ASSUME NEW k \in 0..n
        PROVE  e[k] = IF k = 0 THEN <<>>
                      ELSE IF k \in S THEN Append(e[k - 1], s[k]) ELSE e[k - 1]
    <3>1. CASE k = 0
      BY <1>3, <3>1
    <3>2. CASE k # 0
      <4>1. k \in 1..n /\ k - 1 \in 0..n
        BY <3>2, <1>0
      <4> QED
        BY <4>1, <3>2, <1>3 DEF More
    <3> QED
      BY <3>1, <3>2
  <2> QED
    BY <2>1
<1>5. upto = Rule(upto)
  <2> HIDE DEF Rule
  <2> QED
    BY <1>4
<1> HIDE DEF upto
<1>6. upto[0] = <<>>
  BY <1>0, <1>5
<1>7. ASSUME NEW k \in 1..n
      PROVE  upto[k] = IF k \in S THEN Append(upto[k - 1], s[k]) ELSE upto[k - 1]
  <2>1. k \in 0..n /\ k # 0
    BY <1>0
  <2>2. Rule(upto)[k] = IF k \in S THEN Append(upto[k - 1], s[k]) ELSE upto[k - 1]
    BY <2>1
  <2> QED
    BY <1>5, <2>2
<1> QED
  BY <1>1, <1>6, <1>7 DEF Collects

\* What is chosen is a sequence of the same elements; of no place, nothing.
LEMMA ChosenType ==
  ASSUME NEW E, NEW s \in Seq(E), NEW S
  PROVE  Chosen(s, S) \in Seq(E)
<1>1. PICK f : Collects(f, s, S) /\ Chosen(s, S) = f[Len(s)]
  BY ChosenCollects
<1> DEFINE T == {k \in 0..Len(s) : f[k] \in Seq(E)}
<1>2. 0 \in T
  <2>1. f[0] \in Seq(E)
    BY <1>1, EmptySeq DEF Collects
  <2> QED
    BY <2>1
<1>3. ASSUME NEW k \in 0..(Len(s) - 1), k \in T PROVE k + 1 \in T
  <2>1. k + 1 \in 1..Len(s) /\ (k + 1) - 1 = k /\ s[k + 1] \in E
    OBVIOUS
  <2>2. f[k + 1] = IF k + 1 \in S THEN Append(f[k], s[k + 1]) ELSE f[k]
    BY <1>1, <2>1 DEF Collects
  <2>3. f[k] \in Seq(E)
    BY <1>3
  <2>4. f[k + 1] \in Seq(E)
    BY <2>1, <2>2, <2>3, AppendProperties
  <2> QED
    BY <2>1, <2>4
<1> HIDE DEF T
<1>4. \A k \in 0..Len(s) : k \in T
  BY <1>2, <1>3, InductTo
<1> QED
  BY <1>1, <1>4 DEF T

LEMMA ChosenNone ==
  ASSUME NEW E, NEW s \in Seq(E), NEW S, \A i \in 1..Len(s) : i \notin S
  PROVE  Chosen(s, S) = <<>>
<1>1. PICK f : Collects(f, s, S) /\ Chosen(s, S) = f[Len(s)]
  BY ChosenCollects
<1> DEFINE T == {k \in 0..Len(s) : f[k] = <<>>}
<1>2. 0 \in T
  BY <1>1 DEF Collects
<1>3. ASSUME NEW k \in 0..(Len(s) - 1), k \in T PROVE k + 1 \in T
  <2>1. k + 1 \in 1..Len(s) /\ (k + 1) - 1 = k
    OBVIOUS
  <2>2. f[k + 1] = f[k]
    BY <1>1, <2>1 DEF Collects
  <2> QED
    BY <1>3, <2>1, <2>2
<1> HIDE DEF T
<1>4. \A k \in 0..Len(s) : k \in T
  BY <1>2, <1>3, InductTo
<1> QED
  BY <1>1, <1>4 DEF T

\* One more element: it is chosen or it is not.
LEMMA ChosenAppend ==
  ASSUME NEW E, NEW s \in Seq(E), NEW c \in E, NEW S, NEW T,
         \A i \in 1..Len(s) : i \in S <=> i \in T
  PROVE  Chosen(Append(s, c), S)
           = IF Len(s) + 1 \in S THEN Append(Chosen(s, T), c) ELSE Chosen(s, T)
<1> DEFINE t == Append(s, c)
           n == Len(s)
<1>1. /\ t \in Seq(E) /\ Len(t) = n + 1 /\ n \in Nat /\ t[n + 1] = c
      /\ \A i \in 1..n : t[i] = s[i]
  OBVIOUS
<1>2. PICK a : Collects(a, t, S) /\ Chosen(t, S) = a[Len(t)]
  BY <1>1, ChosenCollects
<1>3. PICK b : Collects(b, s, T) /\ Chosen(s, T) = b[n]
  BY ChosenCollects
<1> HIDE DEF t
<1>4. a[n] = b[n]
  <2> DEFINE U == {k \in 0..n : a[k] = b[k]}
  <2>1. 0 \in U
    BY <1>1, <1>2, <1>3 DEF Collects
  <2>2. ASSUME NEW k \in 0..(n - 1), k \in U PROVE k + 1 \in U
    <3>1. k + 1 \in 1..n /\ k + 1 \in 1..(n + 1) /\ (k + 1) - 1 = k
      BY <1>1
    <3>2. a[k + 1] = IF k + 1 \in S THEN Append(a[k], s[k + 1]) ELSE a[k]
      BY <1>1, <1>2, <3>1 DEF Collects
    <3>3. b[k + 1] = IF k + 1 \in T THEN Append(b[k], s[k + 1]) ELSE b[k]
      BY <1>3, <3>1 DEF Collects
    <3>4. k + 1 \in S <=> k + 1 \in T
      BY <3>1
    <3>5. a[k + 1] = b[k + 1]
      BY <2>2, <3>2, <3>3, <3>4
    <3> QED
      BY <3>1, <3>5
  <2> HIDE DEF U
  <2>3. \A k \in 0..n : k \in U
    BY <1>1, <2>1, <2>2, InductTo
  <2> QED
    BY <1>1, <2>3 DEF U
<1>5. a[n + 1] = IF n + 1 \in S THEN Append(a[n], c) ELSE a[n]
  <2>1. n + 1 \in 1..Len(t) /\ (n + 1) - 1 = n
    BY <1>1
  <2> QED
    BY <1>1, <1>2, <2>1 DEF Collects
<1> QED
  BY <1>1, <1>2, <1>3, <1>4, <1>5 DEF t

-----------------------------------------------------------------------------
(***************************************************************************)
(* How the meaning of a stream grows with the stream.                      *)
(***************************************************************************)
Symbols == Contents \cup {"CR", "LF"}

\* The events a stream has ended, and the lines of the one it has not.
Number(s) == EventNumber(s, Len(s) + 1)
Past(s) == [k \in 1..Number(s) |-> EventLines(s, k - 1)]
Current(s) == EventLines(s, Number(s))

\* The empty lines before a place are counted, and more of them further on.
LEMMA NumberFinite ==
  ASSUME NEW s, NEW i \in Nat
  PROVE  /\ IsFiniteSet({j \in 1..(i - 1) : EmptyLine(s, j)})
         /\ EventNumber(s, i) \in Nat
<1> DEFINE S == {j \in 1..(i - 1) : EmptyLine(s, j)}
<1>1. IsFiniteSet(1..(i - 1))
  BY FS_Interval
<1>2. S \in SUBSET (1..(i - 1))
  OBVIOUS
<1>3. IsFiniteSet(S)
  BY <1>1, <1>2, FS_Subset
<1> HIDE DEF S
<1>4. Cardinality(S) \in Nat
  BY <1>3, FS_CardinalityType
<1> QED
  BY <1>3, <1>4 DEF S, EventNumber

LEMMA NumberMonotone ==
  ASSUME NEW s, NEW i \in Nat, NEW j \in Nat, i <= j
  PROVE  EventNumber(s, i) <= EventNumber(s, j)
<1> DEFINE S == {k \in 1..(i - 1) : EmptyLine(s, k)}
           T == {k \in 1..(j - 1) : EmptyLine(s, k)}
<1>1. S \in SUBSET T
  OBVIOUS
<1>2. IsFiniteSet(T)
  BY NumberFinite
<1> HIDE DEF S, T
<1>3. Cardinality(S) <= Cardinality(T)
  BY <1>1, <1>2, FS_Subset
<1> QED
  BY <1>3 DEF S, T, EventNumber

\* A symbol that follows changes nothing before it.
LEMMA EmptyLineKept ==
  ASSUME NEW s \in Seq(Symbols), NEW c \in Symbols, NEW j \in 1..Len(s)
  PROVE  EmptyLine(Append(s, c), j) <=> EmptyLine(s, j)
<1>1. Append(s, c)[j] = s[j] /\ (j # 1 => Append(s, c)[j - 1] = s[j - 1])
  OBVIOUS
<1> QED
  BY <1>1 DEF EmptyLine, EndsLine

LEMMA NumberKept ==
  ASSUME NEW s \in Seq(Symbols), NEW c \in Symbols, NEW i \in 1..(Len(s) + 1)
  PROVE  EventNumber(Append(s, c), i) = EventNumber(s, i)
<1> DEFINE S == {k \in 1..(i - 1) : EmptyLine(s, k)}
           T == {k \in 1..(i - 1) : EmptyLine(Append(s, c), k)}
<1>1. \A k \in 1..(i - 1) : k \in 1..Len(s)
  OBVIOUS
<1>2. S = T
  BY <1>1, EmptyLineKept
<1> QED
  BY <1>2 DEF EventNumber

\* Only an empty line ends an event.
LEMMA NumberGrows ==
  ASSUME NEW s \in Seq(Symbols), NEW c \in Symbols
  PROVE  Number(Append(s, c))
           = IF EmptyLine(Append(s, c), Len(s) + 1) THEN Number(s) + 1 ELSE Number(s)
<1> DEFINE t == Append(s, c)
           n == Len(s)
           S == {k \in 1..n : EmptyLine(t, k)}
           T == {k \in 1..(n + 1) : EmptyLine(t, k)}
<1>1. n \in Nat /\ Len(t) = n + 1
  OBVIOUS
<1>2. Number(s) = Cardinality(S)
  <2>1. EventNumber(t, n + 1) = EventNumber(s, n + 1)
    BY <1>1, NumberKept
  <2>2. (n + 1) - 1 = n
    BY <1>1
  <2> QED
    BY <2>1, <2>2 DEF EventNumber, Number
<1>3. Number(t) = Cardinality(T)
  <2>1. (n + 1 + 1) - 1 = n + 1
    BY <1>1
  <2> QED
    BY <1>1, <2>1 DEF EventNumber, Number
<1>4. IsFiniteSet(S)
  <2>1. (n + 1) - 1 = n /\ n + 1 \in Nat
    BY <1>1
  <2> QED
    BY <2>1, NumberFinite
<1> HIDE DEF t
<1>5. CASE EmptyLine(t, n + 1)
  <2>1. T = S \cup {n + 1} /\ n + 1 \notin S
    BY <1>1, <1>5
  <2> HIDE DEF S, T
  <2>2. Cardinality(T) = Cardinality(S) + 1
    BY <1>4, <2>1, FS_AddElement
  <2> QED
    BY <1>2, <1>3, <1>5, <2>2 DEF t
<1>6. CASE ~EmptyLine(t, n + 1)
  <2>1. T = S
    BY <1>1, <1>6
  <2> QED
    BY <1>2, <1>3, <1>6, <2>1 DEF t
<1> QED
  BY <1>5, <1>6

LEMMA NumberType ==
  ASSUME NEW s \in Seq(Symbols)
  PROVE  Number(s) \in Nat
<1>1. Len(s) + 1 \in Nat
  OBVIOUS
<1> QED
  BY <1>1, NumberFinite DEF Number

LEMMA SymbolFacts ==
  /\ "CR" \notin Contents /\ "LF" \notin Contents /\ "CR" # "LF"
  /\ Contents \subseteq Symbols /\ "CR" \in Symbols /\ "LF" \in Symbols
BY SseAssumption DEF Symbols

\* The lines of an event are contents.
LEMMA EventLinesType ==
  ASSUME NEW s \in Seq(Symbols), NEW k
  PROVE  EventLines(s, k) \in Seq(Contents)
<1> DEFINE S == {i \in 1..Len(s) : s[i] \in Contents /\ EventNumber(s, i) = k}
<1>1. PICK f : Collects(f, s, S) /\ Chosen(s, S) = f[Len(s)]
  BY ChosenCollects
<1> DEFINE T == {j \in 0..Len(s) : f[j] \in Seq(Contents)}
<1>2. 0 \in T
  <2>1. f[0] \in Seq(Contents)
    BY <1>1, EmptySeq DEF Collects
  <2> QED
    BY <2>1
<1>3. ASSUME NEW j \in 0..(Len(s) - 1), j \in T PROVE j + 1 \in T
  <2>1. j + 1 \in 1..Len(s) /\ (j + 1) - 1 = j
    OBVIOUS
  <2>2. f[j + 1] = IF j + 1 \in S THEN Append(f[j], s[j + 1]) ELSE f[j]
    <3> HIDE DEF S
    <3> QED
      BY <1>1, <2>1 DEF Collects
  <2>3. f[j] \in Seq(Contents) /\ (j + 1 \in S => s[j + 1] \in Contents)
    BY <1>3
  <2>4. f[j + 1] \in Seq(Contents)
    <3> HIDE DEF S
    <3> QED
      BY <2>2, <2>3, AppendProperties
  <2> QED
    BY <2>1, <2>4
<1> HIDE DEF T
<1>4. \A j \in 0..Len(s) : j \in T
  BY <1>2, <1>3, InductTo
<1>5. f[Len(s)] \in Seq(Contents)
  BY <1>4 DEF T
<1> QED
  BY <1>1, <1>5 DEF EventLines

\* One more symbol adds to the current event or to none.
LEMMA EventLinesGrow ==
  ASSUME NEW s \in Seq(Symbols), NEW c \in Symbols, NEW k
  PROVE  EventLines(Append(s, c), k)
           = IF c \in Contents /\ Number(s) = k THEN Append(EventLines(s, k), c)
                                                ELSE EventLines(s, k)
<1> DEFINE t == Append(s, c)
           n == Len(s)
           S == {i \in 1..Len(s) : s[i] \in Contents /\ EventNumber(s, i) = k}
           T == {i \in 1..Len(t) : t[i] \in Contents /\ EventNumber(t, i) = k}
<1>1. n \in Nat /\ Len(t) = n + 1 /\ t[n + 1] = c /\ \A i \in 1..n : t[i] = s[i]
  OBVIOUS
<1>2. \A i \in 1..(n + 1) : EventNumber(t, i) = EventNumber(s, i)
  BY <1>1, NumberKept
<1>3. \A i \in 1..n : i \in T <=> i \in S
  <2> HIDE DEF t
  <2> QED
    BY <1>1, <1>2
<1>4. n + 1 \in T <=> c \in Contents /\ Number(s) = k
  <2>1. n + 1 \in 1..Len(t) /\ EventNumber(t, n + 1) = Number(s)
    BY <1>1, <1>2 DEF Number
  <2> HIDE DEF t
  <2> QED
    BY <1>1, <2>1
<1>5. EventLines(t, k) = Chosen(t, T) /\ EventLines(s, k) = Chosen(s, S)
  BY DEF EventLines
<1> HIDE DEF S, T
<1>6. Chosen(t, T) = IF n + 1 \in T THEN Append(Chosen(s, S), c) ELSE Chosen(s, S)
  BY <1>3, ChosenAppend
<1> QED
  BY <1>4, <1>5, <1>6

\* The events after the current one have no lines yet.
LEMMA EventLinesLater ==
  ASSUME NEW s \in Seq(Symbols), NEW k \in Nat, k > Number(s)
  PROVE  EventLines(s, k) = <<>>
<1> DEFINE S == {i \in 1..Len(s) : s[i] \in Contents /\ EventNumber(s, i) = k}
<1>1. ASSUME NEW i \in 1..Len(s) PROVE i \notin S
  <2>1. i \in Nat /\ Len(s) + 1 \in Nat /\ i <= Len(s) + 1
    OBVIOUS
  <2>2. EventNumber(s, i) <= Number(s) /\ EventNumber(s, i) \in Nat
    BY <2>1, NumberMonotone, NumberFinite DEF Number
  <2>3. Number(s) \in Nat
    BY NumberType
  <2> QED
    BY <2>2, <2>3
<1> HIDE DEF S
<1>2. Chosen(s, S) = <<>>
  BY <1>1, ChosenNone
<1> QED
  BY <1>2 DEF S, EventLines

-----------------------------------------------------------------------------
\* The lines of events.
Groups == Seq(Contents)

LEMMA PastType ==
  ASSUME NEW s \in Seq(Symbols)
  PROVE  /\ Past(s) \in Seq(Groups) /\ Len(Past(s)) = Number(s) /\ Current(s) \in Groups
         /\ \A k \in 1..Number(s) : Past(s)[k] = EventLines(s, k - 1)
<1>1. Number(s) \in Nat
  BY NumberType
<1>2. \A k : EventLines(s, k) \in Groups
  BY EventLinesType DEF Groups
<1> DEFINE n == Number(s)
           e == [k \in 1..n |-> EventLines(s, k - 1)]
<1> HIDE DEF n
<1>3. e \in [1..n -> Groups] /\ n \in Nat
  BY <1>1, <1>2 DEF n
<1>4. e \in Seq(Groups) /\ Len(e) = n
  <2> HIDE DEF e
  <2> QED
    BY <1>3
<1> QED
  BY <1>2, <1>4 DEF n, Past, Current

LEMMA NothingYet ==
  Past(<<>>) = <<>> /\ Current(<<>>) = <<>> /\ <<>> \in Seq(Symbols)
<1> DEFINE s == <<>>
<1>1. s \in Seq(Symbols) /\ Len(s) = 0 /\ Len(s) + 1 = 1
  OBVIOUS
<1> HIDE DEF s
<1>2. Number(s) = 0
  <2>1. {j \in 1..(1 - 1) : EmptyLine(s, j)} = {}
    OBVIOUS
  <2>2. EventNumber(s, 1) = 0
    BY <2>1, FS_EmptySet DEF EventNumber
  <2> QED
    BY <1>1, <2>2 DEF Number
<1>3. Past(s) = <<>>
  <2>1. Past(s) \in Seq(Groups) /\ Len(Past(s)) = 0
    BY <1>1, <1>2, PastType
  <2> QED
    BY <2>1, EmptySeq
<1>4. Current(s) = <<>>
  <2> DEFINE S == {i \in 1..Len(s) : s[i] \in Contents /\ EventNumber(s, i) = Number(s)}
  <2>1. \A i \in 1..Len(s) : i \notin S
    BY <1>1
  <2> HIDE DEF S
  <2>2. Chosen(s, S) = <<>>
    BY <1>1, <2>1, ChosenNone
  <2> QED
    BY <2>2 DEF S, Current, EventLines
<1> QED
  BY <1>1, <1>3, <1>4 DEF s

\* A line joins the current event.
LEMMA ContentGrows ==
  ASSUME NEW s \in Seq(Symbols), NEW c \in Contents
  PROVE  Past(Append(s, c)) = Past(s) /\ Current(Append(s, c)) = Append(Current(s), c)
<1> DEFINE t == Append(s, c)
<1>1. c \in Symbols /\ t \in Seq(Symbols) /\ t[Len(s) + 1] = c /\ c # "CR" /\ c # "LF"
  BY SymbolFacts
<1>2. ~EmptyLine(t, Len(s) + 1)
  <2> HIDE DEF t
  <2> QED
    BY <1>1 DEF EmptyLine, EndsLine
<1>3. Number(t) = Number(s)
  BY <1>1, <1>2, NumberGrows
<1>4. Current(t) = Append(Current(s), c)
  BY <1>1, <1>3, EventLinesGrow DEF Current
<1>5. ASSUME NEW k \in 1..Number(s) PROVE EventLines(t, k - 1) = EventLines(s, k - 1)
  <2>1. k - 1 # Number(s)
    BY NumberType
  <2> QED
    BY <1>1, <2>1, EventLinesGrow
<1>6. Past(t) = Past(s)
  <2> HIDE DEF t
  <2> QED
    BY <1>3, <1>5 DEF Past
<1> QED
  BY <1>4, <1>6

\* An empty line ends the event; another line end ends nothing.
LEMMA LineEnds ==
  ASSUME NEW s \in Seq(Symbols), NEW c \in {"CR", "LF"}
  PROVE  LET t == Append(s, c) IN
         IF EmptyLine(t, Len(s) + 1)
         THEN Past(t) = Append(Past(s), Current(s)) /\ Current(t) = <<>>
         ELSE Past(t) = Past(s) /\ Current(t) = Current(s)
<1> DEFINE t == Append(s, c)
           n == Number(s)
<1>1. c \in Symbols /\ t \in Seq(Symbols) /\ c \notin Contents
  BY SymbolFacts
<1>2. \A k : EventLines(t, k) = EventLines(s, k)
  BY <1>1, EventLinesGrow
<1>3. n \in Nat
  BY NumberType
<1>4. CASE EmptyLine(t, Len(s) + 1)
  <2>1. Number(t) = n + 1
    BY <1>1, <1>4, NumberGrows
  <2>2. Current(t) = <<>>
    <3>1. EventLines(s, n + 1) = <<>>
      BY <1>3, EventLinesLater
    <3> QED
      BY <1>2, <2>1, <3>1 DEF Current
  <2>3. Past(t) = Append(Past(s), Current(s))
    <3> DEFINE p == Past(s)
               q == Past(t)
               g == Current(s)
    <3>1. /\ p \in Seq(Groups) /\ Len(p) = n /\ g \in Groups
          /\ \A k \in 1..n : p[k] = EventLines(s, k - 1)
      BY PastType
    <3>2. /\ q \in Seq(Groups) /\ Len(q) = n + 1
          /\ \A k \in 1..(n + 1) : q[k] = EventLines(s, k - 1)
      BY <1>1, <1>2, <2>1, PastType
    <3>3. g = EventLines(s, (n + 1) - 1)
      BY <1>3 DEF Current
    <3> HIDE DEF p, q, g, n
    <3>4. /\ Append(p, g) \in Seq(Groups) /\ Len(Append(p, g)) = n + 1
          /\ \A k \in 1..n : Append(p, g)[k] = p[k]
          /\ Append(p, g)[n + 1] = g
      BY <3>1, AppendProperties
    <3>5. \A k \in 1..(n + 1) : Append(p, g)[k] = q[k]
      BY <1>3, <3>1, <3>2, <3>3, <3>4
    <3>6. q = Append(p, g)
      BY <3>2, <3>4, <3>5, SeqEqual
    <3> QED
      BY <3>6 DEF p, q, g
  <2> QED
    BY <1>4, <2>2, <2>3
<1>5. CASE ~EmptyLine(t, Len(s) + 1)
  <2>1. Number(t) = n
    BY <1>1, <1>5, NumberGrows
  <2>2. Past(t) = Past(s) /\ Current(t) = Current(s)
    <3> HIDE DEF t
    <3> QED
      BY <1>2, <2>1 DEF Past, Current
  <2> QED
    BY <1>5, <2>2
<1> QED
  BY <1>4, <1>5

\* The events of a stream.
LEMMA AllEventsSplit ==
  ASSUME NEW s \in Seq(Symbols)
  PROVE  AllEvents(s) = Append(Past(s), Current(s))
<1> DEFINE n == Number(s)
           p == Past(s)
           g == Current(s)
           q == [k \in 1..(n + 1) |-> EventLines(s, k - 1)]
<1>1. /\ p \in Seq(Groups) /\ Len(p) = n /\ g \in Groups /\ n \in Nat
      /\ \A k \in 1..n : p[k] = EventLines(s, k - 1)
  BY PastType, NumberType
<1>2. g = EventLines(s, (n + 1) - 1)
  BY <1>1 DEF Current
<1>3. AllEvents(s) = q
  BY DEF AllEvents, Number
<1> HIDE DEF n, p, g
<1>4. q \in Seq(Groups) /\ Len(q) = n + 1 /\ \A k \in 1..(n + 1) : q[k] = EventLines(s, k - 1)
  <2>1. \A k : EventLines(s, k) \in Groups
    BY EventLinesType DEF Groups
  <2>2. q \in [1..(n + 1) -> Groups] /\ n + 1 \in Nat
    BY <1>1, <2>1
  <2>3. \A k \in 1..(n + 1) : q[k] = EventLines(s, k - 1)
    OBVIOUS
  <2> HIDE DEF q
  <2> QED
    BY <2>2, <2>3
<1> HIDE DEF q
<1>5. /\ Append(p, g) \in Seq(Groups) /\ Len(Append(p, g)) = n + 1
      /\ \A k \in 1..n : Append(p, g)[k] = p[k]
      /\ Append(p, g)[n + 1] = g
  BY <1>1, AppendProperties
<1>6. \A k \in 1..(n + 1) : Append(p, g)[k] = q[k]
  BY <1>1, <1>2, <1>4, <1>5
<1>7. q = Append(p, g)
  BY <1>4, <1>5, <1>6, SeqEqual
<1> QED
  BY <1>3, <1>7 DEF p, g

-----------------------------------------------------------------------------
(***************************************************************************)
(* How the meaning of an event grows with its lines.                       *)
(***************************************************************************)
\* Of some places, something is chosen.
LEMMA ChosenSome ==
  ASSUME NEW E, NEW s \in Seq(E), NEW S, NEW i \in 1..Len(s), i \in S
  PROVE  Chosen(s, S) # <<>>
<1>1. PICK f : Collects(f, s, S) /\ Chosen(s, S) = f[Len(s)]
  BY ChosenCollects
<1> DEFINE T == {k \in 0..Len(s) : f[k] \in Seq(E) /\ (i <= k => f[k] # <<>>)}
<1>2. 0 \in T
  <2>1. f[0] \in Seq(E) /\ ~(i <= 0)
    BY <1>1, EmptySeq DEF Collects
  <2> QED
    BY <2>1
<1>3. ASSUME NEW k \in 0..(Len(s) - 1), k \in T PROVE k + 1 \in T
  <2>1. k + 1 \in 1..Len(s) /\ (k + 1) - 1 = k /\ s[k + 1] \in E
    OBVIOUS
  <2>2. f[k + 1] = IF k + 1 \in S THEN Append(f[k], s[k + 1]) ELSE f[k]
    BY <1>1, <2>1 DEF Collects
  <2>3. f[k] \in Seq(E) /\ (i <= k => f[k] # <<>>)
    BY <1>3
  <2>4. f[k + 1] \in Seq(E)
    BY <2>1, <2>2, <2>3, AppendProperties
  <2>5. ASSUME i <= k + 1 PROVE f[k + 1] # <<>>
    <3>1. CASE k + 1 \in S
      <4>1. Append(f[k], s[k + 1]) # <<>>
        BY <2>1, <2>3, AppendProperties
      <4> QED
        BY <2>2, <3>1, <4>1
    <3>2. CASE k + 1 \notin S
      <4>1. i <= k
        BY <2>1, <2>5, <3>2
      <4> QED
        BY <2>2, <2>3, <3>2, <4>1
    <3> QED
      BY <3>1, <3>2
  <2> QED
    BY <2>1, <2>4, <2>5
<1> HIDE DEF T
<1>4. \A k \in 0..Len(s) : k \in T
  <2> DEFINE n == Len(s)
  <2>1. n \in Nat /\ \A k \in 0..(n - 1) : k \in T => k + 1 \in T
    BY <1>3
  <2> HIDE DEF n
  <2>2. \A k \in 0..n : k \in T
    BY <1>2, <2>1, InductTo
  <2> QED
    BY <2>2 DEF n
<1>5. Len(s) \in 0..Len(s) /\ i <= Len(s)
  OBVIOUS
<1> QED
  BY <1>1, <1>4, <1>5 DEF T

\* The places of the lines that carry a field, with one more line.
LEMMA PlacesGrow ==
  ASSUME NEW g \in Groups, NEW l \in Contents, NEW S
  PROVE  /\ Places(g, S) \subseteq 1..Len(g)
         /\ Places(Append(g, l), S)
              = IF l \in S THEN Places(g, S) \cup {Len(g) + 1} ELSE Places(g, S)
<1> DEFINE t == Append(g, l)
           n == Len(g)
<1>1. n \in Nat /\ Len(t) = n + 1 /\ t[n + 1] = l /\ \A i \in 1..n : t[i] = g[i]
  BY DEF Groups
<1> HIDE DEF t
<1>2. \A j : j \in Places(t, S) <=> j \in 1..(n + 1) /\ t[j] \in S
  BY <1>1 DEF Places
<1>3. \A j : j \in Places(g, S) <=> j \in 1..n /\ g[j] \in S
  BY DEF Places
<1>4. \A j : j \in 1..(n + 1) <=> j \in 1..n \/ j = n + 1
  BY <1>1
<1>5. \A j : j \in Places(t, S) <=> j \in Places(g, S) \/ (j = n + 1 /\ l \in S)
  BY <1>1, <1>2, <1>3, <1>4
<1>6. Places(t, S) = IF l \in S THEN Places(g, S) \cup {n + 1} ELSE Places(g, S)
  BY <1>5
<1> QED
  BY <1>3, <1>6 DEF t

\* The last and the first of some places exist.
LEMMA LastPlace ==
  ASSUME NEW n \in Nat, NEW P, P \subseteq 1..n, P # {}
  PROVE  \E j \in P : \A i \in P : i <= j
<1> DEFINE T == {n - j : j \in P}
<1>1. T \subseteq Nat /\ T # {}
  OBVIOUS
<1>2. PICK x \in T : \A y \in T : x <= y
  <2> HIDE DEF T
  <2> QED
    BY <1>1, LeastIndex
<1>3. PICK j \in P : x = n - j
  OBVIOUS
<1>4. ASSUME NEW i \in P PROVE i <= j
  <2>1. n - i \in T /\ i \in Nat /\ j \in Nat
    OBVIOUS
  <2>2. n - j <= n - i
    BY <1>2, <1>3, <2>1
  <2> QED
    BY <2>1, <2>2
<1> QED
  BY <1>4

\* The last of them.
LEMMA LastOfGrow ==
  ASSUME NEW g \in Groups, NEW l \in Contents, NEW S
  PROVE  LastOf(Append(g, l), S) = IF l \in S THEN l ELSE LastOf(g, S)
<1> DEFINE t == Append(g, l)
           n == Len(g)
           P == Places(g, S)
           Q == Places(t, S)
           Last(R) == CHOOSE j \in R : \A i \in R : i <= j
<1>1. n \in Nat /\ Len(t) = n + 1 /\ t[n + 1] = l /\ \A i \in 1..n : t[i] = g[i]
  BY DEF Groups
<1>2. P \subseteq 1..n /\ Q = IF l \in S THEN P \cup {n + 1} ELSE P
  BY PlacesGrow
<1>3. LastOf(t, S) = IF Q = {} THEN None ELSE t[Last(Q)]
  BY DEF LastOf
<1>4. LastOf(g, S) = IF P = {} THEN None ELSE g[Last(P)]
  BY DEF LastOf
<1> HIDE DEF t, P, Q
<1>5. CASE l \in S
  <2>1. n + 1 \in Q /\ \A i \in Q : i <= n + 1 /\ i \in Nat
    BY <1>1, <1>2, <1>5
  <2>2. Last(Q) \in Q /\ \A i \in Q : i <= Last(Q)
    BY <2>1
  <2> HIDE DEF Last
  <2>3. Last(Q) = n + 1
    BY <1>1, <2>1, <2>2
  <2> QED
    BY <1>1, <1>3, <1>5, <2>1, <2>3 DEF t
<1>6. CASE l \notin S
  <2>1. Q = P
    BY <1>2, <1>6
  <2>2. CASE P = {}
    BY <1>3, <1>4, <1>6, <2>1, <2>2 DEF t
  <2>3. CASE P # {}
    <3>1. \E j \in P : \A i \in P : i <= j
      BY <1>1, <1>2, <2>3, LastPlace
    <3>2. Last(P) \in P
      BY <3>1
    <3> HIDE DEF Last
    <3>3. t[Last(P)] = g[Last(P)]
      BY <1>1, <1>2, <3>2
    <3> QED
      BY <1>3, <1>4, <1>6, <2>1, <2>3, <3>3 DEF t
  <2> QED
    BY <2>2, <2>3
<1> QED
  BY <1>5, <1>6

\* A data line carries no other field.
LEMMA DataMetaKept ==
  ASSUME NEW g \in Groups, NEW l \in DataLines
  PROVE  MetaOf(Append(g, l)) = MetaOf(g) /\ l \in Contents /\ l \notin OtherLines
<1>1. /\ l \in Contents /\ l \notin NameLines /\ l \notin IdLines
      /\ l \notin RetryLines /\ l \notin OtherLines
  BY SseAssumption DEF Contents
<1> QED
  BY <1>1, LastOfGrow DEF MetaOf

\* The event that has no lines yet.
LEMMA EmptyGroup ==
  /\ <<>> \in Groups /\ MetaOf(<<>>) = NoMeta /\ ~HasData(<<>>) /\ ~IsEvent(<<>>)
  /\ DataOf(<<>>) = <<>> /\ BeforeData(<<>>) = <<>>
<1> DEFINE g == <<>>
<1>1. g \in Groups /\ Len(g) = 0
  BY DEF Groups
<1>2. \A S : Places(g, S) = {}
  BY <1>1 DEF Places
<1> HIDE DEF g
<1>3. MetaOf(g) = NoMeta
  BY <1>2 DEF MetaOf, LastOf, NoMeta
<1>4. ~HasData(g) /\ BeforeData(g) = g
  BY <1>2 DEF HasData, BeforeData
<1>5. ~IsEvent(g)
  BY <1>1 DEF IsEvent
<1>6. DataOf(g) = <<>>
  <2>1. Chosen(g, Places(g, DataLines)) = <<>>
    BY <1>1, <1>2, ChosenNone DEF Groups
  <2>2. DataOf(g) = [j \in 1..0 |-> IF j % 2 = 1 THEN <<>>[(j + 1) \div 2] ELSE "newline"]
    BY <2>1 DEF DataOf
  <2>3. DataOf(g) \in [1..0 -> {}] /\ 0 \in Nat
    BY <2>2
  <2>4. DataOf(g) \in Seq({}) /\ Len(DataOf(g)) = 0
    BY <2>3
  <2> QED
    BY <2>4, EmptySeq
<1> QED
  BY <1>1, <1>3, <1>4, <1>5, <1>6 DEF g

LEMMA HasDataGrow ==
  ASSUME NEW g \in Groups, NEW l \in Contents
  PROVE  HasData(Append(g, l)) <=> HasData(g) \/ l \in DataLines
BY PlacesGrow DEF HasData

LEMMA IsEventGrow ==
  ASSUME NEW g \in Groups, NEW l \in Contents
  PROVE  IsEvent(Append(g, l)) <=> IsEvent(g) \/ l \notin OtherLines
<1> DEFINE t == Append(g, l)
           n == Len(g)
<1>1. n \in Nat /\ Len(t) = n + 1 /\ t[n + 1] = l /\ \A i \in 1..n : t[i] = g[i]
  BY DEF Groups
<1> HIDE DEF t
<1>2. \A j : j \in 1..(n + 1) <=> j \in 1..n \/ j = n + 1
  BY <1>1
<1>3. IsEvent(t) <=> \E j \in 1..(n + 1) : t[j] \notin OtherLines
  BY <1>1 DEF IsEvent
<1>4. IsEvent(g) <=> \E j \in 1..n : g[j] \notin OtherLines
  BY DEF IsEvent
<1> QED
  BY <1>1, <1>2, <1>3, <1>4 DEF t

\* The lines before the data are settled by the first data line.
LEMMA BeforeDataGrow ==
  ASSUME NEW g \in Groups, NEW l \in Contents
  PROVE  /\ BeforeData(Append(g, l)) = IF HasData(g) THEN BeforeData(g)
                                       ELSE IF l \in DataLines THEN g ELSE Append(g, l)
         /\ ~HasData(g) => BeforeData(g) = g
<1> DEFINE t == Append(g, l)
           n == Len(g)
           P == Places(g, DataLines)
           Q == Places(t, DataLines)
           First(R) == CHOOSE j \in R : \A i \in R : j <= i
<1>1. /\ n \in Nat /\ t \in Groups /\ Len(t) = n + 1 /\ t[n + 1] = l /\ \A i \in 1..n : t[i] = g[i]
      /\ \A i \in 1..n : g[i] \in Contents
  BY DEF Groups
<1>2. P \subseteq 1..n /\ Q = IF l \in DataLines THEN P \cup {n + 1} ELSE P
  BY PlacesGrow
<1>3. BeforeData(t) = IF Q # {} THEN SubSeq(t, 1, First(Q) - 1) ELSE t
  BY DEF BeforeData, HasData, FirstData
<1>4. BeforeData(g) = IF P # {} THEN SubSeq(g, 1, First(P) - 1) ELSE g
  BY DEF BeforeData, HasData, FirstData
<1>5. HasData(g) <=> P # {}
  BY DEF HasData
<1> HIDE DEF t, P, Q
<1>6. CASE P # {}
  <2>1. \E j \in P : \A i \in P : j <= i
    <3>1. P \subseteq Nat
      BY <1>1, <1>2
    <3> QED
      BY <1>6, <3>1, LeastIndex
  <2> DEFINE x == First(P)
             y == First(Q)
  <2>2. x \in P /\ \A i \in P : x <= i
    BY <2>1
  <2>3. P \subseteq Q /\ \A i \in Q : i \in P \/ i = n + 1
    BY <1>2
  <2>4. \A z \in P : z \in 1..n
    BY <1>2
  <2> HIDE DEF x
  <2>x. x \in Q /\ x \in 1..n /\ \A i \in Q : x <= i
    BY <1>1, <2>2, <2>3, <2>4
  <2>y. y \in Q /\ \A i \in Q : y <= i
    BY <2>x
  <2> HIDE DEF y
  <2>5. x = y
    <3>1. y \in 1..(n + 1) /\ x <= y /\ y <= x
      BY <1>1, <2>2, <2>3, <2>4, <2>x, <2>y
    <3> QED
      BY <1>1, <2>x, <3>1
  <2> DEFINE m == x - 1
  <2>6. m \in 0..n
    BY <1>1, <2>x
  <2> HIDE DEF m
  <2>7. SubSeq(t, 1, m) = SubSeq(g, 1, m)
    <3> DEFINE a == SubSeq(t, 1, m)
               b == SubSeq(g, 1, m)
    <3>1. \A i \in 1..m : t[i] = g[i] /\ t[i] \in Contents /\ g[i] \in Contents
      BY <1>1, <2>6
    <3>2. m \in Int /\ 1 \in Int /\ (m - 1) + 1 = m
      BY <2>6
    <3>3. a \in Seq(Contents) /\ Len(a) = (IF 1 <= m THEN m - 1 + 1 ELSE 0)
          /\ \A i \in 1..(m - 1 + 1) : a[i] = t[1 + i - 1]
      BY <3>1, <3>2, SubSeqProperties
    <3>4. b \in Seq(Contents) /\ Len(b) = (IF 1 <= m THEN m - 1 + 1 ELSE 0)
          /\ \A i \in 1..(m - 1 + 1) : b[i] = g[1 + i - 1]
      BY <3>1, <3>2, SubSeqProperties
    <3> HIDE DEF a, b
    <3>5. Len(a) = m /\ Len(b) = m
      BY <2>6, <3>3, <3>4
    <3>6. \A i \in 1..m : a[i] = b[i]
      <4>1. \A i \in 1..m : 1 + i - 1 = i /\ i \in 1..(m - 1 + 1)
        BY <2>6
      <4> QED
        BY <3>1, <3>3, <3>4, <4>1
    <3>7. a = b
      BY <3>3, <3>4, <3>5, <3>6, SeqEqual
    <3> QED
      BY <3>7 DEF a, b
  <2>8. Q # {}
    BY <2>x
  <2>9. BeforeData(t) = BeforeData(g)
    BY <1>3, <1>4, <1>6, <2>5, <2>7, <2>8 DEF m, x, y
  <2> QED
    BY <1>5, <1>6, <2>9 DEF t
<1>7. CASE P = {} /\ l \in DataLines
  <2>1. Q = {n + 1}
    BY <1>2, <1>7
  <2>2. First(Q) = n + 1
    BY <1>1, <2>1
  <2>3. SubSeq(t, 1, n) = g
    <3> DEFINE a == SubSeq(t, 1, n)
    <3>1. \A i \in 1..n : t[i] \in Contents
      BY <1>1
    <3>2. n \in Int /\ 1 \in Int
      BY <1>1
    <3>3. a \in Seq(Contents) /\ Len(a) = (IF 1 <= n THEN n - 1 + 1 ELSE 0)
          /\ \A i \in 1..(n - 1 + 1) : a[i] = t[1 + i - 1]
      BY <3>1, <3>2, SubSeqProperties
    <3> HIDE DEF a
    <3>4. Len(a) = n
      BY <1>1, <3>3
    <3>5. \A i \in 1..n : a[i] = g[i]
      <4>1. \A i \in 1..n : 1 + i - 1 = i /\ i \in 1..(n - 1 + 1)
        BY <1>1
      <4> QED
        BY <1>1, <3>3, <4>1
    <3>6. a = g
      BY <3>3, <3>4, <3>5, SeqEqual DEF Groups
    <3> QED
      BY <3>6 DEF a
  <2>4. (n + 1) - 1 = n /\ Q # {}
    BY <1>1, <2>1
  <2>5. BeforeData(t) = g
    <3> HIDE DEF First
    <3> QED
      BY <1>3, <2>2, <2>3, <2>4
  <2> QED
    BY <1>4, <1>5, <1>7, <2>5 DEF t
<1>8. CASE P = {} /\ l \notin DataLines
  <2>1. Q = {}
    BY <1>2, <1>8
  <2> QED
    BY <1>3, <1>4, <1>5, <1>8, <2>1 DEF t
<1> QED
  BY <1>6, <1>7, <1>8

\* The bytes of data.
Marks == Contents \cup {"newline"}

\* The odd places hold lines, the even ones newlines.
LEMMA Halves ==
  /\ \A n \in Nat : \A j \in 1..(2 * n) : j % 2 = 1 => (j + 1) \div 2 \in 1..n
  /\ \A n \in Nat : (2 * n) % 2 # 1 /\ (2 * n + 1) % 2 = 1 /\ ((2 * n + 1) + 1) \div 2 = n + 1
<1>1. \A n \in Nat : \A j \in 1..(2 * n) : j % 2 = 1 => (j + 1) \div 2 \in 1..n
  OBVIOUS
<1>2. \A n \in Nat : (2 * n) % 2 # 1 /\ (2 * n + 1) % 2 = 1 /\ ((2 * n + 1) + 1) \div 2 = n + 1
  OBVIOUS
<1> QED
  BY <1>1, <1>2

\* Data lines joined by newlines, as DataOf joins them.
Joining(d) ==
  [j \in 1..(IF d = <<>> THEN 0 ELSE 2 * Len(d) - 1) |->
     IF j % 2 = 1 THEN d[(j + 1) \div 2] ELSE "newline"]

LEMMA JoiningType ==
  ASSUME NEW d \in Seq(Contents)
  PROVE  /\ Joining(d) \in Seq(Marks)
         /\ Len(Joining(d)) = IF d = <<>> THEN 0 ELSE 2 * Len(d) - 1
<1> DEFINE n == Len(d)
           m == IF d = <<>> THEN 0 ELSE 2 * n - 1
<1>1. n \in Nat /\ (d # <<>> => n > 0) /\ \A i \in 1..n : d[i] \in Contents
  BY EmptySeq
<1>2. m \in Nat /\ m <= 2 * n
  BY <1>1
<1> HIDE DEF n, m
<1>3. ASSUME NEW j \in 1..m
      PROVE  (IF j % 2 = 1 THEN d[(j + 1) \div 2] ELSE "newline") \in Marks
  <2>1. CASE j % 2 = 1
    <3>1. j \in 1..(2 * n)
      BY <1>1, <1>2
    <3>2. (j + 1) \div 2 \in 1..n
      BY <1>1, <2>1, <3>1, Halves
    <3> QED
      BY <1>1, <2>1, <3>2 DEF Marks
  <2>2. CASE j % 2 # 1
    BY <2>2 DEF Marks
  <2> QED
    BY <2>1, <2>2
<1>4. Joining(d) = [j \in 1..m |-> IF j % 2 = 1 THEN d[(j + 1) \div 2] ELSE "newline"]
  BY DEF Joining, m, n
<1>5. Joining(d) \in [1..m -> Marks]
  BY <1>3, <1>4
<1>6. Joining(d) \in Seq(Marks) /\ Len(Joining(d)) = m
  BY <1>2, <1>5
<1> QED
  BY <1>6 DEF m, n

\* One more data line follows a newline, but for the first.
LEMMA JoiningGrow ==
  ASSUME NEW d \in Seq(Contents), NEW l \in Contents
  PROVE  Joining(Append(d, l))
           = Joining(d) \o (IF d = <<>> THEN <<>> ELSE <<"newline">>) \o <<l>>
<1> DEFINE e == Append(d, l)
           n == Len(d)
           w == Joining(d)
           v == Joining(e)
<1>1. /\ n \in Nat /\ (d # <<>> => n > 0) /\ (d = <<>> => n = 0)
      /\ e \in Seq(Contents) /\ e # <<>> /\ Len(e) = n + 1 /\ e[n + 1] = l
      /\ \A i \in 1..n : e[i] = d[i]
  BY EmptySeq, AppendProperties
<1>2. /\ w \in Seq(Marks) /\ Len(w) = IF d = <<>> THEN 0 ELSE 2 * n - 1
  BY JoiningType
<1>3. /\ v \in Seq(Marks) /\ Len(v) = 2 * (n + 1) - 1
  BY <1>1, JoiningType
<1>4. \A j \in 1..Len(w) : w[j] = IF j % 2 = 1 THEN d[(j + 1) \div 2] ELSE "newline"
  <2>1. Len(w) = IF d = <<>> THEN 0 ELSE 2 * Len(d) - 1
    BY <1>2
  <2> QED
    BY <2>1 DEF Joining
<1>5. \A j \in 1..Len(v) : v[j] = IF j % 2 = 1 THEN e[(j + 1) \div 2] ELSE "newline"
  <2>1. Len(v) = IF e = <<>> THEN 0 ELSE 2 * Len(e) - 1
    BY <1>1, <1>3
  <2> HIDE DEF e
  <2> QED
    BY <2>1 DEF Joining
<1> HIDE DEF e, w, v, n
<1> DEFINE a == IF d = <<>> THEN <<>> ELSE <<"newline">>
           b == <<l>>
           r == w \o a
           q == r \o b
<1>6. a \in Seq(Marks) /\ Len(a) = (IF d = <<>> THEN 0 ELSE 1) /\ (d # <<>> => a[1] = "newline")
  <2>1. CASE d = <<>>
    BY <2>1, EmptySeq
  <2>2. CASE d # <<>>
    <3>1. <<"newline">> \in Seq(Marks) /\ Len(<<"newline">>) = 1 /\ <<"newline">>[1] = "newline"
      BY DEF Marks
    <3> QED
      BY <2>2, <3>1
  <2> QED
    BY <2>1, <2>2
<1>7. b \in Seq(Marks) /\ Len(b) = 1 /\ b[1] = l
  BY DEF Marks
<1> HIDE DEF a, b
<1>8. /\ r \in Seq(Marks) /\ Len(r) = Len(w) + Len(a)
      /\ \A i \in 1..(Len(w) + Len(a)) : r[i] = IF i <= Len(w) THEN w[i] ELSE a[i - Len(w)]
  BY <1>2, <1>6, ConcatProperties
<1> HIDE DEF r
<1>r. r \in Seq(Marks) /\ b \in Seq(Marks)
  BY <1>7, <1>8
<1>9. /\ q \in Seq(Marks) /\ Len(q) = Len(r) + Len(b)
      /\ \A i \in 1..(Len(r) + Len(b)) : q[i] = IF i <= Len(r) THEN r[i] ELSE b[i - Len(r)]
  BY <1>r, ConcatProperties
<1> HIDE DEF q
<1>10. Len(r) = 2 * n /\ Len(q) = 2 * n + 1 /\ Len(v) = 2 * n + 1
  BY <1>1, <1>2, <1>3, <1>6, <1>7, <1>8, <1>9
<1>11. ASSUME NEW j \in 1..(2 * n + 1) PROVE q[j] = v[j]
  <2>1. CASE j = 2 * n + 1
    <3>1. q[j] = b[1]
      BY <1>1, <1>7, <1>9, <1>10, <2>1
    <3>2. v[j] = e[n + 1]
      BY <1>1, <1>5, <1>10, <2>1, Halves
    <3> QED
      BY <1>1, <1>7, <3>1, <3>2
  <2>2. CASE j # 2 * n + 1 /\ j = 2 * n
    <3>1. d # <<>> /\ Len(w) = 2 * n - 1 /\ Len(a) = 1
      BY <1>1, <1>2, <1>6, <2>2
    <3>2. q[j] = a[1]
      BY <1>1, <1>7, <1>8, <1>9, <1>10, <2>2, <3>1
    <3>3. v[j] = "newline"
      BY <1>1, <1>5, <1>10, <2>2, Halves
    <3> QED
      BY <1>6, <3>1, <3>2, <3>3
  <2>3. CASE j # 2 * n + 1 /\ j # 2 * n
    <3>1. d # <<>> /\ Len(w) = 2 * n - 1 /\ j \in 1..Len(w) /\ j \in 1..(2 * n) /\ j <= Len(w)
      BY <1>1, <1>2, <2>3
    <3>2. q[j] = w[j]
      BY <1>1, <1>6, <1>7, <1>8, <1>9, <1>10, <3>1
    <3>3. j % 2 = 1 => (j + 1) \div 2 \in 1..n
      BY <1>1, <3>1, Halves
    <3>4. v[j] = IF j % 2 = 1 THEN e[(j + 1) \div 2] ELSE "newline"
      BY <1>1, <1>5, <1>10
    <3>5. w[j] = IF j % 2 = 1 THEN d[(j + 1) \div 2] ELSE "newline"
      BY <1>4, <3>1
    <3> QED
      BY <1>1, <3>2, <3>3, <3>4, <3>5
  <2> QED
    BY <2>1, <2>2, <2>3
<1>12. q = v
  BY <1>3, <1>9, <1>10, <1>11, SeqEqual
<1> QED
  BY <1>12 DEF q, r, a, b, v, w, e

\* The data of an event with one more line.
LEMMA DataGrow ==
  ASSUME NEW g \in Groups, NEW l \in Contents
  PROVE  /\ DataOf(g) \in Seq(Marks)
         /\ l \notin DataLines => DataOf(Append(g, l)) = DataOf(g)
         /\ l \in DataLines =>
              DataOf(Append(g, l))
                = DataOf(g) \o (IF HasData(g) THEN <<"newline">> ELSE <<>>) \o <<l>>
<1> DEFINE t == Append(g, l)
           P == Places(g, DataLines)
           Q == Places(t, DataLines)
           d == Chosen(g, P)
           e == Chosen(t, Q)
<1>1. g \in Seq(Contents) /\ Len(g) \in Nat
  BY DEF Groups
<1>2. P \subseteq 1..Len(g) /\ Q = IF l \in DataLines THEN P \cup {Len(g) + 1} ELSE P
  BY PlacesGrow
<1>3. DataOf(g) = Joining(d) /\ DataOf(t) = Joining(e)
  BY DEF DataOf, Joining
<1>4. HasData(g) <=> P # {}
  BY DEF HasData
<1> HIDE DEF P, Q
<1>5. \A i \in 1..Len(g) : i \in Q <=> i \in P
  BY <1>1, <1>2
<1>6. e = IF Len(g) + 1 \in Q THEN Append(d, l) ELSE d
  BY <1>1, <1>5, ChosenAppend
<1>7. Len(g) + 1 \in Q <=> l \in DataLines
  BY <1>1, <1>2
<1>8. d \in Seq(Contents)
  BY <1>1, ChosenType
<1>9. d = <<>> <=> ~HasData(g)
  <2>1. CASE P = {}
    BY <1>1, <1>4, <2>1, ChosenNone
  <2>2. CASE P # {}
    <3>1. PICK i \in P : TRUE
      BY <2>2
    <3>2. i \in 1..Len(g)
      BY <1>2
    <3>3. d # <<>>
      BY <1>1, <3>2, ChosenSome
    <3> QED
      BY <1>4, <2>2, <3>3
  <2> QED
    BY <2>1, <2>2
<1> HIDE DEF d, e
<1>10. DataOf(g) \in Seq(Marks)
  BY <1>3, <1>8, JoiningType
<1>11. ASSUME l \notin DataLines PROVE DataOf(t) = DataOf(g)
  BY <1>3, <1>6, <1>7, <1>11
<1>12. ASSUME l \in DataLines
       PROVE  DataOf(t) = DataOf(g) \o (IF HasData(g) THEN <<"newline">> ELSE <<>>) \o <<l>>
  <2>1. DataOf(t) = Joining(Append(d, l))
    BY <1>3, <1>6, <1>7, <1>12
  <2>2. Joining(Append(d, l)) = Joining(d) \o (IF d = <<>> THEN <<>> ELSE <<"newline">>) \o <<l>>
    BY <1>8, JoiningGrow
  <2>3. (IF d = <<>> THEN <<>> ELSE <<"newline">>) = (IF HasData(g) THEN <<"newline">> ELSE <<>>)
    BY <1>9
  <2> QED
    BY <1>3, <2>1, <2>2, <2>3
<1> QED
  BY <1>10, <1>11, <1>12

-----------------------------------------------------------------------------
\* The events the callbacks are told of, and the JSON callback.
PlainLog == {PlainEvent(g) : g \in Groups}
JsonLog == {JsonEvent(g) : g \in Groups}

\* One more event is told of if it is one.
LEMMA PlainEventsGrow ==
  ASSUME NEW p \in Seq(Groups), NEW g \in Groups
  PROVE  /\ PlainEvents(p) \in Seq(PlainLog)
         /\ PlainEvents(Append(p, g)) = IF IsEvent(g) THEN Append(PlainEvents(p), PlainEvent(g))
                                                      ELSE PlainEvents(p)
<1> DEFINE t == Append(p, g)
           n == Len(p)
           P == {k \in 1..Len(p) : IsEvent(p[k])}
           Q == {k \in 1..Len(t) : IsEvent(t[k])}
           c == Chosen(p, P)
           e == Chosen(t, Q)
           Map(x) == [k \in 1..Len(x) |-> PlainEvent(x[k])]
<1>1. /\ n \in Nat /\ t \in Seq(Groups) /\ Len(t) = n + 1 /\ t[n + 1] = g
      /\ \A i \in 1..n : t[i] = p[i]
  OBVIOUS
<1>2. PlainEvents(p) = Map(c) /\ PlainEvents(t) = Map(e)
  BY DEF PlainEvents
<1>3. (\A i \in 1..n : i \in Q <=> i \in P) /\ (n + 1 \in Q <=> IsEvent(g))
  <2> HIDE DEF t
  <2> QED
    BY <1>1
<1> HIDE DEF P, Q
<1>4. c \in Seq(Groups) /\ e = IF n + 1 \in Q THEN Append(c, g) ELSE c
  BY <1>3, ChosenType, ChosenAppend
<1> HIDE DEF c, e
<1>5. ASSUME NEW x \in Seq(Groups) PROVE Map(x) \in Seq(PlainLog) /\ Len(Map(x)) = Len(x)
  <2>1. \A k \in 1..Len(x) : PlainEvent(x[k]) \in PlainLog
    BY DEF PlainLog
  <2>2. Map(x) \in [1..Len(x) -> PlainLog] /\ Len(x) \in Nat
    BY <2>1
  <2> HIDE DEF Map
  <2> QED
    BY <2>2
<1>6. ASSUME IsEvent(g) PROVE Map(e) = Append(Map(c), PlainEvent(g))
  <2> DEFINE a == Append(c, g)
             u == Map(c)
             v == Map(a)
             w == Append(u, PlainEvent(g))
  <2>1. /\ a \in Seq(Groups) /\ Len(a) = Len(c) + 1 /\ a[Len(c) + 1] = g
        /\ \A i \in 1..Len(c) : a[i] = c[i]
    BY <1>4
  <2> HIDE DEF a
  <2>2. u \in Seq(PlainLog) /\ Len(u) = Len(c) /\ v \in Seq(PlainLog) /\ Len(v) = Len(c) + 1
    BY <1>4, <1>5, <2>1
  <2>3. \A i \in 1..Len(c) : u[i] = PlainEvent(c[i])
    OBVIOUS
  <2>4. \A i \in 1..(Len(c) + 1) : v[i] = PlainEvent(a[i])
    BY <2>1
  <2> HIDE DEF u, v, Map
  <2>5. PlainEvent(g) \in PlainLog
    BY DEF PlainLog
  <2>6. /\ w \in Seq(PlainLog) /\ Len(w) = Len(c) + 1 /\ w[Len(c) + 1] = PlainEvent(g)
        /\ \A i \in 1..Len(c) : w[i] = u[i]
    BY <2>2, <2>5, AppendProperties
  <2> HIDE DEF w
  <2>7. Len(c) \in Nat
    BY <1>4
  <2>8. \A i \in 1..(Len(c) + 1) : w[i] = v[i]
    BY <2>1, <2>3, <2>4, <2>6, <2>7
  <2>9. w = v
    BY <2>2, <2>6, <2>8, SeqEqual
  <2> QED
    BY <1>3, <1>4, <1>6, <2>9 DEF w, v, u, a
<1>7. ASSUME ~IsEvent(g) PROVE Map(e) = Map(c)
  BY <1>3, <1>4, <1>7
<1>8. Map(c) \in Seq(PlainLog)
  BY <1>4, <1>5
<1> HIDE DEF Map
<1> QED
  BY <1>2, <1>6, <1>7, <1>8

\* The JSON callback is to get these.
Wanted(g) == HasData(g) /\ Matching(g)

\* One more event is passed on if it is wanted.
LEMMA JsonEventsGrow ==
  ASSUME NEW p \in Seq(Groups), NEW g \in Groups
  PROVE  /\ JsonEvents(p) \in Seq(JsonLog)
         /\ JsonEvents(Append(p, g)) = IF Wanted(g) THEN Append(JsonEvents(p), JsonEvent(g))
                                                      ELSE JsonEvents(p)
<1> DEFINE t == Append(p, g)
           n == Len(p)
           P == {k \in 1..Len(p) : Wanted(p[k])}
           Q == {k \in 1..Len(t) : Wanted(t[k])}
           c == Chosen(p, P)
           e == Chosen(t, Q)
           Map(x) == [k \in 1..Len(x) |-> JsonEvent(x[k])]
<1>1. /\ n \in Nat /\ t \in Seq(Groups) /\ Len(t) = n + 1 /\ t[n + 1] = g
      /\ \A i \in 1..n : t[i] = p[i]
  OBVIOUS
<1>2. JsonEvents(p) = Map(c) /\ JsonEvents(t) = Map(e)
  BY DEF JsonEvents, Wanted
<1>3. (\A i \in 1..n : i \in Q <=> i \in P) /\ (n + 1 \in Q <=> Wanted(g))
  <2> HIDE DEF t
  <2> QED
    BY <1>1
<1> HIDE DEF P, Q
<1>4. c \in Seq(Groups) /\ e = IF n + 1 \in Q THEN Append(c, g) ELSE c
  BY <1>3, ChosenType, ChosenAppend
<1> HIDE DEF c, e
<1>5. ASSUME NEW x \in Seq(Groups) PROVE Map(x) \in Seq(JsonLog) /\ Len(Map(x)) = Len(x)
  <2>1. \A k \in 1..Len(x) : JsonEvent(x[k]) \in JsonLog
    BY DEF JsonLog
  <2>2. Map(x) \in [1..Len(x) -> JsonLog] /\ Len(x) \in Nat
    BY <2>1
  <2> HIDE DEF Map
  <2> QED
    BY <2>2
<1>6. ASSUME Wanted(g) PROVE Map(e) = Append(Map(c), JsonEvent(g))
  <2> DEFINE a == Append(c, g)
             u == Map(c)
             v == Map(a)
             w == Append(u, JsonEvent(g))
  <2>1. /\ a \in Seq(Groups) /\ Len(a) = Len(c) + 1 /\ a[Len(c) + 1] = g
        /\ \A i \in 1..Len(c) : a[i] = c[i]
    BY <1>4
  <2> HIDE DEF a
  <2>2. u \in Seq(JsonLog) /\ Len(u) = Len(c) /\ v \in Seq(JsonLog) /\ Len(v) = Len(c) + 1
    BY <1>4, <1>5, <2>1
  <2>3. \A i \in 1..Len(c) : u[i] = JsonEvent(c[i])
    OBVIOUS
  <2>4. \A i \in 1..(Len(c) + 1) : v[i] = JsonEvent(a[i])
    BY <2>1
  <2> HIDE DEF u, v, Map
  <2>5. JsonEvent(g) \in JsonLog
    BY DEF JsonLog
  <2>6. /\ w \in Seq(JsonLog) /\ Len(w) = Len(c) + 1 /\ w[Len(c) + 1] = JsonEvent(g)
        /\ \A i \in 1..Len(c) : w[i] = u[i]
    BY <2>2, <2>5, AppendProperties
  <2> HIDE DEF w
  <2>7. Len(c) \in Nat
    BY <1>4
  <2>8. \A i \in 1..(Len(c) + 1) : w[i] = v[i]
    BY <2>1, <2>3, <2>4, <2>6, <2>7
  <2>9. w = v
    BY <2>2, <2>6, <2>8, SeqEqual
  <2> QED
    BY <1>3, <1>4, <1>6, <2>9 DEF w, v, u, a
<1>7. ASSUME ~Wanted(g) PROVE Map(e) = Map(c)
  BY <1>3, <1>4, <1>7
<1>8. Map(c) \in Seq(JsonLog)
  BY <1>4, <1>5
<1> HIDE DEF Map
<1> QED
  BY <1>2, <1>6, <1>7, <1>8

LEMMA NoEvents == PlainEvents(<<>>) = <<>> /\ JsonEvents(<<>>) = <<>>
<1> DEFINE p == <<>>
           P == {k \in 1..Len(p) : IsEvent(p[k])}
           Q == {k \in 1..Len(p) : HasData(p[k]) /\ Matching(p[k])}
<1>1. p \in Seq(Groups) /\ Len(p) = 0
  OBVIOUS
<1>2. Chosen(p, P) = <<>> /\ Chosen(p, Q) = <<>>
  <2>1. \A i \in 1..Len(p) : i \notin P /\ i \notin Q
    BY <1>1
  <2> HIDE DEF P, Q
  <2> QED
    BY <1>1, <2>1, ChosenNone
<1>3. PlainEvents(p) \in [1..0 -> {}] /\ JsonEvents(p) \in [1..0 -> {}]
  <2> DEFINE c == Chosen(p, P)
             e == Chosen(p, Q)
  <2>1. /\ PlainEvents(p) = [k \in 1..Len(c) |-> PlainEvent(c[k])]
        /\ JsonEvents(p) = [k \in 1..Len(e) |-> JsonEvent(e[k])]
    BY DEF PlainEvents, JsonEvents
  <2>2. Len(c) = 0 /\ Len(e) = 0
    BY <1>2
  <2> HIDE DEF c, e, p
  <2> QED
    BY <2>1, <2>2
<1>4. \A f \in [1..0 -> {}] : f \in Seq({}) /\ Len(f) = 0
  OBVIOUS
<1> HIDE DEF p
<1>5. PlainEvents(p) = <<>> /\ JsonEvents(p) = <<>>
  BY <1>3, <1>4, EmptySeq
<1> QED
  BY <1>5 DEF p

-----------------------------------------------------------------------------
(***************************************************************************)
(* Destinations and limits.                                                *)
(***************************************************************************)
Pieces == DataLines \cup {"newline"}
States == {"empty", "partial", "decoded"}

TypeOK ==
  /\ clear \in BOOLEAN /\ seen \in BOOLEAN
  /\ fed \in Seq(Pieces) /\ len \in Nat
  /\ dst \in [Dests -> States]
  /\ parser \subseteq Args

\* The length is that of the data, and is checked before the data grows.
DataInv == Len(fed) = len /\ len <= MaxData

\* One event is decoded at a time, by the JSON calls, and only once it has
\* data.
ParserInv ==
  /\ \A a, b \in parser : a = b
  /\ parser # {} => seen /\ api = "json"

SseInv == TypeOK /\ DataInv /\ ParserInv /\ NoPartialResult

-----------------------------------------------------------------------------
\* The data after one more line.
LEMMA JoinedFacts ==
  ASSUME TypeOK, DataInv, ~TooLong, NEW data \in DataLines
  PROVE  /\ Len(Joined) \in Nat /\ len + Len(Joined) + 1 \in Nat
         /\ len + Len(Joined) + 1 <= MaxData
         /\ fed \o Joined \in Seq(Pieces) /\ Len(fed \o Joined) = len + Len(Joined)
         /\ fed \o Joined \o <<data>> \in Seq(Pieces)
         /\ Len(fed \o Joined \o <<data>>) = len + Len(Joined) + 1
         /\ seen => Len(Joined) = 1
<1> DEFINE j == Joined
           one == <<data>>
<1>1. j \in Seq(Pieces) /\ Len(j) \in Nat /\ (seen => Len(j) = 1)
  <2>1. <<"newline">> \in Seq(Pieces) /\ Len(<<"newline">>) = 1
    BY DEF Pieces
  <2>2. <<>> \in Seq(Pieces) /\ Len(<<>>) = 0
    OBVIOUS
  <2>3. CASE seen
    BY <2>1, <2>3 DEF Joined
  <2>4. CASE ~seen
    BY <2>2, <2>4 DEF Joined
  <2> QED
    BY <2>3, <2>4
<1>2. one \in Seq(Pieces) /\ Len(one) = 1
  BY DEF Pieces
<1>3. fed \in Seq(Pieces) /\ len \in Nat /\ Len(fed) = len /\ MaxData \in Nat
  BY SseAssumption DEF TypeOK, DataInv
<1>4. ~(len + Len(j) + 1 > MaxData)
  BY DEF TooLong
<1> HIDE DEF j, one
<1> DEFINE f == fed \o j
<1>5. f \in Seq(Pieces) /\ Len(f) = len + Len(j)
  BY <1>1, <1>3, ConcatProperties
<1> HIDE DEF f
<1>6. f \o one \in Seq(Pieces) /\ Len(f \o one) = Len(f) + Len(one)
  BY <1>2, <1>5, ConcatProperties
<1>7. Len(f \o one) = len + Len(j) + 1 /\ len + Len(j) + 1 \in Nat /\ len + Len(j) + 1 <= MaxData
  BY <1>1, <1>2, <1>3, <1>4, <1>5, <1>6
<1> QED
  BY <1>1, <1>5, <1>6, <1>7 DEF f, j, one

\* The destinations that may stay half-decoded when no event is in progress.
Excused(d) == (~clear /\ ~IsValue(d)) \/ d \in orphans

\* Beginning the parser leaves no destination half-decoded but its own.
LEMMA BegunFacts ==
  ASSUME TypeOK, NoPartialResult, NEW args \in Args, parser \in {{}, {args}}
  PROVE  /\ Begun(args) \in [Dests -> States]
         /\ \A d \in Dests : Begun(args)[d] = "partial" => args.dst = d \/ Excused(d)
<1> DEFINE c == Begun(args)
<1>1. ASSUME NEW d \in Dests
      PROVE  c[d] = IF parser # {} THEN dst[d] ELSE IF args.dst = d THEN "partial"
                    ELSE IF Retains(args) /\ d \in retained THEN "empty" ELSE dst[d]
  BY DEF Begun
<1>2. DOMAIN c = Dests /\ c = [d \in Dests |-> c[d]]
  BY DEF Begun
<1> HIDE DEF c
<1>3. ASSUME NEW d \in Dests PROVE c[d] \in States
  <2>1. dst[d] \in States
    BY DEF TypeOK
  <2> QED
    BY <1>1, <2>1 DEF States
<1>4. ASSUME NEW d \in Dests, c[d] = "partial", args.dst # d PROVE Excused(d)
  <2>1. dst[d] = "partial" /\ ~\E a \in parser : a.dst = d
    BY <1>1, <1>4
  <2> QED
    BY <2>1 DEF NoPartialResult, Excused
<1>5. c \in [Dests -> States]
  BY <1>2, <1>3
<1> QED
  BY <1>4, <1>5 DEF c

\* Emptying the destinations of p leaves no value or cleared map half-decoded.
LEMMA CleanedFacts ==
  ASSUME NEW p, NEW left \in {"partial", "decoded"}, NEW held \in [Dests -> States],
         \A d \in Dests : held[d] = "partial" => (\E a \in p : a.dst = d) \/ Excused(d)
  PROVE  /\ Cleaned(held, p, left) \in [Dests -> States]
         /\ \A d \in Dests : Cleaned(held, p, left)[d] = "partial" =>
              (~clear /\ ~IsValue(d)) \/ d \in orphans \ {a.dst : a \in p}
<1> DEFINE c == Cleaned(held, p, left)
<1>1. ASSUME NEW d \in Dests
      PROVE  /\ c[d] = IF \A a \in p : a.dst # d THEN held[d]
                       ELSE IF clear \/ IsValue(d) THEN "empty" ELSE left
  BY DEF Cleaned
<1>2. DOMAIN c = Dests /\ c = [d \in Dests |-> c[d]]
  BY DEF Cleaned
<1> HIDE DEF c
<1>3. ASSUME NEW d \in Dests PROVE c[d] \in States
  BY <1>1 DEF States
<1>4. ASSUME NEW d \in Dests, c[d] = "partial"
      PROVE  (~clear /\ ~IsValue(d)) \/ d \in orphans \ {a.dst : a \in p}
  <2>1. CASE \A a \in p : a.dst # d
    <3>1. held[d] = "partial"
      BY <1>1, <1>4, <2>1
    <3>2. Excused(d) /\ d \notin {a.dst : a \in p}
      BY <2>1, <3>1
    <3> QED
      BY <3>2 DEF Excused
  <2>2. CASE ~\A a \in p : a.dst # d
    BY <1>1, <1>4, <2>2
  <2> QED
    BY <2>1, <2>2
<1>5. c \in [Dests -> States]
  BY <1>2, <1>3
<1> QED
  BY <1>4, <1>5 DEF c

\* Any step that empties the event and leaves the destinations alone, or
\* decoded, keeps the invariant.
LEMMA ForgetsEvent ==
  ASSUME clear' \in BOOLEAN, seen' = FALSE, len' = 0, fed' = <<>>, parser' = {},
         dst' \in [Dests -> States],
         \A d \in Dests : dst'[d] = "partial" => (~clear' /\ ~IsValue(d)) \/ d \in orphans'
  PROVE  SseInv'
<1>1. TypeOK'
  <2>1. <<>> \in Seq(Pieces) /\ 0 \in Nat
    OBVIOUS
  <2> QED
    BY <2>1 DEF TypeOK
<1>2. DataInv'
  BY SseAssumption DEF DataInv
<1>3. ParserInv' /\ NoPartialResult'
  BY DEF ParserInv, NoPartialResult
<1> QED
  BY <1>1, <1>2, <1>3 DEF SseInv

LEMMA DropStep ==
  ASSUME SseInv, UNCHANGED configVars, NEW p, NEW left \in {"partial", "decoded"},
         NEW held \in [Dests -> States], JsonDrop(held, p, left),
         \A d \in Dests : held[d] = "partial" => (\E a \in p : a.dst = d) \/ Excused(d)
  PROVE  SseInv'
<1>1. clear' = clear /\ clear \in BOOLEAN /\ dst' = Cleaned(held, p, left)
      /\ orphans' = orphans \ {a.dst : a \in p}
  BY DEF SseInv, TypeOK, configVars, JsonDrop
<1>2. /\ Cleaned(held, p, left) \in [Dests -> States]
      /\ \A d \in Dests : Cleaned(held, p, left)[d] = "partial" =>
           (~clear /\ ~IsValue(d)) \/ d \in orphans \ {a.dst : a \in p}
  BY CleanedFacts
<1>3. seen' = FALSE /\ len' = 0 /\ fed' = <<>> /\ parser' = {}
  BY DEF JsonDrop, JsonReset
<1> QED
  BY <1>1, <1>2, <1>3, ForgetsEvent

\* Nothing the invariant is about changes.
LEMMA Idle ==
  ASSUME SseInv, UNCHANGED <<api, clear, seen, len, fed, parser, dst, orphans>>
  PROVE  SseInv'
<1>1. TypeOK'
  BY DEF SseInv, TypeOK
<1>2. DataInv' /\ ParserInv' /\ NoPartialResult'
  BY DEF SseInv, DataInv, ParserInv, NoPartialResult
<1> QED
  BY <1>1, <1>2 DEF SseInv

\* The data grows and the destinations stay.
LEMMA OnlyData ==
  ASSUME SseInv, UNCHANGED <<api, clear, parser, dst, orphans>>, seen' \in BOOLEAN, seen => seen',
         fed' \in Seq(Pieces), len' \in Nat, Len(fed') = len', len' <= MaxData
  PROVE  SseInv'
<1>1. TypeOK'
  BY DEF SseInv, TypeOK
<1>2. DataInv' /\ ParserInv' /\ NoPartialResult'
  BY DEF SseInv, DataInv, ParserInv, NoPartialResult
<1> QED
  BY <1>1, <1>2 DEF SseInv

LEMMA PlainDataStep ==
  ASSUME SseInv, UNCHANGED configVars, UNCHANGED jsonVars, NEW data \in DataLines, NEW fail,
         PlainData(data, fail)
  PROVE  SseInv'
<1>1. UNCHANGED <<api, clear, parser, dst, orphans>> /\ seen \in BOOLEAN /\ len \in Nat /\ MaxData \in Nat
  BY SseAssumption DEF configVars, jsonVars, destVars, SseInv, TypeOK
<1>2. CASE UNCHANGED <<seen, len, fed>>
  BY <1>1, <1>2, Idle
<1>3. CASE ~TooLong /\ seen /\ UNCHANGED seen /\ len' = len + 1 /\ fed' = fed \o Joined
  <2>1. /\ Len(Joined) = 1 /\ len + Len(Joined) + 1 <= MaxData
        /\ fed \o Joined \in Seq(Pieces) /\ Len(fed \o Joined) = len + Len(Joined)
    BY <1>3, JoinedFacts DEF SseInv
  <2>2. len' \in Nat /\ len' <= MaxData /\ Len(fed') = len' /\ fed' \in Seq(Pieces)
    BY <1>1, <1>3, <2>1
  <2> QED
    BY <1>1, <1>3, <2>2, OnlyData
<1>4. CASE /\ ~TooLong /\ fed' = fed \o Joined \o <<data>>
           /\ len' = len + Len(Joined) + 1 /\ seen' = TRUE
  <2>1. len' \in Nat /\ len' <= MaxData /\ Len(fed') = len' /\ fed' \in Seq(Pieces)
    BY <1>4, JoinedFacts DEF SseInv
  <2> QED
    BY <1>1, <1>4, <2>1, OnlyData
<1> QED
  BY <1>2, <1>3, <1>4 DEF PlainData

LEMMA PlainEmitStep ==
  ASSUME SseInv, UNCHANGED configVars, UNCHANGED jsonVars, api = "plain", NEW fail,
         PlainEmit(fail)
  PROVE  SseInv'
<1>1. UNCHANGED <<api, clear, parser, dst, orphans>>
  BY DEF configVars, jsonVars, destVars
<1>2. CASE UNCHANGED <<seen, len, fed>>
  BY <1>1, <1>2, Idle
<1>3. CASE ResetEvent
  <2>1. parser = {}
    BY DEF SseInv, ParserInv
  <2>2. /\ clear' \in BOOLEAN /\ seen' = FALSE /\ len' = 0 /\ fed' = <<>> /\ parser' = {}
        /\ dst' \in [Dests -> States]
    BY <1>1, <1>3, <2>1 DEF ResetEvent, SseInv, TypeOK
  <2>3. \A d \in Dests : dst'[d] = "partial" => (~clear' /\ ~IsValue(d)) \/ d \in orphans'
    BY <1>1, <2>1 DEF SseInv, NoPartialResult
  <2> QED
    BY <2>2, <2>3, ForgetsEvent
<1> QED
  BY <1>2, <1>3 DEF PlainEmit

LEMMA JsonDataStep ==
  ASSUME SseInv, UNCHANGED configVars, api = "json", NEW data \in DataLines, NEW args \in Args,
         NEW fail, JsonData(data, args, fail)
  PROVE  SseInv'
<1>1. UNCHANGED <<api, clear>>
  BY DEF configVars
<1>2. CASE UNCHANGED <<parser, destVars, fed, len, seen>>
  BY <1>1, <1>2, Idle DEF destVars
<1>b. ASSUME parser \in {{}, {args}}
      PROVE  /\ Begun(args) \in [Dests -> States]
             /\ \A d \in Dests : Begun(args)[d] = "partial" => args.dst = d \/ Excused(d)
  BY <1>b, BegunFacts DEF SseInv
<1>3. CASE parser \in {{}, {args}} /\ JsonDrop(Begun(args), {args}, "partial")
  <2>1. \A d \in Dests : Begun(args)[d] = "partial" => (\E a \in {args} : a.dst = d) \/ Excused(d)
    BY <1>b, <1>3
  <2> QED
    BY <1>b, <1>3, <2>1, DropStep
<1>4. CASE /\ ~TooLong /\ parser \in {{}, {args}} /\ parser' = {args} /\ dst' = Begun(args)
           /\ orphans' = orphans \ {args.dst}
           /\ fed' = fed \o Joined \o <<data>> /\ len' = len + Len(Joined) + 1
           /\ seen' = TRUE
  <2>1. len' \in Nat /\ len' <= MaxData /\ Len(fed') = len' /\ fed' \in Seq(Pieces)
    BY <1>4, JoinedFacts DEF SseInv
  <2>3. dst' \in [Dests -> States]
    BY <1>b, <1>4
  <2>4. TypeOK'
    BY <1>1, <1>4, <2>1, <2>3 DEF SseInv, TypeOK
  <2>5. DataInv' /\ ParserInv'
    BY <1>1, <1>4, <2>1 DEF DataInv, ParserInv
  <2>6. NoPartialResult'
    <3>1. SUFFICES ASSUME NEW d \in Dests, dst'[d] = "partial", args.dst # d
                   PROVE  (~clear' /\ ~IsValue(d)) \/ d \in orphans'
      BY <1>4 DEF NoPartialResult
    <3>2. Excused(d)
      BY <1>b, <1>4, <3>1
    <3> QED
      BY <1>1, <1>4, <3>1, <3>2 DEF Excused
  <2> QED
    BY <2>4, <2>5, <2>6 DEF SseInv
<1> QED
  BY <1>2, <1>3, <1>4 DEF JsonData

LEMMA JsonEmitStep ==
  ASSUME SseInv, UNCHANGED configVars, NEW args \in Args, NEW fail, JsonEmit(args, fail)
  PROVE  SseInv'
<1>1. UNCHANGED <<api, clear>> /\ clear \in BOOLEAN
  BY DEF configVars, SseInv, TypeOK
<1>2. CASE UNCHANGED <<jsonVars, seen, len, fed>>
  BY <1>1, <1>2, Idle DEF jsonVars, destVars
<1>3. CASE ~seen /\ JsonReset /\ UNCHANGED <<dst, orphans>>
  <2>1. parser = {}
    BY <1>3 DEF SseInv, ParserInv
  <2>2. /\ clear' \in BOOLEAN /\ seen' = FALSE /\ len' = 0 /\ fed' = <<>> /\ parser' = {}
        /\ dst' \in [Dests -> States]
    BY <1>1, <1>3 DEF JsonReset, SseInv, TypeOK
  <2>3. \A d \in Dests : dst'[d] = "partial" => (~clear' /\ ~IsValue(d)) \/ d \in orphans'
    BY <1>1, <1>3, <2>1 DEF SseInv, NoPartialResult
  <2> QED
    BY <2>2, <2>3, ForgetsEvent
<1>d. /\ dst \in [Dests -> States]
      /\ \A d \in Dests : dst[d] = "partial" => (\E a \in parser : a.dst = d) \/ Excused(d)
  BY DEF SseInv, TypeOK, NoPartialResult, Excused
<1>4. CASE JsonDrop(dst, parser, "partial")
  BY <1>d, <1>4, DropStep
<1>5. CASE JsonDrop(dst, parser, "decoded")
  BY <1>d, <1>5, DropStep
<1>6. CASE dst' = Decoded /\ JsonReset /\ UNCHANGED orphans
  <2>1. \A d \in Dests : dst'[d] = IF \E a \in parser : a.dst = d THEN "decoded" ELSE dst[d]
    BY <1>6 DEF Decoded
  <2>2. dst' \in [Dests -> States]
    <3>1. \A d \in Dests : dst[d] \in States
      BY DEF SseInv, TypeOK
    <3> QED
      BY <1>6, <3>1 DEF Decoded, States
  <2>3. \A d \in Dests : dst'[d] = "partial" => (~clear' /\ ~IsValue(d)) \/ d \in orphans'
    BY <1>1, <1>6, <2>1 DEF SseInv, NoPartialResult
  <2>4. clear' \in BOOLEAN /\ seen' = FALSE /\ len' = 0 /\ fed' = <<>> /\ parser' = {}
    BY <1>1, <1>6 DEF JsonReset
  <2> QED
    BY <2>2, <2>3, <2>4, ForgetsEvent
<1> QED
  BY <1>2, <1>3, <1>4, <1>5, <1>6 DEF JsonEmit, destVars

LEMMA EmitStep ==
  ASSUME SseInv, UNCHANGED configVars, NEW args \in Args, NEW fail, Emit(args, fail)
  PROVE  SseInv'
BY PlainEmitStep, JsonEmitStep DEF Emit

LEMMA ProcessLineStep ==
  ASSUME SseInv, UNCHANGED configVars, api \in {"plain", "json"}, NEW args \in Args, NEW fail,
         ProcessLine(args, fail)
  PROVE  SseInv'
<1>1. CASE Emit(args, fail)
  BY <1>1, EmitStep
<1>2. CASE \E l \in DataLines : Data(l, args, fail)
  BY <1>2, PlainDataStep, JsonDataStep DEF Data
<1>3. CASE \E l \in Contents \ DataLines : Field(l, fail)
  <2>1. UNCHANGED <<jsonVars, seen, len, fed>>
    BY <1>3 DEF Field
  <2> QED
    BY <2>1, Idle DEF configVars, jsonVars, destVars
<1> QED
  BY <1>1, <1>2, <1>3 DEF ProcessLine

-----------------------------------------------------------------------------
ApiInv == api \in {"plain", "json"}

LEMMA InitInv ==
  ASSUME Init PROVE SseInv /\ ApiInv
<1>1. <<>> \in Seq(Pieces) /\ Len(<<>>) = 0 /\ MaxData \in Nat
  BY SseAssumption
<1>2. /\ clear \in BOOLEAN /\ seen = FALSE /\ fed = <<>> /\ len = 0 /\ parser = {}
      /\ dst = [d \in Dests |-> "empty"] /\ api \in {"plain", "json"}
  BY DEF Init
<1>3. TypeOK
  BY <1>1, <1>2 DEF TypeOK, States
<1>4. DataInv /\ ParserInv
  BY <1>1, <1>2 DEF DataInv, ParserInv
<1>5. NoPartialResult
  BY <1>2 DEF NoPartialResult
<1> QED
  BY <1>2, <1>3, <1>4, <1>5 DEF SseInv, ApiInv

LEMMA StepInv ==
  ASSUME SseInv, ApiInv, [Next]_vars PROVE SseInv' /\ ApiInv'
<1>1. CASE \E args \in Args, fail \in Fails :
             UNCHANGED configVars /\ (ProcessLine(args, fail) \/ Emit(args, fail))
  <2>1. SseInv'
    BY <1>1, ProcessLineStep, EmitStep DEF ApiInv
  <2> QED
    BY <1>1, <2>1 DEF ApiInv, configVars
<1>2. CASE UNCHANGED <<configVars, eventVars>>
  BY <1>2, Idle DEF ApiInv, configVars, eventVars, jsonVars, destVars
<1>3. CASE Close
  <2>1. UNCHANGED <<api, clear>> /\ clear \in BOOLEAN
    BY <1>3 DEF Close, configVars, SseInv, TypeOK
  <2>2. /\ seen' = FALSE /\ len' = 0 /\ fed' = <<>> /\ parser' = {}
        /\ dst' = dst /\ orphans' = orphans \cup {a.dst : a \in parser}
    BY <1>3 DEF Close, ResetEvent
  <2>3. dst' \in [Dests -> States]
    BY <2>2 DEF SseInv, TypeOK
  <2>4. \A d \in Dests : dst'[d] = "partial" => (~clear' /\ ~IsValue(d)) \/ d \in orphans'
    BY <2>1, <2>2 DEF SseInv, NoPartialResult
  <2> QED
    BY <2>1, <2>2, <2>3, <2>4, ForgetsEvent DEF ApiInv
<1>4. ASSUME NEW args \in Args, NEW fail \in Fails,
             \/ FeedLf(args, fail)
             \/ \E ch \in Contents \cup {"CR"} : FeedAfterCr(ch, args, fail)
             \/ FinishLine(args, fail) \/ FinishEmit(args, fail)
      PROVE  UNCHANGED configVars /\ (ProcessLine(args, fail) \/ Emit(args, fail))
  BY <1>4 DEF FeedLf, FeedAfterCr, FinishLine, FinishEmit
<1>5. ASSUME \/ \E l \in Contents, fail \in Fails : FeedContent(l, fail)
             \/ FeedCr \/ Resume \/ UNCHANGED vars
      PROVE  UNCHANGED <<configVars, eventVars>>
  BY <1>5 DEF FeedContent, FeedCr, Resume, vars
<1> QED
  BY <1>1, <1>2, <1>3, <1>4, <1>5 DEF Next

LEMMA InvHolds == Spec => []SseInv
<1>1. Init => SseInv /\ ApiInv
  BY InitInv
<1>2. SseInv /\ ApiInv /\ [Next]_vars => SseInv' /\ ApiInv'
  BY StepInv
<1> QED
  BY <1>1, <1>2, PTL DEF Spec

\* However the stream is cut, whichever line, parse, callback or allocation
\* fails and with whatever arguments an event is ended, no JSON destination is
\* left half-decoded but that of the event in progress, a map the client asked
\* not to clear, or one whose stream was closed on its event: sse_close, unlike
\* sse_json_cleanup_current_destination, empties none (sse_json_feed_data,
\* sse_json_emit and sse_json_begin_parser).
THEOREM NothingLeftPartial == Spec => []NoPartialResult
<1>1. SseInv => NoPartialResult
  BY DEF SseInv
<1> QED
  BY <1>1, InvHolds, PTL

\* event_data_len and json_data_len are the length of the data passed on, its
\* joining newlines included, and stay within max_event_data_bytes
\* (sse_emit_data, sse_json_feed_data).
THEOREM DataWithinLimit == Spec => [](Len(fed) = len /\ len <= MaxData)
<1>1. SseInv => Len(fed) = len /\ len <= MaxData
  BY DEF SseInv, DataInv
<1> QED
  BY <1>1, InvHolds, PTL

-----------------------------------------------------------------------------
(***************************************************************************)
(* The parser's state against the events of the lines it has processed.    *)
(***************************************************************************)

\* The metadata kept is that of the lines g.
Told(g) == /\ event = LastOf(g, NameLines) /\ id = LastOf(g, IdLines)
           /\ retry = LastOf(g, RetryLines)

\* The events p were dispatched and the lines g belong to the next one.
PlainDescribes(p, g) ==
  /\ log = PlainEvents(p)
  /\ Told(g)
  /\ pending <=> IsEvent(g)
  /\ seen <=> HasData(g)
  /\ started <=> HasData(g)
  /\ fed = DataOf(g)
  /\ HasData(g) => begin = {MetaOf(BeforeData(g))}

\* An unselected event that sse_json_emit does not notice.
Bare(g) == HasData(g) /\ ~Matching(g) /\ MetaOf(g) = NoMeta
Noticed(p) == \A k \in 1..Len(p) : ~Bare(p[k])

JsonDescribes(p, g) ==
  Noticed(p) =>
    /\ log = JsonEvents(p)
    /\ Told(g)
    /\ locked <=> HasData(g)
    /\ HasData(g) => (selected <=> Matching(g))
    /\ seen <=> Wanted(g)
    /\ fed = IF Wanted(g) THEN DataOf(g) ELSE <<>>

LEMMA ToldMeta ==
  ASSUME NEW g PROVE Told(g) <=> Meta = MetaOf(g)
BY DEF Told, Meta, MetaOf

\* An event without data lines; an event of comments only.
LEMMA NoDataYet ==
  ASSUME NEW g \in Groups, ~HasData(g)
  PROVE  DataOf(g) = <<>> /\ BeforeData(g) = g
<1>1. BeforeData(g) = g
  BY DEF BeforeData
<1>2. Places(g, DataLines) = {}
  BY DEF HasData
<1>3. Chosen(g, Places(g, DataLines)) = <<>>
  BY <1>2, ChosenNone DEF Groups
<1>4. DataOf(g) = [j \in 1..0 |-> IF j % 2 = 1 THEN <<>>[(j + 1) \div 2] ELSE "newline"]
  BY <1>3 DEF DataOf
<1>5. DataOf(g) \in [1..0 -> {}] /\ 0 \in Nat
  BY <1>4
<1>6. DataOf(g) \in Seq({}) /\ Len(DataOf(g)) = 0
  BY <1>5
<1> QED
  BY <1>1, <1>6, EmptySeq

LEMMA NoEventYet ==
  ASSUME NEW g \in Groups, ~IsEvent(g)
  PROVE  ~HasData(g) /\ MetaOf(g) = NoMeta
<1>1. \A j \in 1..Len(g) : g[j] \in OtherLines
  BY DEF IsEvent
<1>2. /\ Places(g, DataLines) = {} /\ Places(g, NameLines) = {}
      /\ Places(g, IdLines) = {} /\ Places(g, RetryLines) = {}
  BY <1>1, SseAssumption DEF Places
<1> QED
  BY <1>2 DEF HasData, MetaOf, LastOf, NoMeta

LEMMA MetaIsNone ==
  ASSUME NEW g, MetaOf(g) = NoMeta
  PROVE  LastOf(g, NameLines) = None /\ LastOf(g, IdLines) = None /\ LastOf(g, RetryLines) = None
BY DEF MetaOf, NoMeta

LEMMA NothingTold ==
  LastOf(<<>>, NameLines) = None /\ LastOf(<<>>, IdLines) = None /\ LastOf(<<>>, RetryLines) = None
BY EmptyGroup, MetaIsNone

\* An empty line: the event is dispatched if it is one.
LEMMA PlainEmitDescribes ==
  ASSUME SseInv, NEW p \in Seq(Groups), NEW g \in Groups, PlainDescribes(p, g), NEW fail,
         PlainEmit(fail), result' = "ok"
  PROVE  PlainDescribes(Append(p, g), <<>>)'
<1>1. PlainEvents(Append(p, g)) = IF IsEvent(g) THEN Append(PlainEvents(p), PlainEvent(g))
                                               ELSE PlainEvents(p)
  BY PlainEventsGrow
<1>2. CASE ~pending /\ UNCHANGED <<metaVars, plainVars, seen, len, fed, log>>
  <2>1. ~IsEvent(g) /\ ~HasData(g) /\ MetaOf(g) = NoMeta /\ DataOf(g) = <<>>
    BY <1>2, NoEventYet, NoDataYet DEF PlainDescribes
  <2>2. log' = PlainEvents(Append(p, g))
    BY <1>1, <1>2, <2>1 DEF PlainDescribes
  <2>3. Told(<<>>)'
    BY <1>2, <2>1, MetaIsNone, NothingTold DEF PlainDescribes, Told, metaVars
  <2>4. ~pending' /\ ~seen' /\ ~started' /\ fed' = <<>>
    BY <1>2, <2>1 DEF PlainDescribes, plainVars
  <2> QED
    BY <2>2, <2>3, <2>4, EmptyGroup DEF PlainDescribes
<1>3. CASE /\ pending
           /\ log' = Append(log, [begin |-> Begin, data |-> fed, len |-> len, end |-> Meta])
           /\ ResetEvent
  <2>1. IsEvent(g) /\ Meta = MetaOf(g) /\ fed = DataOf(g) /\ len = Len(DataOf(g))
    BY <1>3, ToldMeta DEF PlainDescribes, SseInv, DataInv
  <2>2. Begin = {MetaOf(BeforeData(g))}
    <3>1. CASE HasData(g)
      BY <3>1 DEF PlainDescribes, Begin
    <3>2. CASE ~HasData(g)
      BY <2>1, <3>2, NoDataYet DEF PlainDescribes, Begin
    <3> QED
      BY <3>1, <3>2
  <2>3. log' = PlainEvents(Append(p, g))
    BY <1>1, <1>3, <2>1, <2>2 DEF PlainDescribes, PlainEvent
  <2>4. Told(<<>>)'
    BY <1>3, NothingTold DEF ResetEvent, Told
  <2>5. ~pending' /\ ~seen' /\ ~started' /\ fed' = <<>>
    BY <1>3 DEF ResetEvent
  <2> QED
    BY <2>3, <2>4, <2>5, EmptyGroup DEF PlainDescribes
<1> QED
  BY <1>2, <1>3 DEF PlainEmit, Failed

\* A data line.
LEMMA PlainDataDescribes ==
  ASSUME NEW p, NEW g \in Groups, PlainDescribes(p, g), NEW l \in DataLines, NEW fail,
         PlainData(l, fail), UNCHANGED metaVars, result' = "ok"
  PROVE  PlainDescribes(p, Append(g, l))'
<1>1. /\ pending' = TRUE /\ started' = TRUE /\ begin' = Begin
      /\ fed' = fed \o Joined \o <<l>> /\ seen' = TRUE /\ UNCHANGED log
  BY DEF PlainData, Failed
<1>2. MetaOf(Append(g, l)) = MetaOf(g) /\ l \in Contents /\ l \notin OtherLines
  BY DataMetaKept
<1>3. HasData(Append(g, l)) /\ IsEvent(Append(g, l))
  BY <1>2, HasDataGrow, IsEventGrow
<1>4. Told(Append(g, l))'
  <2>1. Meta = MetaOf(Append(g, l))
    BY <1>2, ToldMeta DEF PlainDescribes
  <2> QED
    BY <2>1 DEF metaVars, Told, Meta, MetaOf
<1>5. fed' = DataOf(Append(g, l))
  <2>1. Joined = IF HasData(g) THEN <<"newline">> ELSE <<>>
    BY DEF Joined, PlainDescribes
  <2> QED
    BY <1>1, <1>2, <2>1, DataGrow DEF PlainDescribes
<1>6. begin' = {MetaOf(BeforeData(Append(g, l)))}
  <2>1. CASE HasData(g)
    BY <1>1, <1>2, <2>1, BeforeDataGrow DEF PlainDescribes, Begin
  <2>2. CASE ~HasData(g)
    <3>1. BeforeData(Append(g, l)) = g
      BY <1>2, <2>2, BeforeDataGrow
    <3>2. Begin = {MetaOf(g)}
      BY <2>2, ToldMeta DEF PlainDescribes, Begin
    <3> QED
      BY <1>1, <3>1, <3>2
  <2> QED
    BY <2>1, <2>2
<1> QED
  BY <1>1, <1>3, <1>4, <1>5, <1>6 DEF PlainDescribes

\* Another field, or a comment.
LEMMA FieldTold ==
  ASSUME NEW g \in Groups, Told(g), NEW l \in Contents \ DataLines, NEW fail,
         Field(l, fail), result' = "ok"
  PROVE  /\ Told(Append(g, l))'
         /\ pending' <=> (pending \/ (api = "plain" /\ l \notin OtherLines))
         /\ UNCHANGED <<started, begin, jsonVars, seen, len, fed, log>>
<1> DEFINE broken == fail = "memory" /\ l \in NameLines \cup IdLines
           value  == IF broken THEN None ELSE l
<1>1. /\ event' = IF l \in NameLines THEN value ELSE event
      /\ id' = IF l \in IdLines THEN value ELSE id
      /\ retry' = IF l \in RetryLines THEN value ELSE retry
      /\ pending' = (pending \/ (api = "plain" /\ l \notin OtherLines))
      /\ IF broken THEN Failed ELSE UNCHANGED result
      /\ UNCHANGED <<started, begin, jsonVars, seen, len, fed, log>>
  BY DEF Field, Failed
<1>2. value = l
  BY <1>1 DEF Failed
<1> HIDE DEF broken, value
<1>3. \A S : LastOf(Append(g, l), S) = IF l \in S THEN l ELSE LastOf(g, S)
  BY LastOfGrow
<1>4. Told(Append(g, l))'
  BY <1>1, <1>2, <1>3 DEF Told
<1> QED
  BY <1>1, <1>4

LEMMA PlainFieldDescribes ==
  ASSUME NEW p, NEW g \in Groups, PlainDescribes(p, g), NEW l \in Contents \ DataLines,
         NEW fail, Field(l, fail), result' = "ok", api = "plain"
  PROVE  PlainDescribes(p, Append(g, l))'
<1>1. /\ Told(Append(g, l))' /\ (pending' <=> pending \/ l \notin OtherLines)
      /\ UNCHANGED <<started, begin, seen, fed, log>>
  BY FieldTold DEF PlainDescribes
<1>2. /\ HasData(Append(g, l)) <=> HasData(g)
      /\ IsEvent(Append(g, l)) <=> IsEvent(g) \/ l \notin OtherLines
      /\ DataOf(Append(g, l)) = DataOf(g)
      /\ HasData(g) => BeforeData(Append(g, l)) = BeforeData(g)
  BY HasDataGrow, IsEventGrow, DataGrow, BeforeDataGrow
<1> QED
  BY <1>1, <1>2 DEF PlainDescribes

-----------------------------------------------------------------------------
\* One more event, noticed or not.
LEMMA NoticedGrow ==
  ASSUME NEW p \in Seq(Groups), NEW g \in Groups
  PROVE  Noticed(Append(p, g)) <=> Noticed(p) /\ ~Bare(g)
<1> DEFINE t == Append(p, g)
           n == Len(p)
<1>1. n \in Nat /\ Len(t) = n + 1 /\ t[n + 1] = g /\ \A i \in 1..n : t[i] = p[i]
  OBVIOUS
<1>2. \A k : k \in 1..(n + 1) <=> k \in 1..n \/ k = n + 1
  BY <1>1
<1> HIDE DEF t
<1>3. Noticed(t) <=> \A k \in 1..(n + 1) : ~Bare(t[k])
  BY <1>1 DEF Noticed
<1>4. Noticed(p) <=> \A k \in 1..n : ~Bare(p[k])
  BY DEF Noticed
<1> QED
  BY <1>1, <1>2, <1>3, <1>4 DEF t

\* What the filter says of an event does not change.
LEMMA FilterKept ==
  ASSUME UNCHANGED filtered
  PROVE  /\ \A g : Matching(g)' <=> Matching(g)
         /\ \A g : Wanted(g)' <=> Wanted(g)
         /\ \A g : Bare(g)' <=> Bare(g)
         /\ \A p : Noticed(p)' <=> Noticed(p)
         /\ \A p : JsonEvents(p)' = JsonEvents(p)
<1>1. \A g : Matching(g)' <=> Matching(g)
  BY DEF Matching
<1>2. \A g : Wanted(g)' <=> Wanted(g)
  BY <1>1 DEF Wanted
<1>3. \A g : Bare(g)' <=> Bare(g)
  BY <1>1 DEF Bare
<1>4. \A p : Noticed(p)' <=> Noticed(p)
  BY <1>3 DEF Noticed
<1>5. \A p : JsonEvents(p)' = JsonEvents(p)
  BY DEF JsonEvents, Matching
<1> QED
  BY <1>1, <1>2, <1>3, <1>4, <1>5

\* The same steps of the JSON calls: an empty line, a data line, another line.
LEMMA JsonEmitDescribes ==
  ASSUME SseInv, NEW p \in Seq(Groups), NEW g \in Groups, JsonDescribes(p, g),
         UNCHANGED filtered, NEW args, NEW fail, JsonEmit(args, fail), result' = "ok"
  PROVE  JsonDescribes(Append(p, g), <<>>)'
<1> DEFINE q == Append(p, g)
<1>1. SUFFICES ASSUME Noticed(q)
               PROVE  /\ log' = JsonEvents(q) /\ Told(<<>>)' /\ ~locked' /\ ~seen' /\ fed' = <<>>
  <2>1. ~HasData(<<>>) /\ ~Wanted(<<>>)
    BY EmptyGroup DEF Wanted
  <2> HIDE DEF q
  <2> QED
    BY <1>1, <2>1, FilterKept DEF JsonDescribes, q
<1>2. Noticed(p) /\ ~Bare(g)
  BY <1>1, NoticedGrow
<1>3. JsonEvents(q) = IF Wanted(g) THEN Append(JsonEvents(p), JsonEvent(g)) ELSE JsonEvents(p)
  BY JsonEventsGrow
<1>4. /\ log = JsonEvents(p) /\ Told(g) /\ (locked <=> HasData(g))
      /\ (HasData(g) => (selected <=> Matching(g)))
      /\ (seen <=> Wanted(g)) /\ fed = IF Wanted(g) THEN DataOf(g) ELSE <<>>
  BY <1>2 DEF JsonDescribes
<1> HIDE DEF q
<1>5. Meta = MetaOf(g)
  BY <1>4, ToldMeta
<1>6. CASE ~seen /\ Meta = NoMeta /\ UNCHANGED <<jsonVars, metaVars, seen, len, fed, log>>
  <2>1. ~HasData(g)
    BY <1>2, <1>4, <1>5, <1>6 DEF Bare, Wanted
  <2>2. Told(<<>>)'
    BY <1>5, <1>6, NothingTold DEF Told, Meta, NoMeta, metaVars
  <2> QED
    BY <1>3, <1>4, <1>6, <2>1, <2>2 DEF jsonVars
<1>7. CASE ~seen /\ JsonReset /\ UNCHANGED log
  BY <1>3, <1>4, <1>7, NothingTold DEF JsonReset, Told
<1>8. CASE /\ seen /\ log' = Append(log, [data |-> fed, len |-> len, end |-> Meta]) /\ JsonReset
  <2>1. len = Len(fed)
    BY DEF SseInv, DataInv
  <2>2. log' = JsonEvents(q)
    BY <1>3, <1>4, <1>5, <1>8, <2>1 DEF JsonEvent
  <2> QED
    BY <1>8, <2>2, NothingTold DEF JsonReset, Told
<1> QED
  BY <1>6, <1>7, <1>8 DEF JsonEmit, JsonDrop

LEMMA JsonDataDescribes ==
  ASSUME NEW p, NEW g \in Groups, JsonDescribes(p, g), UNCHANGED <<filtered, log>>,
         NEW l \in DataLines, NEW args, NEW fail, JsonData(l, args, fail), result' = "ok"
  PROVE  JsonDescribes(p, Append(g, l))'
<1> DEFINE h == Append(g, l)
<1>1. SUFFICES ASSUME Noticed(p)
               PROVE  /\ log' = JsonEvents(p) /\ Told(h)' /\ locked'
                      /\ (selected' <=> Matching(h)) /\ (seen' <=> Matching(h))
                      /\ fed' = IF Matching(h) THEN DataOf(h) ELSE <<>>
  <2>1. HasData(h)
    BY DataMetaKept, HasDataGrow
  <2>2. Wanted(h) <=> Matching(h)
    BY <2>1 DEF Wanted
  <2> HIDE DEF h
  <2> QED
    BY <1>1, <2>1, <2>2, FilterKept DEF JsonDescribes, h
<1>2. /\ log = JsonEvents(p) /\ Told(g) /\ (locked <=> HasData(g))
      /\ (HasData(g) => (selected <=> Matching(g)))
      /\ (seen <=> Wanted(g)) /\ fed = IF Wanted(g) THEN DataOf(g) ELSE <<>>
  BY <1>1 DEF JsonDescribes
<1>3. l \in Contents /\ MetaOf(h) = MetaOf(g)
  BY DataMetaKept
<1>4. IF locked THEN (selected <=> Matching(h)) ELSE (EventSelected <=> Matching(h))
  <2>1. CASE HasData(g)
    <3>1. BeforeData(h) = BeforeData(g)
      BY <1>3, <2>1, BeforeDataGrow
    <3> QED
      BY <1>2, <2>1, <3>1 DEF Matching
  <2>2. CASE ~HasData(g)
    <3>1. BeforeData(h) = g
      BY <1>3, <2>2, BeforeDataGrow
    <3>2. MetaOf(g).event = event
      BY <1>2 DEF MetaOf, Told
    <3> QED
      BY <1>2, <2>2, <3>1, <3>2 DEF Matching, EventSelected
  <2> QED
    BY <2>1, <2>2
<1>5. DataOf(h) = DataOf(g) \o (IF HasData(g) THEN <<"newline">> ELSE <<>>) \o <<l>>
  BY <1>3, DataGrow
<1>6. UNCHANGED metaVars => Told(h)'
  BY <1>2, <1>3, ToldMeta DEF metaVars, Told, Meta, MetaOf
<1>7. HasData(g) => (Matching(g) <=> Matching(h))
  BY <1>2, <1>4
<1> HIDE DEF h
<1>8. CASE /\ ~(IF locked THEN selected ELSE EventSelected) /\ Lock
           /\ UNCHANGED <<fed, seen, metaVars>>
  <2>1. ~Matching(h)
    BY <1>4, <1>8
  <2>2. locked' /\ (selected' <=> Matching(h))
    BY <1>4, <1>8, <2>1 DEF Lock
  <2>3. ~Wanted(g)
    BY <1>7, <2>1 DEF Wanted
  <2> QED
    BY <1>2, <1>6, <1>8, <2>1, <2>2, <2>3
<1>9. CASE /\ IF locked THEN selected ELSE EventSelected
           /\ Lock /\ fed' = fed \o Joined \o <<l>> /\ seen' = TRUE /\ UNCHANGED metaVars
  <2>1. Matching(h)
    BY <1>4, <1>9
  <2>2. locked' /\ (selected' <=> Matching(h))
    BY <1>4, <1>9, <2>1 DEF Lock
  <2>3. Wanted(g) <=> HasData(g)
    BY <1>7, <2>1 DEF Wanted
  <2>4. fed = DataOf(g)
    BY <1>2, <2>3, NoDataYet
  <2>5. Joined = IF HasData(g) THEN <<"newline">> ELSE <<>>
    BY <1>2, <2>3 DEF Joined
  <2> QED
    BY <1>2, <1>5, <1>6, <1>9, <2>1, <2>2, <2>4, <2>5
<1> QED
  BY <1>8, <1>9 DEF JsonData, Failed, JsonDrop

LEMMA JsonFieldDescribes ==
  ASSUME NEW p, NEW g \in Groups, JsonDescribes(p, g), UNCHANGED filtered,
         NEW l \in Contents \ DataLines, NEW fail, Field(l, fail), result' = "ok"
  PROVE  JsonDescribes(p, Append(g, l))'
<1> DEFINE h == Append(g, l)
<1>1. /\ HasData(h) <=> HasData(g)
      /\ DataOf(h) = DataOf(g)
      /\ HasData(g) => BeforeData(h) = BeforeData(g)
  BY HasDataGrow, DataGrow, BeforeDataGrow
<1>2. HasData(g) => (Matching(h) <=> Matching(g))
  BY <1>1 DEF Matching
<1>3. Wanted(h) <=> Wanted(g)
  BY <1>1, <1>2 DEF Wanted
<1>4. SUFFICES ASSUME Noticed(p)
               PROVE  /\ log' = JsonEvents(p) /\ Told(h)' /\ (locked' <=> HasData(h))
                      /\ (HasData(h) => (selected' <=> Matching(h)))
                      /\ (seen' <=> Wanted(h)) /\ fed' = IF Wanted(h) THEN DataOf(h) ELSE <<>>
  <2> HIDE DEF h
  <2> QED
    BY <1>4, FilterKept DEF JsonDescribes, h
<1>5. /\ log = JsonEvents(p) /\ Told(g) /\ (locked <=> HasData(g))
      /\ (HasData(g) => (selected <=> Matching(g)))
      /\ (seen <=> Wanted(g)) /\ fed = IF Wanted(g) THEN DataOf(g) ELSE <<>>
  BY <1>4 DEF JsonDescribes
<1>6. Told(h)' /\ UNCHANGED <<locked, selected, seen, fed, log>>
  BY <1>5, FieldTold DEF jsonVars
<1> HIDE DEF h
<1> QED
  BY <1>1, <1>2, <1>3, <1>5, <1>6

-----------------------------------------------------------------------------
\* Either API.
Describes(p, g) == /\ api = "plain" => PlainDescribes(p, g)
                   /\ api = "json" => JsonDescribes(p, g)

\* An empty line and a line with a field, for either API.
LEMMA EmitDescribes ==
  ASSUME SseInv, ApiInv, NEW p \in Seq(Groups), NEW g \in Groups, Describes(p, g),
         UNCHANGED configVars, NEW args, NEW fail, Emit(args, fail), result' = "ok"
  PROVE  Describes(Append(p, g), <<>>)'
<1>1. api' = api /\ filtered' = filtered
  BY DEF configVars
<1>2. CASE api = "plain"
  <2>1. PlainEmit(fail) /\ PlainDescribes(p, g)
    BY <1>2 DEF Emit, Describes
  <2>2. PlainDescribes(Append(p, g), <<>>)'
    BY <2>1, PlainEmitDescribes
  <2> QED
    BY <1>1, <1>2, <2>2 DEF Describes
<1>3. CASE api = "json"
  <2>1. JsonEmit(args, fail) /\ JsonDescribes(p, g)
    BY <1>3 DEF Emit, Describes
  <2>2. JsonDescribes(Append(p, g), <<>>)'
    BY <1>1, <2>1, JsonEmitDescribes
  <2> QED
    BY <1>1, <1>3, <2>2 DEF Describes
<1> QED
  BY <1>2, <1>3 DEF ApiInv

LEMMA LineDescribes ==
  ASSUME SseInv, ApiInv, NEW p \in Seq(Groups), NEW g \in Groups, Describes(p, g),
         UNCHANGED configVars, NEW args, NEW fail, ProcessLine(args, fail), result' = "ok",
         NEW l \in Contents, line = <<l>>
  PROVE  Describes(p, Append(g, l))'
<1>1. api' = api /\ filtered' = filtered
  BY DEF configVars
<1>2. IF l \in DataLines THEN Data(l, args, fail) ELSE Field(l, fail)
  <2>1. line # <<>> /\ \A m : line = <<m>> => m = l
    OBVIOUS
  <2> QED
    BY <2>1 DEF ProcessLine
<1>3. CASE api = "plain"
  <2>1. PlainDescribes(p, g)
    BY <1>3 DEF Describes
  <2>2. PlainDescribes(p, Append(g, l))'
    <3>1. CASE l \in DataLines
      <4>1. PlainData(l, fail) /\ UNCHANGED metaVars
        BY <1>2, <1>3, <3>1 DEF Data
      <4> QED
        BY <2>1, <3>1, <4>1, PlainDataDescribes
    <3>2. CASE l \notin DataLines
      BY <1>2, <1>3, <2>1, <3>2, PlainFieldDescribes
    <3> QED
      BY <3>1, <3>2
  <2> QED
    BY <1>1, <1>3, <2>2 DEF Describes
<1>4. CASE api = "json"
  <2>1. JsonDescribes(p, g)
    BY <1>4 DEF Describes
  <2>2. JsonDescribes(p, Append(g, l))'
    <3>1. CASE l \in DataLines
      <4>1. JsonData(l, args, fail) /\ UNCHANGED log
        BY <1>2, <1>4, <3>1 DEF Data
      <4> QED
        BY <1>1, <2>1, <3>1, <4>1, JsonDataDescribes
    <3>2. CASE l \notin DataLines
      BY <1>1, <1>2, <2>1, <3>2, JsonFieldDescribes
    <3> QED
      BY <3>1, <3>2
  <2> QED
    BY <1>1, <1>4, <2>2 DEF Describes
<1> QED
  BY <1>3, <1>4 DEF ApiInv

-----------------------------------------------------------------------------
(***************************************************************************)
(* The lines of the stream.                                                *)
(***************************************************************************)

\* pre is the part of the stream whose lines were processed; the line and a
\* CR that may be the end of it follow.
Body(pre) == IF line = <<>> THEN pre ELSE Append(pre, line[1])
Framed(pre) ==
  /\ pre \in Seq(Symbols)
  /\ raw = IF sawCr THEN Append(Body(pre), "CR") ELSE Body(pre)
  /\ finishing = {} =>
       /\ pre = <<>> \/ pre[Len(pre)] \notin Contents
       /\ line = <<>> /\ ~sawCr => pre = <<>> \/ pre[Len(pre)] = "LF"
  /\ finishing # {} => line = <<>> /\ ~sawCr

LineInv == (line = <<>> \/ \E l \in Contents : line = <<l>>) /\ sawCr \in BOOLEAN

\* The text t is pre with the line ended.
Ended(t, pre) ==
  /\ line = <<>> => Past(t) = Append(Past(pre), Current(pre)) /\ Current(t) = <<>>
  /\ line # <<>> => Past(t) = Past(pre) /\ Current(t) = Append(Current(pre), line[1])

\* The line that was not ended belongs to the current event.
LEMMA BodyFacts ==
  ASSUME LineInv, NEW pre, Framed(pre)
  PROVE  /\ Body(pre) \in Seq(Symbols) /\ raw \in Seq(Symbols)
         /\ line # <<>> => /\ line[1] \in Contents /\ line = <<line[1]>>
                           /\ Body(pre) = Append(pre, line[1])
                           /\ Past(Body(pre)) = Past(pre)
                           /\ Current(Body(pre)) = Append(Current(pre), line[1])
                           /\ Len(Body(pre)) > 0 /\ Body(pre)[Len(Body(pre))] = line[1]
<1>1. pre \in Seq(Symbols) /\ raw = IF sawCr THEN Append(Body(pre), "CR") ELSE Body(pre)
  BY DEF Framed
<1>2. ASSUME line # <<>>
      PROVE  /\ line[1] \in Contents /\ line = <<line[1]>>
             /\ Body(pre) = Append(pre, line[1]) /\ Body(pre) \in Seq(Symbols)
             /\ Past(Body(pre)) = Past(pre)
             /\ Current(Body(pre)) = Append(Current(pre), line[1])
             /\ Len(Body(pre)) > 0 /\ Body(pre)[Len(Body(pre))] = line[1]
  <2>1. PICK l \in Contents : line = <<l>>
    BY <1>2 DEF LineInv
  <2>2. line[1] = l /\ Body(pre) = Append(pre, l)
    BY <1>2, <2>1 DEF Body
  <2>3. l \in Symbols
    BY SymbolFacts
  <2>4. /\ Append(pre, l) \in Seq(Symbols) /\ Len(Append(pre, l)) = Len(pre) + 1
        /\ Append(pre, l)[Len(pre) + 1] = l /\ Len(pre) \in Nat
    BY <1>1, <2>3, AppendProperties
  <2>5. Past(Append(pre, l)) = Past(pre) /\ Current(Append(pre, l)) = Append(Current(pre), l)
    BY <1>1, ContentGrows
  <2>6. Len(Append(pre, l)) > 0
    BY <2>4
  <2>7. line[1] \in Contents /\ line = <<line[1]>>
    BY <2>1
  <2>8. Body(pre)[Len(Body(pre))] = line[1]
    BY <2>2, <2>4
  <2> QED
    BY <2>2, <2>4, <2>5, <2>6, <2>7, <2>8
<1>3. Body(pre) \in Seq(Symbols)
  <2>1. CASE line = <<>>
    BY <1>1, <2>1 DEF Body
  <2> QED
    BY <1>2, <2>1
<1>4. raw \in Seq(Symbols)
  BY <1>1, <1>3, SymbolFacts, AppendProperties
<1> QED
  BY <1>2, <1>3, <1>4

\* What a CR or an LF after the line ends.
LEMMA EndAfterBody ==
  ASSUME LineInv, NEW pre, Framed(pre), finishing = {}, NEW c \in {"CR", "LF"},
         c = "LF" => ~sawCr
  PROVE  Ended(Append(Body(pre), c), pre)
<1> DEFINE b == Body(pre)
           t == Append(b, c)
           n == Len(b)
<1>1. /\ b \in Seq(Symbols) /\ c \in Symbols /\ pre \in Seq(Symbols)
  BY BodyFacts, SymbolFacts DEF Framed
<1>2. /\ t \in Seq(Symbols) /\ n \in Nat /\ t[n + 1] = c /\ \A i \in 1..n : t[i] = b[i]
  BY <1>1
<1>3. IF EmptyLine(t, n + 1) THEN Past(t) = Append(Past(b), Current(b)) /\ Current(t) = <<>>
                             ELSE Past(t) = Past(b) /\ Current(t) = Current(b)
  BY <1>1, LineEnds
<1>4. CASE line # <<>>
  <2>1. /\ line[1] \in Contents /\ n > 0 /\ b[n] = line[1]
        /\ Past(b) = Past(pre) /\ Current(b) = Append(Current(pre), line[1])
    BY <1>4, BodyFacts
  <2>2. t[(n + 1) - 1] = b[n] /\ n + 1 # 1
    BY <1>2, <2>1
  <2> HIDE DEF t, b, n
  <2>3. ~EmptyLine(t, n + 1)
    BY <2>1, <2>2 DEF EmptyLine
  <2> QED
    BY <1>3, <1>4, <2>1, <2>3 DEF Ended, t, b
<1>5. CASE line = <<>>
  <2>1. b = pre
    BY <1>5 DEF Body
  <2>2. pre = <<>> \/ pre[Len(pre)] \notin Contents
    BY DEF Framed
  <2>3. c = "LF" => pre = <<>> \/ pre[Len(pre)] = "LF"
    BY <1>5 DEF Framed
  <2>4. EmptyLine(t, n + 1)
    <3>1. CASE pre = <<>>
      <4>1. n + 1 = 1
        BY <2>1, <3>1
      <4> HIDE DEF t, n
      <4> QED
        BY <1>2, <4>1 DEF EmptyLine, EndsLine
    <3>2. CASE pre # <<>>
      <4>1. n > 0
        BY <1>1, <2>1, <3>2, EmptySeq
      <4>2. t[(n + 1) - 1] = b[n]
        BY <1>2, <4>1
      <4>3. t[(n + 1) - 1] \notin Contents /\ (c = "LF" => t[(n + 1) - 1] # "CR")
        BY <2>1, <2>2, <2>3, <3>2, <4>2
      <4> HIDE DEF t, n
      <4> QED
        BY <1>2, <4>3 DEF EmptyLine, EndsLine
    <3> QED
      BY <3>1, <3>2
  <2> HIDE DEF t, b
  <2> QED
    BY <1>3, <1>5, <2>1, <2>4 DEF Ended, t, b
<1> QED
  BY <1>4, <1>5

\* The CR that was seen, the LF that comes, and the end of the stream end it.
LEMMA EndAtCr ==
  ASSUME LineInv, NEW pre, Framed(pre), finishing = {}, sawCr
  PROVE  Ended(raw, pre) /\ raw[Len(raw)] = "CR" /\ raw # <<>>
<1>1. raw = Append(Body(pre), "CR") /\ Body(pre) \in Seq(Symbols)
  BY BodyFacts DEF Framed
<1>2. Ended(Append(Body(pre), "CR"), pre)
  BY EndAfterBody
<1>3. LET b == Body(pre) IN Append(b, "CR")[Len(Append(b, "CR"))] = "CR" /\ Append(b, "CR") # <<>>
  BY <1>1, SymbolFacts, AppendProperties
<1> QED
  BY <1>1, <1>2, <1>3

LEMMA EndAtLf ==
  ASSUME LineInv, NEW pre, Framed(pre), finishing = {}
  PROVE  Ended(Append(raw, "LF"), pre)
<1>1. CASE ~sawCr
  <2>1. raw = Body(pre)
    BY <1>1 DEF Framed
  <2>2. Ended(Append(Body(pre), "LF"), pre)
    BY <1>1, EndAfterBody
  <2> QED
    BY <2>1, <2>2
<1>2. CASE sawCr
  <2> DEFINE t == Append(raw, "LF")
             n == Len(raw)
  <2>1. Ended(raw, pre) /\ raw[n] = "CR" /\ raw # <<>> /\ raw \in Seq(Symbols)
    BY <1>2, EndAtCr, BodyFacts
  <2>2. n \in Nat /\ n > 0 /\ t[n + 1] = "LF" /\ t[(n + 1) - 1] = "CR" /\ n + 1 # 1
    <3>1. n \in Nat /\ n > 0
      BY <2>1, EmptySeq
    <3> QED
      BY <2>1, <3>1, SymbolFacts, AppendProperties
  <2>3. ~EmptyLine(t, n + 1)
    <3> HIDE DEF t, n
    <3> QED
      BY <2>2 DEF EmptyLine, EndsLine
  <2>4. Past(t) = Past(raw) /\ Current(t) = Current(raw)
    BY <2>1, <2>3, LineEnds
  <2> HIDE DEF t
  <2> QED
    BY <2>1, <2>4 DEF Ended, t
<1> QED
  BY <1>1, <1>2

LEMMA EndUnended ==
  ASSUME LineInv, NEW pre, Framed(pre), ~sawCr, line # <<>>
  PROVE  Ended(raw, pre)
<1>1. raw = Body(pre)
  BY DEF Framed
<1> QED
  BY <1>1, BodyFacts DEF Ended

\* Processing the line leaves the state described by the text with it ended.
LEMMA ProcessDescribes ==
  ASSUME SseInv, ApiInv, LineInv, NEW pre \in Seq(Symbols),
         Describes(Past(pre), Current(pre)), UNCHANGED configVars, NEW args, NEW fail,
         ProcessLine(args, fail), result' = "ok", NEW t, Ended(t, pre)
  PROVE  Describes(Past(t), Current(t))'
<1> DEFINE p == Past(pre)
           g == Current(pre)
<1>1. p \in Seq(Groups) /\ g \in Groups
  BY PastType
<1> HIDE DEF p, g
<1>2. CASE line = <<>>
  <2>1. Emit(args, fail)
    <3>1. \A l : line # <<l>>
      BY <1>2
    <3> QED
      BY <3>1 DEF ProcessLine
  <2>2. Describes(Append(p, g), <<>>)'
    BY <1>1, <2>1, EmitDescribes DEF p, g
  <2>3. Past(t) = Append(p, g) /\ Current(t) = <<>>
    BY <1>2 DEF Ended, p, g
  <2> QED
    BY <2>2, <2>3
<1>3. CASE line # <<>>
  <2>1. PICK l \in Contents : line = <<l>>
    BY <1>3 DEF LineInv
  <2>2. Describes(p, Append(g, l))'
    BY <1>1, <2>1, LineDescribes DEF p, g
  <2>3. Past(t) = p /\ Current(t) = Append(g, l)
    BY <1>3, <2>1 DEF Ended, p, g
  <2> QED
    BY <2>2, <2>3
<1> QED
  BY <1>2, <1>3

-----------------------------------------------------------------------------
(***************************************************************************)
(* The invariant.                                                          *)
(***************************************************************************)

\* After an event was dropped nothing of it is left.
Forgotten ==
  /\ api = "json" /\ ~closed /\ finishing = {} /\ line = <<>> /\ ~sawCr
  /\ event = None /\ id = None /\ retry = None /\ ~seen /\ ~locked /\ fed = <<>>

\* All of the stream's events were dispatched.
Exact == /\ raw \in Seq(Symbols)
         /\ api = "plain" => log = PlainReference(raw)
         /\ api = "json" /\ ~BareUnselected(raw) => log = JsonReference(raw)

FaithInv ==
  /\ LineInv
  /\ result = "dropped" => Forgotten
  /\ result = "ok" /\ ~closed => \E pre : Framed(pre) /\ Describes(Past(pre), Current(pre))
  /\ closed => Exact

\* A stream that begins.
Fresh ==
  /\ finishing = {} /\ line = <<>> /\ sawCr = FALSE /\ raw = <<>> /\ log = <<>>
  /\ event = None /\ id = None /\ retry = None
  /\ ~seen /\ ~locked /\ fed = <<>>
  /\ api = "plain" => ~pending /\ ~started

\* The empty stream has no events and describes the initial state.
LEMMA FreshDescribed ==
  Fresh => Framed(<<>>) /\ Describes(Past(<<>>), Current(<<>>))
<1> SUFFICES ASSUME Fresh PROVE Framed(<<>>) /\ Describes(Past(<<>>), Current(<<>>))
  OBVIOUS
<1>1. Past(<<>>) = <<>> /\ Current(<<>>) = <<>> /\ <<>> \in Seq(Symbols)
  BY NothingYet
<1>2. Framed(<<>>)
  BY <1>1 DEF Framed, Body, Fresh
<1>3. Told(<<>>)
  BY NothingTold DEF Fresh, Told
<1>4. log = PlainEvents(<<>>) /\ log = JsonEvents(<<>>)
  BY NoEvents DEF Fresh
<1>5. ~HasData(<<>>) /\ ~IsEvent(<<>>) /\ DataOf(<<>>) = <<>> /\ ~Wanted(<<>>)
  BY EmptyGroup DEF Wanted
<1>6. api = "plain" => PlainDescribes(<<>>, <<>>)
  BY <1>3, <1>4, <1>5 DEF PlainDescribes, Fresh
<1>7. JsonDescribes(<<>>, <<>>)
  BY <1>3, <1>4, <1>5 DEF JsonDescribes, Fresh
<1> QED
  BY <1>1, <1>2, <1>6, <1>7 DEF Describes

LEMMA FreshDescribedNext ==
  Fresh' => Framed(<<>>)' /\ Describes(Past(<<>>), Current(<<>>))'
BY FreshDescribed, PTL

LEMMA InitFaith ==
  ASSUME Init PROVE FaithInv
<1>1. Fresh
  BY DEF Init, Fresh
<1>2. LineInv
  BY DEF Init, LineInv
<1>3. result = "ok" /\ ~closed
  BY DEF Init
<1>4. \E pre : Framed(pre) /\ Describes(Past(pre), Current(pre))
  BY <1>1, FreshDescribed
<1> QED
  BY <1>2, <1>3, <1>4 DEF FaithInv

LEMMA FreshFaith ==
  ASSUME Fresh', result' = "ok", ~closed' PROVE FaithInv'
<1>1. \E pre : (Framed(pre) /\ Describes(Past(pre), Current(pre)))'
  BY FreshDescribedNext
<1>2. LineInv'
  BY DEF Fresh, LineInv
<1> QED
  BY <1>1, <1>2 DEF FaithInv

\* Only the JSON calls drop an event, and they forget it.
LEMMA DropForgets ==
  ASSUME ApiInv, UNCHANGED configVars, NEW args, NEW fail,
         Emit(args, fail) \/ ProcessLine(args, fail), result = "ok", result' = "dropped"
  PROVE  /\ api' = "json" /\ event' = None /\ id' = None /\ retry' = None
         /\ ~seen' /\ ~locked' /\ fed' = <<>>
<1>1. api' = api /\ api \in {"plain", "json"}
  BY DEF configVars, ApiInv
<1>2. ASSUME NEW held, NEW p, NEW left, JsonDrop(held, p, left)
      PROVE  event' = None /\ id' = None /\ retry' = None /\ ~seen' /\ ~locked' /\ fed' = <<>>
  BY <1>2 DEF JsonDrop, JsonReset
<1>3. ASSUME Emit(args, fail)
      PROVE  api = "json" /\ \E held, p, left : JsonDrop(held, p, left)
  BY <1>1, <1>3 DEF Emit, PlainEmit, JsonEmit, Failed
<1>4. ASSUME NEW l, Data(l, args, fail)
      PROVE  api = "json" /\ \E held, p, left : JsonDrop(held, p, left)
  BY <1>1, <1>4 DEF Data, PlainData, JsonData, Failed
<1>5. ASSUME NEW l, Field(l, fail) PROVE FALSE
  BY <1>5 DEF Field, Failed
<1>6. api = "json" /\ \E held, p, left : JsonDrop(held, p, left)
  BY <1>3, <1>4, <1>5 DEF ProcessLine
<1> QED
  BY <1>1, <1>2, <1>6

\* Steps that read on without processing a line.
LEMMA DescribesKept ==
  ASSUME UNCHANGED <<configVars, eventVars, log>>, NEW p, NEW g, Describes(p, g)
  PROVE  Describes(p, g)'
<1>1. UNCHANGED <<api, filtered, event, id, retry, pending, started, begin, seen, len,
                  locked, selected, fed, log>>
  BY DEF configVars, eventVars, metaVars, plainVars, jsonVars
<1>2. Told(g)' <=> Told(g)
  BY <1>1 DEF Told
<1>3. api = "plain" => PlainDescribes(p, g)'
  BY <1>1, <1>2 DEF Describes, PlainDescribes
<1>4. api = "json" => JsonDescribes(p, g)'
  BY <1>1, <1>2, FilterKept DEF Describes, JsonDescribes
<1> QED
  BY <1>1, <1>3, <1>4 DEF Describes

\* Every step keeps the invariant.
LEMMA FeedLfFaith ==
  ASSUME SseInv, ApiInv, FaithInv, NEW args, NEW fail, FeedLf(args, fail)
  PROVE  FaithInv'
<1>1. /\ ~closed /\ finishing = {} /\ result = "ok" /\ ProcessLine(args, fail)
      /\ line' = <<>> /\ sawCr' = FALSE /\ Note("LF")
      /\ UNCHANGED configVars /\ ~closed' /\ finishing' = {}
  BY DEF FeedLf, Accepting
<1>2. LineInv'
  BY <1>1 DEF LineInv
<1>3. ASSUME result' = "dropped" PROVE Forgotten'
  BY <1>1, <1>3, DropForgets DEF Forgotten
<1>4. ASSUME result' = "ok"
      PROVE  \E pre : (Framed(pre) /\ Describes(Past(pre), Current(pre)))'
  <2>1. PICK pre : Framed(pre) /\ Describes(Past(pre), Current(pre))
    BY <1>1 DEF FaithInv
  <2>2. PICK t : t = Append(raw, "LF")
    OBVIOUS
  <2>3. LineInv /\ pre \in Seq(Symbols) /\ raw \in Seq(Symbols)
    BY <2>1, BodyFacts DEF FaithInv, Framed
  <2>4. Ended(t, pre)
    BY <1>1, <2>1, <2>2, <2>3, EndAtLf
  <2>5. Describes(Past(t), Current(t))'
    BY <1>1, <1>4, <2>1, <2>3, <2>4, ProcessDescribes
  <2>6. raw' = t
    BY <1>1, <1>4, <2>2 DEF Note
  <2>7. t \in Seq(Symbols) /\ t[Len(t)] = "LF"
    BY <2>2, <2>3, SymbolFacts, AppendProperties
  <2>8. Framed(t)'
    BY <1>1, <2>6, <2>7, SymbolFacts DEF Framed, Body
  <2> QED
    BY <2>5, <2>8
<1> QED
  BY <1>1, <1>2, <1>3, <1>4 DEF FaithInv

LEMMA FeedAfterCrFaith ==
  ASSUME SseInv, ApiInv, FaithInv, NEW ch \in Contents \cup {"CR"}, NEW args, NEW fail,
         FeedAfterCr(ch, args, fail)
  PROVE  FaithInv'
<1>1. /\ ~closed /\ finishing = {} /\ result = "ok" /\ sawCr /\ ProcessLine(args, fail)
      /\ sawCr' = (ch = "CR" /\ result' = "ok")
      /\ line' = IF result' = "ok" /\ ch # "CR" THEN <<ch>> ELSE <<>>
      /\ Note(ch) /\ UNCHANGED configVars /\ ~closed' /\ finishing' = {}
  BY DEF FeedAfterCr, Accepting
<1>2. LineInv'
  BY <1>1 DEF LineInv
<1>3. ASSUME result' = "dropped" PROVE Forgotten'
  BY <1>1, <1>3, DropForgets DEF Forgotten
<1>4. ASSUME result' = "ok"
      PROVE  \E pre : (Framed(pre) /\ Describes(Past(pre), Current(pre)))'
  <2>1. PICK pre : Framed(pre) /\ Describes(Past(pre), Current(pre))
    BY <1>1 DEF FaithInv
  <2>2. PICK t : t = raw
    OBVIOUS
  <2>3. LineInv /\ pre \in Seq(Symbols) /\ t \in Seq(Symbols)
    BY <2>1, <2>2, BodyFacts DEF FaithInv, Framed
  <2>4. Ended(t, pre) /\ t[Len(t)] = "CR"
    BY <1>1, <2>1, <2>2, <2>3, EndAtCr
  <2>5. Describes(Past(t), Current(t))'
    BY <1>1, <1>4, <2>1, <2>3, <2>4, ProcessDescribes
  <2>6. raw' = Append(t, ch)
    BY <1>1, <1>4, <2>2 DEF Note
  <2>7. Framed(t)'
    <3>1. CASE ch = "CR"
      <4>1. line' = <<>> /\ sawCr'
        BY <1>1, <1>4, <3>1
      <4> QED
        BY <1>1, <2>3, <2>4, <2>6, <3>1, <4>1, SymbolFacts DEF Framed, Body
    <3>2. CASE ch # "CR"
      <4>1. line' = <<ch>> /\ line' # <<>> /\ line'[1] = ch /\ ~sawCr'
        BY <1>1, <1>4, <3>2
      <4> QED
        BY <1>1, <2>3, <2>4, <2>6, <4>1, SymbolFacts DEF Framed, Body
    <3> QED
      BY <3>1, <3>2
  <2> QED
    BY <2>5, <2>7
<1> QED
  BY <1>1, <1>2, <1>3, <1>4 DEF FaithInv

LEMMA FeedCrFaith ==
  ASSUME FaithInv, FeedCr PROVE FaithInv'
<1>1. /\ ~closed /\ finishing = {} /\ result = "ok" /\ ~sawCr /\ sawCr' = TRUE
      /\ raw' = Append(raw, "CR") /\ line' = line /\ ~closed' /\ finishing' = {}
      /\ UNCHANGED <<configVars, eventVars, log>> /\ result' = "ok"
  BY DEF FeedCr, Accepting
<1>2. LineInv'
  BY <1>1 DEF FaithInv, LineInv
<1>3. PICK pre : Framed(pre) /\ Describes(Past(pre), Current(pre))
  BY <1>1 DEF FaithInv
<1>4. Describes(Past(pre), Current(pre))'
  BY <1>1, <1>3, DescribesKept
<1>5. Framed(pre)'
  BY <1>1, <1>3 DEF Framed, Body
<1>6. \E q : (Framed(q) /\ Describes(Past(q), Current(q)))'
  BY <1>4, <1>5
<1> QED
  BY <1>1, <1>2, <1>6 DEF FaithInv

LEMMA FeedContentFaith ==
  ASSUME FaithInv, NEW l \in Contents, NEW fail, FeedContent(l, fail) PROVE FaithInv'
<1>1. /\ ~closed /\ finishing = {} /\ result = "ok" /\ ~sawCr /\ line = <<>>
      /\ IF fail = "memory" THEN Failed /\ UNCHANGED line ELSE line' = <<l>> /\ UNCHANGED result
      /\ Note(l) /\ ~closed' /\ finishing' = {} /\ sawCr' = sawCr
      /\ UNCHANGED <<configVars, eventVars, log>>
  BY DEF FeedContent, Accepting
<1>2. LineInv'
  BY <1>1 DEF FaithInv, LineInv
<1>3. result' # "dropped"
  BY <1>1 DEF Failed
<1>4. ASSUME result' = "ok"
      PROVE  \E pre : (Framed(pre) /\ Describes(Past(pre), Current(pre)))'
  <2>1. PICK pre : Framed(pre) /\ Describes(Past(pre), Current(pre))
    BY <1>1 DEF FaithInv
  <2>2. Describes(Past(pre), Current(pre))'
    BY <1>1, <2>1, DescribesKept
  <2>3. raw = pre /\ raw' = Append(pre, l) /\ line' = <<l>> /\ line' # <<>> /\ line'[1] = l
    BY <1>1, <1>4, <2>1 DEF Framed, Body, Note, Failed
  <2>4. Framed(pre)'
    BY <1>1, <2>1, <2>3 DEF Framed, Body
  <2> QED
    BY <2>2, <2>4
<1> QED
  BY <1>1, <1>2, <1>3, <1>4 DEF FaithInv

LEMMA FinishLineFaith ==
  ASSUME SseInv, ApiInv, FaithInv, NEW args, NEW fail, FinishLine(args, fail)
  PROVE  FaithInv'
<1>1. /\ ~closed /\ finishing = {} /\ result = "ok" /\ (sawCr \/ line # <<>>)
      /\ ProcessLine(args, fail) /\ line' = <<>> /\ sawCr' = FALSE
      /\ finishing' = IF result' = "ok" THEN {args} ELSE {}
      /\ UNCHANGED configVars /\ ~closed' /\ raw' = raw
  BY DEF FinishLine
<1>2. LineInv'
  BY <1>1 DEF LineInv
<1>3. ASSUME result' = "dropped" PROVE Forgotten'
  BY <1>1, <1>3, DropForgets DEF Forgotten
<1>4. ASSUME result' = "ok"
      PROVE  \E pre : (Framed(pre) /\ Describes(Past(pre), Current(pre)))'
  <2>1. PICK pre : Framed(pre) /\ Describes(Past(pre), Current(pre))
    BY <1>1 DEF FaithInv
  <2>2. PICK t : t = raw
    OBVIOUS
  <2>3. LineInv /\ pre \in Seq(Symbols) /\ t \in Seq(Symbols)
    BY <2>1, <2>2, BodyFacts DEF FaithInv, Framed
  <2>4. Ended(t, pre)
    BY <1>1, <2>1, <2>2, <2>3, EndAtCr, EndUnended
  <2>5. Describes(Past(t), Current(t))'
    BY <1>1, <1>4, <2>1, <2>3, <2>4, ProcessDescribes
  <2>6. Framed(t)'
    BY <1>1, <1>4, <2>2, <2>3 DEF Framed, Body
  <2> QED
    BY <2>5, <2>6
<1> QED
  BY <1>1, <1>2, <1>3, <1>4 DEF FaithInv

\* A stream without unnoticed events.
LEMMA AllNoticed ==
  ASSUME NEW s \in Seq(Symbols)
  PROVE  BareUnselected(s) <=> ~Noticed(AllEvents(s))
<1> DEFINE n == Number(s)
           q == AllEvents(s)
<1>1. n \in Nat
  BY NumberType
<1>2. Len(q) = n + 1 /\ \A k \in 1..(n + 1) : q[k] = EventLines(s, k - 1)
  <2>1. q = Append(Past(s), Current(s)) /\ Len(Past(s)) = n /\ Past(s) \in Seq(Groups)
        /\ Current(s) \in Groups
    BY AllEventsSplit, PastType
  <2>2. Len(q) = n + 1
    BY <2>1, AppendProperties
  <2>3. q = [k \in 1..(n + 1) |-> EventLines(s, k - 1)]
    BY DEF AllEvents, Number
  <2> HIDE DEF q
  <2> QED
    BY <2>2, <2>3
<1>3. BareUnselected(s) <=> \E k \in 0..n : Bare(EventLines(s, k))
  BY DEF BareUnselected, Bare, Number
<1>4. Noticed(q) <=> \A k \in 1..(n + 1) : ~Bare(EventLines(s, k - 1))
  <2> HIDE DEF q
  <2> QED
    BY <1>2 DEF Noticed
<1>5. \A k \in 0..n : k + 1 \in 1..(n + 1) /\ (k + 1) - 1 = k
  BY <1>1
<1>6. \A k \in 1..(n + 1) : k - 1 \in 0..n
  BY <1>1
<1> HIDE DEF n, q
<1>7. ASSUME BareUnselected(s) PROVE ~Noticed(q)
  <2>1. PICK k \in 0..n : Bare(EventLines(s, k))
    BY <1>3, <1>7
  <2>2. Bare(EventLines(s, (k + 1) - 1)) /\ k + 1 \in 1..(n + 1)
    BY <1>5, <2>1
  <2> QED
    BY <1>4, <2>2
<1>8. ASSUME ~Noticed(q) PROVE BareUnselected(s)
  BY <1>3, <1>4, <1>6, <1>8
<1> QED
  BY <1>7, <1>8 DEF q

LEMMA FinishEmitFaith ==
  ASSUME SseInv, ApiInv, FaithInv, NEW args, NEW fail, FinishEmit(args, fail)
  PROVE  FaithInv'
<1>1. /\ ~closed /\ result = "ok" /\ ~sawCr /\ line = <<>> /\ Emit(args, fail)
      /\ closed' = (result' = "ok") /\ finishing' = {}
      /\ UNCHANGED configVars /\ line' = line /\ sawCr' = sawCr /\ raw' = raw
  BY DEF FinishEmit
<1>2. LineInv'
  BY <1>1 DEF FaithInv, LineInv
<1>3. ASSUME result' = "dropped" PROVE Forgotten'
  BY <1>1, <1>3, DropForgets DEF Forgotten
<1>4. ASSUME result' = "ok" PROVE Exact'
  <2>1. PICK pre : Framed(pre) /\ Describes(Past(pre), Current(pre))
    BY <1>1 DEF FaithInv
  <2>2. raw = pre /\ pre \in Seq(Symbols)
    BY <1>1, <2>1 DEF Framed, Body
  <2>3. Past(pre) \in Seq(Groups) /\ Current(pre) \in Groups
    BY <2>2, PastType
  <2>4. Describes(Append(Past(pre), Current(pre)), <<>>)'
    BY <1>1, <1>4, <2>1, <2>3, EmitDescribes
  <2>5. AllEvents(pre) = Append(Past(pre), Current(pre))
    BY <2>2, AllEventsSplit
  <2>6. Describes(AllEvents(pre), <<>>)'
    BY <2>4, <2>5
  <2>7. api' = api /\ filtered' = filtered /\ raw' = pre
    BY <1>1, <2>2 DEF configVars
  <2>8. api' = "plain" => log' = PlainEvents(AllEvents(pre))
    BY <2>6 DEF Describes, PlainDescribes
  <2>9. api' = "json" /\ Noticed(AllEvents(pre)) => log' = JsonEvents(AllEvents(pre))
    BY <2>6, <2>7, FilterKept DEF Describes, JsonDescribes
  <2>10. (BareUnselected(raw))' <=> BareUnselected(pre)
    BY <2>7 DEF BareUnselected, Matching
  <2>11. (JsonReference(raw))' = JsonEvents(AllEvents(pre))
    <3>1. (JsonReference(raw))' = JsonEvents(AllEvents(pre))'
      BY <2>7 DEF JsonReference
    <3> QED
      BY <2>7, <3>1, FilterKept
  <2>12. (PlainReference(raw))' = PlainEvents(AllEvents(pre))
    BY <2>7 DEF PlainReference
  <2> QED
    BY <2>2, <2>7, <2>8, <2>9, <2>10, <2>11, <2>12, AllNoticed DEF Exact
<1> QED
  BY <1>1, <1>2, <1>3, <1>4 DEF FaithInv

LEMMA ResumeFaith ==
  ASSUME FaithInv, Resume PROVE FaithInv'
<1>1. /\ Forgotten /\ result' = "ok" /\ raw' = <<>> /\ log' = <<>>
      /\ UNCHANGED <<configVars, frameVars, eventVars>>
  BY DEF Resume, FaithInv
<1>2. UNCHANGED <<api, line, sawCr, closed, finishing, event, id, retry, seen, locked, fed>>
  BY <1>1 DEF configVars, frameVars, eventVars, metaVars, jsonVars
<1>3. sawCr \in BOOLEAN
  BY DEF FaithInv, LineInv
<1>4. Fresh' /\ ~closed'
  BY <1>1, <1>2, <1>3 DEF Forgotten, Fresh
<1> QED
  BY <1>1, <1>4, FreshFaith

LEMMA CloseFaith ==
  ASSUME Close PROVE FaithInv'
<1>1. Fresh' /\ result' = "ok" /\ ~closed'
  BY DEF Close, ResetEvent, Fresh
<1> QED
  BY <1>1, FreshFaith

LEMMA IdleFaith ==
  ASSUME FaithInv, UNCHANGED vars PROVE FaithInv'
<1>1. /\ UNCHANGED <<configVars, eventVars, log>>
      /\ UNCHANGED <<line, sawCr, closed, finishing, raw, result, api, filtered, event, id, retry,
                     seen, locked, fed>>
  BY DEF vars, configVars, frameVars, eventVars, metaVars, jsonVars
<1>2. LineInv' /\ (result' = "dropped" => Forgotten')
  BY <1>1 DEF FaithInv, LineInv, Forgotten
<1>3. ASSUME result' = "ok", ~closed'
      PROVE  \E pre : (Framed(pre) /\ Describes(Past(pre), Current(pre)))'
  <2>1. PICK pre : Framed(pre) /\ Describes(Past(pre), Current(pre))
    BY <1>1, <1>3 DEF FaithInv
  <2>2. Describes(Past(pre), Current(pre))'
    BY <1>1, <2>1, DescribesKept
  <2>3. Framed(pre)'
    BY <1>1, <2>1 DEF Framed, Body
  <2> QED
    BY <2>2, <2>3
<1>4. ASSUME closed' PROVE Exact'
  <2>1. Exact
    BY <1>1, <1>4 DEF FaithInv
  <2>2. PICK s : s = raw
    OBVIOUS
  <2>3. (BareUnselected(raw))' <=> BareUnselected(raw)
    BY <1>1 DEF BareUnselected, Matching
  <2>4. (JsonReference(raw))' = JsonReference(raw)
    <3>1. (JsonReference(raw))' = JsonEvents(AllEvents(s))'
      BY <1>1, <2>2 DEF JsonReference
    <3> QED
      BY <1>1, <2>2, <3>1, FilterKept DEF JsonReference
  <2>5. (PlainReference(raw))' = PlainReference(raw)
    BY <1>1 DEF PlainReference
  <2>6. UNCHANGED <<api, log, raw>>
    BY <1>1
  <2> QED
    BY <2>1, <2>3, <2>4, <2>5, <2>6 DEF Exact
<1> QED
  BY <1>2, <1>3, <1>4 DEF FaithInv

LEMMA StepFaith ==
  ASSUME SseInv, ApiInv, FaithInv, [Next]_vars PROVE FaithInv'
BY FeedLfFaith, FeedAfterCrFaith, FeedCrFaith, FeedContentFaith, FinishLineFaith,
   FinishEmitFaith, ResumeFaith, CloseFaith, IdleFaith DEF Next

-----------------------------------------------------------------------------
(***************************************************************************)
(* What the invariant says of the events dispatched.                       *)
(***************************************************************************)
\* x is the beginning of y.
Leads(x, y) == Len(x) <= Len(y) /\ \A i \in 1..Len(x) : y[i] = x[i]

LEMMA LeadsTransitive ==
  ASSUME NEW S, NEW x \in Seq(S), NEW y \in Seq(S), NEW z \in Seq(S), Leads(x, y), Leads(y, z)
  PROVE  Leads(x, z)
<1>1. Len(x) \in Nat /\ Len(y) \in Nat /\ Len(z) \in Nat
  OBVIOUS
<1>2. Len(x) <= Len(y) /\ Len(y) <= Len(z) /\ \A i \in 1..Len(x) : i \in 1..Len(y)
  BY <1>1 DEF Leads
<1>3. Len(x) <= Len(z)
  BY <1>1, <1>2
<1> QED
  BY <1>2, <1>3 DEF Leads

LEMMA LeadsIsPrefix ==
  ASSUME NEW S, NEW x \in Seq(S), NEW y \in Seq(S), Leads(x, y)
  PROVE  x = SubSeq(y, 1, Len(x))
<1> DEFINE n == Len(x)
           a == SubSeq(y, 1, n)
<1>1. n \in Nat /\ n <= Len(y) /\ Len(y) \in Nat /\ \A i \in 1..n : y[i] = x[i]
  BY DEF Leads
<1>2. \A i \in 1..n : y[i] \in S
  BY <1>1
<1>3. n \in Int /\ 1 \in Int
  BY <1>1
<1>4. a \in Seq(S) /\ Len(a) = (IF 1 <= n THEN n - 1 + 1 ELSE 0)
      /\ \A i \in 1..(n - 1 + 1) : a[i] = y[1 + i - 1]
  BY <1>2, <1>3, SubSeqProperties
<1> HIDE DEF a
<1>5. Len(a) = n
  BY <1>1, <1>4
<1>6. \A i \in 1..n : 1 + i - 1 = i /\ i \in 1..(n - 1 + 1)
  BY <1>1
<1>7. \A i \in 1..n : x[i] = a[i]
  BY <1>1, <1>4, <1>6
<1>8. x = a
  BY <1>4, <1>5, <1>7, SeqEqual
<1> QED
  BY <1>8 DEF a

LEMMA AppendLeads ==
  ASSUME NEW S, NEW x \in Seq(S), NEW e \in S
  PROVE  Leads(x, x) /\ Leads(x, Append(x, e)) /\ Append(x, e) \in Seq(S)
<1>1. Len(x) \in Nat
  OBVIOUS
<1> QED
  BY <1>1, AppendProperties DEF Leads

\* What was dispatched is the beginning of what will be.
LEMMA PlainLeads ==
  ASSUME NEW p \in Seq(Groups), NEW g \in Groups
  PROVE  /\ PlainEvents(p) \in Seq(PlainLog) /\ PlainEvents(Append(p, g)) \in Seq(PlainLog)
         /\ Leads(PlainEvents(p), PlainEvents(p))
         /\ Leads(PlainEvents(p), PlainEvents(Append(p, g)))
<1>1. PlainEvent(g) \in PlainLog
  BY DEF PlainLog
<1> QED
  BY <1>1, PlainEventsGrow, AppendLeads

LEMMA JsonLeads ==
  ASSUME NEW p \in Seq(Groups), NEW g \in Groups
  PROVE  /\ JsonEvents(p) \in Seq(JsonLog) /\ JsonEvents(Append(p, g)) \in Seq(JsonLog)
         /\ Leads(JsonEvents(p), JsonEvents(p))
         /\ Leads(JsonEvents(p), JsonEvents(Append(p, g)))
<1>1. JsonEvent(g) \in JsonLog
  BY DEF JsonLog
<1> QED
  BY <1>1, JsonEventsGrow, AppendLeads

\* The events ended so far are among those of the whole stream.
LEMMA PastOfStream ==
  ASSUME LineInv, NEW pre, Framed(pre)
  PROVE  /\ raw \in Seq(Symbols) /\ pre \in Seq(Symbols)
         /\ Past(raw) = Past(pre) \/ Past(raw) = Append(Past(pre), Current(pre))
<1>1. raw \in Seq(Symbols) /\ pre \in Seq(Symbols)
  BY BodyFacts DEF Framed
<1>2. CASE sawCr
  <2>1. finishing = {}
    BY <1>2 DEF Framed
  <2>2. Ended(raw, pre)
    BY <1>2, <2>1, EndAtCr
  <2> QED
    BY <1>1, <2>2 DEF Ended
<1>3. CASE ~sawCr /\ line = <<>>
  BY <1>1, <1>3 DEF Framed, Body
<1>4. CASE ~sawCr /\ line # <<>>
  BY <1>1, <1>4, EndUnended DEF Ended
<1> QED
  BY <1>2, <1>3, <1>4

\* So the events dispatched are those of the stream.
LEMMA PlainAgrees ==
  ASSUME FaithInv, api = "plain", result = "ok" PROVE Agrees(PlainReference(raw))
<1> DEFINE ref == PlainReference(raw)
<1>1. CASE closed
  <2>1. log = ref /\ raw \in Seq(Symbols)
    BY <1>1 DEF FaithInv, Exact
  <2>2. ref \in Seq(PlainLog)
    BY <2>1, AllEventsSplit, PastType, PlainLeads DEF PlainReference
  <2> HIDE DEF ref
  <2>3. log = SubSeq(ref, 1, Len(log))
    BY <2>1, <2>2, SubSeqFull
  <2> QED
    BY <2>1, <2>3 DEF Agrees, ref
<1>2. CASE ~closed
  <2>1. PICK pre : Framed(pre) /\ Describes(Past(pre), Current(pre))
    BY <1>2 DEF FaithInv
  <2> DEFINE p == Past(pre)
             g == Current(pre)
             q == Past(raw)
             h == Current(raw)
  <2>2. raw \in Seq(Symbols) /\ pre \in Seq(Symbols) /\ (q = p \/ q = Append(p, g))
    BY <2>1, PastOfStream DEF FaithInv
  <2>3. p \in Seq(Groups) /\ g \in Groups /\ q \in Seq(Groups) /\ h \in Groups
    BY <2>2, PastType
  <2>4. log = PlainEvents(p) /\ ref = PlainEvents(Append(q, h))
    BY <2>1, <2>2, AllEventsSplit DEF Describes, PlainDescribes, PlainReference
  <2> HIDE DEF p, g, q, h, ref
  <2>5. Leads(PlainEvents(p), PlainEvents(q)) /\ Leads(PlainEvents(q), PlainEvents(Append(q, h)))
        /\ PlainEvents(p) \in Seq(PlainLog) /\ PlainEvents(q) \in Seq(PlainLog)
        /\ PlainEvents(Append(q, h)) \in Seq(PlainLog)
    BY <2>2, <2>3, PlainLeads
  <2>6. Leads(log, ref) /\ log \in Seq(PlainLog) /\ ref \in Seq(PlainLog)
    BY <2>4, <2>5, LeadsTransitive
  <2>7. log = SubSeq(ref, 1, Len(log))
    BY <2>6, LeadsIsPrefix
  <2> QED
    BY <1>2, <2>7 DEF Agrees, ref
<1> QED
  BY <1>1, <1>2

LEMMA JsonAgrees ==
  ASSUME FaithInv, api = "json", result = "ok", ~BareUnselected(raw)
  PROVE  Agrees(JsonReference(raw))
<1> DEFINE ref == JsonReference(raw)
<1>1. CASE closed
  <2>1. log = ref /\ raw \in Seq(Symbols)
    BY <1>1 DEF FaithInv, Exact
  <2>2. ref \in Seq(JsonLog)
    BY <2>1, AllEventsSplit, PastType, JsonLeads DEF JsonReference
  <2> HIDE DEF ref
  <2>3. log = SubSeq(ref, 1, Len(log))
    BY <2>1, <2>2, SubSeqFull
  <2> QED
    BY <2>1, <2>3 DEF Agrees, ref
<1>2. CASE ~closed
  <2>1. PICK pre : Framed(pre) /\ Describes(Past(pre), Current(pre))
    BY <1>2 DEF FaithInv
  <2> DEFINE p == Past(pre)
             g == Current(pre)
             q == Past(raw)
             h == Current(raw)
  <2>2. raw \in Seq(Symbols) /\ pre \in Seq(Symbols) /\ (q = p \/ q = Append(p, g))
    BY <2>1, PastOfStream DEF FaithInv
  <2>3. p \in Seq(Groups) /\ g \in Groups /\ q \in Seq(Groups) /\ h \in Groups
    BY <2>2, PastType
  <2>4. Noticed(Append(q, h)) /\ ref = JsonEvents(Append(q, h))
    BY <2>2, AllEventsSplit, AllNoticed DEF JsonReference
  <2>5. JsonDescribes(p, g)
    BY <2>1 DEF Describes
  <2> HIDE DEF p, g, q, h, ref
  <2>6. Noticed(p)
    BY <2>2, <2>3, <2>4, NoticedGrow
  <2>7. log = JsonEvents(p)
    BY <2>5, <2>6 DEF JsonDescribes
  <2>8. Leads(JsonEvents(p), JsonEvents(q)) /\ Leads(JsonEvents(q), JsonEvents(Append(q, h)))
        /\ JsonEvents(p) \in Seq(JsonLog) /\ JsonEvents(q) \in Seq(JsonLog)
        /\ JsonEvents(Append(q, h)) \in Seq(JsonLog)
    BY <2>2, <2>3, JsonLeads
  <2>9. Leads(log, ref) /\ log \in Seq(JsonLog) /\ ref \in Seq(JsonLog)
    BY <2>4, <2>7, <2>8, LeadsTransitive
  <2>10. log = SubSeq(ref, 1, Len(log))
    BY <2>9, LeadsIsPrefix
  <2> QED
    BY <1>2, <2>10 DEF Agrees, ref
<1> QED
  BY <1>1, <1>2

LEMMA FaithHolds == Spec => [](SseInv /\ FaithInv)
<1>1. Init => SseInv /\ ApiInv /\ FaithInv
  BY InitInv, InitFaith
<1>2. SseInv /\ ApiInv /\ FaithInv /\ [Next]_vars => SseInv' /\ ApiInv' /\ FaithInv'
  BY StepInv, StepFaith
<1> QED
  BY <1>1, <1>2, PTL DEF Spec

\* However the stream is cut into pushes and whichever line ends it uses, the
\* callbacks see exactly its events (sse_feed_char, sse_process_line, sse_emit
\* and sse_finish): begin_event once with the metadata known by then, the data
\* lines joined by newlines and within max_event_data_bytes, end_event with all
\* of the metadata; while the stream goes on, the first of them; once
\* sse_finish has returned, all of them.
THEOREM PlainFaithful == Spec => []PlainEventsFaithful
<1>1. SseInv /\ FaithInv => PlainEventsFaithful
  BY PlainAgrees DEF SseInv, DataInv, PlainEventsFaithful
<1> QED
  BY <1>1, FaithHolds, PTL

\* The JSON callback gets each event the filter selects, with all of its data,
\* also after an event that was dropped (sse_json_process_line, sse_json_emit),
\* in any stream without an unselected event that has nothing but data.
THEOREM JsonFaithful == Spec => []JsonEventsFaithful
<1>1. SseInv /\ FaithInv => JsonEventsFaithful
  BY JsonAgrees DEF JsonEventsFaithful
<1> QED
  BY <1>1, FaithHolds, PTL
==============================================================================
