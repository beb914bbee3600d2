--------------------------- MODULE MultipartProofs ---------------------------
(***************************************************************************)
(* Proofs about Multipart: no byte of a body is lost, bodies are cut at    *)
(* the delimiters and nowhere else, and the lookahead holds no more than a *)
(* line end and the beginning of a delimiter line, for any boundary, any   *)
(* limits and streams of any length.                                       *)
(***************************************************************************)
EXTENDS Multipart, SequenceTheorems, WellFoundedInduction, TLAPS

Bytes == Seq(BodyBytes)

TypeOK ==
  /\ phase \in {"expect", "headers", "length", "scan", "done"}
  /\ body \in Bytes /\ raw \in Bytes /\ bodyOut \in Bytes
  /\ contentLength \in Int /\ remaining \in Int
  /\ begun \in Nat /\ partsEnded \in Nat
  /\ stopped \in BOOLEAN /\ closed \in BOOLEAN /\ bareCr \in BOOLEAN

(***************************************************************************)
(* The lookahead: a line end of n bytes, then what may become delimiter l. *)
(***************************************************************************)
Eol(b, n) ==
  \/ n = 0
  \/ n = 1 /\ b[1] = "LF"
  \/ n = 2 /\ b[1] = "CR" /\ b[2] = "LF"

\* After n bytes b goes on like l and its line end CR LF, without the LF.
Held(b, n, l) ==
  \A j \in 1..(Len(b) - n) :
    /\ j <= Len(l) => b[n + j] = l[j]
    /\ j = Len(l) + 1 => b[n + j] = "CR"
    /\ j = Len(l) + 2 => b[n + j] # "LF"

\* What was delivered before: the line end held back is all of it.
NotCut(d, n) ==
  d # <<>> => /\ n = 0 => d[Len(d)] \notin {"CR", "LF"}
              /\ n = 1 => d[Len(d)] # "CR"

Lookahead(b, d) ==
  \/ b = <<"CR">>
  \/ \E n \in 0..2, l \in Delimiters :
       n <= Len(b) /\ Eol(b, n) /\ Held(b, n, l) /\ NotCut(d, n)

(***************************************************************************)
(* The inductive invariant.                                                *)
(***************************************************************************)
ScanInv == phase = "scan" /\ InBody => Lookahead(body, bodyOut)

\* Outside a scanned body nothing is held.
HoldsOnlyScanning == phase # "scan" => body = <<>>

\* d is the beginning of t, and none of its lines may become a delimiter in t.
Settled(d, t) ==
  /\ Len(d) <= Len(t) /\ \A i \in 1..Len(d) : d[i] = t[i]
  /\ \A p \in 1..Len(d) : LineStart(t, p) => \A l \in Delimiters : ~BoundaryPrefix(t, p, l)

SettledInv == phase = "scan" /\ InBody => Settled(bodyOut, bodyOut \o body)

\* Parts are begun and ended in turn.
PartsInv ==
  /\ ~stopped => begun = IF phase \in {"scan", "length"} THEN partsEnded + 1 ELSE partsEnded
  /\ closed \/ phase = "done" => phase = "done" /\ begun = partsEnded
  /\ finished = "ok" => phase = "done"
  /\ phase = "length" /\ ~stopped => remaining > 0

MultipartInv ==
  /\ TypeOK
  /\ HoldsOnlyScanning
  /\ ScanInv
  /\ SettledInv
  /\ NoByteLost
  /\ PartEndsAtDelimiter
  /\ NoDelimiterDelivered
  /\ PartsInv

-----------------------------------------------------------------------------
(***************************************************************************)
(* The delimiters.                                                         *)
(***************************************************************************)
B == Len(BoundaryLine)

LEMMA BoundaryLineFacts ==
  /\ BoundaryLine \in Seq(BodyBytes \ {"CR", "LF"}) /\ B \in Nat /\ B >= 3
  /\ BoundaryLine[1] = "-"
<1> DEFINE L == BodyBytes \ {"CR", "LF"}
           d == <<"-", "-">>
<1>1. "-" \in L /\ Boundary \in Seq(L) /\ Boundary # <<>>
  BY MultipartAssumption
<1>2. d \in Seq(L) /\ Len(d) = 2 /\ d[1] = "-"
  BY <1>1
<1> HIDE DEF L, d
<1>3. /\ d \o Boundary \in Seq(L) /\ Len(d \o Boundary) = Len(d) + Len(Boundary)
      /\ \A i \in 1..(Len(d) + Len(Boundary)) :
           (d \o Boundary)[i] = IF i <= Len(d) THEN d[i] ELSE Boundary[i - Len(d)]
  BY <1>1, <1>2, ConcatProperties
<1>4. Len(Boundary) \in Nat /\ Len(Boundary) > 0
  BY <1>1, EmptySeq, LenProperties
<1>5. BoundaryLine = d \o Boundary
  BY DEF BoundaryLine, d
<1> QED
  BY <1>2, <1>3, <1>4, <1>5 DEF B, L

LEMMA ClosingLineFacts ==
  /\ ClosingLine \in Seq(BodyBytes \ {"CR", "LF"}) /\ Len(ClosingLine) = B + 2
  /\ \A i \in 1..B : ClosingLine[i] = BoundaryLine[i]
  /\ ClosingLine[B + 1] = "-"
<1> DEFINE L == BodyBytes \ {"CR", "LF"}
           d == <<"-", "-">>
<1>1. "-" \in L
  BY MultipartAssumption
<1>2. d \in Seq(L) /\ Len(d) = 2 /\ d[1] = "-"
  BY <1>1
<1>3. BoundaryLine \in Seq(L) /\ B \in Nat
  BY BoundaryLineFacts
<1> HIDE DEF L, d
<1>4. /\ BoundaryLine \o d \in Seq(L) /\ Len(BoundaryLine \o d) = B + Len(d)
      /\ \A i \in 1..(B + Len(d)) :
           (BoundaryLine \o d)[i] = IF i <= B THEN BoundaryLine[i] ELSE d[i - B]
  BY <1>2, <1>3, ConcatProperties DEF B
<1>5. ClosingLine = BoundaryLine \o d
  BY DEF ClosingLine, d
<1> QED
  BY <1>2, <1>3, <1>4, <1>5 DEF L

\* A delimiter has no line end in it, and starts with a dash.
LEMMA DelimiterFacts ==
  ASSUME NEW l \in Delimiters
  PROVE  /\ l \in Bytes /\ Len(l) \in Nat /\ Len(l) >= 3 /\ l[1] = "-"
         /\ \A i \in 1..Len(l) : l[i] \notin {"CR", "LF"}
<1>1. \A s \in Seq(BodyBytes \ {"CR", "LF"}) :
        /\ s \in Bytes /\ Len(s) \in Nat
        /\ \A i \in 1..Len(s) : s[i] \notin {"CR", "LF"}
  BY DEF Bytes
<1>2. CASE l = BoundaryLine
  BY <1>1, <1>2, BoundaryLineFacts DEF B
<1>3. CASE l = ClosingLine
  BY <1>1, <1>3, BoundaryLineFacts, ClosingLineFacts
<1> QED
  BY <1>2, <1>3 DEF Delimiters

\* Nothing goes on like both delimiters and then ends the line.
LEMMA DelimitersDiffer ==
  ASSUME NEW k \in Delimiters, NEW l \in Delimiters, k # l, NEW f,
         \A j \in 1..Len(k) : f[j] = k[j],
         Len(k) + 1 <= Len(l) => f[Len(k) + 1] \in {"CR", "LF"},
         \A j \in 1..Len(l) : f[j] = l[j],
         Len(l) + 1 <= Len(k) => f[Len(l) + 1] \in {"CR", "LF"}
  PROVE  FALSE
<1>1. B \in Nat /\ B >= 3 /\ Len(ClosingLine) = B + 2 /\ ClosingLine[B + 1] = "-"
  BY BoundaryLineFacts, ClosingLineFacts
<1>2. CASE k = BoundaryLine /\ l = ClosingLine
  BY <1>1, <1>2 DEF B
<1>3. CASE k = ClosingLine /\ l = BoundaryLine
  BY <1>1, <1>3 DEF B
<1> QED
  BY <1>2, <1>3 DEF Delimiters

(***************************************************************************)
(* Searching, byte by byte.                                                *)
(***************************************************************************)
LEMMA MatchesBytewise ==
  ASSUME NEW S, NEW b \in Seq(S), NEW s \in Seq(S), NEW p \in Nat, p >= 1, s # <<>>
  PROVE  Matches(b, p, s) <=> /\ p + Len(s) - 1 <= Len(b)
                              /\ \A j \in 1..Len(s) : b[p + j - 1] = s[j]
<1> DEFINE m == p + Len(s) - 1
           t == SubSeq(b, p, m)
<1>1. Len(s) \in Nat /\ Len(b) \in Nat /\ Len(s) >= 1
  BY EmptySeq, LenProperties
<1>2. ASSUME m <= Len(b)
      PROVE  (t = s) <=> \A j \in 1..Len(s) : b[p + j - 1] = s[j]
  <2>1. /\ t \in Seq(S) /\ Len(t) = Len(s)
        /\ \A j \in 1..Len(s) : t[j] = b[p + j - 1]
    <3>1. p \in 1..Len(b) /\ m \in 1..Len(b) /\ m - p + 1 = Len(s) /\ p <= m
      BY <1>1, <1>2
    <3>2. /\ t \in Seq(S) /\ Len(t) = IF p <= m THEN m - p + 1 ELSE 0
          /\ \A j \in 1..(m - p + 1) : t[j] = b[p + j - 1]
      BY <1>1, <1>2, <3>1
    <3> HIDE DEF t, m
    <3> QED
      BY <3>1, <3>2
  <2> HIDE DEF t, m
  <2>2. ASSUME \A j \in 1..Len(s) : b[p + j - 1] = s[j] PROVE t = s
    BY <2>1, <2>2, SeqEqual
  <2>3. t = s => \A j \in 1..Len(s) : b[p + j - 1] = s[j]
    BY <2>1
  <2> QED
    BY <2>2, <2>3
<1> HIDE DEF t, m
<1>3. Matches(b, p, s) <=> m <= Len(b) /\ t = s
  BY DEF Matches, m, t
<1> QED
  BY <1>2, <1>3 DEF m

\* The delimiter l is all there from p on.
Spells(b, p, l) == \A j \in 1..Len(l) : b[p + j - 1] = l[j]

CompleteAt(b, p, l) ==
  /\ Spells(b, p, l)
  /\ \/ p + Len(l) <= Len(b) /\ b[p + Len(l)] = "LF"
     \/ /\ p + Len(l) + 1 <= Len(b)
        /\ b[p + Len(l)] = "CR" /\ b[p + Len(l) + 1] = "LF"

PrefixAt(b, p, l) ==
  /\ \A j \in 1..Len(l) : p + j - 1 <= Len(b) => b[p + j - 1] = l[j]
  /\ p + Len(l) <= Len(b) => b[p + Len(l)] \in {"CR", "LF"}

LEMMA EndedBytewise ==
  ASSUME NEW l \in Bytes, Len(l) >= 1, NEW e \in Bytes, NEW b \in Bytes, NEW p \in Nat, p >= 1,
         e # <<>>
  PROVE  Matches(b, p, l \o e) <=>
           /\ p + Len(l) + Len(e) - 1 <= Len(b)
           /\ Spells(b, p, l)
           /\ \A j \in 1..Len(e) : b[p + Len(l) + j - 1] = e[j]
<1> DEFINE s == l \o e
<1>1. Len(l) \in Nat /\ Len(e) \in Nat /\ Len(e) >= 1 /\ Len(b) \in Nat
  BY EmptySeq, LenProperties DEF Bytes
<1>2. /\ s \in Bytes /\ Len(s) = Len(l) + Len(e)
      /\ \A i \in 1..(Len(l) + Len(e)) : s[i] = IF i <= Len(l) THEN l[i] ELSE e[i - Len(l)]
  BY ConcatProperties DEF Bytes
<1> HIDE DEF s
<1>3. s # <<>>
  BY <1>1, <1>2
<1>4. Matches(b, p, s) <=> /\ p + Len(s) - 1 <= Len(b)
                           /\ \A j \in 1..Len(s) : b[p + j - 1] = s[j]
  <2>1. b \in Seq(BodyBytes) /\ s \in Seq(BodyBytes) /\ p \in Nat /\ p >= 1 /\ s # <<>>
    BY <1>2, <1>3 DEF Bytes
  <2> QED
    BY <2>1, MatchesBytewise
<1>5. (\A j \in 1..Len(s) : b[p + j - 1] = s[j]) <=>
        /\ Spells(b, p, l)
        /\ \A j \in 1..Len(e) : b[p + Len(l) + j - 1] = e[j]
  <2>1. ASSUME \A j \in 1..Len(s) : b[p + j - 1] = s[j], NEW j \in 1..Len(l)
        PROVE  b[p + j - 1] = l[j]
    <3>1. j \in 1..Len(s) /\ j \in 1..(Len(l) + Len(e)) /\ j <= Len(l)
      BY <1>1, <1>2
    <3>2. s[j] = l[j]
      BY <1>2, <3>1
    <3> QED
      BY <2>1, <3>1, <3>2
  <2>2. ASSUME \A j \in 1..Len(s) : b[p + j - 1] = s[j], NEW j \in 1..Len(e)
        PROVE  b[p + Len(l) + j - 1] = e[j]
    <3>1. Len(l) + j \in 1..Len(s) /\ p + (Len(l) + j) - 1 = p + Len(l) + j - 1
      BY <1>1, <1>2
    <3>2. s[Len(l) + j] = e[j]
      BY <1>1, <1>2, <3>1
    <3> QED
      BY <2>2, <3>1, <3>2
  <2>3. ASSUME Spells(b, p, l), \A j \in 1..Len(e) : b[p + Len(l) + j - 1] = e[j],
               NEW i \in 1..Len(s)
        PROVE  b[p + i - 1] = s[i]
    <3>1. CASE i <= Len(l)
      BY <1>1, <1>2, <2>3, <3>1 DEF Spells
    <3>2. CASE ~(i <= Len(l))
      <4>1. i - Len(l) \in 1..Len(e) /\ p + Len(l) + (i - Len(l)) - 1 = p + i - 1
        BY <1>1, <1>2, <3>2
      <4>2. s[i] = e[i - Len(l)]
        BY <1>1, <1>2, <3>2
      <4> QED
        BY <2>3, <4>1, <4>2
    <3> QED
      BY <3>1, <3>2
  <2> QED
    BY <2>1, <2>2, <2>3 DEF Spells
<1>6. p + Len(s) - 1 = p + Len(l) + Len(e) - 1
  BY <1>1, <1>2
<1> QED
  BY <1>4, <1>5, <1>6 DEF s

LEMMA CompleteBytewise ==
  ASSUME NEW b \in Bytes, NEW p \in Nat, p >= 1, NEW l \in Delimiters
  PROVE  BoundaryComplete(b, p, l) <=> CompleteAt(b, p, l)
<1> DEFINE lf == <<"LF">>
           crlf == <<"CR", "LF">>
<1>1. l \in Bytes /\ Len(l) \in Nat /\ Len(l) >= 1 /\ Len(b) \in Nat
  BY DelimiterFacts DEF Bytes
<1>2. lf \in Bytes /\ Len(lf) = 1 /\ lf[1] = "LF" /\ lf # <<>>
  BY MultipartAssumption DEF Bytes
<1>3. crlf \in Bytes /\ Len(crlf) = 2 /\ crlf[1] = "CR" /\ crlf[2] = "LF" /\ crlf # <<>>
  BY MultipartAssumption DEF Bytes
<1>4. BoundaryComplete(b, p, l) <=> Matches(b, p, l \o lf) \/ Matches(b, p, l \o crlf)
  BY DEF BoundaryComplete, LineEnds
<1> HIDE DEF lf, crlf
<1>5. Matches(b, p, l \o lf) <=> /\ p + Len(l) + Len(lf) - 1 <= Len(b)
                                 /\ Spells(b, p, l)
                                 /\ \A j \in 1..Len(lf) : b[p + Len(l) + j - 1] = lf[j]
  BY <1>1, <1>2, EndedBytewise
<1>6. Matches(b, p, l \o crlf) <=> /\ p + Len(l) + Len(crlf) - 1 <= Len(b)
                                   /\ Spells(b, p, l)
                                   /\ \A j \in 1..Len(crlf) : b[p + Len(l) + j - 1] = crlf[j]
  BY <1>1, <1>3, EndedBytewise
<1>7. (\A j \in 1..1 : b[p + Len(l) + j - 1] = lf[j]) <=> b[p + Len(l)] = "LF"
  <2>1. 1..1 = {1} /\ p + Len(l) + 1 - 1 = p + Len(l)
    BY <1>1
  <2> QED
    BY <1>2, <2>1
<1>8. (\A j \in 1..2 : b[p + Len(l) + j - 1] = crlf[j]) <=>
        b[p + Len(l)] = "CR" /\ b[p + Len(l) + 1] = "LF"
  <2>1. 1..2 = {1, 2} /\ p + Len(l) + 1 - 1 = p + Len(l) /\ p + Len(l) + 2 - 1 = p + Len(l) + 1
    BY <1>1
  <2> QED
    BY <1>3, <2>1
<1>9. Matches(b, p, l \o lf) <=> p + Len(l) <= Len(b) /\ Spells(b, p, l) /\ b[p + Len(l)] = "LF"
  BY <1>1, <1>2, <1>5, <1>7
<1>10. Matches(b, p, l \o crlf) <=> /\ p + Len(l) + 1 <= Len(b) /\ Spells(b, p, l)
                                    /\ b[p + Len(l)] = "CR" /\ b[p + Len(l) + 1] = "LF"
  BY <1>1, <1>3, <1>6, <1>8
<1> QED
  BY <1>4, <1>9, <1>10 DEF CompleteAt

LEMMA PrefixBytewise ==
  ASSUME NEW b \in Bytes, NEW p \in 1..Len(b), NEW l \in Delimiters
  PROVE  BoundaryPrefix(b, p, l) <=> PrefixAt(b, p, l)
<1> DEFINE n == Len(b) - p + 1
           rest == SubSeq(b, p, Len(b))
           head == SubSeq(l, 1, n)
<1>1. /\ l \in Bytes /\ Len(l) \in Nat /\ Len(l) >= 1 /\ l # <<>> /\ Len(b) \in Nat /\ p \in Nat
      /\ p >= 1 /\ n \in Nat /\ n >= 1
  BY DelimiterFacts DEF Bytes
<1>2. rest \in Bytes /\ Len(rest) = n /\ \A j \in 1..n : rest[j] = b[p + j - 1]
  <2>1. \A i \in p..Len(b) : b[i] \in BodyBytes
    BY <1>1 DEF Bytes
  <2>2. /\ rest \in Bytes /\ Len(rest) = IF p <= Len(b) THEN Len(b) - p + 1 ELSE 0
        /\ \A i \in 1..(Len(b) - p + 1) : rest[i] = b[p + i - 1]
    BY <1>1, <2>1, SubSeqProperties DEF Bytes
  <2> HIDE DEF rest
  <2> QED
    BY <1>1, <2>2
<1>3. CASE n > Len(l)
  <2>1. BoundaryPrefix(b, p, l) <=> Matches(b, p, l) /\ rest[Len(l) + 1] \in {"CR", "LF"}
    BY <1>2, <1>3 DEF BoundaryPrefix
  <2>2. rest[Len(l) + 1] = b[p + Len(l)] /\ p + Len(l) - 1 <= Len(b) /\ p + Len(l) <= Len(b)
    <3>1. Len(l) + 1 \in 1..n /\ p + (Len(l) + 1) - 1 = p + Len(l)
      BY <1>1, <1>3
    <3> HIDE DEF rest
    <3> QED
      BY <1>1, <1>2, <1>3, <3>1
  <2> HIDE DEF rest, n
  <2>3. Matches(b, p, l) <=> p + Len(l) - 1 <= Len(b) /\ Spells(b, p, l)
    BY <1>1, MatchesBytewise DEF Bytes, Spells
  <2>4. \A j \in 1..Len(l) : p + j - 1 <= Len(b)
    BY <1>1, <2>2
  <2> QED
    BY <2>1, <2>2, <2>3, <2>4 DEF PrefixAt, Spells
<1>4. CASE ~(n > Len(l))
  <2>1. BoundaryPrefix(b, p, l) <=> rest = head
    BY <1>2, <1>4 DEF BoundaryPrefix
  <2>2. head \in Bytes /\ Len(head) = n /\ \A j \in 1..n : head[j] = l[j]
    <3>1. \A i \in 1..n : l[i] \in BodyBytes
      BY <1>1, <1>4 DEF Bytes
    <3>2. /\ head \in Bytes /\ Len(head) = IF 1 <= n THEN n - 1 + 1 ELSE 0
          /\ \A i \in 1..(n - 1 + 1) : head[i] = l[1 + i - 1]
      BY <1>1, <3>1, SubSeqProperties DEF Bytes
    <3> HIDE DEF head
    <3> QED
      BY <1>1, <3>2
  <2>3. \A j \in 1..Len(l) : p + j - 1 <= Len(b) <=> j \in 1..n
    BY <1>1
  <2>4. ~(p + Len(l) <= Len(b))
    BY <1>1, <1>4
  <2>5. \A j \in 1..n : j \in 1..Len(l)
    BY <1>1, <1>4
  <2> HIDE DEF rest, head, n
  <2>6. rest = head <=> \A j \in 1..n : b[p + j - 1] = l[j]
    <3>1. ASSUME \A j \in 1..n : b[p + j - 1] = l[j] PROVE rest = head
      <4>1. \A j \in 1..Len(rest) : rest[j] = head[j]
        BY <1>2, <2>2, <3>1
      <4> QED
        BY <1>2, <2>2, <4>1, SeqEqual DEF Bytes
    <3>2. rest = head => \A j \in 1..n : b[p + j - 1] = l[j]
      BY <1>2, <2>2
    <3> QED
      BY <3>1, <3>2
  <2>7. PrefixAt(b, p, l) <=> \A j \in 1..n : b[p + j - 1] = l[j]
    BY <2>3, <2>4, <2>5 DEF PrefixAt
  <2> QED
    BY <2>1, <2>6, <2>7
<1> QED
  BY <1>3, <1>4

\* A candidate, byte by byte; a complete delimiter is one.
CandidateAt(b, p) == LineStart(b, p) /\ \E l \in Delimiters : PrefixAt(b, p, l)

LEMMA CompleteIsPrefix ==
  ASSUME NEW b \in Bytes, NEW p \in 1..Len(b), NEW l \in Delimiters, CompleteAt(b, p, l)
  PROVE  PrefixAt(b, p, l)
<1>1. Len(l) \in Nat /\ Len(l) >= 1 /\ Len(b) \in Nat
  BY DelimiterFacts DEF Bytes
<1> QED
  BY <1>1 DEF CompleteAt, PrefixAt, Spells

LEMMA CandidatesBytewise ==
  ASSUME NEW b \in Bytes
  PROVE  Candidates(b) = {p \in 1..Len(b) : CandidateAt(b, p)}
<1>1. ASSUME NEW p \in 1..Len(b)
      PROVE  (LineStart(b, p) /\ \E l \in Delimiters : BoundaryComplete(b, p, l)
                                                         \/ BoundaryPrefix(b, p, l))
               <=> CandidateAt(b, p)
  <2>1. p \in Nat /\ p >= 1
    BY DEF Bytes
  <2>2. \A l \in Delimiters : BoundaryComplete(b, p, l) <=> CompleteAt(b, p, l)
    BY <2>1, CompleteBytewise
  <2>3. \A l \in Delimiters : BoundaryPrefix(b, p, l) <=> PrefixAt(b, p, l)
    BY PrefixBytewise
  <2>4. \A l \in Delimiters : CompleteAt(b, p, l) => PrefixAt(b, p, l)
    BY CompleteIsPrefix
  <2> QED
    BY <2>2, <2>3, <2>4 DEF CandidateAt
<1> QED
  BY <1>1 DEF Candidates

(***************************************************************************)
(* Pieces of the lookahead.                                                *)
(***************************************************************************)
\* A sequence cut after its first e bytes.
LEMMA Cut ==
  ASSUME NEW b \in Bytes, NEW e \in 0..Len(b)
  PROVE  /\ SubSeq(b, 1, e) \in Bytes /\ Len(SubSeq(b, 1, e)) = e
         /\ \A i \in 1..e : SubSeq(b, 1, e)[i] = b[i]
         /\ SubSeq(b, e + 1, Len(b)) \in Bytes /\ Len(SubSeq(b, e + 1, Len(b))) = Len(b) - e
         /\ \A i \in 1..(Len(b) - e) : SubSeq(b, e + 1, Len(b))[i] = b[e + i]
<1> DEFINE x == SubSeq(b, 1, e)
           y == SubSeq(b, e + 1, Len(b))
<1>1. Len(b) \in Nat /\ e \in Nat /\ e <= Len(b) /\ 1 \in Int /\ e + 1 \in Int
  BY DEF Bytes
<1>2. \A i \in 1..e : b[i] \in BodyBytes
  BY <1>1 DEF Bytes
<1>3. \A i \in (e + 1)..Len(b) : b[i] \in BodyBytes
  BY <1>1 DEF Bytes
<1>4. /\ x \in Seq(BodyBytes) /\ Len(x) = (IF 1 <= e THEN e - 1 + 1 ELSE 0)
      /\ \A i \in 1..(e - 1 + 1) : x[i] = b[1 + i - 1]
  BY <1>1, <1>2, SubSeqProperties
<1>5. /\ y \in Seq(BodyBytes) /\ Len(y) = (IF e + 1 <= Len(b) THEN Len(b) - (e + 1) + 1 ELSE 0)
      /\ \A i \in 1..(Len(b) - (e + 1) + 1) : y[i] = b[e + 1 + i - 1]
  BY <1>1, <1>3, SubSeqProperties
<1> HIDE DEF x, y
<1>6. x \in Bytes /\ Len(x) = e /\ \A i \in 1..e : x[i] = b[i]
  BY <1>1, <1>4 DEF Bytes
<1>7. y \in Bytes /\ Len(y) = Len(b) - e /\ \A i \in 1..(Len(b) - e) : y[i] = b[e + i]
  BY <1>1, <1>5 DEF Bytes
<1> QED
  BY <1>6, <1>7 DEF x, y

LEMMA Joined ==
  ASSUME NEW x \in Bytes, NEW y \in Bytes
  PROVE  /\ x \o y \in Bytes /\ Len(x \o y) = Len(x) + Len(y)
         /\ \A i \in 1..Len(x) : (x \o y)[i] = x[i]
         /\ \A i \in 1..Len(y) : (x \o y)[Len(x) + i] = y[i]
<1> DEFINE t == x \o y
<1>1. Len(x) \in Nat /\ Len(y) \in Nat
  BY DEF Bytes
<1>2. /\ t \in Seq(BodyBytes) /\ Len(t) = Len(x) + Len(y)
      /\ \A i \in 1..(Len(x) + Len(y)) : t[i] = IF i <= Len(x) THEN x[i] ELSE y[i - Len(x)]
  BY ConcatProperties DEF Bytes
<1> HIDE DEF t
<1>3. ASSUME NEW i \in 1..Len(x) PROVE t[i] = x[i]
  BY <1>1, <1>2
<1>4. ASSUME NEW i \in 1..Len(y) PROVE t[Len(x) + i] = y[i]
  <2>1. /\ Len(x) + i \in 1..(Len(x) + Len(y)) /\ ~(Len(x) + i <= Len(x))
        /\ (Len(x) + i) - Len(x) = i
    BY <1>1
  <2> QED
    BY <1>2, <2>1
<1> QED
  BY <1>2, <1>3, <1>4 DEF t, Bytes

LEMMA Appended ==
  ASSUME NEW x \in Bytes, NEW ch \in BodyBytes
  PROVE  /\ Append(x, ch) \in Bytes /\ Len(Append(x, ch)) = Len(x) + 1
         /\ \A i \in 1..Len(x) : Append(x, ch)[i] = x[i]
         /\ Append(x, ch)[Len(x) + 1] = ch
BY DEF Bytes

LEMMA SameBytes ==
  ASSUME NEW x \in Bytes, NEW y \in Bytes, Len(x) = Len(y), \A i \in 1..Len(x) : x[i] = y[i]
  PROVE  x = y
BY SeqEqual DEF Bytes

\* Cutting and joining again changes nothing.
LEMMA CutJoined ==
  ASSUME NEW d \in Bytes, NEW b \in Bytes, NEW e \in 0..Len(b)
  PROVE  (d \o SubSeq(b, 1, e)) \o SubSeq(b, e + 1, Len(b)) = d \o b
<1> DEFINE x == SubSeq(b, 1, e)
           y == SubSeq(b, e + 1, Len(b))
<1>1. x \in Seq(BodyBytes) /\ y \in Seq(BodyBytes) /\ d \in Seq(BodyBytes)
  BY Cut DEF Bytes
<1>2. (d \o x) \o y = d \o (x \o y)
  <2> HIDE DEF x, y
  <2> QED
    BY <1>1, ConcatAssociative
<1>3. x \o y = b
  <2>1. /\ b \in Seq(BodyBytes) /\ 1 \in 1..(Len(b) + 1) /\ e \in (1 - 1)..Len(b)
        /\ Len(b) \in e..Len(b)
    BY DEF Bytes
  <2>2. SubSeq(b, 1, e) \o SubSeq(b, e + 1, Len(b)) = SubSeq(b, 1, Len(b))
    BY <2>1, ConcatAdjacentSubSeq
  <2>3. SubSeq(b, 1, Len(b)) = b
    BY SubSeqFull DEF Bytes
  <2> QED
    BY <2>2, <2>3
<1> QED
  BY <1>2, <1>3

(***************************************************************************)
(* The search.                                                             *)
(***************************************************************************)
LEMMA FirstExists ==
  ASSUME NEW S \in SUBSET Nat, S # {}
  PROVE  First(S) \in S /\ \A y \in S : First(S) <= y
<1> DEFINE R == OpToRel(<, Nat)
<1>1. \E x \in S : \A y \in S : ~(<<y, x>> \in R)
  <2>1. IsWellFoundedOn(R, Nat)
    BY NatLessThanWellFounded
  <2> HIDE DEF R
  <2> QED
    BY <2>1, WFMin
<1>2. \A x, y \in Nat : y < x => <<y, x>> \in R
  BY DEF OpToRel
<1>3. \E x \in S : \A y \in S : x <= y
  <2> HIDE DEF R
  <2>1. PICK x \in S : \A y \in S : ~(<<y, x>> \in R)
    BY <1>1
  <2>2. ASSUME NEW y \in S PROVE x <= y
    <3>1. ~(<<y, x>> \in R) /\ x \in Nat /\ y \in Nat
      BY <2>1
    <3>2. ~(y < x)
      BY <1>2, <3>1
    <3> QED
      BY <3>1, <3>2
  <2> QED
    BY <2>2
<1> QED
  BY <1>3 DEF First

LEMMA EmitRange ==
  ASSUME NEW b \in Bytes, NEW n \in 0..Len(b)
  PROVE  EmitLength(b, n) \in 0..n /\ HoldLineEnd(b, n) \in 0..n
<1>1. n \in Nat
  BY DEF Bytes
<1>2. EmitLength(b, n) \in 0..n
  BY <1>1 DEF EmitLength
<1> QED
  BY <1>1, <1>2 DEF HoldLineEnd

\* What goes to the client ends before the first candidate.
LEMMA SearchFacts ==
  ASSUME NEW b \in Bytes
  PROVE  /\ BodySearch(b).emit \in 0..Len(b)
         /\ \A q \in 1..BodySearch(b).emit : ~CandidateAt(b, q)
<1> DEFINE C == Candidates(b)
           s == BodySearch(b)
<1>1. Len(b) \in Nat /\ C = {p \in 1..Len(b) : CandidateAt(b, p)}
  BY CandidatesBytewise DEF Bytes
<1>2. CASE C = {}
  <2>1. s.emit = HoldLineEnd(b, Len(b))
    BY <1>2 DEF BodySearch
  <2>2. HoldLineEnd(b, Len(b)) \in 0..Len(b)
    <3>1. Len(b) \in 0..Len(b)
      BY <1>1
    <3> QED
      BY <3>1, EmitRange
  <2> HIDE DEF C, s
  <2>3. ASSUME NEW q \in 1..s.emit PROVE q \in 1..Len(b)
    BY <1>1, <2>1, <2>2
  <2> QED
    BY <1>1, <1>2, <2>1, <2>2, <2>3 DEF s
<1>3. CASE C # {}
  <2> DEFINE f == First(C)
  <2>1. s.emit = EmitLength(b, f - 1)
    BY <1>3 DEF BodySearch
  <2> HIDE DEF s, C
  <2>2. f \in C /\ \A y \in C : f <= y
    <3>1. C \in SUBSET Nat
      BY <1>1
    <3> QED
      BY <1>3, <3>1, FirstExists
  <2>3. f \in 1..Len(b)
    BY <1>1, <2>2
  <2> HIDE DEF f
  <2>4. f - 1 \in 0..Len(b)
    BY <1>1, <2>3
  <2>5. s.emit \in 0..(f - 1)
    BY <2>1, <2>4, EmitRange
  <2>6. ASSUME NEW q \in 1..s.emit PROVE ~CandidateAt(b, q)
    <3>1. q \in 1..Len(b) /\ ~(f <= q)
      BY <1>1, <2>3, <2>5
    <3> QED
      BY <1>1, <2>2, <3>1
  <2>7. s.emit \in 0..Len(b)
    BY <1>1, <2>3, <2>5
  <2> QED
    BY <2>6, <2>7 DEF s
<1> QED
  BY <1>2, <1>3

(***************************************************************************)
(* Delivered bytes hold no delimiter.                                      *)
(***************************************************************************)
\* More bytes never make a delimiter possible where it was not.
LEMMA PrefixShrinks ==
  ASSUME NEW t \in Bytes, NEW u \in Bytes, NEW p \in 1..Len(t), NEW l \in Delimiters,
         Len(t) <= Len(u), \A i \in 1..Len(t) : t[i] = u[i], PrefixAt(u, p, l)
  PROVE  PrefixAt(t, p, l)
<1>1. Len(t) \in Nat /\ Len(u) \in Nat /\ Len(l) \in Nat /\ Len(l) >= 1 /\ p \in Nat /\ p >= 1
  BY DelimiterFacts DEF Bytes
<1>2. ASSUME NEW j \in 1..Len(l), p + j - 1 <= Len(t) PROVE t[p + j - 1] = l[j]
  <2>1. p + j - 1 \in 1..Len(t) /\ p + j - 1 <= Len(u)
    BY <1>1, <1>2
  <2> QED
    BY <2>1 DEF PrefixAt
<1>3. ASSUME p + Len(l) <= Len(t) PROVE t[p + Len(l)] \in {"CR", "LF"}
  <2>1. p + Len(l) \in 1..Len(t) /\ p + Len(l) <= Len(u)
    BY <1>1, <1>3
  <2> QED
    BY <2>1 DEF PrefixAt
<1> QED
  BY <1>2, <1>3 DEF PrefixAt

LEMMA CompleteGrows ==
  ASSUME NEW t \in Bytes, NEW u \in Bytes, NEW p \in 1..Len(t), NEW l \in Delimiters,
         Len(t) <= Len(u), \A i \in 1..Len(t) : t[i] = u[i], CompleteAt(t, p, l)
  PROVE  CompleteAt(u, p, l)
<1>1. Len(t) \in Nat /\ Len(u) \in Nat /\ Len(l) \in Nat /\ Len(l) >= 1 /\ p \in Nat /\ p >= 1
  BY DelimiterFacts DEF Bytes
<1>2. p + Len(l) <= Len(t)
  BY <1>1 DEF CompleteAt
<1>3. Spells(u, p, l)
  <2>1. ASSUME NEW j \in 1..Len(l) PROVE u[p + j - 1] = l[j]
    <3>1. p + j - 1 \in 1..Len(t)
      BY <1>1, <1>2
    <3> QED
      BY <3>1 DEF CompleteAt, Spells
  <2> QED
    BY <2>1 DEF Spells
<1>4. CASE t[p + Len(l)] = "LF"
  <2>1. p + Len(l) \in 1..Len(t) /\ p + Len(l) <= Len(u)
    BY <1>1, <1>2
  <2> QED
    BY <1>3, <1>4, <2>1 DEF CompleteAt
<1>5. CASE p + Len(l) + 1 <= Len(t) /\ t[p + Len(l)] = "CR" /\ t[p + Len(l) + 1] = "LF"
  <2>1. /\ p + Len(l) \in 1..Len(t) /\ p + Len(l) + 1 \in 1..Len(t)
        /\ p + Len(l) + 1 <= Len(u)
    BY <1>1, <1>5
  <2> QED
    BY <1>3, <1>5, <2>1 DEF CompleteAt
<1> QED
  BY <1>4, <1>5 DEF CompleteAt

LEMMA SettledBytewise ==
  ASSUME NEW d \in Bytes, NEW t \in Bytes
  PROVE  Settled(d, t) <=>
           /\ Len(d) <= Len(t) /\ \A i \in 1..Len(d) : d[i] = t[i]
           /\ \A p \in 1..Len(d) : LineStart(t, p) => \A l \in Delimiters : ~PrefixAt(t, p, l)
<1>1. Len(d) \in Nat /\ Len(t) \in Nat
  BY DEF Bytes
<1>2. ASSUME Len(d) <= Len(t), NEW p \in 1..Len(d), NEW l \in Delimiters
      PROVE  BoundaryPrefix(t, p, l) <=> PrefixAt(t, p, l)
  <2>1. p \in 1..Len(t)
    BY <1>1, <1>2
  <2> QED
    BY <2>1, PrefixBytewise
<1> QED
  BY <1>2 DEF Settled

LEMMA SettledHasNone ==
  ASSUME NEW d \in Bytes, NEW t \in Bytes, Settled(d, t)
  PROVE  \A p \in 1..Len(d) :
           LineStart(d, p) => \A l \in Delimiters : ~BoundaryComplete(d, p, l)
<1>1. Len(d) \in Nat /\ Len(t) \in Nat
  BY DEF Bytes
<1>2. /\ Len(d) <= Len(t) /\ \A i \in 1..Len(d) : d[i] = t[i]
      /\ \A p \in 1..Len(d) : LineStart(t, p) => \A l \in Delimiters : ~PrefixAt(t, p, l)
  BY SettledBytewise
<1>3. ASSUME NEW p \in 1..Len(d), LineStart(d, p), NEW l \in Delimiters,
             BoundaryComplete(d, p, l)
      PROVE  FALSE
  <2>1. p \in Nat /\ p >= 1 /\ p \in 1..Len(t)
    BY <1>1, <1>2
  <2>2. CompleteAt(d, p, l)
    BY <1>3, <2>1, CompleteBytewise
  <2>3. CompleteAt(t, p, l)
    BY <1>2, <2>2, CompleteGrows
  <2>4. PrefixAt(t, p, l)
    BY <2>1, <2>3, CompleteIsPrefix
  <2>5. LineStart(t, p)
    <3>1. CASE p = 1
      BY <3>1 DEF LineStart
    <3>2. CASE p # 1
      <4>1. p - 1 \in 1..Len(d)
        BY <1>1, <2>1, <3>2
      <4>2. d[p - 1] = "LF"
        BY <1>3, <3>2 DEF LineStart
      <4> QED
        BY <1>2, <4>1, <4>2 DEF LineStart
    <3> QED
      BY <3>1, <3>2
  <2> QED
    BY <1>2, <2>4, <2>5
<1> QED
  BY <1>3

\* What one more byte lets go of is settled as well.
LEMMA SettledGrows ==
  ASSUME NEW d \in Bytes, NEW x \in Bytes, NEW ch \in BodyBytes, Settled(d, d \o x),
         NEW e \in 0..(Len(x) + 1), \A q \in 1..e : ~CandidateAt(Append(x, ch), q)
  PROVE  Settled(d \o SubSeq(Append(x, ch), 1, e), d \o Append(x, ch))
<1> DEFINE b == Append(x, ch)
           c == SubSeq(b, 1, e)
           t == d \o x
           u == d \o b
           v == d \o c
<1>1. Len(d) \in Nat /\ Len(x) \in Nat
  BY DEF Bytes
<1>2. b \in Bytes /\ Len(b) = Len(x) + 1 /\ \A i \in 1..Len(x) : b[i] = x[i]
  BY Appended
<1> HIDE DEF b
<1>3. c \in Bytes /\ Len(c) = e /\ \A i \in 1..e : c[i] = b[i]
  BY <1>2, Cut
<1> HIDE DEF c
<1>4. /\ t \in Bytes /\ Len(t) = Len(d) + Len(x)
      /\ \A i \in 1..Len(d) : t[i] = d[i]
      /\ \A i \in 1..Len(x) : t[Len(d) + i] = x[i]
  BY Joined
<1>5. /\ u \in Bytes /\ Len(u) = Len(d) + Len(b)
      /\ \A i \in 1..Len(d) : u[i] = d[i]
      /\ \A i \in 1..Len(b) : u[Len(d) + i] = b[i]
  BY <1>2, Joined
<1>6. /\ v \in Bytes /\ Len(v) = Len(d) + Len(c)
      /\ \A i \in 1..Len(d) : v[i] = d[i]
      /\ \A i \in 1..Len(c) : v[Len(d) + i] = c[i]
  BY <1>3, Joined
<1>7. /\ \A p \in 1..Len(d) : LineStart(t, p) => \A l \in Delimiters : ~PrefixAt(t, p, l)
  BY <1>4, SettledBytewise
<1> HIDE DEF t, u, v
<1>8. Len(t) <= Len(u) /\ \A i \in 1..Len(t) : t[i] = u[i]
  <2>1. Len(t) <= Len(u)
    BY <1>1, <1>2, <1>4, <1>5
  <2>2. ASSUME NEW i \in 1..Len(t) PROVE t[i] = u[i]
    <3>1. CASE i <= Len(d)
      BY <1>1, <1>4, <1>5, <3>1
    <3>2. CASE ~(i <= Len(d))
      <4>1. i - Len(d) \in 1..Len(x) /\ i - Len(d) \in 1..Len(b) /\ Len(d) + (i - Len(d)) = i
        BY <1>1, <1>2, <1>4, <3>2
      <4>2. t[i] = x[i - Len(d)] /\ u[i] = b[i - Len(d)]
        BY <1>4, <1>5, <4>1
      <4> QED
        BY <1>2, <4>1, <4>2
    <3> QED
      BY <3>1, <3>2
  <2> QED
    BY <2>1, <2>2
<1>9. Len(v) <= Len(u) /\ \A i \in 1..Len(v) : v[i] = u[i]
  <2>1. Len(v) <= Len(u)
    BY <1>1, <1>2, <1>3, <1>5, <1>6
  <2>2. ASSUME NEW i \in 1..Len(v) PROVE v[i] = u[i]
    <3>1. CASE i <= Len(d)
      BY <1>1, <1>6, <1>5, <3>1
    <3>2. CASE ~(i <= Len(d))
      <4>1. i - Len(d) \in 1..Len(c) /\ i - Len(d) \in 1..Len(b) /\ Len(d) + (i - Len(d)) = i
        BY <1>1, <1>2, <1>3, <1>6, <3>2
      <4>2. v[i] = c[i - Len(d)] /\ u[i] = b[i - Len(d)]
        BY <1>5, <1>6, <4>1
      <4> QED
        BY <1>3, <4>1, <4>2
    <3> QED
      BY <3>1, <3>2
  <2> QED
    BY <2>1, <2>2
<1>10. ASSUME NEW p \in 1..Len(v), LineStart(u, p), NEW l \in Delimiters, PrefixAt(u, p, l)
       PROVE  FALSE
  <2>1. CASE p <= Len(d)
    <3>1. p \in 1..Len(d) /\ p \in 1..Len(t)
      BY <1>1, <1>4, <1>6, <2>1
    <3>2. PrefixAt(t, p, l)
      BY <1>4, <1>5, <1>8, <1>10, <3>1, PrefixShrinks
    <3>3. LineStart(t, p)
      <4>1. CASE p = 1
        BY <4>1 DEF LineStart
      <4>2. CASE p # 1
        <5>1. p - 1 \in 1..Len(t)
          BY <1>1, <1>4, <3>1, <4>2
        <5> QED
          BY <1>8, <1>10, <4>2, <5>1 DEF LineStart
      <4> QED
        BY <4>1, <4>2
    <3> QED
      BY <1>7, <3>1, <3>2, <3>3
  <2>2. CASE ~(p <= Len(d))
    <3> DEFINE q == p - Len(d)
    <3>1. q \in 1..e /\ q \in 1..Len(b) /\ p = Len(d) + q
      BY <1>1, <1>2, <1>3, <1>6, <2>2
    <3> HIDE DEF q
    <3>2. LineStart(b, q)
      <4>1. CASE q = 1
        BY <4>1 DEF LineStart
      <4>2. CASE q # 1
        <5>1. q - 1 \in 1..Len(b) /\ p - 1 = Len(d) + (q - 1) /\ p # 1
          BY <1>1, <1>2, <3>1, <4>2
        <5>2. u[p - 1] = "LF"
          BY <1>10, <5>1 DEF LineStart
        <5>3. u[p - 1] = b[q - 1]
          BY <1>5, <5>1
        <5> QED
          BY <5>2, <5>3 DEF LineStart
      <4> QED
        BY <4>1, <4>2
    <3>3. PrefixAt(b, q, l)
      <4>1. Len(l) \in Nat /\ Len(l) >= 1 /\ Len(b) \in Nat
        BY <1>2, DelimiterFacts DEF Bytes
      <4>2. ASSUME NEW j \in 1..Len(l), q + j - 1 <= Len(b) PROVE b[q + j - 1] = l[j]
        <5>1. /\ q + j - 1 \in 1..Len(b) /\ p + j - 1 = Len(d) + (q + j - 1)
              /\ p + j - 1 <= Len(u)
          BY <1>1, <1>5, <3>1, <4>1, <4>2
        <5>2. u[p + j - 1] = l[j]
          BY <1>10, <5>1 DEF PrefixAt
        <5> QED
          BY <1>5, <5>1, <5>2
      <4>3. ASSUME q + Len(l) <= Len(b) PROVE b[q + Len(l)] \in {"CR", "LF"}
        <5>1. /\ q + Len(l) \in 1..Len(b) /\ p + Len(l) = Len(d) + (q + Len(l))
              /\ p + Len(l) <= Len(u)
          BY <1>1, <1>5, <3>1, <4>1, <4>3
        <5>2. u[p + Len(l)] \in {"CR", "LF"}
          BY <1>10, <5>1 DEF PrefixAt
        <5> QED
          BY <1>5, <5>1, <5>2
      <4> QED
        BY <4>2, <4>3 DEF PrefixAt
    <3> QED
      BY <3>1, <3>2, <3>3 DEF CandidateAt, b
  <2> QED
    BY <2>1, <2>2
<1>11. Settled(v, u)
  BY <1>5, <1>6, <1>9, <1>10, SettledBytewise
<1> QED
  BY <1>11 DEF u, v, c, b

(***************************************************************************)
(* The lookahead after one more byte.                                      *)
(***************************************************************************)
LEMMA EolFacts ==
  ASSUME NEW b \in Bytes, NEW n \in 0..2, n <= Len(b), Eol(b, n)
  PROVE  /\ \A i \in 1..n : b[i] \in {"CR", "LF"}
         /\ LineStart(b, n + 1)
         /\ EmitLength(b, n) = 0
<1>1. CASE n = 0
  BY <1>1 DEF LineStart, EmitLength
<1>2. CASE n = 1
  <2>1. b[1] = "LF" /\ 1..1 = {1} /\ n + 1 - 1 = 1
    BY <1>2 DEF Eol
  <2> QED
    BY <1>2, <2>1 DEF LineStart, EmitLength
<1>3. CASE n = 2
  <2>1. b[1] = "CR" /\ b[2] = "LF" /\ 1..2 = {1, 2} /\ n + 1 - 1 = 2 /\ n - 1 = 1
    BY <1>3 DEF Eol
  <2> QED
    BY <1>3, <2>1 DEF LineStart, EmitLength
<1> QED
  BY <1>1, <1>2, <1>3

LEMMA EolGrows ==
  ASSUME NEW x \in Bytes, NEW ch \in BodyBytes, NEW n \in 0..2, n <= Len(x), Eol(x, n)
  PROVE  Eol(Append(x, ch), n)
<1>1. Len(x) \in Nat /\ \A i \in 1..Len(x) : Append(x, ch)[i] = x[i]
  BY Appended DEF Bytes
<1>2. \A i \in 1..n : Append(x, ch)[i] = x[i]
  BY <1>1
<1> QED
  BY <1>2 DEF Eol

\* A delimiter starts with a dash, so no line end is the start of one.
LEMMA NotALineEnd ==
  ASSUME NEW b \in Bytes, NEW p \in 1..Len(b), CandidateAt(b, p)
  PROVE  b[p] \notin {"CR", "LF"}
<1>1. PICK l \in Delimiters : PrefixAt(b, p, l)
  BY DEF CandidateAt
<1>2. Len(l) \in Nat /\ Len(l) >= 3 /\ l[1] = "-"
  BY DelimiterFacts
<1>3. 1 \in 1..Len(l) /\ p + 1 - 1 = p /\ p <= Len(b)
  BY <1>2 DEF Bytes
<1> QED
  BY <1>1, <1>2, <1>3 DEF PrefixAt

\* The first line after the held line end is the one that is searched.
LEMMA SearchAtLine ==
  ASSUME NEW b \in Bytes, NEW n \in 0..2, n + 1 <= Len(b), Eol(b, n), CandidateAt(b, n + 1)
  PROVE  /\ BodySearch(b).emit = 0
         /\ BodySearch(b).found = {l \in Delimiters : CompleteAt(b, n + 1, l)}
<1> DEFINE C == Candidates(b)
           f == First(C)
<1>1. Len(b) \in Nat /\ n \in Nat /\ n <= Len(b) /\ n + 1 \in 1..Len(b)
  BY DEF Bytes
<1>2. C = {p \in 1..Len(b) : CandidateAt(b, p)}
  BY CandidatesBytewise
<1>3. BodySearch(b) = IF C = {} THEN [emit |-> HoldLineEnd(b, Len(b)), found |-> {}]
                      ELSE [emit |-> EmitLength(b, f - 1),
                            found |-> {l \in Delimiters : BoundaryComplete(b, f, l)}]
  BY DEF BodySearch
<1> HIDE DEF C
<1>4. n + 1 \in C
  BY <1>1, <1>2
<1>5. f \in C /\ \A y \in C : f <= y
  <2>1. C \in SUBSET Nat /\ C # {}
    BY <1>2, <1>4
  <2> QED
    BY <2>1, FirstExists
<1>6. f = n + 1
  <2>1. f \in 1..Len(b) /\ CandidateAt(b, f) /\ f <= n + 1
    BY <1>2, <1>4, <1>5
  <2>2. b[f] \notin {"CR", "LF"}
    BY <2>1, NotALineEnd
  <2>3. \A i \in 1..n : b[i] \in {"CR", "LF"}
    BY <1>1, EolFacts
  <2> HIDE DEF f
  <2>4. f \notin 1..n
    BY <2>2, <2>3
  <2> QED
    BY <1>1, <2>1, <2>4
<1> HIDE DEF f
<1>7. EmitLength(b, n) = 0 /\ f - 1 = n
  BY <1>1, <1>6, EolFacts
<1>8. \A l \in Delimiters : BoundaryComplete(b, f, l) <=> CompleteAt(b, n + 1, l)
  <2>1. n + 1 \in Nat /\ n + 1 >= 1
    BY <1>1
  <2> QED
    BY <1>6, <2>1, CompleteBytewise
<1> QED
  BY <1>3, <1>4, <1>7, <1>8

\* A delimiter that is not complete is held.
LEMMA IncompleteIsHeld ==
  ASSUME NEW b \in Bytes, NEW n \in 0..2, n + 1 <= Len(b), NEW l \in Delimiters,
         PrefixAt(b, n + 1, l), ~CompleteAt(b, n + 1, l)
  PROVE  Held(b, n, l)
<1>1. Len(b) \in Nat /\ Len(l) \in Nat /\ Len(l) >= 3 /\ n \in Nat
  BY DelimiterFacts DEF Bytes
<1>2. ASSUME NEW j \in 1..(Len(b) - n), j <= Len(l) PROVE b[n + j] = l[j]
  <2>1. j \in 1..Len(l) /\ (n + 1) + j - 1 = n + j /\ n + j <= Len(b)
    BY <1>1, <1>2
  <2> QED
    BY <2>1 DEF PrefixAt
<1>3. ASSUME Len(l) + 1 <= Len(b) - n PROVE b[n + Len(l) + 1] = "CR" /\ Spells(b, n + 1, l)
  <2>1. (n + 1) + Len(l) = n + Len(l) + 1 /\ n + Len(l) + 1 <= Len(b)
    BY <1>1, <1>3
  <2>2. b[n + Len(l) + 1] \in {"CR", "LF"}
    BY <2>1 DEF PrefixAt
  <2>3. Spells(b, n + 1, l)
    <3>1. \A j \in 1..Len(l) : (n + 1) + j - 1 <= Len(b)
      BY <1>1, <1>3
    <3> QED
      BY <3>1 DEF PrefixAt, Spells
  <2> QED
    BY <2>1, <2>2, <2>3 DEF CompleteAt
<1>4. ASSUME Len(l) + 2 <= Len(b) - n PROVE b[n + Len(l) + 2] # "LF"
  <2>1. /\ (n + 1) + Len(l) = n + Len(l) + 1 /\ (n + 1) + Len(l) + 1 = n + Len(l) + 2
        /\ n + Len(l) + 2 <= Len(b) /\ Len(l) + 1 <= Len(b) - n
    BY <1>1, <1>4
  <2> QED
    BY <1>3, <2>1 DEF CompleteAt
<1>5. ASSUME NEW j \in 1..(Len(b) - n)
      PROVE  /\ j <= Len(l) => b[n + j] = l[j]
             /\ j = Len(l) + 1 => b[n + j] = "CR"
             /\ j = Len(l) + 2 => b[n + j] # "LF"
  <2>1. j <= Len(l) => b[n + j] = l[j]
    BY <1>2
  <2>2. ASSUME j = Len(l) + 1 PROVE b[n + j] = "CR"
    <3>1. n + j = n + Len(l) + 1 /\ Len(l) + 1 <= Len(b) - n
      BY <1>1, <2>2
    <3> QED
      BY <1>3, <3>1
  <2>3. ASSUME j = Len(l) + 2 PROVE b[n + j] # "LF"
    <3>1. n + j = n + Len(l) + 2 /\ Len(l) + 2 <= Len(b) - n
      BY <1>1, <2>3
    <3> QED
      BY <1>4, <3>1
  <2> QED
    BY <2>1, <2>2, <2>3
<1> QED
  BY <1>5 DEF Held

\* While the lookahead is held as l, no delimiter is complete in it.
LEMMA HeldIsIncomplete ==
  ASSUME NEW b \in Bytes, NEW n \in 0..2, n <= Len(b), NEW l \in Delimiters, Held(b, n, l),
         NEW k \in Delimiters
  PROVE  ~CompleteAt(b, n + 1, k)
<1>1. /\ Len(b) \in Nat /\ n \in Nat
      /\ Len(l) \in Nat /\ Len(l) >= 3 /\ \A i \in 1..Len(l) : l[i] \notin {"CR", "LF"}
      /\ Len(k) \in Nat /\ Len(k) >= 3 /\ \A i \in 1..Len(k) : k[i] \notin {"CR", "LF"}
  BY DelimiterFacts DEF Bytes
<1>2. SUFFICES ASSUME CompleteAt(b, n + 1, k) PROVE FALSE
  OBVIOUS
<1>3. /\ n + Len(k) + 1 <= Len(b) /\ b[n + Len(k) + 1] \in {"CR", "LF"}
      /\ \A j \in 1..Len(k) : b[n + j] = k[j]
  <2>1. (n + 1) + Len(k) = n + Len(k) + 1 /\ \A j \in 1..Len(k) : (n + 1) + j - 1 = n + j
    BY <1>1
  <2> QED
    BY <1>1, <1>2, <2>1 DEF CompleteAt, Spells
<1>4. ~(Len(k) < Len(l))
  <2>1. SUFFICES ASSUME Len(k) < Len(l) PROVE FALSE
    OBVIOUS
  <2>2. Len(k) + 1 \in 1..(Len(b) - n) /\ Len(k) + 1 \in 1..Len(l) /\ n + (Len(k) + 1) = n + Len(k) + 1
    BY <1>1, <1>3, <2>1
  <2>3. b[n + (Len(k) + 1)] = l[Len(k) + 1]
    BY <2>2 DEF Held
  <2> QED
    BY <1>1, <1>3, <2>2, <2>3
<1>5. ~(Len(l) < Len(k))
  <2>1. SUFFICES ASSUME Len(l) < Len(k) PROVE FALSE
    OBVIOUS
  <2>2. Len(l) + 1 \in 1..(Len(b) - n) /\ Len(l) + 1 \in 1..Len(k)
    BY <1>1, <1>3, <2>1
  <2>3. b[n + (Len(l) + 1)] = "CR"
    BY <2>2 DEF Held
  <2>4. b[n + (Len(l) + 1)] = k[Len(l) + 1]
    BY <1>3, <2>2
  <2> QED
    BY <1>1, <2>2, <2>3, <2>4
<1>6. Len(k) = Len(l)
  BY <1>1, <1>4, <1>5
<1>7. Len(l) + 1 \in 1..(Len(b) - n) /\ n + (Len(l) + 1) = (n + 1) + Len(k)
  BY <1>1, <1>3, <1>6
<1>8. b[(n + 1) + Len(k)] = "CR"
  BY <1>7 DEF Held
<1>9. (n + 1) + Len(k) + 1 <= Len(b) /\ b[(n + 1) + Len(k) + 1] = "LF"
  BY <1>2, <1>8 DEF CompleteAt
<1>10. Len(l) + 2 \in 1..(Len(b) - n) /\ n + (Len(l) + 2) = (n + 1) + Len(k) + 1
  BY <1>1, <1>6, <1>9
<1>11. b[n + (Len(l) + 2)] # "LF"
  BY <1>10 DEF Held
<1> QED
  BY <1>9, <1>10, <1>11

\* The byte that completes a delimiter line is its last.
LEMMA CompleteEndsHere ==
  ASSUME NEW x \in Bytes, NEW ch \in BodyBytes, NEW n \in 0..2, n <= Len(x),
         NEW l \in Delimiters, Held(x, n, l),
         NEW k \in Delimiters, CompleteAt(Append(x, ch), n + 1, k)
  PROVE  LET b == Append(x, ch) IN
         /\ \A j \in 1..Len(k) : b[n + j] = k[j]
         /\ \/ Len(b) = n + Len(k) + 1 /\ b[n + Len(k) + 1] = "LF"
            \/ /\ Len(b) = n + Len(k) + 2
               /\ b[n + Len(k) + 1] = "CR" /\ b[n + Len(k) + 2] = "LF"
<1> DEFINE b == Append(x, ch)
<1>1. /\ b \in Bytes /\ Len(b) = Len(x) + 1 /\ \A i \in 1..Len(x) : b[i] = x[i]
      /\ Len(x) \in Nat /\ n \in Nat /\ Len(k) \in Nat /\ Len(k) >= 3
  BY Appended, DelimiterFacts DEF Bytes
<1>2. CompleteAt(b, n + 1, k) /\ ~CompleteAt(x, n + 1, k)
  BY HeldIsIncomplete
<1> HIDE DEF b
<1>3. /\ (n + 1) + Len(k) = n + Len(k) + 1 /\ (n + 1) + Len(k) + 1 = n + Len(k) + 2
      /\ \A j \in 1..Len(k) : (n + 1) + j - 1 = n + j
  BY <1>1
<1>4. \A j \in 1..Len(k) : b[n + j] = k[j]
  BY <1>2, <1>3 DEF CompleteAt, Spells
<1>5. ASSUME n + Len(k) <= Len(x) PROVE Spells(x, n + 1, k)
  <2>1. \A j \in 1..Len(k) : n + j \in 1..Len(x)
    BY <1>1, <1>5
  <2> QED
    BY <1>1, <1>3, <1>4, <2>1 DEF Spells
<1>6. CASE n + Len(k) + 1 <= Len(b) /\ b[n + Len(k) + 1] = "LF"
  <2>1. ~(n + Len(k) + 1 <= Len(x))
    <3>1. SUFFICES ASSUME n + Len(k) + 1 <= Len(x) PROVE FALSE
      OBVIOUS
    <3>2. n + Len(k) <= Len(x) /\ n + Len(k) + 1 \in 1..Len(x)
      BY <1>1, <3>1
    <3>3. x[n + Len(k) + 1] = "LF"
      BY <1>1, <1>6, <3>2
    <3> QED
      BY <1>2, <1>3, <1>5, <3>1, <3>2, <3>3 DEF CompleteAt
  <2>2. Len(b) = n + Len(k) + 1
    BY <1>1, <1>6, <2>1
  <2> QED
    BY <1>4, <1>6, <2>2 DEF b
<1>7. CASE /\ n + Len(k) + 2 <= Len(b)
           /\ b[n + Len(k) + 1] = "CR" /\ b[n + Len(k) + 2] = "LF"
  <2>1. ~(n + Len(k) + 2 <= Len(x))
    <3>1. SUFFICES ASSUME n + Len(k) + 2 <= Len(x) PROVE FALSE
      OBVIOUS
    <3>2. /\ n + Len(k) <= Len(x) /\ n + Len(k) + 1 \in 1..Len(x)
          /\ n + Len(k) + 2 \in 1..Len(x)
      BY <1>1, <3>1
    <3>3. x[n + Len(k) + 1] = "CR" /\ x[n + Len(k) + 2] = "LF"
      BY <1>1, <1>7, <3>2
    <3> QED
      BY <1>2, <1>3, <1>5, <3>1, <3>2, <3>3 DEF CompleteAt
  <2>2. Len(b) = n + Len(k) + 2
    BY <1>1, <1>7, <2>1
  <2> QED
    BY <1>4, <1>7, <2>2 DEF b
<1> QED
  BY <1>2, <1>3, <1>6, <1>7 DEF CompleteAt

\* The held line end, as a sequence.
LEMMA EolSequence ==
  ASSUME NEW b \in Bytes, NEW n \in 0..2, n <= Len(b), Eol(b, n)
  PROVE  \E eol \in LineEnds \cup {<<>>} :
           /\ eol \in Bytes /\ Len(eol) = n /\ \A i \in 1..n : eol[i] = b[i]
           /\ eol = <<>> => n = 0
           /\ eol = <<"LF">> => n = 1
<1>1. "CR" \in BodyBytes /\ "LF" \in BodyBytes
  BY MultipartAssumption
<1>2. CASE n = 0
  <2>1. <<>> \in Bytes /\ Len(<<>>) = 0 /\ \A i \in 1..0 : <<>>[i] = b[i]
    BY DEF Bytes
  <2>2. <<>> # <<"LF">>
    OBVIOUS
  <2> QED
    BY <1>2, <2>1, <2>2
<1>3. CASE n = 1
  <2> DEFINE e == <<"LF">>
  <2>1. e \in Bytes /\ Len(e) = 1 /\ e # <<>> /\ e[1] = "LF"
    BY <1>1 DEF Bytes
  <2>2. \A i \in 1..1 : e[i] = b[i]
    BY <1>3, <2>1 DEF Eol
  <2>3. e \in LineEnds
    BY DEF LineEnds
  <2> QED
    BY <1>3, <2>1, <2>2, <2>3
<1>4. CASE n = 2
  <2> DEFINE e == <<"CR", "LF">>
  <2>1. e \in Bytes /\ Len(e) = 2 /\ e # <<>> /\ e # <<"LF">> /\ e[1] = "CR" /\ e[2] = "LF"
    BY <1>1 DEF Bytes
  <2>2. \A i \in 1..2 : e[i] = b[i]
    <3>1. 1..2 = {1, 2}
      OBVIOUS
    <3> QED
      BY <1>4, <2>1, <3>1 DEF Eol
  <2>3. e \in LineEnds
    BY DEF LineEnds
  <2> HIDE DEF e
  <2> QED
    BY <1>4, <2>1, <2>2, <2>3 DEF e
<1> QED
  BY <1>2, <1>3, <1>4

\* A sequence spelled by three others, and what follows one more.
IsThree(b, x, y, z) == b = x \o (y \o z)
SameFour(d, x, y, z) == d \o x \o y \o z = d \o (x \o (y \o z))

LEMMA ThreePieces ==
  ASSUME NEW b \in Bytes, NEW x \in Bytes, NEW y \in Bytes, NEW z \in Bytes,
         Len(b) = Len(x) + Len(y) + Len(z),
         \A i \in 1..Len(x) : b[i] = x[i],
         \A i \in 1..Len(y) : b[Len(x) + i] = y[i],
         \A i \in 1..Len(z) : b[Len(x) + Len(y) + i] = z[i]
  PROVE  IsThree(b, x, y, z)
<1> DEFINE u == y \o z
           t == x \o u
<1>1. Len(x) \in Nat /\ Len(y) \in Nat /\ Len(z) \in Nat
  BY DEF Bytes
<1>2. /\ u \in Bytes /\ Len(u) = Len(y) + Len(z)
      /\ \A i \in 1..Len(y) : u[i] = y[i]
      /\ \A i \in 1..Len(z) : u[Len(y) + i] = z[i]
  BY Joined
<1> HIDE DEF u
<1>3. /\ t \in Bytes /\ Len(t) = Len(x) + Len(u)
      /\ \A i \in 1..Len(x) : t[i] = x[i]
      /\ \A i \in 1..Len(u) : t[Len(x) + i] = u[i]
  BY <1>2, Joined
<1> HIDE DEF t
<1>4. ASSUME NEW i \in 1..Len(b) PROVE b[i] = t[i]
  <2>1. CASE i <= Len(x)
    <3>1. i \in 1..Len(x)
      BY <1>1, <2>1
    <3> QED
      BY <1>3, <3>1
  <2>2. CASE ~(i <= Len(x)) /\ i <= Len(x) + Len(y)
    <3>1. /\ i - Len(x) \in 1..Len(y) /\ i - Len(x) \in 1..Len(u)
          /\ Len(x) + (i - Len(x)) = i
      BY <1>1, <1>2, <2>2
    <3>2. b[i] = y[i - Len(x)] /\ t[i] = u[i - Len(x)] /\ u[i - Len(x)] = y[i - Len(x)]
      BY <1>2, <1>3, <3>1
    <3> QED
      BY <3>2
  <2>3. CASE ~(i <= Len(x) + Len(y))
    <3> DEFINE m == i - (Len(x) + Len(y))
    <3>1. /\ m \in 1..Len(z) /\ Len(x) + Len(y) + m = i
          /\ Len(y) + m \in 1..Len(u) /\ Len(x) + (Len(y) + m) = i
      BY <1>1, <1>2, <2>3
    <3> HIDE DEF m
    <3>2. b[i] = z[m] /\ u[Len(y) + m] = z[m]
      BY <1>2, <3>1
    <3>3. t[i] = u[Len(y) + m]
      BY <1>3, <3>1
    <3> QED
      BY <3>2, <3>3
  <2> QED
    BY <1>1, <2>1, <2>2, <2>3
<1>5. Len(b) = Len(t)
  BY <1>1, <1>2, <1>3
<1> QED
  BY <1>3, <1>4, <1>5, SameBytes DEF t, u, IsThree

LEMMA FourPieces ==
  ASSUME NEW d \in Bytes, NEW x \in Bytes, NEW y \in Bytes, NEW z \in Bytes
  PROVE  SameFour(d, x, y, z)
<1> DEFINE v == d \o x
           w == y \o z
<1>1. v \in Bytes /\ w \in Bytes
  BY Joined
<1>2. v \o w = d \o (x \o w)
  <2> HIDE DEF w
  <2> QED
    BY <1>1, ConcatAssociative DEF Bytes
<1>3. (v \o y) \o z = v \o w
  <2> HIDE DEF v
  <2> QED
    BY <1>1, ConcatAssociative DEF Bytes
<1> QED
  BY <1>2, <1>3 DEF SameFour

\* d, then the delimiter line that ends a part.
EndsPart(d, b, l) ==
  \E eol \in LineEnds \cup {<<>>}, e \in LineEnds :
    /\ d \o b = d \o eol \o l \o e
    /\ eol = <<>> => d = <<>> \/ d[Len(d)] # "LF"
    /\ eol = <<"LF">> => d = <<>> \/ d[Len(d)] # "CR"

LEMMA CompleteEndsPart ==
  ASSUME NEW d \in Bytes, NEW x \in Bytes, NEW ch \in BodyBytes, NEW n \in 0..2, n <= Len(x),
         Eol(x, n), NEW l \in Delimiters, Held(x, n, l), NotCut(d, n),
         NEW k \in Delimiters, CompleteAt(Append(x, ch), n + 1, k)
  PROVE  EndsPart(d, Append(x, ch), k)
<1> DEFINE b == Append(x, ch)
<1>1. b \in Bytes /\ Len(b) = Len(x) + 1 /\ Len(x) \in Nat /\ n <= Len(b) /\ Eol(b, n)
  <2>1. b \in Bytes /\ Len(b) = Len(x) + 1 /\ Len(x) \in Nat /\ Eol(b, n)
    BY Appended, EolGrows DEF Bytes
  <2> HIDE DEF b
  <2> QED
    BY <2>1
<1>2. /\ \A j \in 1..Len(k) : b[n + j] = k[j]
      /\ \/ Len(b) = n + Len(k) + 1 /\ b[n + Len(k) + 1] = "LF"
         \/ /\ Len(b) = n + Len(k) + 2
            /\ b[n + Len(k) + 1] = "CR" /\ b[n + Len(k) + 2] = "LF"
  BY CompleteEndsHere
<1> HIDE DEF b
<1>3. PICK eol \in LineEnds \cup {<<>>} :
           /\ eol \in Bytes /\ Len(eol) = n /\ \A i \in 1..n : eol[i] = b[i]
           /\ eol = <<>> => n = 0
           /\ eol = <<"LF">> => n = 1
  BY <1>1, EolSequence
<1>4. k \in Bytes /\ Len(k) \in Nat /\ n \in Nat
  BY DelimiterFacts
<1>5. \E e \in LineEnds : e \in Bytes /\ b = eol \o (k \o e)
  <2>1. CASE Len(b) = n + Len(k) + 1 /\ b[n + Len(k) + 1] = "LF"
    <3> DEFINE e == <<"LF">>
    <3>1. e \in Bytes /\ Len(e) = 1 /\ e[1] = "LF" /\ e \in LineEnds
      BY MultipartAssumption DEF Bytes, LineEnds
    <3> HIDE DEF e
    <3>2. \A i \in 1..Len(e) : b[Len(eol) + Len(k) + i] = e[i]
      <4>1. 1..1 = {1}
        OBVIOUS
      <4> QED
        BY <1>3, <2>1, <3>1, <4>1
    <3>3. \A i \in 1..Len(k) : b[Len(eol) + i] = k[i]
      BY <1>2, <1>3
    <3>4. Len(b) = Len(eol) + Len(k) + Len(e)
      BY <1>3, <2>1, <3>1
    <3>5. \A i \in 1..Len(eol) : b[i] = eol[i]
      BY <1>3
    <3>6. b \in Bytes /\ eol \in Bytes /\ k \in Bytes /\ e \in Bytes
      BY <1>1, <1>3, <1>4, <3>1
    <3>7. IsThree(b, eol, k, e)
      BY <3>2, <3>3, <3>4, <3>5, <3>6, ThreePieces
    <3> QED
      BY <3>1, <3>7 DEF IsThree
  <2>2. CASE /\ Len(b) = n + Len(k) + 2
             /\ b[n + Len(k) + 1] = "CR" /\ b[n + Len(k) + 2] = "LF"
    <3> DEFINE e == <<"CR", "LF">>
    <3>1. e \in Bytes /\ Len(e) = 2 /\ e[1] = "CR" /\ e[2] = "LF" /\ e \in LineEnds
      BY MultipartAssumption DEF Bytes, LineEnds
    <3> HIDE DEF e
    <3>2. \A i \in 1..Len(e) : b[Len(eol) + Len(k) + i] = e[i]
      <4>1. 1..2 = {1, 2}
        OBVIOUS
      <4> QED
        BY <1>3, <2>2, <3>1, <4>1
    <3>3. \A i \in 1..Len(k) : b[Len(eol) + i] = k[i]
      BY <1>2, <1>3
    <3>4. Len(b) = Len(eol) + Len(k) + Len(e)
      BY <1>3, <2>2, <3>1
    <3>5. \A i \in 1..Len(eol) : b[i] = eol[i]
      BY <1>3
    <3>6. b \in Bytes /\ eol \in Bytes /\ k \in Bytes /\ e \in Bytes
      BY <1>1, <1>3, <1>4, <3>1
    <3>7. IsThree(b, eol, k, e)
      BY <3>2, <3>3, <3>4, <3>5, <3>6, ThreePieces
    <3> QED
      BY <3>1, <3>7 DEF IsThree
  <2> QED
    BY <1>2, <2>1, <2>2
<1>6. PICK e \in LineEnds : e \in Bytes /\ b = eol \o (k \o e)
  BY <1>5
<1>7. d \o eol \o k \o e = d \o b
  <2>1. d \in Bytes /\ eol \in Bytes /\ k \in Bytes /\ e \in Bytes
    BY <1>3, <1>4, <1>6
  <2>2. SameFour(d, eol, k, e)
    BY <2>1, FourPieces
  <2> QED
    BY <1>6, <2>2 DEF SameFour
<1>8. /\ eol = <<>> => d = <<>> \/ d[Len(d)] # "LF"
      /\ eol = <<"LF">> => d = <<>> \/ d[Len(d)] # "CR"
  BY <1>3 DEF NotCut
<1> QED
  BY <1>7, <1>8 DEF EndsPart, b

\* When the held bytes turn out to be no delimiter, no other can be in them.
LEMMA NothingElseHeld ==
  ASSUME NEW x \in Bytes, NEW ch \in BodyBytes, NEW n \in 0..2, n <= Len(x), Eol(x, n),
         NEW l \in Delimiters, Held(x, n, l), ~CandidateAt(Append(x, ch), n + 1)
  PROVE  Candidates(Append(x, ch)) = {}
<1> DEFINE b == Append(x, ch)
<1>1. /\ b \in Bytes /\ Len(b) = Len(x) + 1 /\ \A i \in 1..Len(x) : b[i] = x[i]
      /\ Len(x) \in Nat /\ n \in Nat /\ Eol(b, n)
  BY Appended, EolGrows DEF Bytes
<1>2. ~CandidateAt(b, n + 1)
  OBVIOUS
<1>3. Candidates(b) = {p \in 1..Len(b) : CandidateAt(b, p)}
  BY <1>1, CandidatesBytewise
<1> HIDE DEF b
<1>4. n <= Len(b)
  BY <1>1
<1>5. /\ Len(l) \in Nat /\ Len(l) >= 3 /\ \A i \in 1..Len(l) : l[i] \notin {"CR", "LF"}
  BY DelimiterFacts
<1>6. ASSUME NEW p \in 1..Len(b), CandidateAt(b, p) PROVE FALSE
  <2>1. ~(p <= n)
    <3>1. b[p] \notin {"CR", "LF"}
      BY <1>1, <1>6, NotALineEnd
    <3>2. \A i \in 1..n : b[i] \in {"CR", "LF"}
      BY <1>1, <1>4, EolFacts
    <3> QED
      BY <1>1, <3>1, <3>2
  <2>2. p # n + 1
    BY <1>2, <1>6
  <2> DEFINE j == p - 1 - n
  <2>3. j \in 1..(Len(x) - n) /\ n + j = p - 1 /\ p - 1 \in 1..Len(x) /\ p # 1
    BY <1>1, <2>1, <2>2
  <2>4. x[n + j] = "LF"
    BY <1>1, <1>6, <2>3 DEF CandidateAt, LineStart
  <2> HIDE DEF j
  <2>5. /\ j <= Len(l) => x[n + j] = l[j]
        /\ j = Len(l) + 1 => x[n + j] = "CR"
        /\ j = Len(l) + 2 => x[n + j] # "LF"
    BY <2>3 DEF Held
  <2>6. ~(j <= Len(l))
    <3>1. j \in 1..Len(l) => l[j] \notin {"CR", "LF"}
      BY <1>5
    <3> QED
      BY <1>5, <2>3, <2>4, <2>5, <3>1
  <2>7. Len(l) + 1 \in 1..(Len(x) - n)
    BY <1>1, <1>5, <2>3, <2>6
  <2>8. PrefixAt(b, n + 1, l)
    <3>1. ASSUME NEW i \in 1..Len(l) PROVE b[(n + 1) + i - 1] = l[i]
      <4>1. i \in 1..(Len(x) - n) /\ (n + 1) + i - 1 = n + i /\ n + i \in 1..Len(x) /\ i <= Len(l)
        BY <1>1, <1>5, <2>7
      <4>2. x[n + i] = l[i]
        BY <4>1 DEF Held
      <4> QED
        BY <1>1, <4>1, <4>2
    <3>2. b[(n + 1) + Len(l)] = "CR"
      <4>1. (n + 1) + Len(l) = n + (Len(l) + 1) /\ n + (Len(l) + 1) \in 1..Len(x)
        BY <1>1, <1>5, <2>7
      <4>2. x[n + (Len(l) + 1)] = "CR"
        BY <2>7 DEF Held
      <4> QED
        BY <1>1, <4>1, <4>2
    <3> QED
      BY <3>1, <3>2 DEF PrefixAt
  <2>9. LineStart(b, n + 1)
    BY <1>1, <1>4, EolFacts
  <2> QED
    BY <1>2, <2>8, <2>9 DEF CandidateAt
<1> QED
  BY <1>3, <1>6 DEF b

LEMMA SearchFindsNothing ==
  ASSUME NEW b \in Bytes, Candidates(b) = {}
  PROVE  BodySearch(b).emit = HoldLineEnd(b, Len(b)) /\ BodySearch(b).found = {}
BY DEF BodySearch

\* The last byte of what was delivered.
LEMMA LastDelivered ==
  ASSUME NEW d \in Bytes, NEW b \in Bytes, NEW e \in 0..Len(b)
  PROVE  LET v == d \o SubSeq(b, 1, e) IN
         /\ e > 0 => v # <<>> /\ v[Len(v)] = b[e]
         /\ e = 0 => v = d
<1> DEFINE c == SubSeq(b, 1, e)
           v == d \o c
<1>1. c \in Bytes /\ Len(c) = e /\ \A i \in 1..e : c[i] = b[i]
  BY Cut
<1>2. e \in Nat /\ Len(d) \in Nat
  BY DEF Bytes
<1>3. ASSUME e = 0 PROVE v = d
  <2>1. c = <<>>
    BY <1>3, SubSeqEmpty
  <2> QED
    BY <2>1, ConcatEmptySeq DEF Bytes
<1> HIDE DEF c
<1>4. v \in Bytes /\ Len(v) = Len(d) + e /\ \A i \in 1..Len(c) : v[Len(d) + i] = c[i]
  BY <1>1, Joined
<1> HIDE DEF v
<1>5. ASSUME e > 0 PROVE v # <<>> /\ v[Len(v)] = b[e]
  <2>1. e \in 1..e /\ e \in 1..Len(c) /\ Len(v) > 0
    BY <1>1, <1>2, <1>4, <1>5
  <2>2. v[Len(d) + e] = b[e]
    BY <1>1, <1>4, <2>1
  <2>3. v # <<>>
    BY <2>1
  <2> QED
    BY <1>4, <2>2, <2>3
<1> QED
  BY <1>3, <1>5 DEF v, c

\* With no candidate in sight, a line end at the end is held, and all of it.
LEMMA LineEndIsHeld ==
  ASSUME NEW d \in Bytes, NEW b \in Bytes, b # <<>>,
         Len(b) = 1 => d = <<>> \/ d[Len(d)] # "CR",
         NEW e, e = HoldLineEnd(b, Len(b))
  PROVE  Lookahead(SubSeq(b, e + 1, Len(b)), d \o SubSeq(b, 1, e))
<1> DEFINE N == Len(b)
           r == SubSeq(b, e + 1, Len(b))
           v == d \o SubSeq(b, 1, e)
<1>1. N \in Nat /\ N >= 1 /\ 0 \in 0..2 /\ 1 \in 0..2 /\ 2 \in 0..2
  BY EmptySeq DEF Bytes
<1>2. e \in 0..N
  <2>1. Len(b) \in 0..Len(b)
    BY <1>1
  <2> QED
    BY <2>1, EmitRange
<1>3. /\ r \in Bytes /\ Len(r) = N - e /\ \A i \in 1..(N - e) : r[i] = b[e + i]
  BY <1>2, Cut
<1>4. /\ e > 0 => v # <<>> /\ v[Len(v)] = b[e]
      /\ e = 0 => v = d
  BY <1>2, LastDelivered
<1>5. e = IF b[N] = "CR" THEN N - 1
          ELSE IF N > 1 /\ b[N] = "LF" /\ b[N - 1] = "CR" THEN N - 2
          ELSE IF b[N] = "LF" THEN N - 1 ELSE N
  BY <1>1 DEF HoldLineEnd, EmitLength
<1> HIDE DEF r, v, N
<1>6. PICK l \in Delimiters : TRUE
  BY DEF Delimiters
<1>7. CASE b[N] = "CR"
  <2>1. e = N - 1 /\ e + 1 = N /\ N - e = 1
    BY <1>1, <1>5, <1>7
  <2>2. Len(r) = 1 /\ r[1] = "CR"
    <3>1. 1 \in 1..(N - e)
      BY <2>1
    <3> QED
      BY <1>3, <1>7, <2>1, <3>1
  <2>3. r = <<"CR">>
    <3> DEFINE c == <<"CR">>
    <3>1. c \in Bytes /\ Len(c) = 1 /\ c[1] = "CR"
      BY MultipartAssumption DEF Bytes
    <3> HIDE DEF c
    <3>2. \A i \in 1..Len(r) : r[i] = c[i]
      BY <2>2, <3>1
    <3> QED
      BY <1>3, <2>2, <3>1, <3>2, SameBytes DEF c
  <2> QED
    BY <2>3 DEF Lookahead, r, v
<1>8. CASE N > 1 /\ b[N] = "LF" /\ b[N - 1] = "CR"
  <2>1. e = N - 2 /\ e + 1 = N - 1 /\ e + 2 = N /\ N - e = 2
    BY <1>1, <1>5, <1>8
  <2>2. Len(r) = 2 /\ r[1] = "CR" /\ r[2] = "LF"
    <3>1. 1 \in 1..(N - e) /\ 2 \in 1..(N - e)
      BY <2>1
    <3> QED
      BY <1>3, <1>8, <2>1, <3>1
  <2>3. Eol(r, 2) /\ Held(r, 2, l) /\ NotCut(v, 2) /\ 2 <= Len(r)
    BY <2>2 DEF Eol, Held, NotCut
  <2> QED
    BY <1>1, <2>3 DEF Lookahead, r, v
<1>9. CASE b[N] = "LF" /\ ~(N > 1 /\ b[N - 1] = "CR")
  <2>1. e = N - 1 /\ e + 1 = N /\ N - e = 1
    BY <1>1, <1>5, <1>9
  <2>2. Len(r) = 1 /\ r[1] = "LF"
    <3>1. 1 \in 1..(N - e)
      BY <2>1
    <3> QED
      BY <1>3, <1>9, <2>1, <3>1
  <2>3. NotCut(v, 1)
    <3>1. CASE N > 1
      <4>1. e > 0 /\ e = N - 1
        BY <1>1, <2>1, <3>1
      <4> QED
        BY <1>4, <1>9, <3>1, <4>1 DEF NotCut
    <3>2. CASE ~(N > 1)
      <4>1. N = 1 /\ e = 0
        BY <1>1, <2>1, <3>2
      <4>2. v = d /\ (d = <<>> \/ d[Len(d)] # "CR")
        BY <1>4, <4>1 DEF N
      <4> QED
        BY <4>2 DEF NotCut
    <3> QED
      BY <3>1, <3>2
  <2>4. Eol(r, 1) /\ Held(r, 1, l) /\ 1 <= Len(r)
    BY <2>2 DEF Eol, Held
  <2> QED
    BY <1>1, <2>3, <2>4 DEF Lookahead, r, v
<1>10. CASE b[N] \notin {"CR", "LF"}
  <2>1. e = N /\ e > 0 /\ N - e = 0
    BY <1>1, <1>5, <1>10
  <2>2. Len(r) = 0
    BY <1>3, <2>1
  <2>3. NotCut(v, 0)
    BY <1>4, <1>10, <2>1 DEF NotCut
  <2>4. Eol(r, 0) /\ Held(r, 0, l) /\ 0 <= Len(r)
    BY <2>2 DEF Eol, Held
  <2> QED
    BY <1>1, <2>3, <2>4 DEF Lookahead, r, v
<1> QED
  BY <1>7, <1>8, <1>9, <1>10

\* What one more byte leaves behind: d was delivered, b is the lookahead now.
AfterByte(d, b) ==
  LET s == BodySearch(b) IN
  /\ s.found = {} => Lookahead(SubSeq(b, s.emit + 1, Len(b)), d \o SubSeq(b, 1, s.emit))
  /\ s.found # {} => /\ s.emit = 0
                     /\ \E l \in Delimiters : s.found = {l} /\ EndsPart(d, b, l)

LEMMA AfterCr ==
  ASSUME NEW d \in Bytes, NEW ch \in BodyBytes
  PROVE  AfterByte(d, Append(<<"CR">>, ch))
<1> DEFINE b == Append(<<"CR">>, ch)
<1>1. b \in Bytes /\ Len(b) = 2 /\ b[1] = "CR" /\ b # <<>>
  BY MultipartAssumption DEF Bytes
<1> HIDE DEF b
<1>2. Candidates(b) = {}
  <2>1. Candidates(b) = {p \in 1..Len(b) : CandidateAt(b, p)}
    BY <1>1, CandidatesBytewise
  <2>2. ASSUME NEW p \in 1..Len(b), CandidateAt(b, p) PROVE FALSE
    <3>1. p # 1
      BY <1>1, <2>2, NotALineEnd
    <3>2. p = 2 /\ p - 1 = 1
      BY <1>1, <3>1
    <3> QED
      BY <1>1, <2>2, <3>1, <3>2 DEF CandidateAt, LineStart
  <2> QED
    BY <2>1, <2>2
<1>3. BodySearch(b).emit = HoldLineEnd(b, Len(b)) /\ BodySearch(b).found = {}
  BY <1>1, <1>2, SearchFindsNothing
<1>4. Lookahead(SubSeq(b, BodySearch(b).emit + 1, Len(b)), d \o SubSeq(b, 1, BodySearch(b).emit))
  BY <1>1, <1>3, LineEndIsHeld
<1> QED
  BY <1>3, <1>4 DEF AfterByte, b

LEMMA AfterHeld ==
  ASSUME NEW d \in Bytes, NEW x \in Bytes, NEW ch \in BodyBytes,
         NEW n \in 0..2, NEW l \in Delimiters,
         n <= Len(x), Eol(x, n), Held(x, n, l), NotCut(d, n)
  PROVE  AfterByte(d, Append(x, ch))
<1> DEFINE b == Append(x, ch)
           s == BodySearch(b)
<1>1. /\ b \in Bytes /\ Len(b) = Len(x) + 1 /\ b # <<>> /\ Len(x) \in Nat /\ n \in Nat
      /\ Eol(b, n)
  BY Appended, EolGrows DEF Bytes
<1>2. n + 1 <= Len(b) /\ n <= Len(b)
  <2> HIDE DEF b
  <2> QED
    BY <1>1
<1>3. CASE CandidateAt(b, n + 1)
  <2>1. s.emit = 0 /\ s.found = {k \in Delimiters : CompleteAt(b, n + 1, k)}
    <3> HIDE DEF b
    <3> QED
      BY <1>1, <1>2, <1>3, SearchAtLine
  <2>2. ASSUME s.found = {}
        PROVE  Lookahead(SubSeq(b, s.emit + 1, Len(b)), d \o SubSeq(b, 1, s.emit))
    <3> HIDE DEF b, s
    <3>1. PICK k \in Delimiters : PrefixAt(b, n + 1, k)
      BY <1>3 DEF CandidateAt
    <3>2. Held(b, n, k)
      BY <1>1, <1>2, <2>1, <2>2, <3>1, IncompleteIsHeld
    <3>3. SubSeq(b, s.emit + 1, Len(b)) = b
      BY <1>1, <2>1, SubSeqFull DEF Bytes
    <3>4. d \o SubSeq(b, 1, s.emit) = d
      <4>1. s.emit \in 0..Len(b)
        BY <1>1, <2>1
      <4> QED
        BY <1>1, <2>1, <4>1, LastDelivered
    <3>5. Lookahead(b, d)
      BY <1>1, <1>2, <3>2 DEF Lookahead
    <3> QED
      BY <3>3, <3>4, <3>5
  <2>3. ASSUME s.found # {}
        PROVE  \E k \in Delimiters : s.found = {k} /\ EndsPart(d, b, k)
    <3>1. PICK k \in Delimiters : CompleteAt(b, n + 1, k)
      BY <2>1, <2>3
    <3>2. EndsPart(d, b, k)
      BY <3>1, CompleteEndsPart
    <3> HIDE DEF b, s
    <3>3. ASSUME NEW m \in Delimiters, CompleteAt(b, n + 1, m) PROVE m = k
      <4>1. SUFFICES ASSUME k # m PROVE FALSE
        OBVIOUS
      <4> DEFINE f == [j \in 1..Len(b) |-> b[n + j]]
      <4>2. /\ Len(k) \in Nat /\ Len(k) >= 3 /\ Len(m) \in Nat /\ Len(m) >= 3 /\ Len(b) \in Nat
        BY <1>1, DelimiterFacts
      <4>3. \A h \in {k, m} : /\ (n + 1) + Len(h) <= Len(b)
                              /\ b[(n + 1) + Len(h)] \in {"CR", "LF"}
                              /\ \A j \in 1..Len(h) : b[(n + 1) + j - 1] = h[j]
        <5>1. ASSUME NEW h \in {k, m}
              PROVE  /\ (n + 1) + Len(h) <= Len(b)
                     /\ b[(n + 1) + Len(h)] \in {"CR", "LF"}
                     /\ \A j \in 1..Len(h) : b[(n + 1) + j - 1] = h[j]
          <6>1. CompleteAt(b, n + 1, h) /\ Len(h) \in Nat
            BY <3>1, <3>3, <4>2
          <6> QED
            BY <1>1, <4>2, <6>1 DEF CompleteAt, Spells
        <5> QED
          BY <5>1
      <4>4. \A h \in {k, m} : /\ \A j \in 1..Len(h) : f[j] = h[j]
                              /\ f[Len(h) + 1] \in {"CR", "LF"}
        <5>1. ASSUME NEW h \in {k, m}
              PROVE  /\ \A j \in 1..Len(h) : f[j] = h[j]
                     /\ f[Len(h) + 1] \in {"CR", "LF"}
          <6>1. Len(h) \in Nat
            BY <4>2
          <6>2. ASSUME NEW j \in 1..Len(h) PROVE f[j] = h[j]
            <7>1. j \in 1..Len(b) /\ (n + 1) + j - 1 = n + j
              BY <1>1, <4>2, <4>3, <6>1
            <7> QED
              BY <4>3, <7>1
          <6>3. f[Len(h) + 1] \in {"CR", "LF"}
            <7>1. Len(h) + 1 \in 1..Len(b) /\ n + (Len(h) + 1) = (n + 1) + Len(h)
              BY <1>1, <4>2, <4>3, <6>1
            <7> QED
              BY <4>3, <7>1
          <6> QED
            BY <6>2, <6>3
        <5> QED
          BY <5>1
      <4> HIDE DEF f
      <4> QED
        BY <4>1, <4>4, DelimitersDiffer
    <3>4. s.found = {k}
      BY <2>1, <3>1, <3>3
    <3> QED
      BY <3>2, <3>4
  <2> QED
    BY <2>1, <2>2, <2>3 DEF AfterByte
<1>4. CASE ~CandidateAt(b, n + 1)
  <2>1. Candidates(b) = {}
    BY <1>4, NothingElseHeld
  <2> HIDE DEF b
  <2>2. s.emit = HoldLineEnd(b, Len(b)) /\ s.found = {}
    BY <1>1, <2>1, SearchFindsNothing
  <2>3. Len(b) = 1 => d = <<>> \/ d[Len(d)] # "CR"
    <3>1. ASSUME Len(b) = 1 PROVE n = 0
      <4>1. \A i, j, m \in Nat : i = j + 1 /\ i = 1 /\ m <= j => m = 0
        OBVIOUS
      <4>2. Len(b) \in Nat /\ Len(x) \in Nat /\ n \in Nat /\ n <= Len(x) /\ Len(b) = Len(x) + 1
        BY <1>1
      <4> QED
        BY <3>1, <4>1, <4>2
    <3> QED
      BY <3>1 DEF NotCut
  <2> HIDE DEF s
  <2>4. Lookahead(SubSeq(b, s.emit + 1, Len(b)), d \o SubSeq(b, 1, s.emit))
    BY <1>1, <2>2, <2>3, LineEndIsHeld
  <2> QED
    BY <2>2, <2>4 DEF AfterByte, b, s
<1> QED
  BY <1>3, <1>4

LEMMA AfterByteHolds ==
  ASSUME NEW d \in Bytes, NEW x \in Bytes, NEW ch \in BodyBytes, Lookahead(x, d)
  PROVE  AfterByte(d, Append(x, ch))
<1>1. CASE x = <<"CR">>
  BY <1>1, AfterCr
<1>2. CASE \E n \in 0..2, l \in Delimiters :
             n <= Len(x) /\ Eol(x, n) /\ Held(x, n, l) /\ NotCut(d, n)
  BY <1>2, AfterHeld
<1> QED
  BY <1>1, <1>2 DEF Lookahead

\* LookaheadBounded, of any lookahead.
Bounded(b) ==
  \E eol \in LineEnds \cup {<<>>, <<"CR">>}, l \in Delimiters :
    \/ \E k \in 0..Len(l) + 1 : b = eol \o SubSeq(l \o <<"CR">>, 1, k)
    \/ Matches(b, 1, eol \o l \o <<"CR">>)

LEMMA OnlyLineEnd ==
  ASSUME NEW eol \in LineEnds \cup {<<>>, <<"CR">>}, eol \in Bytes
  PROVE  Bounded(eol)
<1>1. PICK l \in Delimiters : TRUE
  BY DEF Delimiters
<1>2. Len(l) \in Nat /\ 0 \in 0..Len(l) + 1
  BY DelimiterFacts
<1>3. SubSeq(l \o <<"CR">>, 1, 0) = <<>>
  BY SubSeqEmpty
<1>4. eol = eol \o SubSeq(l \o <<"CR">>, 1, 0)
  BY <1>3, ConcatEmptySeq DEF Bytes
<1> QED
  BY <1>2, <1>4 DEF Bounded

LEMMA LookaheadIsBounded ==
  ASSUME NEW d \in Bytes, NEW x \in Bytes, Lookahead(x, d)
  PROVE  Bounded(x)
<1>1. CASE x = <<"CR">>
  BY <1>1, OnlyLineEnd
<1>2. ASSUME NEW n \in 0..2, NEW l \in Delimiters, n <= Len(x), Eol(x, n), Held(x, n, l)
      PROVE  Bounded(x)
  <2> DEFINE cr == <<"CR">>
             c == l \o cr
  <2>1. cr \in Bytes /\ Len(cr) = 1 /\ cr[1] = "CR"
    BY MultipartAssumption DEF Bytes
  <2>2. l \in Bytes /\ Len(l) \in Nat /\ Len(l) >= 3 /\ Len(x) \in Nat /\ n \in Nat
    BY DelimiterFacts DEF Bytes
  <2>3. PICK eol \in LineEnds \cup {<<>>} :
           eol \in Bytes /\ Len(eol) = n /\ \A i \in 1..n : eol[i] = x[i]
    BY <1>2, EolSequence
  <2> HIDE DEF cr
  <2>4. /\ c \in Bytes /\ Len(c) = Len(l) + 1 /\ \A i \in 1..Len(l) : c[i] = l[i]
        /\ c[Len(l) + 1] = "CR"
    <3>1. /\ c \in Bytes /\ Len(c) = Len(l) + Len(cr) /\ \A i \in 1..Len(l) : c[i] = l[i]
          /\ \A i \in 1..Len(cr) : c[Len(l) + i] = cr[i]
      BY <2>1, <2>2, Joined
    <3> HIDE DEF c
    <3> QED
      BY <2>1, <2>2, <3>1
  <2>5. ASSUME NEW j \in 1..(Len(l) + 1), j <= Len(x) - n PROVE x[n + j] = c[j]
    <3> HIDE DEF c
    <3>1. j \in 1..(Len(x) - n)
      BY <2>2, <2>5
    <3>2. (j <= Len(l) => x[n + j] = l[j]) /\ (j = Len(l) + 1 => x[n + j] = "CR")
      BY <1>2, <3>1 DEF Held
    <3>3. j \in 1..Len(l) \/ j = Len(l) + 1
      BY <2>2
    <3> QED
      BY <2>2, <2>4, <3>2, <3>3
  <2>6. CASE Len(x) - n <= Len(l) + 1
    <3> DEFINE k == Len(x) - n
               y == SubSeq(c, 1, k)
    <3>1. k \in 0..Len(c) /\ k \in Nat /\ k \in 0..Len(l) + 1
      BY <1>2, <2>2, <2>4, <2>6
    <3> HIDE DEF c
    <3>2. y \in Bytes /\ Len(y) = k /\ \A i \in 1..k : y[i] = c[i]
      BY <2>4, <3>1, Cut
    <3> HIDE DEF y
    <3> DEFINE t == eol \o y
    <3>3. /\ t \in Bytes /\ Len(t) = n + k
          /\ \A i \in 1..n : t[i] = eol[i]
          /\ \A i \in 1..k : t[n + i] = y[i]
      <4>1. /\ t \in Bytes /\ Len(t) = Len(eol) + Len(y)
            /\ \A i \in 1..Len(eol) : t[i] = eol[i]
            /\ \A i \in 1..Len(y) : t[Len(eol) + i] = y[i]
        BY <2>3, <3>2, Joined
      <4> HIDE DEF t
      <4> QED
        BY <2>3, <3>2, <4>1
    <3>4. ASSUME NEW i \in 1..Len(x) PROVE x[i] = t[i]
      <4>1. CASE i <= n
        BY <2>2, <2>3, <3>3, <4>1
      <4>2. CASE ~(i <= n)
        <5>1. /\ i - n \in 1..k /\ i - n \in 1..(Len(l) + 1) /\ i - n <= Len(x) - n
              /\ n + (i - n) = i
          BY <2>2, <2>6, <4>2
        <5>2. x[i] = c[i - n]
          BY <2>5, <5>1
        <5>3. t[i] = y[i - n]
          BY <3>3, <5>1
        <5> QED
          BY <3>2, <5>1, <5>2, <5>3
      <4> QED
        BY <4>1, <4>2
    <3>5. Len(t) = Len(x)
      BY <2>2, <3>3
    <3>6. x = t
      BY <3>3, <3>4, <3>5, SameBytes
    <3>7. eol \in LineEnds \cup {<<>>, <<"CR">>}
      BY <2>3
    <3> QED
      BY <3>1, <3>6, <3>7 DEF Bounded, y, c, cr
  <2>7. CASE ~(Len(x) - n <= Len(l) + 1)
    <3> DEFINE h == eol \o l
               t == h \o cr
    <3>1. /\ h \in Bytes /\ Len(h) = n + Len(l)
          /\ \A i \in 1..n : h[i] = eol[i]
          /\ \A i \in 1..Len(l) : h[n + i] = l[i]
      BY <2>2, <2>3, Joined
    <3> HIDE DEF h
    <3>2. /\ t \in Bytes /\ Len(t) = Len(h) + Len(cr)
          /\ \A i \in 1..Len(h) : t[i] = h[i]
          /\ \A i \in 1..Len(cr) : t[Len(h) + i] = cr[i]
      BY <2>1, <3>1, Joined
    <3> HIDE DEF t
    <3>3. Len(t) = n + Len(l) + 1 /\ t # <<>> /\ t \in Seq(BodyBytes) /\ x \in Seq(BodyBytes)
      BY <2>1, <2>2, <3>1, <3>2 DEF Bytes
    <3>4. ASSUME NEW i \in 1..Len(t) PROVE x[1 + i - 1] = t[i]
      <4>1. 1 + i - 1 = i
        BY <3>3
      <4>2. CASE i <= n
        <5>1. i \in 1..n /\ i \in 1..Len(h)
          BY <2>2, <3>1, <4>2
        <5> QED
          BY <2>3, <3>1, <3>2, <4>1, <5>1
      <4>3. CASE ~(i <= n) /\ i <= n + Len(l)
        <5> DEFINE j == i - n
        <5>1. /\ j \in 1..Len(l) /\ j \in 1..(Len(l) + 1) /\ j <= Len(x) - n /\ n + j = i
              /\ i \in 1..Len(h)
          BY <2>2, <2>7, <3>1, <4>3
        <5> HIDE DEF j
        <5>2. x[i] = c[j] /\ t[i] = h[i] /\ h[i] = l[j]
          BY <2>5, <3>1, <3>2, <5>1
        <5> QED
          BY <2>4, <4>1, <5>1, <5>2
      <4>4. CASE ~(i <= n + Len(l))
        <5>1. /\ i = n + (Len(l) + 1) /\ Len(l) + 1 \in 1..(Len(l) + 1)
              /\ Len(l) + 1 <= Len(x) - n /\ i = Len(h) + 1 /\ 1 \in 1..Len(cr)
          BY <2>1, <2>2, <2>7, <3>1, <3>3, <4>4
        <5>2. x[i] = "CR"
          BY <2>4, <2>5, <5>1
        <5>3. t[i] = "CR"
          BY <2>1, <3>2, <5>1
        <5> QED
          BY <4>1, <5>2, <5>3
      <4> QED
        BY <4>2, <4>3, <4>4
    <3>5. 1 + Len(t) - 1 <= Len(x)
      BY <2>2, <2>7, <3>3
    <3>6. Matches(x, 1, t)
      <4>1. 1 \in Nat /\ 1 >= 1
        OBVIOUS
      <4> QED
        BY <3>3, <3>4, <3>5, <4>1, MatchesBytewise
    <3>7. eol \in LineEnds \cup {<<>>, <<"CR">>}
      BY <2>3
    <3> QED
      BY <3>6, <3>7 DEF Bounded, t, h, cr
  <2> QED
    BY <2>6, <2>7
<1> QED
  BY <1>1, <1>2 DEF Lookahead

-----------------------------------------------------------------------------
(***************************************************************************)
(* The actions.                                                            *)
(***************************************************************************)
\* A part that has not begun is held, settled and cut in no way.
LEMMA NothingYet ==
  ASSUME body' = <<>>, bodyOut' = <<>>
  PROVE  ScanInv' /\ SettledInv' /\ NoDelimiterDelivered'
<1>1. <<>> \in Bytes /\ Len(<<>>) = 0
  BY DEF Bytes
<1>2. Lookahead(<<>>, <<>>)
  <2>1. PICK l \in Delimiters : TRUE
    BY DEF Delimiters
  <2>2. 0 \in 0..2 /\ 0 <= Len(<<>>) /\ Eol(<<>>, 0) /\ Held(<<>>, 0, l) /\ NotCut(<<>>, 0)
    BY <1>1 DEF Eol, Held, NotCut
  <2> QED
    BY <2>2 DEF Lookahead
<1>3. Settled(<<>>, <<>> \o <<>>)
  <2>1. <<>> \o <<>> = <<>>
    BY <1>1, ConcatEmptySeq DEF Bytes
  <2>2. Settled(<<>>, <<>>)
    BY <1>1 DEF Settled
  <2> QED
    BY <2>1, <2>2
<1>4. ScanInv'
  BY <1>2 DEF ScanInv
<1>5. SettledInv'
  BY <1>3 DEF SettledInv
<1>6. NoDelimiterDelivered'
  BY <1>1 DEF NoDelimiterDelivered
<1> QED
  BY <1>4, <1>5, <1>6

\* What a line may leave behind.
LineDone ==
  /\ phase' \in {"expect", "headers", "length", "scan", "done"}
  /\ body' = <<>> /\ contentLength' \in Int /\ remaining' \in Int
  /\ begun' \in Nat /\ partsEnded' \in Nat /\ stopped' \in BOOLEAN /\ closed' \in BOOLEAN
  /\ ~stopped' => begun' = IF phase' \in {"scan", "length"} THEN partsEnded' + 1 ELSE partsEnded'
  /\ closed' \/ phase' = "done" => phase' = "done" /\ begun' = partsEnded'
  /\ phase' = "length" /\ ~stopped' => remaining' = contentLength' /\ remaining' > 0

LEMMA ProcessLineDone ==
  ASSUME TypeOK, HoldsOnlyScanning, PartsInv, InLines, NEW fail, ProcessLine(fail)
  PROVE  LineDone
<1> USE DEF LineDone, TypeOK, NoLength
<1>1. body = <<>> /\ ~stopped /\ begun = partsEnded /\ phase # "length" /\ phase # "scan"
  BY DEF HoldsOnlyScanning, InLines, PartsInv
<1>2. closed => phase = "done"
  BY DEF PartsInv
<1>3. CASE ExpectBoundary
  <2>1. UNCHANGED <<begun, partsEnded>> /\ phase = "expect" /\ ~closed
    BY <1>2, <1>3 DEF ExpectBoundary
  <2>2. CASE UNCHANGED <<phase, partVars, closed>> /\ stopped' \in BOOLEAN
    BY <1>1, <2>1, <2>2 DEF partVars
  <2>3. CASE ResetPart /\ phase' = "headers" /\ UNCHANGED <<closed, stopped>>
    BY <1>1, <2>1, <2>3 DEF ResetPart
  <2>4. CASE phase' = "done" /\ closed' = TRUE /\ UNCHANGED <<partVars, stopped>>
    BY <1>1, <2>1, <2>4 DEF partVars
  <2> QED
    BY <1>3, <2>2, <2>3, <2>4 DEF ExpectBoundary, Stop
<1>4. CASE HeaderLine(fail)
  <2>1. contentLength' \in Int
    <3>1. CASE UNCHANGED contentLength
      BY <3>1
    <3>2. CASE /\ line \in {<<h>> : h \in Headers}
               /\ contentLength' = IF ContentLength[line[1]] >= 0 THEN ContentLength[line[1]]
                                   ELSE contentLength
      <4>1. line[1] \in Headers
        BY <3>2
      <4>2. ContentLength[line[1]] \in Int
        BY <4>1, MultipartAssumption
      <4> QED
        BY <3>2, <4>2
    <3> QED
      BY <1>4, <3>1, <3>2 DEF HeaderLine
  <2>2. stopped' \in BOOLEAN
    BY <1>4 DEF HeaderLine, Stop
  <2>3. UNCHANGED <<phase, remaining, body, closed, begun, partsEnded>> /\ phase = "headers"
    BY <1>4 DEF HeaderLine
  <2> QED
    BY <1>1, <1>2, <2>1, <2>2, <2>3
<1>5. CASE EndOfHeaders(fail)
  <2>1. UNCHANGED closed /\ phase = "headers" /\ ~closed
    BY <1>2, <1>5 DEF EndOfHeaders
  <2>2. CASE UNCHANGED <<phase, partVars, begun, partsEnded>> /\ stopped' \in BOOLEAN
    BY <1>1, <2>1, <2>2 DEF partVars
  <2>3. CASE /\ begun' = begun + 1 /\ partsEnded' = partsEnded + 1 /\ ResetPart /\ phase' = "expect"
             /\ stopped' \in BOOLEAN
    BY <1>1, <2>1, <2>3 DEF ResetPart
  <2>4. CASE /\ contentLength > 0 /\ begun' = begun + 1 /\ phase' = "length"
             /\ remaining' = contentLength
             /\ UNCHANGED <<headerCount, contentLength, body, partsEnded, stopped>>
    BY <1>1, <2>1, <2>4
  <2>5. CASE begun' = begun + 1 /\ phase' = "scan" /\ UNCHANGED <<partVars, partsEnded, stopped>>
    BY <1>1, <2>1, <2>5 DEF partVars
  <2> QED
    BY <1>5, <2>2, <2>3, <2>4, <2>5 DEF EndOfHeaders, Stop
<1>6. CASE Epilogue
  BY <1>1, <1>2, <1>6 DEF Epilogue, partVars
<1> QED
  BY <1>3, <1>4, <1>5, <1>6 DEF ProcessLine

LEMMA LineKeepsInv ==
  ASSUME MultipartInv, InLines, LineDone, finished' = finished, bodyOut' = <<>>,
         raw' \in Bytes, bareCr' \in BOOLEAN,
         raw' = <<>> \/ (bareCr' /\ phase' \in {"length", "scan"})
  PROVE  MultipartInv'
<1>1. <<>> \in Bytes /\ Len(<<>>) = 0 /\ <<>> \o <<>> = <<>>
  BY ConcatEmptySeq DEF Bytes
<1>2. TypeOK'
  BY <1>1 DEF LineDone, TypeOK
<1>3. HoldsOnlyScanning'
  BY DEF LineDone, HoldsOnlyScanning
<1>4. ScanInv' /\ SettledInv' /\ NoDelimiterDelivered'
  BY NothingYet DEF LineDone
<1>5. NoByteLost'
  <2>1. CASE bareCr'
    BY <2>1 DEF NoByteLost
  <2>2. CASE raw' = <<>>
    <3>1. bodyOut' \o body' = raw' /\ Len(raw') = 0
      BY <1>1, <2>2 DEF LineDone
    <3>2. phase' = "length" /\ ~stopped' => Len(raw') + remaining' = contentLength'
      <4>1. remaining' \in Int /\ (phase' = "length" /\ ~stopped' => remaining' = contentLength')
        BY DEF LineDone
      <4>2. \A i \in Int : 0 + i = i
        OBVIOUS
      <4> QED
        BY <3>1, <4>1, <4>2
    <3> QED
      BY <3>1, <3>2 DEF NoByteLost, InBody
  <2> QED
    BY <2>1, <2>2
<1>6. PartEndsAtDelimiter'
  BY DEF PartEndsAtDelimiter, JustEnded
<1>7. PartsInv'
  BY DEF MultipartInv, LineDone, PartsInv, InLines
<1> QED
  BY <1>2, <1>3, <1>4, <1>5, <1>6, <1>7 DEF MultipartInv

LEMMA LineUnchanged ==
  ASSUME MultipartInv, InLines,
         UNCHANGED <<phase, partVars, closed, begun, partsEnded>>, stopped' \in BOOLEAN
  PROVE  LineDone
BY DEF MultipartInv, TypeOK, HoldsOnlyScanning, PartsInv, InLines, LineDone, partVars

LEMMA FeedLfStep ==
  ASSUME MultipartInv, NEW fail, FeedLf(fail) PROVE MultipartInv'
<1>1. InLines /\ LineDone
  BY ProcessLineDone DEF FeedLf, MultipartInv
<1>2. /\ finished' = finished /\ bodyOut' = <<>> /\ raw' = <<>> /\ bareCr' = bareCr
  BY DEF FeedLf, ForgetPart
<1>3. raw' \in Bytes /\ bareCr' \in BOOLEAN
  BY <1>2 DEF MultipartInv, TypeOK, Bytes
<1> QED
  BY <1>1, <1>2, <1>3, LineKeepsInv

LEMMA FeedAfterCrStep ==
  ASSUME MultipartInv, NEW fail, NEW ch \in LineBytes \cup {"CR"}, FeedAfterCr(ch, fail)
  PROVE  MultipartInv'
<1>1. InLines /\ LineDone
  BY ProcessLineDone DEF FeedAfterCr, MultipartInv
<1>2. /\ finished' = finished /\ bodyOut' = <<>> /\ bareCr' = TRUE
      /\ raw' = IF phase' \in {"length", "scan"} THEN <<ch>> ELSE <<>>
  BY DEF FeedAfterCr
<1>3. ch \in BodyBytes
  BY MultipartAssumption DEF LineBytes
<1>4. <<ch>> \in Bytes /\ <<>> \in Bytes
  BY <1>3 DEF Bytes
<1> QED
  BY <1>1, <1>2, <1>4, LineKeepsInv

LEMMA FeedLineByteStep ==
  ASSUME MultipartInv, NEW ch, NEW fail, FeedLineByte(ch, fail) PROVE MultipartInv'
<1>1. /\ InLines /\ UNCHANGED <<phase, partVars, closed, begun, partsEnded>>
      /\ finished' = finished /\ bodyOut' = <<>> /\ raw' = <<>> /\ bareCr' = bareCr
  BY DEF FeedLineByte, ForgetPart
<1>2. stopped' \in BOOLEAN
  BY DEF FeedLineByte, Stop, MultipartInv, TypeOK
<1>3. raw' \in Bytes /\ bareCr' \in BOOLEAN
  BY <1>1 DEF MultipartInv, TypeOK, Bytes
<1>4. LineDone
  BY <1>1, <1>2, LineUnchanged
<1> QED
  BY <1>1, <1>3, <1>4, LineKeepsInv

LEMMA FeedCrStep ==
  ASSUME MultipartInv, FeedCr PROVE MultipartInv'
<1>1. /\ InLines /\ UNCHANGED <<phase, partVars, closed, begun, partsEnded>>
      /\ finished' = finished /\ bodyOut' = <<>> /\ raw' = <<>> /\ bareCr' = bareCr
      /\ stopped' = stopped
  BY DEF FeedCr, ForgetPart
<1>2. raw' \in Bytes /\ bareCr' \in BOOLEAN /\ stopped' \in BOOLEAN
  BY <1>1 DEF MultipartInv, TypeOK, Bytes
<1>3. LineDone
  BY <1>1, <1>2, LineUnchanged
<1> QED
  BY <1>1, <1>2, <1>3, LineKeepsInv

LEMMA FinishStep ==
  ASSUME MultipartInv, FinishParts PROVE MultipartInv'
<1>1. /\ UNCHANGED <<phase, partVars, stopped, begun, partsEnded, bareCr>>
      /\ bodyOut' = <<>> /\ raw' = <<>> /\ finished' # "no"
  BY DEF FinishParts, ForgetPart
<1>2. closed' \in BOOLEAN /\ (closed' \/ finished' = "ok" => closed \/ phase = "done")
  BY DEF FinishParts, MultipartInv, TypeOK
<1>3. TypeOK' /\ HoldsOnlyScanning'
  BY <1>1, <1>2 DEF MultipartInv, TypeOK, HoldsOnlyScanning, Bytes, partVars
<1>4. ~InBody'
  BY <1>1 DEF InBody
<1>5. ScanInv' /\ SettledInv' /\ NoByteLost'
  BY <1>4 DEF ScanInv, SettledInv, NoByteLost
<1>6. NoDelimiterDelivered'
  <2>1. Len(bodyOut') = 0
    BY <1>1
  <2> QED
    BY <2>1 DEF NoDelimiterDelivered
<1>7. PartEndsAtDelimiter'
  BY <1>1 DEF PartEndsAtDelimiter, JustEnded
<1>8. PartsInv'
  BY <1>1, <1>2 DEF MultipartInv, PartsInv, partVars
<1> QED
  BY <1>3, <1>5, <1>6, <1>7, <1>8 DEF MultipartInv

LEMMA FreshParser ==
  ASSUME phase' = "expect", body' = <<>>, contentLength' = NoLength, remaining' = 0,
         closed' = FALSE, stopped' = FALSE, finished' = "no", begun' = 0, partsEnded' = 0,
         raw' = <<>>, bodyOut' = <<>>, bareCr' = FALSE
  PROVE  MultipartInv'
<1>1. ScanInv' /\ SettledInv' /\ NoDelimiterDelivered'
  BY NothingYet
<1>2. TypeOK'
  <2>1. <<>> \in Bytes /\ NoLength \in Int /\ 0 \in Int /\ 0 \in Nat
    BY DEF Bytes, NoLength
  <2> QED
    BY <2>1 DEF TypeOK
<1>3. HoldsOnlyScanning'
  BY DEF HoldsOnlyScanning
<1>4. PartsInv'
  BY DEF PartsInv
<1>5. NoByteLost' /\ PartEndsAtDelimiter'
  BY DEF NoByteLost, InBody, PartEndsAtDelimiter, JustEnded
<1> QED
  BY <1>1, <1>2, <1>3, <1>4, <1>5 DEF MultipartInv

LEMMA FeedLengthStep ==
  ASSUME MultipartInv, NEW fail, NEW data \in Bytes, FeedLength(data, fail)
  PROVE  MultipartInv'
<1>1. /\ phase = "length" /\ ~stopped /\ finished = "no" /\ raw' = raw \o data
      /\ Len(data) <= remaining
      /\ UNCHANGED <<line, sawCr, closed, finished, begun, bareCr>>
  BY DEF FeedLength
<1>2. /\ raw \in Bytes /\ bodyOut \in Bytes /\ contentLength \in Int /\ remaining \in Int
      /\ begun \in Nat /\ partsEnded \in Nat /\ bareCr \in BOOLEAN /\ closed \in BOOLEAN
      /\ body = <<>> /\ begun = partsEnded + 1 /\ ~closed /\ remaining > 0
  BY <1>1 DEF MultipartInv, TypeOK, HoldsOnlyScanning, PartsInv
<1>3. /\ raw \o data \in Bytes /\ Len(raw \o data) = Len(raw) + Len(data)
      /\ bodyOut \o data \in Bytes /\ Len(raw) \in Nat /\ Len(data) \in Nat
  BY <1>2, Joined DEF Bytes
<1>4. ~bareCr => bodyOut = raw /\ Len(raw) + remaining = contentLength
  <2>1. bodyOut \o <<>> = bodyOut
    BY <1>2, ConcatEmptySeq DEF Bytes
  <2> QED
    BY <1>1, <1>2, <2>1 DEF MultipartInv, NoByteLost, InBody
<1>5. \/ /\ phase' = "length" /\ stopped' = TRUE /\ body' = <<>> /\ contentLength' \in Int
         /\ remaining' \in Int /\ partsEnded' \in Nat /\ bodyOut' \in Bytes
      \/ /\ phase' = "length" /\ stopped' = FALSE /\ body' = <<>>
         /\ contentLength' = contentLength /\ Len(data) < remaining
         /\ remaining' = remaining - Len(data)
         /\ partsEnded' = partsEnded /\ bodyOut' = bodyOut \o data
      \/ /\ phase' = "expect" /\ stopped' = FALSE /\ body' = <<>> /\ contentLength' = NoLength
         /\ remaining' = 0 /\ partsEnded' = partsEnded + 1 /\ bodyOut' = bodyOut \o data
  <2>1. stopped = FALSE
    BY <1>1 DEF MultipartInv, TypeOK
  <2>2. CASE fail = "data" /\ Stop /\ UNCHANGED <<phase, partVars, partsEnded, bodyOut>>
    BY <1>1, <1>2, <2>2 DEF Stop, partVars
  <2>3. CASE /\ bodyOut' = bodyOut \o data /\ Len(data) < remaining
             /\ remaining' = remaining - Len(data)
             /\ UNCHANGED <<phase, headerCount, contentLength, body, partsEnded, stopped>>
    BY <1>1, <1>2, <2>1, <2>3
  <2>4. CASE /\ bodyOut' = bodyOut \o data
             /\ remaining' = 0 /\ partsEnded' = partsEnded + 1 /\ Stop
             /\ UNCHANGED <<phase, headerCount, contentLength, body>>
    BY <1>1, <1>2, <1>3, <2>4 DEF Stop
  <2>5. CASE /\ bodyOut' = bodyOut \o data
             /\ partsEnded' = partsEnded + 1 /\ ResetPart /\ phase' = "expect" /\ UNCHANGED stopped
    BY <1>1, <1>2, <2>1, <2>5 DEF ResetPart
  <2> QED
    BY <2>2, <2>3, <2>4, <2>5 DEF FeedLength
<1>6. TypeOK'
  <2>1. NoLength \in Int /\ 0 \in Int /\ remaining - Len(data) \in Int /\ partsEnded + 1 \in Nat
    BY <1>2, <1>3 DEF NoLength
  <2>2. /\ phase' \in {"expect", "headers", "length", "scan", "done"} /\ stopped' \in BOOLEAN
        /\ contentLength' \in Int /\ remaining' \in Int /\ partsEnded' \in Nat /\ bodyOut' \in Bytes
    BY <1>2, <1>3, <1>5, <2>1
  <2>3. body' \in Bytes
    <3>1. body' = <<>>
      BY <1>5
    <3> QED
      BY <3>1 DEF Bytes
  <2>4. raw' \in Bytes /\ begun' \in Nat /\ closed' \in BOOLEAN /\ bareCr' \in BOOLEAN
    BY <1>1, <1>2, <1>3
  <2> QED
    BY <2>2, <2>3, <2>4 DEF TypeOK
<1>7. HoldsOnlyScanning' /\ ScanInv' /\ SettledInv' /\ NoDelimiterDelivered'
  BY <1>5 DEF HoldsOnlyScanning, ScanInv, SettledInv, NoDelimiterDelivered
<1>8. PartEndsAtDelimiter'
  BY <1>5 DEF PartEndsAtDelimiter, JustEnded
<1>9. PartsInv'
  BY <1>1, <1>2, <1>3, <1>5 DEF PartsInv
<1>10. NoByteLost'
  <2>1. SUFFICES ASSUME InBody', ~bareCr'
                 PROVE  /\ bodyOut' \o body' = raw'
                        /\ phase' = "length" => Len(raw') + remaining' = contentLength'
    BY DEF NoByteLost
  <2>2. /\ contentLength' = contentLength /\ remaining' = remaining - Len(data)
        /\ bodyOut' = bodyOut \o data /\ body' = <<>>
    BY <1>5, <2>1 DEF InBody
  <2>3. bodyOut' \o body' = raw'
    <3>1. (bodyOut \o data) \o <<>> = bodyOut \o data
      BY <1>3, ConcatEmptySeq DEF Bytes
    <3> QED
      BY <1>1, <1>4, <2>1, <2>2, <3>1
  <2>4. Len(raw') + remaining' = contentLength'
    <3>1. Len(raw) + remaining = contentLength
      BY <1>1, <1>4, <2>1
    <3>2. \A i, j, k \in Int : (i + j) + (k - j) = i + k
      OBVIOUS
    <3>3. (Len(raw) + Len(data)) + (remaining - Len(data)) = Len(raw) + remaining
      BY <1>2, <1>3, <3>2
    <3> QED
      BY <1>1, <1>3, <2>2, <3>1, <3>3
  <2> QED
    BY <2>3, <2>4
<1> QED
  BY <1>6, <1>7, <1>8, <1>9, <1>10 DEF MultipartInv

\* Where ScanStep may go from the lookahead b.
ScanOutcome(b) ==
  LET e == BodySearch(b).emit
      found == BodySearch(b).found IN
  \/ /\ stopped' = TRUE /\ phase' = "scan" /\ body' \in Bytes
     /\ partsEnded' \in Nat /\ closed' = closed
     /\ \/ bodyOut' = bodyOut
        \/ bodyOut' = bodyOut \o SubSeq(b, 1, e)
  \/ /\ stopped' = FALSE /\ phase' = "scan" /\ found = {}
     /\ bodyOut' = bodyOut \o SubSeq(b, 1, e) /\ body' = SubSeq(b, e + 1, Len(b))
     /\ partsEnded' = partsEnded /\ closed' = closed
  \/ /\ stopped' = FALSE /\ found # {} /\ body' = <<>>
     /\ bodyOut' = bodyOut \o SubSeq(b, 1, e) /\ partsEnded' = partsEnded + 1
     /\ closed' = (ClosingLine \in found)
     /\ phase' = IF closed' THEN "done" ELSE "headers"

LEMMA ScanStepOutcome ==
  ASSUME TypeOK, phase = "scan", ~stopped, NEW b \in Bytes, NEW fail, ScanStep(b, fail)
  PROVE  ScanOutcome(b) /\ contentLength' \in Int /\ remaining' \in Int
<1> DEFINE s == BodySearch(b)
           data == SubSeq(b, 1, s.emit)
<1>1. /\ stopped = FALSE /\ partsEnded \in Nat /\ <<>> \in Bytes
      /\ contentLength \in Int /\ remaining \in Int
  BY DEF TypeOK, Bytes
<1>2. CASE /\ body' = b /\ Stop
           /\ UNCHANGED <<phase, headerCount, contentLength, remaining, closed, partsEnded, bodyOut>>
  BY <1>1, <1>2 DEF ScanOutcome, Stop
<1>3. CASE /\ bodyOut' = bodyOut \o data /\ s.found = {}
           /\ body' = SubSeq(b, s.emit + 1, Len(b))
           /\ UNCHANGED <<phase, headerCount, contentLength, remaining, closed, partsEnded, stopped>>
  BY <1>1, <1>3 DEF ScanOutcome
<1>4. CASE /\ bodyOut' = bodyOut \o data /\ s.found # {}
           /\ body' = <<>> /\ partsEnded' = partsEnded + 1 /\ Stop
           /\ UNCHANGED <<phase, headerCount, contentLength, remaining, closed>>
  BY <1>1, <1>4 DEF ScanOutcome, Stop
<1>5. CASE /\ bodyOut' = bodyOut \o data /\ s.found # {}
           /\ partsEnded' = partsEnded + 1 /\ ResetPart
           /\ closed' = (ClosingLine \in s.found)
           /\ phase' = IF closed' THEN "done" ELSE "headers"
           /\ UNCHANGED stopped
  BY <1>1, <1>5 DEF ScanOutcome, ResetPart, NoLength
<1> QED
  BY <1>2, <1>3, <1>4, <1>5 DEF ScanStep

LEMMA ScanStops ==
  ASSUME MultipartInv, phase = "scan", finished' = finished, begun' = begun, bareCr' = bareCr,
         raw' \in Bytes, bodyOut' \in Bytes, body' \in Bytes, contentLength' \in Int,
         remaining' \in Int, partsEnded' \in Nat, closed' = closed, phase' = "scan", stopped' = TRUE,
         NoDelimiterDelivered'
  PROVE  MultipartInv'
<1>1. TypeOK'
  BY DEF MultipartInv, TypeOK
<1>2. HoldsOnlyScanning' /\ ScanInv' /\ SettledInv' /\ NoByteLost' /\ PartEndsAtDelimiter'
  BY DEF HoldsOnlyScanning, ScanInv, SettledInv, NoByteLost, PartEndsAtDelimiter, InBody, JustEnded
<1>3. PartsInv'
  BY DEF MultipartInv, PartsInv
<1> QED
  BY <1>1, <1>2, <1>3 DEF MultipartInv

LEMMA FeedScanStep ==
  ASSUME MultipartInv, NEW fail, NEW ch \in BodyBytes, FeedScan(ch, fail)
  PROVE  MultipartInv'
<1> DEFINE b == Append(body, ch)
           e == BodySearch(b).emit
           found == BodySearch(b).found
<1>1. /\ phase = "scan" /\ ~stopped /\ stopped = FALSE /\ finished = "no"
      /\ raw' = Append(raw, ch) /\ UNCHANGED <<line, sawCr, finished, begun, bareCr>>
  BY DEF FeedScan, MultipartInv, TypeOK
<1>2. /\ raw \in Bytes /\ body \in Bytes /\ bodyOut \in Bytes /\ begun \in Nat /\ partsEnded \in Nat
      /\ bareCr \in BOOLEAN /\ closed \in BOOLEAN /\ contentLength \in Int /\ remaining \in Int
  BY DEF MultipartInv, TypeOK
<1>3. /\ b \in Bytes /\ Len(b) = Len(body) + 1 /\ raw' \in Bytes
  BY <1>1, <1>2, Appended
<1>4. InBody /\ Lookahead(body, bodyOut) /\ Settled(bodyOut, bodyOut \o body)
  BY <1>1 DEF MultipartInv, InBody, ScanInv, SettledInv
<1>5. ~bareCr => bodyOut \o body = raw
  BY <1>4 DEF MultipartInv, NoByteLost
<1>6. begun = partsEnded + 1 /\ ~closed
  BY <1>1 DEF MultipartInv, PartsInv
<1>7. AfterByte(bodyOut, b)
  BY <1>2, <1>4, AfterByteHolds
<1> DEFINE v == bodyOut \o SubSeq(b, 1, e)
           r == SubSeq(b, e + 1, Len(b))
<1>8. e \in 0..Len(b) /\ \A q \in 1..e : ~CandidateAt(b, q)
  BY <1>3, SearchFacts
<1>9. Settled(v, bodyOut \o b)
  <2>1. e \in 0..(Len(body) + 1)
    BY <1>3, <1>8
  <2> HIDE DEF e
  <2> QED
    BY <1>2, <1>4, <1>8, <2>1, SettledGrows
<1>10. v \in Bytes /\ r \in Bytes /\ v \o r = bodyOut \o b /\ bodyOut \o b \in Bytes
  <2> HIDE DEF b, e
  <2>1. SubSeq(b, 1, e) \in Bytes /\ r \in Bytes
    BY <1>3, <1>8, Cut
  <2>2. v \in Bytes /\ bodyOut \o b \in Bytes
    BY <1>2, <1>3, <2>1, Joined
  <2>3. v \o r = bodyOut \o b
    BY <1>2, <1>3, <1>8, CutJoined
  <2> QED
    BY <2>1, <2>2, <2>3
<1>11. ~bareCr => bodyOut \o b = raw'
  <2>1. bodyOut \o Append(body, ch) = Append(bodyOut \o body, ch)
    BY <1>2 DEF Bytes
  <2> QED
    BY <1>1, <1>5, <2>1
<1>12. \A p \in 1..Len(v) : LineStart(v, p) => \A l \in Delimiters : ~BoundaryComplete(v, p, l)
  <2> HIDE DEF v, b
  <2> QED
    BY <1>9, <1>10, SettledHasNone
<1>13. CASE Stop /\ UNCHANGED <<phase, partVars, closed, partsEnded, bodyOut>>
  <2>1. /\ finished' = finished /\ begun' = begun /\ bareCr' = bareCr
        /\ raw' \in Bytes /\ bodyOut' \in Bytes /\ body' \in Bytes /\ contentLength' \in Int
        /\ remaining' \in Int /\ partsEnded' \in Nat /\ closed' = closed /\ phase' = "scan"
        /\ stopped' = TRUE
    BY <1>1, <1>2, <1>3, <1>13 DEF Stop, partVars
  <2>2. NoDelimiterDelivered'
    BY <1>1, <1>13 DEF MultipartInv, NoDelimiterDelivered
  <2> QED
    BY <1>1, <2>1, <2>2, ScanStops
<1>14. CASE ScanStep(b, fail)
  <2>1. ScanOutcome(b) /\ contentLength' \in Int /\ remaining' \in Int
    BY <1>1, <1>3, <1>14, ScanStepOutcome DEF MultipartInv
  <2> HIDE DEF b
  <2>2. CASE /\ stopped' = TRUE /\ phase' = "scan" /\ body' \in Bytes
             /\ partsEnded' \in Nat /\ closed' = closed
             /\ bodyOut' = bodyOut \/ bodyOut' = v
    <3>1. NoDelimiterDelivered'
      <4>1. CASE bodyOut' = bodyOut
        BY <1>1, <2>2, <4>1 DEF MultipartInv, NoDelimiterDelivered
      <4>2. CASE bodyOut' = v
        BY <1>12, <4>2 DEF NoDelimiterDelivered
      <4> QED
        BY <2>2, <4>1, <4>2
    <3>2. finished' = finished /\ begun' = begun /\ bareCr' = bareCr /\ bodyOut' \in Bytes
      BY <1>1, <1>2, <1>10, <2>2
    <3> QED
      BY <1>1, <1>3, <2>1, <2>2, <3>1, <3>2, ScanStops
  <2>3. CASE /\ stopped' = FALSE /\ phase' = "scan" /\ found = {}
             /\ bodyOut' = v /\ body' = r
             /\ partsEnded' = partsEnded /\ closed' = closed
    <3>1. Lookahead(r, v)
      BY <1>7, <2>3 DEF AfterByte
    <3> HIDE DEF v, r, found
    <3>2. TypeOK'
      BY <1>1, <1>2, <1>3, <1>10, <2>1, <2>3 DEF TypeOK
    <3>3. HoldsOnlyScanning' /\ ScanInv' /\ SettledInv'
      BY <1>9, <1>10, <2>3, <3>1 DEF HoldsOnlyScanning, ScanInv, SettledInv
    <3>4. NoByteLost'
      BY <1>1, <1>10, <1>11, <2>3 DEF NoByteLost
    <3>5. PartEndsAtDelimiter'
      BY <2>3 DEF PartEndsAtDelimiter, JustEnded
    <3>6. NoDelimiterDelivered'
      BY <1>12, <2>3 DEF NoDelimiterDelivered
    <3>7. PartsInv'
      BY <1>1, <1>6, <2>3 DEF PartsInv, MultipartInv
    <3> QED
      BY <3>2, <3>3, <3>4, <3>5, <3>6, <3>7 DEF MultipartInv
  <2>4. CASE /\ stopped' = FALSE /\ found # {} /\ body' = <<>>
             /\ bodyOut' = v /\ partsEnded' = partsEnded + 1
             /\ closed' = (ClosingLine \in found)
             /\ phase' = IF closed' THEN "done" ELSE "headers"
    <3>1. PICK l \in Delimiters : found = {l} /\ EndsPart(bodyOut, b, l)
      BY <1>7, <2>4 DEF AfterByte
    <3>2. e = 0
      BY <1>7, <2>4 DEF AfterByte
    <3>3. v = bodyOut
      <4> HIDE DEF e
      <4> QED
        BY <1>2, <1>3, <1>8, <3>2, LastDelivered
    <3> HIDE DEF v, found, e
    <3>4. closed' \in BOOLEAN /\ phase' \in {"headers", "done"} /\ <<>> \in Bytes
      BY <2>4 DEF Bytes
    <3>5. TypeOK'
      <4>1. partsEnded' \in Nat
        BY <1>2, <2>4
      <4>2. phase' \in {"expect", "headers", "length", "scan", "done"} /\ stopped' \in BOOLEAN
        BY <2>4, <3>4
      <4>3. /\ begun' \in Nat /\ bareCr' \in BOOLEAN /\ body' \in Bytes /\ bodyOut' \in Bytes
            /\ raw' \in Bytes
        BY <1>1, <1>2, <1>3, <1>10, <2>4, <3>4
      <4> QED
        BY <2>1, <3>4, <4>1, <4>2, <4>3 DEF TypeOK
    <3>6. HoldsOnlyScanning' /\ ScanInv' /\ SettledInv' /\ NoByteLost' /\ NoDelimiterDelivered'
      BY <2>4, <3>4 DEF HoldsOnlyScanning, ScanInv, SettledInv, NoByteLost, InBody,
                        NoDelimiterDelivered
    <3>7. PartEndsAtDelimiter'
      <4>1. SUFFICES ASSUME JustEnded'
                     PROVE  \E eol \in LineEnds \cup {<<>>}, ee \in LineEnds, k \in Delimiters :
                              /\ raw' = bodyOut' \o eol \o k \o ee
                              /\ (k = ClosingLine) = (phase' = "done")
                              /\ eol = <<>> => bodyOut' = <<>> \/ bodyOut'[Len(bodyOut')] # "LF"
                              /\ eol = <<"LF">> => bodyOut' = <<>> \/ bodyOut'[Len(bodyOut')] # "CR"
        BY DEF PartEndsAtDelimiter
      <4>2. bodyOut \o b = raw' /\ bodyOut' = bodyOut
        BY <1>1, <1>11, <2>4, <3>3, <4>1 DEF JustEnded
      <4>3. (l = ClosingLine) = (phase' = "done")
        BY <2>4, <3>1
      <4> QED
        BY <3>1, <4>2, <4>3 DEF EndsPart
    <3>8. PartsInv'
      BY <1>1, <1>6, <2>4, <3>4 DEF PartsInv
    <3> QED
      BY <3>5, <3>6, <3>7, <3>8 DEF MultipartInv
  <2> QED
    BY <2>1, <2>2, <2>3, <2>4 DEF ScanOutcome
<1> QED
  BY <1>13, <1>14 DEF FeedScan

-----------------------------------------------------------------------------
(***************************************************************************)
(* The theorems.                                                           *)
(***************************************************************************)
LEMMA InitInv ==
  ASSUME MultipartInit PROVE MultipartInv
<1>1. <<>> \in Bytes /\ Len(<<>>) = 0 /\ NoLength \in Int
  BY DEF Bytes, NoLength
<1>2. TypeOK
  <2>1. /\ phase = "expect" /\ body = <<>> /\ raw = <<>> /\ bodyOut = <<>>
        /\ contentLength = NoLength /\ remaining = 0 /\ begun = 0 /\ partsEnded = 0
        /\ stopped = FALSE /\ closed = FALSE /\ bareCr = FALSE
    BY DEF MultipartInit
  <2>2. 0 \in Int /\ 0 \in Nat
    OBVIOUS
  <2> QED
    BY <1>1, <2>1, <2>2 DEF TypeOK
<1>3. HoldsOnlyScanning /\ ScanInv /\ SettledInv /\ NoByteLost
  BY DEF MultipartInit, HoldsOnlyScanning, ScanInv, SettledInv, NoByteLost, InBody
<1>4. PartEndsAtDelimiter /\ NoDelimiterDelivered
  BY DEF MultipartInit, PartEndsAtDelimiter, NoDelimiterDelivered, JustEnded
<1>5. PartsInv
  BY DEF MultipartInit, PartsInv
<1> QED
  BY <1>2, <1>3, <1>4, <1>5 DEF MultipartInv

LEMMA StutterInv ==
  ASSUME MultipartInv, UNCHANGED multipartVars PROVE MultipartInv'
<1>1. TypeOK'
  BY DEF MultipartInv, TypeOK, multipartVars, partVars
<1>2. HoldsOnlyScanning' /\ ScanInv' /\ SettledInv' /\ NoByteLost'
  BY DEF MultipartInv, HoldsOnlyScanning, ScanInv, SettledInv, NoByteLost, InBody, multipartVars, partVars
<1>3. PartEndsAtDelimiter' /\ NoDelimiterDelivered'
  BY DEF MultipartInv, PartEndsAtDelimiter, NoDelimiterDelivered, JustEnded, multipartVars, partVars
<1>4. PartsInv'
  BY DEF MultipartInv, PartsInv, multipartVars, partVars
<1> QED
  BY <1>1, <1>2, <1>3, <1>4 DEF MultipartInv

LEMMA StepInv ==
  ASSUME MultipartInv, [MultipartNext]_multipartVars PROVE MultipartInv'
<1>1. CASE \E fail \in Fails : FeedLf(fail)
  BY <1>1, FeedLfStep
<1>2. CASE \E fail \in Fails : \E ch \in LineBytes \cup {"CR"} : FeedAfterCr(ch, fail)
  BY <1>2, FeedAfterCrStep
<1>3. CASE \E fail \in Fails : \E ch \in LineBytes \cup Headers : FeedLineByte(ch, fail)
  BY <1>3, FeedLineByteStep
<1>4. CASE \E fail \in Fails : \E a \in LineBytes : \E data \in {<<a>>, <<a, "LF">>} :
             FeedLength(data, fail)
  <2> PICK fail \in Fails, a \in LineBytes :
         \E data \in {<<a>>, <<a, "LF">>} : FeedLength(data, fail)
    BY <1>4
  <2>1. PICK data \in {<<a>>, <<a, "LF">>} : FeedLength(data, fail)
    OBVIOUS
  <2>2. a \in BodyBytes /\ "LF" \in BodyBytes
    BY MultipartAssumption DEF LineBytes
  <2>3. <<a>> \in Bytes /\ <<a, "LF">> \in Bytes
    BY <2>2 DEF Bytes
  <2> QED
    BY <2>1, <2>3, FeedLengthStep
<1>5. CASE \E fail \in Fails : \E ch \in BodyBytes : FeedScan(ch, fail)
  BY <1>5, FeedScanStep
<1>6. CASE FeedCr
  BY <1>6, FeedCrStep
<1>7. CASE FinishParts
  BY <1>7, FinishStep
<1>8. CASE CloseAndReopen
  BY <1>8, FreshParser DEF CloseAndReopen, ResetPart
<1>9. CASE UNCHANGED multipartVars
  BY <1>9, StutterInv
<1> QED
  BY <1>1, <1>2, <1>3, <1>4, <1>5, <1>6, <1>7, <1>8, <1>9 DEF MultipartNext, Feed

LEMMA InvHolds == MultipartSpec => []MultipartInv
<1>1. MultipartInit => MultipartInv
  BY InitInv
<1>2. MultipartInv /\ [MultipartNext]_multipartVars => MultipartInv'
  BY StepInv
<1> QED
  BY <1>1, <1>2, PTL DEF MultipartSpec

\* However the body is pushed and wherever a part is, its bytes were all
\* passed on or are held, in order: multipart_push and process_body_buffer
\* never drop or repeat one.
THEOREM BytesAreKept == MultipartSpec => []NoByteLost
<1>1. MultipartInv => NoByteLost
  BY DEF MultipartInv
<1> QED
  BY <1>1, InvHolds, PTL

\* A part ends at a delimiter line and nowhere else: the client got what is
\* before it without the line end that belongs to it, no delimiter line was
\* passed on as data, and finish accepts only a stream that was closed
\* (process_body_buffer, finish_boundary, multipart_finish).
THEOREM PartsAreCutAtDelimiters == MultipartSpec => []CutAtDelimiters
<1>1. MultipartInv => CutAtDelimiters
  BY DEF MultipartInv, CutAtDelimiters, PartsInv, FinishOkMeansComplete
<1> QED
  BY <1>1, InvHolds, PTL

\* The lookahead (mp->body) holds a line end and the beginning of one
\* delimiter line, or a whole one that a CR without LF follows.
THEOREM LookaheadIsALine == MultipartSpec => []LookaheadBounded
<1>1. MultipartInv => LookaheadBounded
  <2>1. SUFFICES ASSUME MultipartInv, InBody PROVE Bounded(body)
    BY DEF LookaheadBounded, Bounded
  <2>2. CASE phase = "scan"
    BY <2>1, <2>2, LookaheadIsBounded DEF MultipartInv, TypeOK, ScanInv
  <2>3. CASE phase # "scan"
    <3>1. body = <<>> /\ <<>> \in Bytes
      BY <2>1, <2>3 DEF MultipartInv, HoldsOnlyScanning, Bytes
    <3> QED
      BY <3>1, OnlyLineEnd
  <2> QED
    BY <2>2, <2>3
<1> QED
  BY <1>1, InvHolds, PTL
==============================================================================
