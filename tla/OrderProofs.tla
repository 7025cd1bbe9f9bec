----------------------------- MODULE OrderProofs -----------------------------
(***************************************************************************)
(* Proofs about the order of the lines in Shipper: the queue stays in      *)
(* stdin order while lines move from the channel to the deque, the sealed  *)
(* blocks and the push tasks; and an eviction takes the oldest lines.      *)
(***************************************************************************)
EXTENDS ControlProofs, FiniteSetTheorems

-----------------------------------------------------------------------------
(* Lemmas about increasing sequences of lines and the sets of their        *)
(* elements.                                                               *)

LEMMA LinesAreNaturals == Line \subseteq Nat /\ 0 \notin Line
BY EnvironmentAssumption DEF Line

LEMMA SetOfSeq ==
  ASSUME NEW s \in Seq(Line)
  PROVE  /\ Len(s) \in Nat /\ DOMAIN s = 1 .. Len(s)
         /\ ToSet(s) = {s[i] : i \in 1 .. Len(s)}
         /\ \A i \in 1 .. Len(s) : s[i] \in Line /\ s[i] \in Nat
         /\ ToSet(s) \subseteq Line
         /\ ToSet(s) = {} <=> s = <<>>
<1>1. Len(s) \in Nat /\ DOMAIN s = 1 .. Len(s) /\ s \in [1 .. Len(s) -> Line]
  BY LenProperties
<1>2. ToSet(s) = {s[i] : i \in 1 .. Len(s)}
  BY <1>1 DEF ToSet
<1>3. \A i \in 1 .. Len(s) : s[i] \in Line /\ s[i] \in Nat
  BY <1>1, LinesAreNaturals
<1>4. ToSet(s) = {} <=> s = <<>>
  <2>1. CASE s = <<>>
    BY <2>1, <1>2
  <2>2. CASE s # <<>>
    <3>1. 1 \in 1 .. Len(s)
      BY <2>2, <1>1, EmptySeq
    <3> QED
      BY <2>2, <3>1, <1>2
  <2> QED
    BY <2>1, <2>2
<1> QED
  BY <1>1, <1>2, <1>3, <1>4

\* An increasing sequence has as many elements as it is long.
LEMMA IncreasingCardinality ==
  ASSUME NEW s \in Seq(Line), StrictlyIncreasing(s)
  PROVE  IsFiniteSet(ToSet(s)) /\ Cardinality(ToSet(s)) = Len(s)
<1>1. /\ Len(s) \in Nat /\ DOMAIN s = 1 .. Len(s)
      /\ ToSet(s) = {s[i] : i \in 1 .. Len(s)}
      /\ \A i \in 1 .. Len(s) : s[i] \in Nat
  BY SetOfSeq
<1>2. s \in [1 .. Len(s) -> ToSet(s)]
  BY <1>1, LenProperties
<1>3. \A i, j \in 1 .. Len(s) : s[i] = s[j] => i = j
  BY <1>1 DEF StrictlyIncreasing
<1>4. s \in Bijection(1 .. Len(s), ToSet(s))
  <2>1. s \in Injection(1 .. Len(s), ToSet(s))
    BY <1>2, <1>3 DEF Injection, IsInjective
  <2>2. s \in Surjection(1 .. Len(s), ToSet(s))
    BY <1>1, <1>2 DEF Surjection
  <2> QED
    BY <2>1, <2>2 DEF Bijection
<1>5. IsFiniteSet(1 .. Len(s)) /\ Cardinality(1 .. Len(s)) = Len(s)
  BY <1>1, FS_Interval
<1> QED
  BY <1>4, <1>5, FS_Bijection DEF ExistsBijection

\* Cutting an increasing sequence in two leaves the smaller elements in front.
LEMMA CutSorted ==
  ASSUME NEW s \in Seq(Line), StrictlyIncreasing(s), NEW n \in 0 .. Len(s)
  PROVE  LET front == SubSeq(s, 1, n)
             rest  == SubSeq(s, n + 1, Len(s))
         IN /\ front \in Seq(Line) /\ Len(front) = n
            /\ rest \in Seq(Line) /\ Len(rest) = Len(s) - n
            /\ StrictlyIncreasing(front) /\ StrictlyIncreasing(rest)
            /\ ToSet(s) = ToSet(front) \cup ToSet(rest)
            /\ Older(ToSet(front), ToSet(rest))
<1> DEFINE front == SubSeq(s, 1, n)
           rest  == SubSeq(s, n + 1, Len(s))
<1>1. /\ Len(s) \in Nat /\ DOMAIN s = 1 .. Len(s)
      /\ ToSet(s) = {s[i] : i \in 1 .. Len(s)}
      /\ \A i \in 1 .. Len(s) : s[i] \in Line /\ s[i] \in Nat
  BY SetOfSeq
<1>2. /\ front \in Seq(Line) /\ Len(front) = n
      /\ \A i \in 1 .. n : front[i] = s[i]
  BY <1>1, SubSeqProperties
<1>3. /\ rest \in Seq(Line) /\ Len(rest) = Len(s) - n
      /\ \A i \in 1 .. Len(s) - n : rest[i] = s[n + i]
  <2>1. n + 1 \in Int /\ Len(s) \in Int /\ \A i \in n + 1 .. Len(s) : s[i] \in Line
    BY <1>1
  <2>2. /\ rest \in Seq(Line)
        /\ Len(rest) = IF n + 1 <= Len(s) THEN Len(s) - (n + 1) + 1 ELSE 0
        /\ \A i \in 1 .. Len(s) - (n + 1) + 1 : rest[i] = s[(n + 1) + i - 1]
    BY <2>1, SubSeqProperties
  <2> HIDE DEF rest
  <2>3. Len(rest) = Len(s) - n
    <3>1. PICK m \in Nat : m = Len(s) /\ n \in 0 .. m
      BY <1>1
    <3>2. Len(rest) = IF n + 1 <= m THEN m - (n + 1) + 1 ELSE 0
      BY <2>2, <3>1
    <3>3. (IF n + 1 <= m THEN m - (n + 1) + 1 ELSE 0) = m - n
      BY <3>1
    <3> QED
      BY <3>1, <3>2, <3>3
  <2>4. ASSUME NEW i \in 1 .. Len(s) - n PROVE rest[i] = s[n + i]
    <3>1. i \in 1 .. Len(s) - (n + 1) + 1 /\ (n + 1) + i - 1 = n + i
      BY <1>1
    <3>2. rest[i] = s[(n + 1) + i - 1]
      BY <2>2, <3>1
    <3> QED
      BY <3>1, <3>2
  <2> QED
    BY <2>2, <2>3, <2>4
<1> HIDE DEF front, rest
<1>4. /\ DOMAIN front = 1 .. n /\ ToSet(front) = {s[i] : i \in 1 .. n}
      /\ DOMAIN rest = 1 .. Len(s) - n
      /\ ToSet(rest) = {rest[i] : i \in 1 .. Len(s) - n}
  BY <1>2, <1>3, SetOfSeq
<1>5. ToSet(rest) = {s[i] : i \in n + 1 .. Len(s)}
  <2>1. \A i \in 1 .. Len(s) - n : n + i \in n + 1 .. Len(s)
    BY <1>1
  <2>2. \A j \in n + 1 .. Len(s) : j - n \in 1 .. Len(s) - n /\ n + (j - n) = j
    BY <1>1
  <2>3. \A i \in 1 .. Len(s) - n : \E j \in n + 1 .. Len(s) : rest[i] = s[j]
    BY <1>3, <2>1
  <2>4. \A j \in n + 1 .. Len(s) : \E i \in 1 .. Len(s) - n : rest[i] = s[j]
    BY <1>3, <2>2
  <2> DEFINE R == {rest[i] : i \in 1 .. Len(s) - n}
             T == {s[i] : i \in n + 1 .. Len(s)}
  <2>5. R \subseteq T
    BY <2>3
  <2>6. T \subseteq R
    BY <2>4
  <2>7. ToSet(rest) = R
    BY <1>4
  <2> QED
    BY <2>5, <2>6, <2>7
<1>6. StrictlyIncreasing(front)
  BY <1>1, <1>2, <1>4 DEF StrictlyIncreasing
<1>7. StrictlyIncreasing(rest)
  <2> SUFFICES ASSUME NEW i \in 1 .. Len(s) - n, NEW j \in 1 .. Len(s) - n, i < j
               PROVE  rest[i] < rest[j]
    BY <1>4 DEF StrictlyIncreasing
  <2>1. n + i \in 1 .. Len(s) /\ n + j \in 1 .. Len(s) /\ n + i < n + j
    BY <1>1
  <2> QED
    BY <1>1, <1>3, <2>1 DEF StrictlyIncreasing
<1>8. ToSet(s) = ToSet(front) \cup ToSet(rest)
  <2>1. \A i \in 1 .. Len(s) : i \in 1 .. n \/ i \in n + 1 .. Len(s)
    BY <1>1
  <2>2. 1 .. n \subseteq 1 .. Len(s) /\ n + 1 .. Len(s) \subseteq 1 .. Len(s)
    BY <1>1
  <2> QED
    BY <1>1, <1>4, <1>5, <2>1, <2>2
<1>9. Older(ToSet(front), ToSet(rest))
  <2> SUFFICES ASSUME NEW i \in 1 .. n, NEW j \in n + 1 .. Len(s) PROVE s[i] < s[j]
    BY <1>4, <1>5 DEF Older
  <2>1. i \in 1 .. Len(s) /\ j \in 1 .. Len(s) /\ i < j
    BY <1>1
  <2> QED
    BY <1>1, <2>1 DEF StrictlyIncreasing
<1> QED
  BY <1>2, <1>3, <1>6, <1>7, <1>8, <1>9 DEF front, rest

\* The same for the first element.
LEMMA HeadSorted ==
  ASSUME NEW s \in Seq(Line), StrictlyIncreasing(s), s # <<>>
  PROVE  /\ Head(s) \in Line
         /\ Tail(s) \in Seq(Line) /\ Len(Tail(s)) = Len(s) - 1
         /\ StrictlyIncreasing(Tail(s))
         /\ ToSet(s) = {Head(s)} \cup ToSet(Tail(s))
         /\ Older({Head(s)}, ToSet(Tail(s)))
<1>1. Len(s) \in Nat /\ 1 \in 0 .. Len(s) /\ 1 \in 1 .. Len(s)
  BY EmptySeq
<1>2. Tail(s) = SubSeq(s, 1 + 1, Len(s))
  BY TailIsSubSeq
<1>3. Head(s) \in Line /\ Head(s) = s[1]
  BY <1>1, HeadTailProperties
<1>4. /\ SubSeq(s, 1, 1) \in Seq(Line) /\ Len(SubSeq(s, 1, 1)) = 1
      /\ SubSeq(s, 1, 1)[1] = s[1]
  <2>1. \A i \in 1 .. 1 : s[i] \in Line
    BY <1>3
  <2> QED
    BY <2>1, SubSeqProperties
<1>5. ToSet(SubSeq(s, 1, 1)) = {Head(s)}
  <2> DEFINE f == SubSeq(s, 1, 1)
  <2>1. f \in Seq(Line) /\ Len(f) = 1 /\ f[1] = Head(s)
    BY <1>3, <1>4
  <2> HIDE DEF f
  <2>2. ToSet(f) = {f[i] : i \in 1 .. 1}
    BY <2>1, SetOfSeq
  <2> QED
    BY <2>1, <2>2 DEF f
<1>6. LET front == SubSeq(s, 1, 1)
          rest  == SubSeq(s, 1 + 1, Len(s))
      IN /\ front \in Seq(Line) /\ Len(front) = 1
         /\ rest \in Seq(Line) /\ Len(rest) = Len(s) - 1
         /\ StrictlyIncreasing(front) /\ StrictlyIncreasing(rest)
         /\ ToSet(s) = ToSet(front) \cup ToSet(rest)
         /\ Older(ToSet(front), ToSet(rest))
  BY <1>1, CutSorted
<1> QED
  BY <1>2, <1>3, <1>5, <1>6

\* A younger line appended keeps a sequence increasing.
LEMMA AppendSorted ==
  ASSUME NEW s \in Seq(Line), StrictlyIncreasing(s), NEW l \in Line, Older(ToSet(s), {l})
  PROVE  /\ Append(s, l) \in Seq(Line) /\ Len(Append(s, l)) = Len(s) + 1
         /\ StrictlyIncreasing(Append(s, l))
         /\ ToSet(Append(s, l)) = ToSet(s) \cup {l}
<1> DEFINE t == Append(s, l)
<1>1. /\ Len(s) \in Nat /\ DOMAIN s = 1 .. Len(s)
      /\ ToSet(s) = {s[i] : i \in 1 .. Len(s)}
  BY SetOfSeq
<1>2. /\ t \in Seq(Line) /\ Len(t) = Len(s) + 1
      /\ \A i \in 1 .. Len(s) : t[i] = s[i]
      /\ t[Len(s) + 1] = l
  BY AppendProperties
<1> HIDE DEF t
<1>3. DOMAIN t = 1 .. Len(s) + 1 /\ ToSet(t) = {t[i] : i \in 1 .. Len(s) + 1}
  BY <1>2, SetOfSeq
<1>4. \A i \in 1 .. Len(s) + 1 : i \in 1 .. Len(s) \/ i = Len(s) + 1
  BY <1>1
<1>5. Len(s) + 1 \in 1 .. Len(s) + 1 /\ 1 .. Len(s) \subseteq 1 .. Len(s) + 1
  BY <1>1
<1>6. ToSet(t) = ToSet(s) \cup {l}
  BY <1>1, <1>2, <1>3, <1>4, <1>5
<1>7. StrictlyIncreasing(t)
  <2> SUFFICES ASSUME NEW i \in 1 .. Len(s) + 1, NEW j \in 1 .. Len(s) + 1, i < j
               PROVE  t[i] < t[j]
    BY <1>3 DEF StrictlyIncreasing
  <2>1. i \in 1 .. Len(s)
    BY <1>1
  <2>2. CASE j \in 1 .. Len(s)
    BY <1>1, <1>2, <2>1, <2>2 DEF StrictlyIncreasing
  <2>3. CASE j = Len(s) + 1
    BY <1>1, <1>2, <2>1, <2>3 DEF Older
  <2> QED
    BY <1>4, <2>2, <2>3
<1> QED
  BY <1>2, <1>6, <1>7 DEF t

-----------------------------------------------------------------------------
(* Lemmas about sets of lines.                                             *)

LEMMA OlderIsDisjoint ==
  ASSUME NEW S \in SUBSET Line, NEW T \in SUBSET Line, Older(S, T)
  PROVE  S \cap T = {}
BY LinesAreNaturals DEF Older

LEMMA LinesAreFinite ==
  ASSUME NEW S \in SUBSET Line
  PROVE  IsFiniteSet(S) /\ Cardinality(S) \in Nat
<1>1. IsFiniteSet(Line)
  BY EnvironmentAssumption, FS_Interval DEF Line
<1> QED
  BY <1>1, FS_Subset, FS_CardinalityType

LEMMA DisjointUnion ==
  ASSUME NEW S \in SUBSET Line, NEW T \in SUBSET Line, S \cap T = {}
  PROVE  Cardinality(S \cup T) = Cardinality(S) + Cardinality(T)
<1>1. /\ IsFiniteSet(S) /\ Cardinality(S) \in Nat
      /\ IsFiniteSet(T) /\ Cardinality(T) \in Nat
  BY LinesAreFinite
<1>2. Cardinality(S \cap T) = 0
  BY FS_EmptySet
<1>3. Cardinality(S \cup T) = Cardinality(S) + Cardinality(T) - Cardinality(S \cap T)
  BY <1>1, FS_Union
<1> QED
  BY <1>1, <1>2, <1>3

-----------------------------------------------------------------------------
(* Lemmas about sequences of sealed blocks.                                *)

LinesOf(blocks) == UNION {ToSet(blocks[i]) : i \in DOMAIN blocks}

SortedBlocks(blocks) ==
  /\ \A i \in DOMAIN blocks : StrictlyIncreasing(blocks[i])
  /\ \A i, j \in DOMAIN blocks : i < j => Older(ToSet(blocks[i]), ToSet(blocks[j]))

LEMMA LinesOfBlocks ==
  ASSUME NEW s \in Seq(Seq(Line))
  PROVE  /\ Len(s) \in Nat /\ DOMAIN s = 1 .. Len(s)
         /\ \A i \in 1 .. Len(s) : s[i] \in Seq(Line) /\ ToSet(s[i]) \subseteq Line
         /\ LinesOf(s) \subseteq Line
         /\ \A l : l \in LinesOf(s) <=> \E i \in 1 .. Len(s) : l \in ToSet(s[i])
<1>1. Len(s) \in Nat /\ DOMAIN s = 1 .. Len(s) /\ s \in [1 .. Len(s) -> Seq(Line)]
  BY LenProperties
<1>2. \A i \in 1 .. Len(s) : s[i] \in Seq(Line) /\ ToSet(s[i]) \subseteq Line
  <2> SUFFICES ASSUME NEW i \in 1 .. Len(s)
               PROVE  s[i] \in Seq(Line) /\ ToSet(s[i]) \subseteq Line
    OBVIOUS
  <2>1. s[i] \in Seq(Line)
    BY <1>1
  <2> QED
    BY <2>1, SetOfSeq
<1>3. \A l : l \in LinesOf(s) <=> \E i \in 1 .. Len(s) : l \in ToSet(s[i])
  BY <1>1 DEF LinesOf
<1> QED
  BY <1>1, <1>2, <1>3

\* A block younger than all sealed ones goes to the back.
LEMMA AppendBlock ==
  ASSUME NEW s \in Seq(Seq(Line)), SortedBlocks(s),
         NEW b \in Seq(Line), StrictlyIncreasing(b), Older(LinesOf(s), ToSet(b))
  PROVE  /\ Append(s, b) \in Seq(Seq(Line))
         /\ SortedBlocks(Append(s, b))
         /\ LinesOf(Append(s, b)) = LinesOf(s) \cup ToSet(b)
<1> DEFINE t == Append(s, b)
<1>1. /\ Len(s) \in Nat /\ DOMAIN s = 1 .. Len(s)
      /\ \A l : l \in LinesOf(s) <=> \E i \in 1 .. Len(s) : l \in ToSet(s[i])
  BY LinesOfBlocks
<1>2. /\ t \in Seq(Seq(Line)) /\ Len(t) = Len(s) + 1
      /\ \A i \in 1 .. Len(s) : t[i] = s[i]
      /\ t[Len(s) + 1] = b
  BY AppendProperties
<1> HIDE DEF t
<1>3. /\ DOMAIN t = 1 .. Len(s) + 1
      /\ \A l : l \in LinesOf(t) <=> \E i \in 1 .. Len(s) + 1 : l \in ToSet(t[i])
  BY <1>2, LinesOfBlocks
<1>4. \A i \in 1 .. Len(s) + 1 : i \in 1 .. Len(s) \/ i = Len(s) + 1
  BY <1>1
<1>5. Len(s) + 1 \in 1 .. Len(s) + 1 /\ 1 .. Len(s) \subseteq 1 .. Len(s) + 1
  BY <1>1
<1>6. LinesOf(t) = LinesOf(s) \cup ToSet(b)
  <2>1. \A l \in LinesOf(t) : l \in LinesOf(s) \cup ToSet(b)
    BY <1>1, <1>2, <1>3, <1>4
  <2>2. \A l \in LinesOf(s) : l \in LinesOf(t)
    BY <1>1, <1>2, <1>3, <1>5
  <2>3. \A l \in ToSet(b) : l \in LinesOf(t)
    BY <1>2, <1>3, <1>5
  <2> QED
    BY <2>1, <2>2, <2>3
<1>7. \A i \in 1 .. Len(s) + 1 : StrictlyIncreasing(t[i])
  BY <1>1, <1>2, <1>4 DEF SortedBlocks
<1>8. ASSUME NEW i \in 1 .. Len(s) + 1, NEW j \in 1 .. Len(s) + 1, i < j
      PROVE  Older(ToSet(t[i]), ToSet(t[j]))
  <2>1. i \in 1 .. Len(s)
    BY <1>1, <1>8
  <2>2. CASE j \in 1 .. Len(s)
    BY <1>1, <1>2, <1>8, <2>1, <2>2 DEF SortedBlocks
  <2>3. CASE j = Len(s) + 1
    BY <1>1, <1>2, <2>1, <2>3 DEF Older
  <2> QED
    BY <1>4, <2>2, <2>3
<1>9. SortedBlocks(t)
  BY <1>3, <1>7, <1>8 DEF SortedBlocks
<1> QED
  BY <1>2, <1>6, <1>9 DEF t

\* The block at the front is older than the others.
LEMMA FirstBlock ==
  ASSUME NEW s \in Seq(Seq(Line)), SortedBlocks(s), s # <<>>
  PROVE  /\ Head(s) \in Seq(Line) /\ Tail(s) \in Seq(Seq(Line))
         /\ StrictlyIncreasing(Head(s)) /\ SortedBlocks(Tail(s))
         /\ LinesOf(s) = ToSet(Head(s)) \cup LinesOf(Tail(s))
         /\ Older(ToSet(Head(s)), LinesOf(Tail(s)))
<1> DEFINE t == Tail(s)
<1>1. /\ Len(s) \in Nat /\ DOMAIN s = 1 .. Len(s)
      /\ \A l : l \in LinesOf(s) <=> \E i \in 1 .. Len(s) : l \in ToSet(s[i])
  BY LinesOfBlocks
<1>2. 1 \in 1 .. Len(s) /\ Head(s) = s[1] /\ Head(s) \in Seq(Line)
  BY <1>1, EmptySeq, HeadTailProperties
<1>3. /\ t \in Seq(Seq(Line)) /\ Len(t) = Len(s) - 1
      /\ \A i \in 1 .. Len(t) : t[i] = s[i + 1]
  BY HeadTailProperties
<1> HIDE DEF t
<1>4. /\ DOMAIN t = 1 .. Len(s) - 1
      /\ \A l : l \in LinesOf(t) <=> \E i \in 1 .. Len(s) - 1 : l \in ToSet(t[i])
  BY <1>3, LinesOfBlocks
<1>5. \A i \in 1 .. Len(s) - 1 : i + 1 \in 1 .. Len(s) /\ 1 < i + 1 /\ t[i] = s[i + 1]
  BY <1>1, <1>3
<1>6. \A i \in 1 .. Len(s) :
         i = 1 \/ (i - 1 \in 1 .. Len(s) - 1 /\ (i - 1) + 1 = i)
  BY <1>1
<1>7. LinesOf(s) = ToSet(Head(s)) \cup LinesOf(t)
  <2>1. \A l \in LinesOf(t) : l \in LinesOf(s)
    BY <1>1, <1>4, <1>5
  <2>2. \A l \in ToSet(Head(s)) : l \in LinesOf(s)
    BY <1>1, <1>2
  <2>3. ASSUME NEW l \in LinesOf(s), l \notin ToSet(Head(s)) PROVE l \in LinesOf(t)
    <3>1. PICK i \in 1 .. Len(s) : l \in ToSet(s[i])
      BY <1>1
    <3>2. i - 1 \in 1 .. Len(s) - 1 /\ (i - 1) + 1 = i
      BY <1>2, <1>6, <2>3, <3>1
    <3>3. t[i - 1] = s[i]
      BY <1>5, <3>2
    <3> QED
      BY <1>4, <3>1, <3>2, <3>3
  <2> QED
    BY <2>1, <2>2, <2>3
<1>8. Older(ToSet(Head(s)), LinesOf(t))
  <2> SUFFICES ASSUME NEW a \in ToSet(Head(s)), NEW l \in LinesOf(t) PROVE a < l
    BY DEF Older
  <2>1. PICK i \in 1 .. Len(s) - 1 : l \in ToSet(t[i])
    BY <1>4
  <2>2. i + 1 \in 1 .. Len(s) /\ 1 < i + 1 /\ l \in ToSet(s[i + 1])
    BY <1>5, <2>1
  <2>3. Older(ToSet(s[1]), ToSet(s[i + 1]))
    BY <1>1, <1>2, <2>2 DEF SortedBlocks
  <2> QED
    BY <1>2, <2>2, <2>3 DEF Older
<1>9. SortedBlocks(t)
  <2>1. \A i \in 1 .. Len(s) - 1 : StrictlyIncreasing(t[i])
    BY <1>1, <1>5 DEF SortedBlocks
  <2>2. ASSUME NEW i \in 1 .. Len(s) - 1, NEW j \in 1 .. Len(s) - 1, i < j
        PROVE  Older(ToSet(t[i]), ToSet(t[j]))
    <3>1. i + 1 \in 1 .. Len(s) /\ j + 1 \in 1 .. Len(s) /\ i + 1 < j + 1
      BY <1>1, <2>2
    <3>2. Older(ToSet(s[i + 1]), ToSet(s[j + 1]))
      BY <1>1, <3>1 DEF SortedBlocks
    <3> QED
      BY <1>5, <3>2
  <2> QED
    BY <1>4, <2>1, <2>2 DEF SortedBlocks
<1>10. StrictlyIncreasing(Head(s))
  BY <1>1, <1>2 DEF SortedBlocks
<1> QED
  BY <1>2, <1>3, <1>7, <1>8, <1>9, <1>10 DEF t

-----------------------------------------------------------------------------
(* What the operations of the batcher do to a sorted queue.                *)

\* Sealed blocks, deque and channel are in stdin order, in this order.
Sorted(blocks, d, c) ==
  /\ SortedBlocks(blocks) /\ StrictlyIncreasing(d) /\ StrictlyIncreasing(c)
  /\ Older(LinesOf(blocks), ToSet(d))
  /\ Older(LinesOf(blocks) \cup ToSet(d), ToSet(c))

\* n is the number of lines in the blocks.
LinesCounted(blocks, n) == Cardinality(LinesOf(blocks)) = n

\* The oldest line of the channel goes to the back of the deque.
LEMMA MoveToDeque ==
  ASSUME NEW s \in Seq(Seq(Line)), NEW d \in Seq(Line), NEW c \in Seq(Line),
         Sorted(s, d, c), c # <<>>
  PROVE  /\ Head(c) \in Line /\ Tail(c) \in Seq(Line)
         /\ Append(d, Head(c)) \in Seq(Line)
         /\ ToSet(Append(d, Head(c))) = ToSet(d) \cup {Head(c)}
         /\ ToSet(c) = {Head(c)} \cup ToSet(Tail(c))
         /\ Sorted(s, Append(d, Head(c)), Tail(c))
<1>1. /\ Head(c) \in Line /\ Tail(c) \in Seq(Line)
      /\ StrictlyIncreasing(Tail(c))
      /\ ToSet(c) = {Head(c)} \cup ToSet(Tail(c))
      /\ Older({Head(c)}, ToSet(Tail(c)))
  BY HeadSorted DEF Sorted
<1>2. Older(ToSet(d), {Head(c)}) /\ Older(LinesOf(s), {Head(c)})
  BY <1>1 DEF Sorted, Older
<1>3. /\ Append(d, Head(c)) \in Seq(Line)
      /\ StrictlyIncreasing(Append(d, Head(c)))
      /\ ToSet(Append(d, Head(c))) = ToSet(d) \cup {Head(c)}
  BY <1>1, <1>2, AppendSorted DEF Sorted
<1>4. Older(LinesOf(s), ToSet(Append(d, Head(c))))
  BY <1>2, <1>3 DEF Sorted, Older
<1>5. Older(LinesOf(s) \cup ToSet(Append(d, Head(c))), ToSet(Tail(c)))
  BY <1>1, <1>3 DEF Sorted, Older
<1> QED
  BY <1>1, <1>3, <1>4, <1>5 DEF Sorted

\* Sealing the front of the burst b changes no order and no line.
LEMMA SealKeepsOrder ==
  ASSUME sealed \in Seq(Seq(Line)), sealed_entries \in Nat,
         NEW b \in Seq(Line), NEW c \in Seq(Line),
         Sorted(sealed, b, c), LinesCounted(sealed, sealed_entries)
  PROVE  /\ Sorted(SealedAfterSeal(b), DequeAfterSeal(b), c)
         /\ LinesCounted(SealedAfterSeal(b), EntriesAfterSeal(b))
         /\ LinesOf(SealedAfterSeal(b)) \cup ToSet(DequeAfterSeal(b))
              = LinesOf(sealed) \cup ToSet(b)
<1>1. CASE ~Seals(b)
  BY <1>1 DEF DequeAfterSeal, SealedAfterSeal, EntriesAfterSeal
<1>2. CASE Seals(b)
  <2> DEFINE block == SubSeq(b, 1, BatchSize)
             rest  == SubSeq(b, BatchSize + 1, Len(b))
             blocks == Append(sealed, block)
  <2>1. BatchSize \in 0 .. Len(b)
    BY <1>2, BatchSizePositive, LenProperties DEF Seals
  <2>2. /\ block \in Seq(Line) /\ Len(block) = BatchSize
        /\ rest \in Seq(Line)
        /\ StrictlyIncreasing(block) /\ StrictlyIncreasing(rest)
        /\ ToSet(b) = ToSet(block) \cup ToSet(rest)
        /\ Older(ToSet(block), ToSet(rest))
    BY <2>1, CutSorted DEF Sorted
  <2>3. /\ SealedAfterSeal(b) = blocks /\ DequeAfterSeal(b) = rest
        /\ EntriesAfterSeal(b) = sealed_entries + BatchSize
    BY <1>2 DEF DequeAfterSeal, SealedAfterSeal, EntriesAfterSeal
  <2> HIDE DEF block, rest
  <2>4. Older(LinesOf(sealed), ToSet(block))
    BY <2>2 DEF Sorted, Older
  <2>5. /\ blocks \in Seq(Seq(Line)) /\ SortedBlocks(blocks)
        /\ LinesOf(blocks) = LinesOf(sealed) \cup ToSet(block)
    BY <2>2, <2>4, AppendBlock DEF Sorted
  <2> HIDE DEF blocks
  <2>6. LinesOf(blocks) \cup ToSet(rest) = LinesOf(sealed) \cup ToSet(b)
    BY <2>2, <2>5
  <2>7. Older(LinesOf(blocks), ToSet(rest))
    BY <2>2, <2>5 DEF Sorted, Older
  <2>8. Older(LinesOf(blocks) \cup ToSet(rest), ToSet(c))
    BY <2>6 DEF Sorted
  <2>9. Cardinality(LinesOf(blocks)) = sealed_entries + BatchSize
    <3>1. LinesOf(sealed) \in SUBSET Line /\ ToSet(block) \in SUBSET Line
      BY <2>2, LinesOfBlocks, SetOfSeq
    <3>2. LinesOf(sealed) \cap ToSet(block) = {}
      BY <2>4, <3>1, OlderIsDisjoint
    <3>3. Cardinality(ToSet(block)) = BatchSize
      BY <2>2, IncreasingCardinality
    <3> QED
      BY <2>5, <3>1, <3>2, <3>3, DisjointUnion DEF LinesCounted
  <2> QED
    BY <2>2, <2>3, <2>5, <2>6, <2>7, <2>8, <2>9 DEF Sorted, LinesCounted
<1> QED
  BY <1>1, <1>2

\* The oldest sealed block leaves: its lines are the oldest of the queue.
LEMMA TakeFirstBlock ==
  ASSUME NEW s \in Seq(Seq(Line)), NEW d \in Seq(Line), NEW c \in Seq(Line),
         Sorted(s, d, c), s # <<>>, NEW n \in Nat, LinesCounted(s, n)
  PROVE  /\ Sorted(Tail(s), d, c)
         /\ LinesCounted(Tail(s), n - Len(Head(s)))
         /\ StrictlyIncreasing(Head(s))
         /\ LinesOf(s) = ToSet(Head(s)) \cup LinesOf(Tail(s))
         /\ Cardinality(ToSet(Head(s))) = Len(Head(s))
         /\ Older(ToSet(Head(s)), LinesOf(Tail(s)) \cup ToSet(d) \cup ToSet(c))
<1>1. /\ Head(s) \in Seq(Line) /\ Tail(s) \in Seq(Seq(Line))
      /\ StrictlyIncreasing(Head(s)) /\ SortedBlocks(Tail(s))
      /\ LinesOf(s) = ToSet(Head(s)) \cup LinesOf(Tail(s))
      /\ Older(ToSet(Head(s)), LinesOf(Tail(s)))
  BY FirstBlock DEF Sorted
<1>2. Sorted(Tail(s), d, c)
  BY <1>1 DEF Sorted, Older
<1>3. Older(ToSet(Head(s)), LinesOf(Tail(s)) \cup ToSet(d) \cup ToSet(c))
  BY <1>1 DEF Sorted, Older
<1>4. Cardinality(ToSet(Head(s))) = Len(Head(s)) /\ Len(Head(s)) \in Nat
  BY <1>1, IncreasingCardinality, LenProperties
<1>5. ToSet(Head(s)) \in SUBSET Line /\ LinesOf(Tail(s)) \in SUBSET Line
  BY <1>1, LinesOfBlocks, SetOfSeq
<1>6. ToSet(Head(s)) \cap LinesOf(Tail(s)) = {}
  BY <1>1, <1>5, OlderIsDisjoint
<1>7. Cardinality(LinesOf(Tail(s))) \in Nat
  BY <1>5, LinesAreFinite
<1>8. n = Len(Head(s)) + Cardinality(LinesOf(Tail(s)))
  BY <1>1, <1>4, <1>5, <1>6, DisjointUnion DEF LinesCounted
<1>9. LinesCounted(Tail(s), n - Len(Head(s)))
  BY <1>4, <1>7, <1>8 DEF LinesCounted
<1> QED
  BY <1>1, <1>2, <1>3, <1>4, <1>9

\* With nothing sealed, the front of the deque holds the oldest lines of the queue.
LEMMA TakeFront ==
  ASSUME NEW d \in Seq(Line), NEW c \in Seq(Line), Sorted(<<>>, d, c), NEW n \in 0 .. Len(d)
  PROVE  LET front == SubSeq(d, 1, n)
             rest  == SubSeq(d, n + 1, Len(d))
         IN /\ rest \in Seq(Line) /\ Sorted(<<>>, rest, c)
            /\ StrictlyIncreasing(front)
            /\ ToSet(d) = ToSet(front) \cup ToSet(rest)
            /\ Cardinality(ToSet(front)) = n
            /\ Older(ToSet(front), ToSet(rest) \cup ToSet(c))
<1> DEFINE front == SubSeq(d, 1, n)
           rest  == SubSeq(d, n + 1, Len(d))
<1>1. /\ front \in Seq(Line) /\ Len(front) = n
      /\ rest \in Seq(Line)
      /\ StrictlyIncreasing(front) /\ StrictlyIncreasing(rest)
      /\ ToSet(d) = ToSet(front) \cup ToSet(rest)
      /\ Older(ToSet(front), ToSet(rest))
  BY CutSorted DEF Sorted
<1> HIDE DEF front, rest
<1>2. Cardinality(ToSet(front)) = n
  BY <1>1, IncreasingCardinality
<1>3. Sorted(<<>>, rest, c) /\ Older(ToSet(front), ToSet(rest) \cup ToSet(c))
  BY <1>1 DEF Sorted, Older
<1> QED
  BY <1>1, <1>2, <1>3 DEF front, rest

LEMMA TakeFirstLine ==
  ASSUME NEW d \in Seq(Line), NEW c \in Seq(Line), Sorted(<<>>, d, c), d # <<>>
  PROVE  /\ Head(d) \in Line /\ Tail(d) \in Seq(Line)
         /\ Sorted(<<>>, Tail(d), c)
         /\ ToSet(d) = {Head(d)} \cup ToSet(Tail(d))
         /\ Older({Head(d)}, ToSet(Tail(d)) \cup ToSet(c))
<1>1. /\ Head(d) \in Line /\ Tail(d) \in Seq(Line)
      /\ StrictlyIncreasing(Tail(d))
      /\ ToSet(d) = {Head(d)} \cup ToSet(Tail(d))
      /\ Older({Head(d)}, ToSet(Tail(d)))
  BY HeadSorted DEF Sorted
<1>2. Sorted(<<>>, Tail(d), c)
  BY <1>1 DEF Sorted, Older
<1>3. Older({Head(d)}, ToSet(c))
  BY <1>1 DEF Sorted, Older
<1> QED
  BY <1>1, <1>2, <1>3 DEF Older

\* No line is in two containers, so the lengths of the containers add up to the number
\* of lines in the queue.
LEMMA QueueCardinality ==
  ASSUME NEW s \in Seq(Seq(Line)), NEW d \in Seq(Line), NEW c \in Seq(Line),
         Sorted(s, d, c), NEW n \in Nat, LinesCounted(s, n)
  PROVE  Cardinality(LinesOf(s) \cup ToSet(d) \cup ToSet(c)) = n + Len(d) + Len(c)
<1>1. LinesOf(s) \in SUBSET Line /\ ToSet(d) \in SUBSET Line /\ ToSet(c) \in SUBSET Line
  BY LinesOfBlocks, SetOfSeq
<1>2. /\ Cardinality(ToSet(d)) = Len(d) /\ Cardinality(ToSet(c)) = Len(c)
      /\ Len(d) \in Nat /\ Len(c) \in Nat
  BY IncreasingCardinality, LenProperties DEF Sorted
<1>3. Cardinality(LinesOf(s) \cup ToSet(d)) = n + Len(d)
  <2>1. LinesOf(s) \cap ToSet(d) = {}
    BY <1>1, OlderIsDisjoint DEF Sorted
  <2> QED
    BY <1>1, <1>2, <2>1, DisjointUnion DEF LinesCounted
<1>4. (LinesOf(s) \cup ToSet(d)) \cap ToSet(c) = {}
  <2>1. LinesOf(s) \cup ToSet(d) \in SUBSET Line
    BY <1>1
  <2> QED
    BY <1>1, <2>1, OlderIsDisjoint DEF Sorted
<1>5. LinesOf(s) \cup ToSet(d) \in SUBSET Line
  BY <1>1
<1> QED
  BY <1>1, <1>2, <1>3, <1>4, <1>5, DisjointUnion

\* What is older than the rest can be taken off it.
LEMMA TakenOff ==
  ASSUME NEW S \in SUBSET Line, NEW R \in SUBSET Line, Older(S, R)
  PROVE  R = (S \cup R) \ S
BY OlderIsDisjoint

-----------------------------------------------------------------------------
(* The invariant.                                                          *)

\* Nothing is queued or in flight that the reader has not taken; its own line is the
\* one it took last, and it has one only where it can still enqueue or drop it.
TakenLines ==
  /\ held \in {0, taken}
  /\ held # 0 => readerPc \in {"policy", "register", "recheck", "wait", "add", "send"}
  /\ \A l \in QueuedLines \cup InFlightLines : l <= taken

OInv ==
  /\ QueueInOrder
  /\ TakenLines
  /\ LinesCounted(sealed, sealed_entries)
  /\ \A p \in Permits : Free(p) => push[p].batch = <<>>

\* The queue as its three containers.
LEMMA QueueView ==
  /\ BlockLines = LinesOf(sealed)
  /\ QueueSorted <=> Sorted(sealed, deque, channel) /\ Older(QueuedLines, HeldLine)
BY DEF BlockLines, BacklogLines, LinesOf, QueueSorted, Sorted, SortedBlocks

LEMMA QueueTypes ==
  ASSUME IInv
  PROVE  /\ deque \in Seq(Line) /\ sealed \in Seq(Seq(Line)) /\ channel \in Seq(Line)
         /\ sealed_entries \in Nat /\ QueueCap \in Nat
         /\ Len(deque) \in Nat /\ Len(channel) \in Nat
         /\ BlockLines \subseteq Line /\ BacklogLines \subseteq Line
         /\ QueuedLines \subseteq Line /\ QueuedLines \subseteq Nat
<1>1. /\ deque \in Seq(Line) /\ sealed \in Seq(Seq(Line)) /\ channel \in Seq(Line)
      /\ sealed_entries \in Nat /\ QueueCap \in Nat
  BY ConfigAssumption DEF IInv, TypeOK, QueueTypeOK, BatcherTypeOK
<1>2. BlockLines \subseteq Line
  BY <1>1, QueueView, LinesOfBlocks
<1>3. ToSet(deque) \subseteq Line /\ ToSet(channel) \subseteq Line
  BY <1>1, SetOfSeq
<1> QED
  BY <1>1, <1>2, <1>3, LenProperties, LinesAreNaturals DEF BacklogLines, QueuedLines

\* The number of queued lines, by their containers and by queue_len.
LEMMA QueuedCardinality ==
  ASSUME IInv, OInv
  PROVE  /\ Cardinality(QueuedLines) = Len(channel) + Len(deque) + sealed_entries
         /\ Cardinality(QueuedLines) \in Nat
         /\ queue_len = BetweenAddAndSend + Cardinality(QueuedLines)
<1>1. Sorted(sealed, deque, channel)
  BY QueueView DEF OInv, QueueInOrder
<1>2. QueuedLines = LinesOf(sealed) \cup ToSet(deque) \cup ToSet(channel)
  BY QueueView DEF QueuedLines, BacklogLines
<1>3. Cardinality(QueuedLines) = sealed_entries + Len(deque) + Len(channel)
  BY <1>1, <1>2, QueueTypes, QueueCardinality DEF OInv
<1>4. BetweenAddAndSend \in Nat
  BY DEF BetweenAddAndSend
<1>5. Cardinality(QueuedLines) = Len(channel) + Len(deque) + sealed_entries
  BY <1>3, QueueTypes
<1> QED
  BY <1>4, <1>5, QueueTypes DEF IInv, QueueLenExact

-----------------------------------------------------------------------------
(* What the two steps that take lines off the queue do to it.              *)

\* The received line and the backlog before, without S, are the backlog after; S is
\* older than what stays, and it is counted as dropped.
Evicts(S) ==
  /\ DropPolicy = "oldest" /\ Cardinality(QueuedLines) > QueueCap
  /\ S \subseteq QueuedLines /\ Cardinality(S) \in 1 .. BatchSize
  /\ BacklogLines \cup {Head(channel)} = S \cup BacklogLines'
  /\ QueuedLines' = QueuedLines \ S
  /\ Older(S, QueuedLines')
  /\ AddStats([entries_dropped_queue |-> Cardinality(S)])

LEMMA ReceiveEffect ==
  ASSUME IInv, OInv, ReceiveLog
  PROVE  /\ Sorted(sealed', deque', channel')
         /\ LinesCounted(sealed', sealed_entries')
         /\ \/ QueuedLines' = QueuedLines /\ stats' = stats
            \/ \E S \in SUBSET Line : Evicts(S)
<1> DEFINE pushed  == Append(deque, Head(channel))
           d       == DequeAfterSeal(pushed)
           blocks  == SealedAfterSeal(pushed)
           entries == EntriesAfterSeal(pushed)
           rest    == Tail(channel)
<1>1. /\ channel # <<>> /\ channel' = rest
      /\ \/ Overfull(d, entries) /\ EvictOldest(d, blocks, entries)
         \/ /\ deque' = d /\ sealed' = blocks /\ sealed_entries' = entries
            /\ stats' = stats
  BY DEF ReceiveLog
<1>2. /\ deque \in Seq(Line) /\ sealed \in Seq(Seq(Line)) /\ channel \in Seq(Line)
      /\ sealed_entries \in Nat /\ QueueCap \in Nat
  BY QueueTypes
<1>3. Sorted(sealed, deque, channel) /\ LinesCounted(sealed, sealed_entries)
  BY QueueView DEF OInv, QueueInOrder
<1>4. /\ Head(channel) \in Line /\ rest \in Seq(Line) /\ pushed \in Seq(Line)
      /\ ToSet(pushed) = ToSet(deque) \cup {Head(channel)}
      /\ ToSet(channel) = {Head(channel)} \cup ToSet(rest)
      /\ Sorted(sealed, pushed, rest)
  BY <1>1, <1>2, <1>3, MoveToDeque
<1> HIDE DEF pushed
<1>5. /\ d \in Seq(Line) /\ blocks \in Seq(Seq(Line)) /\ entries \in Nat
      /\ FullBlocks(blocks, entries)
  BY <1>2, <1>4, SealMovesLines DEF IInv
<1>6. /\ Sorted(blocks, d, rest) /\ LinesCounted(blocks, entries)
      /\ LinesOf(blocks) \cup ToSet(d) = LinesOf(sealed) \cup ToSet(pushed)
  BY <1>2, <1>3, <1>4, SealKeepsOrder
<1> HIDE DEF d, blocks, entries, rest
<1>7. BacklogLines \cup {Head(channel)} = LinesOf(blocks) \cup ToSet(d)
  BY <1>4, <1>6, QueueView DEF BacklogLines
<1>8. QueuedLines = LinesOf(blocks) \cup ToSet(d) \cup ToSet(rest)
  BY <1>4, <1>7 DEF QueuedLines
<1>9. /\ BlockLines' = LinesOf(sealed')
      /\ BacklogLines' = LinesOf(sealed') \cup ToSet(deque')
      /\ QueuedLines' = LinesOf(sealed') \cup ToSet(deque') \cup ToSet(rest)
  BY <1>1 DEF BlockLines, BacklogLines, QueuedLines, LinesOf
<1>10. CASE /\ deque' = d /\ sealed' = blocks /\ sealed_entries' = entries
            /\ stats' = stats
  BY <1>1, <1>6, <1>8, <1>9, <1>10
<1>11. CASE Overfull(d, entries) /\ EvictOldest(d, blocks, entries)
  <2>1. Cardinality(QueuedLines) > QueueCap /\ DropPolicy = "oldest"
    <3>1. Cardinality(QueuedLines) = entries + Len(d) + Len(rest)
      BY <1>4, <1>5, <1>6, <1>8, QueueCardinality
    <3>2. Len(d) \in Nat /\ Len(rest) \in Nat
      BY <1>4, <1>5, LenProperties
    <3>3. Len(d) + entries > QueueCap /\ DropPolicy = "oldest"
      BY <1>11 DEF Overfull
    <3> QED
      BY <1>2, <1>5, <3>1, <3>2, <3>3
  <2>2. ASSUME NEW S \in SUBSET Line, Cardinality(S) \in 1 .. BatchSize,
               LinesOf(blocks) \cup ToSet(d) = S \cup LinesOf(sealed') \cup ToSet(deque'),
               Older(S, LinesOf(sealed') \cup ToSet(deque') \cup ToSet(rest)),
               AddStats([entries_dropped_queue |-> Cardinality(S)])
        PROVE  Evicts(S)
    <3>1. QueuedLines = S \cup QueuedLines'
      BY <1>8, <1>9, <2>2
    <3>2. QueuedLines \subseteq Line
      BY QueueTypes
    <3>3. QueuedLines' = QueuedLines \ S
      BY <1>9, <2>2, <3>1, <3>2, TakenOff
    <3> QED
      BY <1>7, <1>9, <2>1, <2>2, <3>1, <3>3 DEF Evicts
  <2>3. CASE blocks # <<>>
    <3>1. /\ sealed' = Tail(blocks) /\ deque' = d
          /\ sealed_entries' = entries - Len(Head(blocks))
          /\ AddStats([entries_dropped_queue |-> Len(Head(blocks))])
      BY <1>11, <2>3 DEF EvictOldest, CountEvicted
    <3>2. Head(blocks) \in Seq(Line) /\ Len(Head(blocks)) = BatchSize
      BY <1>5, <2>3, PopBlock
    <3>3. /\ Sorted(Tail(blocks), d, rest)
          /\ LinesCounted(Tail(blocks), entries - Len(Head(blocks)))
          /\ LinesOf(blocks) = ToSet(Head(blocks)) \cup LinesOf(Tail(blocks))
          /\ Cardinality(ToSet(Head(blocks))) = Len(Head(blocks))
          /\ Older(ToSet(Head(blocks)), LinesOf(Tail(blocks)) \cup ToSet(d) \cup ToSet(rest))
      BY <1>4, <1>5, <1>6, <2>3, TakeFirstBlock
    <3>4. /\ ToSet(Head(blocks)) \in SUBSET Line
          /\ Cardinality(ToSet(Head(blocks))) \in 1 .. BatchSize
      BY <3>2, <3>3, SetOfSeq, BatchSizePositive
    <3>5. Evicts(ToSet(Head(blocks)))
      <4>1. LinesOf(blocks) \cup ToSet(d)
              = ToSet(Head(blocks)) \cup LinesOf(sealed') \cup ToSet(deque')
        BY <3>1, <3>3
      <4> QED
        BY <2>2, <3>1, <3>3, <3>4, <4>1
    <3> QED
      BY <1>1, <3>1, <3>3, <3>4, <3>5
  <2>4. CASE blocks = <<>>
    <3>1. /\ d # <<>> /\ sealed' = <<>> /\ deque' = Tail(d) /\ sealed_entries' = entries
          /\ AddStats([entries_dropped_queue |-> 1])
      BY <1>11, <2>4 DEF EvictOldest, CountEvicted
    <3>2. /\ Head(d) \in Line
          /\ Sorted(<<>>, Tail(d), rest)
          /\ ToSet(d) = {Head(d)} \cup ToSet(Tail(d))
          /\ Older({Head(d)}, ToSet(Tail(d)) \cup ToSet(rest))
      BY <1>4, <1>5, <1>6, <2>4, <3>1, TakeFirstLine
    <3>3. Cardinality({Head(d)}) = 1
      BY FS_Singleton
    <3>4. LinesOf(<<>>) = {}
      BY DEF LinesOf
    <3>5. Evicts({Head(d)})
      <4>1. LinesOf(blocks) \cup ToSet(d)
              = {Head(d)} \cup LinesOf(sealed') \cup ToSet(deque')
        BY <2>4, <3>1, <3>2
      <4>2. Older({Head(d)}, LinesOf(sealed') \cup ToSet(deque') \cup ToSet(rest))
        BY <3>1, <3>2, <3>4
      <4>3. Cardinality({Head(d)}) \in 1 .. BatchSize
        BY <3>3, BatchSizePositive
      <4>4. AddStats([entries_dropped_queue |-> Cardinality({Head(d)})])
        BY <3>1, <3>3
      <4> QED
        BY <2>2, <3>2, <4>1, <4>2, <4>3, <4>4
    <3>6. LinesCounted(sealed', sealed_entries')
      BY <1>6, <2>4, <3>1
    <3> QED
      BY <1>1, <3>1, <3>2, <3>5, <3>6
  <2> QED
    BY <2>3, <2>4
<1> QED
  BY <1>1, <1>10, <1>11

\* The batch a push task gets is the front of the queue.
LEMMA AcquireEffect ==
  ASSUME IInv, OInv, NEW p \in Permits, AcquirePermit(p)
  PROVE  /\ Sorted(sealed', deque', channel')
         /\ LinesCounted(sealed', sealed_entries')
         /\ StrictlyIncreasing(NextBatch)
         /\ ToSet(NextBatch) \subseteq QueuedLines
         /\ Cardinality(ToSet(NextBatch)) \in 1 .. BatchSize
         /\ QueuedLines' = QueuedLines \ ToSet(NextBatch)
         /\ Older(ToSet(NextBatch), QueuedLines')
<1>1. /\ deque \in Seq(Line) /\ sealed \in Seq(Seq(Line)) /\ channel \in Seq(Line)
      /\ sealed_entries \in Nat
  BY QueueTypes
<1>2. Sorted(sealed, deque, channel) /\ LinesCounted(sealed, sealed_entries)
  BY QueueView DEF OInv, QueueInOrder
<1>3. /\ channel' = channel /\ deque' = DequeAfterBatch /\ sealed' = SealedAfterBatch
      /\ sealed_entries' = IF sealed # <<>> THEN sealed_entries - Len(NextBatch)
                                            ELSE sealed_entries
      /\ BatchReady
  BY DEF AcquirePermit, channelVars
<1>4. /\ QueuedLines = LinesOf(sealed) \cup ToSet(deque) \cup ToSet(channel)
      /\ QueuedLines' = LinesOf(sealed') \cup ToSet(deque') \cup ToSet(channel)
      /\ QueuedLines \subseteq Line
  BY <1>3, QueueTypes DEF QueuedLines, BacklogLines, BlockLines, LinesOf
<1>5. /\ Sorted(sealed', deque', channel') /\ LinesCounted(sealed', sealed_entries')
      /\ StrictlyIncreasing(NextBatch)
      /\ Cardinality(ToSet(NextBatch)) \in 1 .. BatchSize
      /\ QueuedLines = ToSet(NextBatch) \cup QueuedLines'
      /\ Older(ToSet(NextBatch), QueuedLines')
  <2>1. CASE sealed # <<>>
    <3>1. /\ NextBatch = Head(sealed) /\ deque' = deque /\ sealed' = Tail(sealed)
          /\ sealed_entries' = sealed_entries - Len(Head(sealed))
      BY <1>3, <2>1 DEF NextBatch, DequeAfterBatch, SealedAfterBatch
    <3>2. Len(Head(sealed)) = BatchSize
      BY <1>1, <2>1, PopBlock DEF IInv, SealedFull
    <3>3. /\ Sorted(Tail(sealed), deque, channel)
          /\ LinesCounted(Tail(sealed), sealed_entries - Len(Head(sealed)))
          /\ StrictlyIncreasing(Head(sealed))
          /\ LinesOf(sealed) = ToSet(Head(sealed)) \cup LinesOf(Tail(sealed))
          /\ Cardinality(ToSet(Head(sealed))) = Len(Head(sealed))
          /\ Older(ToSet(Head(sealed)),
                   LinesOf(Tail(sealed)) \cup ToSet(deque) \cup ToSet(channel))
      BY <1>1, <1>2, <2>1, TakeFirstBlock
    <3>4. Cardinality(ToSet(Head(sealed))) \in 1 .. BatchSize
      BY <3>2, <3>3, BatchSizePositive
    <3> QED
      BY <1>3, <1>4, <3>1, <3>3, <3>4
  <2>2. CASE sealed = <<>>
    <3> DEFINE front == SubSeq(deque, 1, Take)
               rest  == SubSeq(deque, Take + 1, Len(deque))
    <3>1. /\ NextBatch = front /\ deque' = rest /\ sealed' = <<>>
          /\ sealed_entries' = sealed_entries
      BY <1>3, <2>2 DEF NextBatch, DequeAfterBatch, SealedAfterBatch
    <3>2. deque # <<>>
      BY <1>3, <2>2 DEF BatchReady
    <3>3. Len(deque) \in Nat /\ Len(deque) >= 1
      BY <1>1, <3>2, EmptySeq
    <3>4. Take \in 0 .. Len(deque) /\ Take \in 1 .. BatchSize
      BY <3>3, BatchSizePositive DEF Take
    <3>5. /\ rest \in Seq(Line) /\ Sorted(<<>>, rest, channel)
          /\ StrictlyIncreasing(front)
          /\ ToSet(deque) = ToSet(front) \cup ToSet(rest)
          /\ Cardinality(ToSet(front)) = Take
          /\ Older(ToSet(front), ToSet(rest) \cup ToSet(channel))
      BY <1>1, <1>2, <2>2, <3>4, TakeFront
    <3>6. LinesOf(<<>>) = {}
      BY DEF LinesOf
    <3> HIDE DEF front, rest
    <3>7. /\ QueuedLines' = ToSet(rest) \cup ToSet(channel)
          /\ QueuedLines = ToSet(front) \cup ToSet(rest) \cup ToSet(channel)
      BY <1>4, <2>2, <3>1, <3>5, <3>6
    <3>8. LinesCounted(sealed', sealed_entries')
      BY <1>2, <2>2, <3>1
    <3> QED
      BY <1>3, <3>1, <3>4, <3>5, <3>7, <3>8
  <2> QED
    BY <2>1, <2>2
<1>6. QueuedLines' = QueuedLines \ ToSet(NextBatch)
  <2>1. ToSet(NextBatch) \in SUBSET Line /\ QueuedLines' \in SUBSET Line
    BY <1>4, <1>5
  <2> QED
    BY <1>5, <2>1, TakenOff
<1> QED
  BY <1>5, <1>6

-----------------------------------------------------------------------------
(* Every step keeps the order.                                             *)

LEMMA InitOInv == Init => OInv
<1> SUFFICES ASSUME Init PROVE OInv
  OBVIOUS
<1> USE DEF Init, ReaderInit, BatcherInit, PusherInit
<1>1. ToSet(<<>>) = {} /\ LinesOf(<<>>) = {} /\ BlockLines = {}
  BY DEF ToSet, LinesOf, BlockLines
<1>2. \A p \in Permits : push[p].batch = <<>>
  BY DEF Idle
<1>3. QueuedLines = {} /\ HeldLine = {} /\ InFlightLines = {}
  BY <1>1, <1>2 DEF QueuedLines, BacklogLines, HeldLine, InFlightLines
<1>4. QueueSorted
  BY <1>1, <1>3 DEF QueueSorted, StrictlyIncreasing, Older, BacklogLines
<1>5. QueueInOrder
  BY <1>1, <1>2, <1>3, <1>4 DEF QueueInOrder, StrictlyIncreasing, Older
<1>6. LinesCounted(sealed, sealed_entries)
  BY <1>1, FS_EmptySet DEF LinesCounted
<1> QED
  BY <1>2, <1>3, <1>5, <1>6 DEF OInv, TakenLines

\* A step that moves no line but may drop the reader's or end some pushes.
LEMMA OrderFrame ==
  ASSUME OInv, UNCHANGED <<sealed, sealed_entries, deque, channel, taken>>,
         held' \in {held, 0},
         held' # 0 => readerPc' \in {"policy", "register", "recheck", "wait", "add", "send"},
         \A p \in Permits : /\ push'[p].batch \in {push[p].batch, <<>>}
                            /\ push'[p].pc = "idle" => push'[p].batch = <<>>
  PROVE  OInv'
<1>1. /\ QueuedLines' = QueuedLines /\ BacklogLines' = BacklogLines
      /\ BlockLines' = BlockLines
      /\ HeldLine' \subseteq HeldLine
  BY DEF QueuedLines, BacklogLines, BlockLines, HeldLine
<1>2. \A p \in Permits : /\ ToSet(push'[p].batch) \subseteq ToSet(push[p].batch)
                         /\ StrictlyIncreasing(push[p].batch)
                              => StrictlyIncreasing(push'[p].batch)
  BY DEF ToSet, StrictlyIncreasing
<1>3. InFlightLines' \subseteq InFlightLines
  BY <1>2 DEF InFlightLines
<1>4. QueueSorted'
  BY <1>1 DEF OInv, QueueInOrder, QueueSorted, Older
<1>5. ASSUME NEW p \in Permits
      PROVE  /\ StrictlyIncreasing(push'[p].batch)
             /\ Older(ToSet(push'[p].batch), (QueuedLines \cup HeldLine)')
             /\ \A q \in Permits \ {p} :
                  ToSet(push'[p].batch) \cap ToSet(push'[q].batch) = {}
  <2>1. /\ StrictlyIncreasing(push[p].batch)
        /\ Older(ToSet(push[p].batch), QueuedLines \cup HeldLine)
        /\ \A q \in Permits \ {p} : ToSet(push[p].batch) \cap ToSet(push[q].batch) = {}
    BY DEF OInv, QueueInOrder
  <2> QED
    BY <1>1, <1>2, <2>1 DEF Older
<1>6. QueueInOrder'
  BY <1>4, <1>5 DEF QueueInOrder
<1>7. TakenLines'
  BY <1>1, <1>3 DEF OInv, TakenLines
<1>8. LinesCounted(sealed, sealed_entries)'
  BY DEF OInv, LinesCounted, LinesOf
<1> QED
  BY <1>6, <1>7, <1>8 DEF OInv, Free

\* What a step of a push task does to the tasks: it ends its own, or moves it on.
LEMMA PushEffect ==
  ASSUME IInv, NEW p \in Permits, PushStep(p)
  PROVE  /\ PushUnchanged
         /\ \A q \in Permits : /\ push'[q].batch \in {push[q].batch, <<>>}
                               /\ push'[q].pc = "idle" /\ ~Free(q)
                                    => push'[q].batch = <<>>
                               /\ Free(q) => push'[q] = push[q]
<1>1. push \in [Permits -> PushTask]
  BY DEF IInv, TypeOK, PushTypeOK
<1>2. PushUnchanged
  BY DEF PushStep, StartAttempt, Delivered, StatusReceived, BodyRead, TransportError,
         SleepElapsed, DeadlineCancels
<1>3. ~Free(p)
  BY DEF Free, PushStep, StartAttempt, Delivered, StatusReceived, BodyRead, TransportError,
         SleepElapsed, DeadlineCancels
<1>4. \/ push' = [push EXCEPT ![p] = Idle]
      \/ \E t : /\ push' = [push EXCEPT ![p] = t]
                /\ t.batch = push[p].batch /\ t.pc # "idle"
  <2>1. ASSUME RetryOrDrop(p)
        PROVE  \/ push' = [push EXCEPT ![p] = Idle]
               \/ \E t : /\ push' = [push EXCEPT ![p] = t]
                         /\ t.batch = push[p].batch /\ t.pc # "idle"
    <3> DEFINE later == [pc |-> "backoff", batch |-> push[p].batch,
                         attempt |-> push[p].attempt + 1, status |-> 0]
    <3>1. later.batch = push[p].batch /\ later.pc # "idle"
      OBVIOUS
    <3>2. push' = [push EXCEPT ![p] = Idle] \/ push' = [push EXCEPT ![p] = later]
      BY <2>1 DEF RetryOrDrop, drop_batch, Finish
    <3> HIDE DEF later
    <3> QED
      BY <3>1, <3>2
  <2>2. CASE StartAttempt(p) \/ SleepElapsed(p)
    <3>1. ASSUME NEW pc \in {"sending", "start"}
          PROVE  /\ [push[p] EXCEPT !.pc = pc].batch = push[p].batch
                 /\ [push[p] EXCEPT !.pc = pc].pc # "idle"
      BY <1>1 DEF PushTask
    <3> QED
      BY <2>2, <3>1, <1>1 DEF StartAttempt, SleepElapsed, drop_batch, Finish
  <2>3. CASE StatusReceived(p)
    <3>1. PICK status \in Statuses :
            push' = [push EXCEPT ![p] = [push[p] EXCEPT !.pc = "reading", !.status = status]]
      BY <2>3 DEF StatusReceived
    <3>2. /\ [push[p] EXCEPT !.pc = "reading", !.status = status].batch = push[p].batch
          /\ [push[p] EXCEPT !.pc = "reading", !.status = status].pc # "idle"
      BY <1>1 DEF PushTask
    <3> QED
      BY <3>1, <3>2
  <2>4. CASE Delivered(p) \/ DeadlineCancels(p)
    BY <2>4 DEF Delivered, DeadlineCancels, drop_batch, Finish
  <2>5. CASE BodyRead(p) \/ TransportError(p)
    BY <2>1, <2>5 DEF BodyRead, TransportError, drop_batch, Finish
  <2> QED
    BY <2>2, <2>3, <2>4, <2>5 DEF PushStep
<1>5. Idle.batch = <<>>
  BY DEF Idle
<1> QED
  BY <1>1, <1>2, <1>3, <1>4, <1>5 DEF Free

LEMMA PushKeepsOrder ==
  ASSUME IInv, OInv, NEW p \in Permits, PushStep(p)
  PROVE  OInv'
<1>1. UNCHANGED <<sealed, sealed_entries, deque, channel, taken, held, readerPc>>
  BY PushEffect DEF PushUnchanged, stdinVars, channelVars, readerVars, batcherVars
<1>2. \A q \in Permits : /\ push'[q].batch \in {push[q].batch, <<>>}
                         /\ push'[q].pc = "idle" => push'[q].batch = <<>>
  BY PushEffect DEF OInv, Free
<1> QED
  BY <1>1, <1>2, OrderFrame DEF OInv, TakenLines

LEMMA DispatchKeepsOrder ==
  ASSUME IInv, OInv, NEW p \in Permits, Dispatch(p)
  PROVE  OInv'
<1>1. push \in [Permits -> PushTask]
  BY DEF IInv, TypeOK, PushTypeOK
<1>2. \A q \in Permits : /\ push'[q].batch \in {push[q].batch, <<>>}
                         /\ push'[q].pc = "idle" => push'[q].batch = <<>>
  BY <1>1 DEF OInv, Free, Dispatch, PushTask
<1>3. UNCHANGED <<sealed, sealed_entries, deque, channel, taken, held, readerPc>>
  BY DEF Dispatch, stdinVars, channelVars, readerVars
<1> QED
  BY <1>2, <1>3, OrderFrame DEF OInv, TakenLines

LEMMA ReaderKeepsOrder == IInv /\ OInv /\ ReaderNext => OInv'
<1> SUFFICES ASSUME IInv, OInv, ReaderNext PROVE OInv'
  OBVIOUS
<1> USE DEF stdinVars, channelVars, readerVars, batcherVars, pushVars
<1>0. /\ \A p \in Permits : push[p].pc = "idle" => push[p].batch = <<>>
      /\ held \in {0, taken} /\ taken \in Nat
      /\ held # 0 => readerPc \in {"policy", "register", "recheck", "wait", "add", "send"}
  BY DEF OInv, Free, TakenLines, IInv, TypeOK, StdinTypeOK
<1>1. CASE ReadSegment
  <2>1. /\ readerPc = "select" /\ taken' = taken + 1
        /\ UNCHANGED <<sealed, sealed_entries, deque, channel, push>>
        /\ \/ held' = taken' /\ readerPc' \in {"add", "policy"}
           \/ held' = held
    BY <1>1 DEF ReadSegment
  <2>2. held = 0 /\ HeldLine = {} /\ HeldLine' \subseteq {taken'}
    BY <1>0, <2>1 DEF HeldLine
  <2>3. /\ QueuedLines' = QueuedLines /\ InFlightLines' = InFlightLines
        /\ BacklogLines' = BacklogLines /\ BlockLines' = BlockLines
    BY <2>1 DEF QueuedLines, BacklogLines, BlockLines, InFlightLines
  <2>4. \A l \in QueuedLines \cup InFlightLines : l <= taken
    BY DEF OInv, TakenLines
  <2>5. \A l \in QueuedLines \cup InFlightLines : l \in Nat
    <3>1. \A p \in Permits : push[p].batch \in Seq(Line)
      BY DEF IInv, TypeOK, PushTypeOK, PushTask
    <3>2. \A p \in Permits : ToSet(push[p].batch) \subseteq Nat
      BY <3>1, SetOfSeq, LinesAreNaturals
    <3> QED
      BY <3>2, QueueTypes DEF InFlightLines
  <2>6. \A l \in QueuedLines \cup InFlightLines : l < taken' /\ l <= taken'
    BY <1>0, <2>1, <2>4, <2>5
  <2>7. Older(QueuedLines', HeldLine')
    BY <2>2, <2>3, <2>6 DEF Older
  <2>8. QueueSorted'
    BY <2>1, <2>3, <2>7 DEF OInv, QueueInOrder, QueueSorted
  <2>9. ASSUME NEW p \in Permits
        PROVE  Older(ToSet(push[p].batch), QueuedLines' \cup HeldLine')
    <3>1. Older(ToSet(push[p].batch), QueuedLines)
      BY DEF OInv, QueueInOrder, Older
    <3>2. ToSet(push[p].batch) \subseteq InFlightLines
      BY DEF InFlightLines
    <3> QED
      BY <2>2, <2>3, <2>6, <3>1, <3>2 DEF Older
  <2>10. QueueInOrder'
    BY <2>1, <2>8, <2>9 DEF OInv, QueueInOrder
  <2>11. TakenLines'
    BY <2>1, <2>2, <2>3, <2>6 DEF TakenLines
  <2> QED
    BY <2>1, <2>10, <2>11 DEF OInv, LinesCounted, LinesOf, Free
<1>2. CASE SendToBatcher
  <2>1. /\ readerPc = "send" /\ channel' = Append(channel, held) /\ held' = 0
        /\ UNCHANGED <<sealed, sealed_entries, deque, taken, push>>
    BY <1>2 DEF SendToBatcher
  <2>2. held \in Line /\ held # 0
    BY <2>1, LinesAreNaturals DEF IInv, HoldsLine
  <2>3. HeldLine = {held} /\ HeldLine' = {} /\ held = taken
    BY <1>0, <2>1, <2>2 DEF HeldLine
  <2>4. QueueSorted
    BY DEF OInv, QueueInOrder
  <2>5. Older(QueuedLines, {held}) /\ StrictlyIncreasing(channel)
    BY <2>3, <2>4 DEF QueueSorted
  <2>6. channel \in Seq(Line) /\ Older(ToSet(channel), {held})
    BY <2>5, QueueTypes DEF QueuedLines, Older
  <2>7. StrictlyIncreasing(channel') /\ ToSet(channel') = ToSet(channel) \cup {held}
    BY <2>1, <2>2, <2>5, <2>6, AppendSorted
  <2>8. /\ QueuedLines' = QueuedLines \cup {held} /\ BacklogLines' = BacklogLines
        /\ BlockLines' = BlockLines /\ InFlightLines' = InFlightLines
    BY <2>1, <2>7 DEF QueuedLines, BacklogLines, BlockLines, InFlightLines
  <2>9. Older(BacklogLines, ToSet(channel'))
    BY <2>4, <2>5, <2>7 DEF QueueSorted, QueuedLines, Older
  <2>10. QueueSorted'
    BY <2>1, <2>3, <2>4, <2>7, <2>8, <2>9 DEF QueueSorted, Older
  <2>11. QueuedLines' \cup HeldLine' = QueuedLines \cup HeldLine
    BY <2>3, <2>8
  <2>12. QueueInOrder'
    BY <2>1, <2>10, <2>11 DEF OInv, QueueInOrder
  <2>13. TakenLines'
    BY <1>0, <2>1, <2>3, <2>8 DEF OInv, TakenLines
  <2> QED
    BY <2>1, <2>12, <2>13 DEF OInv, LinesCounted, LinesOf, Free
<1>3. CASE ~ReadSegment /\ ~SendToBatcher
  <2>1. /\ UNCHANGED <<sealed, sealed_entries, deque, channel, taken, push>>
        /\ held' \in {held, 0}
        /\ held' # 0 =>
             readerPc' \in {"policy", "register", "recheck", "wait", "add", "send"}
    BY <1>0, <1>3
    DEF ReaderNext, ReaderProgress, CheckForceFlag, ReadEof, ReadError, ForcedWhileReading,
        NewestCheck, BlockCheck, BlockRegister, BlockRecheck, BlockWoken, BlockForced,
        CountQueued, ArmDrainDeadline, DropSender, PrintFinalStats, Break
  <2> QED
    BY <1>0, <2>1, OrderFrame
<1> QED
  BY <1>1, <1>2, <1>3

LEMMA ReceiveKeepsOrder == IInv /\ OInv /\ ReceiveLog => OInv'
<1> SUFFICES ASSUME IInv, OInv, ReceiveLog PROVE OInv'
  OBVIOUS
<1>1. UNCHANGED <<taken, held, readerPc, push>>
  BY DEF ReceiveLog, stdinVars, readerVars, pushVars
<1>2. /\ Sorted(sealed', deque', channel') /\ LinesCounted(sealed', sealed_entries')
      /\ QueuedLines' \subseteq QueuedLines
  BY ReceiveEffect DEF Evicts
<1>3. HeldLine' = HeldLine /\ InFlightLines' = InFlightLines
  BY <1>1 DEF HeldLine, InFlightLines
<1>4. Older(QueuedLines', HeldLine')
  BY <1>2, <1>3 DEF OInv, QueueInOrder, QueueSorted, Older
<1>5. QueueSorted'
  BY <1>2, <1>4 DEF QueueSorted, Sorted, SortedBlocks, BlockLines, BacklogLines, LinesOf
<1>6. QueueInOrder'
  BY <1>1, <1>2, <1>3, <1>5 DEF OInv, QueueInOrder, Older
<1>7. TakenLines'
  BY <1>1, <1>2, <1>3 DEF OInv, TakenLines
<1> QED
  BY <1>1, <1>2, <1>6, <1>7 DEF OInv, Free, LinesCounted, LinesOf

LEMMA AcquireKeepsOrder ==
  ASSUME IInv, OInv, NEW p \in Permits, AcquirePermit(p)
  PROVE  OInv'
<1>1. /\ UNCHANGED <<taken, held, readerPc>>
      /\ push' = [push EXCEPT ![p] = [pc |-> "handed", batch |-> NextBatch,
                                      attempt |-> 0, status |-> 0]]
      /\ Free(p) /\ push \in [Permits -> PushTask]
  BY DEF AcquirePermit, stdinVars, readerVars, IInv, TypeOK, PushTypeOK
<1>2. /\ Sorted(sealed', deque', channel') /\ LinesCounted(sealed', sealed_entries')
      /\ StrictlyIncreasing(NextBatch) /\ ToSet(NextBatch) \subseteq QueuedLines
      /\ QueuedLines' = QueuedLines \ ToSet(NextBatch)
      /\ Older(ToSet(NextBatch), QueuedLines')
  BY AcquireEffect
<1>3. /\ push'[p].batch = NextBatch /\ push'[p].pc = "handed"
      /\ \A q \in Permits \ {p} : push'[q] = push[q]
  BY <1>1
<1>4. HeldLine' = HeldLine
  BY <1>1 DEF HeldLine
<1>5. Older(QueuedLines, HeldLine)
  BY DEF OInv, QueueInOrder, QueueSorted
<1>6. QueueSorted'
  <2>1. Older(QueuedLines', HeldLine')
    BY <1>2, <1>4, <1>5 DEF Older
  <2> QED
    BY <1>2, <2>1 DEF QueueSorted, Sorted, SortedBlocks, BlockLines, BacklogLines, LinesOf
<1>7. Older(ToSet(NextBatch), QueuedLines' \cup HeldLine')
  BY <1>2, <1>4, <1>5 DEF Older
<1>8. ASSUME NEW q \in Permits \ {p}
      PROVE  /\ StrictlyIncreasing(push'[q].batch)
             /\ Older(ToSet(push'[q].batch), QueuedLines' \cup HeldLine')
             /\ ToSet(push'[q].batch) \cap ToSet(NextBatch) = {}
             /\ \A r \in Permits \ {p, q} :
                  ToSet(push'[q].batch) \cap ToSet(push'[r].batch) = {}
  <2>1. /\ StrictlyIncreasing(push[q].batch)
        /\ Older(ToSet(push[q].batch), QueuedLines \cup HeldLine)
        /\ \A r \in Permits \ {q} : ToSet(push[q].batch) \cap ToSet(push[r].batch) = {}
    BY DEF OInv, QueueInOrder
  <2>2. push[q].batch \in Seq(Line)
    BY <1>1 DEF PushTask
  <2>3. ToSet(push[q].batch) \in SUBSET Line /\ ToSet(NextBatch) \in SUBSET Line
    BY <1>2, <2>2, SetOfSeq, QueueTypes
  <2>4. Older(ToSet(push[q].batch), ToSet(NextBatch))
    BY <1>2, <2>1 DEF Older
  <2>5. ToSet(push[q].batch) \cap ToSet(NextBatch) = {}
    BY <2>3, <2>4, OlderIsDisjoint
  <2> QED
    BY <1>2, <1>3, <1>4, <2>1, <2>5 DEF Older
<1>9. QueueInOrder'
  <2> SUFFICES ASSUME NEW q \in Permits
               PROVE  /\ StrictlyIncreasing(push'[q].batch)
                      /\ Older(ToSet(push'[q].batch), (QueuedLines \cup HeldLine)')
                      /\ \A r \in Permits \ {q} :
                           ToSet(push'[q].batch) \cap ToSet(push'[r].batch) = {}
    BY <1>6 DEF QueueInOrder
  <2>1. CASE q = p
    BY <1>2, <1>3, <1>7, <1>8, <2>1
  <2>2. CASE q # p
    BY <1>3, <1>8, <2>2
  <2> QED
    BY <2>1, <2>2
<1>10. QueuedLines' \subseteq QueuedLines /\ InFlightLines' \subseteq InFlightLines \cup QueuedLines
  BY <1>2, <1>3 DEF InFlightLines
<1>11. TakenLines'
  BY <1>1, <1>10 DEF OInv, TakenLines
<1>12. \A q \in Permits : Free(q)' => push'[q].batch = <<>>
  BY <1>3 DEF OInv, Free
<1> QED
  BY <1>2, <1>9, <1>11, <1>12 DEF OInv, LinesCounted, LinesOf

LEMMA NextKeepsOrder == IInv /\ OInv /\ [Next]_vars => OInv'
<1> SUFFICES ASSUME IInv, OInv, [Next]_vars PROVE OInv'
  OBVIOUS
<1>1. CASE ReaderNext
  BY <1>1, ReaderKeepsOrder
<1>2. CASE ReceiveLog
  BY <1>2, ReceiveKeepsOrder
<1>3. CASE \E p \in Permits : AcquirePermit(p) \/ Dispatch(p) \/ PushStep(p)
  BY <1>3, AcquireKeepsOrder, DispatchKeepsOrder, PushKeepsOrder
<1>4. CASE \/ StdinNext \/ WatcherNext \/ BatcherBeside \/ DeadlinePasses \/ Finished
           \/ UNCHANGED vars
  <2>1. UNCHANGED <<sealed, sealed_entries, deque, channel, taken, held, readerPc, push>>
    BY <1>4
    DEF StdinNext, WriteSegment, CloseStdin, WatcherNext, ReceiveSignal, NotifyForceQuit,
        BatcherBeside, ChannelClosed, Tick, LeaveLoop, DrainComplete, DrainTimeout,
        DeadlinePasses, Finished, vars, stdinVars, channelVars, readerVars, batcherVars,
        pushVars
  <2> QED
    BY <2>1, OrderFrame DEF OInv, TakenLines, Free
<1> QED
  BY <1>1, <1>2, <1>3, <1>4 DEF Next, BatcherNext, BatcherBeside, PusherNext

LEMMA OrderHolds == Spec => []OInv
BY InitOInv, NextKeepsOrder, Invariance, PTL DEF Spec

\* The queue and the batches in flight are in stdin order, at every moment.
THEOREM LinesStayInOrder == Spec => []QueueInOrder
<1>1. OInv => QueueInOrder
  BY DEF OInv
<1> QED
  BY <1>1, OrderHolds, PTL

-----------------------------------------------------------------------------
(* Drop-oldest.                                                            *)

\* Counters a step does not add to keep their value.
LEMMA AddStatsElsewhere ==
  ASSUME NEW inc, AddStats(inc), NEW s \in StatNames, s \notin DOMAIN inc
  PROVE  stats'[s] = stats[s]
BY DEF AddStats

LEMMA AddStatsHere ==
  ASSUME NEW inc, AddStats(inc), NEW s \in StatNames, s \in DOMAIN inc
  PROVE  stats'[s] = stats[s] + inc[s]
BY DEF AddStats

\* Under drop-oldest only the batcher, receiving a line, drops from the queue.
LEMMA OnlyReceiveEvicts ==
  ASSUME IInv, CInv, [Next]_vars, DropPolicy = "oldest", ~ReceiveLog
  PROVE  stats'.entries_dropped_queue = stats.entries_dropped_queue
<1> DEFINE dropped == "entries_dropped_queue"
<1>0. dropped \in StatNames
  BY DEF StatNames
<1>1. CASE ReadSegment
  <2>1. PICK kind \in SegmentKinds :
          AddStats([read_lines   |-> IF kind = "empty" THEN 0 ELSE 1,
                    parse_errors |-> IF kind = "bad" THEN 1 ELSE 0])
    BY <1>1 DEF ReadSegment
  <2> QED
    BY <1>0, <2>1, AddStatsElsewhere
<1>2. CASE NewestCheck \/ BlockForced
  <2>1. readerPc \in {"policy", "wait"} /\ readerPc \notin {"policy", "wait"}
    BY <1>2 DEF NewestCheck, BlockForced, CInv, PolicyInv
  <2> QED
    BY <2>1
<1>3. ASSUME NEW p \in Permits, PushStep(p)
      PROVE  stats'.entries_dropped_queue = stats.entries_dropped_queue
  <2>1. drop_batch(p) => stats'.entries_dropped_queue = stats.entries_dropped_queue
    BY <1>0, AddStatsElsewhere DEF drop_batch
  <2>2. AddStats([retries |-> 1])
          => stats'.entries_dropped_queue = stats.entries_dropped_queue
    BY <1>0, AddStatsElsewhere
  <2>3. AddStats([batches_sent |-> 1, entries_delivered |-> Len(push[p].batch)])
          => stats'.entries_dropped_queue = stats.entries_dropped_queue
    BY <1>0, AddStatsElsewhere
  <2> QED
    BY <1>3, <2>1, <2>2, <2>3
    DEF PushStep, StartAttempt, Delivered, StatusReceived, BodyRead, TransportError,
        SleepElapsed, DeadlineCancels, RetryOrDrop
<1>4. CASE /\ ~ReadSegment /\ ~NewestCheck /\ ~BlockForced
           /\ ~(\E p \in Permits : PushStep(p))
  <2>1. stats' = stats
    BY <1>4
    DEF Next, StdinNext, WriteSegment, CloseStdin, WatcherNext, ReceiveSignal, NotifyForceQuit,
        ReaderNext, ReaderProgress, CheckForceFlag, ReadEof, ReadError, ForcedWhileReading,
        BlockCheck, BlockRegister, BlockRecheck, BlockWoken, CountQueued, SendToBatcher,
        ArmDrainDeadline, DropSender, PrintFinalStats, BatcherNext, ChannelClosed, Tick,
        AcquirePermit, Dispatch, LeaveLoop, DrainComplete, DrainTimeout, PusherNext,
        DeadlinePasses, Finished, vars
  <2> QED
    BY <2>1
<1> QED
  BY <1>1, <1>2, <1>3, <1>4

\* Drop-oldest evicts the oldest lines, the received one included, and counts each.
THEOREM EvictionTakesTheOldest == Spec => EvictsOldest
<1> DEFINE A == DropPolicy = "oldest"
                  /\ stats'.entries_dropped_queue # stats.entries_dropped_queue
                => LET before  == BacklogLines \cup {Head(channel)}
                       evicted == before \ BacklogLines'
                   IN /\ BacklogLines' \subseteq before
                      /\ Older(evicted, BacklogLines')
                      /\ stats'.entries_dropped_queue - stats.entries_dropped_queue
                           = Cardinality(evicted)
<1>1. IInv /\ OInv /\ CInv /\ [Next]_vars => A
  <2> SUFFICES ASSUME IInv, OInv, CInv, [Next]_vars, DropPolicy = "oldest",
                      stats'.entries_dropped_queue # stats.entries_dropped_queue
               PROVE  A
    OBVIOUS
  <2>1. ReceiveLog
    BY OnlyReceiveEvicts
  <2>2. PICK S \in SUBSET Line : Evicts(S)
    BY <2>1, ReceiveEffect
  <2>3. BacklogLines' \subseteq QueuedLines'
    BY DEF QueuedLines
  <2>4. /\ BacklogLines \cup {Head(channel)} = S \cup BacklogLines'
        /\ Older(S, BacklogLines')
        /\ S \cap BacklogLines' = {}
    BY <2>2, <2>3 DEF Evicts, Older
  <2>5. (BacklogLines \cup {Head(channel)}) \ BacklogLines' = S
    BY <2>4
  <2>6. stats'.entries_dropped_queue = stats.entries_dropped_queue + Cardinality(S)
    BY <2>2, AddStatsHere DEF Evicts, StatNames
  <2>7. stats.entries_dropped_queue \in Nat /\ Cardinality(S) \in Nat
    BY <2>2, LinesAreFinite DEF IInv, TypeOK, StatNames
  <2>8. stats'.entries_dropped_queue - stats.entries_dropped_queue = Cardinality(S)
    BY <2>6, <2>7
  <2> QED
    BY <2>4, <2>5, <2>8
<1> QED
  BY <1>1, Invariance, OrderHolds, CInvHolds, PTL DEF Spec, EvictsOldest

=============================================================================
