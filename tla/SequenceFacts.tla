---------------------------- MODULE SequenceFacts ----------------------------
(***************************************************************************)
(* Facts about the elements of sequences and the number of positions that  *)
(* hold certain elements, for the queues and rings of the components.      *)
(***************************************************************************)
EXTENDS Sequences, Integers, FiniteSets, FiniteSetTheorems, SequenceTheorems, WellFoundedInduction, TLAPS

\* positions of s that hold a member of E
Positions(s, E) == {i \in DOMAIN s : s[i] \in E}

\* how many
Count(s, E) == Cardinality(Positions(s, E))

\* Every set of numbers has a least one: induction, by the least counterexample.
LEMMA LeastNumber ==
    ASSUME NEW S \in SUBSET Nat, S # {}
    PROVE  \E n \in S : \A m \in S : n <= m
<1> DEFINE R == {ss \in Nat \X Nat : ss[1] < ss[2]}
<1>1. IsWellFoundedOn(R, Nat)
  BY NatLessThanWellFounded DEF OpToRel
<1>2. PICK n \in S : \A m \in S : ~(<<m, n>> \in R)
  BY <1>1, WFMin, Zenon
<1>3. \A m \in S : ~(m < n)
  <2> SUFFICES ASSUME NEW m \in S, m < n PROVE FALSE
    OBVIOUS
  <2>1. <<m, n>> \in Nat \X Nat /\ <<m, n>>[1] = m /\ <<m, n>>[2] = n
    OBVIOUS
  <2> QED BY <1>2, <2>1
<1> QED BY <1>2, <1>3

\* The first n numbers are n.
LEMMA FirstNumbers ==
    ASSUME NEW n \in Nat
    PROVE  IsFiniteSet(1..n) /\ Cardinality(1..n) = n
<1>1. IsFiniteSet(1..n) /\ Cardinality(1..n) = IF 1 > n THEN 0 ELSE n - 1 + 1
  BY FS_Interval
<1> QED BY <1>1

\* Where the elements of a sequence are after one was added.
LEMMA AppendItems ==
    ASSUME NEW S, NEW s \in Seq(S), NEW e \in S
    PROVE  /\ Len(s) \in Nat /\ DOMAIN s = 1..Len(s) /\ Append(s, e) \in Seq(S)
           /\ Len(Append(s, e)) = Len(s) + 1 /\ DOMAIN Append(s, e) = 1..(Len(s) + 1)
           /\ \A i \in 1..Len(s) : s[i] \in S /\ Append(s, e)[i] = s[i]
           /\ Append(s, e)[Len(s) + 1] = e
<1>1. Len(s) \in Nat /\ DOMAIN s = 1..Len(s) /\ \A i \in 1..Len(s) : s[i] \in S
  BY LenProperties, ElementOfSeq
<1>2. Append(s, e) \in Seq(S) /\ Len(Append(s, e)) = Len(s) + 1
  BY AppendProperties
<1>3. DOMAIN Append(s, e) = 1..(Len(s) + 1)
  BY <1>2, LenProperties
<1> QED BY <1>1, <1>2, <1>3, AppendProperties

\* Where they are after the first was removed.
LEMMA TailItems ==
    ASSUME NEW S, NEW s \in Seq(S), s # <<>>
    PROVE  /\ Len(s) \in Nat \ {0} /\ DOMAIN s = 1..Len(s) /\ Tail(s) \in Seq(S)
           /\ Head(s) \in S /\ Head(s) = s[1]
           /\ Len(Tail(s)) = Len(s) - 1 /\ DOMAIN Tail(s) = 1..(Len(s) - 1)
           /\ \A i \in 1..(Len(s) - 1) : Tail(s)[i] = s[i + 1] /\ s[i + 1] \in S
<1>1. Len(s) \in Nat /\ DOMAIN s = 1..Len(s) /\ \A i \in 1..Len(s) : s[i] \in S
  BY LenProperties, ElementOfSeq
<1>2. Len(s) \in Nat \ {0}
  BY <1>1, EmptySeq
<1>3. /\ Head(s) \in S /\ Tail(s) \in Seq(S) /\ Len(Tail(s)) = Len(s) - 1
      /\ \A i \in 1..Len(Tail(s)) : Tail(s)[i] = s[i + 1]
  BY HeadTailProperties
<1>4. DOMAIN Tail(s) = 1..(Len(s) - 1)
  BY <1>3, LenProperties
<1>5. \A i \in 1..(Len(s) - 1) : i + 1 \in 1..Len(s)
  BY <1>2
<1> QED BY <1>1, <1>2, <1>3, <1>4, <1>5

\* What _M_push_back adds to the elements of a queue.
LEMMA RangeAppend ==
    ASSUME NEW S, NEW s \in Seq(S), NEW e \in S
    PROVE  /\ Range(Append(s, e)) = Range(s) \union {e}
           /\ IsInjective(s) /\ e \notin Range(s) => IsInjective(Append(s, e))
<1>1. /\ DOMAIN s = 1..Len(s) /\ Len(s) \in Nat
      /\ DOMAIN Append(s, e) = 1..(Len(s) + 1)
      /\ \A i \in 1..Len(s) : Append(s, e)[i] = s[i]
      /\ Append(s, e)[Len(s) + 1] = e
  BY LenProperties, AppendProperties
<1>2. 1..(Len(s) + 1) = 1..Len(s) \union {Len(s) + 1}
  BY <1>1
<1>3. Range(Append(s, e)) = Range(s) \union {e}
  BY <1>1, <1>2 DEF Range
<1>4. ASSUME IsInjective(s), e \notin Range(s) PROVE IsInjective(Append(s, e))
  BY <1>1, <1>2, <1>4 DEF Range, IsInjective
<1> QED BY <1>3, <1>4

\* The elements of two queues spliced together.
LEMMA RangeConcat ==
    ASSUME NEW S, NEW s \in Seq(S), NEW t \in Seq(S)
    PROVE  /\ Range(s \o t) = Range(s) \union Range(t)
           /\ IsInjective(s) /\ IsInjective(t) /\ Range(s) \intersect Range(t) = {}
                  => IsInjective(s \o t)
<1>1. /\ DOMAIN s = 1..Len(s) /\ Len(s) \in Nat
      /\ DOMAIN t = 1..Len(t) /\ Len(t) \in Nat
      /\ DOMAIN (s \o t) = 1..(Len(s) + Len(t))
      /\ \A i \in 1..Len(s) : (s \o t)[i] = s[i]
      /\ \A i \in (Len(s) + 1)..(Len(s) + Len(t)) : (s \o t)[i] = t[i - Len(s)]
  BY LenProperties, ConcatProperties
<1>2. \A i \in 1..Len(t) : Len(s) + i \in (Len(s) + 1)..(Len(s) + Len(t)) /\ (Len(s) + i) - Len(s) = i
  BY <1>1
<1>3. \A i \in (Len(s) + 1)..(Len(s) + Len(t)) : i - Len(s) \in 1..Len(t)
  BY <1>1
<1>4. 1..(Len(s) + Len(t)) = 1..Len(s) \union (Len(s) + 1)..(Len(s) + Len(t))
  BY <1>1
<1>5. Range(s \o t) = Range(s) \union Range(t)
  <2>1. Range(s \o t) \subseteq Range(s) \union Range(t)
    BY <1>1, <1>3, <1>4 DEF Range
  <2>2. Range(s) \subseteq Range(s \o t)
    BY <1>1, <1>4 DEF Range
  <2>3. Range(t) \subseteq Range(s \o t)
    <3> SUFFICES ASSUME NEW i \in 1..Len(t) PROVE \E j \in DOMAIN (s \o t) : (s \o t)[j] = t[i]
      BY <1>1 DEF Range
    <3> QED BY <1>1, <1>2, <1>4
  <2> QED BY <2>1, <2>2, <2>3
<1>6. ASSUME IsInjective(s), IsInjective(t), Range(s) \intersect Range(t) = {}
      PROVE  IsInjective(s \o t)
  <2> SUFFICES ASSUME NEW i \in 1..(Len(s) + Len(t)), NEW j \in 1..(Len(s) + Len(t)),
                      (s \o t)[i] = (s \o t)[j]
               PROVE  i = j
    BY <1>1 DEF IsInjective
  <2>1. \A k \in 1..Len(s) : (s \o t)[k] \in Range(s)
    BY <1>1 DEF Range
  <2>2. \A k \in (Len(s) + 1)..(Len(s) + Len(t)) : (s \o t)[k] \in Range(t)
    BY <1>1, <1>3 DEF Range
  <2>3. CASE i \in 1..Len(s) /\ j \in 1..Len(s)
    BY <1>1, <1>6, <2>3 DEF IsInjective
  <2>4. CASE i \in (Len(s) + 1)..(Len(s) + Len(t)) /\ j \in (Len(s) + 1)..(Len(s) + Len(t))
    <3>1. i - Len(s) \in DOMAIN t /\ j - Len(s) \in DOMAIN t /\ t[i - Len(s)] = t[j - Len(s)]
      BY <1>1, <1>3, <2>4
    <3>2. i - Len(s) = j - Len(s)
      BY <1>6, <3>1 DEF IsInjective
    <3> QED BY <1>1, <3>2
  <2> QED BY <1>4, <1>6, <2>1, <2>2, <2>3, <2>4
<1> QED BY <1>5, <1>6

\* What _M_push_front adds to the elements of a queue.
LEMMA RangeCons ==
    ASSUME NEW S, NEW s \in Seq(S), NEW e \in S
    PROVE  /\ <<e>> \o s \in Seq(S)
           /\ Range(<<e>> \o s) = Range(s) \union {e}
           /\ IsInjective(s) /\ e \notin Range(s) => IsInjective(<<e>> \o s)
<1>1. <<e>> \in Seq(S) /\ Range(<<e>>) = {e} /\ IsInjective(<<e>>)
  BY DEF Range, IsInjective
<1> QED BY <1>1, RangeConcat, ConcatProperties

\* What _M_pop_front takes from the elements of a queue.
LEMMA RangeTail ==
    ASSUME NEW S, NEW s \in Seq(S), s # <<>>
    PROVE  /\ Range(s) = Range(Tail(s)) \union {Head(s)}
           /\ IsInjective(s) => IsInjective(Tail(s)) /\ Head(s) \notin Range(Tail(s))
<1>1. /\ DOMAIN s = 1..Len(s) /\ Len(s) \in Nat \ {0} /\ Head(s) = s[1]
      /\ DOMAIN Tail(s) = 1..(Len(s) - 1)
      /\ \A i \in 1..(Len(s) - 1) : Tail(s)[i] = s[i + 1]
  BY LenProperties, HeadTailProperties, EmptySeq
<1>2. \A i \in 1..(Len(s) - 1) : i + 1 \in 1..Len(s)
  BY <1>1
<1>3. \A i \in 1..Len(s) : i = 1 \/ (i - 1 \in 1..(Len(s) - 1) /\ (i - 1) + 1 = i)
  BY <1>1
<1>4. Range(s) = Range(Tail(s)) \union {Head(s)}
  <2>1. Range(Tail(s)) \union {Head(s)} \subseteq Range(s)
    BY <1>1, <1>2 DEF Range
  <2>2. ASSUME NEW i \in 1..Len(s), i # 1 PROVE s[i] \in Range(Tail(s))
    BY <1>1, <1>3, <2>2 DEF Range
  <2> QED BY <1>1, <2>1, <2>2 DEF Range
<1>5. ASSUME IsInjective(s) PROVE IsInjective(Tail(s)) /\ Head(s) \notin Range(Tail(s))
  BY <1>1, <1>2, <1>5 DEF Range, IsInjective
<1> QED BY <1>4, <1>5

\* The first n elements of a ring without duplicates are n elements, and the
\* rest does not hold them.
LEMMA RangeSplit ==
    ASSUME NEW S, NEW s \in Seq(S), IsInjective(s), NEW n \in 0..Len(s)
    PROVE  LET first == {s[i] : i \in 1..n}
               rest == SubSeq(s, n + 1, Len(s))
           IN  /\ IsFiniteSet(first) /\ Cardinality(first) = n
               /\ rest \in Seq(S) /\ Len(rest) = Len(s) - n /\ IsInjective(rest)
               /\ Range(s) = first \union Range(rest) /\ first \intersect Range(rest) = {}
<1> DEFINE first == {s[i] : i \in 1..n}
           rest == SubSeq(s, n + 1, Len(s))
           f == [i \in 1..n |-> s[i]]
<1>1. DOMAIN s = 1..Len(s) /\ Len(s) \in Nat /\ \A i \in 1..Len(s) : s[i] \in S
  BY LenProperties
<1>2. /\ rest \in Seq(S) /\ Len(rest) = Len(s) - n
      /\ \A i \in 1..(Len(s) - n) : rest[i] = s[n + i]
  <2>1. n + 1 \in Int /\ Len(s) \in Int /\ \A i \in (n + 1)..Len(s) : s[i] \in S
    BY <1>1
  <2>2. /\ rest \in Seq(S)
        /\ Len(rest) = IF n + 1 <= Len(s) THEN Len(s) - (n + 1) + 1 ELSE 0
        /\ \A i \in 1..(Len(s) - (n + 1) + 1) : rest[i] = s[(n + 1) + i - 1]
    BY <2>1, SubSeqProperties
  <2>3. Len(s) - (n + 1) + 1 = Len(s) - n /\ \A i \in 1..(Len(s) - n) : (n + 1) + i - 1 = n + i
    BY <1>1
  <2> HIDE DEF rest
  <2>4. Len(s) - n = IF n + 1 <= Len(s) THEN Len(s) - (n + 1) + 1 ELSE 0
    <3>1. \A l \in Nat : \A m \in 0..l : l - m = IF m + 1 <= l THEN l - (m + 1) + 1 ELSE 0
      OBVIOUS
    <3> QED BY <1>1, <3>1
  <2>5. ASSUME NEW i \in 1..(Len(s) - n) PROVE rest[i] = s[n + i]
    <3>1. i \in 1..(Len(s) - (n + 1) + 1) /\ (n + 1) + i - 1 = n + i
      BY <1>1, <2>3
    <3> QED BY <2>2, <3>1
  <2> QED BY <2>2, <2>4, <2>5
<1> HIDE DEF rest
<1>3. DOMAIN rest = 1..(Len(s) - n) /\ \A i \in 1..(Len(s) - n) : n + i \in DOMAIN s
  <2>1. DOMAIN rest = 1..Len(rest)
    BY <1>2, LenProperties
  <2> QED BY <1>1, <1>2, <2>1
<1>4. f \in Bijection(1..n, first)
  BY <1>1 DEF Bijection, Injection, Surjection, IsInjective
<1>5. ExistsBijection(1..n, first)
  BY <1>4 DEF ExistsBijection
<1>6. IsFiniteSet(first) /\ Cardinality(first) = n
  BY <1>5, FS_CountingElements, FS_NatBijection
<1>7. IsInjective(rest)
  <2> SUFFICES ASSUME NEW i \in 1..(Len(s) - n), NEW j \in 1..(Len(s) - n), rest[i] = rest[j]
               PROVE  i = j
    BY <1>3 DEF IsInjective
  <2>1. n + i = n + j
    BY <1>2, <1>3 DEF IsInjective
  <2> QED BY <2>1
<1>8. Range(s) = first \union Range(rest)
  <2>1. ASSUME NEW i \in (n + 1)..Len(s) PROVE s[i] \in Range(rest)
    <3>1. i - n \in DOMAIN rest /\ rest[i - n] = s[i]
      BY <1>1, <1>2, <1>3
    <3> QED BY <3>1 DEF Range
  <2>2. Range(rest) \subseteq Range(s) /\ first \subseteq Range(s)
    <3>1. \A i \in 1..n : i \in 1..Len(s)
      BY <1>1
    <3>2. \A i \in DOMAIN rest : n + i \in DOMAIN s /\ rest[i] = s[n + i]
      BY <1>2, <1>3
    <3> QED BY <1>1, <3>1, <3>2 DEF Range
  <2>3. \A i \in 1..Len(s) : i \in 1..n \/ i \in (n + 1)..Len(s)
    OBVIOUS
  <2> QED BY <1>1, <2>1, <2>2, <2>3 DEF Range
<1>9. first \intersect Range(rest) = {}
  <2> SUFFICES ASSUME NEW i \in 1..n, NEW j \in 1..(Len(s) - n), s[i] = rest[j] PROVE FALSE
    BY <1>3 DEF Range
  <2>1. i \in DOMAIN s /\ n + j \in DOMAIN s /\ s[i] = s[n + j]
    BY <1>1, <1>2, <1>3
  <2>2. i = n + j
    BY <2>1 DEF IsInjective
  <2> QED BY <1>1, <2>2
<1> QED BY <1>2, <1>6, <1>7, <1>8, <1>9 DEF rest

\* A sequence has finitely many positions.
LEMMA CountType ==
    ASSUME NEW S, NEW s \in Seq(S), NEW E
    PROVE  IsFiniteSet(Positions(s, E)) /\ Count(s, E) \in Nat
<1>1. DOMAIN s = 1..Len(s) /\ Len(s) \in Nat
  BY LenProperties
<1>2. IsFiniteSet(DOMAIN s) /\ Positions(s, E) \subseteq DOMAIN s
  BY <1>1, FS_Interval DEF Positions
<1> QED BY <1>2, FS_Subset, FS_CardinalityType DEF Count

\* Nothing is counted in an empty sequence.
LEMMA CountEmpty == \A E : Count(<<>>, E) = 0
<1> TAKE E
<1>1. Positions(<<>>, E) = {}
  BY DEF Positions
<1> QED BY <1>1, FS_EmptySet DEF Count

\* Appending an element counts it when it is in E.
LEMMA CountAppend ==
    ASSUME NEW S, NEW s \in Seq(S), NEW e \in S, NEW E
    PROVE  Count(Append(s, e), E) = Count(s, E) + (IF e \in E THEN 1 ELSE 0)
<1>1. /\ DOMAIN s = 1..Len(s) /\ Len(s) \in Nat
      /\ DOMAIN Append(s, e) = 1..(Len(s) + 1)
      /\ \A i \in 1..Len(s) : Append(s, e)[i] = s[i]
      /\ Append(s, e)[Len(s) + 1] = e
  BY LenProperties, AppendProperties
<1>2. 1..(Len(s) + 1) = 1..Len(s) \union {Len(s) + 1} /\ Len(s) + 1 \notin 1..Len(s)
  BY <1>1
<1>3. Positions(Append(s, e), E) = Positions(s, E) \union (IF e \in E THEN {Len(s) + 1} ELSE {})
  BY <1>1, <1>2 DEF Positions
<1>4. Len(s) + 1 \notin Positions(s, E)
  BY <1>1, <1>2 DEF Positions
<1>5. CASE e \in E
  <2>1. IsFiniteSet(Positions(s, E))
    BY CountType
  <2> QED BY <1>3, <1>4, <1>5, <2>1, FS_AddElement DEF Count
<1>6. CASE e \notin E
  BY <1>3, <1>6, CountType DEF Count
<1> QED BY <1>5, <1>6

\* Removing the first element discounts it when it is in E.
LEMMA CountTail ==
    ASSUME NEW S, NEW s \in Seq(S), s # <<>>, NEW E
    PROVE  Count(Tail(s), E) = Count(s, E) - (IF Head(s) \in E THEN 1 ELSE 0)
<1> DEFINE P == Positions(s, E) \ {1}
           f == [i \in Positions(Tail(s), E) |-> i + 1]
<1>1. /\ DOMAIN s = 1..Len(s) /\ Len(s) \in Nat \ {0} /\ Head(s) = s[1]
      /\ DOMAIN Tail(s) = 1..(Len(s) - 1) /\ Tail(s) \in Seq(S)
      /\ \A i \in 1..(Len(s) - 1) : Tail(s)[i] = s[i + 1]
  BY LenProperties, HeadTailProperties, EmptySeq
<1>2. f \in [Positions(Tail(s), E) -> P] /\ IsInjective(f)
  BY <1>1 DEF Positions, IsInjective
<1>3. ASSUME NEW j \in P PROVE \E i \in Positions(Tail(s), E) : f[i] = j
  <2>1. j - 1 \in 1..(Len(s) - 1) /\ (j - 1) + 1 = j /\ s[j] \in E
    BY <1>1 DEF Positions
  <2>2. j - 1 \in Positions(Tail(s), E)
    BY <1>1, <2>1 DEF Positions
  <2> QED BY <2>1, <2>2
<1>4. f \in Bijection(Positions(Tail(s), E), P)
  BY <1>2, <1>3 DEF Bijection, Injection, Surjection
<1>5. ExistsBijection(Positions(Tail(s), E), P)
  BY <1>4 DEF ExistsBijection
<1>6. Cardinality(P) = Count(Tail(s), E)
  BY <1>1, <1>5, CountType, FS_Bijection DEF Count
<1>7. IsFiniteSet(Positions(s, E)) /\ (1 \in Positions(s, E) <=> Head(s) \in E) /\ Count(s, E) \in Nat
  BY <1>1, CountType DEF Positions
<1>8. Cardinality(P) = IF 1 \in Positions(s, E) THEN Count(s, E) - 1 ELSE Count(s, E)
  BY <1>7, FS_RemoveElement DEF Count
<1> QED BY <1>6, <1>7, <1>8
=============================================================================
