------------------------ MODULE MemoryResourceProofs ------------------------
(***************************************************************************)
(* Proofs about MemoryResource for any number of threads, any sizes of     *)
(* blocks, batches, mappings and rings that satisfy PoolAssumption.        *)
(***************************************************************************)
EXTENDS MemoryResource, FiniteSetTheorems, TLAPS

Ringing == {"push", "pushLoad", "pushCount", "pushLink"}
Filling == {"prepend", "fill", "splice"}
Popping == {"refill", "pop", "take", "reset", "map"}
Place == {"idle", "gone", "publish"} \union Ringing \union Filling \union Popping

Span == [id : Nat, block : Block, offset : Nat, len : 1..Units, cut : BOOLEAN]

PoolType ==
    /\ head \in Nat /\ tail \in Nat /\ maps \in 0..MaxMaps
    /\ slotq \in [Slot -> Nat] /\ slot \in [Thread -> Slot]
    /\ queue \in [Thread -> Nat] /\ hand \in [Thread -> Nat]
    /\ pc \in [Thread -> Place] /\ then \in [Thread -> {"idle", "refill", "prepend"}]

UseType ==
    /\ use \in [Block -> Nat] /\ IsFiniteSet(spans) /\ spans \subseteq Span
    /\ consume \in [Thread -> Block \union {NoBlock}]
    /\ bump \in [Thread -> 0..Units] /\ need \in [Thread -> 0..Units]

\* what a thread holds in its registers, by where it stands
PlaceOf(t) ==
    /\ pc[t] \in {"idle", "gone"} => need[t] = 0
    /\ pc[t] \in Filling \union Popping => need[t] > 0
    /\ pc[t] \in Ringing \union {"publish"} => (need[t] = 0 <=> then[t] = "idle")
    /\ pc[t] \in Ringing => then[t] # "prepend" /\ hand[t] = 1
    /\ pc[t] \in Filling => then[t] = "prepend"
    /\ pc[t] = "publish" /\ then[t] # "prepend" => hand[t] = 0
    /\ pc[t] \in {"idle", "gone", "refill", "pop", "take", "map"} => hand[t] = 0

PlaceInv == \A t \in Thread : PlaceOf(t)

\* names are names, and a block is consumed by one thread
NameInv ==
    /\ \A s, u \in spans : s.id = u.id => s = u
    /\ \A t \in Thread : consume[t] = NoBlock => bump[t] = Units
    /\ \A t, u \in Thread : consume[t] = consume[u] /\ consume[t] # NoBlock
                              /\ Consumes(t, consume[t]) /\ Consumes(u, consume[t]) => t = u

\* the blocks on the queues and in the hands of threads
Stored == Sum(slotq, Slot) + Sum(queue, Thread) + Sum(hand, Thread)

\* Disjoint, without sets of bytes
Apart(s, u) == s.offset + s.len <= u.offset \/ u.offset + u.len <= s.offset

ApartInv ==
    \A s \in spans : ~s.cut =>
        /\ s.offset + s.len <= Units
        /\ \A u \in spans \ {s} : u.block = s.block /\ ~u.cut => Apart(s, u)
        /\ \A t \in Thread : Consumes(t, s.block) => s.offset + s.len <= bump[t]

UseInv == UseType /\ NameInv /\ UseCountExact /\ ApartInv

PoolInv == PoolType /\ PlaceInv /\ UseInv /\ BlocksConserved

-----------------------------------------------------------------------------
(* Sums and cardinalities.                                                   *)

\* The number of pairs of a function into the numbers: what the other arguments
\* contribute, and the value of one.
LEMMA SumSplit ==
    ASSUME NEW S, IsFiniteSet(S), NEW f \in [S -> Nat], NEW x \in S, NEW R,
           R = UNION {{y} \X (1..f[y]) : y \in S \ {x}}
    PROVE  Cardinality(R) \in Nat /\ Sum(f, S) = Cardinality(R) + f[x]
<1> DEFINE Part(y) == {y} \X (1..f[y])
<1>1. \A y \in S : f[y] \in Nat /\ IsFiniteSet(Part(y)) /\ Cardinality(Part(y)) = f[y]
  <2> TAKE y \in S
  <2>1. PICK n_ \in Nat : n_ = f[y]
    OBVIOUS
  <2>2. PICK I : I = 1..n_
    OBVIOUS
  <2>3. IsFiniteSet(I) /\ Cardinality(I) = n_
    BY <2>2, FS_Interval
  <2>4. PICK Y : Y = {y} /\ IsFiniteSet(Y) /\ Cardinality(Y) = 1
    BY FS_Singleton
  <2>5. IsFiniteSet(Y \X I) /\ Cardinality(Y \X I) = 1 * n_
    BY <2>3, <2>4, FS_Product
  <2>6. Part(y) = Y \X I
    BY <2>1, <2>2, <2>4
  <2>7. 1 * n_ = n_
    OBVIOUS
  <2> QED BY <2>1, <2>5, <2>6, <2>7
<1>2. IsFiniteSet(R) /\ Cardinality(R) \in Nat
  <2> DEFINE Q == {Part(y) : y \in S \ {x}}
             g == [y \in S \ {x} |-> Part(y)]
  <2>1. IsFiniteSet(S \ {x})
    BY FS_RemoveElement
  <2>2. g \in Surjection(S \ {x}, Q)
    BY DEF Surjection
  <2>3. IsFiniteSet(Q)
    BY <2>1, <2>2, FS_Surjection
  <2>4. \A P \in Q : IsFiniteSet(P)
    BY <1>1
  <2>5. R = UNION Q
    OBVIOUS
  <2> HIDE DEF Q
  <2> QED BY <2>3, <2>4, <2>5, FS_UNION, FS_CardinalityType
<1>3. UNION {{y} \X (1..f[y]) : y \in S} = R \union Part(x)
  OBVIOUS
<1>4. R \intersect Part(x) = {}
  OBVIOUS
<1>5. PICK X : X = Part(x) /\ IsFiniteSet(X) /\ Cardinality(X) = f[x] /\ f[x] \in Nat
  BY <1>1
<1>6. Cardinality(R \intersect X) = 0
  BY <1>4, <1>5, FS_EmptySet
<1>7. Cardinality(R \union X) = Cardinality(R) + Cardinality(X) - Cardinality(R \intersect X)
  BY <1>2, <1>5, FS_Union
<1>8. Cardinality(R \union X) = Cardinality(R) + f[x]
  BY <1>2, <1>5, <1>6, <1>7
<1>9. Sum(f, S) = Cardinality(R \union X)
  BY <1>3, <1>5 DEF Sum
<1> QED BY <1>2, <1>8, <1>9

\* A sum is a number, and changes by what one argument changes.
LEMMA SumChange ==
    ASSUME NEW S, IsFiniteSet(S), NEW f \in [S -> Nat], NEW x \in S,
           NEW g \in [S -> Nat], \A y \in S \ {x} : g[y] = f[y]
    PROVE  Sum(f, S) \in Nat /\ f[x] <= Sum(f, S) /\ Sum(g, S) = Sum(f, S) - f[x] + g[x]
<1>1. f[x] \in Nat /\ g[x] \in Nat
  OBVIOUS
<1>2. PICK R : R = UNION {{y} \X (1..f[y]) : y \in S \ {x}}
  OBVIOUS
<1>3. R = UNION {{y} \X (1..g[y]) : y \in S \ {x}}
  BY <1>2
<1>4. Cardinality(R) \in Nat /\ Sum(f, S) = Cardinality(R) + f[x]
  BY <1>2, SumSplit
<1>5. Sum(g, S) = Cardinality(R) + g[x]
  BY <1>3, SumSplit
<1> QED BY <1>1, <1>4, <1>5

\* The sum of zeros.
LEMMA SumZero ==
    ASSUME NEW S, NEW f \in [S -> Nat], \A x \in S : f[x] = 0
    PROVE  Sum(f, S) = 0
<1>1. \A x \in S : {x} \X (1..f[x]) = {}
  OBVIOUS
<1>2. UNION {{x} \X (1..f[x]) : x \in S} = {}
  BY <1>1
<1> QED BY <1>2, FS_EmptySet DEF Sum

\* A sum is a number, the one over the empty set too.
LEMMA SumType ==
    ASSUME NEW S, IsFiniteSet(S), NEW f \in [S -> Nat]
    PROVE  Sum(f, S) \in Nat
<1>1. CASE S = {}
  <2>1. Sum(f, S) = 0
    BY <1>1, SumZero
  <2> QED BY <2>1
<1>2. CASE S # {}
  <2>1. PICK x \in S : TRUE
    BY <1>2
  <2> QED BY <2>1, SumChange
<1> QED BY <1>1, <1>2

\* The numbers of the pool.
LEMMA PoolNumbers ==
    /\ T \in Nat \ {0} /\ M \in Nat \ {0} /\ K \in Nat \ {0} /\ Units \in Nat \ {0}
    /\ MaxMaps \in Nat /\ Wrap \in Nat \ {0} /\ Sizes \subseteq 1..Units
    /\ IsFiniteSet(Thread) /\ IsFiniteSet(Slot) /\ IsFiniteSet(Block)
    /\ M * MaxMaps \in Nat /\ Cardinality(Block) = M * MaxMaps /\ NoBlock \notin Block
    /\ 0 \in Slot /\ \A h \in Nat : h % K \in Slot /\ (h + 1) % Wrap \in Nat
<1>1. /\ T \in Nat \ {0} /\ M \in Nat \ {0} /\ K \in Nat \ {0} /\ Units \in Nat \ {0} /\ MaxMaps \in Nat
      /\ Sizes \subseteq 1..Units /\ IsFiniteSet(Thread)
  BY PoolAssumption
<1>2. Wrap \in Nat \ {0}
  <2>1. PICK c \in 2..Wrap : Wrap = c * K
    BY PoolAssumption
  <2>2. c \in Nat /\ c >= 2
    OBVIOUS
  <2>3. c * K \in Nat /\ c * K # 0
    BY <1>1, <2>2
  <2> QED BY <2>1, <2>3
<1>3. M * MaxMaps \in Nat
  BY <1>1
<1>4. IsFiniteSet(Block) /\ Cardinality(Block) = M * MaxMaps
  BY <1>3, FS_Interval DEF Block
<1>5. IsFiniteSet(Slot)
  BY <1>1, FS_Interval DEF Slot
<1>6. NoBlock \notin Block
  BY <1>3 DEF Block, NoBlock
<1>7. 0 \in Slot /\ \A h \in Nat : h % K \in Slot /\ (h + 1) % Wrap \in Nat
  BY <1>1, <1>2 DEF Slot
<1> QED BY <1>1, <1>2, <1>3, <1>4, <1>5, <1>6, <1>7

\* the subranges of S that are of block b
OfBlock(S, b) == {s \in S : s.block = b}

\* The members of a finite set of records that are of one block, when one is added.
LEMMA OneMore ==
    ASSUME NEW S, IsFiniteSet(S), NEW r, r \notin S, NEW b
    PROVE  /\ IsFiniteSet(S \union {r}) /\ Cardinality(OfBlock(S, b)) \in Nat
           /\ Cardinality(OfBlock(S \union {r}, b)) = Cardinality(OfBlock(S, b)) + (IF r.block = b THEN 1 ELSE 0)
<1>a. PICK A : A = OfBlock(S, b)
  OBVIOUS
<1>b. PICK B : B = OfBlock(S \union {r}, b)
  OBVIOUS
<1>1. IsFiniteSet(S \union {r})
  BY FS_AddElement
<1>2. IsFiniteSet(A) /\ Cardinality(A) \in Nat
  <2>1. A \in SUBSET S
    BY <1>a DEF OfBlock
  <2> QED BY <2>1, FS_Subset, FS_CardinalityType
<1>3. CASE r.block = b
  <2>1. B = A \union {r} /\ r \notin A
    BY <1>a, <1>b, <1>3 DEF OfBlock
  <2>2. Cardinality(A \union {r}) = Cardinality(A) + 1
    BY <1>2, <2>1, FS_AddElement
  <2>3. Cardinality(B) = Cardinality(A) + 1
    BY <2>1, <2>2
  <2> QED BY <1>1, <1>2, <1>3, <2>3, <1>a, <1>b
<1>4. CASE r.block # b
  <2>1. Cardinality(B) = Cardinality(A)
    <3>1. B = A
      BY <1>a, <1>b, <1>4 DEF OfBlock
    <3> QED BY <3>1
  <2> QED BY <1>1, <1>2, <1>4, <2>1, <1>a, <1>b
<1> QED BY <1>3, <1>4

\* The blocks in use, when the count of one changes.
LEMMA InUseChange ==
    ASSUME NEW f \in [Block -> Nat], NEW b \in Block, NEW k \in Nat, NEW g, g = [f EXCEPT ![b] = k],
           NEW A, A = {c \in Block : f[c] > 0}, NEW B, B = {c \in Block : g[c] > 0}
    PROVE  /\ Cardinality(A) \in Nat /\ Cardinality(A) <= M * MaxMaps
           /\ Cardinality(B) = Cardinality(A) - (IF f[b] > 0 THEN 1 ELSE 0) + (IF k > 0 THEN 1 ELSE 0)
<1>1. IsFiniteSet(A) /\ Cardinality(A) \in Nat /\ Cardinality(A) <= M * MaxMaps
  <2>1. A \in SUBSET Block
    OBVIOUS
  <2> QED BY <2>1, PoolNumbers, FS_Subset, FS_CardinalityType
<1>2. g[b] = k /\ \A c \in Block : c # b => g[c] = f[c]
  OBVIOUS
<1>3. b \in A <=> f[b] > 0
  OBVIOUS
<1>4. CASE k > 0
  <2>1. B = A \union {b}
    BY <1>2, <1>4
  <2>2. Cardinality(A \union {b}) = IF b \in A THEN Cardinality(A) ELSE Cardinality(A) + 1
    BY <1>1, FS_AddElement
  <2> QED BY <1>1, <1>3, <1>4, <2>1, <2>2
<1>5. CASE ~(k > 0)
  <2>1. B = A \ {b}
    BY <1>2, <1>5
  <2>2. Cardinality(A \ {b}) = IF b \in A THEN Cardinality(A) - 1 ELSE Cardinality(A)
    BY <1>1, FS_RemoveElement
  <2> QED BY <1>1, <1>3, <1>5, <2>1, <2>2
<1> QED BY <1>4, <1>5

-----------------------------------------------------------------------------
(* What a step has to show.                                                  *)

\* A step of one thread concerns its own registers.
LEMMA PlaceKept ==
    ASSUME PlaceInv, NEW t \in Thread, PlaceOf(t)',
           \A u \in Thread \ {t} : pc'[u] = pc[u] /\ need'[u] = need[u] /\ then'[u] = then[u] /\ hand'[u] = hand[u]
    PROVE  PlaceInv'
<1> SUFFICES ASSUME NEW u \in Thread PROVE PlaceOf(u)'
  BY DEF PlaceInv
<1>1. CASE u = t
  BY <1>1
<1>2. CASE u # t
  <2>1. PlaceOf(u) /\ pc'[u] = pc[u] /\ need'[u] = need[u] /\ then'[u] = then[u] /\ hand'[u] = hand[u]
    BY <1>2 DEF PlaceInv
  <2> QED BY <2>1 DEF PlaceOf
<1> QED BY <1>1, <1>2

\* one slot has i blocks after a step, the queue of one thread j, and its hand k
Moved(t, s, i, j, k) ==
    /\ slotq' = [slotq EXCEPT ![s] = i] /\ queue' = [queue EXCEPT ![t] = j]
    /\ hand' = [hand EXCEPT ![t] = k]

\* Blocks move between one slot and the queue and the hand of one thread.
LEMMA StoredMoves ==
    ASSUME PoolType, NEW t \in Thread, NEW s \in Slot, NEW i \in Nat, NEW j \in Nat, NEW k \in Nat,
           Moved(t, s, i, j, k)
    PROVE  /\ slotq[s] \in Nat /\ queue[t] \in Nat /\ hand[t] \in Nat /\ Stored \in Nat
           /\ queue[t] <= Stored
           /\ slotq' \in [Slot -> Nat] /\ queue' \in [Thread -> Nat] /\ hand' \in [Thread -> Nat]
           /\ Stored' = Stored - (slotq[s] + queue[t] + hand[t]) + (i + j + k)
<1>1. slotq \in [Slot -> Nat] /\ queue \in [Thread -> Nat] /\ hand \in [Thread -> Nat]
  BY DEF PoolType
<1>2. IsFiniteSet(Slot) /\ IsFiniteSet(Thread)
  BY PoolNumbers
<1>3. slotq[s] \in Nat /\ queue[t] \in Nat /\ hand[t] \in Nat
  BY <1>1
<1>4. /\ Sum(slotq, Slot) \in Nat /\ slotq' \in [Slot -> Nat]
      /\ Sum(slotq', Slot) = Sum(slotq, Slot) - slotq[s] + i
  <2>1. s \in Slot /\ slotq' \in [Slot -> Nat] /\ slotq'[s] = i /\ \A y \in Slot \ {s} : slotq'[y] = slotq[y]
    BY <1>1 DEF Moved
  <2> QED BY ONLY <1>1, <1>2, <2>1, SumChange
<1>5. /\ Sum(queue, Thread) \in Nat /\ queue' \in [Thread -> Nat] /\ queue[t] <= Sum(queue, Thread)
      /\ Sum(queue', Thread) = Sum(queue, Thread) - queue[t] + j
  <2>1. t \in Thread /\ queue' \in [Thread -> Nat] /\ queue'[t] = j /\ \A y \in Thread \ {t} : queue'[y] = queue[y]
    BY <1>1 DEF Moved
  <2> QED BY ONLY <1>1, <1>2, <2>1, SumChange
<1>6. /\ Sum(hand, Thread) \in Nat /\ hand' \in [Thread -> Nat]
      /\ Sum(hand', Thread) = Sum(hand, Thread) - hand[t] + k
  <2>1. t \in Thread /\ hand' \in [Thread -> Nat] /\ hand'[t] = k /\ \A y \in Thread \ {t} : hand'[y] = hand[y]
    BY <1>1 DEF Moved
  <2> QED BY ONLY <1>1, <1>2, <2>1, SumChange
<1>7. Stored' = Sum(slotq', Slot) + Sum(queue', Thread) + Sum(hand', Thread)
  BY DEF Stored
<1> QED BY <1>3, <1>4, <1>5, <1>6, <1>7 DEF Stored

\* The blocks in use are a number of blocks.
LEMMA InUseNumber == UseType => Cardinality(InUse) \in Nat /\ Cardinality(InUse) <= M * MaxMaps /\ IsFiniteSet(InUse)
<1> HAVE UseType
<1>1. InUse \in SUBSET Block
  BY DEF InUse
<1> QED BY <1>1, PoolNumbers, FS_Subset, FS_CardinalityType

\* A step that leaves the sum, and ends no thread, keeps the blocks.
LEMMA BlocksKept ==
    ASSUME BlocksConserved, NEW h \in Nat, Stored + Cardinality(InUse) = h, Stored' + Cardinality(InUse)' = h,
           maps' = maps, \A t \in Thread : pc'[t] = "gone" <=> pc[t] = "gone"
    PROVE  BlocksConserved'
<1>1. Held = h /\ Held' = h
  BY DEF Held, Stored
<1> QED BY <1>1 DEF BlocksConserved

\* A step that leaves counts, subranges and the blocks that threads consume.
LEMMA UseKept ==
    ASSUME UseInv, UNCHANGED <<use, spans, consume, bump, need>>,
           \A t \in Thread : pc'[t] = "gone" <=> pc[t] = "gone"
    PROVE  UseInv' /\ Cardinality(InUse)' = Cardinality(InUse)
<1>1. UseType /\ NameInv /\ UseCountExact /\ ApartInv
  BY DEF UseInv
<1>2. \A t \in Thread : \A b : Consumes(t, b)' <=> Consumes(t, b)
  BY DEF Consumes
<1>3. \A b : Consumers(b)' = Consumers(b) /\ Subranges(b)' = Subranges(b)
  BY <1>2 DEF Consumers, Subranges
<1>4. UseType'
  BY <1>1 DEF UseType
<1>5. NameInv'
  BY <1>1, <1>2 DEF NameInv
<1>6. UseCountExact'
  BY <1>1, <1>3 DEF UseCountExact
<1>7. ApartInv'
  BY <1>1, <1>2 DEF ApartInv, Apart
<1>8. InUse' = InUse
  BY DEF InUse
<1> QED BY <1>4, <1>5, <1>6, <1>7, <1>8 DEF UseInv

-----------------------------------------------------------------------------
(* The steps of the remote source.                                           *)

\* what a step of the remote source may do to the rest of a thread
Elsewhere(t) ==
    /\ UNCHANGED <<use, spans, consume, bump, need, then, maps>>
    /\ head' \in Nat /\ tail' \in Nat /\ slot' \in [Thread -> Slot]
    /\ pc[t] # "gone" /\ pc' = [pc EXCEPT ![t] = pc'[t]] /\ pc'[t] \in Place \ {"gone"}

\* Blocks move, and none is used.
LEMMA MoveStep ==
    ASSUME PoolInv, NEW t \in Thread, NEW s \in Slot, NEW i \in Nat, NEW j \in Nat, NEW k \in Nat,
           Moved(t, s, i, j, k), i + j + k = slotq[s] + queue[t] + hand[t],
           Elsewhere(t), PlaceOf(t)'
    PROVE  PoolInv'
<1>1. PoolType /\ PlaceInv /\ UseInv /\ BlocksConserved /\ UseType
  BY DEF PoolInv, UseInv
<1>2. /\ slotq[s] \in Nat /\ queue[t] \in Nat /\ hand[t] \in Nat /\ Stored \in Nat
      /\ queue[t] <= Stored
      /\ slotq' \in [Slot -> Nat] /\ queue' \in [Thread -> Nat] /\ hand' \in [Thread -> Nat]
      /\ Stored' = Stored - (slotq[s] + queue[t] + hand[t]) + (i + j + k)
  BY <1>1, StoredMoves
<1>3. /\ UNCHANGED <<use, spans, consume, bump, need, then, maps>>
      /\ head' \in Nat /\ tail' \in Nat /\ slot' \in [Thread -> Slot]
      /\ pc[t] # "gone" /\ pc' = [pc EXCEPT ![t] = pc'[t]] /\ pc'[t] \in Place /\ pc'[t] # "gone"
  BY DEF Elsewhere
<1>4. pc \in [Thread -> Place] /\ hand \in [Thread -> Nat]
  BY <1>1 DEF PoolType
<1>5. /\ pc' \in [Thread -> Place]
      /\ \A u \in Thread \ {t} : pc'[u] = pc[u] /\ hand'[u] = hand[u]
  BY <1>3, <1>4 DEF Moved
<1>6. PoolType'
  BY <1>1, <1>2, <1>3, <1>5 DEF PoolType
<1>7. PlaceInv'
  BY <1>1, <1>3, <1>5, PlaceKept
<1>8. \A u \in Thread : pc'[u] = "gone" <=> pc[u] = "gone"
  BY <1>3, <1>5
<1>9. UseInv' /\ Cardinality(InUse)' = Cardinality(InUse)
  BY <1>1, <1>3, <1>8, UseKept
<1>10. BlocksConserved'
  <2>1. Stored' = Stored
    BY <1>2
  <2>2. PICK h \in Nat : h = Stored + Cardinality(InUse)
    BY <1>1, <1>2, InUseNumber
  <2> QED BY <1>1, <1>3, <1>8, <1>9, <2>1, <2>2, BlocksKept
<1> QED BY <1>6, <1>7, <1>9, <1>10 DEF PoolInv

\* No block moves.
LEMMA StillStep ==
    ASSUME PoolInv, NEW t \in Thread, UNCHANGED <<slotq, queue, hand>>, Elsewhere(t), PlaceOf(t)'
    PROVE  PoolInv'
<1>1. slotq \in [Slot -> Nat] /\ queue \in [Thread -> Nat] /\ hand \in [Thread -> Nat] /\ 0 \in Slot
  BY PoolNumbers DEF PoolInv, PoolType
<1>2. PICK i \in Nat, j \in Nat, k \in Nat : i = slotq[0] /\ j = queue[t] /\ k = hand[t]
  BY <1>1
<1>3. Moved(t, 0, i, j, k) /\ i + j + k = slotq[0] + queue[t] + hand[t]
  BY <1>1, <1>2 DEF Moved
<1> QED BY <1>1, <1>3, MoveStep

\* What a thread at some place has in its registers.
LEMMA PlaceFacts ==
    ASSUME PoolInv, NEW t \in Thread
    PROVE  /\ pc[t] \in Place /\ need[t] \in Nat /\ hand[t] \in Nat /\ queue[t] \in Nat
           /\ slot[t] \in Slot /\ slotq[slot[t]] \in Nat /\ PlaceOf(t)
           /\ then[t] \in {"idle", "refill", "prepend"}
           /\ head \in Nat /\ tail \in Nat /\ slot \in [Thread -> Slot] /\ pc \in [Thread -> Place]
<1>1. need[t] \in 0..Units /\ Units \in Nat
  BY PoolNumbers DEF PoolInv, UseInv, UseType
<1> QED BY <1>1 DEF PoolInv, PoolType, PlaceInv

\* The slot at the tail is claimed.
LEMMA TryPopStep == ASSUME PoolInv, NEW t \in Thread, TryPop(t) PROVE PoolInv'
<1>1. /\ pc[t] \in Place /\ PlaceOf(t) /\ tail \in Nat /\ head \in Nat /\ slot \in [Thread -> Slot]
      /\ pc \in [Thread -> Place]
  BY PlaceFacts
<1>2. /\ pc[t] = "pop" /\ pc' = [pc EXCEPT ![t] = "take"] /\ slot' = [slot EXCEPT ![t] = tail % K]
      /\ tail' = (tail + 1) % Wrap /\ head' = head
      /\ UNCHANGED <<slotq, queue, hand>> /\ UNCHANGED <<use, spans, consume, bump, need, then, maps>>
  BY DEF TryPop, At, Goto, localVars
<1>3. slot' \in [Thread -> Slot] /\ tail' \in Nat /\ pc'[t] = "take"
  BY <1>1, <1>2, PoolNumbers
<1>4. Elsewhere(t)
  BY <1>1, <1>2, <1>3 DEF Elsewhere, Place, Popping
<1>5. PlaceOf(t)'
  BY <1>1, <1>2, <1>3 DEF PlaceOf, Filling, Popping, Ringing
<1> QED BY <1>2, <1>4, <1>5, StillStep

\* An empty ring.
LEMMA TryPopEmptyStep == ASSUME PoolInv, NEW t \in Thread, TryPopEmpty(t) PROVE PoolInv'
<1>1. /\ pc[t] \in Place /\ PlaceOf(t) /\ tail \in Nat /\ head \in Nat /\ slot \in [Thread -> Slot]
      /\ pc \in [Thread -> Place]
  BY PlaceFacts
<1>2. /\ pc[t] = "pop" /\ (pc' = [pc EXCEPT ![t] = "pop"] \/ pc' = [pc EXCEPT ![t] = "map"])
      /\ slot' = slot /\ tail' = tail /\ head' = head
      /\ UNCHANGED <<slotq, queue, hand>> /\ UNCHANGED <<use, spans, consume, bump, need, then, maps>>
  BY DEF TryPopEmpty, At, Retry, Goto, localVars, remoteVars
<1>3. pc'[t] \in {"pop", "map"} /\ pc' = [pc EXCEPT ![t] = pc'[t]]
  BY <1>1, <1>2
<1>4. Elsewhere(t)
  BY <1>1, <1>2, <1>3 DEF Elsewhere, Place, Popping
<1>5. PlaceOf(t)'
  BY <1>1, <1>2, <1>3 DEF PlaceOf, Filling, Popping, Ringing
<1> QED BY <1>2, <1>4, <1>5, StillStep

\* The queue of the slot is taken.
LEMMA PopTakeStep == ASSUME PoolInv, NEW t \in Thread, PopTake(t) PROVE PoolInv'
<1>1. /\ pc[t] \in Place /\ PlaceOf(t) /\ tail \in Nat /\ head \in Nat /\ slot \in [Thread -> Slot]
      /\ pc \in [Thread -> Place] /\ slot[t] \in Slot /\ slotq[slot[t]] \in Nat /\ queue[t] \in Nat
      /\ hand[t] \in Nat
  BY PlaceFacts
<1>2. /\ pc[t] = "take" /\ pc' = [pc EXCEPT ![t] = "reset"]
      /\ hand' = [hand EXCEPT ![t] = slotq[slot[t]]] /\ slotq' = [slotq EXCEPT ![slot[t]] = 0]
      /\ slot' = slot /\ tail' = tail /\ head' = head /\ queue' = queue
      /\ UNCHANGED <<use, spans, consume, bump, need, then, maps>>
  BY DEF PopTake, At, Goto, localVars
<1>3. pc'[t] = "reset" /\ hand[t] = 0
  BY <1>1, <1>2 DEF PlaceOf
<1>4. Elsewhere(t)
  BY <1>1, <1>2, <1>3 DEF Elsewhere, Place, Popping
<1>5. PlaceOf(t)'
  BY <1>1, <1>2, <1>3 DEF PlaceOf, Filling, Popping, Ringing
<1>6. /\ Moved(t, slot[t], 0, queue[t], slotq[slot[t]])
      /\ 0 + queue[t] + slotq[slot[t]] = slotq[slot[t]] + queue[t] + hand[t]
  BY <1>1, <1>2, <1>3 DEF PoolInv, PoolType, Moved
<1> QED BY <1>1, <1>4, <1>5, <1>6, MoveStep

\* The counter of the slot is reset, and what was taken goes to the local queue.
LEMMA PopResetStep == ASSUME PoolInv, NEW t \in Thread, PopReset(t) PROVE PoolInv'
<1>1. /\ pc[t] \in Place /\ PlaceOf(t) /\ tail \in Nat /\ head \in Nat /\ slot \in [Thread -> Slot]
      /\ pc \in [Thread -> Place] /\ queue[t] \in Nat /\ hand[t] \in Nat /\ 0 \in Slot
      /\ slotq[0] \in Nat
  BY PlaceFacts, PoolNumbers DEF PoolInv, PoolType
<1>2. /\ pc[t] = "reset" /\ slot' = [slot EXCEPT ![t] = 0]
      /\ tail' = tail /\ head' = head /\ slotq' = slotq
      /\ UNCHANGED <<use, spans, consume, bump, need, then, maps>>
  BY DEF PopReset, At, Forget
<1>3. slot' \in [Thread -> Slot]
  BY <1>1, <1>2
<1>4. CASE hand[t] = 0
  <2>1. /\ (pc' = [pc EXCEPT ![t] = "pop"] \/ pc' = [pc EXCEPT ![t] = "map"])
        /\ UNCHANGED <<slotq, queue, hand>>
    BY <1>2, <1>4 DEF PopReset, Retry, Goto
  <2>2. pc'[t] \in {"pop", "map"} /\ pc' = [pc EXCEPT ![t] = pc'[t]]
    BY <1>1, <2>1
  <2>3. Elsewhere(t)
    BY <1>1, <1>2, <1>3, <2>2 DEF Elsewhere, Place, Popping
  <2>4. PlaceOf(t)'
    BY <1>1, <1>2, <1>4, <2>1, <2>2 DEF PlaceOf, Filling, Popping, Ringing
  <2> QED BY <2>1, <2>3, <2>4, StillStep
<1>5. CASE hand[t] # 0
  <2>1. /\ pc' = [pc EXCEPT ![t] = "refill"] /\ queue' = [queue EXCEPT ![t] = queue[t] + hand[t]]
        /\ hand' = [hand EXCEPT ![t] = 0]
    BY <1>5 DEF PopReset, Goto
  <2>2. pc'[t] = "refill" /\ hand'[t] = 0
    BY <1>1, <2>1 DEF PoolInv, PoolType
  <2>3. Elsewhere(t)
    BY <1>1, <1>2, <1>3, <2>1, <2>2 DEF Elsewhere, Place, Popping
  <2>4. PlaceOf(t)'
    BY <1>1, <1>2, <2>2 DEF PlaceOf, Filling, Popping, Ringing
  <2>5. PICK j \in Nat : j = queue[t] + hand[t]
    BY <1>1
  <2>6. Moved(t, 0, slotq[0], j, 0) /\ slotq[0] + j + 0 = slotq[0] + queue[t] + hand[t]
    BY <1>1, <1>2, <2>1, <2>5 DEF PoolInv, PoolType, Moved
  <2> QED BY <1>1, <2>3, <2>4, <2>6, MoveStep
<1> QED BY <1>4, <1>5

\* The head is loaded.
LEMMA LoadHeadStep == ASSUME PoolInv, NEW t \in Thread, LoadHead(t) PROVE PoolInv'
<1>1. /\ pc[t] \in Place /\ PlaceOf(t) /\ tail \in Nat /\ head \in Nat /\ slot \in [Thread -> Slot]
      /\ pc \in [Thread -> Place]
  BY PlaceFacts
<1>2. /\ pc[t] \in {"push", "prepend"} /\ tail' = tail /\ head' = head
      /\ UNCHANGED <<slotq, queue, hand>> /\ UNCHANGED <<use, spans, consume, bump, need, then, maps>>
  BY DEF LoadHead, At, localVars, remoteVars
<1>3. CASE hand[t] = 0
  <2>1. pc' = [pc EXCEPT ![t] = "pop"] /\ slot' = slot /\ pc[t] = "prepend"
    BY <1>1, <1>2, <1>3 DEF LoadHead, Goto, PlaceOf, Ringing
  <2>2. pc'[t] = "pop"
    BY <1>1, <2>1
  <2>3. Elsewhere(t)
    BY <1>1, <1>2, <2>1, <2>2 DEF Elsewhere, Place, Popping
  <2>4. PlaceOf(t)'
    BY <1>1, <1>2, <1>3, <2>1, <2>2 DEF PlaceOf, Filling, Popping, Ringing
  <2> QED BY <1>2, <2>3, <2>4, StillStep
<1>4. CASE hand[t] # 0
  <2>1. /\ slot' = [slot EXCEPT ![t] = head % K]
        /\ pc' = [pc EXCEPT ![t] = IF pc[t] = "push" THEN "pushLoad" ELSE "fill"]
    BY <1>4 DEF LoadHead, Goto
  <2>2. slot' \in [Thread -> Slot] /\ pc'[t] = (IF pc[t] = "push" THEN "pushLoad" ELSE "fill")
    BY <1>1, <2>1, PoolNumbers
  <2>3. Elsewhere(t)
    BY <1>1, <1>2, <2>1, <2>2 DEF Elsewhere, Place, Ringing, Filling
  <2>4. PlaceOf(t)'
    BY <1>1, <1>2, <2>2 DEF PlaceOf, Filling, Popping, Ringing
  <2> QED BY <1>2, <2>3, <2>4, StillStep
<1> QED BY <1>3, <1>4

\* A push looks at the counter of the slot, or counts its block.
LEMMA PushLoadStep == ASSUME PoolInv, NEW t \in Thread, PushLoad(t) \/ PushCount(t) PROVE PoolInv'
<1>1. /\ pc[t] \in Place /\ PlaceOf(t) /\ tail \in Nat /\ head \in Nat /\ slot \in [Thread -> Slot]
      /\ pc \in [Thread -> Place]
  BY PlaceFacts
<1>2. /\ pc[t] \in {"pushLoad", "pushCount"} /\ slot' = slot /\ tail' = tail /\ head' = head
      /\ \E w \in {"push", "pushCount", "pushLink"} : pc' = [pc EXCEPT ![t] = w]
      /\ UNCHANGED <<slotq, queue, hand>> /\ UNCHANGED <<use, spans, consume, bump, need, then, maps>>
  BY DEF PushLoad, PushCount, At, Goto, localVars, remoteVars
<1>3. pc'[t] \in {"push", "pushCount", "pushLink"} /\ pc' = [pc EXCEPT ![t] = pc'[t]]
  BY <1>1, <1>2
<1>4. Elsewhere(t)
  BY <1>1, <1>2, <1>3 DEF Elsewhere, Place, Ringing
<1>5. PlaceOf(t)'
  BY <1>1, <1>2, <1>3 DEF PlaceOf, Filling, Popping, Ringing
<1> QED BY <1>2, <1>4, <1>5, StillStep

\* A push links its block to the slot.
LEMMA PushLinkStep == ASSUME PoolInv, NEW t \in Thread, PushLink(t) PROVE PoolInv'
<1>1. /\ pc[t] \in Place /\ PlaceOf(t) /\ tail \in Nat /\ head \in Nat /\ slot \in [Thread -> Slot]
      /\ pc \in [Thread -> Place] /\ slot[t] \in Slot /\ slotq[slot[t]] \in Nat /\ queue[t] \in Nat
      /\ hand[t] \in Nat /\ then[t] \in {"idle", "refill", "prepend"} /\ need[t] \in Nat
  BY PlaceFacts
<1>2. /\ pc[t] = "pushLink" /\ pc' = [pc EXCEPT ![t] = IF n[t] + 1 = T THEN "publish" ELSE then[t]]
      /\ hand' = [hand EXCEPT ![t] = 0]
      /\ slotq' = [slotq EXCEPT ![slot[t]] = slotq[slot[t]] + hand[t]]
      /\ slot' = [slot EXCEPT ![t] = 0] /\ tail' = tail /\ head' = head /\ queue' = queue
      /\ UNCHANGED <<use, spans, consume, bump, need, then, maps>>
  BY DEF PushLink, At, Goto, Forget, localVars
<1>3. /\ pc'[t] \in {"publish", "idle", "refill"} /\ (pc'[t] # "publish" => pc'[t] = then[t])
      /\ pc' = [pc EXCEPT ![t] = pc'[t]]
      /\ hand'[t] = 0 /\ then[t] \in {"idle", "refill"}
  BY <1>1, <1>2 DEF PlaceOf, PoolInv, PoolType, Ringing
<1>4. slot' \in [Thread -> Slot]
  BY <1>1, <1>2, PoolNumbers
<1>5. Elsewhere(t)
  BY <1>1, <1>2, <1>3, <1>4 DEF Elsewhere, Place, Popping
<1>6. PlaceOf(t)'
  <2>1. need[t] = 0 <=> then[t] = "idle"
    BY <1>1, <1>2 DEF PlaceOf, Ringing
  <2> QED BY <1>1, <1>2, <1>3, <2>1 DEF PlaceOf, Filling, Popping, Ringing
<1>7. PICK i \in Nat : i = slotq[slot[t]] + hand[t]
  BY <1>1
<1>8. /\ Moved(t, slot[t], i, queue[t], 0)
      /\ i + queue[t] + 0 = slotq[slot[t]] + queue[t] + hand[t]
  BY <1>1, <1>2, <1>7 DEF PoolInv, PoolType, Moved
<1> QED BY <1>1, <1>5, <1>6, <1>8, MoveStep

\* What is left of the slot is claimed.
LEMMA FillStep == ASSUME PoolInv, NEW t \in Thread, Fill(t) PROVE PoolInv'
<1>1. /\ pc[t] \in Place /\ PlaceOf(t) /\ tail \in Nat /\ head \in Nat /\ slot \in [Thread -> Slot]
      /\ pc \in [Thread -> Place]
  BY PlaceFacts
<1>2. /\ pc[t] = "fill" /\ slot' = slot /\ tail' = tail /\ head' = head
      /\ \E w \in {"prepend", "splice"} : pc' = [pc EXCEPT ![t] = w]
      /\ UNCHANGED <<slotq, queue, hand>> /\ UNCHANGED <<use, spans, consume, bump, need, then, maps>>
  BY DEF Fill, At, Goto, localVars
<1>3. pc'[t] \in {"prepend", "splice"} /\ pc' = [pc EXCEPT ![t] = pc'[t]]
  BY <1>1, <1>2
<1>4. Elsewhere(t)
  BY <1>1, <1>2, <1>3 DEF Elsewhere, Place, Filling
<1>5. PlaceOf(t)'
  BY <1>1, <1>2, <1>3 DEF PlaceOf, Filling, Popping, Ringing
<1> QED BY <1>2, <1>4, <1>5, StillStep

\* Blocks are spliced into the slot, or the list is left.
LEMMA SpliceStep == ASSUME PoolInv, NEW t \in Thread, Splice(t) PROVE PoolInv'
<1>1. /\ pc[t] \in Place /\ PlaceOf(t) /\ tail \in Nat /\ head \in Nat /\ slot \in [Thread -> Slot]
      /\ pc \in [Thread -> Place] /\ slot[t] \in Slot /\ slotq[slot[t]] \in Nat /\ queue[t] \in Nat
      /\ hand[t] \in Nat
  BY PlaceFacts
<1>2. /\ pc[t] = "splice" /\ slot' = [slot EXCEPT ![t] = 0] /\ tail' = tail /\ head' = head
      /\ queue' = queue /\ UNCHANGED <<use, spans, consume, bump, need, then, maps>>
  BY DEF Splice, At, Forget, localVars
<1>3. slot' \in [Thread -> Slot]
  BY <1>1, <1>2, PoolNumbers
<1>4. CASE T - n[t] \in 1..hand[t]
  <2>1. PICK r \in 1..hand[t] : r = T - n[t]
    BY <1>4
  <2>2. /\ slotq' = [slotq EXCEPT ![slot[t]] = slotq[slot[t]] + r]
        /\ hand' = [hand EXCEPT ![t] = hand[t] - r] /\ pc' = [pc EXCEPT ![t] = "publish"]
    BY <1>4, <2>1 DEF Splice, Goto, Remaining
  <2>3. pc'[t] = "publish"
    BY <1>1, <2>2
  <2>4. Elsewhere(t)
    BY <1>1, <1>2, <1>3, <2>2, <2>3 DEF Elsewhere, Place
  <2>5. PlaceOf(t)'
    BY <1>1, <1>2, <2>3 DEF PlaceOf, Filling, Popping, Ringing
  <2>6. PICK i \in Nat, k \in Nat : i = slotq[slot[t]] + r /\ k = hand[t] - r
    BY <1>1
  <2>7. /\ Moved(t, slot[t], i, queue[t], k)
        /\ i + queue[t] + k = slotq[slot[t]] + queue[t] + hand[t]
    BY <1>1, <1>2, <2>2, <2>6 DEF PoolInv, PoolType, Moved
  <2> QED BY <1>1, <2>4, <2>5, <2>7, MoveStep
<1>5. CASE T - n[t] \notin 1..hand[t]
  <2>1. pc' = pc /\ UNCHANGED <<slotq, queue, hand>>
    BY <1>2, <1>5 DEF Splice
  <2>2. pc' = [pc EXCEPT ![t] = pc'[t]]
    BY <1>1, <2>1
  <2>3. Elsewhere(t)
    BY <1>1, <1>2, <1>3, <2>1, <2>2 DEF Elsewhere
  <2>4. PlaceOf(t)'
    BY <1>1, <1>2, <2>1 DEF PlaceOf
  <2> QED BY <2>1, <2>3, <2>4, StillStep
<1> QED BY <1>4, <1>5

\* The head is advanced.
LEMMA PublishStep == ASSUME PoolInv, NEW t \in Thread, Publish(t) PROVE PoolInv'
<1>1. /\ pc[t] \in Place /\ PlaceOf(t) /\ tail \in Nat /\ head \in Nat /\ slot \in [Thread -> Slot]
      /\ pc \in [Thread -> Place] /\ then[t] \in {"idle", "refill", "prepend"} /\ need[t] \in Nat
  BY PlaceFacts
<1>2. /\ pc[t] = "publish" /\ pc' = [pc EXCEPT ![t] = then[t]] /\ slot' = slot
      /\ head' = (head + 1) % Wrap /\ tail' \in {tail, (tail + 1) % Wrap}
      /\ UNCHANGED <<slotq, queue, hand>> /\ UNCHANGED <<use, spans, consume, bump, need, then, maps>>
  BY DEF Publish, At, Goto, localVars
<1>3. pc'[t] = then[t] /\ pc' = [pc EXCEPT ![t] = pc'[t]] /\ head' \in Nat /\ tail' \in Nat
  BY <1>1, <1>2, PoolNumbers
<1>4. Elsewhere(t)
  BY <1>1, <1>2, <1>3 DEF Elsewhere, Place, Popping, Filling
<1>5. PlaceOf(t)'
  <2>1. (need[t] = 0 <=> then[t] = "idle") /\ (then[t] # "prepend" => hand[t] = 0)
    BY <1>1, <1>2 DEF PlaceOf, Ringing
  <2> QED BY <1>1, <1>2, <1>3, <2>1 DEF PlaceOf, Filling, Popping, Ringing
<1> QED BY <1>2, <1>4, <1>5, StillStep

\* The remote source is asked.
LEMMA RefillStep == ASSUME PoolInv, NEW t \in Thread, Refill(t) PROVE PoolInv'
<1>1. /\ pc[t] \in Place /\ PlaceOf(t) /\ tail \in Nat /\ head \in Nat /\ slot \in [Thread -> Slot]
      /\ pc \in [Thread -> Place]
  BY PlaceFacts
<1>2. /\ pc[t] = "refill" /\ pc' = [pc EXCEPT ![t] = "pop"] /\ slot' = slot /\ tail' = tail /\ head' = head
      /\ UNCHANGED <<slotq, queue, hand>> /\ UNCHANGED <<use, spans, consume, bump, need, then, maps>>
  BY DEF Refill, At, Goto, localVars, remoteVars
<1>3. pc'[t] = "pop"
  BY <1>1, <1>2
<1>4. Elsewhere(t)
  BY <1>1, <1>2, <1>3 DEF Elsewhere, Place, Popping
<1>5. PlaceOf(t)'
  BY <1>1, <1>2, <1>3 DEF PlaceOf, Filling, Popping, Ringing
<1> QED BY <1>2, <1>4, <1>5, StillStep

\* Fresh blocks are mapped.
LEMMA MapStep == ASSUME PoolInv, NEW t \in Thread, Map(t) PROVE PoolInv'
<1>1. /\ PlaceOf(t) /\ pc \in [Thread -> Place] /\ hand[t] \in Nat /\ queue[t] \in Nat
      /\ 0 \in Slot /\ slotq[0] \in Nat /\ M \in Nat /\ MaxMaps \in Nat
  BY PlaceFacts, PoolNumbers DEF PoolInv, PoolType
<1>2. /\ pc[t] = "map" /\ maps < MaxMaps /\ maps' = maps + 1 /\ pc' = [pc EXCEPT ![t] = "prepend"]
      /\ hand' = [hand EXCEPT ![t] = M] /\ then' = [then EXCEPT ![t] = "prepend"]
      /\ slotq' = slotq /\ queue' = queue /\ head' = head /\ tail' = tail /\ slot' = slot
      /\ UNCHANGED <<use, spans, consume, bump, need>>
  BY DEF Map, At, Goto, localVars
<1>3. PoolType /\ PlaceInv /\ UseInv /\ BlocksConserved /\ UseType /\ maps \in 0..MaxMaps
  BY DEF PoolInv, UseInv, PoolType
<1>4. hand[t] = 0
  BY <1>1, <1>2 DEF PlaceOf
<1>5. Moved(t, 0, slotq[0], queue[t], M)
  BY <1>1, <1>2, <1>3 DEF PoolType, Moved
<1>6. /\ Stored \in Nat /\ hand' \in [Thread -> Nat]
      /\ Stored' = Stored - (slotq[0] + queue[t] + hand[t]) + (slotq[0] + queue[t] + M)
  BY <1>1, <1>3, <1>5, StoredMoves
<1>7. Stored' = Stored + M
  BY <1>1, <1>4, <1>6
<1>8. /\ pc'[t] = "prepend" /\ then'[t] = "prepend" /\ maps' \in 0..MaxMaps
      /\ pc' \in [Thread -> Place] /\ then' \in [Thread -> {"idle", "refill", "prepend"}]
      /\ \A u \in Thread \ {t} : pc'[u] = pc[u] /\ then'[u] = then[u] /\ hand'[u] = hand[u]
  BY <1>1, <1>2, <1>3 DEF PoolType, Place, Filling
<1>9. PoolType'
  BY <1>2, <1>3, <1>6, <1>8 DEF PoolType
<1>10. PlaceOf(t)'
  BY <1>1, <1>2, <1>8 DEF PlaceOf, Filling, Popping, Ringing
<1>11. PlaceInv'
  BY <1>2, <1>3, <1>8, <1>10, PlaceKept
<1>12. \A u \in Thread : pc'[u] = "gone" <=> pc[u] = "gone"
  BY <1>2, <1>8
<1>13. UseInv' /\ Cardinality(InUse)' = Cardinality(InUse)
  BY <1>2, <1>3, <1>12, UseKept
<1>14. BlocksConserved'
  <2>1. Held' = Held + M /\ Held \in Nat
    BY <1>1, <1>3, <1>6, <1>7, <1>13, InUseNumber DEF Held, Stored
  <2>2. M * maps' = M * maps + M /\ M * maps \in Nat
    BY <1>1, <1>2, <1>3
  <2> QED BY <1>1, <1>3, <1>12, <2>1, <2>2 DEF BlocksConserved
<1> QED BY <1>9, <1>11, <1>13, <1>14 DEF PoolInv

-----------------------------------------------------------------------------
(* The steps of the local source.                                            *)

\* There is always a name that no subrange has.
LEMMA NewIdIsNew == ASSUME UseType PROVE NewId \in Nat /\ \A s \in spans : s.id # NewId
<1>1. PICK c \in Nat : c = Cardinality(spans)
  BY FS_CardinalityType DEF UseType
<1>2. PICK I : I = {s.id : s \in spans}
  OBVIOUS
<1>3. IsFiniteSet(I) /\ Cardinality(I) <= c
  <2> DEFINE g == [s \in spans |-> s.id]
  <2>1. g \in Surjection(spans, I)
    BY <1>2 DEF Surjection
  <2> HIDE DEF g
  <2> QED BY <1>1, <2>1, FS_Surjection DEF UseType
<1>4. PICK J : J = 1..(c + 1) /\ Cardinality(J) = c + 1
  BY <1>1, FS_Interval
<1>5. \E i \in J : i \notin I
  <2> SUFFICES ASSUME J \subseteq I PROVE FALSE
    OBVIOUS
  <2>1. Cardinality(J) <= Cardinality(I) /\ Cardinality(I) \in Nat
    BY <1>3, FS_Subset, FS_CardinalityType
  <2> QED BY <1>1, <1>3, <1>4, <2>1
<1>6. \E i \in 1..(Cardinality(spans) + 1) : \A s \in spans : s.id # i
  BY <1>1, <1>2, <1>4, <1>5
<1>7. NewId \in 1..(Cardinality(spans) + 1) /\ \A s \in spans : s.id # NewId
  BY <1>6 DEF NewId
<1> QED BY <1>1, <1>7

\* The threads that allocate from a block are finitely many.
LEMMA ConsumersFinite == \A b : IsFiniteSet(Consumers(b)) /\ Cardinality(Consumers(b)) \in Nat
<1> TAKE b
<1>1. Consumers(b) \in SUBSET Thread
  BY DEF Consumers
<1> QED BY <1>1, PoolNumbers, FS_Subset, FS_CardinalityType

\* So are the subranges of a block.
LEMMA SubrangesFinite ==
    ASSUME UseType PROVE \A b : IsFiniteSet(Subranges(b)) /\ Cardinality(Subranges(b)) \in Nat
<1> TAKE b
<1>1. Subranges(b) \in SUBSET spans
  BY DEF Subranges
<1> QED BY <1>1, FS_Subset, FS_CardinalityType DEF UseType

\* Whoever uses a block is counted.
LEMMA Counted ==
    ASSUME UseInv
    PROVE  /\ \A t \in Thread, b \in Block : Consumes(t, b) => use[b] >= 1
           /\ \A s \in spans : s.block \in Block /\ use[s.block] >= 1
           /\ \A b \in Block : use[b] = 0 => Subranges(b) = {} /\ Consumers(b) = {}
<1>1. UseType /\ UseCountExact
  BY DEF UseInv
<1>2. \A b \in Block : /\ Cardinality(Subranges(b)) \in Nat /\ Cardinality(Consumers(b)) \in Nat
                       /\ use[b] = Cardinality(Subranges(b)) + Cardinality(Consumers(b))
                       /\ (Cardinality(Subranges(b)) = 0 => Subranges(b) = {})
                       /\ (Cardinality(Consumers(b)) = 0 => Consumers(b) = {})
  BY <1>1, ConsumersFinite, SubrangesFinite, FS_EmptySet DEF UseCountExact
<1>3. \A b \in Block : use[b] = 0 => Subranges(b) = {} /\ Consumers(b) = {}
  BY <1>2
<1>4. \A b \in Block : use[b] # 0 => use[b] >= 1
  BY <1>1 DEF UseType
<1>5. \A t \in Thread, b \in Block : Consumes(t, b) => use[b] # 0
  BY <1>3 DEF Consumers
<1>6. \A s \in spans : s.block \in Block /\ s \in Subranges(s.block)
  BY <1>1 DEF UseType, Span, Subranges
<1> QED BY <1>3, <1>4, <1>5, <1>6

\* One subrange more.
LEMMA SpanAdded ==
    ASSUME UseType, NEW r, r \notin spans, spans' = spans \union {r}
    PROVE  /\ IsFiniteSet(spans')
           /\ \A b : Cardinality(Subranges(b)') = Cardinality(Subranges(b)) + (IF r.block = b THEN 1 ELSE 0)
<1>1. IsFiniteSet(spans) /\ IsFiniteSet(spans')
  BY FS_AddElement DEF UseType
<1>2. ASSUME NEW b PROVE Cardinality(Subranges(b)') = Cardinality(Subranges(b)) + (IF r.block = b THEN 1 ELSE 0)
  <2>1. Cardinality(OfBlock(spans \union {r}, b)) = Cardinality(OfBlock(spans, b)) + (IF r.block = b THEN 1 ELSE 0)
    BY ONLY <1>1, r \notin spans, OneMore
  <2>2. Subranges(b) = OfBlock(spans, b) /\ Subranges(b)' = OfBlock(spans \union {r}, b)
    BY DEF Subranges, OfBlock
  <2> QED BY <2>1, <2>2
<1> QED BY <1>1, <1>2

\* One subrange less.
LEMMA SpanRemoved ==
    ASSUME UseType, NEW r \in spans, spans' = spans \ {r}
    PROVE  /\ IsFiniteSet(spans')
           /\ \A b : Cardinality(Subranges(b)') = Cardinality(Subranges(b)) - (IF r.block = b THEN 1 ELSE 0)
<1>1. PICK S : S = spans \ {r}
  OBVIOUS
<1>2. IsFiniteSet(S) /\ r \notin S /\ spans = S \union {r} /\ spans' = S
  BY <1>1, FS_RemoveElement DEF UseType
<1>3. ASSUME NEW b PROVE Cardinality(Subranges(b)') = Cardinality(Subranges(b)) - (IF r.block = b THEN 1 ELSE 0)
  <2>1. /\ Cardinality(OfBlock(S, b)) \in Nat
        /\ Cardinality(OfBlock(S \union {r}, b)) = Cardinality(OfBlock(S, b)) + (IF r.block = b THEN 1 ELSE 0)
    BY ONLY <1>2, OneMore
  <2>2. Subranges(b) = OfBlock(S \union {r}, b) /\ Subranges(b)' = OfBlock(S, b)
    BY <1>2 DEF Subranges, OfBlock
  <2>3. Cardinality(OfBlock(S, b)) = Cardinality(OfBlock(S \union {r}, b)) - (IF r.block = b THEN 1 ELSE 0)
    BY <2>1
  <2> QED BY <2>2, <2>3
<1> QED BY <1>2, <1>3

\* The blocks in use after the count of one has changed.
LEMMA InUseAfter ==
    ASSUME UseType, NEW b \in Block, NEW k \in Nat, use' = [use EXCEPT ![b] = k]
    PROVE  /\ Cardinality(InUse) \in Nat /\ use' \in [Block -> Nat]
           /\ Cardinality(InUse)' = Cardinality(InUse) - (IF use[b] > 0 THEN 1 ELSE 0) + (IF k > 0 THEN 1 ELSE 0)
<1>1. use \in [Block -> Nat]
  BY DEF UseType
<1>2. PICK f \in [Block -> Nat] : f = use
  BY <1>1
<1>3. PICK g : g = [f EXCEPT ![b] = k]
  OBVIOUS
<1>4. PICK A : A = {c \in Block : f[c] > 0}
  OBVIOUS
<1>5. PICK B : B = {c \in Block : g[c] > 0}
  OBVIOUS
<1>6. /\ Cardinality(A) \in Nat
      /\ Cardinality(B) = Cardinality(A) - (IF f[b] > 0 THEN 1 ELSE 0) + (IF k > 0 THEN 1 ELSE 0)
  BY <1>3, <1>4, <1>5, InUseChange
<1>7. InUse = A /\ InUse' = B /\ use' \in [Block -> Nat]
  BY <1>2, <1>3, <1>4, <1>5 DEF InUse
<1> QED BY <1>2, <1>6, <1>7

\* A thread gives up the block it consumes, if it has one.
LEMMA ConsumerLeft ==
    ASSUME NEW t \in Thread, need[t] = 0, pc[t] # "gone",
           \A c : ~Consumes(t, c)', consume' = consume,
           \A u \in Thread \ {t} : pc'[u] = pc[u] /\ need'[u] = need[u]
    PROVE  \A c : Cardinality(Consumers(c)') = Cardinality(Consumers(c)) - (IF consume[t] = c THEN 1 ELSE 0)
<1> SUFFICES ASSUME NEW c
             PROVE  Cardinality(Consumers(c)') = Cardinality(Consumers(c)) - (IF consume[t] = c THEN 1 ELSE 0)
  OBVIOUS
<1>1. \A u \in Thread \ {t} : Consumes(u, c)' <=> Consumes(u, c)
  BY DEF Consumes
<1>2. Consumes(t, c) <=> consume[t] = c
  BY DEF Consumes
<1>3. Consumers(c)' = Consumers(c) \ {t} /\ (t \in Consumers(c) <=> consume[t] = c)
  BY <1>1, <1>2 DEF Consumers
<1>4. PICK A : A = Consumers(c) /\ IsFiniteSet(A) /\ Cardinality(A) \in Nat
  BY ConsumersFinite
<1>5. Cardinality(A \ {t}) = IF t \in A THEN Cardinality(A) - 1 ELSE Cardinality(A)
  BY <1>4, FS_RemoveElement
<1> QED BY <1>3, <1>4, <1>5

\* A thread that has none takes one.
LEMMA ConsumerJoined ==
    ASSUME NEW t \in Thread, NEW b, \A c : ~Consumes(t, c), \A c : Consumes(t, c)' <=> c = b,
           \A u \in Thread \ {t} : pc'[u] = pc[u] /\ need'[u] = need[u] /\ consume'[u] = consume[u]
    PROVE  \A c : Cardinality(Consumers(c)') = Cardinality(Consumers(c)) + (IF b = c THEN 1 ELSE 0)
<1> SUFFICES ASSUME NEW c
             PROVE  Cardinality(Consumers(c)') = Cardinality(Consumers(c)) + (IF b = c THEN 1 ELSE 0)
  OBVIOUS
<1>1. \A u \in Thread \ {t} : Consumes(u, c)' <=> Consumes(u, c)
  BY DEF Consumes
<1>2. PICK A : A = Consumers(c) /\ IsFiniteSet(A) /\ Cardinality(A) \in Nat
  BY ConsumersFinite
<1>3. CASE b = c
  <2>1. Consumers(c)' = A \union {t} /\ t \notin A
    BY <1>1, <1>2, <1>3 DEF Consumers
  <2>2. Cardinality(A \union {t}) = Cardinality(A) + 1
    BY <1>2, <2>1, FS_AddElement
  <2> QED BY <1>2, <1>3, <2>1, <2>2
<1>4. CASE b # c
  <2>1. Consumers(c)' = A
    BY <1>1, <1>2, <1>4 DEF Consumers
  <2> QED BY <1>2, <1>4, <2>1
<1> QED BY <1>3, <1>4

\* A thread that neither takes nor gives up a block leaves the consumers.
LEMMA ConsumersKept ==
    ASSUME NEW t \in Thread, UNCHANGED <<need, consume>>, pc[t] # "gone", pc'[t] # "gone",
           \A u \in Thread \ {t} : pc'[u] = pc[u]
    PROVE  (\A u \in Thread : \A c : Consumes(u, c)' <=> Consumes(u, c)) /\ \A c : Consumers(c)' = Consumers(c)
<1>1. \A u \in Thread : \A c : Consumes(u, c)' <=> Consumes(u, c)
  BY DEF Consumes
<1> QED BY <1>1 DEF Consumers

\* Fewer subranges and consumers.
LEMMA Fewer ==
    ASSUME NameInv, ApartInv, spans' \subseteq spans, UNCHANGED <<consume, bump>>,
           \A u \in Thread : \A c : Consumes(u, c)' => Consumes(u, c)
    PROVE  NameInv' /\ ApartInv'
<1>1. NameInv'
  <2>1. \A s, u \in spans' : s.id = u.id => s = u
    BY DEF NameInv
  <2>2. \A t \in Thread : consume'[t] = NoBlock => bump'[t] = Units
    BY DEF NameInv
  <2>3. \A t, u \in Thread : consume'[t] = consume'[u] /\ consume'[t] # NoBlock
                              /\ Consumes(t, consume[t])' /\ Consumes(u, consume[t])' => t = u
    BY DEF NameInv
  <2> QED BY <2>1, <2>2, <2>3 DEF NameInv
<1>2. ApartInv'
  BY DEF ApartInv, Apart
<1> QED BY <1>1, <1>2

\* One subrange more, of the block a thread consumes from now on, behind the others of it.
LEMMA Further ==
    ASSUME ApartInv, UseType, NEW t \in Thread, NEW r \in Span, r \notin spans, spans' = spans \union {r},
           r.offset + r.len <= Units, bump' = [bump EXCEPT ![t] = r.offset + r.len],
           \A s \in spans : ~s.cut /\ s.block = r.block => s.offset + s.len <= r.offset,
           \A u \in Thread : \A c : Consumes(u, c)' => IF u = t THEN c = r.block ELSE c # r.block /\ Consumes(u, c)
    PROVE  ApartInv'
<1> SUFFICES ASSUME NEW s \in spans', ~s.cut
             PROVE  /\ s.offset + s.len <= Units
                    /\ \A u \in spans' \ {s} : u.block = s.block /\ ~u.cut => Apart(s, u)
                    /\ \A u \in Thread : Consumes(u, s.block)' => s.offset + s.len <= bump'[u]
  BY DEF ApartInv, Apart
<1>1. /\ r.offset \in Nat /\ r.len \in 1..Units /\ Units \in Nat
      /\ \A u \in Thread : bump'[u] = IF u = t THEN r.offset + r.len ELSE bump[u]
      /\ \A u \in spans : u.offset \in Nat /\ u.len \in Nat
  BY PoolNumbers DEF UseType, Span
<1>2. CASE s = r
  <2>1. \A u \in spans : u.block = s.block /\ ~u.cut => Apart(s, u)
    BY <1>2 DEF Apart
  <2> QED BY <1>1, <1>2, <2>1
<1>3. CASE s \in spans /\ s # r
  <2>1. /\ s.offset + s.len <= Units
        /\ \A u \in spans \ {s} : u.block = s.block /\ ~u.cut => Apart(s, u)
        /\ \A u \in Thread : Consumes(u, s.block) => s.offset + s.len <= bump[u]
    BY <1>3 DEF ApartInv
  <2>2. r.block = s.block => Apart(s, r)
    BY <1>3 DEF Apart
  <2>3. \A u \in Thread : Consumes(u, s.block)' => s.offset + s.len <= bump'[u]
    <3> SUFFICES ASSUME NEW u \in Thread, Consumes(u, s.block)' PROVE s.offset + s.len <= bump'[u]
      OBVIOUS
    <3>1. CASE u = t
      <4>1. s.block = r.block /\ s.offset + s.len <= r.offset /\ bump'[u] = r.offset + r.len
        BY <1>1, <1>3, <3>1
      <4> QED BY <1>1, <1>3, <4>1
    <3>2. CASE u # t
      BY <1>1, <2>1, <3>2
    <3> QED BY <3>1, <3>2
  <2> QED BY <1>3, <2>1, <2>2, <2>3
<1> QED BY <1>2, <1>3

\* A reference is given up: the block goes on being used, or to the local queue, or to a push.
LEMMA DropStored ==
    ASSUME PoolType, UseType, NEW t \in Thread, NEW b \in Block, use[b] >= 1, hand[t] = 0,
           NEW where \in {"idle", "refill"}, slotq' = slotq, DropReference(t, b, where)
    PROVE  /\ use' = [use EXCEPT ![b] = use[b] - 1] /\ use' \in [Block -> Nat]
           /\ queue' \in [Thread -> Nat] /\ hand' \in [Thread -> Nat]
           /\ pc' \in [Thread -> Place] /\ then' \in [Thread -> {"idle", "refill", "prepend"}]
           /\ \A u \in Thread \ {t} : pc'[u] = pc[u] /\ then'[u] = then[u] /\ hand'[u] = hand[u]
           /\ \/ pc'[t] = where /\ hand'[t] = 0
              \/ pc'[t] = "push" /\ then'[t] = where /\ hand'[t] = 1
           /\ Stored + Cardinality(InUse) \in Nat
           /\ Stored' + Cardinality(InUse)' = Stored + Cardinality(InUse)
<1>1. /\ slotq \in [Slot -> Nat] /\ queue \in [Thread -> Nat] /\ hand \in [Thread -> Nat]
      /\ pc \in [Thread -> Place] /\ then \in [Thread -> {"idle", "refill", "prepend"}]
      /\ use[b] \in Nat /\ 0 \in Slot
  BY PoolNumbers DEF PoolType, UseType
<1>2. use' = [use EXCEPT ![b] = use[b] - 1]
  BY DEF DropReference
<1>3. PICK k \in Nat : k = use[b] - 1
  BY <1>1
<1>4. /\ Cardinality(InUse) \in Nat /\ use' \in [Block -> Nat]
      /\ Cardinality(InUse)' = Cardinality(InUse) - (IF use[b] > 0 THEN 1 ELSE 0) + (IF k > 0 THEN 1 ELSE 0)
  BY <1>2, <1>3, InUseAfter
<1>5. PICK i \in Nat, j \in Nat : i = slotq[0] /\ j = queue[t]
  BY <1>1
<1>6. CASE use[b] # 1
  <2>1. pc' = [pc EXCEPT ![t] = where] /\ UNCHANGED <<queue, count, hand, then>>
    BY <1>6 DEF DropReference, LastReference, Goto
  <2>2. Moved(t, 0, i, j, 0)
    BY <1>1, <1>5, <2>1 DEF Moved
  <2>3. Stored \in Nat /\ Stored' = Stored - (slotq[0] + queue[t] + hand[t]) + (i + j + 0)
    BY <1>1, <2>2, StoredMoves
  <2>4. Stored' = Stored
    BY <1>1, <1>5, <2>3
  <2>5. Cardinality(InUse)' = Cardinality(InUse)
    BY <1>1, <1>3, <1>4, <1>6
  <2>6. pc' \in [Thread -> Place] /\ pc'[t] = where /\ \A u \in Thread \ {t} : pc'[u] = pc[u]
    BY <1>1, <2>1 DEF Place, Popping
  <2> QED BY <1>1, <1>2, <1>4, <2>1, <2>3, <2>4, <2>5, <2>6
<1>7. CASE use[b] = 1
  <2>1. Cardinality(InUse)' = Cardinality(InUse) - 1
    BY <1>1, <1>3, <1>4, <1>7
  <2>2. ReleaseBlock(t, where)
    BY <1>7 DEF DropReference, LastReference
  <2>3. CASE count[t] < T
    <3>1. /\ pc' = [pc EXCEPT ![t] = where] /\ UNCHANGED <<hand, then>>
          /\ queue' = [queue EXCEPT ![t] = queue[t] + 1]
      BY <2>2, <2>3 DEF ReleaseBlock, Goto
    <3>2. PICK l \in Nat : l = j + 1
      BY <1>5
    <3>3. Moved(t, 0, i, l, 0)
      BY <1>1, <1>5, <3>1, <3>2 DEF Moved
    <3>4. /\ Stored \in Nat /\ Stored' = Stored - (slotq[0] + queue[t] + hand[t]) + (i + l + 0)
          /\ queue' \in [Thread -> Nat] /\ hand' \in [Thread -> Nat]
      BY <1>1, <3>3, StoredMoves
    <3>5. Stored' = Stored + 1
      BY <1>1, <1>5, <3>2, <3>4
    <3>6. pc' \in [Thread -> Place] /\ pc'[t] = where /\ \A u \in Thread \ {t} : pc'[u] = pc[u]
      BY <1>1, <3>1 DEF Place, Popping
    <3> QED BY <1>1, <1>2, <1>4, <2>1, <3>1, <3>4, <3>5, <3>6
  <2>4. CASE ~(count[t] < T)
    <3>1. /\ pc' = [pc EXCEPT ![t] = "push"] /\ hand' = [hand EXCEPT ![t] = 1]
          /\ then' = [then EXCEPT ![t] = where] /\ queue' = queue
      BY <2>2, <2>4 DEF ReleaseBlock, Goto
    <3>2. Moved(t, 0, i, j, 1)
      BY <1>1, <1>5, <3>1 DEF Moved
    <3>3. /\ Stored \in Nat /\ Stored' = Stored - (slotq[0] + queue[t] + hand[t]) + (i + j + 1)
          /\ queue' \in [Thread -> Nat] /\ hand' \in [Thread -> Nat]
      BY <1>1, <3>2, StoredMoves
    <3>4. Stored' = Stored + 1
      BY <1>1, <1>5, <3>3
    <3>5. /\ pc' \in [Thread -> Place] /\ pc'[t] = "push" /\ hand'[t] = 1 /\ then'[t] = where
          /\ then' \in [Thread -> {"idle", "refill", "prepend"}]
          /\ \A u \in Thread \ {t} : pc'[u] = pc[u] /\ hand'[u] = hand[u] /\ then'[u] = then[u]
      BY <1>1, <3>1 DEF Place, Ringing
    <3> QED BY <1>1, <1>2, <1>4, <2>1, <3>3, <3>4, <3>5
  <2> QED BY <2>3, <2>4
<1> QED BY <1>6, <1>7

\* The stored blocks are a number.
LEMMA StoredNumber == PoolType => Stored \in Nat
<1> HAVE PoolType
<1>1. /\ slotq \in [Slot -> Nat] /\ queue \in [Thread -> Nat] /\ hand \in [Thread -> Nat]
      /\ IsFiniteSet(Slot) /\ IsFiniteSet(Thread)
  BY PoolNumbers DEF PoolType
<1>2. Sum(slotq, Slot) \in Nat /\ Sum(queue, Thread) \in Nat /\ Sum(hand, Thread) \in Nat
  BY ONLY <1>1, SumType
<1> QED BY <1>2 DEF Stored

\* A subrange more in the block in use.
LEMMA AcquireStep ==
    ASSUME PoolInv, NEW t \in Thread, NEW len \in Sizes, Acquire(t, len) PROVE PoolInv'
<1>1. /\ PoolType /\ PlaceInv /\ UseInv /\ BlocksConserved
      /\ UseType /\ NameInv /\ UseCountExact /\ ApartInv
  BY DEF PoolInv, UseInv
<1>2. /\ pc[t] = "idle" /\ bump[t] + len <= Units
      /\ use' = [use EXCEPT ![consume[t]] = use[consume[t]] + 1]
      /\ spans' = spans \union {Subrange(consume[t], bump[t], len)}
      /\ bump' = [bump EXCEPT ![t] = bump[t] + len]
      /\ UNCHANGED <<head, tail, slotq, maps, queue, consume, pc, then, need, hand, slot>>
  BY DEF Acquire, At, Shared, Bumped, remoteVars, threadVars
<1>3. len \in 1..Units /\ Units \in Nat /\ bump[t] \in Nat /\ consume[t] \in Block \union {NoBlock}
  BY <1>1, PoolNumbers DEF UseType
<1>4. PICK b \in Block : b = consume[t]
  BY <1>1, <1>2, <1>3 DEF NameInv
<1>5. need[t] = 0 /\ Consumes(t, b)
  BY <1>1, <1>2, <1>4 DEF PlaceInv, PlaceOf, Consumes
<1>6. use[b] \in Nat /\ use[b] >= 1
  BY <1>1, <1>4, <1>5, Counted DEF UseType
<1>7. PICK r : r = Subrange(b, bump[t], len)
  OBVIOUS
<1>8. /\ r \in Span /\ r.id = NewId /\ r.block = b /\ r.offset = bump[t] /\ r.len = len /\ ~r.cut
      /\ \A s \in spans : s.id # r.id
  <2>1. NewId \in Nat /\ \A s \in spans : s.id # NewId
    BY <1>1, NewIdIsNew
  <2> QED BY <1>3, <1>7, <2>1 DEF Subrange, Span
<1>9. r \notin spans /\ spans' = spans \union {r}
  BY <1>2, <1>4, <1>7, <1>8
<1>10. /\ IsFiniteSet(spans')
       /\ \A c : Cardinality(Subranges(c)') = Cardinality(Subranges(c)) + (IF r.block = c THEN 1 ELSE 0)
  BY <1>1, <1>9, SpanAdded
<1>11. (\A u \in Thread : \A c : Consumes(u, c)' <=> Consumes(u, c)) /\ \A c : Consumers(c)' = Consumers(c)
  BY <1>2 DEF Consumes, Consumers
<1>12. PICK k \in Nat : k = use[b] + 1
  BY <1>6
<1>13. /\ Cardinality(InUse) \in Nat /\ use' \in [Block -> Nat]
       /\ Cardinality(InUse)' = Cardinality(InUse) - (IF use[b] > 0 THEN 1 ELSE 0) + (IF k > 0 THEN 1 ELSE 0)
  <2>1. use' = [use EXCEPT ![b] = k]
    BY <1>2, <1>4, <1>12
  <2> QED BY <1>1, <2>1, InUseAfter
<1>14. Cardinality(InUse)' = Cardinality(InUse)
  BY <1>6, <1>12, <1>13
<1>15. UseType'
  <2>1. bump' \in [Thread -> 0..Units]
    BY <1>1, <1>2, <1>3 DEF UseType
  <2>2. spans' \subseteq Span
    BY <1>1, <1>8, <1>9 DEF UseType
  <2> QED BY <1>1, <1>2, <1>10, <1>13, <2>1, <2>2 DEF UseType
<1>16. NameInv'
  <2>1. \A s, u \in spans' : s.id = u.id => s = u
    BY <1>1, <1>8, <1>9 DEF NameInv
  <2>2. \A u \in Thread : consume'[u] = NoBlock => bump'[u] = Units
    <3>1. b # NoBlock
      BY <1>4, PoolNumbers
    <3> QED BY <1>1, <1>2, <1>4, <3>1 DEF NameInv, UseType
  <2>3. \A v, u \in Thread : consume'[v] = consume'[u] /\ consume'[v] # NoBlock
                              /\ Consumes(v, consume[v])' /\ Consumes(u, consume[v])' => v = u
    BY <1>1, <1>2, <1>11 DEF NameInv
  <2> QED BY <2>1, <2>2, <2>3 DEF NameInv
<1>17. UseCountExact'
  <2> SUFFICES ASSUME NEW c \in Block
               PROVE  use'[c] = Cardinality(Subranges(c)') + Cardinality(Consumers(c)')
    BY DEF UseCountExact
  <2>1. use[c] = Cardinality(Subranges(c)) + Cardinality(Consumers(c))
    BY <1>1 DEF UseCountExact
  <2>2. Cardinality(Subranges(c)) \in Nat /\ Cardinality(Consumers(c)) \in Nat
    BY <1>1, SubrangesFinite, ConsumersFinite
  <2>3. use'[c] = use[c] + (IF b = c THEN 1 ELSE 0)
    BY <1>1, <1>2, <1>4, <2>1, <2>2 DEF UseType
  <2> QED BY <1>8, <1>10, <1>11, <2>1, <2>2, <2>3
<1>18. ApartInv'
  <2>1. \A s \in spans : ~s.cut /\ s.block = r.block => s.offset + s.len <= r.offset
    BY <1>1, <1>5, <1>8 DEF ApartInv
  <2>2. \A u \in Thread : \A c : Consumes(u, c)' => IF u = t THEN c = r.block ELSE c # r.block /\ Consumes(u, c)
    <3> SUFFICES ASSUME NEW u \in Thread, NEW c, Consumes(u, c)
                 PROVE  IF u = t THEN c = b ELSE c # b
      BY <1>8, <1>11
    <3>1. consume[u] = c
      BY DEF Consumes
    <3>2. \A v, w \in Thread : consume[v] = consume[w] /\ consume[v] # NoBlock
                              /\ Consumes(v, consume[v]) /\ Consumes(w, consume[v]) => v = w
      BY <1>1 DEF NameInv
    <3>3. b # NoBlock
      BY <1>4, PoolNumbers
    <3> QED BY <1>4, <1>5, <3>1, <3>2, <3>3
  <2>3. r.offset + r.len <= Units /\ bump' = [bump EXCEPT ![t] = r.offset + r.len]
    BY <1>2, <1>8
  <2> QED BY <1>1, <1>8, <1>9, <2>1, <2>2, <2>3, Further
<1>19. PoolType' /\ PlaceInv'
  BY <1>1, <1>2 DEF PoolType, PlaceInv, PlaceOf
<1>20. BlocksConserved'
  <2>1. Stored' = Stored
    BY <1>2 DEF Stored
  <2>2. Held' = Held
    BY <1>14, <2>1 DEF Held, Stored
  <2> QED BY <1>1, <1>2, <2>2 DEF BlocksConserved
<1> QED BY <1>15, <1>16, <1>17, <1>18, <1>19, <1>20 DEF PoolInv, UseInv

\* The block in use has no room, and is given up.
LEMMA AcquireMissStep ==
    ASSUME PoolInv, NEW t \in Thread, NEW len \in Sizes, AcquireMiss(t, len) PROVE PoolInv'
<1>1. /\ PoolType /\ PlaceInv /\ UseInv /\ BlocksConserved
      /\ UseType /\ NameInv /\ UseCountExact /\ ApartInv
  BY DEF PoolInv, UseInv
<1>2. /\ pc[t] = "idle" /\ need' = [need EXCEPT ![t] = len]
      /\ UNCHANGED <<head, tail, slotq, maps, spans, consume, bump, slot>>
  BY DEF AcquireMiss, At, remoteVars
<1>3. /\ len \in 1..Units /\ Units \in Nat /\ consume[t] \in Block \union {NoBlock}
      /\ need \in [Thread -> 0..Units]
  BY <1>1, PoolNumbers DEF UseType
<1>4. /\ need'[t] = len /\ len # 0 /\ need' \in [Thread -> 0..Units]
      /\ \A u \in Thread \ {t} : need'[u] = need[u]
  BY <1>2, <1>3
<1>5. need[t] = 0 /\ hand[t] = 0
  BY <1>1, <1>2 DEF PlaceInv, PlaceOf
<1>6. /\ use' \in [Block -> Nat]
      /\ \A c \in Block : use'[c] = use[c] - (IF consume[t] = c THEN 1 ELSE 0)
      /\ queue' \in [Thread -> Nat] /\ hand' \in [Thread -> Nat]
      /\ pc' \in [Thread -> Place] /\ then' \in [Thread -> {"idle", "refill", "prepend"}]
      /\ \A u \in Thread \ {t} : pc'[u] = pc[u] /\ then'[u] = then[u] /\ hand'[u] = hand[u]
      /\ \/ pc'[t] = "refill" /\ hand'[t] = 0
         \/ pc'[t] = "push" /\ then'[t] = "refill" /\ hand'[t] = 1
      /\ Stored + Cardinality(InUse) \in Nat
      /\ Stored' + Cardinality(InUse)' = Stored + Cardinality(InUse)
  <2>1. CASE consume[t] = NoBlock
    <3>1. pc' = [pc EXCEPT ![t] = "refill"] /\ UNCHANGED <<use, queue, hand, then>>
      BY <2>1 DEF AcquireMiss, Goto
    <3>2. Stored' = Stored /\ InUse' = InUse
      BY <1>2, <3>1 DEF Stored, InUse
    <3>3. Stored \in Nat /\ Cardinality(InUse) \in Nat
      BY <1>1, StoredNumber, InUseNumber
    <3>4. \A c \in Block : use[c] \in Nat /\ consume[t] # c
      BY <1>1, <2>1, PoolNumbers DEF UseType
    <3>5. pc' \in [Thread -> Place] /\ pc'[t] = "refill" /\ \A u \in Thread \ {t} : pc'[u] = pc[u]
      BY <1>1, <3>1 DEF PoolType, Place, Popping
    <3> QED BY <1>1, <1>5, <3>1, <3>2, <3>3, <3>4, <3>5 DEF PoolType, UseType
  <2>2. CASE consume[t] # NoBlock
    <3>1. PICK b \in Block : b = consume[t]
      BY <1>3, <2>2
    <3>2. Consumes(t, b)
      BY <1>2, <1>5, <3>1 DEF Consumes
    <3>3. use[b] >= 1
      BY <1>1, <3>1, <3>2, Counted
    <3>4. DropReference(t, b, "refill")
      BY <2>2, <3>1 DEF AcquireMiss
    <3>5. /\ use' = [use EXCEPT ![b] = use[b] - 1] /\ use' \in [Block -> Nat]
          /\ queue' \in [Thread -> Nat] /\ hand' \in [Thread -> Nat]
          /\ pc' \in [Thread -> Place] /\ then' \in [Thread -> {"idle", "refill", "prepend"}]
          /\ \A u \in Thread \ {t} : pc'[u] = pc[u] /\ then'[u] = then[u] /\ hand'[u] = hand[u]
          /\ \/ pc'[t] = "refill" /\ hand'[t] = 0
             \/ pc'[t] = "push" /\ then'[t] = "refill" /\ hand'[t] = 1
          /\ Stored + Cardinality(InUse) \in Nat
          /\ Stored' + Cardinality(InUse)' = Stored + Cardinality(InUse)
      BY <1>1, <1>2, <1>5, <3>3, <3>4, DropStored
    <3>6. \A c \in Block : use'[c] = use[c] - (IF consume[t] = c THEN 1 ELSE 0)
      BY <1>1, <3>1, <3>5 DEF UseType
    <3> QED BY <3>5, <3>6
  <2> QED BY <2>1, <2>2
<1>7. PlaceOf(t)'
  BY <1>4, <1>6 DEF PlaceOf, Filling, Popping, Ringing
<1>8. PlaceInv'
  BY <1>1, <1>4, <1>6, <1>7, PlaceKept
<1>9. PoolType'
  BY <1>1, <1>2, <1>6 DEF PoolType
<1>10. UseType'
  BY <1>1, <1>2, <1>4, <1>6 DEF UseType
<1>11. \A c : ~Consumes(t, c)'
  BY <1>4 DEF Consumes
<1>12. \A u \in Thread : \A c : Consumes(u, c)' => Consumes(u, c)
  BY <1>2, <1>4, <1>6, <1>11 DEF Consumes
<1>13. NameInv' /\ ApartInv'
  BY <1>1, <1>2, <1>12, Fewer
<1>14. UseCountExact'
  <2>1. \A c : Cardinality(Consumers(c)') = Cardinality(Consumers(c)) - (IF consume[t] = c THEN 1 ELSE 0)
    BY <1>2, <1>4, <1>5, <1>6, <1>11, ConsumerLeft
  <2>2. \A c : Subranges(c)' = Subranges(c)
    BY <1>2 DEF Subranges
  <2> SUFFICES ASSUME NEW c \in Block
               PROVE  use'[c] = Cardinality(Subranges(c)') + Cardinality(Consumers(c)')
    BY DEF UseCountExact
  <2>3. use[c] = Cardinality(Subranges(c)) + Cardinality(Consumers(c))
    BY <1>1 DEF UseCountExact
  <2>4. Cardinality(Subranges(c)) \in Nat /\ Cardinality(Consumers(c)) \in Nat
    BY <1>1, SubrangesFinite, ConsumersFinite
  <2>5. use'[c] = use[c] - (IF consume[t] = c THEN 1 ELSE 0)
    BY <1>6
  <2> QED BY <2>1, <2>2, <2>3, <2>4, <2>5
<1>15. BlocksConserved'
  <2>1. PICK h \in Nat : h = Stored + Cardinality(InUse)
    BY <1>6
  <2>2. \A u \in Thread : pc'[u] = "gone" <=> pc[u] = "gone"
    BY <1>2, <1>6
  <2> QED BY <1>1, <1>2, <1>6, <2>1, <2>2, BlocksKept
<1> QED BY <1>8, <1>9, <1>10, <1>13, <1>14, <1>15 DEF PoolInv, UseInv

\* While blocks are stored, some block has no name in use.
LEMMA FreshIsFree ==
    ASSUME PoolInv, NEW t \in Thread, queue[t] > 0 PROVE Fresh \in Block /\ use[Fresh] = 0
<1>1. PoolType /\ UseType /\ BlocksConserved
  BY DEF PoolInv, UseInv
<1>2. /\ maps \in Nat /\ maps <= MaxMaps /\ MaxMaps \in Nat /\ M \in Nat /\ queue[t] \in Nat /\ use \in [Block -> Nat]
      /\ IsFiniteSet(Block) /\ Cardinality(Block) = M * MaxMaps
  BY <1>1, PoolNumbers DEF PoolType, UseType
<1>3. Stored \in Nat /\ queue[t] <= Stored
  <2>1. PICK i \in Nat, j \in Nat : i = Sum(slotq, Slot) /\ j = Sum(hand, Thread)
    <3>1. /\ slotq \in [Slot -> Nat] /\ hand \in [Thread -> Nat]
          /\ IsFiniteSet(Slot) /\ IsFiniteSet(Thread)
      BY <1>1, PoolNumbers DEF PoolType
    <3> QED BY ONLY <3>1, SumType
  <2>2. Sum(queue, Thread) \in Nat /\ queue[t] <= Sum(queue, Thread)
    <3>1. t \in Thread /\ queue \in [Thread -> Nat] /\ IsFiniteSet(Thread) /\ \A y \in Thread \ {t} : queue[y] = queue[y]
      BY <1>1, PoolNumbers DEF PoolType
    <3> QED BY ONLY <3>1, SumChange
  <2> QED BY <1>2, <2>1, <2>2 DEF Stored
<1>4. Cardinality(InUse) \in Nat /\ IsFiniteSet(InUse) /\ Held = Stored + Cardinality(InUse)
  BY <1>1, InUseNumber DEF Held, Stored
<1>5. M * maps \in Nat /\ M * maps <= M * MaxMaps
  BY <1>2
<1>6. Held <= M * maps
  BY <1>1, <1>3, <1>4, <1>5 DEF BlocksConserved
<1>7. Cardinality(InUse) < Cardinality(Block)
  BY <1>2, <1>3, <1>4, <1>5, <1>6
<1>8. InUse # Block
  BY <1>4, <1>7
<1>9. \E b \in Block : use[b] = 0
  BY <1>2, <1>8 DEF InUse
<1> QED BY <1>9 DEF Fresh

\* The front of the local queue becomes the block in use.
LEMMA AcquireFreshStep == ASSUME PoolInv, NEW t \in Thread, AcquireFresh(t) PROVE PoolInv'
<1>1. /\ PoolType /\ PlaceInv /\ UseInv /\ BlocksConserved
      /\ UseType /\ NameInv /\ UseCountExact /\ ApartInv
  BY DEF PoolInv, UseInv
<1>2. /\ pc[t] = "refill" /\ queue[t] > 0 /\ queue' = [queue EXCEPT ![t] = queue[t] - 1]
      /\ consume' = [consume EXCEPT ![t] = Fresh] /\ use' = [use EXCEPT ![Fresh] = use[Fresh] + 1 + 1]
      /\ spans' = spans \union {Subrange(Fresh, 0, need[t])}
      /\ bump' = [bump EXCEPT ![t] = 0 + need[t]] /\ need' = [need EXCEPT ![t] = 0]
      /\ pc' = [pc EXCEPT ![t] = "idle"]
      /\ UNCHANGED <<head, tail, slotq, maps, then, hand, slot>>
  BY DEF AcquireFresh, At, Shared, Bumped, Goto, remoteVars
<1>3. PICK b \in Block : b = Fresh /\ use[b] = 0
  BY <1>1, <1>2, FreshIsFree
<1>4. /\ pc \in [Thread -> Place] /\ queue \in [Thread -> Nat] /\ slotq \in [Slot -> Nat]
      /\ hand \in [Thread -> Nat] /\ use \in [Block -> Nat] /\ consume \in [Thread -> Block \union {NoBlock}]
      /\ bump \in [Thread -> 0..Units] /\ need \in [Thread -> 0..Units] /\ Units \in Nat /\ 0 \in Slot
  BY <1>1, PoolNumbers DEF PoolType, UseType
<1>5. need[t] \in 1..Units /\ hand[t] = 0
  BY <1>1, <1>2, <1>4 DEF PlaceInv, PlaceOf, Popping
<1>6. /\ pc' \in [Thread -> Place] /\ pc'[t] = "idle" /\ consume'[t] = b /\ bump'[t] = need[t] /\ need'[t] = 0
      /\ consume' \in [Thread -> Block \union {NoBlock}]
      /\ bump' \in [Thread -> 0..Units] /\ need' \in [Thread -> 0..Units]
      /\ \A u \in Thread \ {t} : pc'[u] = pc[u] /\ consume'[u] = consume[u] /\ bump'[u] = bump[u] /\ need'[u] = need[u]
  BY <1>2, <1>3, <1>4, <1>5 DEF Place
<1>7. PICK r : r = Subrange(b, 0, need[t])
  OBVIOUS
<1>8. /\ r \in Span /\ r.id = NewId /\ r.block = b /\ r.offset = 0 /\ r.len = need[t] /\ ~r.cut
      /\ \A s \in spans : s.id # r.id
  <2>1. NewId \in Nat /\ \A s \in spans : s.id # NewId
    BY <1>1, NewIdIsNew
  <2> QED BY <1>5, <1>7, <2>1 DEF Subrange, Span
<1>9. r \notin spans /\ spans' = spans \union {r}
  BY <1>2, <1>3, <1>7, <1>8
<1>10. /\ IsFiniteSet(spans')
       /\ \A c : Cardinality(Subranges(c)') = Cardinality(Subranges(c)) + (IF r.block = c THEN 1 ELSE 0)
  BY <1>1, <1>9, SpanAdded
<1>11. \A c : ~Consumes(t, c)
  BY <1>5 DEF Consumes
<1>12. \A c : Consumes(t, c)' <=> c = b
  BY <1>6 DEF Consumes
<1>13. \A c : Cardinality(Consumers(c)') = Cardinality(Consumers(c)) + (IF b = c THEN 1 ELSE 0)
  BY <1>6, <1>11, <1>12, ConsumerJoined
<1>14. Subranges(b) = {} /\ Consumers(b) = {}
  BY <1>1, <1>3, Counted
<1>15. \A u \in Thread : \A c : Consumes(u, c)' => IF u = t THEN c = b ELSE c # b /\ Consumes(u, c)
  <2> SUFFICES ASSUME NEW u \in Thread, NEW c, Consumes(u, c)' PROVE IF u = t THEN c = b ELSE c # b /\ Consumes(u, c)
    OBVIOUS
  <2>1. u # t => Consumes(u, c)
    BY <1>6 DEF Consumes
  <2>2. u # t => c # b
    BY <1>14, <2>1 DEF Consumers
  <2> QED BY <1>12, <2>1, <2>2
<1>16. /\ Cardinality(InUse) \in Nat /\ use' \in [Block -> Nat] /\ Cardinality(InUse)' = Cardinality(InUse) + 1
  <2>1. use' = [use EXCEPT ![b] = 2]
    BY <1>2, <1>3
  <2>2. /\ Cardinality(InUse) \in Nat /\ use' \in [Block -> Nat]
        /\ Cardinality(InUse)' = Cardinality(InUse) - (IF use[b] > 0 THEN 1 ELSE 0) + (IF 2 > 0 THEN 1 ELSE 0)
    BY <1>1, <2>1, InUseAfter
  <2> QED BY <1>3, <2>2
<1>17. UseType'
  <2>1. spans' \subseteq Span
    BY <1>1, <1>8, <1>9 DEF UseType
  <2> QED BY <1>6, <1>10, <1>16, <2>1 DEF UseType
<1>18. NameInv'
  <2>1. \A s, u \in spans' : s.id = u.id => s = u
    BY <1>1, <1>8, <1>9 DEF NameInv
  <2>2. \A u \in Thread : consume'[u] = NoBlock => bump'[u] = Units
    BY <1>1, <1>3, <1>6, PoolNumbers DEF NameInv
  <2>3. \A v, u \in Thread : consume'[v] = consume'[u] /\ consume'[v] # NoBlock
                              /\ Consumes(v, consume[v])' /\ Consumes(u, consume[v])' => v = u
    <3> SUFFICES ASSUME NEW v \in Thread, NEW u \in Thread, NEW c, c = consume'[v], c = consume'[u], c # NoBlock,
                        Consumes(v, c)', Consumes(u, c)'
                 PROVE  v = u
      BY DEF Consumes
    <3>1. \A x, w \in Thread : consume[x] = consume[w] /\ consume[x] # NoBlock
                              /\ Consumes(x, consume[x]) /\ Consumes(w, consume[x]) => x = w
      BY <1>1 DEF NameInv
    <3>2. CASE v = t \/ u = t
      BY <1>15, <3>2
    <3>3. CASE v # t /\ u # t
      <4>1. Consumes(v, c) /\ Consumes(u, c) /\ consume[v] = c /\ consume[u] = c
        BY <1>6, <1>15, <3>3
      <4> QED BY <3>1, <4>1
    <3> QED BY <3>2, <3>3
  <2> QED BY <2>1, <2>2, <2>3 DEF NameInv
<1>19. UseCountExact'
  <2> SUFFICES ASSUME NEW c \in Block
               PROVE  use'[c] = Cardinality(Subranges(c)') + Cardinality(Consumers(c)')
    BY DEF UseCountExact
  <2>1. use[c] = Cardinality(Subranges(c)) + Cardinality(Consumers(c))
    BY <1>1 DEF UseCountExact
  <2>2. Cardinality(Subranges(c)) \in Nat /\ Cardinality(Consumers(c)) \in Nat
    BY <1>1, SubrangesFinite, ConsumersFinite
  <2>3. use'[c] = use[c] + (IF b = c THEN 2 ELSE 0)
    BY <1>2, <1>3, <1>4
  <2> QED BY <1>8, <1>10, <1>13, <2>1, <2>2, <2>3
<1>20. ApartInv'
  <2>1. \A s \in spans : s.block # r.block
    BY <1>8, <1>14 DEF Subranges
  <2>2. r.offset + r.len <= Units /\ bump' = [bump EXCEPT ![t] = r.offset + r.len]
    BY <1>2, <1>4, <1>5, <1>8
  <2>3. \A u \in Thread : \A c : Consumes(u, c)' => IF u = t THEN c = r.block ELSE c # r.block /\ Consumes(u, c)
    BY <1>8, <1>15
  <2> QED BY <1>1, <1>8, <1>9, <2>1, <2>2, <2>3, Further
<1>21. PICK i \in Nat, j \in Nat : i = slotq[0] /\ j = queue[t] - 1
  BY <1>2, <1>4
<1>22. Moved(t, 0, i, j, 0)
  BY <1>2, <1>4, <1>5, <1>21 DEF Moved
<1>23. /\ Stored \in Nat /\ queue' \in [Thread -> Nat]
       /\ Stored' = Stored - (slotq[0] + queue[t] + hand[t]) + (i + j + 0)
  BY <1>1, <1>4, <1>22, StoredMoves
<1>24. PoolType'
  BY <1>1, <1>2, <1>6, <1>23 DEF PoolType
<1>25. PlaceInv'
  <2>1. PlaceOf(t)'
    BY <1>2, <1>5, <1>6 DEF PlaceOf, Filling, Popping, Ringing
  <2> QED BY <1>1, <1>2, <1>6, <2>1, PlaceKept
<1>26. BlocksConserved'
  <2>1. PICK h \in Nat : h = Stored + Cardinality(InUse)
    BY <1>16, <1>23
  <2>2. Stored' + Cardinality(InUse)' = h
    BY <1>4, <1>5, <1>16, <1>21, <1>23, <2>1
  <2>3. \A u \in Thread : pc'[u] = "gone" <=> pc[u] = "gone"
    BY <1>2, <1>6
  <2> QED BY <1>1, <1>2, <2>1, <2>2, <2>3, BlocksKept
<1> QED BY <1>17, <1>18, <1>19, <1>20, <1>24, <1>25, <1>26 DEF PoolInv, UseInv

\* A subrange is released.
LEMMA ReleaseStep ==
    ASSUME PoolInv, NEW t \in Thread, NEW s \in spans, Release(t, s) PROVE PoolInv'
<1>1. /\ PoolType /\ PlaceInv /\ UseInv /\ BlocksConserved
      /\ UseType /\ NameInv /\ UseCountExact /\ ApartInv
  BY DEF PoolInv, UseInv
<1>2. /\ pc[t] = "idle" /\ spans' = spans \ {s} /\ DropReference(t, s.block, "idle")
      /\ UNCHANGED <<head, tail, slotq, maps, consume, bump, need, slot>>
  BY DEF Release, At, remoteVars
<1>3. PICK b \in Block : b = s.block /\ use[b] >= 1
  BY <1>1, Counted
<1>4. need[t] = 0 /\ hand[t] = 0
  BY <1>1, <1>2 DEF PlaceInv, PlaceOf
<1>5. /\ use' = [use EXCEPT ![b] = use[b] - 1] /\ use' \in [Block -> Nat]
      /\ queue' \in [Thread -> Nat] /\ hand' \in [Thread -> Nat]
      /\ pc' \in [Thread -> Place] /\ then' \in [Thread -> {"idle", "refill", "prepend"}]
      /\ \A u \in Thread \ {t} : pc'[u] = pc[u] /\ then'[u] = then[u] /\ hand'[u] = hand[u]
      /\ \/ pc'[t] = "idle" /\ hand'[t] = 0
         \/ pc'[t] = "push" /\ then'[t] = "idle" /\ hand'[t] = 1
      /\ Stored + Cardinality(InUse) \in Nat
      /\ Stored' + Cardinality(InUse)' = Stored + Cardinality(InUse)
  <2>1. DropReference(t, b, "idle")
    BY <1>2, <1>3
  <2> QED BY <1>1, <1>2, <1>3, <1>4, <2>1, DropStored
<1>6. PlaceInv'
  <2>1. PlaceOf(t)'
    BY <1>2, <1>4, <1>5 DEF PlaceOf, Filling, Popping, Ringing
  <2> QED BY <1>1, <1>2, <1>5, <2>1, PlaceKept
<1>7. PoolType'
  BY <1>1, <1>2, <1>5 DEF PoolType
<1>8. /\ IsFiniteSet(spans')
      /\ \A c : Cardinality(Subranges(c)') = Cardinality(Subranges(c)) - (IF s.block = c THEN 1 ELSE 0)
  BY <1>1, <1>2, SpanRemoved
<1>9. UseType'
  BY <1>1, <1>2, <1>5, <1>8 DEF UseType
<1>10. (\A u \in Thread : \A c : Consumes(u, c)' <=> Consumes(u, c)) /\ \A c : Consumers(c)' = Consumers(c)
  BY <1>2, <1>5, ConsumersKept
<1>11. NameInv' /\ ApartInv'
  BY <1>1, <1>2, <1>10, Fewer
<1>12. UseCountExact'
  <2> SUFFICES ASSUME NEW c \in Block
               PROVE  use'[c] = Cardinality(Subranges(c)') + Cardinality(Consumers(c)')
    BY DEF UseCountExact
  <2>1. use[c] = Cardinality(Subranges(c)) + Cardinality(Consumers(c))
    BY <1>1 DEF UseCountExact
  <2>2. Cardinality(Subranges(c)) \in Nat /\ Cardinality(Consumers(c)) \in Nat
    BY <1>1, SubrangesFinite, ConsumersFinite
  <2>3. use'[c] = use[c] - (IF b = c THEN 1 ELSE 0)
    BY <1>1, <1>5, <2>1, <2>2 DEF UseType
  <2> QED BY <1>3, <1>8, <1>10, <2>1, <2>2, <2>3
<1>13. BlocksConserved'
  <2>1. PICK h \in Nat : h = Stored + Cardinality(InUse)
    BY <1>5
  <2>2. \A u \in Thread : pc'[u] = "gone" <=> pc[u] = "gone"
    BY <1>2, <1>5
  <2> QED BY <1>1, <1>2, <1>5, <2>1, <2>2, BlocksKept
<1> QED BY <1>6, <1>7, <1>9, <1>11, <1>12, <1>13 DEF PoolInv, UseInv

\* A thread ends: it gives up the block in use, and takes its queue along.
LEMMA ExitStep == ASSUME PoolInv, NEW t \in Thread, Exit(t) PROVE PoolInv'
<1>1. /\ PoolType /\ PlaceInv /\ UseInv /\ BlocksConserved
      /\ UseType /\ NameInv /\ UseCountExact /\ ApartInv
  BY DEF PoolInv, UseInv
<1>2. /\ pc[t] = "idle" /\ pc' = [pc EXCEPT ![t] = "gone"] /\ queue' = [queue EXCEPT ![t] = 0]
      /\ use' = IF consume[t] = NoBlock THEN use ELSE [use EXCEPT ![consume[t]] = use[consume[t]] - 1]
      /\ UNCHANGED <<head, tail, slotq, maps, spans, consume, bump, then, need, hand, slot>>
  BY DEF Exit, At, Goto, remoteVars
<1>3. /\ pc \in [Thread -> Place] /\ queue \in [Thread -> Nat] /\ slotq \in [Slot -> Nat]
      /\ hand \in [Thread -> Nat] /\ use \in [Block -> Nat] /\ consume[t] \in Block \union {NoBlock} /\ 0 \in Slot
  BY <1>1, PoolNumbers DEF PoolType, UseType
<1>4. need[t] = 0 /\ hand[t] = 0
  BY <1>1, <1>2 DEF PlaceInv, PlaceOf
<1>5. pc' \in [Thread -> Place] /\ pc'[t] = "gone" /\ \A u \in Thread \ {t} : pc'[u] = pc[u]
  BY <1>2, <1>3 DEF Place
<1>6. /\ use' \in [Block -> Nat] /\ Cardinality(InUse) \in Nat
      /\ Cardinality(InUse)' \in Nat /\ Cardinality(InUse)' <= Cardinality(InUse)
      /\ \A c \in Block : use'[c] = use[c] - (IF consume[t] = c THEN 1 ELSE 0)
  <2>1. CASE consume[t] = NoBlock
    <3>1. use' = use /\ InUse' = InUse
      BY <1>2, <2>1 DEF InUse
    <3>2. \A c \in Block : use[c] \in Nat /\ consume[t] # c
      BY <1>3, <2>1, PoolNumbers
    <3>3. Cardinality(InUse) \in Nat
      BY <1>1, InUseNumber
    <3> QED BY <1>3, <3>1, <3>2, <3>3
  <2>2. CASE consume[t] # NoBlock
    <3>1. PICK b \in Block : b = consume[t]
      BY <1>3, <2>2
    <3>2. Consumes(t, b)
      BY <1>2, <1>4, <3>1 DEF Consumes
    <3>3. use[b] >= 1 /\ use[b] \in Nat
      BY <1>1, <1>3, <3>1, <3>2, Counted
    <3>4. PICK k \in Nat : k = use[b] - 1
      BY <3>3
    <3>5. use' = [use EXCEPT ![b] = k]
      BY <1>2, <2>2, <3>1, <3>4
    <3>6. /\ Cardinality(InUse) \in Nat /\ use' \in [Block -> Nat]
          /\ Cardinality(InUse)' = Cardinality(InUse) - (IF use[b] > 0 THEN 1 ELSE 0) + (IF k > 0 THEN 1 ELSE 0)
      BY <1>1, <3>5, InUseAfter
    <3>7. Cardinality(InUse)' = Cardinality(InUse) - (IF k > 0 THEN 0 ELSE 1)
      BY <3>3, <3>6
    <3>8. Cardinality(InUse) >= 1
      <4>1. b \in InUse /\ IsFiniteSet(InUse)
        BY <1>1, <3>3, InUseNumber DEF InUse
      <4>2. Cardinality(InUse) # 0
        BY <4>1, FS_EmptySet
      <4> QED BY <3>6, <4>2
    <3>9. \A c \in Block : use'[c] = use[c] - (IF consume[t] = c THEN 1 ELSE 0)
      BY <1>3, <3>1, <3>4, <3>5
    <3> QED BY <3>4, <3>6, <3>7, <3>8, <3>9
  <2> QED BY <2>1, <2>2
<1>7. PICK i \in Nat : i = slotq[0]
  BY <1>3
<1>8. Moved(t, 0, i, 0, 0)
  BY <1>2, <1>3, <1>4, <1>7 DEF Moved
<1>9. /\ Stored \in Nat /\ queue' \in [Thread -> Nat] /\ queue[t] \in Nat
      /\ Stored' = Stored - (slotq[0] + queue[t] + hand[t]) + (i + 0 + 0)
  BY <1>1, <1>3, <1>8, StoredMoves
<1>10. Stored' <= Stored /\ Stored' \in Int
  BY <1>3, <1>4, <1>7, <1>9
<1>11. BlocksConserved'
  <2>1. Held = Stored + Cardinality(InUse) /\ Held' = Stored' + Cardinality(InUse)'
    BY DEF Held, Stored
  <2>2. M * maps \in Nat
    BY <1>1, PoolNumbers DEF PoolType
  <2>3. Held <= M * maps
    BY <1>1, <1>6, <1>9, <2>1, <2>2 DEF BlocksConserved
  <2>4. Held' <= M * maps
    BY <1>6, <1>9, <1>10, <2>1, <2>2, <2>3
  <2> QED BY <1>2, <1>5, <2>4 DEF BlocksConserved
<1>12. PoolType'
  BY <1>1, <1>2, <1>5, <1>9 DEF PoolType
<1>13. PlaceInv'
  <2>1. PlaceOf(t)'
    BY <1>2, <1>4, <1>5 DEF PlaceOf, Filling, Popping, Ringing
  <2> QED BY <1>1, <1>2, <1>5, <2>1, PlaceKept
<1>14. UseType'
  BY <1>1, <1>2, <1>6 DEF UseType
<1>15. (\A c : ~Consumes(t, c)') /\ \A u \in Thread : \A c : Consumes(u, c)' => Consumes(u, c)
  BY <1>2, <1>5 DEF Consumes
<1>16. NameInv' /\ ApartInv'
  BY <1>1, <1>2, <1>15, Fewer
<1>17. UseCountExact'
  <2>1. \A c : Cardinality(Consumers(c)') = Cardinality(Consumers(c)) - (IF consume[t] = c THEN 1 ELSE 0)
    BY <1>2, <1>4, <1>5, <1>15, ConsumerLeft
  <2>2. \A c : Subranges(c)' = Subranges(c)
    BY <1>2 DEF Subranges
  <2> SUFFICES ASSUME NEW c \in Block
               PROVE  use'[c] = Cardinality(Subranges(c)') + Cardinality(Consumers(c)')
    BY DEF UseCountExact
  <2>3. use[c] = Cardinality(Subranges(c)) + Cardinality(Consumers(c))
    BY <1>1 DEF UseCountExact
  <2>4. Cardinality(Subranges(c)) \in Nat /\ Cardinality(Consumers(c)) \in Nat
    BY <1>1, SubrangesFinite, ConsumersFinite
  <2>5. use'[c] = use[c] - (IF consume[t] = c THEN 1 ELSE 0)
    BY <1>6
  <2> QED BY <2>1, <2>2, <2>3, <2>4, <2>5
<1> QED BY <1>11, <1>12, <1>13, <1>14, <1>16, <1>17 DEF PoolInv, UseInv

\* A subrange is split: a new one has its beginning.
LEMMA SplicePrefixStep ==
    ASSUME PoolInv, NEW s \in spans, NEW len \in 1..Units, SplicePrefix(s, len) PROVE PoolInv'
<1>1. /\ PoolType /\ PlaceInv /\ UseInv /\ BlocksConserved
      /\ UseType /\ NameInv /\ UseCountExact /\ ApartInv
  BY DEF PoolInv, UseInv
<1>2. /\ ~s.cut /\ len <= s.len /\ use' = [use EXCEPT ![s.block] = use[s.block] + 1]
      /\ spans' = (spans \ {s}) \union {Subrange(s.block, s.offset, len),
                                        [s EXCEPT !.offset = s.offset + len, !.cut = TRUE]}
      /\ UNCHANGED <<head, tail, slotq, maps, queue, consume, bump, pc, then, need, hand, slot>>
  BY DEF SplicePrefix, Shared, remoteVars, localVars, threadVars
<1>3. PICK b \in Block : b = s.block /\ use[b] >= 1
  BY <1>1, Counted
<1>4. /\ s \in Span /\ s.id \in Nat /\ s.offset \in Nat /\ s.len \in 1..Units /\ Units \in Nat /\ use[b] \in Nat
      /\ IsFiniteSet(spans) /\ spans \subseteq Span
  BY <1>1, <1>3, PoolNumbers DEF UseType, Span
<1>5. PICK p : p = Subrange(b, s.offset, len)
  OBVIOUS
<1>6. PICK r : r = [s EXCEPT !.offset = s.offset + len, !.cut = TRUE]
  OBVIOUS
<1>7. /\ p \in Span /\ p.id = NewId /\ p.block = b /\ p.offset = s.offset /\ p.len = len /\ ~p.cut
      /\ \A u \in spans : u.id # p.id
  <2>1. NewId \in Nat /\ \A u \in spans : u.id # NewId
    BY <1>1, NewIdIsNew
  <2> QED BY <1>3, <1>4, <1>5, <2>1 DEF Subrange, Span
<1>8. r \in Span /\ r.id = s.id /\ r.block = b /\ r.cut
  <2>1. /\ r.id = s.id /\ r.block = s.block /\ r.cut = TRUE /\ r.offset = s.offset + len /\ r.len = s.len
        /\ r = [id |-> s.id, block |-> s.block, offset |-> s.offset + len, len |-> s.len, cut |-> TRUE]
    BY <1>4, <1>6 DEF Span
  <2>2. s.offset + len \in Nat
    BY <1>4
  <2> QED BY <1>3, <1>4, <2>1, <2>2 DEF Span
<1>9. PICK S : S = spans \ {s}
  OBVIOUS
<1>10. PICK R : R = S \union {r}
  OBVIOUS
<1>11. /\ IsFiniteSet(S) /\ s \notin S /\ spans = S \union {s} /\ spans' = R \union {p}
       /\ \A u \in S : u \in spans /\ u # s /\ u.id # s.id
  <2>1. IsFiniteSet(S)
    BY <1>4, <1>9, FS_RemoveElement
  <2>2. spans' = S \union {p, r}
    BY <1>2, <1>3, <1>5, <1>6, <1>9
  <2>3. \A u \in S : u \in spans /\ u # s /\ u.id # s.id
    BY <1>1, <1>9 DEF NameInv
  <2> QED BY <1>9, <1>10, <2>1, <2>2, <2>3
<1>12. r \notin S /\ p \notin R
  BY <1>7, <1>8, <1>10, <1>11
<1>13. ASSUME NEW c
       PROVE  Cardinality(Subranges(c)') = Cardinality(Subranges(c)) + (IF b = c THEN 1 ELSE 0)
  <2>1. /\ Cardinality(OfBlock(S, c)) \in Nat
        /\ Cardinality(OfBlock(S \union {s}, c)) = Cardinality(OfBlock(S, c)) + (IF s.block = c THEN 1 ELSE 0)
    BY ONLY <1>11, OneMore
  <2>2. /\ IsFiniteSet(S \union {r})
        /\ Cardinality(OfBlock(S \union {r}, c)) = Cardinality(OfBlock(S, c)) + (IF r.block = c THEN 1 ELSE 0)
    BY ONLY <1>11, <1>12, OneMore
  <2>3. Cardinality(OfBlock(R \union {p}, c)) = Cardinality(OfBlock(R, c)) + (IF p.block = c THEN 1 ELSE 0)
    BY ONLY <1>10, <1>12, <2>2, OneMore
  <2>4. Subranges(c) = OfBlock(S \union {s}, c) /\ Subranges(c)' = OfBlock(R \union {p}, c)
    BY <1>11 DEF Subranges, OfBlock
  <2>5. PICK x \in Nat : x = Cardinality(OfBlock(S, c))
    BY <2>1
  <2>6. /\ Cardinality(Subranges(c)) = x + (IF b = c THEN 1 ELSE 0)
        /\ Cardinality(Subranges(c)') = x + (IF b = c THEN 1 ELSE 0) + (IF b = c THEN 1 ELSE 0)
    BY ONLY <1>3, <1>7, <1>8, <1>10, <2>1, <2>2, <2>3, <2>4, <2>5
  <2> QED BY ONLY <2>5, <2>6
<1>14. IsFiniteSet(spans') /\ spans' \subseteq Span
  <2>1. IsFiniteSet(R)
    BY <1>10, <1>11, FS_AddElement
  <2>2. IsFiniteSet(R \union {p})
    BY <2>1, FS_AddElement
  <2> QED BY <1>4, <1>7, <1>8, <1>10, <1>11, <2>2
<1>15. (\A u \in Thread : \A c : Consumes(u, c)' <=> Consumes(u, c)) /\ \A c : Consumers(c)' = Consumers(c)
  BY <1>2 DEF Consumes, Consumers
<1>16. PICK k \in Nat : k = use[b] + 1
  BY <1>4
<1>17. use' \in [Block -> Nat] /\ Cardinality(InUse)' = Cardinality(InUse)
  <2>1. use' = [use EXCEPT ![b] = k]
    BY <1>2, <1>3, <1>16
  <2>2. /\ Cardinality(InUse) \in Nat /\ use' \in [Block -> Nat]
        /\ Cardinality(InUse)' = Cardinality(InUse) - (IF use[b] > 0 THEN 1 ELSE 0) + (IF k > 0 THEN 1 ELSE 0)
    BY <1>1, <2>1, InUseAfter
  <2> QED BY <1>3, <1>4, <1>16, <2>2
<1>18. UseType'
  BY <1>1, <1>2, <1>14, <1>17 DEF UseType
<1>19. NameInv'
  <2>1. \A x, u \in spans' : x.id = u.id => x = u
    <3>1. \A x, u \in S : x.id = u.id => x = u
      BY <1>1, <1>11 DEF NameInv
    <3>2. \A u \in S : u.id # r.id /\ u.id # p.id
      BY <1>7, <1>8, <1>11
    <3>3. r.id # p.id
      BY <1>7, <1>8
    <3> QED BY ONLY <1>10, <1>11, <3>1, <3>2, <3>3
  <2>2. \A u \in Thread : consume'[u] = NoBlock => bump'[u] = Units
    BY <1>1, <1>2 DEF NameInv
  <2>3. \A v, u \in Thread : consume'[v] = consume'[u] /\ consume'[v] # NoBlock
                              /\ Consumes(v, consume[v])' /\ Consumes(u, consume[v])' => v = u
    BY <1>1, <1>2, <1>15 DEF NameInv
  <2> QED BY <1>2, <2>1, <2>2, <2>3 DEF NameInv
<1>20. UseCountExact'
  <2> SUFFICES ASSUME NEW c \in Block
               PROVE  use'[c] = Cardinality(Subranges(c)') + Cardinality(Consumers(c)')
    BY DEF UseCountExact
  <2>1. use[c] = Cardinality(Subranges(c)) + Cardinality(Consumers(c))
    BY <1>1 DEF UseCountExact
  <2>2. Cardinality(Subranges(c)) \in Nat /\ Cardinality(Consumers(c)) \in Nat
    BY <1>1, SubrangesFinite, ConsumersFinite
  <2>3. use'[c] = use[c] + (IF b = c THEN 1 ELSE 0)
    BY <1>1, <1>2, <1>3, <2>1, <2>2 DEF UseType
  <2> QED BY <1>13, <1>15, <2>1, <2>2, <2>3
<1>21. ApartInv'
  <2>1. /\ s.offset + s.len <= Units
        /\ \A u \in spans \ {s} : u.block = s.block /\ ~u.cut => Apart(s, u)
        /\ \A t \in Thread : Consumes(t, s.block) => s.offset + s.len <= bump[t]
    BY <1>1, <1>2 DEF ApartInv
  <2>2. \A u \in S : u.block = b /\ ~u.cut => Apart(p, u) /\ Apart(u, p)
    <3> SUFFICES ASSUME NEW u \in S, u.block = b, ~u.cut PROVE Apart(p, u) /\ Apart(u, p)
      OBVIOUS
    <3>1. Apart(s, u)
      BY <1>3, <1>11, <2>1
    <3>2. u.offset \in Nat /\ u.len \in Nat
      BY <1>4, <1>11 DEF Span
    <3> QED BY <1>2, <1>4, <1>7, <3>1, <3>2 DEF Apart
  <2>3. \A u \in Thread : bump[u] \in Nat
    BY <1>1, <1>4 DEF UseType
  <2>4. p.offset + p.len <= Units /\ \A u \in Thread : Consumes(u, b) => p.offset + p.len <= bump[u]
    BY <1>2, <1>3, <1>4, <1>7, <2>1, <2>3
  <2> SUFFICES ASSUME NEW x \in spans', ~x.cut
               PROVE  /\ x.offset + x.len <= Units
                      /\ \A u \in spans' \ {x} : u.block = x.block /\ ~u.cut => Apart(x, u)
                      /\ \A u \in Thread : Consumes(u, x.block)' => x.offset + x.len <= bump'[u]
    BY DEF ApartInv, Apart
  <2>5. CASE x = p
    BY <1>2, <1>7, <1>8, <1>10, <1>11, <1>15, <2>2, <2>4, <2>5
  <2>6. CASE x \in S
    <3>1. /\ x.offset + x.len <= Units
          /\ \A u \in spans \ {x} : u.block = x.block /\ ~u.cut => Apart(x, u)
          /\ \A t \in Thread : Consumes(t, x.block) => x.offset + x.len <= bump[t]
      BY <1>1, <1>11, <2>6 DEF ApartInv
    <3> QED BY <1>2, <1>7, <1>8, <1>10, <1>11, <1>15, <2>2, <2>6, <3>1
  <2> QED BY <1>8, <1>10, <1>11, <2>5, <2>6
<1>22. PoolType' /\ PlaceInv'
  BY <1>1, <1>2 DEF PoolType, PlaceInv, PlaceOf
<1>23. BlocksConserved'
  <2>1. Held' = Held
    BY <1>2, <1>17 DEF Held
  <2> QED BY <1>1, <1>2, <2>1 DEF BlocksConserved
<1> QED BY <1>18, <1>19, <1>20, <1>21, <1>22, <1>23 DEF PoolInv, UseInv

-----------------------------------------------------------------------------
(* The theorems.                                                             *)

\* Before the first call there is no block.
LEMMA PoolInit == Init => PoolInv
<1> HAVE Init
<1>1. /\ head = 0 /\ tail = 0 /\ maps = 0 /\ spans = {}
      /\ slotq = [s \in Slot |-> 0] /\ use = [b \in Block |-> 0]
      /\ queue = [t \in Thread |-> 0] /\ consume = [t \in Thread |-> NoBlock]
      /\ bump = [t \in Thread |-> Units] /\ pc = [t \in Thread |-> "idle"]
      /\ then = [t \in Thread |-> "idle"] /\ need = [t \in Thread |-> 0]
      /\ hand = [t \in Thread |-> 0] /\ slot = [t \in Thread |-> 0]
  BY DEF Init
<1>2. 0 \in Slot /\ MaxMaps \in Nat /\ Units \in Nat /\ M \in Nat
  BY PoolNumbers
<1>3. PoolType
  BY <1>1, <1>2 DEF PoolType, Place
<1>4. PlaceInv
  BY <1>1 DEF PlaceInv, PlaceOf, Ringing, Filling, Popping
<1>5. UseType
  BY <1>1, <1>2, FS_EmptySet DEF UseType
<1>6. NameInv
  BY <1>1 DEF NameInv
<1>7. UseCountExact
  <2>1. \A b \in Block : Subranges(b) = {} /\ Consumers(b) = {} /\ use[b] = 0
    BY <1>1, PoolNumbers DEF Subranges, Consumers, Consumes
  <2> QED BY <2>1, FS_EmptySet DEF UseCountExact
<1>8. ApartInv
  BY <1>1 DEF ApartInv
<1>9. BlocksConserved
  <2>1. Sum(slotq, Slot) = 0 /\ Sum(queue, Thread) = 0 /\ Sum(hand, Thread) = 0
    <3>1. /\ slotq \in [Slot -> Nat] /\ \A s \in Slot : slotq[s] = 0
          /\ queue \in [Thread -> Nat] /\ \A t \in Thread : queue[t] = 0
          /\ hand \in [Thread -> Nat] /\ \A t \in Thread : hand[t] = 0
      BY <1>1
    <3> QED BY ONLY <3>1, SumZero
  <2>2. Cardinality(InUse) = 0
    <3>1. InUse = {}
      BY <1>1 DEF InUse
    <3> QED BY <3>1, FS_EmptySet
  <2>3. Held = 0 /\ M * maps = 0
    BY <1>1, <1>2, <2>1, <2>2 DEF Held
  <2> QED BY <2>3 DEF BlocksConserved
<1> QED BY <1>3, <1>4, <1>5, <1>6, <1>7, <1>8, <1>9 DEF PoolInv, UseInv

\* Every step keeps the invariant.
LEMMA PoolStep == PoolInv /\ [Next]_vars => PoolInv'
<1> SUFFICES ASSUME PoolInv, [Next]_vars PROVE PoolInv'
  OBVIOUS
<1>1. CASE UNCHANGED vars
  BY <1>1 DEF vars, remoteVars, localVars, threadVars, PoolInv, PoolType, PlaceInv, PlaceOf, UseInv, UseType,
              NameInv, UseCountExact, ApartInv, Apart, BlocksConserved, Held, InUse, Consumes, Consumers, Subranges
<1>2. ASSUME NEW t \in Thread, ThreadStep(t) PROVE PoolInv'
  BY <1>2, TryPopStep, TryPopEmptyStep, PopTakeStep, PopResetStep, MapStep, LoadHeadStep, PushLoadStep,
     PushLinkStep, FillStep, SpliceStep, PublishStep, RefillStep, AcquireFreshStep, ExitStep DEF ThreadStep
<1>3. ASSUME NEW t \in Thread, NEW len \in Sizes, Acquire(t, len) \/ AcquireMiss(t, len) PROVE PoolInv'
  BY <1>3, AcquireStep, AcquireMissStep
<1>4. ASSUME NEW t \in Thread, NEW s \in spans, Release(t, s) PROVE PoolInv'
  BY <1>4, ReleaseStep
<1>5. ASSUME NEW s \in spans, NEW len \in 1..Units, SplicePrefix(s, len) PROVE PoolInv'
  BY <1>5, SplicePrefixStep
<1> QED BY <1>1, <1>2, <1>3, <1>4, <1>5 DEF Next

\* The inductive invariant of the pool holds, whatever the threads, the ring and
\* the sizes are: the places of the threads, the names of blocks and subranges,
\* the reference counts, the bytes of the subranges and the number of blocks.
THEOREM PoolInvHolds == Spec => []PoolInv
<1>1. Init => PoolInv
  BY PoolInit
<1>2. PoolInv /\ [Next]_vars => PoolInv'
  BY PoolStep
<1> QED BY <1>1, <1>2, PTL DEF Spec

\* No block is lost and none is in two places, whatever the order in which any
\* number of threads push, prepend and pop, stale heads and torn batches included.
THEOREM BlocksConservedHolds == Spec => []BlocksConserved
<1>1. PoolInv => BlocksConserved
  BY DEF PoolInv
<1> QED BY <1>1, PoolInvHolds, PTL

\* Subranges that are apart share no byte.
LEMMA BytesApart == PoolInv => Disjoint
<1> SUFFICES ASSUME PoolInv, NEW s \in spans, ~s.cut
             PROVE  /\ s.offset + s.len <= Units
                    /\ \A u \in spans \ {s} : u.block = s.block /\ ~u.cut => Bytes(s) \intersect Bytes(u) = {}
                    /\ \A t \in Thread : Consumes(t, s.block) => s.offset + s.len <= bump[t]
  BY DEF Disjoint
<1>1. UseType /\ ApartInv
  BY DEF PoolInv, UseInv
<1>2. \A u \in spans : u.offset \in Nat /\ u.len \in Nat
  BY <1>1, PoolNumbers DEF UseType, Span
<1>3. /\ s.offset + s.len <= Units
      /\ \A u \in spans \ {s} : u.block = s.block /\ ~u.cut => Apart(s, u)
      /\ \A t \in Thread : Consumes(t, s.block) => s.offset + s.len <= bump[t]
  BY <1>1 DEF ApartInv
<1>4. ASSUME NEW u \in spans, Apart(s, u) PROVE Bytes(s) \intersect Bytes(u) = {}
  BY <1>2, <1>4 DEF Apart, Bytes
<1> QED BY <1>3, <1>4

\* A subrange keeps its memory to itself while it lives: the reference count of
\* its block is exact, and no other subrange and no thread that allocates reaches
\* into its bytes.
THEOREM SubrangesSafeHolds == Spec => []SubrangesSafe
<1>1. PoolInv => SubrangesSafe
  BY BytesApart DEF SubrangesSafe, PoolInv, UseInv
<1> QED BY <1>1, PoolInvHolds, PTL
=============================================================================
