-------------------------- MODULE AtomicQueueProofs --------------------------
(***************************************************************************)
(* Every node of an atomic queue and of the threads' private queues is in  *)
(* one list at most, whatever the interleaving, and every operation acts   *)
(* at one instant: AtomicQueue implements TaskLists, for every number of   *)
(* threads and nodes.  The invariant names a sequence for every list that  *)
(* links spell in memory, and says that these sequences share no node.     *)
(***************************************************************************)
EXTENDS AtomicQueue, SequenceFacts

AtomicType ==
    /\ head \in Pointer /\ next \in [Node -> Pointer] /\ loose \in SUBSET Node
    /\ q \in [Thread -> Queue] /\ batch \in [Thread -> Queue]
    /\ pc \in [Thread -> {"idle", "link", "cas", "reset", "reverse", "walk"}]
    /\ old \in [Thread -> Pointer] /\ list \in [Thread -> Pointer]
    /\ how \in [Thread -> Take]

\* The lists there are: the shared one and, of every thread, its private list,
\* the part of a taken list that is still to be reversed, and the list it
\* pushes or has built.
AtShared == <<"shared", NULL>>
AtMine(t) == <<"mine", t>>
AtList(t) == <<"list", t>>
AtBatch(t) == <<"batch", t>>
Place == {AtShared} \union ({"mine", "list", "batch"} \X Thread)

\* following the links of m from h, one meets the nodes of s and then e
Path(m, h, s, e) ==
    /\ h = IF s = << >> THEN e ELSE s[1]
    /\ \A i \in 1 .. Len(s) : m[s[i]] = IF i = Len(s) THEN e ELSE s[i + 1]

Final(s) == IF s = << >> THEN NULL ELSE s[Len(s)]

\* no two lists share a node
Apart(W) ==
    /\ \A p \in Place : IsInjective(W[p])
    /\ \A p, r \in Place : p # r => Range(W[p]) \intersect Range(W[r]) = {}

\* the nodes that are in none are the loose ones
Covers(W, free) == \A n \in Node : n \in free <=> \A p \in Place : n \notin Range(W[p])

\* what a thread knows of the lists M (its own), L (to be reversed) and B
Knows(m, a, c, o, b, l, M, L, B) ==
    /\ Path(m, a.head, M, NULL) /\ a.tail = Final(M)
    /\ c # "reverse" => L = << >>
    /\ c \in {"idle", "reset"} => B = << >>
    /\ c \in {"link", "cas"} =>
           /\ B # << >> /\ b.tail = Final(B)
           /\ Path(m, b.head, B, m[b.tail])
    /\ c = "cas" => m[b.tail] = o
    /\ c = "reverse" =>
           /\ Path(m, l, L, NULL) /\ Path(m, b.head, B, NULL)
           /\ b.tail = IF B = << >> THEN l ELSE Final(B)
    /\ c = "walk" =>
           /\ Path(m, b.head, B, NULL)
           /\ b.tail \in Range(B) \/ (B = << >> /\ b.tail = NULL)

Held(W) ==
    /\ Apart(W) /\ Covers(W, loose)
    /\ Path(next, head, W[AtShared], NULL)
    /\ \A t \in Thread : Knows(next, q[t], pc[t], old[t], batch[t], list[t],
                               W[AtMine(t)], W[AtList(t)], W[AtBatch(t)])

AtomicInv == AtomicType /\ \E W \in [Place -> Seq(Node)] : Held(W)

-----------------------------------------------------------------------------
(* Paths                                                                     *)

\* The positions of a list.
LEMMA Spots ==
    ASSUME NEW s \in Seq(Node)
    PROVE  /\ Len(s) \in Nat /\ DOMAIN s = 1..Len(s) /\ \A i \in 1..Len(s) : s[i] \in Node
           /\ s = <<>> <=> Len(s) = 0
           /\ s # <<>> => Len(s) \in 1..Len(s) /\ 1 \in 1..Len(s) /\ Final(s) = s[Len(s)]
           /\ s # <<>> => Final(s) \in Node /\ Final(s) \in Range(s) /\ Head(s) = s[1] /\ s[1] \in Range(s)
           /\ s = <<>> => Final(s) = NULL
           /\ \A n : n \in Range(s) <=> \E i \in 1..Len(s) : s[i] = n
           /\ Range(s) \subseteq Node
<1>1. Len(s) \in Nat /\ DOMAIN s = 1..Len(s) /\ \A i \in 1..Len(s) : s[i] \in Node
  BY LenProperties, ElementOfSeq
<1>2. s = <<>> <=> Len(s) = 0
  BY EmptySeq
<1>3. s # <<>> => Len(s) \in 1..Len(s) /\ 1 \in 1..Len(s)
  BY <1>1, <1>2
<1>4. \A n : n \in Range(s) <=> \E i \in 1..Len(s) : s[i] = n
  BY <1>1 DEF Range
<1>5. s # <<>> => Head(s) = s[1]
  BY TailItems
<1> QED BY <1>1, <1>2, <1>3, <1>4, <1>5 DEF Final

\* The nodes a path meets do not change when links elsewhere do.
LEMMA PathKept ==
    ASSUME NEW m, NEW k, NEW s \in Seq(Node), NEW h, NEW e, Path(m, h, s, e),
           \A n \in Range(s) : k[n] = m[n]
    PROVE  Path(k, h, s, e)
<1>1. \A i \in 1..Len(s) : s[i] \in Range(s)
  BY Spots
<1> QED BY <1>1 DEF Path

\* The last node of a path may be linked to something else.
LEMMA PathRelinked ==
    ASSUME NEW m, NEW k, NEW s \in Seq(Node), NEW h, NEW e, NEW v, Path(m, h, s, e),
           s # <<>>, IsInjective(s), k[Final(s)] = v,
           \A n \in Range(s) : n # Final(s) => k[n] = m[n]
    PROVE  Path(k, h, s, v)
<1>1. /\ Len(s) \in Nat /\ DOMAIN s = 1..Len(s) /\ Len(s) \in 1..Len(s) /\ Final(s) = s[Len(s)]
      /\ \A i \in 1..Len(s) : s[i] \in Range(s)
  BY Spots
<1>2. \A i \in 1..Len(s) : i # Len(s) => s[i] # Final(s)
  BY <1>1 DEF IsInjective
<1>3. h = s[1] /\ \A i \in 1..Len(s) : i # Len(s) => m[s[i]] = s[i + 1]
  BY DEF Path
<1>4. \A i \in 1..Len(s) : k[s[i]] = IF i = Len(s) THEN v ELSE s[i + 1]
  BY <1>1, <1>2, <1>3
<1> QED BY <1>3, <1>4 DEF Path

\* A path to the beginning of another goes on with it.
LEMMA PathJoined ==
    ASSUME NEW m, NEW s \in Seq(Node), NEW u \in Seq(Node), NEW h, NEW x, NEW e,
           Path(m, h, s, x), Path(m, x, u, e)
    PROVE  Path(m, h, s \o u, e)
<1>1. CASE s = <<>>
  <2>1. s \o u = u
    BY <1>1, ConcatEmptySeq
  <2>2. h = x
    BY <1>1 DEF Path
  <2> QED BY <2>1, <2>2
<1>2. CASE u = <<>>
  <2>1. s \o u = s
    BY <1>2, ConcatEmptySeq
  <2>2. e = x
    BY <1>2 DEF Path
  <2> QED BY <2>1, <2>2
<1>3. CASE s # <<>> /\ u # <<>>
  <2>1. PICK r : r = s \o u
    OBVIOUS
  <2>2. PICK a, b : a = Len(s) /\ b = Len(u)
    OBVIOUS
  <2>3. a \in Nat /\ b \in Nat /\ a >= 1 /\ b >= 1
    BY <1>3, <2>2, Spots
  <2>4. /\ r \in Seq(Node) /\ Len(r) = a + b
        /\ \A i \in 1..(a + b) : r[i] = IF i <= a THEN s[i] ELSE u[i - a]
    BY <2>1, <2>2, ConcatProperties
  <2>5. /\ h = s[1] /\ x = u[1]
        /\ \A i \in 1..a : m[s[i]] = IF i = a THEN x ELSE s[i + 1]
        /\ \A i \in 1..b : m[u[i]] = IF i = b THEN e ELSE u[i + 1]
    BY <1>3, <2>2 DEF Path
  <2>6. r # <<>> /\ r[1] = h
    <3>1. 1 \in 1..(a + b) /\ 1 <= a /\ Len(r) # 0
      BY <2>3, <2>4
    <3> QED BY <2>4, <2>5, <3>1, Spots
  <2>7. ASSUME NEW i \in 1..(a + b) PROVE m[r[i]] = IF i = a + b THEN e ELSE r[i + 1]
    <3>1. CASE i < a
      <4>1. i \in 1..a /\ i <= a /\ i + 1 <= a /\ i + 1 \in 1..(a + b) /\ i # a /\ i # a + b
        BY <2>3, <3>1
      <4> QED BY <2>4, <2>5, <4>1
    <3>2. CASE i = a
      <4>1. i \in 1..a /\ i <= a /\ ~(i + 1 <= a) /\ i + 1 \in 1..(a + b) /\ i # a + b /\ i + 1 - a = 1
        BY <2>3, <3>2
      <4> QED BY <2>4, <2>5, <3>2, <4>1
    <3>3. CASE i > a
      <4>1. PICK j : j = i - a
        OBVIOUS
      <4>2. j \in 1..b /\ ~(i <= a) /\ (i = a + b <=> j = b)
        BY <2>3, <3>3, <4>1
      <4>3. i # a + b => i + 1 \in 1..(a + b) /\ ~(i + 1 <= a) /\ i + 1 - a = j + 1
        BY <2>3, <3>3, <4>1
      <4>4. m[r[i]] = IF j = b THEN e ELSE u[j + 1]
        BY <2>4, <2>5, <4>1, <4>2
      <4>5. ASSUME i # a + b PROVE r[i + 1] = u[j + 1]
        <5>1. PICK k : k = i + 1
          OBVIOUS
        <5>2. k \in 1..(a + b) /\ ~(k <= a) /\ k - a = j + 1
          BY <2>3, <4>1, <4>3, <4>5, <5>1
        <5>3. r[k] = u[k - a]
          BY <2>3, <2>4, <5>2
        <5> QED BY <5>1, <5>2, <5>3
      <4> QED BY <4>2, <4>4, <4>5
    <3> QED BY <2>3, <3>1, <3>2, <3>3
  <2> QED BY <2>1, <2>4, <2>6, <2>7 DEF Path
<1> QED BY <1>1, <1>2, <1>3

\* Without its first node a path begins behind it.
LEMMA PathBehind ==
    ASSUME NEW m, NEW s \in Seq(Node), NEW h, NEW e, Path(m, h, s, e), s # <<>>
    PROVE  h = s[1] /\ h \in Node /\ Path(m, m[h], Tail(s), e)
<1>1. PICK r, a : r = Tail(s) /\ a = Len(s)
  OBVIOUS
<1>2. /\ a \in Nat \ {0} /\ r \in Seq(Node) /\ Len(r) = a - 1
      /\ \A i \in 1..(a - 1) : r[i] = s[i + 1]
  BY <1>1, TailItems
<1>3. h = s[1] /\ \A i \in 1..a : m[s[i]] = IF i = a THEN e ELSE s[i + 1]
  BY <1>1 DEF Path
<1>4. h \in Node
  BY <1>3, Spots
<1>5. m[h] = IF r = <<>> THEN e ELSE r[1]
  <2>1. r = <<>> <=> a = 1
    BY <1>2, Spots
  <2>2. 1 \in 1..a /\ (a # 1 => 1 \in 1..(a - 1))
    BY <1>2
  <2> QED BY <1>2, <1>3, <2>1, <2>2
<1>6. ASSUME NEW i \in 1..(a - 1) PROVE m[r[i]] = IF i = a - 1 THEN e ELSE r[i + 1]
  <2>1. i + 1 \in 1..a /\ (i = a - 1 <=> i + 1 = a) /\ (i # a - 1 => i + 1 \in 1..(a - 1))
    BY <1>2
  <2> QED BY <1>2, <1>3, <2>1
<1> QED BY <1>1, <1>2, <1>3, <1>4, <1>5, <1>6 DEF Path

\* One node, and none.
LEMMA PathShort ==
    ASSUME NEW m, NEW n \in Node, NEW h
    PROVE  Path(m, n, <<n>>, m[n]) /\ Path(m, h, <<>>, h)
<1>1. <<n>> # <<>> /\ Len(<<n>>) = 1 /\ <<n>>[1] = n
  OBVIOUS
<1>2. Len(<<>>) = 0
  BY EmptySeq
<1> QED BY <1>1, <1>2 DEF Path

\* A path that ends with NULL is empty when it begins with NULL.
LEMMA PathNull ==
    ASSUME NEW m, NEW s \in Seq(Node), NEW h, Path(m, h, s, NULL)
    PROVE  /\ h = NULL <=> s = <<>>
           /\ h # NULL => h = s[1] /\ h \in Node /\ h \in Range(s)
<1>1. NULL \notin Node
  BY NullAssumption
<1> QED BY <1>1, Spots DEF Path

\* The last node of two lists joined.
LEMMA FinalJoined ==
    ASSUME NEW s \in Seq(Node), NEW u \in Seq(Node)
    PROVE  /\ s \o u \in Seq(Node)
           /\ Final(s \o u) = IF u = <<>> THEN Final(s) ELSE Final(u)
           /\ u # <<>> => s \o u # <<>>
           /\ s # <<>> => s \o u # <<>>
<1>1. /\ s \o u \in Seq(Node) /\ Len(s \o u) = Len(s) + Len(u)
      /\ \A i \in 1..(Len(s) + Len(u)) : (s \o u)[i] = IF i <= Len(s) THEN s[i] ELSE u[i - Len(s)]
  BY ConcatProperties
<1>2. CASE u = <<>>
  <2>1. s \o u = s
    BY <1>2, ConcatEmptySeq
  <2> QED BY <1>1, <1>2, <2>1
<1>3. CASE u # <<>>
  <2>1. Len(s) \in Nat /\ Len(u) \in Nat /\ Len(u) >= 1 /\ Final(u) = u[Len(u)]
    BY <1>3, Spots
  <2>2. /\ Len(s) + Len(u) \in 1..(Len(s) + Len(u)) /\ ~(Len(s) + Len(u) <= Len(s))
        /\ Len(s) + Len(u) - Len(s) = Len(u) /\ Len(s) + Len(u) # 0
    BY <2>1
  <2>3. (s \o u)[Len(s) + Len(u)] = u[Len(u)]
    BY <1>1, <2>2
  <2>4. s \o u # <<>>
    BY <1>1, <2>2, Spots
  <2> QED BY <1>1, <1>3, <2>1, <2>3, <2>4 DEF Final
<1> QED BY <1>2, <1>3

\* The last node of a list without its first.
LEMMA FinalBehind ==
    ASSUME NEW s \in Seq(Node), s # <<>>
    PROVE  Tail(s) \in Seq(Node) /\ Final(Tail(s)) = IF Tail(s) = <<>> THEN NULL ELSE Final(s)
<1>1. PICK r, a : r = Tail(s) /\ a = Len(s)
  OBVIOUS
<1>2. /\ a \in Nat \ {0} /\ r \in Seq(Node) /\ Len(r) = a - 1
      /\ \A i \in 1..(a - 1) : r[i] = s[i + 1]
  BY <1>1, TailItems
<1>3. CASE r = <<>>
  BY <1>1, <1>2, <1>3 DEF Final
<1>4. CASE r # <<>>
  <2>1. a - 1 # 0
    BY <1>2, <1>4, Spots
  <2>2. a - 1 \in 1..(a - 1) /\ a - 1 + 1 = a
    BY <1>2, <2>1
  <2> QED BY <1>1, <1>2, <1>4, <2>2 DEF Final
<1> QED BY <1>3, <1>4

-----------------------------------------------------------------------------
(* The sequences of the model are the ones the invariant names               *)

\* Following the links from h to NULL, or to the last node, gives the path.
LEMMA UpToPath ==
    ASSUME next \in [Node -> Pointer], NEW s \in Seq(Node), IsInjective(s), NEW h, NEW e,
           Path(next, h, s, e), NEW last,
           (last = NULL /\ e = NULL) \/ (s # <<>> /\ last = Final(s))
    PROVE  UpTo(h, last) = s
<1>1. PICK N : N = Cardinality(Node) + 1
  OBVIOUS
<1>2. Len(s) \in Nat /\ DOMAIN s = 1..Len(s) /\ \A i \in 1..Len(s) : s[i] \in Node
  BY Spots
<1>3. N \in Nat /\ N >= 1 /\ Len(s) <= N
  <2>1. s \in Injection(1..Len(s), Node)
    <3>1. s \in [1..Len(s) -> Node]
      BY <1>2
    <3> QED BY <1>2, <3>1 DEF Injection, IsInjective
  <2>2. Cardinality(1..Len(s)) <= Cardinality(Node) /\ Cardinality(Node) \in Nat
    BY <2>1, FS_Injection, FS_CardinalityType, FiniteAssumption
  <2>3. Cardinality(1..Len(s)) = Len(s)
    BY <1>2, FirstNumbers
  <2> QED BY <1>1, <1>2, <2>2, <2>3
<1>4. PICK G : G = [k \in 1..N |-> IF k <= Len(s) THEN s[k] ELSE NULL]
  OBVIOUS
<1>5. \A k \in 1..N : G[k] = IF k <= Len(s) THEN s[k] ELSE NULL
  BY <1>4
<1>6. NULL \notin Node
  BY NullAssumption
<1>7. \A i \in 1..Len(s) : IF s[i] \in {NULL, last} THEN i = Len(s)
                           ELSE next[s[i]] = IF i = Len(s) THEN NULL ELSE s[i + 1]
  <2> TAKE i \in 1..Len(s)
  <2>1. next[s[i]] = IF i = Len(s) THEN e ELSE s[i + 1]
    BY DEF Path
  <2>2. s[i] # NULL
    BY <1>2, <1>6
  <2>3. CASE last = NULL /\ e = NULL
    BY <2>1, <2>2, <2>3
  <2>4. CASE s # <<>> /\ last = Final(s)
    <3>1. Len(s) \in 1..Len(s) /\ last = s[Len(s)]
      BY <2>4, Spots
    <3>2. s[i] = last <=> i = Len(s)
      BY <1>2, <3>1 DEF IsInjective
    <3> QED BY <2>1, <2>2, <3>2
  <2> QED BY <2>3, <2>4
<1>8. h = G[1]
  <2>1. 1 \in 1..N /\ (1 <= Len(s) <=> Len(s) # 0) /\ (s = <<>> <=> Len(s) = 0)
    BY <1>2, <1>3, Spots
  <2>2. s = <<>> => h = NULL
    BY DEF Path
  <2>3. s # <<>> => h = s[1]
    BY DEF Path
  <2> QED BY <1>5, <2>1, <2>2, <2>3
<1>9. \A k \in 1..N : G[k] = IF k = 1 THEN h ELSE IF G[k - 1] \in {NULL, last} THEN NULL ELSE next[G[k - 1]]
  <2> TAKE k \in 1..N
  <2>1. CASE k = 1
    BY <1>8, <2>1
  <2>2. CASE k # 1
    <3>1. k - 1 \in 1..N /\ k \in Nat /\ k - 1 + 1 = k
      BY <1>3, <2>2
    <3>2. CASE k - 1 <= Len(s)
      <4>1. k - 1 \in 1..Len(s) /\ (k - 1 = Len(s) <=> ~(k <= Len(s)))
        BY <1>2, <1>3, <3>1, <3>2
      <4>2. G[k - 1] = s[k - 1]
        BY <1>5, <3>1, <3>2
      <4>3. IF s[k - 1] \in {NULL, last} THEN k - 1 = Len(s)
            ELSE next[s[k - 1]] = IF k - 1 = Len(s) THEN NULL ELSE s[k]
        BY <1>7, <3>1, <4>1
      <4>4. CASE s[k - 1] \in {NULL, last}
        BY <1>5, <2>2, <4>1, <4>2, <4>3, <4>4
      <4>5. CASE s[k - 1] \notin {NULL, last}
        <5>1. next[s[k - 1]] = IF k - 1 = Len(s) THEN NULL ELSE s[k]
          BY <4>3, <4>5
        <5> QED BY <1>5, <2>2, <4>1, <4>2, <4>5, <5>1
      <4> QED BY <4>4, <4>5
    <3>3. CASE ~(k - 1 <= Len(s))
      <4>1. G[k - 1] = NULL /\ ~(k <= Len(s))
        BY <1>2, <1>3, <1>5, <3>1, <3>3
      <4> QED BY <1>5, <2>2, <4>1
    <3> QED BY <3>2, <3>3
  <2> QED BY <2>1, <2>2
<1>10. G = [k \in 1..N |-> IF k = 1 THEN h ELSE IF G[k - 1] \in {NULL, last} THEN NULL ELSE next[G[k - 1]]]
  BY <1>4, <1>9
<1>11. PICK at : at = CHOOSE f : f = [k \in 1..N |-> IF k = 1 THEN h ELSE IF f[k - 1] \in {NULL, last} THEN NULL ELSE next[f[k - 1]]]
  OBVIOUS
<1>12. at = [k \in 1..N |-> IF k = 1 THEN h ELSE IF at[k - 1] \in {NULL, last} THEN NULL ELSE next[at[k - 1]]]
  BY <1>10, <1>11
<1>13. UpTo(h, last) = SubSeq([k \in DOMAIN at |-> at[k]], 1, Cardinality({k \in DOMAIN at : at[k] # NULL}))
  BY ONLY <1>1, <1>11 DEF UpTo
<1>14. \A k \in 1..N : at[k] = G[k]
  <2> SUFFICES ASSUME \E k \in 1..N : at[k] # G[k] PROVE FALSE
    OBVIOUS
  <2>1. PICK D : D = {k \in 1..N : at[k] # G[k]}
    OBVIOUS
  <2>2. D \in SUBSET Nat /\ D # {}
    BY <1>3, <2>1
  <2>3. PICK k \in D : \A i \in D : k <= i
    BY <2>2, LeastNumber
  <2>4. k \in 1..N /\ at[k] # G[k]
    BY <2>1, <2>3
  <2>5. at[k] = IF k = 1 THEN h ELSE IF at[k - 1] \in {NULL, last} THEN NULL ELSE next[at[k - 1]]
    BY <1>12, <2>4
  <2>6. k # 1 => at[k - 1] = G[k - 1]
    <3>1. k # 1 => k - 1 \in 1..N /\ ~(k <= k - 1)
      BY <1>3, <2>4
    <3> QED BY <2>1, <2>3, <3>1
  <2>7. G[k] = IF k = 1 THEN h ELSE IF G[k - 1] \in {NULL, last} THEN NULL ELSE next[G[k - 1]]
    BY <1>9, <2>4
  <2> QED BY <2>4, <2>5, <2>6, <2>7
<1>15. DOMAIN at = 1..N /\ at = G
  BY <1>4, <1>12, <1>14
<1>16. {k \in DOMAIN at : at[k] # NULL} = 1..Len(s)
  <2>1. \A k \in 1..N : G[k] # NULL <=> k <= Len(s)
    BY <1>2, <1>3, <1>5, <1>6
  <2> QED BY <1>2, <1>3, <1>15, <2>1
<1>17. Cardinality(1..Len(s)) = Len(s)
  BY <1>2, FirstNumbers
<1>18. UpTo(h, last) = SubSeq(G, 1, Len(s))
  <2>1. [k \in DOMAIN at |-> at[k]] = G
    BY <1>4, <1>15
  <2> QED BY <1>13, <1>16, <1>17, <2>1
<1>19. G \in Seq(Pointer) /\ Len(G) = N
  BY <1>2, <1>3, <1>4 DEF Pointer
<1>20. PICK r : r = SubSeq(G, 1, Len(s))
  OBVIOUS
<1>21. r \in Seq(Pointer) /\ Len(r) = Len(s) /\ \A i \in 1..Len(s) : r[i] = G[i]
  BY <1>2, <1>3, <1>19, <1>20
<1>22. \A i \in 1..Len(s) : r[i] = s[i]
  BY <1>2, <1>3, <1>5, <1>21
<1>23. s \in Seq(Pointer)
  <2>1. s = [i \in 1..Len(s) |-> s[i]]
    BY <1>2
  <2> QED BY <1>2, <2>1 DEF Pointer
<1> QED BY <1>18, <1>20, <1>21, <1>22, <1>23, SeqEqual

\* The same, as a formula for the state before and the state after a step.
UpToFact ==
    \A s \in Seq(Node) : \A h, e, last :
        /\ next \in [Node -> Pointer] /\ IsInjective(s) /\ Path(next, h, s, e)
        /\ (last = NULL /\ e = NULL) \/ (s # <<>> /\ last = Final(s))
        => UpTo(h, last) = s

\* UpToPath says so.
LEMMA UpToNow == UpToFact
BY UpToPath DEF UpToFact

-----------------------------------------------------------------------------
(* Moving nodes between the shared list and the lists of one thread          *)

\* four lists without repetition that share no node
Quad(S, M, L, B) ==
    /\ IsInjective(S) /\ IsInjective(M) /\ IsInjective(L) /\ IsInjective(B)
    /\ Range(S) \intersect Range(M) = {} /\ Range(S) \intersect Range(L) = {}
    /\ Range(S) \intersect Range(B) = {} /\ Range(M) \intersect Range(L) = {}
    /\ Range(M) \intersect Range(B) = {} /\ Range(L) \intersect Range(B) = {}

All(S, M, L, B) == Range(S) \union Range(M) \union Range(L) \union Range(B)

\* V is W with the shared list and the ones of t replaced
Put(V, W, t, S, M, L, B) ==
    V = [p \in Place |-> IF p = AtShared THEN S ELSE IF p = AtMine(t) THEN M
                         ELSE IF p = AtList(t) THEN L ELSE IF p = AtBatch(t) THEN B ELSE W[p]]

\* the nodes of the four lists, and the loose ones, are the ones of before
Moves(W, t, S, M, L, B, free, freed) ==
    /\ freed \subseteq Node /\ Quad(S, M, L, B) /\ All(S, M, L, B) \intersect freed = {}
    /\ All(S, M, L, B) \union freed
           = All(W[AtShared], W[AtMine(t)], W[AtList(t)], W[AtBatch(t)]) \union free

Own(t) == {AtShared, AtMine(t), AtList(t), AtBatch(t)}

\* The places are different.
LEMMA Places4 ==
    ASSUME NEW t \in Thread
    PROVE  /\ Own(t) \subseteq Place
           /\ AtShared # AtMine(t) /\ AtShared # AtList(t) /\ AtShared # AtBatch(t)
           /\ AtMine(t) # AtList(t) /\ AtMine(t) # AtBatch(t) /\ AtList(t) # AtBatch(t)
           /\ \A u \in Thread : u # t =>
                 /\ AtMine(u) \in Place \ Own(t) /\ AtList(u) \in Place \ Own(t)
                 /\ AtBatch(u) \in Place \ Own(t)
<1>1. Own(t) \subseteq Place
  BY DEF Own, Place, AtShared, AtMine, AtList, AtBatch
<1>2. /\ AtShared # AtMine(t) /\ AtShared # AtList(t) /\ AtShared # AtBatch(t)
      /\ AtMine(t) # AtList(t) /\ AtMine(t) # AtBatch(t) /\ AtList(t) # AtBatch(t)
  BY DEF AtShared, AtMine, AtList, AtBatch
<1>3. ASSUME NEW u \in Thread, u # t
      PROVE  /\ AtMine(u) \in Place \ Own(t) /\ AtList(u) \in Place \ Own(t)
             /\ AtBatch(u) \in Place \ Own(t)
  BY <1>3 DEF Own, Place, AtShared, AtMine, AtList, AtBatch
<1> QED BY <1>1, <1>2, <1>3

\* What Put leaves where.
LEMMA PutLists ==
    ASSUME NEW W \in [Place -> Seq(Node)], NEW t \in Thread, NEW S \in Seq(Node),
           NEW M \in Seq(Node), NEW L \in Seq(Node), NEW B \in Seq(Node), NEW V,
           Put(V, W, t, S, M, L, B)
    PROVE  /\ V \in [Place -> Seq(Node)]
           /\ V[AtShared] = S /\ V[AtMine(t)] = M /\ V[AtList(t)] = L /\ V[AtBatch(t)] = B
           /\ \A p \in Place \ Own(t) : V[p] = W[p]
<1>1. V \in [Place -> Seq(Node)]
  BY DEF Put
<1>2. \A p \in Place : V[p] = IF p = AtShared THEN S ELSE IF p = AtMine(t) THEN M
                     ELSE IF p = AtList(t) THEN L ELSE IF p = AtBatch(t) THEN B ELSE W[p]
  BY DEF Put
<1>3. V[AtShared] = S /\ V[AtMine(t)] = M /\ V[AtList(t)] = L /\ V[AtBatch(t)] = B
  BY <1>2, Places4 DEF Own
<1>4. \A p \in Place \ Own(t) : V[p] = W[p]
  BY <1>2 DEF Own
<1> QED BY <1>1, <1>3, <1>4

\* The shared list and the ones of a thread are four such lists.
LEMMA QuadHeld ==
    ASSUME NEW W \in [Place -> Seq(Node)], Apart(W), NEW t \in Thread
    PROVE  Quad(W[AtShared], W[AtMine(t)], W[AtList(t)], W[AtBatch(t)])
<1>1. /\ AtShared \in Place /\ AtMine(t) \in Place /\ AtList(t) \in Place /\ AtBatch(t) \in Place
      /\ AtShared # AtMine(t) /\ AtShared # AtList(t) /\ AtShared # AtBatch(t)
      /\ AtMine(t) # AtList(t) /\ AtMine(t) # AtBatch(t) /\ AtList(t) # AtBatch(t)
  BY Places4 DEF Own
<1> QED BY <1>1 DEF Apart, Quad

\* Nodes that move between the four lists and the loose ones leave all lists
\* apart.
LEMMA PutApart ==
    ASSUME NEW W \in [Place -> Seq(Node)], NEW t \in Thread, NEW S \in Seq(Node),
           NEW M \in Seq(Node), NEW L \in Seq(Node), NEW B \in Seq(Node), NEW V,
           Put(V, W, t, S, M, L, B), NEW free, NEW freed, free \subseteq Node,
           Apart(W), Covers(W, free), Moves(W, t, S, M, L, B, free, freed)
    PROVE  Apart(V) /\ Covers(V, freed)
<1>0. /\ freed \subseteq Node /\ Quad(S, M, L, B) /\ All(S, M, L, B) \intersect freed = {}
      /\ All(S, M, L, B) \union freed
             = All(W[AtShared], W[AtMine(t)], W[AtList(t)], W[AtBatch(t)]) \union free
  BY DEF Moves
<1>1. /\ V \in [Place -> Seq(Node)]
      /\ V[AtShared] = S /\ V[AtMine(t)] = M /\ V[AtList(t)] = L /\ V[AtBatch(t)] = B
      /\ \A p \in Place \ Own(t) : V[p] = W[p]
  <2>1. V[AtShared] = S /\ V[AtMine(t)] = M
    BY PutLists
  <2>2. V[AtList(t)] = L /\ V[AtBatch(t)] = B
    BY PutLists
  <2>3. V \in [Place -> Seq(Node)]
    BY PutLists
  <2>4. \A p \in Place \ Own(t) : V[p] = W[p]
    BY PutLists
  <2> QED BY <2>1, <2>2, <2>3, <2>4
<1>2. Own(t) \subseteq Place
  BY Places4
<1>3. \A p \in Place : Range(W[p]) \subseteq Node /\ Range(V[p]) \subseteq Node
  BY <1>1, Spots
<1>4. \A p \in Place, r \in Place : p # r => Range(W[p]) \intersect Range(W[r]) = {}
  BY DEF Apart
<1>5. \A p \in Place : Range(W[p]) \intersect free = {}
  BY <1>3 DEF Covers
<1>6. \A p \in Place \ Own(t) :
          Range(W[p]) \intersect (All(W[AtShared], W[AtMine(t)], W[AtList(t)], W[AtBatch(t)]) \union free) = {}
  <2> TAKE p \in Place \ Own(t)
  <2>1. /\ Range(W[p]) \intersect Range(W[AtShared]) = {} /\ Range(W[p]) \intersect Range(W[AtMine(t)]) = {}
        /\ Range(W[p]) \intersect Range(W[AtList(t)]) = {} /\ Range(W[p]) \intersect Range(W[AtBatch(t)]) = {}
    BY <1>2, <1>4 DEF Own
  <2> QED BY <1>5, <2>1 DEF All
<1>7. \A p \in Place \ Own(t) :
          Range(V[p]) \intersect All(S, M, L, B) = {} /\ Range(V[p]) \intersect freed = {}
  BY <1>0, <1>1, <1>6
<1>8. \A p \in Own(t) : Range(V[p]) \subseteq All(S, M, L, B) /\ IsInjective(V[p])
  BY <1>0, <1>1 DEF Own, All, Quad
<1>9. \A p, r \in Own(t) : p # r => Range(V[p]) \intersect Range(V[r]) = {}
  BY <1>0, <1>1 DEF Own, Quad
<1>10. \A p \in Place : IsInjective(V[p])
  BY <1>1, <1>8 DEF Apart
<1>11. ASSUME NEW p \in Place, NEW r \in Place, p # r PROVE Range(V[p]) \intersect Range(V[r]) = {}
  <2>1. CASE p \in Own(t) /\ r \in Own(t)
    BY <1>9, <1>11, <2>1
  <2>2. CASE p \in Own(t) /\ r \notin Own(t)
    BY <1>7, <1>8, <2>2
  <2>3. CASE p \notin Own(t) /\ r \in Own(t)
    BY <1>7, <1>8, <2>3
  <2>4. CASE p \notin Own(t) /\ r \notin Own(t)
    BY <1>1, <1>4, <1>11, <2>4
  <2> QED BY <2>1, <2>2, <2>3, <2>4
<1>12. \A n \in Node : n \in All(S, M, L, B) <=> \E p \in Own(t) : n \in Range(V[p])
  BY <1>1 DEF Own, All
<1>13. \A n : n \in All(W[AtShared], W[AtMine(t)], W[AtList(t)], W[AtBatch(t)])
              <=> \E p \in Own(t) : n \in Range(W[p])
  BY DEF Own, All
<1>14. ASSUME NEW n \in Node, n \in freed PROVE \A p \in Place : n \notin Range(V[p])
  BY <1>0, <1>7, <1>8, <1>14
<1>15. ASSUME NEW n \in Node, \A p \in Place : n \notin Range(V[p]) PROVE n \in freed
  <2>1. n \notin All(S, M, L, B)
    BY <1>2, <1>12, <1>15
  <2>2. CASE n \in free
    BY <1>0, <2>1, <2>2
  <2>3. CASE n \notin free
    <3>1. PICK p \in Place : n \in Range(W[p])
      BY <2>3 DEF Covers
    <3>2. p \in Own(t)
      BY <1>1, <1>15, <3>1
    <3> QED BY <1>0, <1>13, <2>1, <3>1, <3>2
  <2> QED BY <2>2, <2>3
<1> QED BY <1>10, <1>11, <1>14, <1>15 DEF Apart, Covers

\* A thread's lists do not change when links elsewhere do.
LEMMA KnowsKept ==
    ASSUME NEW m, NEW k, NEW a, NEW c, NEW o, NEW b, NEW l,
           NEW M \in Seq(Node), NEW L \in Seq(Node), NEW B \in Seq(Node),
           Knows(m, a, c, o, b, l, M, L, B),
           \A n \in Range(M) \union Range(L) \union Range(B) : k[n] = m[n]
    PROVE  Knows(k, a, c, o, b, l, M, L, B)
<1>1. \A h, e : Path(m, h, M, e) => Path(k, h, M, e)
  BY PathKept
<1>2. \A h, e : Path(m, h, L, e) => Path(k, h, L, e)
  BY PathKept
<1>3. \A h, e : Path(m, h, B, e) => Path(k, h, B, e)
  BY PathKept
<1>4. c \in {"link", "cas"} => k[b.tail] = m[b.tail]
  <2> HAVE c \in {"link", "cas"}
  <2>1. b.tail = Final(B) /\ B # <<>>
    BY DEF Knows
  <2> QED BY <2>1, Spots
<1> QED BY <1>1, <1>2, <1>3, <1>4 DEF Knows

\* What a step of t must keep: the four lists it may change are lists again,
\* and it writes only to its own nodes and to loose ones.
LEMMA HeldPut ==
    ASSUME AtomicType, NEW W \in [Place -> Seq(Node)], Held(W), NEW t \in Thread,
           NEW S \in Seq(Node), NEW M \in Seq(Node), NEW L \in Seq(Node), NEW B \in Seq(Node),
           NEW V, Put(V, W, t, S, M, L, B),
           Moves(W, t, S, M, L, B, loose, loose'),
           \A n \in Node : n \in loose \union Range(W[AtMine(t)]) \union Range(W[AtList(t)])
                                       \union Range(W[AtBatch(t)]) \/ next'[n] = next[n],
           \A u \in Thread : u # t =>
               /\ q'[u] = q[u] /\ pc'[u] = pc[u] /\ old'[u] = old[u]
               /\ batch'[u] = batch[u] /\ list'[u] = list[u],
           Path(next', head', S, NULL),
           Knows(next', q'[t], pc'[t], old'[t], batch'[t], list'[t], M, L, B)
    PROVE  V \in [Place -> Seq(Node)] /\ Held(V)'
<1>1. /\ V \in [Place -> Seq(Node)]
      /\ V[AtShared] = S /\ V[AtMine(t)] = M /\ V[AtList(t)] = L /\ V[AtBatch(t)] = B
      /\ \A p \in Place \ Own(t) : V[p] = W[p]
  BY PutLists
<1>2. Apart(W) /\ Covers(W, loose) /\ loose \subseteq Node
  BY DEF Held, AtomicType
<1>3. Apart(V) /\ Covers(V, loose')
  BY <1>2, PutApart
<1>4. ASSUME NEW u \in Thread, u # t
      PROVE  Knows(next', q'[u], pc'[u], old'[u], batch'[u], list'[u],
                   V[AtMine(u)], V[AtList(u)], V[AtBatch(u)])
  <2>1. /\ AtMine(u) \in Place \ Own(t) /\ AtList(u) \in Place \ Own(t) /\ AtBatch(u) \in Place \ Own(t)
        /\ Own(t) \subseteq Place
    BY <1>4, Places4
  <2>2. Knows(next, q[u], pc[u], old[u], batch[u], list[u], W[AtMine(u)], W[AtList(u)], W[AtBatch(u)])
    BY DEF Held
  <2>3. \A p \in Place \ Own(t) : \A n \in Range(W[p]) : next'[n] = next[n]
    <3> SUFFICES ASSUME NEW p \in Place \ Own(t), NEW n \in Range(W[p]) PROVE next'[n] = next[n]
      OBVIOUS
    <3>1. n \in Node
      BY Spots
    <3>2. n \notin loose
      BY <1>2, <3>1 DEF Covers
    <3>3. n \notin Range(W[AtMine(t)]) /\ n \notin Range(W[AtList(t)]) /\ n \notin Range(W[AtBatch(t)])
      BY <1>2, <2>1 DEF Apart, Own
    <3> QED BY <3>1, <3>2, <3>3
  <2>4. \A n \in Range(W[AtMine(u)]) \union Range(W[AtList(u)]) \union Range(W[AtBatch(u)]) : next'[n] = next[n]
    BY <2>1, <2>3
  <2>5. W[AtMine(u)] \in Seq(Node) /\ W[AtList(u)] \in Seq(Node) /\ W[AtBatch(u)] \in Seq(Node)
    BY <2>1
  <2>6. Knows(next', q[u], pc[u], old[u], batch[u], list[u], W[AtMine(u)], W[AtList(u)], W[AtBatch(u)])
    BY <2>2, <2>4, <2>5, KnowsKept
  <2>7. V[AtMine(u)] = W[AtMine(u)] /\ V[AtList(u)] = W[AtList(u)] /\ V[AtBatch(u)] = W[AtBatch(u)]
    BY <1>1, <2>1
  <2> QED BY <1>4, <2>6, <2>7
<1>5. \A u \in Thread : Knows(next', q'[u], pc'[u], old'[u], batch'[u], list'[u],
                              V[AtMine(u)], V[AtList(u)], V[AtBatch(u)])
  BY <1>1, <1>4
<1>6. Path(next', head', V[AtShared], NULL)
  BY <1>1
<1> QED BY <1>1, <1>3, <1>5, <1>6 DEF Held

-----------------------------------------------------------------------------
(* Before and after a step of t                                              *)

\* the four lists of W that a step of t may change
Now(W, t, S, M, L, B) ==
    /\ S = W[AtShared] /\ M = W[AtMine(t)] /\ L = W[AtList(t)] /\ B = W[AtBatch(t)]
    /\ Quad(S, M, L, B) /\ All(S, M, L, B) \intersect loose = {}
    /\ Path(next, head, S, NULL)
    /\ Knows(next, q[t], pc[t], old[t], batch[t], list[t], M, L, B)

\* only t's own variables change
OnlyOf(t) ==
    \A u \in Thread : u # t =>
        /\ q'[u] = q[u] /\ pc'[u] = pc[u] /\ old'[u] = old[u]
        /\ batch'[u] = batch[u] /\ list'[u] = list[u] /\ how'[u] = how[u]

\* and only links of its own nodes, or of loose ones
Writes(M, L, B) ==
    \A n \in Node : n \in loose \union Range(M) \union Range(L) \union Range(B) \/ next'[n] = next[n]

\* the step of t turns the lists S, M, L, B into S1, M1, L1, B1
Turns(t, S, M, L, B, S1, M1, L1, B1) ==
    /\ loose' \subseteq Node /\ Quad(S1, M1, L1, B1) /\ All(S1, M1, L1, B1) \intersect loose' = {}
    /\ All(S1, M1, L1, B1) \union loose' = All(S, M, L, B) \union loose
    /\ OnlyOf(t) /\ Writes(M, L, B)
    /\ Path(next', head', S1, NULL)
    /\ Knows(next', q'[t], pc'[t], old'[t], batch'[t], list'[t], M1, L1, B1)

\* The lists before a step.
LEMMA NowHeld ==
    ASSUME AtomicType, NEW W \in [Place -> Seq(Node)], Held(W), NEW t \in Thread
    PROVE  \E S, M, L, B \in Seq(Node) : Now(W, t, S, M, L, B)
<1>1. PICK S, M, L, B : S = W[AtShared] /\ M = W[AtMine(t)] /\ L = W[AtList(t)] /\ B = W[AtBatch(t)]
  OBVIOUS
<1>2. AtShared \in Place /\ AtMine(t) \in Place /\ AtList(t) \in Place /\ AtBatch(t) \in Place
  BY Places4 DEF Own
<1>3. S \in Seq(Node) /\ M \in Seq(Node) /\ L \in Seq(Node) /\ B \in Seq(Node)
  BY <1>1, <1>2
<1>4. Quad(S, M, L, B)
  BY <1>1, QuadHeld DEF Held
<1>5. Covers(W, loose) /\ loose \subseteq Node
  BY DEF Held, AtomicType
<1>6. All(S, M, L, B) \intersect loose = {}
  BY <1>1, <1>2, <1>5 DEF All, Covers
<1>7. Path(next, head, S, NULL) /\ Knows(next, q[t], pc[t], old[t], batch[t], list[t], M, L, B)
  BY <1>1 DEF Held
<1>8. Now(W, t, S, M, L, B)
  BY <1>1, <1>4, <1>6, <1>7 DEF Now
<1> QED BY <1>3, <1>8

\* The lists after it.
LEMMA TurnsHeld ==
    ASSUME AtomicType, NEW W \in [Place -> Seq(Node)], Held(W), NEW t \in Thread,
           NEW S \in Seq(Node), NEW M \in Seq(Node), NEW L \in Seq(Node), NEW B \in Seq(Node),
           NEW S1 \in Seq(Node), NEW M1 \in Seq(Node), NEW L1 \in Seq(Node), NEW B1 \in Seq(Node),
           Now(W, t, S, M, L, B), Turns(t, S, M, L, B, S1, M1, L1, B1)
    PROVE  \E V \in [Place -> Seq(Node)] : Put(V, W, t, S1, M1, L1, B1) /\ Held(V)'
<1>1. PICK V : Put(V, W, t, S1, M1, L1, B1)
  BY DEF Put
<1>2. S = W[AtShared] /\ M = W[AtMine(t)] /\ L = W[AtList(t)] /\ B = W[AtBatch(t)]
  BY DEF Now
<1>3. Moves(W, t, S1, M1, L1, B1, loose, loose')
  BY <1>2 DEF Turns, Moves
<1>4. /\ \A n \in Node : n \in loose \union Range(W[AtMine(t)]) \union Range(W[AtList(t)])
                                    \union Range(W[AtBatch(t)]) \/ next'[n] = next[n]
      /\ \A u \in Thread : u # t =>
            /\ q'[u] = q[u] /\ pc'[u] = pc[u] /\ old'[u] = old[u]
            /\ batch'[u] = batch[u] /\ list'[u] = list[u]
  BY <1>2 DEF Turns, OnlyOf, Writes
<1>5. /\ Path(next', head', S1, NULL)
      /\ Knows(next', q'[t], pc'[t], old'[t], batch'[t], list'[t], M1, L1, B1)
  BY DEF Turns
<1>6. V \in [Place -> Seq(Node)] /\ Held(V)'
  BY <1>1, <1>3, <1>4, <1>5, HeldPut
<1> QED BY <1>1, <1>6

\* A list of one node, and none.
LEMMA Short ==
    ASSUME NEW n \in Node
    PROVE  /\ <<n>> \in Seq(Node) /\ Range(<<n>>) = {n} /\ IsInjective(<<n>>)
           /\ <<n>> # <<>> /\ Final(<<n>>) = n
<1>1. Len(<<n>>) = 1 /\ <<n>>[1] = n /\ <<n>> # <<>>
  OBVIOUS
<1>2. Range(<<n>>) = {n} /\ IsInjective(<<n>>)
  BY DEF Range, IsInjective
<1> QED BY <1>1, <1>2 DEF Final

\* A list of none.
LEMMA None ==
    /\ <<>> \in Seq(Node) /\ Range(<<>>) = {} /\ IsInjective(<<>>) /\ Final(<<>>) = NULL
    /\ \A m : Path(m, NULL, <<>>, NULL)
<1>1. Range(<<>>) = {} /\ IsInjective(<<>>)
  BY DEF Range, IsInjective
<1>2. Len(<<>>) = 0
  BY EmptySeq
<1> QED BY <1>1, <1>2 DEF Final, Path

\* The link behind the last node of a path.
LEMMA PathEnd ==
    ASSUME NEW m, NEW s \in Seq(Node), NEW h, NEW e, Path(m, h, s, e), s # <<>>
    PROVE  m[Final(s)] = e /\ h = s[1] /\ h \in Node /\ h \in Range(s)
BY Spots DEF Path

\* The types, by thread.
LEMMA OfThread ==
    ASSUME AtomicType, NEW t \in Thread
    PROVE  /\ q[t] \in Queue /\ batch[t] \in Queue /\ old[t] \in Pointer /\ list[t] \in Pointer
           /\ how[t] \in Take /\ how[t].reversed \in BOOLEAN /\ how[t].append \in BOOLEAN
           /\ q[t].head \in Pointer /\ q[t].tail \in Pointer
           /\ batch[t].head \in Pointer /\ batch[t].tail \in Pointer /\ head \in Pointer
BY DEF AtomicType, Queue, Take

-----------------------------------------------------------------------------
(* The steps of a push                                                       *)

\* A node that was loose is the list that t will push.
LEMMA StartPushStep ==
    ASSUME AtomicType, NEW W, NEW t \in Thread, NEW n \in Node, StartPush(t, n),
           NEW S \in Seq(Node), NEW M \in Seq(Node), NEW L \in Seq(Node), NEW B \in Seq(Node),
           Now(W, t, S, M, L, B)
    PROVE  /\ AtomicType' /\ L = <<>> /\ B = <<>>
           /\ <<n>> \in Seq(Node) /\ Turns(t, S, M, L, B, S, M, L, <<n>>)
<1>1. /\ pc[t] = "idle" /\ n \in loose /\ loose' = loose \ {n}
      /\ batch' = [batch EXCEPT ![t] = [head |-> n, tail |-> n]]
      /\ old' = [old EXCEPT ![t] = head] /\ pc' = [pc EXCEPT ![t] = "link"]
      /\ UNCHANGED <<head, next, q, list, how>>
  BY DEF StartPush
<1>2. AtomicType'
  BY <1>1 DEF AtomicType, Pointer, Queue
<1>3. Knows(next, q[t], pc[t], old[t], batch[t], list[t], M, L, B) /\ Path(next, head, S, NULL)
  BY DEF Now
<1>4. L = <<>> /\ B = <<>> /\ Path(next, q[t].head, M, NULL) /\ q[t].tail = Final(M)
  BY <1>1, <1>3 DEF Knows
<1>5. pc'[t] = "link" /\ batch'[t].head = n /\ batch'[t].tail = n
  BY <1>1 DEF AtomicType
<1>6. PICK X : X = <<n>>
  OBVIOUS
<1>7. X \in Seq(Node) /\ Range(X) = {n} /\ IsInjective(X) /\ X # <<>> /\ Final(X) = n /\ Path(next, n, X, next[n])
  BY <1>6, Short, PathShort
<1>8. Knows(next', q'[t], pc'[t], old'[t], batch'[t], list'[t], M, L, X)
  BY <1>1, <1>4, <1>5, <1>7 DEF Knows
<1>9. Range(B) = {}
  BY <1>4, None
<1>10. Quad(S, M, L, B) /\ All(S, M, L, B) \intersect loose = {} /\ loose \subseteq Node
  BY DEF Now, AtomicType
<1>11. Quad(S, M, L, X) /\ All(S, M, L, X) \intersect loose' = {}
       /\ All(S, M, L, X) \union loose' = All(S, M, L, B) \union loose
  BY <1>1, <1>7, <1>9, <1>10 DEF Quad, All
<1>12. OnlyOf(t) /\ Writes(M, L, B)
  BY <1>1 DEF OnlyOf, Writes, AtomicType
<1>13. Turns(t, S, M, L, B, S, M, L, X)
  BY <1>1, <1>3, <1>8, <1>10, <1>11, <1>12 DEF Turns
<1> QED BY <1>2, <1>4, <1>6, <1>7, <1>13

\* The private list, which is not empty, is the list that t will push.
LEMMA StartPrependStep ==
    ASSUME AtomicType, NEW W, NEW t \in Thread, StartPrepend(t),
           NEW S \in Seq(Node), NEW M \in Seq(Node), NEW L \in Seq(Node), NEW B \in Seq(Node),
           Now(W, t, S, M, L, B)
    PROVE  /\ AtomicType' /\ L = <<>> /\ B = <<>>
           /\ <<>> \in Seq(Node) /\ Turns(t, S, M, L, B, S, <<>>, L, M)
<1>1. /\ pc[t] = "idle" /\ q[t].head # NULL /\ q' = [q EXCEPT ![t] = Empty]
      /\ batch' = [batch EXCEPT ![t] = q[t]]
      /\ old' = [old EXCEPT ![t] = head] /\ pc' = [pc EXCEPT ![t] = "link"]
      /\ UNCHANGED <<head, next, loose, list, how>>
  BY DEF StartPrepend
<1>2. AtomicType'
  BY <1>1 DEF AtomicType, Pointer, Queue, Empty
<1>3. Knows(next, q[t], pc[t], old[t], batch[t], list[t], M, L, B) /\ Path(next, head, S, NULL)
  BY DEF Now
<1>4. L = <<>> /\ B = <<>> /\ Path(next, q[t].head, M, NULL) /\ q[t].tail = Final(M)
  BY <1>1, <1>3 DEF Knows
<1>5. pc'[t] = "link" /\ batch'[t] = q[t] /\ q'[t].head = NULL /\ q'[t].tail = NULL
  BY <1>1 DEF AtomicType, Empty
<1>6. M # <<>> /\ next[q[t].tail] = NULL
  BY <1>1, <1>4, PathNull, PathEnd
<1>7. PICK X : X = <<>>
  OBVIOUS
<1>8. X \in Seq(Node) /\ Range(X) = {} /\ IsInjective(X) /\ Final(X) = NULL /\ Path(next, NULL, X, NULL)
  BY <1>7, None
<1>9. Knows(next', q'[t], pc'[t], old'[t], batch'[t], list'[t], X, L, M)
  BY <1>1, <1>4, <1>5, <1>6, <1>8 DEF Knows
<1>10. Range(B) = {}
  BY <1>4, None
<1>11. Quad(S, M, L, B) /\ All(S, M, L, B) \intersect loose = {} /\ loose \subseteq Node
  BY DEF Now, AtomicType
<1>12. Quad(S, X, L, M) /\ All(S, X, L, M) \intersect loose' = {}
       /\ All(S, X, L, M) \union loose' = All(S, M, L, B) \union loose
  BY <1>1, <1>8, <1>10, <1>11 DEF Quad, All
<1>13. OnlyOf(t) /\ Writes(M, L, B)
  BY <1>1 DEF OnlyOf, Writes, AtomicType
<1>14. Turns(t, S, M, L, B, S, X, L, M)
  BY <1>1, <1>3, <1>9, <1>11, <1>12, <1>13 DEF Turns
<1> QED BY <1>2, <1>4, <1>7, <1>8, <1>14

\* A step that changes no list.
LEMMA SameLists ==
    ASSUME NEW W, NEW S, NEW M, NEW L, NEW B, NEW t \in Thread, Now(W, t, S, M, L, B), AtomicType,
           loose' = loose, OnlyOf(t), Writes(M, L, B), Path(next', head', S, NULL),
           Knows(next', q'[t], pc'[t], old'[t], batch'[t], list'[t], M, L, B)
    PROVE  Turns(t, S, M, L, B, S, M, L, B)
<1>1. Quad(S, M, L, B) /\ All(S, M, L, B) \intersect loose = {} /\ loose \subseteq Node
  BY DEF Now, AtomicType
<1> QED BY <1>1 DEF Turns

\* The link behind the last node is written: only t has this node.
LEMMA LinkStep ==
    ASSUME AtomicType, NEW W, NEW t \in Thread, Link(t),
           NEW S \in Seq(Node), NEW M \in Seq(Node), NEW L \in Seq(Node), NEW B \in Seq(Node),
           Now(W, t, S, M, L, B)
    PROVE  /\ AtomicType' /\ Turns(t, S, M, L, B, S, M, L, B)
<1>1. /\ pc[t] = "link" /\ next' = SetNext(next, batch[t].tail, old[t])
      /\ pc' = [pc EXCEPT ![t] = "cas"]
      /\ UNCHANGED <<head, q, loose, old, batch, list, how>>
  BY DEF Link
<1>2. /\ Knows(next, q[t], pc[t], old[t], batch[t], list[t], M, L, B) /\ Path(next, head, S, NULL)
      /\ Quad(S, M, L, B)
  BY DEF Now
<1>3. /\ L = <<>> /\ B # <<>> /\ Path(next, q[t].head, M, NULL) /\ q[t].tail = Final(M)
      /\ batch[t].tail = Final(B) /\ Path(next, batch[t].head, B, next[batch[t].tail])
  BY <1>1, <1>2 DEF Knows
<1>4. PICK x : x = batch[t].tail
  OBVIOUS
<1>5. x \in Node /\ x \in Range(B) /\ x = Final(B)
  BY <1>3, <1>4, Spots
<1>6. next \in [Node -> Pointer] /\ old[t] \in Pointer
  BY OfThread DEF AtomicType
<1>7. next' \in [Node -> Pointer] /\ next'[x] = old[t] /\ \A n \in Node : n # x => next'[n] = next[n]
  <2>1. next' = SetNext(next, x, old[t])
    BY <1>1, <1>4
  <2> QED BY <1>5, <1>6, <2>1 DEF SetNext
<1>8. AtomicType'
  BY <1>1, <1>7 DEF AtomicType
<1>9. /\ Range(S) \intersect Range(B) = {} /\ Range(M) \intersect Range(B) = {}
      /\ IsInjective(B) /\ Range(S) \subseteq Node /\ Range(M) \subseteq Node /\ Range(B) \subseteq Node
  BY <1>2, Spots DEF Quad
<1>10. (\A n \in Range(S) : next'[n] = next[n]) /\ \A n \in Range(M) : next'[n] = next[n]
  BY <1>5, <1>7, <1>9
<1>11. Path(next', head', S, NULL) /\ Path(next', q[t].head, M, NULL)
  BY <1>1, <1>2, <1>3, <1>10, PathKept
<1>12. \A n \in Range(B) : n # Final(B) => next'[n] = next[n]
  BY <1>5, <1>7, <1>9
<1>13. next'[Final(B)] = old[t]
  BY <1>5, <1>7
<1>14. Path(next', batch[t].head, B, old[t])
  BY <1>3, <1>9, <1>12, <1>13, PathRelinked
<1>15. pc'[t] = "cas"
  BY <1>1 DEF AtomicType
<1>16. Knows(next', q'[t], pc'[t], old'[t], batch'[t], list'[t], M, L, B)
  BY <1>1, <1>3, <1>4, <1>7, <1>11, <1>14, <1>15 DEF Knows
<1>17. OnlyOf(t) /\ Writes(M, L, B)
  BY <1>1, <1>5, <1>7 DEF OnlyOf, Writes, AtomicType
<1>18. Turns(t, S, M, L, B, S, M, L, B)
  BY <1>1, <1>11, <1>16, <1>17, SameLists
<1> QED BY <1>8, <1>18

\* The head is the one the list was linked to, perhaps again: the list that was
\* pushed is in front of the shared one.
LEMMA CasPushStep ==
    ASSUME AtomicType, NEW W, NEW t \in Thread, CasPush(t),
           NEW S \in Seq(Node), NEW M \in Seq(Node), NEW L \in Seq(Node), NEW B \in Seq(Node),
           Now(W, t, S, M, L, B)
    PROVE  /\ AtomicType' /\ L = <<>> /\ B \o S \in Seq(Node) /\ <<>> \in Seq(Node)
           /\ Turns(t, S, M, L, B, B \o S, M, L, <<>>)
<1>1. /\ pc[t] = "cas" /\ head = old[t] /\ head' = batch[t].head
      /\ batch' = [batch EXCEPT ![t] = Empty] /\ pc' = [pc EXCEPT ![t] = "idle"]
      /\ UNCHANGED <<next, q, loose, old, list, how>>
  BY DEF CasPush, HeadIsOld
<1>2. AtomicType'
  BY <1>1, OfThread DEF AtomicType, Pointer, Queue, Empty
<1>3. /\ Knows(next, q[t], pc[t], old[t], batch[t], list[t], M, L, B) /\ Path(next, head, S, NULL)
      /\ Quad(S, M, L, B) /\ All(S, M, L, B) \intersect loose = {} /\ loose \subseteq Node
  BY DEF Now, AtomicType
<1>4. /\ L = <<>> /\ Path(next, q[t].head, M, NULL) /\ q[t].tail = Final(M)
      /\ Path(next, batch[t].head, B, head)
  BY <1>1, <1>3 DEF Knows
<1>5. PICK X : X = B \o S
  OBVIOUS
<1>6. X \in Seq(Node) /\ Path(next', head', X, NULL)
  BY <1>1, <1>3, <1>4, <1>5, PathJoined, FinalJoined
<1>7. Range(X) = Range(B) \union Range(S) /\ IsInjective(X)
  <2>1. IsInjective(B) /\ IsInjective(S) /\ Range(B) \intersect Range(S) = {}
    BY <1>3 DEF Quad
  <2> QED BY <1>5, <2>1, RangeConcat
<1>8. PICK E : E = <<>>
  OBVIOUS
<1>9. E \in Seq(Node) /\ Range(E) = {} /\ IsInjective(E)
  BY <1>8, None
<1>10. pc'[t] = "idle" 
  BY <1>1 DEF AtomicType
<1>11. Knows(next', q'[t], pc'[t], old'[t], batch'[t], list'[t], M, L, E)
  BY <1>1, <1>4, <1>8, <1>10 DEF Knows
<1>12. Quad(X, M, L, E) /\ All(X, M, L, E) \intersect loose' = {}
       /\ All(X, M, L, E) \union loose' = All(S, M, L, B) \union loose
  BY <1>1, <1>3, <1>7, <1>9 DEF Quad, All
<1>13. OnlyOf(t) /\ Writes(M, L, B)
  BY <1>1 DEF OnlyOf, Writes, AtomicType
<1>14. Turns(t, S, M, L, B, X, M, L, E)
  BY <1>1, <1>3, <1>6, <1>11, <1>12, <1>13 DEF Turns
<1> QED BY <1>2, <1>4, <1>5, <1>6, <1>8, <1>9, <1>14

\* A step that loads the head, and no more.
LEMMA LoadStep ==
    ASSUME AtomicType, NEW W, NEW t \in Thread,
           CasPushFails(t) \/ CasResetFails(t) \/ \E h \in Take : StartTake(t, h),
           NEW S \in Seq(Node), NEW M \in Seq(Node), NEW L \in Seq(Node), NEW B \in Seq(Node),
           Now(W, t, S, M, L, B)
    PROVE  /\ AtomicType' /\ Turns(t, S, M, L, B, S, M, L, B)
<1>1. /\ old' = [old EXCEPT ![t] = head] /\ UNCHANGED <<head, next, q, loose, batch, list>>
  BY DEF CasPushFails, CasResetFails, StartTake
<1>2. \/ pc[t] = "cas" /\ pc' = [pc EXCEPT ![t] = "link"] /\ how' = how
      \/ pc[t] = "reset" /\ pc' = pc /\ how' = how
      \/ /\ pc[t] = "idle" /\ pc' = [pc EXCEPT ![t] = "reset"]
         /\ \E h \in Take : how' = [how EXCEPT ![t] = h]
  BY DEF CasPushFails, AfterFailedPush, CasResetFails, StartTake
<1>3. AtomicType'
  BY <1>1, <1>2 DEF AtomicType
<1>4. /\ Knows(next, q[t], pc[t], old[t], batch[t], list[t], M, L, B) /\ Path(next, head, S, NULL)
  BY DEF Now
<1>5. \/ pc[t] = "cas" /\ pc'[t] = "link"
      \/ pc[t] = "reset" /\ pc'[t] = "reset"
      \/ pc[t] = "idle" /\ pc'[t] = "reset"
  BY <1>2 DEF AtomicType
<1>6. Knows(next', q'[t], pc'[t], old'[t], batch'[t], list'[t], M, L, B)
  BY <1>1, <1>4, <1>5 DEF Knows
<1>7. OnlyOf(t) /\ Writes(M, L, B)
  BY <1>1, <1>2 DEF OnlyOf, Writes, AtomicType
<1>8. Turns(t, S, M, L, B, S, M, L, B)
  BY <1>1, <1>4, <1>6, <1>7, SameLists
<1> QED BY <1>3, <1>8

-----------------------------------------------------------------------------
(* The steps of a take                                                       *)

\* The swap that empties the shared list gives all of it to t.
LEMMA CasResetStep ==
    ASSUME AtomicType, NEW W, NEW t \in Thread, CasReset(t),
           NEW S \in Seq(Node), NEW M \in Seq(Node), NEW L \in Seq(Node), NEW B \in Seq(Node),
           Now(W, t, S, M, L, B)
    PROVE  /\ AtomicType' /\ L = <<>> /\ B = <<>> /\ <<>> \in Seq(Node)
           /\ how[t].reversed => pc'[t] = "reverse" /\ Turns(t, S, M, L, B, <<>>, M, S, B)
           /\ ~how[t].reversed => pc'[t] = "walk" /\ Turns(t, S, M, L, B, <<>>, M, L, S)
<1>1. /\ pc[t] = "reset" /\ head = old[t] /\ head' = NULL
      /\ UNCHANGED <<next, q, loose, old, how>>
  BY DEF CasReset, HeadIsOld
<1>2. /\ how[t].reversed => /\ batch' = [batch EXCEPT ![t] = [head |-> NULL, tail |-> head]]
                            /\ list' = [list EXCEPT ![t] = head]
                            /\ pc' = [pc EXCEPT ![t] = "reverse"]
      /\ ~how[t].reversed => /\ batch' = [batch EXCEPT ![t] = [head |-> head, tail |-> head]]
                             /\ list' = list
                             /\ pc' = [pc EXCEPT ![t] = "walk"]
  BY <1>1 DEF CasReset
<1>3. AtomicType'
  <2>1. /\ [head |-> NULL, tail |-> head] \in Queue /\ [head |-> head, tail |-> head] \in Queue
        /\ head \in Pointer /\ NULL \in Pointer
    BY OfThread DEF Queue, Pointer
  <2>2. /\ batch' \in [Thread -> Queue] /\ list' \in [Thread -> Pointer]
        /\ pc' \in [Thread -> {"idle", "link", "cas", "reset", "reverse", "walk"}]
    BY <1>2, <2>1 DEF AtomicType
  <2> QED BY <1>1, <2>1, <2>2 DEF AtomicType
<1>4. /\ Knows(next, q[t], pc[t], old[t], batch[t], list[t], M, L, B) /\ Path(next, head, S, NULL)
      /\ Quad(S, M, L, B) /\ All(S, M, L, B) \intersect loose = {} /\ loose \subseteq Node
  BY DEF Now, AtomicType
<1>5. /\ L = <<>> /\ B = <<>> /\ Path(next, q[t].head, M, NULL) /\ q[t].tail = Final(M)
  BY <1>1, <1>4 DEF Knows
<1>6. PICK E : E = <<>>
  OBVIOUS
<1>7. /\ E \in Seq(Node) /\ Range(E) = {} /\ IsInjective(E) /\ Path(next, NULL, E, NULL)
      /\ Range(L) = {} /\ Range(B) = {} /\ Path(next, NULL, B, NULL)
  BY <1>5, <1>6, None
<1>8. OnlyOf(t) /\ Writes(M, L, B)
  <2>1. CASE how[t].reversed
    BY <1>1, <1>2, <2>1 DEF OnlyOf, Writes, AtomicType
  <2>2. CASE ~how[t].reversed
    BY <1>1, <1>2, <2>2 DEF OnlyOf, Writes, AtomicType
  <2> QED BY <2>1, <2>2
<1>9. Path(next', head', E, NULL)
  BY <1>1, <1>7
<1>10. ASSUME how[t].reversed PROVE pc'[t] = "reverse" /\ Turns(t, S, M, L, B, E, M, S, B)
  <2>1. pc'[t] = "reverse" /\ batch'[t].head = NULL /\ batch'[t].tail = head /\ list'[t] = head
    BY <1>2, <1>10 DEF AtomicType
  <2>2. Knows(next', q'[t], pc'[t], old'[t], batch'[t], list'[t], M, S, B)
    BY <1>1, <1>4, <1>5, <1>7, <2>1 DEF Knows
  <2>3. Quad(E, M, S, B) /\ All(E, M, S, B) \intersect loose' = {}
        /\ All(E, M, S, B) \union loose' = All(S, M, L, B) \union loose
    BY <1>1, <1>4, <1>7 DEF Quad, All
  <2>4. Turns(t, S, M, L, B, E, M, S, B)
    BY <1>1, <1>4, <1>8, <1>9, <2>2, <2>3 DEF Turns
  <2> QED BY <2>1, <2>4
<1>11. ASSUME ~how[t].reversed PROVE pc'[t] = "walk" /\ Turns(t, S, M, L, B, E, M, L, S)
  <2>1. pc'[t] = "walk" /\ batch'[t].head = head /\ batch'[t].tail = head
    BY <1>2, <1>11 DEF AtomicType
  <2>2. head \in Range(S) \/ (S = <<>> /\ head = NULL)
    BY <1>4, PathNull
  <2>3. Knows(next', q'[t], pc'[t], old'[t], batch'[t], list'[t], M, L, S)
    BY <1>1, <1>4, <1>5, <2>1, <2>2 DEF Knows
  <2>4. Quad(E, M, L, S) /\ All(E, M, L, S) \intersect loose' = {}
        /\ All(E, M, L, S) \union loose' = All(S, M, L, B) \union loose
    BY <1>1, <1>4, <1>7 DEF Quad, All
  <2>5. Turns(t, S, M, L, B, E, M, L, S)
    BY <1>1, <1>4, <1>8, <1>9, <2>3, <2>4 DEF Turns
  <2> QED BY <2>1, <2>5
<1> QED BY <1>3, <1>5, <1>6, <1>7, <1>10, <1>11

\* A turn of the loop moves the first node to the front of the reversed list.
LEMMA ReverseStep ==
    ASSUME AtomicType, NEW W, NEW t \in Thread, Reverse(t),
           NEW S \in Seq(Node), NEW M \in Seq(Node), NEW L \in Seq(Node), NEW B \in Seq(Node),
           Now(W, t, S, M, L, B)
    PROVE  /\ AtomicType' /\ L # <<>> /\ Tail(L) \in Seq(Node) /\ Head(L) \in Node
           /\ <<Head(L)>> \o B \in Seq(Node)
           /\ Turns(t, S, M, L, B, S, M, Tail(L), <<Head(L)>> \o B)
<1>1. /\ pc[t] = "reverse" /\ list[t] # NULL
      /\ next' = SetNext(next, list[t], batch[t].head)
      /\ batch' = [batch EXCEPT ![t].head = list[t]]
      /\ list' = [list EXCEPT ![t] = next[list[t]]]
      /\ UNCHANGED <<head, q, loose, pc, old, how>>
  BY DEF Reverse
<1>2. /\ Knows(next, q[t], pc[t], old[t], batch[t], list[t], M, L, B) /\ Path(next, head, S, NULL)
      /\ Quad(S, M, L, B) /\ All(S, M, L, B) \intersect loose = {} /\ loose \subseteq Node
  BY DEF Now, AtomicType
<1>3. /\ Path(next, q[t].head, M, NULL) /\ q[t].tail = Final(M)
      /\ Path(next, list[t], L, NULL) /\ Path(next, batch[t].head, B, NULL)
      /\ batch[t].tail = IF B = <<>> THEN list[t] ELSE Final(B)
  BY <1>1, <1>2 DEF Knows
<1>4. PICK h, v : h = list[t] /\ v = batch[t].head
  OBVIOUS
<1>5. L # <<>> /\ h = L[1] /\ h \in Node /\ h = Head(L) /\ h \in Range(L)
  BY <1>1, <1>3, <1>4, PathNull, Spots
<1>6. next \in [Node -> Pointer] /\ v \in Pointer
  BY <1>4, OfThread DEF AtomicType
<1>7. next' \in [Node -> Pointer] /\ next'[h] = v /\ \A n \in Node : n # h => next'[n] = next[n]
  <2>1. next' = SetNext(next, h, v)
    BY <1>1, <1>4
  <2> QED BY <1>5, <1>6, <2>1 DEF SetNext
<1>8. /\ batch'[t].head = h /\ batch'[t].tail = batch[t].tail /\ list'[t] = next[h] /\ pc'[t] = "reverse"
      /\ batch' \in [Thread -> Queue] /\ list' \in [Thread -> Pointer]
  BY <1>1, <1>4, <1>5, <1>6 DEF AtomicType, Queue, Pointer
<1>9. AtomicType'
  BY <1>1, <1>7, <1>8 DEF AtomicType
<1>10. PICK X, Y : X = Tail(L) /\ Y = <<h>> \o B
  OBVIOUS
<1>11. X \in Seq(Node) /\ Range(L) = Range(X) \union {h} /\ IsInjective(X) /\ h \notin Range(X)
  <2>1. IsInjective(L)
    BY <1>2 DEF Quad
  <2> QED BY <1>5, <1>10, <2>1, RangeTail, TailItems
<1>12. h \notin Range(S) /\ h \notin Range(M) /\ h \notin Range(B) /\ IsInjective(B)
  BY <1>2, <1>5 DEF Quad
<1>13. Y \in Seq(Node) /\ Range(Y) = Range(B) \union {h} /\ IsInjective(Y)
  BY <1>5, <1>10, <1>12, RangeCons
<1>14. Range(S) \subseteq Node /\ Range(M) \subseteq Node /\ Range(B) \subseteq Node /\ Range(X) \subseteq Node
  BY <1>11, Spots
<1>15. Path(next', head', S, NULL)
  <2>1. \A n \in Range(S) : next'[n] = next[n]
    BY <1>7, <1>12, <1>14
  <2> QED BY <1>1, <1>2, <2>1, PathKept
<1>16. Path(next', q[t].head, M, NULL)
  <2>1. \A n \in Range(M) : next'[n] = next[n]
    BY <1>7, <1>12, <1>14
  <2> QED BY <1>3, <2>1, PathKept
<1>17. Path(next', v, B, NULL)
  <2>1. \A n \in Range(B) : next'[n] = next[n]
    BY <1>7, <1>12, <1>14
  <2>2. Path(next, v, B, NULL)
    BY <1>3, <1>4
  <2> QED BY <2>1, <2>2, PathKept
<1>18. Path(next', next[h], X, NULL)
  <2>1. \A n \in Range(X) : next'[n] = next[n]
    BY <1>7, <1>11, <1>14
  <2>2. Path(next, h, L, NULL)
    BY <1>3, <1>4
  <2>3. Path(next, next[h], X, NULL)
    BY <1>5, <1>10, <2>2, PathBehind
  <2> QED BY <1>11, <2>1, <2>3, PathKept
<1>19. Path(next', h, Y, NULL)
  <2>1. Path(next', h, <<h>>, v) /\ <<h>> \in Seq(Node)
    BY <1>5, <1>7, PathShort, Short
  <2> QED BY <1>10, <1>17, <2>1, PathJoined
<1>20. Y # <<>> /\ batch'[t].tail = Final(Y)
  <2>1. <<h>> \in Seq(Node) /\ <<h>> # <<>> /\ Final(<<h>>) = h
    BY <1>5, Short
  <2>2. Y # <<>> /\ Final(Y) = IF B = <<>> THEN h ELSE Final(B)
    BY <1>10, <2>1, FinalJoined
  <2> QED BY <1>3, <1>4, <1>8, <2>2
<1>21. Knows(next', q'[t], pc'[t], old'[t], batch'[t], list'[t], M, X, Y)
  BY <1>1, <1>3, <1>8, <1>16, <1>18, <1>19, <1>20 DEF Knows
<1>22. Quad(S, M, X, Y) /\ All(S, M, X, Y) \intersect loose' = {}
       /\ All(S, M, X, Y) \union loose' = All(S, M, L, B) \union loose
  BY <1>1, <1>2, <1>11, <1>12, <1>13 DEF Quad, All
<1>23. OnlyOf(t) /\ Writes(M, L, B)
  BY <1>1, <1>5, <1>7 DEF OnlyOf, Writes, AtomicType
<1>24. Turns(t, S, M, L, B, S, M, X, Y)
  BY <1>1, <1>2, <1>15, <1>21, <1>22, <1>23 DEF Turns
<1> QED BY <1>5, <1>9, <1>10, <1>11, <1>13, <1>24

\* The tail of a taken list moves to the next of its nodes.
LEMMA WalkStep ==
    ASSUME AtomicType, NEW W, NEW t \in Thread, Walk(t),
           NEW S \in Seq(Node), NEW M \in Seq(Node), NEW L \in Seq(Node), NEW B \in Seq(Node),
           Now(W, t, S, M, L, B)
    PROVE  /\ AtomicType' /\ Turns(t, S, M, L, B, S, M, L, B)
<1>1. /\ pc[t] = "walk" /\ batch[t].tail # NULL /\ next[batch[t].tail] # NULL
      /\ batch' = [batch EXCEPT ![t].tail = next[batch[t].tail]]
      /\ UNCHANGED <<head, next, q, loose, pc, old, list, how>>
  BY DEF Walk, More
<1>2. /\ Knows(next, q[t], pc[t], old[t], batch[t], list[t], M, L, B) /\ Path(next, head, S, NULL)
  BY DEF Now
<1>3. /\ L = <<>> /\ Path(next, q[t].head, M, NULL) /\ q[t].tail = Final(M)
      /\ Path(next, batch[t].head, B, NULL) /\ batch[t].tail \in Range(B)
  BY <1>1, <1>2 DEF Knows
<1>4. PICK i \in 1..Len(B) : B[i] = batch[t].tail
  BY <1>3, Spots
<1>5. next[batch[t].tail] = B[i + 1] /\ i # Len(B)
  BY <1>1, <1>3, <1>4 DEF Path
<1>6. i + 1 \in 1..Len(B)
  <2>1. Len(B) \in Nat
    BY Spots
  <2> QED BY <1>5, <2>1
<1>7. next[batch[t].tail] \in Range(B) /\ next[batch[t].tail] \in Pointer
  BY <1>5, <1>6, Spots DEF Pointer
<1>8. /\ batch'[t].head = batch[t].head /\ batch'[t].tail = next[batch[t].tail]
      /\ batch' \in [Thread -> Queue]
  BY <1>1, <1>7 DEF AtomicType, Queue
<1>9. AtomicType'
  BY <1>1, <1>8 DEF AtomicType
<1>10. Knows(next', q'[t], pc'[t], old'[t], batch'[t], list'[t], M, L, B)
  BY <1>1, <1>3, <1>7, <1>8 DEF Knows
<1>11. OnlyOf(t) /\ Writes(M, L, B)
  BY <1>1 DEF OnlyOf, Writes, AtomicType
<1>12. Turns(t, S, M, L, B, S, M, L, B)
  BY <1>1, <1>2, <1>10, <1>11, SameLists
<1> QED BY <1>9, <1>12

\* When the loop is done, t has the whole list with its last node.
LEMMA LoopDone ==
    ASSUME AtomicType, NEW W, NEW t \in Thread, Join(t),
           NEW S \in Seq(Node), NEW M \in Seq(Node), NEW L \in Seq(Node), NEW B \in Seq(Node),
           Now(W, t, S, M, L, B)
    PROVE  /\ pc[t] \in {"reverse", "walk"}
           /\ L = <<>> /\ Path(next, batch[t].head, B, NULL) /\ batch[t].tail = Final(B)
           /\ Path(next, q[t].head, M, NULL) /\ q[t].tail = Final(M)
<1>1. \/ pc[t] = "reverse" /\ list[t] = NULL
      \/ pc[t] = "walk" /\ ~More(t)
  BY DEF Join
<1>2. Knows(next, q[t], pc[t], old[t], batch[t], list[t], M, L, B)
  BY DEF Now
<1>3. Path(next, q[t].head, M, NULL) /\ q[t].tail = Final(M)
  BY <1>2 DEF Knows
<1>4. CASE pc[t] = "reverse" /\ list[t] = NULL
  <2>1. /\ Path(next, list[t], L, NULL) /\ Path(next, batch[t].head, B, NULL)
        /\ batch[t].tail = IF B = <<>> THEN list[t] ELSE Final(B)
    BY <1>2, <1>4 DEF Knows
  <2>2. L = <<>>
    BY <1>4, <2>1, PathNull
  <2>3. B = <<>> => Final(B) = NULL
    BY Spots
  <2> QED BY <1>3, <1>4, <2>1, <2>2, <2>3
<1>5. CASE pc[t] = "walk" /\ ~More(t)
  <2>1. /\ L = <<>> /\ Path(next, batch[t].head, B, NULL)
        /\ batch[t].tail \in Range(B) \/ (B = <<>> /\ batch[t].tail = NULL)
    BY <1>2, <1>5 DEF Knows
  <2>2. CASE B = <<>> /\ batch[t].tail = NULL
    BY <1>3, <1>5, <2>1, <2>2, Spots
  <2>3. CASE batch[t].tail \in Range(B)
    <3>1. PICK i \in 1..Len(B) : B[i] = batch[t].tail
      BY <2>3, Spots
    <3>2. Len(B) \in Nat /\ B[i] \in Node /\ NULL \notin Node /\ \A j \in 1..Len(B) : B[j] \in Node
      BY Spots, NullAssumption
    <3>3. next[batch[t].tail] = NULL
      BY <1>5, <3>1, <3>2 DEF More
    <3>4. next[B[i]] = IF i = Len(B) THEN NULL ELSE B[i + 1]
      BY <2>1 DEF Path
    <3>5. i # Len(B) => i + 1 \in 1..Len(B)
      BY <3>2
    <3>6. i = Len(B) /\ B # <<>>
      <4>1. B # <<>>
        BY <3>1, Spots
      <4> QED BY <3>1, <3>2, <3>3, <3>4, <3>5, <4>1
    <3> QED BY <1>3, <1>5, <2>1, <3>1, <3>6 DEF Final
  <2> QED BY <2>1, <2>2, <2>3
<1> QED BY <1>1, <1>4, <1>5

\* Two lists of t become one: the last node of the first is linked to the
\* second, if there is a first.
LEMMA Joined ==
    ASSUME NEW m, NEW k, NEW s \in Seq(Node), NEW u \in Seq(Node), NEW h, NEW g,
           IsInjective(s), IsInjective(u), Range(s) \intersect Range(u) = {},
           Path(m, h, s, NULL), Path(m, g, u, NULL),
           s # <<>> => k[Final(s)] = g,
           \A n \in Node : (s # <<>> /\ n = Final(s)) \/ k[n] = m[n]
    PROVE  Path(k, IF s = <<>> THEN g ELSE h, s \o u, NULL)
<1>1. Path(k, g, u, NULL)
  <2>1. \A n \in Range(u) : k[n] = m[n]
    BY Spots
  <2> QED BY <2>1, PathKept
<1>2. CASE s = <<>>
  <2>1. s \o u = u
    BY <1>2, ConcatEmptySeq
  <2> QED BY <1>1, <1>2, <2>1
<1>3. CASE s # <<>>
  <2>1. \A n \in Range(s) : n # Final(s) => k[n] = m[n]
    BY Spots
  <2>2. Path(k, h, s, g)
    BY <1>3, <2>1, PathRelinked
  <2>3. Path(k, h, s \o u, NULL)
    BY <1>1, <2>2, PathJoined
  <2> QED BY <1>3, <2>3
<1> QED BY <1>2, <1>3

\* What a thread that is not in an operation knows.
LEMMA KnowsIdle ==
    ASSUME NEW m, NEW a, NEW o, NEW b, NEW l, NEW M, NEW L, NEW B,
           L = <<>>, B = <<>>, Path(m, a.head, M, NULL), a.tail = Final(M)
    PROVE  Knows(m, a, "idle", o, b, l, M, L, B)
BY DEF Knows

\* The list that was taken is joined to the private one, at the end that the
\* operation chose.
LEMMA JoinStep ==
    ASSUME AtomicType, NEW W, NEW t \in Thread, Join(t),
           NEW S \in Seq(Node), NEW M \in Seq(Node), NEW L \in Seq(Node), NEW B \in Seq(Node),
           Now(W, t, S, M, L, B)
    PROVE  /\ AtomicType' /\ L = <<>> /\ pc[t] \in {"reverse", "walk"} /\ <<>> \in Seq(Node)
           /\ how[t].append => M \o B \in Seq(Node) /\ Turns(t, S, M, L, B, S, M \o B, L, <<>>)
           /\ ~how[t].append => B \o M \in Seq(Node) /\ Turns(t, S, M, L, B, S, B \o M, L, <<>>)
<1>1. /\ batch' = [batch EXCEPT ![t] = Empty] /\ pc' = [pc EXCEPT ![t] = "idle"]
      /\ UNCHANGED <<head, loose, old, list, how>>
  BY DEF Join
<1>2. /\ batch[t].head = NULL => next' = next /\ q' = q
      /\ batch[t].head # NULL /\ how[t].append =>
            next' = AppendLink(next, q[t], batch[t]) /\ q' = [q EXCEPT ![t] = Appended(q[t], batch[t])]
      /\ batch[t].head # NULL /\ ~how[t].append =>
            next' = SetNext(next, batch[t].tail, q[t].head) /\ q' = [q EXCEPT ![t] = Prepended(q[t], batch[t])]
  BY DEF Join
<1>3. /\ pc[t] \in {"reverse", "walk"}
      /\ L = <<>> /\ Path(next, batch[t].head, B, NULL) /\ batch[t].tail = Final(B)
      /\ Path(next, q[t].head, M, NULL) /\ q[t].tail = Final(M)
  BY LoopDone
<1>4. /\ Path(next, head, S, NULL) /\ Quad(S, M, L, B)
      /\ All(S, M, L, B) \intersect loose = {} /\ loose \subseteq Node
  BY DEF Now, AtomicType
<1>5. /\ IsInjective(M) /\ IsInjective(B) /\ Range(M) \intersect Range(B) = {}
      /\ Range(S) \intersect Range(M) = {} /\ Range(S) \intersect Range(B) = {}
      /\ Range(S) \subseteq Node /\ Range(M) \subseteq Node /\ Range(B) \subseteq Node
  BY <1>4, Spots DEF Quad
<1>6. /\ batch[t].head = NULL <=> B = <<>>
      /\ q[t].head = NULL <=> M = <<>>
      /\ B # <<>> => Final(B) \in Range(B)
      /\ M # <<>> => Final(M) \in Range(M)
      /\ M # <<>> => Final(M) # NULL
  <2>1. NULL \notin Node
    BY NullAssumption
  <2> QED BY <1>3, <2>1, PathNull, Spots
<1>7. PICK a, b : a = q[t] /\ b = batch[t]
  OBVIOUS
<1>8. /\ a \in Queue /\ b \in Queue /\ next \in [Node -> Pointer]
      /\ a.head \in Pointer /\ a.tail \in Pointer /\ b.head \in Pointer /\ b.tail \in Pointer
  BY <1>7, OfThread DEF AtomicType
<1>9. PICK E : E = <<>>
  OBVIOUS
<1>10. E \in Seq(Node) /\ Range(E) = {} /\ IsInjective(E)
  BY <1>9, None
<1>11. pc'[t] = "idle" /\ OnlyOf(t)
  <2>1. \A u \in Thread : u # t => q'[u] = q[u]
    BY <1>2 DEF AtomicType
  <2> QED BY <1>1, <2>1 DEF AtomicType, OnlyOf
<1>12. ASSUME how[t].append
       PROVE  /\ next' \in [Node -> Pointer] /\ q' \in [Thread -> Queue]
              /\ \A n \in Node : (M # <<>> /\ n = Final(M)) \/ next'[n] = next[n]
              /\ M # <<>> => next'[Final(M)] = b.head
              /\ q'[t].head = IF M = <<>> THEN b.head ELSE a.head
              /\ q'[t].tail = Final(M \o B)
  <2>1. Final(M \o B) = IF B = <<>> THEN Final(M) ELSE Final(B)
    BY FinalJoined
  <2>2. CASE B = <<>>
    <3>1. next' = next /\ q' = q /\ b.head = NULL
      BY <1>2, <1>6, <1>7, <2>2
    <3>2. M # <<>> => next[Final(M)] = NULL
      BY <1>3, PathEnd
    <3>3. M = <<>> => a.head = NULL
      BY <1>6, <1>7
    <3> QED BY <1>3, <1>7, <1>8, <2>1, <2>2, <3>1, <3>2, <3>3 DEF AtomicType
  <2>3. CASE B # <<>>
    <3>1. next' = AppendLink(next, a, b) /\ q' = [q EXCEPT ![t] = Appended(a, b)]
      BY <1>2, <1>6, <1>7, <1>12, <2>3
    <3>2. Appended(a, b) = [head |-> IF M = <<>> THEN b.head ELSE a.head, tail |-> b.tail]
      BY <1>6, <1>7 DEF Appended
    <3>3. q' \in [Thread -> Queue] /\ q'[t] = Appended(a, b)
      BY <1>8, <3>1, <3>2 DEF AtomicType, Queue
    <3>4. CASE M = <<>>
      <4>1. next' = next
        BY <1>6, <1>7, <3>1, <3>4 DEF AppendLink
      <4> QED BY <1>3, <1>7, <1>8, <2>1, <2>3, <3>2, <3>3, <3>4, <4>1
    <3>5. CASE M # <<>>
      <4>1. next' = SetNext(next, Final(M), b.head) /\ Final(M) \in Node
        BY <1>3, <1>5, <1>6, <1>7, <3>1, <3>5 DEF AppendLink
      <4>2. PICK x, v : x = Final(M) /\ v = b.head
        OBVIOUS
      <4>3. next' = SetNext(next, x, v) /\ x \in Node /\ v \in Pointer
        BY <1>8, <4>1, <4>2
      <4>4. next' \in [Node -> Pointer] /\ next'[x] = v /\ \A n \in Node : n # x => next'[n] = next[n]
        BY <1>8, <4>3 DEF SetNext
      <4> QED BY <1>3, <1>7, <2>1, <2>3, <3>2, <3>3, <3>5, <4>2, <4>4
    <3> QED BY <3>4, <3>5
  <2> QED BY <2>2, <2>3
<1>13. ASSUME ~how[t].append
       PROVE  /\ next' \in [Node -> Pointer] /\ q' \in [Thread -> Queue]
              /\ \A n \in Node : (B # <<>> /\ n = Final(B)) \/ next'[n] = next[n]
              /\ B # <<>> => next'[Final(B)] = a.head
              /\ q'[t].head = IF B = <<>> THEN a.head ELSE b.head
              /\ q'[t].tail = Final(B \o M)
  <2>1. Final(B \o M) = IF M = <<>> THEN Final(B) ELSE Final(M)
    BY FinalJoined
  <2>2. CASE B = <<>>
    <3>1. next' = next /\ q' = q
      BY <1>2, <1>6, <2>2
    <3>2. M = <<>> => Final(M) = Final(B)
      BY <2>2
    <3> QED BY <1>3, <1>7, <1>8, <2>1, <2>2, <3>1, <3>2 DEF AtomicType
  <2>3. CASE B # <<>>
    <3>1. next' = SetNext(next, b.tail, a.head) /\ q' = [q EXCEPT ![t] = Prepended(a, b)]
      BY <1>2, <1>6, <1>7, <1>13, <2>3
    <3>2. a.tail = NULL <=> M = <<>>
      BY <1>3, <1>6, <1>7, Spots
    <3>3. Prepended(a, b) = [head |-> b.head, tail |-> IF M = <<>> THEN b.tail ELSE a.tail]
      BY <3>2 DEF Prepended
    <3>4. q' \in [Thread -> Queue] /\ q'[t] = Prepended(a, b)
      BY <1>8, <3>1, <3>3 DEF AtomicType, Queue
    <3>5. PICK x, v : x = Final(B) /\ v = a.head
      OBVIOUS
    <3>6. next' = SetNext(next, x, v) /\ x \in Node /\ v \in Pointer
      BY <1>3, <1>5, <1>6, <1>7, <1>8, <2>3, <3>1, <3>5
    <3>7. next' \in [Node -> Pointer] /\ next'[x] = v /\ \A n \in Node : n # x => next'[n] = next[n]
      BY <1>8, <3>6 DEF SetNext
    <3> QED BY <1>3, <1>7, <2>1, <2>3, <3>3, <3>4, <3>5, <3>7
  <2> QED BY <2>2, <2>3
<1>14. next' \in [Node -> Pointer] /\ q' \in [Thread -> Queue] /\ Writes(M, L, B)
  <2>1. CASE how[t].append
    BY <1>6, <1>12, <2>1 DEF Writes
  <2>2. CASE ~how[t].append
    BY <1>6, <1>13, <2>2 DEF Writes
  <2> QED BY <2>1, <2>2
<1>15. AtomicType'
  BY <1>1, <1>14 DEF AtomicType, Queue, Empty, Pointer
<1>16. Path(next', head', S, NULL)
  <2>1. \A n \in Range(S) : next'[n] = next[n]
    <3>1. CASE how[t].append
      BY <1>5, <1>6, <1>12, <3>1
    <3>2. CASE ~how[t].append
      BY <1>5, <1>6, <1>13, <3>2
    <3> QED BY <3>1, <3>2
  <2> QED BY <1>1, <1>4, <2>1, PathKept
<1>17. ASSUME how[t].append PROVE M \o B \in Seq(Node) /\ Turns(t, S, M, L, B, S, M \o B, L, E)
  <2>1. PICK X : X = M \o B
    OBVIOUS
  <2>2. X \in Seq(Node) /\ Range(X) = Range(M) \union Range(B) /\ IsInjective(X)
    BY <1>5, <2>1, RangeConcat, FinalJoined
  <2>3. Path(next', q'[t].head, X, NULL) /\ q'[t].tail = Final(X)
    <3>1. Path(next, a.head, M, NULL) /\ Path(next, b.head, B, NULL)
      BY <1>3, <1>7
    <3>2. Path(next', IF M = <<>> THEN b.head ELSE a.head, M \o B, NULL)
      BY <1>5, <1>12, <1>17, <3>1, Joined
    <3> QED BY <1>12, <1>17, <2>1, <3>2
  <2>4. Knows(next', q'[t], pc'[t], old'[t], batch'[t], list'[t], X, L, E)
    BY <1>3, <1>9, <1>11, <2>3, KnowsIdle
  <2>5. Quad(S, X, L, E) /\ All(S, X, L, E) \intersect loose' = {}
        /\ All(S, X, L, E) \union loose' = All(S, M, L, B) \union loose
    BY <1>1, <1>4, <1>10, <2>2 DEF Quad, All
  <2>6. Turns(t, S, M, L, B, S, X, L, E)
    BY <1>1, <1>4, <1>11, <1>14, <1>16, <2>4, <2>5 DEF Turns
  <2> QED BY <2>1, <2>2, <2>6
<1>18. ASSUME ~how[t].append PROVE B \o M \in Seq(Node) /\ Turns(t, S, M, L, B, S, B \o M, L, E)
  <2>1. PICK X : X = B \o M
    OBVIOUS
  <2>2. X \in Seq(Node) /\ Range(X) = Range(B) \union Range(M) /\ IsInjective(X)
    BY <1>5, <2>1, RangeConcat, FinalJoined
  <2>3. Path(next', q'[t].head, X, NULL) /\ q'[t].tail = Final(X)
    <3>1. Path(next, a.head, M, NULL) /\ Path(next, b.head, B, NULL)
      BY <1>3, <1>7
    <3>2. Path(next', IF B = <<>> THEN a.head ELSE b.head, B \o M, NULL)
      BY <1>5, <1>13, <1>18, <3>1, Joined
    <3> QED BY <1>13, <1>18, <2>1, <3>2
  <2>4. Knows(next', q'[t], pc'[t], old'[t], batch'[t], list'[t], X, L, E)
    BY <1>3, <1>9, <1>11, <2>3, KnowsIdle
  <2>5. Quad(S, X, L, E) /\ All(S, X, L, E) \intersect loose' = {}
        /\ All(S, X, L, E) \union loose' = All(S, M, L, B) \union loose
    BY <1>1, <1>4, <1>10, <2>2 DEF Quad, All
  <2>6. Turns(t, S, M, L, B, S, X, L, E)
    BY <1>1, <1>4, <1>11, <1>14, <1>16, <2>4, <2>5 DEF Turns
  <2> QED BY <2>1, <2>2, <2>6
<1> QED BY <1>3, <1>9, <1>10, <1>15, <1>17, <1>18

-----------------------------------------------------------------------------
(* The private lists                                                         *)

\* A loose node is put in front of the private list.
LEMMA PushItemFrontStep ==
    ASSUME AtomicType, NEW W, NEW t \in Thread, NEW n \in Node, PushItemFront(t, n),
           NEW S \in Seq(Node), NEW M \in Seq(Node), NEW L \in Seq(Node), NEW B \in Seq(Node),
           Now(W, t, S, M, L, B)
    PROVE  /\ AtomicType' /\ L = <<>> /\ B = <<>> /\ <<n>> \o M \in Seq(Node)
           /\ Turns(t, S, M, L, B, S, <<n>> \o M, L, B)
<1>1. /\ pc[t] = "idle" /\ n \in loose /\ loose' = loose \ {n}
      /\ next' = SetNext(next, n, q[t].head)
      /\ q' = [q EXCEPT ![t] = Prepended(q[t], [head |-> n, tail |-> n])]
      /\ UNCHANGED <<head, pc, old, batch, list, how>>
  BY DEF PushItemFront
<1>2. /\ Knows(next, q[t], pc[t], old[t], batch[t], list[t], M, L, B) /\ Path(next, head, S, NULL)
      /\ Quad(S, M, L, B) /\ All(S, M, L, B) \intersect loose = {} /\ loose \subseteq Node
  BY DEF Now, AtomicType
<1>3. L = <<>> /\ B = <<>> /\ Path(next, q[t].head, M, NULL) /\ q[t].tail = Final(M)
  BY <1>1, <1>2 DEF Knows
<1>4. PICK v : v = q[t].head
  OBVIOUS
<1>5. v \in Pointer /\ next \in [Node -> Pointer] /\ q[t].tail \in Pointer
  BY <1>4, OfThread DEF AtomicType
<1>6. next' \in [Node -> Pointer] /\ next'[n] = v /\ \A x \in Node : x # n => next'[x] = next[x]
  <2>1. next' = SetNext(next, n, v)
    BY <1>1, <1>4
  <2> QED BY <1>5, <2>1 DEF SetNext
<1>7. /\ n \notin Range(S) /\ n \notin Range(M) /\ Range(S) \subseteq Node /\ Range(M) \subseteq Node
      /\ IsInjective(M)
  BY <1>1, <1>2, Spots DEF All, Quad
<1>8. PICK X : X = <<n>> \o M
  OBVIOUS
<1>9. X \in Seq(Node) /\ Range(X) = Range(M) \union {n} /\ IsInjective(X)
  BY <1>7, <1>8, RangeCons
<1>10. Final(X) = IF M = <<>> THEN n ELSE Final(M)
  BY <1>8, Short, FinalJoined
<1>11. q[t].tail = NULL <=> M = <<>>
  BY <1>3, NullAssumption, Spots
<1>12. q' \in [Thread -> Queue] /\ q'[t].head = n /\ q'[t].tail = Final(X)
  <2>1. Prepended(q[t], [head |-> n, tail |-> n]) = [head |-> n, tail |-> Final(X)]
    BY <1>3, <1>10, <1>11 DEF Prepended
  <2>2. Final(X) \in Pointer
    BY <1>3, <1>5, <1>10 DEF Pointer
  <2>3. [head |-> n, tail |-> Final(X)] \in Queue
    BY <2>2 DEF Queue, Pointer
  <2> QED BY <1>1, <2>1, <2>3 DEF AtomicType
<1>13. AtomicType'
  BY <1>1, <1>6, <1>12 DEF AtomicType
<1>14. Path(next', head', S, NULL)
  <2>1. \A x \in Range(S) : next'[x] = next[x]
    BY <1>6, <1>7
  <2> QED BY <1>1, <1>2, <2>1, PathKept
<1>15. Path(next', n, X, NULL)
  <2>1. \A x \in Range(M) : next'[x] = next[x]
    BY <1>6, <1>7
  <2>2. Path(next, v, M, NULL)
    BY <1>3, <1>4
  <2>3. Path(next', v, M, NULL)
    BY <2>1, <2>2, PathKept
  <2>4. Path(next', n, <<n>>, v) /\ <<n>> \in Seq(Node)
    BY <1>6, PathShort, Short
  <2> QED BY <1>8, <2>3, <2>4, PathJoined
<1>16. pc'[t] = "idle" /\ Path(next', q'[t].head, X, NULL)
  BY <1>1, <1>12, <1>15
<1>17. Knows(next', q'[t], pc'[t], old'[t], batch'[t], list'[t], X, L, B)
  BY <1>3, <1>12, <1>16, KnowsIdle
<1>18. Quad(S, X, L, B) /\ All(S, X, L, B) \intersect loose' = {}
       /\ All(S, X, L, B) \union loose' = All(S, M, L, B) \union loose
  BY <1>1, <1>2, <1>9 DEF Quad, All
<1>19. OnlyOf(t) /\ Writes(M, L, B)
  BY <1>1, <1>6 DEF OnlyOf, Writes, AtomicType
<1>20. Turns(t, S, M, L, B, S, X, L, B)
  BY <1>1, <1>2, <1>14, <1>17, <1>18, <1>19 DEF Turns
<1> QED BY <1>3, <1>8, <1>9, <1>13, <1>20

\* A loose node is put behind the private list.
LEMMA PushItemBackStep ==
    ASSUME AtomicType, NEW W, NEW t \in Thread, NEW n \in Node, PushItemBack(t, n),
           NEW S \in Seq(Node), NEW M \in Seq(Node), NEW L \in Seq(Node), NEW B \in Seq(Node),
           Now(W, t, S, M, L, B)
    PROVE  /\ AtomicType' /\ L = <<>> /\ B = <<>> /\ M \o <<n>> \in Seq(Node)
           /\ Turns(t, S, M, L, B, S, M \o <<n>>, L, B)
<1>1. /\ pc[t] = "idle" /\ n \in loose /\ loose' = loose \ {n}
      /\ q[t].tail = NULL => next' = SetNext(next, n, NULL)
      /\ q[t].tail # NULL => next' = SetNext(SetNext(next, n, NULL), q[t].tail, n)
      /\ q' = [q EXCEPT ![t] = [head |-> IF q[t].tail = NULL THEN n ELSE q[t].head, tail |-> n]]
      /\ UNCHANGED <<head, pc, old, batch, list, how>>
  BY DEF PushItemBack
<1>2. /\ Knows(next, q[t], pc[t], old[t], batch[t], list[t], M, L, B) /\ Path(next, head, S, NULL)
      /\ Quad(S, M, L, B) /\ All(S, M, L, B) \intersect loose = {} /\ loose \subseteq Node
  BY DEF Now, AtomicType
<1>3. L = <<>> /\ B = <<>> /\ Path(next, q[t].head, M, NULL) /\ q[t].tail = Final(M)
  BY <1>1, <1>2 DEF Knows
<1>4. PICK m : m = SetNext(next, n, NULL)
  OBVIOUS
<1>5. next \in [Node -> Pointer] /\ q[t].head \in Pointer /\ NULL \in Pointer /\ n \in Pointer
  BY OfThread DEF AtomicType, Pointer
<1>6. m \in [Node -> Pointer] /\ m[n] = NULL /\ \A x \in Node : x # n => m[x] = next[x]
  BY <1>4, <1>5 DEF SetNext
<1>7. /\ n \notin Range(S) /\ n \notin Range(M) /\ Range(S) \subseteq Node /\ Range(M) \subseteq Node
      /\ IsInjective(M) /\ Range(S) \intersect Range(M) = {}
  BY <1>1, <1>2, Spots DEF All, Quad
<1>8. q[t].tail = NULL <=> M = <<>>
  BY <1>3, NullAssumption, Spots
<1>9. M # <<>> => Final(M) \in Range(M) /\ Final(M) \in Node
  BY Spots
<1>10. /\ next' \in [Node -> Pointer] /\ (M # <<>> => next'[Final(M)] = n)
       /\ \A x \in Node : (M # <<>> /\ x = Final(M)) \/ next'[x] = m[x]
  <2>1. CASE M = <<>>
    <3>1. next' = m
      BY <1>1, <1>4, <1>8, <2>1
    <3> QED BY <1>6, <2>1, <3>1
  <2>2. CASE M # <<>>
    <3>1. PICK y : y = Final(M)
      OBVIOUS
    <3>2. next' = SetNext(m, y, n) /\ y \in Node
      BY <1>1, <1>3, <1>4, <1>8, <1>9, <2>2, <3>1
    <3>3. next' \in [Node -> Pointer] /\ next'[y] = n /\ \A x \in Node : x # y => next'[x] = m[x]
      BY <1>5, <1>6, <3>2 DEF SetNext
    <3> QED BY <2>2, <3>1, <3>3
  <2> QED BY <2>1, <2>2
<1>11. PICK N, X : N = <<n>> /\ X = M \o N
  OBVIOUS
<1>12. N \in Seq(Node) /\ Range(N) = {n} /\ IsInjective(N) /\ N # <<>> /\ Final(N) = n
  BY <1>11, Short
<1>13. X \in Seq(Node) /\ Range(X) = Range(M) \union {n} /\ IsInjective(X) /\ Final(X) = n
  <2>1. Range(M) \intersect Range(N) = {}
    BY <1>7, <1>12
  <2>2. X \in Seq(Node) /\ Final(X) = n
    BY <1>11, <1>12, FinalJoined
  <2>3. Range(M \o N) = Range(M) \union Range(N) /\ IsInjective(M \o N)
    BY <1>7, <1>12, <2>1, RangeConcat
  <2> QED BY <1>11, <1>12, <2>2, <2>3
<1>14. /\ q' \in [Thread -> Queue] /\ q'[t].tail = Final(X)
       /\ q'[t].head = IF M = <<>> THEN n ELSE q[t].head
  <2>1. [head |-> IF q[t].tail = NULL THEN n ELSE q[t].head, tail |-> n] \in Queue
    BY <1>5 DEF Queue
  <2> QED BY <1>1, <1>8, <1>13, <2>1 DEF AtomicType
<1>15. AtomicType'
  BY <1>1, <1>10, <1>14 DEF AtomicType
<1>16. Path(next', head', S, NULL)
  <2>1. \A x \in Range(S) : next'[x] = next[x]
    BY <1>6, <1>7, <1>9, <1>10
  <2> QED BY <1>1, <1>2, <2>1, PathKept
<1>17. Path(next', q'[t].head, X, NULL)
  <2>1. Path(m, q[t].head, M, NULL)
    <3>1. \A x \in Range(M) : m[x] = next[x]
      BY <1>6, <1>7
    <3> QED BY <1>3, <3>1, PathKept
  <2>2. Path(m, n, N, NULL)
    BY <1>6, <1>11, PathShort
  <2>3. Range(M) \intersect Range(N) = {}
    BY <1>7, <1>12
  <2>4. Path(next', IF M = <<>> THEN n ELSE q[t].head, M \o N, NULL)
    BY <1>7, <1>10, <1>12, <2>1, <2>2, <2>3, Joined
  <2> QED BY <1>11, <1>14, <2>4
<1>18. pc'[t] = "idle"
  BY <1>1
<1>19. Knows(next', q'[t], pc'[t], old'[t], batch'[t], list'[t], X, L, B)
  BY <1>3, <1>14, <1>17, <1>18, KnowsIdle
<1>20. Quad(S, X, L, B) /\ All(S, X, L, B) \intersect loose' = {}
       /\ All(S, X, L, B) \union loose' = All(S, M, L, B) \union loose
  BY <1>1, <1>2, <1>13 DEF Quad, All
<1>21. OnlyOf(t) /\ Writes(M, L, B)
  <2>1. OnlyOf(t)
    BY <1>1 DEF OnlyOf, AtomicType
  <2>2. Writes(M, L, B)
    BY <1>1, <1>6, <1>9, <1>10 DEF Writes
  <2> QED BY <2>1, <2>2
<1>22. Turns(t, S, M, L, B, S, X, L, B)
  BY <1>1, <1>2, <1>16, <1>19, <1>20, <1>21 DEF Turns
<1> QED BY <1>3, <1>11, <1>13, <1>15, <1>22

\* The first node of the private list leaves it.
LEMMA PopFrontStep ==
    ASSUME AtomicType, NEW W, NEW t \in Thread, PopFront(t),
           NEW S \in Seq(Node), NEW M \in Seq(Node), NEW L \in Seq(Node), NEW B \in Seq(Node),
           Now(W, t, S, M, L, B)
    PROVE  /\ AtomicType' /\ L = <<>> /\ B = <<>> /\ M # <<>> /\ Tail(M) \in Seq(Node)
           /\ Turns(t, S, M, L, B, S, Tail(M), L, B)
<1>1. /\ pc[t] = "idle" /\ q[t].head # NULL /\ loose' = loose \union {q[t].head}
      /\ q' = [q EXCEPT ![t] = [head |-> next[q[t].head], tail |-> TailPopped(q[t])]]
      /\ UNCHANGED <<head, next, pc, old, batch, list, how>>
  BY DEF PopFront
<1>2. /\ Knows(next, q[t], pc[t], old[t], batch[t], list[t], M, L, B) /\ Path(next, head, S, NULL)
      /\ Quad(S, M, L, B) /\ All(S, M, L, B) \intersect loose = {} /\ loose \subseteq Node
  BY DEF Now, AtomicType
<1>3. L = <<>> /\ B = <<>> /\ Path(next, q[t].head, M, NULL) /\ q[t].tail = Final(M)
  BY <1>1, <1>2 DEF Knows
<1>4. PICK h : h = q[t].head
  OBVIOUS
<1>5. M # <<>> /\ h = M[1] /\ h \in Node /\ h = Head(M)
  BY <1>1, <1>3, <1>4, PathNull, Spots
<1>6. PICK X : X = Tail(M)
  OBVIOUS
<1>7. X \in Seq(Node) /\ Range(M) = Range(X) \union {h} /\ IsInjective(X) /\ h \notin Range(X)
  <2>1. IsInjective(M)
    BY <1>2 DEF Quad
  <2> QED BY <1>5, <1>6, <2>1, RangeTail, TailItems
<1>8. Path(next, next[h], X, NULL)
  <2>1. Path(next, h, M, NULL)
    BY <1>3, <1>4
  <2> QED BY <1>5, <1>6, <2>1, PathBehind
<1>9. Final(X) = IF X = <<>> THEN NULL ELSE Final(M)
  BY <1>5, <1>6, FinalBehind
<1>10. next[h] = NULL <=> X = <<>>
  BY <1>7, <1>8, PathNull
<1>11. TailPopped(q[t]) = Final(X)
  BY <1>3, <1>4, <1>9, <1>10 DEF TailPopped
<1>12. next[h] \in Pointer /\ Final(X) \in Pointer
  <2>1. next \in [Node -> Pointer]
    BY DEF AtomicType
  <2> QED BY <1>5, <1>7, <2>1, Spots DEF Pointer
<1>13. q' \in [Thread -> Queue] /\ q'[t].head = next[h] /\ q'[t].tail = Final(X)
  <2>1. [head |-> next[h], tail |-> Final(X)] \in Queue
    BY <1>12 DEF Queue
  <2>2. q' = [q EXCEPT ![t] = [head |-> next[h], tail |-> Final(X)]]
    BY <1>1, <1>4, <1>11
  <2> QED BY <2>1, <2>2 DEF AtomicType
<1>14. AtomicType'
  BY <1>1, <1>4, <1>5, <1>13 DEF AtomicType
<1>15. pc'[t] = "idle" /\ Path(next', q'[t].head, X, NULL)
  BY <1>1, <1>8, <1>13
<1>16. Knows(next', q'[t], pc'[t], old'[t], batch'[t], list'[t], X, L, B)
  BY <1>3, <1>13, <1>15, KnowsIdle
<1>17. Quad(S, X, L, B) /\ All(S, X, L, B) \intersect loose' = {}
       /\ All(S, X, L, B) \union loose' = All(S, M, L, B) \union loose
  BY <1>1, <1>2, <1>4, <1>7 DEF Quad, All
<1>18. OnlyOf(t) /\ Writes(M, L, B)
  BY <1>1 DEF OnlyOf, Writes, AtomicType
<1>19. loose' \subseteq Node
  BY <1>1, <1>2, <1>4, <1>5
<1>20. Turns(t, S, M, L, B, S, X, L, B)
  BY <1>1, <1>2, <1>16, <1>17, <1>18, <1>19 DEF Turns
<1> QED BY <1>3, <1>5, <1>6, <1>7, <1>14, <1>20

-----------------------------------------------------------------------------
(* The invariant                                                             *)

\* All lists are empty at first.
LEMMA AtomicInit == Init => AtomicInv
<1> HAVE Init
<1>1. PICK W : W = [p \in Place |-> <<>>]
  OBVIOUS
<1>2. <<>> \in Seq(Node) /\ Range(<<>>) = {} /\ IsInjective(<<>>) /\ Final(<<>>) = NULL
      /\ \A m : Path(m, NULL, <<>>, NULL)
  BY None
<1>3. W \in [Place -> Seq(Node)] /\ \A p \in Place : W[p] = <<>>
  BY <1>1, <1>2
<1>4. Apart(W) /\ Covers(W, loose)
  BY <1>2, <1>3 DEF Apart, Covers, Init
<1>5. AtomicType
  BY DEF Init, AtomicType, Pointer, Queue, Empty, Take
<1>6. Path(next, head, W[AtShared], NULL)
  <2>1. AtShared \in Place
    BY DEF Place
  <2> QED BY <1>2, <1>3, <2>1 DEF Init
<1>7. ASSUME NEW t \in Thread
      PROVE  Knows(next, q[t], pc[t], old[t], batch[t], list[t], W[AtMine(t)], W[AtList(t)], W[AtBatch(t)])
  <2>1. W[AtMine(t)] = <<>> /\ W[AtList(t)] = <<>> /\ W[AtBatch(t)] = <<>>
    BY <1>3, Places4 DEF Own
  <2>2. q[t].head = NULL /\ q[t].tail = NULL /\ pc[t] = "idle"
    BY DEF Init, Empty
  <2>3. Path(next, q[t].head, <<>>, NULL) /\ q[t].tail = Final(<<>>)
    BY <1>2, <2>2
  <2> QED BY <2>1, <2>2, <2>3, KnowsIdle
<1>8. Held(W)
  BY <1>4, <1>6, <1>7 DEF Held
<1> QED BY <1>3, <1>5, <1>8 DEF AtomicInv

\* The lists after a step of t are lists again.
Lists(t, S, M, L, B) ==
    \E S1, M1, L1, B1 \in Seq(Node) : Turns(t, S, M, L, B, S1, M1, L1, B1)

\* Whatever t does.
LEMMA ThreadStep ==
    ASSUME AtomicType, NEW W, NEW t \in Thread, PushStep(t) \/ TakeStep(t) \/ PrivateStep(t),
           NEW S \in Seq(Node), NEW M \in Seq(Node), NEW L \in Seq(Node), NEW B \in Seq(Node),
           Now(W, t, S, M, L, B)
    PROVE  AtomicType' /\ Lists(t, S, M, L, B)
<1>1. ASSUME NEW n \in Node, StartPush(t, n) PROVE AtomicType' /\ Lists(t, S, M, L, B)
  <2>1. PICK X : X = <<n>>
    OBVIOUS
  <2>2. AtomicType' /\ X \in Seq(Node) /\ Turns(t, S, M, L, B, S, M, L, X)
    BY <1>1, <2>1, StartPushStep
  <2> QED BY <2>2 DEF Lists
<1>2. ASSUME StartPrepend(t) PROVE AtomicType' /\ Lists(t, S, M, L, B)
  <2>1. PICK X : X = <<>>
    OBVIOUS
  <2>2. AtomicType' /\ X \in Seq(Node) /\ Turns(t, S, M, L, B, S, X, L, M)
    BY <1>2, <2>1, StartPrependStep
  <2> QED BY <2>2 DEF Lists
<1>3. ASSUME Link(t) PROVE AtomicType' /\ Lists(t, S, M, L, B)
  BY <1>3, LinkStep DEF Lists
<1>4. ASSUME CasPush(t) PROVE AtomicType' /\ Lists(t, S, M, L, B)
  BY <1>4, CasPushStep DEF Lists
<1>5. ASSUME CasPushFails(t) \/ CasResetFails(t) \/ \E h \in Take : StartTake(t, h)
      PROVE  AtomicType' /\ Lists(t, S, M, L, B)
  BY <1>5, LoadStep DEF Lists
<1>6. ASSUME CasReset(t) PROVE AtomicType' /\ Lists(t, S, M, L, B)
  <2>1. how[t].reversed \in BOOLEAN
    BY OfThread
  <2> QED BY <1>6, <2>1, CasResetStep DEF Lists
<1>7. ASSUME Reverse(t) PROVE AtomicType' /\ Lists(t, S, M, L, B)
  BY <1>7, ReverseStep DEF Lists
<1>8. ASSUME Walk(t) PROVE AtomicType' /\ Lists(t, S, M, L, B)
  BY <1>8, WalkStep DEF Lists
<1>9. ASSUME Join(t) PROVE AtomicType' /\ Lists(t, S, M, L, B)
  <2>1. how[t].append \in BOOLEAN
    BY OfThread
  <2> QED BY <1>9, <2>1, JoinStep DEF Lists
<1>10. ASSUME NEW n \in Node, PushItemFront(t, n) PROVE AtomicType' /\ Lists(t, S, M, L, B)
  <2>1. PICK X : X = <<n>> \o M
    OBVIOUS
  <2>2. AtomicType' /\ X \in Seq(Node) /\ Turns(t, S, M, L, B, S, X, L, B)
    BY <1>10, <2>1, PushItemFrontStep
  <2> QED BY <2>2 DEF Lists
<1>11. ASSUME NEW n \in Node, PushItemBack(t, n) PROVE AtomicType' /\ Lists(t, S, M, L, B)
  <2>1. PICK X : X = M \o <<n>>
    OBVIOUS
  <2>2. AtomicType' /\ X \in Seq(Node) /\ Turns(t, S, M, L, B, S, X, L, B)
    BY <1>11, <2>1, PushItemBackStep
  <2> QED BY <2>2 DEF Lists
<1>12. ASSUME PopFront(t) PROVE AtomicType' /\ Lists(t, S, M, L, B)
  BY <1>12, PopFrontStep DEF Lists
<1> QED BY <1>1, <1>2, <1>3, <1>4, <1>5, <1>6, <1>7, <1>8, <1>9, <1>10, <1>11, <1>12
        DEF PushStep, TakeStep, PrivateStep

\* No step breaks a list or puts a node in two.
LEMMA AtomicStep == AtomicInv /\ [Next]_vars => AtomicInv'
<1> SUFFICES ASSUME AtomicInv, [Next]_vars PROVE AtomicInv'
  OBVIOUS
<1>1. AtomicType
  BY DEF AtomicInv
<1>2. PICK W \in [Place -> Seq(Node)] : Held(W)
  BY DEF AtomicInv
<1>3. ASSUME NEW t \in Thread, PushStep(t) \/ TakeStep(t) \/ PrivateStep(t) PROVE AtomicInv'
  <2>1. PICK S, M, L, B \in Seq(Node) : Now(W, t, S, M, L, B)
    BY <1>1, <1>2, NowHeld
  <2>2. AtomicType' /\ Lists(t, S, M, L, B)
    BY <1>1, <1>3, <2>1, ThreadStep
  <2>3. PICK S1, M1, L1, B1 \in Seq(Node) : Turns(t, S, M, L, B, S1, M1, L1, B1)
    BY <2>2 DEF Lists
  <2>4. PICK V \in [Place -> Seq(Node)] : Put(V, W, t, S1, M1, L1, B1) /\ Held(V)'
    BY <1>1, <1>2, <2>1, <2>3, TurnsHeld
  <2> QED BY <2>2, <2>4 DEF AtomicInv
<1>4. ASSUME UNCHANGED vars PROVE AtomicInv'
  BY <1>1, <1>2, <1>4 DEF AtomicInv, AtomicType, Held, vars
<1> QED BY <1>3, <1>4 DEF Next

\* Of every reachable state of an atomic queue there are sequences that its
\* links spell, one for every list, and they share no node: neither a failed
\* compare-and-swap nor one that finds the head it had loaded, taken and pushed
\* again meanwhile, breaks a list.
THEOREM AtomicInvHolds == Spec => []AtomicInv
<1>1. Init => AtomicInv
  BY AtomicInit
<1>2. AtomicInv /\ [Next]_vars => AtomicInv'
  BY AtomicStep
<1> QED BY <1>1, <1>2, PTL DEF Spec

-----------------------------------------------------------------------------
(* The sequences of TaskLists                                                *)

TakenOf(c, L, B) == IF c = "reverse" THEN Reversed(L) \o B ELSE IF c = "walk" THEN B ELSE <<>>
MineOf(c, last, M, L, B) == IF last THEN M \o TakenOf(c, L, B) ELSE TakenOf(c, L, B) \o M
OfferedOf(c, B) == IF c \in {"link", "cas"} THEN B ELSE <<>>

\* Reversing keeps the elements.
LEMMA ReversedItems ==
    ASSUME NEW s \in Seq(Node)
    PROVE  /\ Reversed(s) \in Seq(Node) /\ Len(Reversed(s)) = Len(s)
           /\ \A i \in 1..Len(s) : Reversed(s)[i] = s[Len(s) + 1 - i]
           /\ Range(Reversed(s)) = Range(s) /\ (IsInjective(s) => IsInjective(Reversed(s)))
<1>1. PICK a, r : a = Len(s) /\ r = Reversed(s)
  OBVIOUS
<1>2. a \in Nat /\ DOMAIN s = 1..a /\ \A i \in 1..a : s[i] \in Node
  BY <1>1, Spots
<1>3. r = [i \in 1..a |-> s[a + 1 - i]]
  BY <1>1 DEF Reversed
<1>4. \A i \in 1..a : a + 1 - i \in 1..a /\ a + 1 - (a + 1 - i) = i
  BY <1>2
<1>5. r \in Seq(Node) /\ Len(r) = a /\ DOMAIN r = 1..a
  BY <1>2, <1>3, <1>4
<1>6. \A i \in 1..a : r[i] = s[a + 1 - i]
  BY <1>3
<1>7. Range(r) = Range(s)
  <2>1. Range(r) \subseteq Range(s)
    BY <1>2, <1>4, <1>5, <1>6 DEF Range
  <2>2. ASSUME NEW i \in 1..a PROVE \E j \in DOMAIN r : r[j] = s[i]
    <3>1. a + 1 - i \in 1..a /\ r[a + 1 - i] = s[a + 1 - (a + 1 - i)]
      BY <1>4, <1>6
    <3>2. r[a + 1 - i] = s[i]
      BY <1>4, <3>1
    <3> QED BY <1>5, <3>1, <3>2
  <2> QED BY <1>2, <2>1, <2>2 DEF Range
<1>8. ASSUME IsInjective(s) PROVE IsInjective(r)
  <2> SUFFICES ASSUME NEW i \in 1..a, NEW j \in 1..a, r[i] = r[j] PROVE i = j
    BY <1>5 DEF IsInjective
  <2>1. s[a + 1 - i] = s[a + 1 - j] /\ a + 1 - i \in DOMAIN s /\ a + 1 - j \in DOMAIN s
    BY <1>2, <1>4, <1>6
  <2>2. a + 1 - i = a + 1 - j
    BY <1>8, <2>1 DEF IsInjective
  <2> QED BY <1>2, <2>2
<1> QED BY <1>1, <1>5, <1>6, <1>7, <1>8

\* The first element comes last.
LEMMA ReversedTail ==
    ASSUME NEW s \in Seq(Node), s # <<>>, NEW u \in Seq(Node)
    PROVE  Reversed(Tail(s)) \o (<<Head(s)>> \o u) = Reversed(s) \o u
<1>1. PICK a, h, x : a = Len(s) /\ h = Head(s) /\ x = Tail(s)
  OBVIOUS
<1>2. /\ a \in Nat \ {0} /\ h \in Node /\ h = s[1] /\ x \in Seq(Node) /\ Len(x) = a - 1
      /\ \A i \in 1..(a - 1) : x[i] = s[i + 1]
  BY <1>1, TailItems
<1>3. PICK r, y : r = Reversed(s) /\ y = Reversed(x)
  OBVIOUS
<1>4. r \in Seq(Node) /\ Len(r) = a /\ \A i \in 1..a : r[i] = s[a + 1 - i]
  BY <1>1, <1>3, ReversedItems
<1>5. y \in Seq(Node) /\ Len(y) = a - 1 /\ \A i \in 1..(a - 1) : y[i] = x[a - i]
  <2>0. y \in Seq(Node) /\ Len(y) = Len(x) /\ \A i \in 1..Len(x) : y[i] = x[Len(x) + 1 - i]
    BY <1>2, <1>3, ReversedItems
  <2>1. y \in Seq(Node) /\ Len(y) = a - 1 /\ \A i \in 1..(a - 1) : y[i] = x[a - 1 + 1 - i]
    BY <1>2, <2>0
  <2>2. \A i \in 1..(a - 1) : a - 1 + 1 - i = a - i
    BY <1>2
  <2> QED BY <2>1, <2>2
<1>6. PICK z : z = y \o <<h>>
  OBVIOUS
<1>7. <<h>> \in Seq(Node) /\ Len(<<h>>) = 1 /\ <<h>>[1] = h
  BY <1>2
<1>8. /\ z \in Seq(Node) /\ Len(z) = a
      /\ \A i \in 1..a : z[i] = IF i <= a - 1 THEN y[i] ELSE <<h>>[i - (a - 1)]
  <2>1. /\ z \in Seq(Node) /\ Len(z) = a - 1 + 1
        /\ \A i \in 1..(a - 1 + 1) : z[i] = IF i <= a - 1 THEN y[i] ELSE <<h>>[i - (a - 1)]
    BY <1>5, <1>6, <1>7, ConcatProperties
  <2>2. a - 1 + 1 = a
    BY <1>2
  <2> QED BY <2>1, <2>2
<1>9. \A i \in 1..a : z[i] = r[i]
  <2> TAKE i \in 1..a
  <2>1. CASE i <= a - 1
    <3>1. i \in 1..(a - 1) /\ a - i \in 1..(a - 1) /\ a - i + 1 = a + 1 - i
      BY <1>2, <2>1
    <3>2. z[i] = x[a - i] /\ x[a - i] = s[a - i + 1]
      BY <1>2, <1>5, <1>8, <2>1, <3>1
    <3> QED BY <1>4, <3>1, <3>2
  <2>2. CASE ~(i <= a - 1)
    <3>1. i = a /\ i - (a - 1) = 1 /\ a + 1 - i = 1
      BY <1>2, <2>2
    <3>2. z[i] = h
      BY <1>7, <1>8, <2>2, <3>1
    <3>3. r[i] = s[1]
      BY <1>4, <3>1
    <3> QED BY <1>2, <3>2, <3>3
  <2> QED BY <2>1, <2>2
<1>10. z = r
  BY <1>4, <1>8, <1>9, SeqEqual
<1>11. y \o (<<h>> \o u) = (y \o <<h>>) \o u
  BY <1>5, <1>7, ConcatAssociative
<1> QED BY <1>1, <1>3, <1>6, <1>10, <1>11

\* What a thread holds in the view of TaskLists are the nodes of its lists.
LEMMA MineItems ==
    ASSUME NEW S \in Seq(Node), NEW M \in Seq(Node), NEW L \in Seq(Node), NEW B \in Seq(Node),
           Quad(S, M, L, B), NEW m, NEW a, NEW c, NEW o, NEW b, NEW l,
           c \in {"idle", "link", "cas", "reset", "reverse", "walk"},
           Knows(m, a, c, o, b, l, M, L, B), NEW last \in BOOLEAN
    PROVE  /\ MineOf(c, last, M, L, B) \in Seq(Node) /\ IsInjective(MineOf(c, last, M, L, B))
           /\ OfferedOf(c, B) \in Seq(Node) /\ IsInjective(OfferedOf(c, B))
           /\ Range(OfferedOf(c, B)) \subseteq Range(B)
           /\ Range(MineOf(c, last, M, L, B)) \subseteq Range(M) \union Range(L) \union Range(B)
           /\ Range(MineOf(c, last, M, L, B)) \intersect Range(OfferedOf(c, B)) = {}
           /\ Range(MineOf(c, last, M, L, B)) \union Range(OfferedOf(c, B))
                  = Range(M) \union Range(L) \union Range(B)
<1>1. /\ IsInjective(M) /\ IsInjective(L) /\ IsInjective(B) /\ Range(M) \intersect Range(L) = {}
      /\ Range(M) \intersect Range(B) = {} /\ Range(L) \intersect Range(B) = {}
  BY DEF Quad
<1>2. <<>> \in Seq(Node) /\ Range(<<>>) = {} /\ IsInjective(<<>>)
  BY None
<1>3. c # "reverse" => Range(L) = {}
  BY <1>2 DEF Knows
<1>4. c \in {"idle", "reset"} => Range(B) = {}
  BY <1>2 DEF Knows
<1>5. PICK T, O : T = TakenOf(c, L, B) /\ O = OfferedOf(c, B)
  OBVIOUS
<1>6. /\ T \in Seq(Node) /\ IsInjective(T) /\ Range(M) \intersect Range(T) = {}
      /\ Range(T) = IF c \in {"reverse", "walk"} THEN Range(L) \union Range(B) ELSE {}
  <2>1. CASE c = "reverse"
    <3>1. PICK r : r = Reversed(L)
      OBVIOUS
    <3>2. r \in Seq(Node) /\ Range(r) = Range(L) /\ IsInjective(r)
      BY <1>1, <3>1, ReversedItems
    <3>3. Range(r) \intersect Range(B) = {}
      BY <1>1, <3>2
    <3>4. r \o B \in Seq(Node) /\ Range(r \o B) = Range(r) \union Range(B) /\ IsInjective(r \o B)
      BY <1>1, <3>2, <3>3, RangeConcat, FinalJoined
    <3>5. T = r \o B
      BY <1>5, <2>1, <3>1 DEF TakenOf
    <3> QED BY <1>1, <2>1, <3>2, <3>4, <3>5
  <2>2. CASE c = "walk"
    <3>1. T = B
      BY <1>5, <2>2 DEF TakenOf
    <3> QED BY <1>1, <1>3, <2>2, <3>1
  <2>3. CASE c \notin {"reverse", "walk"}
    <3>1. T = <<>>
      BY <1>5, <2>3 DEF TakenOf
    <3> QED BY <1>2, <2>3, <3>1
  <2> QED BY <2>1, <2>2, <2>3
<1>7. /\ O \in Seq(Node) /\ IsInjective(O)
      /\ Range(O) = IF c \in {"link", "cas"} THEN Range(B) ELSE {}
  BY <1>1, <1>2, <1>5 DEF OfferedOf
<1>8. PICK X : X = MineOf(c, last, M, L, B)
  OBVIOUS
<1>9. X \in Seq(Node) /\ IsInjective(X) /\ Range(X) = Range(M) \union Range(T)
  <2>1. X = M \o T \/ X = T \o M
    BY <1>5, <1>8 DEF MineOf
  <2>2. /\ M \o T \in Seq(Node) /\ IsInjective(M \o T) /\ Range(M \o T) = Range(M) \union Range(T)
    BY <1>1, <1>6, RangeConcat, FinalJoined
  <2>3. Range(T) \intersect Range(M) = {}
    BY <1>6
  <2>4. /\ T \o M \in Seq(Node) /\ IsInjective(T \o M) /\ Range(T \o M) = Range(T) \union Range(M)
    BY <1>1, <1>6, <2>3, RangeConcat, FinalJoined
  <2> QED BY <2>1, <2>2, <2>4
<1>10. Range(X) \subseteq Range(M) \union Range(L) \union Range(B) /\ Range(O) \subseteq Range(B)
  BY <1>6, <1>7, <1>9
<1>11. Range(X) \intersect Range(O) = {}
  BY <1>1, <1>6, <1>7, <1>9
<1>12. Range(X) \union Range(O) = Range(M) \union Range(L) \union Range(B)
  BY <1>3, <1>4, <1>6, <1>7, <1>9
<1> QED BY <1>5, <1>7, <1>8, <1>9, <1>10, <1>11, <1>12

\* The sequences that the model follows through memory are the ones of W.
LEMMA ViewsOf ==
    ASSUME AtomicType, NEW W \in [Place -> Seq(Node)], Held(W)
    PROVE  /\ Shared = W[AtShared]
           /\ \A t \in Thread :
                 /\ Mine(t) = MineOf(pc[t], how[t].append, W[AtMine(t)], W[AtList(t)], W[AtBatch(t)])
                 /\ Offered(t) = OfferedOf(pc[t], W[AtBatch(t)])
<1>1. \A s \in Seq(Node) : \A h, e, last :
          /\ IsInjective(s) /\ Path(next, h, s, e)
          /\ (last = NULL /\ e = NULL) \/ (s # <<>> /\ last = Final(s))
          => UpTo(h, last) = s
  BY UpToNow DEF UpToFact, AtomicType
<1>2. \A s \in Seq(Node) : \A h : IsInjective(s) /\ Path(next, h, s, NULL) => Nodes(h) = s
  BY <1>1 DEF Nodes
<1>3. Shared = W[AtShared]
  <2>1. AtShared \in Place
    BY DEF Place
  <2>2. W[AtShared] \in Seq(Node) /\ IsInjective(W[AtShared]) /\ Path(next, head, W[AtShared], NULL)
    BY <2>1 DEF Held, Apart
  <2> QED BY <1>2, <2>2 DEF Shared
<1>4. ASSUME NEW t \in Thread
      PROVE  /\ Mine(t) = MineOf(pc[t], how[t].append, W[AtMine(t)], W[AtList(t)], W[AtBatch(t)])
             /\ Offered(t) = OfferedOf(pc[t], W[AtBatch(t)])
  <2>1. PICK S, M, L, B \in Seq(Node) : Now(W, t, S, M, L, B)
    BY NowHeld
  <2>2. /\ M = W[AtMine(t)] /\ L = W[AtList(t)] /\ B = W[AtBatch(t)]
        /\ IsInjective(M) /\ IsInjective(L) /\ IsInjective(B)
        /\ Knows(next, q[t], pc[t], old[t], batch[t], list[t], M, L, B)
    BY <2>1 DEF Now, Quad
  <2>3. Nodes(q[t].head) = M
    BY <1>2, <2>2 DEF Knows
  <2>4. pc[t] = "reverse" => Nodes(list[t]) = L /\ Nodes(batch[t].head) = B
    BY <1>2, <2>2 DEF Knows
  <2>5. pc[t] = "walk" => Nodes(batch[t].head) = B
    BY <1>2, <2>2 DEF Knows
  <2>6. pc[t] \in {"link", "cas"} => UpTo(batch[t].head, batch[t].tail) = B
    <3> HAVE pc[t] \in {"link", "cas"}
    <3>1. B # <<>> /\ batch[t].tail = Final(B) /\ Path(next, batch[t].head, B, next[batch[t].tail])
      BY <2>2 DEF Knows
    <3> QED BY <1>1, <2>2, <3>1
  <2>7. Offered(t) = OfferedOf(pc[t], B)
    BY <2>6 DEF Offered, OfferedOf
  <2>8. Taken(t) = TakenOf(pc[t], L, B)
    <3>1. CASE pc[t] = "reverse"
      <4>1. Taken(t) = Reversed(Nodes(list[t])) \o Nodes(batch[t].head)
        BY <3>1 DEF Taken
      <4> QED BY <2>4, <3>1, <4>1 DEF TakenOf
    <3>2. CASE pc[t] = "walk"
      <4>1. Taken(t) = Nodes(batch[t].head)
        BY <3>2 DEF Taken
      <4> QED BY <2>5, <3>2, <4>1 DEF TakenOf
    <3>3. CASE pc[t] # "reverse" /\ pc[t] # "walk"
      <4>1. Taken(t) = << >>
        BY <3>3 DEF Taken
      <4> QED BY <3>3, <4>1 DEF TakenOf
    <3> QED BY <3>1, <3>2, <3>3
  <2>9. Mine(t) = MineOf(pc[t], how[t].append, M, L, B)
    BY <2>3, <2>8 DEF Mine, MineOf
  <2> QED BY <2>2, <2>7, <2>9
<1> QED BY <1>3, <1>4

\* The same, as a formula for the state before and the state after a step.
ViewsFact ==
    \A W \in [Place -> Seq(Node)] : AtomicType /\ Held(W) =>
        /\ Shared = W[AtShared]
        /\ \A t \in Thread :
              /\ Mine(t) = MineOf(pc[t], how[t].append, W[AtMine(t)], W[AtList(t)], W[AtBatch(t)])
              /\ Offered(t) = OfferedOf(pc[t], W[AtBatch(t)])

\* ViewsOf says so.
LEMMA ViewsNow == ViewsFact
BY ViewsOf DEF ViewsFact

\* And it says so of the next state.
LEMMA ViewsThen == ViewsFact'
BY ViewsNow, PTL

\* What the threads hold, and what is shared, in terms of the lists.
LEMMA HoldItems ==
    ASSUME AtomicType, NEW W \in [Place -> Seq(Node)], Held(W), NEW t \in Thread
    PROVE  /\ Mine(t) \in Seq(Node) /\ IsInjective(Mine(t))
           /\ Offered(t) \in Seq(Node) /\ IsInjective(Offered(t))
           /\ Range(Mine(t)) \intersect Range(Offered(t)) = {}
           /\ Range(Mine(t)) \union Range(Offered(t))
                = Range(W[AtMine(t)]) \union Range(W[AtList(t)]) \union Range(W[AtBatch(t)])
<1>1. PICK S, M, L, B \in Seq(Node) : Now(W, t, S, M, L, B)
  BY NowHeld
<1>2. /\ M = W[AtMine(t)] /\ L = W[AtList(t)] /\ B = W[AtBatch(t)] /\ Quad(S, M, L, B)
      /\ Knows(next, q[t], pc[t], old[t], batch[t], list[t], M, L, B)
  BY <1>1 DEF Now
<1>3. PICK c, a : c = pc[t] /\ a = how[t].append
  OBVIOUS
<1>4. c \in {"idle", "link", "cas", "reset", "reverse", "walk"} /\ a \in BOOLEAN
  BY <1>3, OfThread DEF AtomicType
<1>5. Mine(t) = MineOf(c, a, M, L, B) /\ Offered(t) = OfferedOf(c, B)
  BY <1>2, <1>3, ViewsOf
<1>6. Knows(next, q[t], c, old[t], batch[t], list[t], M, L, B)
  BY <1>2, <1>3
<1>7. /\ MineOf(c, a, M, L, B) \in Seq(Node) /\ IsInjective(MineOf(c, a, M, L, B))
      /\ OfferedOf(c, B) \in Seq(Node) /\ IsInjective(OfferedOf(c, B))
      /\ Range(MineOf(c, a, M, L, B)) \intersect Range(OfferedOf(c, B)) = {}
      /\ Range(MineOf(c, a, M, L, B)) \union Range(OfferedOf(c, B))
             = Range(M) \union Range(L) \union Range(B)
  BY <1>2, <1>4, <1>6, MineItems
<1> QED BY <1>2, <1>5, <1>7

\* The set of elements of a list without repetition has as many as the list.
LEMMA InList ==
    ASSUME NEW s \in Seq(Node), IsInjective(s)
    PROVE  In(s) = Range(s) /\ Cardinality(In(s)) = Len(s)
<1>1. Len(s) \in Nat /\ DOMAIN s = 1..Len(s) /\ \A i \in 1..Len(s) : s[i] \in Node
  BY Spots
<1>2. In(s) = Range(s)
  BY DEF In, Range
<1>3. s \in Bijection(1..Len(s), In(s))
  <2>1. s \in [1..Len(s) -> In(s)]
    BY <1>1 DEF In
  <2>2. \A x \in In(s) : \E i \in 1..Len(s) : s[i] = x
    BY <1>1 DEF In
  <2> QED BY <1>1, <2>1, <2>2 DEF Bijection, Injection, Surjection, IsInjective
<1>4. ExistsBijection(1..Len(s), In(s))
  BY <1>3 DEF ExistsBijection
<1>5. Cardinality(In(s)) = Len(s)
  BY <1>1, <1>4, FS_CountingElements, FS_NatBijection
<1> QED BY <1>2, <1>5

\* The lists of W share no node, so what is shared, held and offered does not.
LEMMA OnePlaceOf == AtomicInv => OnePlace
<1> HAVE AtomicInv
<1>1. AtomicType
  BY DEF AtomicInv
<1>2. PICK W \in [Place -> Seq(Node)] : Held(W)
  BY DEF AtomicInv
<1>3. Apart(W) /\ Covers(W, loose)
  BY <1>2 DEF Held
<1>4. AtShared \in Place
  BY DEF Place
<1>5. Shared = W[AtShared] /\ Shared \in Seq(Node) /\ IsInjective(Shared)
  <2>1. Shared = W[AtShared]
    BY <1>1, <1>2, ViewsOf
  <2> QED BY <1>3, <1>4, <2>1 DEF Apart
<1>6. \A t \in Thread :
        /\ Mine(t) \in Seq(Node) /\ IsInjective(Mine(t))
        /\ Offered(t) \in Seq(Node) /\ IsInjective(Offered(t))
        /\ Range(Mine(t)) \intersect Range(Offered(t)) = {}
        /\ Range(Mine(t)) \union Range(Offered(t))
             = Range(W[AtMine(t)]) \union Range(W[AtList(t)]) \union Range(W[AtBatch(t)])
  BY <1>1, <1>2, HoldItems
<1>7. /\ At(<<"shared", NULL>>) = Shared
      /\ \A t \in Thread : At(<<"mine", t>>) = Mine(t) /\ At(<<"offered", t>>) = Offered(t)
  BY DEF At
<1>8. \A p \in Places : \/ p = <<"shared", NULL>>
                        \/ \E t \in Thread : p = <<"mine", t>> \/ p = <<"offered", t>>
  BY DEF Places
<1>9. /\ <<"shared", NULL>> \in Places
      /\ \A t \in Thread : <<"mine", t>> \in Places /\ <<"offered", t>> \in Places
  BY DEF Places
<1>10. \A p \in Places : At(p) \in Seq(Node) /\ IsInjective(At(p))
  BY <1>5, <1>6, <1>7, <1>8
<1>11. \A p \in Places : In(At(p)) = Range(At(p)) /\ Cardinality(In(At(p))) = Len(At(p))
  BY <1>10, InList
<1>12. \A t \in Thread : \A n \in Range(Mine(t)) \union Range(Offered(t)) :
          n \in Node /\ n \notin Range(Shared)
  <2> SUFFICES ASSUME NEW t \in Thread, NEW n \in Range(Mine(t)) \union Range(Offered(t))
               PROVE  n \in Node /\ n \notin Range(Shared)
    OBVIOUS
  <2>1. Quad(W[AtShared], W[AtMine(t)], W[AtList(t)], W[AtBatch(t)])
    BY <1>3, QuadHeld
  <2>2. n \in Range(W[AtMine(t)]) \union Range(W[AtList(t)]) \union Range(W[AtBatch(t)])
    BY <1>6
  <2>3. n \in Node
    BY <1>6, Spots
  <2> QED BY <1>5, <2>1, <2>2, <2>3 DEF Quad
<1>13. \A t, u \in Thread : t # u =>
          (Range(Mine(t)) \union Range(Offered(t))) \intersect (Range(Mine(u)) \union Range(Offered(u))) = {}
  <2> SUFFICES ASSUME NEW t \in Thread, NEW u \in Thread, t # u
               PROVE  (Range(Mine(t)) \union Range(Offered(t))) \intersect (Range(Mine(u)) \union Range(Offered(u))) = {}
    OBVIOUS
  <2>1. /\ AtMine(u) \in Place \ Own(t) /\ AtList(u) \in Place \ Own(t) /\ AtBatch(u) \in Place \ Own(t)
        /\ Own(t) \subseteq Place
    BY Places4
  <2>2. \A p \in Place \ Own(t) : \A r \in Own(t) : Range(W[p]) \intersect Range(W[r]) = {}
    BY <1>3, <2>1 DEF Apart
  <2>3. AtMine(t) \in Own(t) /\ AtList(t) \in Own(t) /\ AtBatch(t) \in Own(t)
    BY DEF Own
  <2>4. /\ \A r \in Own(t) : Range(W[AtMine(u)]) \intersect Range(W[r]) = {}
        /\ \A r \in Own(t) : Range(W[AtList(u)]) \intersect Range(W[r]) = {}
        /\ \A r \in Own(t) : Range(W[AtBatch(u)]) \intersect Range(W[r]) = {}
    BY <2>1, <2>2
  <2>5. (Range(W[AtMine(t)]) \union Range(W[AtList(t)]) \union Range(W[AtBatch(t)]))
        \intersect (Range(W[AtMine(u)]) \union Range(W[AtList(u)]) \union Range(W[AtBatch(u)])) = {}
    BY <2>3, <2>4
  <2> QED BY <1>6, <2>5
<1>14. \A n \in Node : n \notin loose <=>
          n \in Range(Shared) \/ \E t \in Thread : n \in Range(Mine(t)) \union Range(Offered(t))
  <2> TAKE n \in Node
  <2>1. n \notin loose <=> \E p \in Place : n \in Range(W[p])
    BY <1>3 DEF Covers
  <2>2. (\E p \in Place : n \in Range(W[p])) <=>
           n \in Range(W[AtShared]) \/ \E t \in Thread :
               n \in Range(W[AtMine(t)]) \union Range(W[AtList(t)]) \union Range(W[AtBatch(t)])
    <3>1. \A p \in Place : p = AtShared \/ \E t \in Thread : p = AtMine(t) \/ p = AtList(t) \/ p = AtBatch(t)
      BY DEF Place, AtMine, AtList, AtBatch
    <3>2. \A t \in Thread : AtMine(t) \in Place /\ AtList(t) \in Place /\ AtBatch(t) \in Place
      BY Places4 DEF Own
    <3> QED BY <1>4, <3>1, <3>2
  <2> QED BY <1>5, <1>6, <2>1, <2>2
<1>15. UNION {In(At(p)) : p \in Places} = Node \ loose
  <2>1. \A n : n \in UNION {In(At(p)) : p \in Places} <=> \E p \in Places : n \in Range(At(p))
    BY <1>11
  <2>2. \A n : (\E p \in Places : n \in Range(At(p))) <=>
            n \in Range(Shared) \/ \E t \in Thread : n \in Range(Mine(t)) \union Range(Offered(t))
    BY <1>7, <1>8, <1>9
  <2>3. Range(Shared) \subseteq Node
    BY <1>5, Spots
  <2> QED BY <1>12, <1>14, <2>1, <2>2, <2>3
<1>16. ASSUME NEW p \in Places, NEW r \in Places, p # r PROVE In(At(p)) \intersect In(At(r)) = {}
  <2>1. Range(At(p)) \intersect Range(At(r)) = {}
    <3>1. CASE p = <<"shared", NULL>>
      <4>1. PICK u \in Thread : r = <<"mine", u>> \/ r = <<"offered", u>>
        BY <1>8, <1>16, <3>1
      <4> QED BY <1>7, <1>12, <3>1, <4>1
    <3>2. CASE r = <<"shared", NULL>>
      <4>1. PICK t \in Thread : p = <<"mine", t>> \/ p = <<"offered", t>>
        BY <1>8, <1>16, <3>2
      <4> QED BY <1>7, <1>12, <3>2, <4>1
    <3>3. CASE p # <<"shared", NULL>> /\ r # <<"shared", NULL>>
      <4>1. PICK t \in Thread : p = <<"mine", t>> \/ p = <<"offered", t>>
        BY <1>8, <3>3
      <4>2. PICK u \in Thread : r = <<"mine", u>> \/ r = <<"offered", u>>
        BY <1>8, <3>3
      <4>3. CASE t = u
        <5>1. (p = <<"mine", t>> /\ r = <<"offered", t>>) \/ (r = <<"mine", t>> /\ p = <<"offered", t>>)
          BY <1>16, <4>1, <4>2, <4>3
        <5> QED BY <1>6, <1>7, <5>1
      <4>4. CASE t # u
        <5>1. /\ Range(At(p)) \subseteq Range(Mine(t)) \union Range(Offered(t))
              /\ Range(At(r)) \subseteq Range(Mine(u)) \union Range(Offered(u))
          BY <1>7, <4>1, <4>2
        <5> QED BY <1>13, <4>4, <5>1
      <4> QED BY <4>3, <4>4
    <3> QED BY <3>1, <3>2, <3>3
  <2> QED BY <1>11, <2>1
<1> QED BY <1>11, <1>15, <1>16 DEF OnePlace

\* No push, take or join of any number of threads loses a node, puts it in two
\* lists or twice in one, however the nodes are reused between the load of the
\* head and the compare-and-swap.
THEOREM OnePlaceHolds == Spec => []OnePlace
<1>1. AtomicInv => OnePlace
  BY OnePlaceOf
<1> QED BY <1>1, AtomicInvHolds, PTL

-----------------------------------------------------------------------------
(* Every step is a step of TaskLists, or changes nothing there               *)

MineNow == [t \in Thread |-> Mine(t)]
OfferedNow == [t \in Thread |-> Offered(t)]

\* what is shared, and what t holds and offers, before and after a step of t
Sees(t, S, x, o, S1, x1, o1) ==
    /\ Shared = S /\ MineNow[t] = x /\ OfferedNow[t] = o
    /\ Shared' = S1 /\ MineNow' = [MineNow EXCEPT ![t] = x1]
    /\ OfferedNow' = [OfferedNow EXCEPT ![t] = o1]

\* What a step of t makes of the sequences of TaskLists.
LEMMA Seen ==
    ASSUME AtomicType, NEW W \in [Place -> Seq(Node)], Held(W), NEW t \in Thread,
           NEW S \in Seq(Node), NEW M \in Seq(Node), NEW L \in Seq(Node), NEW B \in Seq(Node),
           NEW S1 \in Seq(Node), NEW M1 \in Seq(Node), NEW L1 \in Seq(Node), NEW B1 \in Seq(Node),
           Now(W, t, S, M, L, B), Turns(t, S, M, L, B, S1, M1, L1, B1), AtomicType'
    PROVE  Sees(t, S, MineOf(pc[t], how[t].append, M, L, B), OfferedOf(pc[t], B),
                S1, MineOf(pc'[t], how'[t].append, M1, L1, B1), OfferedOf(pc'[t], B1))
<1>1. PICK V \in [Place -> Seq(Node)] : Put(V, W, t, S1, M1, L1, B1) /\ Held(V)'
  BY TurnsHeld
<1>2. /\ V[AtShared] = S1 /\ V[AtMine(t)] = M1 /\ V[AtList(t)] = L1 /\ V[AtBatch(t)] = B1
      /\ \A p \in Place \ Own(t) : V[p] = W[p]
  <2>1. \A p \in Place : V[p] = IF p = AtShared THEN S1 ELSE IF p = AtMine(t) THEN M1
                     ELSE IF p = AtList(t) THEN L1 ELSE IF p = AtBatch(t) THEN B1 ELSE W[p]
    BY <1>1 DEF Put
  <2>2. V[AtShared] = S1 /\ V[AtMine(t)] = M1 /\ V[AtList(t)] = L1 /\ V[AtBatch(t)] = B1
    BY <2>1, Places4 DEF Own
  <2>3. \A p \in Place \ Own(t) : V[p] = W[p]
    BY <2>1 DEF Own
  <2> QED BY <2>2, <2>3
<1>3. S = W[AtShared] /\ M = W[AtMine(t)] /\ L = W[AtList(t)] /\ B = W[AtBatch(t)]
  BY DEF Now
<1>4. /\ Shared = W[AtShared]
      /\ \A u \in Thread :
            /\ Mine(u) = MineOf(pc[u], how[u].append, W[AtMine(u)], W[AtList(u)], W[AtBatch(u)])
            /\ Offered(u) = OfferedOf(pc[u], W[AtBatch(u)])
  BY ViewsNow DEF ViewsFact
<1>5. /\ Shared' = V[AtShared]
      /\ \A u \in Thread :
            /\ Mine(u)' = MineOf(pc'[u], how'[u].append, V[AtMine(u)], V[AtList(u)], V[AtBatch(u)])
            /\ Offered(u)' = OfferedOf(pc'[u], V[AtBatch(u)])
  BY <1>1, ViewsThen DEF ViewsFact
<1>6. ASSUME NEW u \in Thread, u # t PROVE Mine(u)' = Mine(u) /\ Offered(u)' = Offered(u)
  <2>1. AtMine(u) \in Place \ Own(t) /\ AtList(u) \in Place \ Own(t) /\ AtBatch(u) \in Place \ Own(t)
    BY <1>6, Places4
  <2>2. pc'[u] = pc[u] /\ how'[u] = how[u]
    BY <1>6 DEF Turns, OnlyOf
  <2>3. V[AtMine(u)] = W[AtMine(u)] /\ V[AtList(u)] = W[AtList(u)] /\ V[AtBatch(u)] = W[AtBatch(u)]
    BY <1>2, <2>1
  <2>4. Mine(u)' = MineOf(pc[u], how[u].append, W[AtMine(u)], W[AtList(u)], W[AtBatch(u)])
    BY <1>5, <2>2, <2>3
  <2>5. Offered(u)' = OfferedOf(pc[u], W[AtBatch(u)])
    BY <1>5, <2>2, <2>3
  <2> QED BY <1>4, <2>4, <2>5
<1>7. MineNow[t] = MineOf(pc[t], how[t].append, M, L, B) /\ OfferedNow[t] = OfferedOf(pc[t], B)
  BY <1>3, <1>4 DEF MineNow, OfferedNow
<1>8. /\ Mine(t)' = MineOf(pc'[t], how'[t].append, M1, L1, B1)
      /\ Offered(t)' = OfferedOf(pc'[t], B1)
  BY <1>2, <1>5
<1>9. MineNow' = [MineNow EXCEPT ![t] = MineOf(pc'[t], how'[t].append, M1, L1, B1)]
  <2>1. MineNow' = [u \in Thread |-> Mine(u)']
    BY DEF MineNow
  <2>2. MineNow = [u \in Thread |-> Mine(u)]
    BY DEF MineNow
  <2> QED BY <1>6, <1>8, <2>1, <2>2
<1>10. OfferedNow' = [OfferedNow EXCEPT ![t] = OfferedOf(pc'[t], B1)]
  <2>1. OfferedNow' = [u \in Thread |-> Offered(u)']
    BY DEF OfferedNow
  <2>2. OfferedNow = [u \in Thread |-> Offered(u)]
    BY DEF OfferedNow
  <2> QED BY <1>6, <1>8, <2>1, <2>2
<1> QED BY <1>2, <1>3, <1>4, <1>5, <1>7, <1>9, <1>10 DEF Sees

\* What is held of an empty list, and what becomes of an equal one.
LEMMA MineEmpty ==
    ASSUME NEW M \in Seq(Node), NEW L, NEW B, NEW c, NEW a \in BOOLEAN, c \notin {"reverse", "walk"}
    PROVE  MineOf(c, a, M, L, B) = M
<1>1. TakenOf(c, L, B) = <<>>
  BY DEF TakenOf
<1>2. M \o <<>> = M /\ <<>> \o M = M
  BY ConcatEmptySeq
<1> QED BY <1>1, <1>2 DEF MineOf

\* Nobody holds a loose node.
LEMMA LooseUnheld ==
    ASSUME AtomicInv, NEW n \in loose
    PROVE  Abstract!Unheld(n)
<1>1. AtomicType
  BY DEF AtomicInv
<1>2. PICK W \in [Place -> Seq(Node)] : Held(W)
  BY DEF AtomicInv
<1>3. n \in Node /\ \A p \in Place : n \notin Range(W[p])
  BY <1>1, <1>2 DEF Held, Covers, AtomicType
<1>4. AtShared \in Place
  BY DEF Place
<1>5. n \notin Range(Shared)
  BY <1>1, <1>2, <1>3, <1>4, ViewsOf
<1>6. \A t \in Thread : n \notin Range(Mine(t)) /\ n \notin Range(Offered(t))
  <2> TAKE t \in Thread
  <2>1. AtMine(t) \in Place /\ AtList(t) \in Place /\ AtBatch(t) \in Place
    BY Places4 DEF Own
  <2>2. Range(Mine(t)) \union Range(Offered(t))
          = Range(W[AtMine(t)]) \union Range(W[AtList(t)]) \union Range(W[AtBatch(t)])
    BY <1>1, <1>2, HoldItems
  <2> QED BY <1>3, <2>1, <2>2
<1>7. \A s : n \notin Range(s) => \A i \in DOMAIN s : s[i] # n
  BY DEF Range
<1> QED BY <1>5, <1>6, <1>7 DEF Abstract!Unheld

\* Nothing changes for TaskLists.
Unseen == UNCHANGED <<Shared, MineNow, OfferedNow>>

\* A step of t that keeps what t holds and offers, and what is shared.
LEMMA KeptUnseen ==
    ASSUME NEW t \in Thread, NEW S, NEW x, NEW o, Sees(t, S, x, o, S, x, o)
    PROVE  Unseen
<1>1. MineNow' = MineNow
  BY DEF Sees, MineNow
<1>2. OfferedNow' = OfferedNow
  BY DEF Sees, OfferedNow
<1> QED BY <1>1, <1>2 DEF Sees, Unseen

\* The first step of a push offers.
LEMMA OfferStep ==
    ASSUME AtomicInv, NEW W \in [Place -> Seq(Node)], Held(W), NEW t \in Thread, NEW n \in Node,
           StartPush(t, n)
    PROVE  Abstract!Offer(t, n)
<1>1. AtomicType
  BY DEF AtomicInv
<1>2. PICK S, M, L, B \in Seq(Node) : Now(W, t, S, M, L, B)
  BY <1>1, NowHeld
<1>3. PICK X : X = <<n>>
  OBVIOUS
<1>4. AtomicType' /\ X \in Seq(Node) /\ Turns(t, S, M, L, B, S, M, L, X)
  BY <1>1, <1>2, <1>3, StartPushStep
<1>5. Sees(t, S, MineOf(pc[t], how[t].append, M, L, B), OfferedOf(pc[t], B),
           S, MineOf(pc'[t], how'[t].append, M, L, X), OfferedOf(pc'[t], X))
  BY <1>1, <1>2, <1>4, Seen
<1>6. pc[t] = "idle" /\ pc'[t] = "link" /\ how' = how /\ n \in loose
  BY <1>1 DEF StartPush, AtomicType
<1>7. how[t].append \in BOOLEAN
  BY <1>1, OfThread
<1>8. /\ MineOf(pc[t], how[t].append, M, L, B) = M /\ OfferedOf(pc[t], B) = <<>>
      /\ MineOf(pc'[t], how'[t].append, M, L, X) = M /\ OfferedOf(pc'[t], X) = X
  <2>1. MineOf(pc[t], how[t].append, M, L, B) = M
    BY <1>6, <1>7, MineEmpty
  <2>2. how'[t].append \in BOOLEAN
    BY <1>6, <1>7
  <2>3. MineOf(pc'[t], how'[t].append, M, L, X) = M
    <3>1. PICK c, a : c = pc'[t] /\ a = how'[t].append
      OBVIOUS
    <3>2. c \notin {"reverse", "walk"} /\ a \in BOOLEAN /\ M \in Seq(Node)
      BY <1>4, <1>6, <2>2, <3>1
    <3>3. MineOf(c, a, M, L, X) = M
      BY <3>2, MineEmpty
    <3> QED BY <3>1, <3>3
  <2>4. OfferedOf(pc[t], B) = <<>>
    BY <1>6 DEF OfferedOf
  <2>5. OfferedOf(pc'[t], X) = X
    BY <1>3, <1>6 DEF OfferedOf
  <2> QED BY <2>1, <2>3, <2>4, <2>5
<1>9. Sees(t, S, M, <<>>, S, M, X)
  BY <1>5, <1>8
<1>10. MineNow' = MineNow
  BY <1>9 DEF Sees, MineNow
<1>11. Abstract!Unheld(n)
  BY <1>6, LooseUnheld
<1> QED BY <1>3, <1>9, <1>10, <1>11 DEF Sees, Abstract!Offer, MineNow, OfferedNow

\* So does the first step of a prepend.
LEMMA OfferAllStep ==
    ASSUME AtomicInv, NEW W \in [Place -> Seq(Node)], Held(W), NEW t \in Thread, StartPrepend(t)
    PROVE  Abstract!OfferAll(t)
<1>1. AtomicType
  BY DEF AtomicInv
<1>2. PICK S, M, L, B \in Seq(Node) : Now(W, t, S, M, L, B)
  BY <1>1, NowHeld
<1>3. PICK X : X = <<>>
  OBVIOUS
<1>4. AtomicType' /\ X \in Seq(Node) /\ Turns(t, S, M, L, B, S, X, L, M)
  BY <1>1, <1>2, <1>3, StartPrependStep
<1>5. Sees(t, S, MineOf(pc[t], how[t].append, M, L, B), OfferedOf(pc[t], B),
           S, MineOf(pc'[t], how'[t].append, X, L, M), OfferedOf(pc'[t], M))
  BY <1>1, <1>2, <1>4, Seen
<1>6. pc[t] = "idle" /\ pc'[t] = "link" /\ how' = how
  BY <1>1 DEF StartPrepend, AtomicType
<1>7. how[t].append \in BOOLEAN
  BY <1>1, OfThread
<1>8. /\ MineOf(pc[t], how[t].append, M, L, B) = M /\ OfferedOf(pc[t], B) = <<>>
      /\ MineOf(pc'[t], how'[t].append, X, L, M) = X /\ OfferedOf(pc'[t], M) = M
  <2>1. MineOf(pc[t], how[t].append, M, L, B) = M
    BY <1>6, <1>7, MineEmpty
  <2>2. how'[t].append \in BOOLEAN
    BY <1>6, <1>7
  <2>3. MineOf(pc'[t], how'[t].append, X, L, M) = X
    <3>1. PICK c, a : c = pc'[t] /\ a = how'[t].append
      OBVIOUS
    <3>2. c \notin {"reverse", "walk"} /\ a \in BOOLEAN /\ X \in Seq(Node)
      BY <1>4, <1>6, <2>2, <3>1
    <3>3. MineOf(c, a, X, L, M) = X
      BY <3>2, MineEmpty
    <3> QED BY <3>1, <3>3
  <2>4. OfferedOf(pc[t], B) = <<>>
    BY <1>6 DEF OfferedOf
  <2>5. OfferedOf(pc'[t], M) = M
    BY <1>3, <1>6 DEF OfferedOf
  <2> QED BY <2>1, <2>3, <2>4, <2>5
<1>9. Sees(t, S, M, <<>>, S, X, M)
  BY <1>5, <1>8
<1> QED BY <1>3, <1>9 DEF Sees, Abstract!OfferAll, MineNow, OfferedNow

\* The successful swap of a push publishes.
LEMMA PublishStep ==
    ASSUME AtomicInv, NEW W \in [Place -> Seq(Node)], Held(W), NEW t \in Thread, CasPush(t)
    PROVE  Abstract!Publish(t)
<1>1. AtomicType
  BY DEF AtomicInv
<1>2. PICK S, M, L, B \in Seq(Node) : Now(W, t, S, M, L, B)
  BY <1>1, NowHeld
<1>3. PICK X, E : X = B \o S /\ E = <<>>
  OBVIOUS
<1>4. AtomicType' /\ X \in Seq(Node) /\ E \in Seq(Node) /\ Turns(t, S, M, L, B, X, M, L, E)
  BY <1>1, <1>2, <1>3, CasPushStep
<1>5. Sees(t, S, MineOf(pc[t], how[t].append, M, L, B), OfferedOf(pc[t], B),
           X, MineOf(pc'[t], how'[t].append, M, L, E), OfferedOf(pc'[t], E))
  BY <1>1, <1>2, <1>4, Seen
<1>6. pc[t] = "cas" /\ pc'[t] = "idle" /\ how' = how
  BY <1>1 DEF CasPush, AtomicType
<1>7. how[t].append \in BOOLEAN
  BY <1>1, OfThread
<1>8. /\ MineOf(pc[t], how[t].append, M, L, B) = M /\ OfferedOf(pc[t], B) = B
      /\ MineOf(pc'[t], how'[t].append, M, L, E) = M /\ OfferedOf(pc'[t], E) = <<>>
  <2>1. MineOf(pc[t], how[t].append, M, L, B) = M
    BY <1>6, <1>7, MineEmpty
  <2>2. how'[t].append \in BOOLEAN
    BY <1>6, <1>7
  <2>3. MineOf(pc'[t], how'[t].append, M, L, E) = M
    <3>1. PICK c, a : c = pc'[t] /\ a = how'[t].append
      OBVIOUS
    <3>2. c \notin {"reverse", "walk"} /\ a \in BOOLEAN /\ M \in Seq(Node)
      BY <1>4, <1>6, <2>2, <3>1
    <3>3. MineOf(c, a, M, L, E) = M
      BY <3>2, MineEmpty
    <3> QED BY <3>1, <3>3
  <2>4. OfferedOf(pc[t], B) = B
    BY <1>6 DEF OfferedOf
  <2>5. OfferedOf(pc'[t], E) = <<>>
    BY <1>3, <1>6 DEF OfferedOf
  <2> QED BY <2>1, <2>3, <2>4, <2>5
<1>9. Sees(t, S, M, B, X, M, <<>>)
  BY <1>5, <1>8
<1>10. MineNow' = MineNow
  BY <1>9 DEF Sees, MineNow
<1> QED BY <1>3, <1>9, <1>10 DEF Sees, Abstract!Publish, MineNow, OfferedNow

\* The successful swap of a take takes all, in its order or backwards.
LEMMA TakeAllStep ==
    ASSUME AtomicInv, NEW W \in [Place -> Seq(Node)], Held(W), NEW t \in Thread, CasReset(t)
    PROVE  Abstract!TakeAll(t)
<1>1. AtomicType
  BY DEF AtomicInv
<1>2. PICK S, M, L, B \in Seq(Node) : Now(W, t, S, M, L, B)
  BY <1>1, NowHeld
<1>3. PICK E : E = <<>>
  OBVIOUS
<1>4. /\ AtomicType' /\ L = <<>> /\ B = <<>> /\ E \in Seq(Node)
      /\ how[t].reversed => pc'[t] = "reverse" /\ Turns(t, S, M, L, B, E, M, S, B)
      /\ ~how[t].reversed => pc'[t] = "walk" /\ Turns(t, S, M, L, B, E, M, L, S)
  BY <1>1, <1>2, <1>3, CasResetStep
<1>5. pc[t] = "reset" /\ how' = how
  BY DEF CasReset
<1>6. how[t].append \in BOOLEAN /\ how[t].reversed \in BOOLEAN
  BY <1>1, OfThread
<1>7. PICK s : s = IF how[t].reversed THEN Reversed(S) ELSE S
  OBVIOUS
<1>8. Sees(t, S, M, <<>>, E, IF how[t].append THEN M \o s ELSE s \o M, <<>>)
  <2>1. MineOf(pc[t], how[t].append, M, L, B) = M /\ OfferedOf(pc[t], B) = <<>>
    BY <1>5, <1>6, MineEmpty DEF OfferedOf
  <2>2. CASE how[t].reversed
    <3>1. Sees(t, S, MineOf(pc[t], how[t].append, M, L, B), OfferedOf(pc[t], B),
               E, MineOf(pc'[t], how'[t].append, M, S, B), OfferedOf(pc'[t], B))
      BY <1>1, <1>2, <1>4, <2>2, Seen
    <3>2. pc'[t] = "reverse"
      BY <1>4, <2>2
    <3>3. Reversed(S) \o B = s
      BY <1>4, <1>7, <2>2, ReversedItems, ConcatEmptySeq
    <3>4. TakenOf(pc'[t], S, B) = s
      BY <3>2, <3>3 DEF TakenOf
    <3>5. MineOf(pc'[t], how'[t].append, M, S, B) = IF how[t].append THEN M \o s ELSE s \o M
      BY <1>5, <3>4 DEF MineOf
    <3>6. OfferedOf(pc'[t], B) = <<>>
      BY <3>2 DEF OfferedOf
    <3> QED BY <2>1, <3>1, <3>5, <3>6
  <2>3. CASE ~how[t].reversed
    <3>1. Sees(t, S, MineOf(pc[t], how[t].append, M, L, B), OfferedOf(pc[t], B),
               E, MineOf(pc'[t], how'[t].append, M, L, S), OfferedOf(pc'[t], S))
      BY <1>1, <1>2, <1>4, <2>3, Seen
    <3>2. pc'[t] = "walk"
      BY <1>4, <2>3
    <3>3. TakenOf(pc'[t], L, S) = s
      BY <1>7, <2>3, <3>2 DEF TakenOf
    <3>4. MineOf(pc'[t], how'[t].append, M, L, S) = IF how[t].append THEN M \o s ELSE s \o M
      BY <1>5, <3>3 DEF MineOf
    <3>5. OfferedOf(pc'[t], S) = <<>>
      BY <3>2 DEF OfferedOf
    <3> QED BY <2>1, <3>1, <3>4, <3>5
  <2> QED BY <2>2, <2>3
<1>9. s \in {Shared, Abstract!Backwards(Shared)}
  BY <1>7, <1>8 DEF Sees, Abstract!Backwards, Reversed
<1>10. OfferedNow' = OfferedNow
  BY <1>8 DEF Sees, OfferedNow
<1>11. \/ MineNow' = [MineNow EXCEPT ![t] = MineNow[t] \o s]
       \/ MineNow' = [MineNow EXCEPT ![t] = s \o MineNow[t]]
  BY <1>6, <1>8 DEF Sees
<1>12. Shared' = <<>>
  BY <1>3, <1>8 DEF Sees
<1> QED BY <1>9, <1>10, <1>11, <1>12 DEF Abstract!TakeAll, MineNow, OfferedNow

\* The steps that change no list are not seen.
LEMMA LoadUnseen ==
    ASSUME AtomicInv, NEW W \in [Place -> Seq(Node)], Held(W), NEW t \in Thread,
           \/ Link(t) \/ CasPushFails(t) \/ CasResetFails(t) \/ Walk(t)
           \/ \E h \in Take : StartTake(t, h)
    PROVE  Unseen
<1>1. AtomicType
  BY DEF AtomicInv
<1>2. PICK S, M, L, B \in Seq(Node) : Now(W, t, S, M, L, B)
  BY <1>1, NowHeld
<1>3. AtomicType' /\ Turns(t, S, M, L, B, S, M, L, B)
  <2>1. CASE Link(t)
    BY <1>1, <1>2, <2>1, LinkStep
  <2>2. CASE Walk(t)
    BY <1>1, <1>2, <2>2, WalkStep
  <2>3. CASE CasPushFails(t) \/ CasResetFails(t) \/ \E h \in Take : StartTake(t, h)
    BY <1>1, <1>2, <2>3, LoadStep
  <2> QED BY <2>1, <2>2, <2>3
<1>4. PICK c, a, c1, a1 : c = pc[t] /\ a = how[t].append /\ c1 = pc'[t] /\ a1 = how'[t].append
  OBVIOUS
<1>5. Sees(t, S, MineOf(c, a, M, L, B), OfferedOf(c, B), S, MineOf(c1, a1, M, L, B), OfferedOf(c1, B))
  BY <1>1, <1>2, <1>3, <1>4, Seen
<1>6. a \in BOOLEAN
  BY <1>1, <1>4, OfThread
<1>7. a1 \in BOOLEAN
  BY <1>3, <1>4 DEF AtomicType, Take
<1>8. \/ c \in {"link", "cas"} /\ c1 \in {"link", "cas"}
      \/ c \in {"idle", "reset"} /\ c1 = "reset"
      \/ c = "walk" /\ c1 = "walk" /\ a1 = a
  BY <1>1, <1>4 DEF Link, CasPushFails, AfterFailedPush, CasResetFails, Walk, StartTake, AtomicType
<1>9. OfferedOf(c, B) = OfferedOf(c1, B)
  BY <1>8 DEF OfferedOf
<1>10. MineOf(c, a, M, L, B) = MineOf(c1, a1, M, L, B)
  <2>1. CASE c = "walk"
    BY <1>8, <2>1
  <2>2. CASE c # "walk"
    <3>1. c \notin {"reverse", "walk"} /\ c1 \notin {"reverse", "walk"}
      BY <1>8, <2>2
    <3>2. MineOf(c, a, M, L, B) = M
      BY <1>6, <3>1, MineEmpty
    <3>3. MineOf(c1, a1, M, L, B) = M
      BY <1>7, <3>1, MineEmpty
    <3> QED BY <3>2, <3>3
  <2> QED BY <2>1, <2>2
<1>11. PICK x, o : x = MineOf(c, a, M, L, B) /\ o = OfferedOf(c, B)
  OBVIOUS
<1>12. Sees(t, S, x, o, S, x, o)
  BY <1>5, <1>9, <1>10, <1>11
<1> QED BY <1>12, KeptUnseen

\* Nor is a turn of the loop that reverses: the order that the nodes will have
\* was settled when they were taken.
LEMMA ReverseUnseen ==
    ASSUME AtomicInv, NEW W \in [Place -> Seq(Node)], Held(W), NEW t \in Thread, Reverse(t)
    PROVE  Unseen
<1>1. AtomicType
  BY DEF AtomicInv
<1>2. PICK S, M, L, B \in Seq(Node) : Now(W, t, S, M, L, B)
  BY <1>1, NowHeld
<1>3. PICK X, Y : X = Tail(L) /\ Y = <<Head(L)>> \o B
  OBVIOUS
<1>4. AtomicType' /\ L # <<>> /\ X \in Seq(Node) /\ Y \in Seq(Node) /\ Turns(t, S, M, L, B, S, M, X, Y)
  BY <1>1, <1>2, <1>3, ReverseStep
<1>5. PICK c, a : c = pc[t] /\ a = how[t].append
  OBVIOUS
<1>6. c = "reverse" /\ pc'[t] = c /\ how'[t].append = a
  BY <1>5 DEF Reverse
<1>7. Sees(t, S, MineOf(c, a, M, L, B), OfferedOf(c, B), S, MineOf(c, a, M, X, Y), OfferedOf(c, Y))
  <2>1. Sees(t, S, MineOf(pc[t], how[t].append, M, L, B), OfferedOf(pc[t], B),
             S, MineOf(pc'[t], how'[t].append, M, X, Y), OfferedOf(pc'[t], Y))
    BY <1>1, <1>2, <1>4, Seen
  <2> QED BY <1>5, <1>6, <2>1
<1>8. OfferedOf(c, B) = <<>> /\ OfferedOf(c, Y) = <<>>
  BY <1>6 DEF OfferedOf
<1>9. TakenOf(c, X, Y) = TakenOf(c, L, B)
  <2>1. Reversed(X) \o Y = Reversed(L) \o B
    BY <1>3, <1>4, ReversedTail
  <2> QED BY <1>6, <2>1 DEF TakenOf
<1>10. MineOf(c, a, M, X, Y) = MineOf(c, a, M, L, B)
  BY <1>9 DEF MineOf
<1>11. PICK x, o : x = MineOf(c, a, M, L, B) /\ o = OfferedOf(c, B)
  OBVIOUS
<1>12. Sees(t, S, x, o, S, x, o)
  BY <1>7, <1>8, <1>10, <1>11
<1> QED BY <1>12, KeptUnseen

\* Nor is the joining of what was taken, which t has held since.
LEMMA JoinUnseen ==
    ASSUME AtomicInv, NEW W \in [Place -> Seq(Node)], Held(W), NEW t \in Thread, Join(t)
    PROVE  Unseen
<1>1. AtomicType
  BY DEF AtomicInv
<1>2. PICK S, M, L, B \in Seq(Node) : Now(W, t, S, M, L, B)
  BY <1>1, NowHeld
<1>3. PICK X, E : X = (IF how[t].append THEN M \o B ELSE B \o M) /\ E = <<>>
  OBVIOUS
<1>4. how[t].append \in BOOLEAN
  BY <1>1, OfThread
<1>5. /\ AtomicType' /\ L = <<>> /\ pc[t] \in {"reverse", "walk"} /\ X \in Seq(Node) /\ E \in Seq(Node)
      /\ Turns(t, S, M, L, B, S, X, L, E)
  <2>1. CASE how[t].append
    BY <1>1, <1>2, <1>3, <2>1, JoinStep
  <2>2. CASE ~how[t].append
    BY <1>1, <1>2, <1>3, <2>2, JoinStep
  <2> QED BY <1>4, <2>1, <2>2
<1>6. pc'[t] = "idle" /\ how' = how
  BY <1>1 DEF Join, AtomicType
<1>7. Sees(t, S, MineOf(pc[t], how[t].append, M, L, B), OfferedOf(pc[t], B),
           S, MineOf(pc'[t], how'[t].append, X, L, E), OfferedOf(pc'[t], E))
  BY <1>1, <1>2, <1>5, Seen
<1>8. OfferedOf(pc[t], B) = <<>> /\ OfferedOf(pc'[t], E) = <<>>
  BY <1>5, <1>6 DEF OfferedOf
<1>9. MineOf(pc[t], how[t].append, M, L, B) = X
  <2>1. TakenOf(pc[t], L, B) = B
    <3>1. Reversed(L) \o B = B
      <4>1. Reversed(L) \in Seq(Node) /\ Len(Reversed(L)) = Len(L)
        BY ReversedItems
      <4>2. Reversed(L) = <<>>
        BY <1>5, <4>1, EmptySeq
      <4> QED BY <4>2, ConcatEmptySeq
    <3> QED BY <1>5, <3>1 DEF TakenOf
  <2> QED BY <1>3, <2>1 DEF MineOf
<1>10. MineOf(pc'[t], how'[t].append, X, L, E) = X
  <2>1. PICK c, a : c = pc'[t] /\ a = how'[t].append
    OBVIOUS
  <2>2. c \notin {"reverse", "walk"} /\ a \in BOOLEAN
    BY <1>4, <1>6, <2>1
  <2>3. MineOf(c, a, X, L, E) = X
    BY <1>5, <2>2, MineEmpty
  <2> QED BY <2>1, <2>3
<1>11. Sees(t, S, X, <<>>, S, X, <<>>)
  BY <1>7, <1>8, <1>9, <1>10
<1> QED BY <1>11, KeptUnseen

\* A step of a private list changes what t holds, and nothing else.
LEMMA PrivateSees ==
    ASSUME AtomicInv, NEW W \in [Place -> Seq(Node)], Held(W), NEW t \in Thread,
           NEW S \in Seq(Node), NEW M \in Seq(Node), NEW L \in Seq(Node), NEW B \in Seq(Node),
           NEW X \in Seq(Node), Now(W, t, S, M, L, B), AtomicType', Turns(t, S, M, L, B, S, X, L, B),
           pc[t] = "idle", pc' = pc, how' = how
    PROVE  Sees(t, S, M, <<>>, S, X, <<>>)
<1>1. AtomicType
  BY DEF AtomicInv
<1>2. Sees(t, S, MineOf(pc[t], how[t].append, M, L, B), OfferedOf(pc[t], B),
           S, MineOf(pc'[t], how'[t].append, X, L, B), OfferedOf(pc'[t], B))
  BY <1>1, Seen
<1>3. PICK c, a : c = pc[t] /\ a = how[t].append
  OBVIOUS
<1>4. c = "idle" /\ a \in BOOLEAN /\ pc'[t] = c /\ how'[t].append = a
  BY <1>1, <1>3, OfThread
<1>5. MineOf(c, a, M, L, B) = M
  BY <1>4, MineEmpty
<1>6. MineOf(c, a, X, L, B) = X
  BY <1>4, MineEmpty
<1>7. OfferedOf(c, B) = <<>>
  BY <1>4 DEF OfferedOf
<1>8. Sees(t, S, MineOf(c, a, M, L, B), OfferedOf(c, B), S, MineOf(c, a, X, L, B), OfferedOf(c, B))
  BY <1>2, <1>3, <1>4
<1> QED BY <1>5, <1>6, <1>7, <1>8

\* A node that is put into the private list is added to it.
LEMMA AddStep ==
    ASSUME AtomicInv, NEW W \in [Place -> Seq(Node)], Held(W), NEW t \in Thread, NEW n \in Node,
           PushItemFront(t, n) \/ PushItemBack(t, n)
    PROVE  Abstract!Add(t, n)
<1>1. AtomicType
  BY DEF AtomicInv
<1>2. PICK S, M, L, B \in Seq(Node) : Now(W, t, S, M, L, B)
  BY <1>1, NowHeld
<1>3. pc[t] = "idle" /\ pc' = pc /\ how' = how /\ n \in loose
  BY DEF PushItemFront, PushItemBack
<1>4. \E X \in Seq(Node) : /\ X = <<n>> \o M \/ X = M \o <<n>>
                           /\ AtomicType' /\ Turns(t, S, M, L, B, S, X, L, B)
  <2>1. CASE PushItemFront(t, n)
    <3>1. PICK X : X = <<n>> \o M
      OBVIOUS
    <3>2. AtomicType' /\ X \in Seq(Node) /\ Turns(t, S, M, L, B, S, X, L, B)
      BY <1>1, <1>2, <2>1, <3>1, PushItemFrontStep
    <3> QED BY <3>1, <3>2
  <2>2. CASE PushItemBack(t, n)
    <3>1. PICK X : X = M \o <<n>>
      OBVIOUS
    <3>2. AtomicType' /\ X \in Seq(Node) /\ Turns(t, S, M, L, B, S, X, L, B)
      BY <1>1, <1>2, <2>2, <3>1, PushItemBackStep
    <3> QED BY <3>1, <3>2
  <2> QED BY <2>1, <2>2
<1>5. PICK X \in Seq(Node) : /\ X = <<n>> \o M \/ X = M \o <<n>>
                             /\ AtomicType' /\ Turns(t, S, M, L, B, S, X, L, B)
  BY <1>4
<1>6. Sees(t, S, M, <<>>, S, X, <<>>)
  BY <1>2, <1>3, <1>5, PrivateSees
<1>7. OfferedNow' = OfferedNow
  BY <1>6 DEF Sees, OfferedNow
<1>8. Abstract!Unheld(n)
  BY <1>3, LooseUnheld
<1>9. \/ MineNow' = [MineNow EXCEPT ![t] = <<n>> \o MineNow[t]]
      \/ MineNow' = [MineNow EXCEPT ![t] = MineNow[t] \o <<n>>]
  BY <1>5, <1>6 DEF Sees
<1>10. Shared' = Shared
  BY <1>6 DEF Sees
<1> QED BY <1>7, <1>8, <1>9, <1>10 DEF Abstract!Add, MineNow, OfferedNow

\* A node that is popped is the first that t holds.
LEMMA RemoveFirstStep ==
    ASSUME AtomicInv, NEW W \in [Place -> Seq(Node)], Held(W), NEW t \in Thread, PopFront(t)
    PROVE  Abstract!RemoveFirst(t)
<1>1. AtomicType
  BY DEF AtomicInv
<1>2. PICK S, M, L, B \in Seq(Node) : Now(W, t, S, M, L, B)
  BY <1>1, NowHeld
<1>3. pc[t] = "idle" /\ pc' = pc /\ how' = how
  BY DEF PopFront
<1>4. PICK X : X = Tail(M)
  OBVIOUS
<1>5. AtomicType' /\ M # <<>> /\ X \in Seq(Node) /\ Turns(t, S, M, L, B, S, X, L, B)
  BY <1>1, <1>2, <1>4, PopFrontStep
<1>6. Sees(t, S, M, <<>>, S, X, <<>>)
  BY <1>2, <1>3, <1>5, PrivateSees
<1>7. OfferedNow' = OfferedNow
  BY <1>6 DEF Sees, OfferedNow
<1>8. MineNow[t] # <<>> /\ MineNow' = [MineNow EXCEPT ![t] = Tail(MineNow[t])] /\ Shared' = Shared
  BY <1>4, <1>5, <1>6 DEF Sees
<1> QED BY <1>7, <1>8 DEF Abstract!RemoveFirst, MineNow, OfferedNow

\* At first nobody holds anything.
LEMMA TaskListsInit == Init => Abstract!Init
<1> HAVE Init
<1>1. AtomicInv
  BY AtomicInit
<1>2. AtomicType
  BY <1>1 DEF AtomicInv
<1>3. PICK W \in [Place -> Seq(Node)] : Held(W)
  BY <1>1 DEF AtomicInv
<1>4. \A s \in Seq(Node) : Range(s) = {} => s = <<>>
  BY Spots, EmptySeq DEF Range
<1>5. AtShared \in Place /\ W[AtShared] \in Seq(Node)
  BY DEF Place
<1>6. \A p \in Place : Range(W[p]) = {}
  <2> SUFFICES ASSUME NEW p \in Place, NEW n \in Range(W[p]) PROVE FALSE
    OBVIOUS
  <2>1. n \in Node
    BY Spots
  <2> QED BY <1>3, <2>1 DEF Held, Covers, Init
<1>7. Shared = <<>>
  <2>1. Shared = W[AtShared]
    BY <1>2, <1>3, ViewsOf
  <2> QED BY <1>4, <1>5, <1>6, <2>1
<1>8. ASSUME NEW t \in Thread PROVE Mine(t) = <<>> /\ Offered(t) = <<>>
  <2>1. AtMine(t) \in Place /\ AtList(t) \in Place /\ AtBatch(t) \in Place
    BY Places4 DEF Own
  <2>2. Mine(t) \in Seq(Node) /\ Offered(t) \in Seq(Node)
    BY <1>2, <1>3, HoldItems
  <2>3. Range(Mine(t)) \union Range(Offered(t))
          = Range(W[AtMine(t)]) \union Range(W[AtList(t)]) \union Range(W[AtBatch(t)])
    BY <1>2, <1>3, HoldItems
  <2>4. Range(Mine(t)) = {} /\ Range(Offered(t)) = {}
    BY <1>6, <2>1, <2>3
  <2> QED BY <1>4, <2>2, <2>4
<1> QED BY <1>7, <1>8 DEF Abstract!Init

\* Every step is one of TaskLists or is not seen there.
LEMMA TaskListsStep == AtomicInv /\ [Next]_vars => [Abstract!Next]_(Abstract!vars)
<1> SUFFICES ASSUME AtomicInv, [Next]_vars PROVE Abstract!Next \/ Unseen
  BY DEF Unseen, MineNow, OfferedNow, Abstract!vars
<1>1. PICK W \in [Place -> Seq(Node)] : Held(W)
  BY DEF AtomicInv
<1>2. ASSUME NEW t \in Thread, PushStep(t) PROVE Abstract!Next \/ Unseen
  <2>1. ASSUME NEW n \in Node, StartPush(t, n) PROVE Abstract!Next
    <3>1. Abstract!Offer(t, n)
      BY <1>1, <2>1, OfferStep
    <3> QED BY <3>1 DEF Abstract!Next
  <2>2. CASE StartPrepend(t)
    <3>1. Abstract!OfferAll(t)
      BY <1>1, <2>2, OfferAllStep
    <3> QED BY <3>1 DEF Abstract!Next
  <2>3. CASE CasPush(t)
    <3>1. Abstract!Publish(t)
      BY <1>1, <2>3, PublishStep
    <3> QED BY <3>1 DEF Abstract!Next
  <2>4. CASE Link(t) \/ CasPushFails(t)
    BY <1>1, <2>4, LoadUnseen
  <2> QED BY <1>2, <2>1, <2>2, <2>3, <2>4 DEF PushStep
<1>3. ASSUME NEW t \in Thread, TakeStep(t) PROVE Abstract!Next \/ Unseen
  <2>1. CASE CasReset(t)
    <3>1. Abstract!TakeAll(t)
      BY <1>1, <2>1, TakeAllStep
    <3> QED BY <3>1 DEF Abstract!Next
  <2>2. CASE CasResetFails(t) \/ Walk(t) \/ \E h \in Take : StartTake(t, h)
    BY <1>1, <2>2, LoadUnseen
  <2>3. CASE Reverse(t)
    BY <1>1, <2>3, ReverseUnseen
  <2>4. CASE Join(t)
    BY <1>1, <2>4, JoinUnseen
  <2> QED BY <1>3, <2>1, <2>2, <2>3, <2>4 DEF TakeStep
<1>4. ASSUME NEW t \in Thread, PrivateStep(t) PROVE Abstract!Next \/ Unseen
  <2>1. ASSUME NEW n \in Node, PushItemFront(t, n) \/ PushItemBack(t, n) PROVE Abstract!Next
    <3>1. Abstract!Add(t, n)
      BY <1>1, <2>1, AddStep
    <3> QED BY <3>1 DEF Abstract!Next
  <2>2. CASE PopFront(t)
    <3>1. Abstract!RemoveFirst(t)
      BY <1>1, <2>2, RemoveFirstStep
    <3> QED BY <3>1 DEF Abstract!Next
  <2> QED BY <1>4, <2>1, <2>2 DEF PrivateStep
<1>5. CASE UNCHANGED vars
  <2>1. /\ head' = head /\ next' = next /\ q' = q /\ pc' = pc /\ batch' = batch
        /\ list' = list /\ how' = how /\ loose' = loose /\ old' = old
    BY <1>5 DEF vars
  <2>2. AtomicType /\ AtomicType'
    BY <2>1 DEF AtomicInv, AtomicType
  <2>3. Held(W)'
    BY <1>1, <2>1 DEF Held
  <2>4. /\ Shared = W[AtShared]
        /\ \A t \in Thread :
              /\ Mine(t) = MineOf(pc[t], how[t].append, W[AtMine(t)], W[AtList(t)], W[AtBatch(t)])
              /\ Offered(t) = OfferedOf(pc[t], W[AtBatch(t)])
    BY <1>1, <2>2, ViewsNow DEF ViewsFact
  <2>5. /\ Shared' = W[AtShared]
        /\ \A t \in Thread :
              /\ Mine(t)' = MineOf(pc'[t], how'[t].append, W[AtMine(t)], W[AtList(t)], W[AtBatch(t)])
              /\ Offered(t)' = OfferedOf(pc'[t], W[AtBatch(t)])
    BY <1>1, <2>2, <2>3, ViewsThen DEF ViewsFact
  <2>6. \A t \in Thread : Mine(t)' = Mine(t) /\ Offered(t)' = Offered(t)
    BY <2>1, <2>4, <2>5
  <2> QED BY <2>4, <2>5, <2>6 DEF Unseen, MineNow, OfferedNow
<1> QED BY <1>2, <1>3, <1>4, <1>5 DEF Next

\* The queues do what TaskLists promises: a push happens at its successful
\* compare-and-swap and puts its nodes, in their order, in front; a take happens
\* at the one that empties the list and gives all of it, in its order or
\* backwards, to one thread; loops that reverse or walk and the joining of
\* lists, however they interleave with the operations of others, show nothing.
THEOREM ImplementsTaskListsHolds == Spec => ImplementsTaskLists
<1>1. Init => Abstract!Init
  BY TaskListsInit
<1>2. AtomicInv /\ [Next]_vars => [Abstract!Next]_(Abstract!vars)
  BY TaskListsStep
<1> QED BY <1>1, <1>2, AtomicInvHolds, PTL DEF Spec, ImplementsTaskLists, Abstract!Spec
=============================================================================
