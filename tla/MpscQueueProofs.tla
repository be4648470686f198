--------------------------- MODULE MpscQueueProofs ---------------------------
(***************************************************************************)
(* Proofs about MpscQueue for any finite set of nodes and any number of     *)
(* producers.                                                              *)
(***************************************************************************)
EXTENDS MpscQueue, SequenceFacts

MpscType ==
    /\ head \in Cell /\ tail \in Cell /\ next \in [Cell -> Cell \union {NULL}] /\ loose \subseteq Node
    /\ ppc \in [Pusher -> {"idle", "exchange", "link"}]
    /\ new \in [Pusher -> Cell \union {NULL}] /\ prev \in [Pusher -> Cell \union {NULL}]
    /\ cpc \in {"idle", "decide", "busy", "stub", "reload"}
    /\ ctail \in Cell \union {NULL} /\ cnext \in Cell \union {NULL} /\ quiet \in BOOLEAN

\* s is what is in the queue, from the tail to the head: every cell is linked to
\* the next one or will be by exactly one pusher, and every half-done push
\* stands between two of them
Traced(s) ==
    /\ Len(s) >= 1 /\ s[1] = tail /\ s[Len(s)] = head /\ next[head] = NULL
    /\ \A i, j \in 1..Len(s) : s[i] = s[j] => i = j
    /\ \A i \in 1..Len(s) - 1 :
           \/ next[s[i]] = s[i + 1]
           \/ next[s[i]] = NULL /\ \E p \in Pusher : ppc[p] = "link" /\ prev[p] = s[i]
    /\ \A p \in Pusher : ppc[p] = "link" =>
           \E i \in 1..Len(s) - 1 : prev[p] = s[i] /\ new[p] = s[i + 1] /\ next[s[i]] = NULL
    /\ \A i \in 1..Len(s) : s[i] \notin loose
    /\ \A p \in Pusher : ppc[p] = "exchange" => \A i \in 1..Len(s) : new[p] # s[i]

\* the nodes about to be pushed
NewInv ==
    /\ \A p \in Pusher : ppc[p] = "exchange" =>
           /\ new[p] \notin loose /\ next[new[p]] = NULL
           /\ IF p = Consumer THEN new[p] = Stub ELSE new[p] \in Node
    /\ \A p, r \in Pusher : p # r /\ ppc[p] = "exchange" /\ ppc[r] = "exchange" => new[p] # new[r]
    /\ \A p, r \in Pusher : p # r /\ ppc[p] = "link" /\ ppc[r] = "link" => prev[p] # prev[r]

\* what the consumer has loaded is still so: only a link that it found null may
\* have been made meanwhile
PopInv ==
    /\ ppc[Consumer] # "idle" <=> cpc = "stub"
    /\ cpc # "idle" => ctail = tail
    /\ cpc = "decide" /\ cnext # NULL => cnext = next[tail]
    /\ cpc \in {"stub", "reload"} => tail # Stub
    /\ cpc = "reload" \/ ppc[Consumer] = "link" => tail # head

\* while quiet is TRUE during a pop no producer is between its two steps, and
\* the null link loaded is the link of the last node
QuietInv ==
    quiet /\ cpc # "idle" =>
        /\ ~HalfDone /\ cpc # "busy" /\ (tail # Stub \/ head # Stub)
        /\ cpc = "decide" => cnext = next[tail]

ChainInv == \E s \in Seq(Cell) : Traced(s)

MpscInv == MpscType /\ ChainInv /\ NewInv /\ PopInv /\ QuietInv

-----------------------------------------------------------------------------
(* The queue as a sequence.                                                  *)

Once(s) == \A i, j \in 1..Len(s) : s[i] = s[j] => i = j

\* q is s without the stub
Leaves(s, q) ==
    \/ q = s /\ \A i \in 1..Len(s) : s[i] # Stub
    \/ \E k \in 1..Len(s) :
           /\ s[k] = Stub /\ Len(q) = Len(s) - 1
           /\ \A i \in 1..Len(q) : q[i] = IF i < k THEN s[i] ELSE s[i + 1]

\* Lengths, positions and cells of a chain.
LEMMA Cells ==
    ASSUME NEW S, NEW s \in Seq(S)
    PROVE  Len(s) \in Nat /\ DOMAIN s = 1..Len(s) /\ \A i \in 1..Len(s) : i \in Nat /\ i >= 1 /\ i <= Len(s) /\ s[i] \in S
<1>1. Len(s) \in Nat /\ DOMAIN s = 1..Len(s)
  BY LenProperties
<1>2. \A i \in 1..Len(s) : s[i] \in S
  BY ElementOfSeq
<1> QED BY <1>1, <1>2

\* Leaving out the stub leaves nodes.
LEMMA LeavesSome ==
    ASSUME NEW s \in Seq(Cell), Once(s)
    PROVE  \E q \in Seq(Node) : Leaves(s, q)
<1>1. Len(s) \in Nat /\ DOMAIN s = 1..Len(s) /\ \A i \in 1..Len(s) : s[i] \in Cell
  BY Cells
<1>2. CASE \A i \in 1..Len(s) : s[i] # Stub
  <2>1. \A i \in 1..Len(s) : s[i] \in Node
    BY <1>1, <1>2 DEF Cell
  <2>2. s = [i \in 1..Len(s) |-> s[i]]
    BY <1>1
  <2>3. s \in Seq(Node)
    BY <1>1, <2>1, <2>2
  <2> QED BY <1>2, <2>3 DEF Leaves
<1>3. CASE \E k \in 1..Len(s) : s[k] = Stub
  <2>1. PICK k \in 1..Len(s) : s[k] = Stub
    BY <1>3
  <2>2. PICK q : q = [i \in 1..Len(s) - 1 |-> IF i < k THEN s[i] ELSE s[i + 1]]
    OBVIOUS
  <2>3. \A i \in 1..Len(s) - 1 : (IF i < k THEN s[i] ELSE s[i + 1]) \in Node
    <3> TAKE i \in 1..Len(s) - 1
    <3>1. i \in 1..Len(s) /\ i + 1 \in 1..Len(s)
      BY <1>1
    <3>2. i < k => s[i] # Stub
      BY <1>1, <2>1, <3>1 DEF Once
    <3>3. ~(i < k) => s[i + 1] # Stub
      BY <1>1, <2>1, <3>1 DEF Once
    <3> QED BY <1>1, <3>1, <3>2, <3>3 DEF Cell
  <2>4. Len(s) - 1 \in Nat
    BY <1>1, <2>1
  <2>5. q \in Seq(Node) /\ Len(q) = Len(s) - 1
    BY <2>2, <2>3, <2>4
  <2>6. \A i \in 1..Len(q) : q[i] = IF i < k THEN s[i] ELSE s[i + 1]
    BY <2>2, <2>5
  <2>7. Leaves(s, q)
    BY <2>1, <2>5, <2>6 DEF Leaves
  <2> QED BY <2>5, <2>7
<1> QED BY <1>2, <1>3

\* A node put at the end is put at the end of what is left.
LEMMA LeavesAppend ==
    ASSUME NEW s \in Seq(Cell), NEW q \in Seq(Node), Leaves(s, q), NEW n \in Node
    PROVE  Leaves(Append(s, n), Append(q, n))
<1>1. Len(s) \in Nat /\ Len(q) \in Nat /\ n # Stub /\ n \in Cell
  BY Cells, StubAssumption DEF Cell
<1>2. PICK t : t = Append(s, n)
  OBVIOUS
<1>3. PICK r : r = Append(q, n)
  OBVIOUS
<1>4. Len(t) = Len(s) + 1 /\ t[Len(s) + 1] = n /\ \A i \in 1..Len(s) : t[i] = s[i]
  BY <1>1, <1>2, AppendItems
<1>5. Len(r) = Len(q) + 1 /\ r[Len(q) + 1] = n /\ \A i \in 1..Len(q) : r[i] = q[i]
  BY <1>3, AppendItems
<1>6. CASE q = s /\ \A i \in 1..Len(s) : s[i] # Stub
  <2>1. \A i \in 1..Len(t) : t[i] # Stub
    BY <1>1, <1>4, <1>6
  <2>2. r = t
    BY <1>2, <1>3, <1>6
  <2> QED BY <1>2, <1>3, <2>1, <2>2 DEF Leaves
<1>7. ASSUME NEW k \in 1..Len(s), s[k] = Stub, Len(q) = Len(s) - 1,
             \A i \in 1..Len(q) : q[i] = IF i < k THEN s[i] ELSE s[i + 1]
      PROVE  Leaves(t, r)
  <2>1. k \in 1..Len(t) /\ t[k] = Stub /\ Len(r) = Len(t) - 1
    BY <1>1, <1>4, <1>5, <1>7
  <2>2. \A i \in 1..Len(r) : r[i] = IF i < k THEN t[i] ELSE t[i + 1]
    <3> TAKE i \in 1..Len(r)
    <3>1. CASE i \in 1..Len(q)
      <4>1. i \in 1..Len(s) /\ i + 1 \in 1..Len(s)
        BY <1>1, <1>7, <3>1
      <4> QED BY <1>4, <1>5, <1>7, <3>1, <4>1
    <3>2. CASE i = Len(q) + 1
      <4>1. ~(i < k) /\ i + 1 = Len(s) + 1
        BY <1>1, <1>7, <3>2
      <4> QED BY <1>4, <1>5, <3>2, <4>1
    <3> QED BY <1>1, <1>5, <3>1, <3>2
  <2> QED BY <2>1, <2>2 DEF Leaves
<1> QED BY <1>2, <1>3, <1>6, <1>7 DEF Leaves

\* The stub put at the end leaves what was there.
LEMMA LeavesStub ==
    ASSUME NEW s \in Seq(Cell), NEW q \in Seq(Node), Leaves(s, q), \A i \in 1..Len(s) : s[i] # Stub
    PROVE  Leaves(Append(s, Stub), q)
<1>1. q = s /\ Len(s) \in Nat /\ Stub \in Cell
  BY Cells DEF Leaves, Cell
<1>2. PICK t : t = Append(s, Stub)
  OBVIOUS
<1>3. Len(t) = Len(s) + 1 /\ t[Len(s) + 1] = Stub /\ \A i \in 1..Len(s) : t[i] = s[i]
  BY <1>1, <1>2, AppendItems
<1>4. Len(s) + 1 \in 1..Len(t) /\ Len(q) = Len(t) - 1
  BY <1>1, <1>3
<1>5. \A i \in 1..Len(q) : q[i] = IF i < Len(s) + 1 THEN t[i] ELSE t[i + 1]
  BY <1>1, <1>3
<1> QED BY <1>2, <1>3, <1>4, <1>5 DEF Leaves

\* Taking the first cell away takes the first node away, or the stub.
LEMMA LeavesTail ==
    ASSUME NEW s \in Seq(Cell), NEW q \in Seq(Node), Leaves(s, q), Once(s), Len(s) >= 1
    PROVE  /\ s[1] = Stub => Leaves(Tail(s), q)
           /\ s[1] # Stub => q # <<>> /\ Leaves(Tail(s), Tail(q))
<1>1. Len(s) \in Nat /\ s # <<>> /\ Len(q) \in Nat
  BY Cells
<1>2. PICK t : t = Tail(s)
  OBVIOUS
<1>3. Len(t) = Len(s) - 1 /\ \A i \in 1..Len(s) - 1 : t[i] = s[i + 1]
  BY <1>1, <1>2, TailItems
<1>4. ASSUME s[1] = Stub PROVE Leaves(t, q)
  <2>1. PICK k \in 1..Len(s) : /\ s[k] = Stub /\ Len(q) = Len(s) - 1
                               /\ \A i \in 1..Len(q) : q[i] = IF i < k THEN s[i] ELSE s[i + 1]
    BY <1>1, <1>4 DEF Leaves
  <2>2. k = 1
    BY <1>1, <1>4, <2>1 DEF Once
  <2>3. \A i \in 1..Len(q) : q[i] = t[i]
    <3> TAKE i \in 1..Len(q)
    <3>1. ~(i < k) /\ i \in 1..Len(s) - 1
      BY <1>1, <2>1, <2>2
    <3> QED BY <1>3, <2>1, <3>1
  <2>4. t \in Seq(Cell) /\ q \in Seq(Cell) /\ Len(t) = Len(q)
    <3>1. q \in Seq(Cell)
      <4>1. \A i \in 1..Len(q) : q[i] \in Cell
        BY Cells DEF Cell
      <4>2. q = [i \in 1..Len(q) |-> q[i]]
        BY Cells
      <4> QED BY <1>1, <4>1, <4>2
    <3> QED BY <1>1, <1>2, <1>3, <2>1, <3>1, TailItems
  <2>5. q = t
    BY <2>3, <2>4, SeqEqual
  <2>6. \A i \in 1..Len(t) : t[i] # Stub
    <3>1. \A i \in 1..Len(q) : q[i] \in Node
      BY Cells
    <3> QED BY <2>5, <3>1, StubAssumption
  <2> QED BY <2>5, <2>6 DEF Leaves
<1>5. ASSUME s[1] # Stub PROVE q # <<>> /\ Leaves(t, Tail(q))
  <2>1. CASE q = s /\ \A i \in 1..Len(s) : s[i] # Stub
    <3>1. \A i \in 1..Len(t) : t[i] # Stub
      <4> TAKE i \in 1..Len(t)
      <4>1. i \in 1..Len(s) - 1 /\ i + 1 \in 1..Len(s)
        BY <1>1, <1>3
      <4> QED BY <1>3, <2>1, <4>1
    <3> QED BY <1>1, <1>2, <2>1, <3>1 DEF Leaves
  <2>2. ASSUME NEW k \in 1..Len(s), s[k] = Stub, Len(q) = Len(s) - 1,
               \A i \in 1..Len(q) : q[i] = IF i < k THEN s[i] ELSE s[i + 1]
        PROVE  q # <<>> /\ Leaves(t, Tail(q))
    <3>1. k # 1 /\ k \in Nat /\ k >= 2 /\ k - 1 \in 1..Len(s) - 1
      BY <1>1, <1>5, <2>2
    <3>2. Len(q) >= 1 /\ q # <<>>
      BY <1>1, <2>2, <3>1
    <3>3. PICK r : r = Tail(q)
      OBVIOUS
    <3>4. Len(r) = Len(q) - 1 /\ \A i \in 1..Len(q) - 1 : r[i] = q[i + 1]
      BY <3>2, <3>3, TailItems
    <3>5. t[k - 1] = Stub /\ k - 1 \in 1..Len(t) /\ Len(r) = Len(t) - 1
      <4>1. k - 1 + 1 = k
        BY <3>1
      <4> QED BY <1>1, <1>3, <2>2, <3>1, <3>4, <4>1
    <3>6. \A i \in 1..Len(r) : r[i] = IF i < k - 1 THEN t[i] ELSE t[i + 1]
      <4> TAKE i \in 1..Len(r)
      <4>1. i \in 1..Len(q) - 1 /\ i + 1 \in 1..Len(q) /\ i \in 1..Len(s) - 1 /\ i + 1 \in 1..Len(s) - 1
        BY <1>1, <2>2, <3>2, <3>4
      <4>2. r[i] = q[i + 1] /\ t[i] = s[i + 1] /\ t[i + 1] = s[i + 1 + 1]
        BY <1>3, <3>4, <4>1
      <4>3. q[i + 1] = IF i + 1 < k THEN s[i + 1] ELSE s[i + 1 + 1]
        BY <2>2, <4>1
      <4>4. i + 1 < k <=> i < k - 1
        BY <3>1, <4>1
      <4> QED BY <4>2, <4>3, <4>4
    <3> QED BY <3>2, <3>3, <3>5, <3>6 DEF Leaves
  <2> QED BY <2>1, <2>2 DEF Leaves
<1> QED BY <1>2, <1>4, <1>5

\* After follows the chain.
LEMMA AfterFacts ==
    ASSUME MpscType, NEW s \in Seq(Cell), Traced(s)
    PROVE  /\ \A i \in 1..Len(s) - 1 : After[s[i]] = s[i + 1]
           /\ After[head] = NULL /\ After[NULL] = NULL
<1>1. Len(s) \in Nat /\ Len(s) >= 1 /\ \A i \in 1..Len(s) : s[i] \in Cell
  BY Cells DEF Traced
<1>2. NULL \notin Cell /\ head \in Cell
  BY StubAssumption DEF Cell, MpscType
<1>3. \A c \in Cell : After[c] = IF next[c] # NULL THEN next[c]
                                 ELSE IF Linking(c) # {} THEN new[CHOOSE p \in Linking(c) : TRUE] ELSE NULL
  BY <1>2 DEF After
<1>4. \A i \in 1..Len(s) - 1 : After[s[i]] = s[i + 1]
  <2> TAKE i \in 1..Len(s) - 1
  <2>1. i \in 1..Len(s) /\ i + 1 \in 1..Len(s)
    BY <1>1
  <2>2. s[i] \in Cell /\ s[i + 1] \in Cell /\ s[i + 1] # NULL
    BY <1>1, <1>2, <2>1
  <2>3. CASE next[s[i]] = s[i + 1]
    BY <1>3, <2>2, <2>3
  <2>4. CASE next[s[i]] = NULL /\ \E p \in Pusher : ppc[p] = "link" /\ prev[p] = s[i]
    <3>1. PICK p : p = CHOOSE u \in Linking(s[i]) : TRUE
      OBVIOUS
    <3>2. Linking(s[i]) # {}
      BY <2>4 DEF Linking
    <3>3. p \in Linking(s[i])
      BY <3>1, <3>2
    <3>4. p \in Pusher /\ ppc[p] = "link" /\ prev[p] = s[i]
      BY <3>3 DEF Linking
    <3>5. PICK j \in 1..Len(s) - 1 : prev[p] = s[j] /\ new[p] = s[j + 1]
      BY <3>4 DEF Traced
    <3>6. j = i
      <4>1. j \in 1..Len(s)
        BY <1>1
      <4>2. s[j] = s[i]
        BY <3>4, <3>5
      <4>3. \A a, b \in 1..Len(s) : s[a] = s[b] => a = b
        BY DEF Traced
      <4> QED BY <2>1, <4>1, <4>2, <4>3
    <3> QED BY <1>3, <2>2, <2>4, <3>1, <3>2, <3>5, <3>6
  <2> QED BY <2>3, <2>4 DEF Traced
<1>5. After[head] = NULL
  <2>1. next[head] = NULL
    BY DEF Traced
  <2>2. Linking(head) = {}
    <3> SUFFICES ASSUME NEW p \in Pusher, ppc[p] = "link", prev[p] = head PROVE FALSE
      BY DEF Linking
    <3>1. PICK j \in 1..Len(s) - 1 : prev[p] = s[j]
      BY DEF Traced
    <3>2. j \in 1..Len(s) /\ Len(s) \in 1..Len(s) /\ j # Len(s)
      BY <1>1
    <3> QED BY <3>1, <3>2 DEF Traced
  <2> QED BY <1>2, <1>3, <2>1, <2>2
<1>6. After[NULL] = NULL
  BY DEF After
<1> QED BY <1>4, <1>5, <1>6

\* No more nodes are left than there are.
LEMMA LeavesBounded ==
    ASSUME NEW s \in Seq(Cell), NEW q \in Seq(Node), Leaves(s, q), Once(s)
    PROVE  Cardinality(Node) \in Nat /\ Len(q) <= Cardinality(Node) /\ Once(q)
<1>1. Len(s) \in Nat /\ Len(q) \in Nat /\ DOMAIN q = 1..Len(q) /\ \A i \in 1..Len(q) : q[i] \in Node
  BY Cells
<1>2. Once(q)
  <2>1. CASE q = s
    BY <2>1
  <2>2. ASSUME NEW k \in 1..Len(s), Len(q) = Len(s) - 1,
               \A i \in 1..Len(q) : q[i] = IF i < k THEN s[i] ELSE s[i + 1]
        PROVE  Once(q)
    <3> SUFFICES ASSUME NEW i \in 1..Len(q), NEW j \in 1..Len(q), q[i] = q[j] PROVE i = j
      BY DEF Once
    <3>1. i \in 1..Len(s) /\ i + 1 \in 1..Len(s) /\ j \in 1..Len(s) /\ j + 1 \in 1..Len(s)
      BY <1>1, <2>2
    <3>2. CASE i < k /\ j < k
      BY <2>2, <3>1, <3>2 DEF Once
    <3>3. CASE i < k /\ ~(j < k)
      <4>1. s[i] = s[j + 1]
        BY <2>2, <3>3
      <4>2. i = j + 1
        BY <3>1, <4>1 DEF Once
      <4> QED BY <1>1, <3>3, <4>2
    <3>4. CASE ~(i < k) /\ j < k
      <4>1. s[i + 1] = s[j]
        BY <2>2, <3>4
      <4>2. i + 1 = j
        BY <3>1, <4>1 DEF Once
      <4> QED BY <1>1, <3>4, <4>2
    <3>5. CASE ~(i < k) /\ ~(j < k)
      <4>1. i + 1 = j + 1
        BY <2>2, <3>1, <3>5 DEF Once
      <4> QED BY <1>1, <4>1
    <3> QED BY <3>2, <3>3, <3>4, <3>5
  <2> QED BY <2>1, <2>2 DEF Leaves
<1>3. q \in [1..Len(q) -> Node]
  BY <1>1
<1>4. q \in Injection(1..Len(q), Node)
  BY <1>2, <1>3 DEF Once, Injection, IsInjective
<1>5. Cardinality(1..Len(q)) <= Cardinality(Node) /\ Cardinality(Node) \in Nat
  BY <1>4, FS_Injection, FS_CardinalityType, StubAssumption
<1>6. Cardinality(1..Len(q)) = Len(q)
  BY <1>1, FirstNumbers
<1> QED BY <1>2, <1>5, <1>6

\* The next node of a chain, the stub passed over.
LEMMA SkipFacts ==
    ASSUME MpscType, NEW s \in Seq(Cell), Traced(s), NEW q \in Seq(Node), Leaves(s, q)
    PROVE  /\ Skip[tail] = IF 1 <= Len(q) THEN q[1] ELSE NULL
           /\ \A k \in 1..Len(q) : Skip[After[q[k]]] = IF k + 1 <= Len(q) THEN q[k + 1] ELSE NULL
           /\ Skip[After[NULL]] = NULL
<1>1. /\ Len(s) \in Nat /\ Len(s) >= 1 /\ Len(q) \in Nat /\ \A i \in 1..Len(s) : s[i] \in Cell
      /\ \A i \in 1..Len(q) : q[i] \in Node
      /\ s[1] = tail /\ s[Len(s)] = head
  BY Cells DEF Traced
<1>2. /\ \A i \in 1..Len(s) - 1 : After[s[i]] = s[i + 1]
      /\ After[head] = NULL /\ After[NULL] = NULL
  BY AfterFacts
<1>3. \A c \in Cell \union {NULL} : Skip[c] = IF c = Stub THEN After[Stub] ELSE c
  BY DEF Skip
<1>4. NULL # Stub /\ Stub \notin Node /\ NULL \notin Cell /\ Stub \in Cell
  BY StubAssumption DEF Cell
<1>5. Skip[After[NULL]] = NULL
  BY <1>2, <1>3, <1>4
<1>6. Once(s)
  BY DEF Once, Traced
<1>7. CASE q = s /\ \A i \in 1..Len(s) : s[i] # Stub
  <2>1. Skip[tail] = q[1] /\ 1 <= Len(q)
    <3>1. 1 \in 1..Len(s)
      BY <1>1
    <3> QED BY <1>1, <1>3, <1>7, <3>1
  <2>2. \A k \in 1..Len(q) : Skip[After[q[k]]] = IF k + 1 <= Len(q) THEN q[k + 1] ELSE NULL
    <3> TAKE k \in 1..Len(q)
    <3>1. CASE k + 1 <= Len(q)
      <4>1. k \in 1..Len(s) - 1 /\ k + 1 \in 1..Len(s)
        BY <1>1, <1>7, <3>1
      <4> QED BY <1>1, <1>2, <1>3, <1>7, <3>1, <4>1
    <3>2. CASE ~(k + 1 <= Len(q))
      <4>1. k = Len(s)
        BY <1>1, <1>7, <3>2
      <4> QED BY <1>1, <1>2, <1>3, <1>4, <1>7, <3>2, <4>1
    <3> QED BY <3>1, <3>2
  <2> QED BY <1>5, <2>1, <2>2
<1>8. ASSUME NEW m \in 1..Len(s), s[m] = Stub, Len(q) = Len(s) - 1,
             \A i \in 1..Len(q) : q[i] = IF i < m THEN s[i] ELSE s[i + 1]
      PROVE  /\ Skip[tail] = IF 1 <= Len(q) THEN q[1] ELSE NULL
             /\ \A k \in 1..Len(q) : Skip[After[q[k]]] = IF k + 1 <= Len(q) THEN q[k + 1] ELSE NULL
  <2>1. \A i \in 1..Len(s) : s[i] = Stub <=> i = m
    BY <1>6, <1>8 DEF Once
  <2>2. \* behind the stub
        After[Stub] = IF m <= Len(q) THEN q[m] ELSE NULL
    <3>1. CASE m <= Len(q)
      <4>1. m \in 1..Len(s) - 1 /\ m \in 1..Len(q) /\ ~(m < m)
        BY <1>1, <1>8, <3>1
      <4> QED BY <1>2, <1>8, <3>1, <4>1
    <3>2. CASE ~(m <= Len(q))
      <4>1. m = Len(s)
        BY <1>1, <1>8, <3>2
      <4> QED BY <1>1, <1>2, <1>8, <3>2, <4>1
    <3> QED BY <3>1, <3>2
  <2>3. Skip[tail] = IF 1 <= Len(q) THEN q[1] ELSE NULL
    <3>1. CASE m = 1
      BY <1>1, <1>3, <1>8, <2>2, <3>1
    <3>2. CASE m # 1
      <4>1. 1 \in 1..Len(s) /\ 1 < m /\ 1 \in 1..Len(q) /\ 1 <= Len(q)
        BY <1>1, <1>8, <3>2
      <4> QED BY <1>1, <1>3, <1>8, <2>1, <3>2, <4>1
    <3> QED BY <3>1, <3>2
  <2>4. \A k \in 1..Len(q) : Skip[After[q[k]]] = IF k + 1 <= Len(q) THEN q[k + 1] ELSE NULL
    <3> TAKE k \in 1..Len(q)
    <3>1. k \in Nat /\ k \in 1..Len(s) - 1 /\ k \in 1..Len(s) /\ k + 1 \in 1..Len(s) /\ m \in Nat
      BY <1>1, <1>8
    <3>2. CASE k + 1 < m
      <4>1. q[k] = s[k] /\ After[s[k]] = s[k + 1] /\ k + 1 # m /\ k + 1 <= Len(q) /\ k + 1 \in 1..Len(q)
        BY <1>1, <1>2, <1>8, <3>1, <3>2
      <4>2. q[k + 1] = s[k + 1]
        BY <1>8, <3>2, <4>1
      <4> QED BY <1>1, <1>3, <2>1, <3>1, <4>1, <4>2
    <3>3. CASE k + 1 = m
      <4>1. q[k] = s[k] /\ After[s[k]] = Stub
        <5>1. k < m
          BY <3>1, <3>3
        <5> QED BY <1>2, <1>8, <3>1, <3>3, <5>1
      <4> QED BY <1>3, <1>4, <2>2, <3>3, <4>1
    <3>4. CASE ~(k + 1 < m) /\ k + 1 # m
      <4>1. ~(k < m) /\ ~(k + 1 < m) /\ k + 1 # m /\ k + 2 # m /\ k + 1 + 1 = k + 2
        BY <3>1, <3>4
      <4>2. q[k] = s[k + 1]
        BY <1>8, <4>1
      <4>3. CASE k + 1 <= Len(q)
        <5>1. k + 1 \in 1..Len(s) - 1 /\ k + 2 \in 1..Len(s) /\ k + 1 \in 1..Len(q)
          BY <1>1, <1>8, <3>1, <4>3
        <5>2. After[s[k + 1]] = s[k + 2] /\ s[k + 2] # Stub /\ s[k + 2] \in Cell /\ q[k + 1] = s[k + 2]
          BY <1>1, <1>2, <1>8, <2>1, <4>1, <5>1
        <5> QED BY <1>3, <4>2, <4>3, <5>2
      <4>4. CASE ~(k + 1 <= Len(q))
        <5>1. k + 1 = Len(s)
          BY <1>1, <1>8, <3>1, <4>4
        <5> QED BY <1>1, <1>2, <1>3, <1>4, <4>2, <4>4, <5>1
      <4> QED BY <4>3, <4>4
    <3> QED BY <3>2, <3>3, <3>4
  <2> QED BY <2>3, <2>4
<1> QED BY <1>5, <1>7, <1>8 DEF Leaves

\* Queued, which follows the links and the half-done pushes, is the chain
\* without the stub.
LEMMA QueuedIs ==
    ASSUME MpscType, NEW s \in Seq(Cell), Traced(s), NEW q \in Seq(Node), Leaves(s, q)
    PROVE  Queued = q
<1>1. /\ Skip[tail] = IF 1 <= Len(q) THEN q[1] ELSE NULL
      /\ \A k \in 1..Len(q) : Skip[After[q[k]]] = IF k + 1 <= Len(q) THEN q[k + 1] ELSE NULL
      /\ Skip[After[NULL]] = NULL
  BY SkipFacts
<1>2. Once(s)
  BY DEF Once, Traced
<1>3. PICK N : N = Cardinality(Node) + 1
  OBVIOUS
<1>4. N \in Nat /\ Len(q) <= N /\ N >= 1 /\ Len(q) \in Nat /\ \A i \in 1..Len(q) : q[i] \in Node
  BY <1>2, <1>3, LeavesBounded, Cells
<1>5. PICK G : G = [k \in 1..N |-> IF k <= Len(q) THEN q[k] ELSE NULL]
  OBVIOUS
<1>6. \A k \in 1..N : G[k] = IF k <= Len(q) THEN q[k] ELSE NULL
  BY <1>5
<1>7. \A k \in 1..N : G[k] = Skip[IF k = 1 THEN tail ELSE After[G[k - 1]]]
  <2> TAKE k \in 1..N
  <2>1. CASE k = 1
    BY <1>1, <1>6, <2>1
  <2>2. CASE k # 1
    <3>1. k - 1 \in 1..N /\ k \in Nat /\ k - 1 + 1 = k
      BY <1>4, <2>2
    <3>2. CASE k - 1 <= Len(q)
      <4>1. k - 1 \in 1..Len(q)
        BY <1>4, <3>1, <3>2
      <4>2. G[k - 1] = q[k - 1]
        BY <1>6, <3>1, <3>2
      <4>3. Skip[After[q[k - 1]]] = IF k <= Len(q) THEN q[k] ELSE NULL
        BY <1>1, <3>1, <4>1
      <4> QED BY <1>6, <2>2, <4>2, <4>3
    <3>3. CASE ~(k - 1 <= Len(q))
      <4>1. G[k - 1] = NULL /\ ~(k <= Len(q))
        BY <1>4, <1>6, <3>1, <3>3
      <4> QED BY <1>1, <1>6, <2>2, <4>1
    <3> QED BY <3>2, <3>3
  <2> QED BY <2>1, <2>2
<1>8. G = [k \in 1..N |-> Skip[IF k = 1 THEN tail ELSE After[G[k - 1]]]]
  BY <1>5, <1>7
<1>9. PICK at : at = CHOOSE f : f = [k \in 1..N |-> Skip[IF k = 1 THEN tail ELSE After[f[k - 1]]]]
  OBVIOUS
<1>10. at = [k \in 1..N |-> Skip[IF k = 1 THEN tail ELSE After[at[k - 1]]]]
  BY <1>8, <1>9
<1>11. Queued = SubSeq([k \in DOMAIN at |-> at[k]], 1, Cardinality({k \in DOMAIN at : at[k] # NULL}))
  BY ONLY <1>3, <1>9 DEF Queued
<1>12. \A k \in 1..N : at[k] = G[k]
  <2> SUFFICES ASSUME \E k \in 1..N : at[k] # G[k] PROVE FALSE
    OBVIOUS
  <2>1. PICK D : D = {k \in 1..N : at[k] # G[k]}
    OBVIOUS
  <2>2. D \in SUBSET Nat /\ D # {}
    BY <1>4, <2>1
  <2>3. PICK k \in D : \A m \in D : k <= m
    BY <2>2, LeastNumber
  <2>4. k \in 1..N /\ at[k] # G[k]
    BY <2>1, <2>3
  <2>5. at[k] = Skip[IF k = 1 THEN tail ELSE After[at[k - 1]]]
    BY <1>10, <2>4
  <2>6. k # 1 => at[k - 1] = G[k - 1]
    <3>1. k # 1 => k - 1 \in 1..N /\ ~(k <= k - 1)
      BY <1>4, <2>4
    <3> QED BY <2>1, <2>3, <3>1
  <2>7. G[k] = Skip[IF k = 1 THEN tail ELSE After[G[k - 1]]]
    BY <1>7, <2>4
  <2> QED BY <2>4, <2>5, <2>6, <2>7
<1>13. DOMAIN at = 1..N /\ at = G
  BY <1>5, <1>10, <1>12
<1>14. {k \in DOMAIN at : at[k] # NULL} = 1..Len(q)
  <2>1. NULL \notin Node
    BY StubAssumption
  <2>2. \A k \in 1..N : G[k] # NULL <=> k <= Len(q)
    BY <1>4, <1>6, <2>1
  <2> QED BY <1>4, <1>13, <2>2
<1>15. Cardinality(1..Len(q)) = Len(q)
  BY <1>4, FirstNumbers
<1>16. Queued = SubSeq(G, 1, Len(q))
  <2>1. [k \in DOMAIN at |-> at[k]] = G
    BY <1>5, <1>13
  <2> QED BY <1>11, <1>14, <1>15, <2>1
<1>17. G \in Seq(Node \union {NULL}) /\ Len(G) = N
  BY <1>4, <1>5
<1>18. PICK r : r = SubSeq(G, 1, Len(q))
  OBVIOUS
<1>19. r \in Seq(Node \union {NULL}) /\ Len(r) = Len(q) /\ \A i \in 1..Len(q) : r[i] = G[i]
  BY <1>4, <1>17, <1>18
<1>20. \A i \in 1..Len(q) : r[i] = q[i]
  BY <1>4, <1>6, <1>19
<1>21. q \in Seq(Node \union {NULL})
  <2>1. q = [i \in 1..Len(q) |-> q[i]]
    BY Cells
  <2> QED BY <1>4, <2>1
<1> QED BY <1>16, <1>18, <1>19, <1>20, <1>21, SeqEqual

\* The same, as a formula for the state before and the state after a step.
QueuedFact ==
    \A s \in Seq(Cell), q \in Seq(Node) : MpscType /\ Traced(s) /\ Leaves(s, q) => Queued = q

\* QueuedIs says so.
LEMMA QueuedNow == QueuedFact
BY QueuedIs DEF QueuedFact

\* And it says so of the next state.
LEMMA QueuedThen == QueuedFact'
BY QueuedNow, PTL

-----------------------------------------------------------------------------
(* The steps of a push.                                                      *)

\* The position of a half-done push, and that no other is there.
LEMMA LinkAt ==
    ASSUME MpscType, NEW s \in Seq(Cell), Traced(s), NEW p \in Pusher, ppc[p] = "link"
    PROVE  \E i \in 1..Len(s) - 1 :
               /\ i \in 1..Len(s) /\ i + 1 \in 1..Len(s) /\ prev[p] = s[i] /\ new[p] = s[i + 1]
               /\ prev[p] \in Cell /\ new[p] \in Cell /\ next[prev[p]] = NULL /\ prev[p] # head
<1>1. Len(s) \in Nat /\ Len(s) >= 1 /\ \A i \in 1..Len(s) : s[i] \in Cell
  BY Cells DEF Traced
<1>2. PICK i \in 1..Len(s) - 1 : prev[p] = s[i] /\ new[p] = s[i + 1] /\ next[s[i]] = NULL
  BY DEF Traced
<1>3. i \in 1..Len(s) /\ i + 1 \in 1..Len(s) /\ Len(s) \in 1..Len(s) /\ i # Len(s)
  BY <1>1
<1>4. s[i] # s[Len(s)] /\ s[Len(s)] = head
  BY <1>3 DEF Traced
<1> QED BY <1>1, <1>2, <1>3, <1>4

\* The initialisation of the node.
LEMMA StartPushStep ==
    ASSUME MpscInv, NEW s \in Seq(Cell), Traced(s), NEW r \in Producer, NEW n \in Node, StartPush(r, n)
    PROVE  MpscType' /\ Traced(s)' /\ NewInv' /\ PopInv' /\ QuietInv'
<1>1. MpscType /\ NewInv /\ PopInv /\ QuietInv
  BY DEF MpscInv
<1>2. r \in Pusher /\ r # Consumer /\ n \in loose /\ n \in Cell /\ ppc[r] = "idle" /\ n # NULL
  BY StubAssumption DEF StartPush, Pusher, Cell
<1>3. /\ loose' = loose \ {n} /\ next' = [next EXCEPT ![n] = NULL] /\ new' = [new EXCEPT ![r] = n]
      /\ ppc' = [ppc EXCEPT ![r] = "exchange"]
      /\ head' = head /\ tail' = tail /\ prev' = prev /\ cpc' = cpc /\ ctail' = ctail /\ cnext' = cnext
      /\ quiet' = quiet
  BY DEF StartPush
<1>4. /\ next'[n] = NULL /\ (\A c \in Cell : c # n => next'[c] = next[c])
      /\ ppc'[r] = "exchange" /\ new'[r] = n
      /\ \A p \in Pusher : p # r => ppc'[p] = ppc[p] /\ new'[p] = new[p]
  BY <1>1, <1>2, <1>3 DEF MpscType
<1>5. MpscType'
  BY <1>1, <1>2, <1>3 DEF MpscType
<1>6. /\ Len(s) \in Nat /\ Len(s) >= 1 /\ 1 \in 1..Len(s) /\ Len(s) \in 1..Len(s)
      /\ \A i \in 1..Len(s) : s[i] \in Cell /\ s[i] # n
      /\ \A i \in 1..Len(s) - 1 : i \in 1..Len(s) /\ i + 1 \in 1..Len(s)
      /\ tail = s[1] /\ head = s[Len(s)]
  <2>1. Len(s) \in Nat /\ Len(s) >= 1 /\ \A i \in 1..Len(s) : s[i] \in Cell
    BY Cells DEF Traced
  <2> QED BY <1>2, <2>1 DEF Traced
<1>7. Traced(s)'
  <2>1. next'[head] = NULL /\ \A i \in 1..Len(s) : next'[s[i]] = next[s[i]] /\ s[i] \notin loose'
    BY <1>3, <1>4, <1>6 DEF Traced
  <2>2. \A i \in 1..Len(s) - 1 :
           \/ next'[s[i]] = s[i + 1]
           \/ next'[s[i]] = NULL /\ \E p \in Pusher : ppc'[p] = "link" /\ prev'[p] = s[i]
    <3> TAKE i \in 1..Len(s) - 1
    <3>1. CASE next[s[i]] = s[i + 1]
      BY <1>6, <2>1, <3>1
    <3>2. CASE next[s[i]] = NULL /\ \E p \in Pusher : ppc[p] = "link" /\ prev[p] = s[i]
      <4>1. PICK p \in Pusher : ppc[p] = "link" /\ prev[p] = s[i]
        BY <3>2
      <4>2. ppc'[p] = "link" /\ prev'[p] = s[i]
        BY <1>2, <1>3, <1>4, <4>1
      <4> QED BY <1>6, <2>1, <3>2, <4>2
    <3> QED BY <3>1, <3>2 DEF Traced
  <2>3. \A p \in Pusher : ppc'[p] = "link" =>
           \E i \in 1..Len(s) - 1 : prev'[p] = s[i] /\ new'[p] = s[i + 1] /\ next'[s[i]] = NULL
    <3> TAKE p \in Pusher
    <3> HAVE ppc'[p] = "link"
    <3>1. p # r /\ ppc[p] = "link" /\ new'[p] = new[p]
      BY <1>4
    <3>2. PICK i \in 1..Len(s) - 1 : prev[p] = s[i] /\ new[p] = s[i + 1] /\ next[s[i]] = NULL
      BY <3>1 DEF Traced
    <3> QED BY <1>3, <1>6, <2>1, <3>1, <3>2
  <2>4. \A p \in Pusher : ppc'[p] = "exchange" => \A i \in 1..Len(s) : new'[p] # s[i]
    BY <1>4, <1>6 DEF Traced
  <2>5. Len(s) >= 1 /\ s[1] = tail' /\ s[Len(s)] = head' /\ next'[head'] = NULL
    BY <1>3, <1>6, <2>1
  <2>6. \A i, j \in 1..Len(s) : s[i] = s[j] => i = j
    BY DEF Traced
  <2> QED BY <2>1, <2>2, <2>3, <2>4, <2>5, <2>6 DEF Traced
<1>8. NewInv'
  <2>1. \A p \in Pusher : ppc'[p] = "exchange" =>
           /\ new'[p] \notin loose' /\ next'[new'[p]] = NULL
           /\ IF p = Consumer THEN new'[p] = Stub ELSE new'[p] \in Node
    <3> TAKE p \in Pusher
    <3> HAVE ppc'[p] = "exchange"
    <3>1. CASE p = r
      BY <1>2, <1>3, <1>4, <3>1
    <3>2. CASE p # r
      <4>1. ppc[p] = "exchange" /\ new'[p] = new[p]
        BY <1>4, <3>2
      <4>2. /\ new[p] \notin loose /\ next[new[p]] = NULL
            /\ IF p = Consumer THEN new[p] = Stub ELSE new[p] \in Node
        BY <1>1, <4>1 DEF NewInv
      <4>3. new[p] # n /\ new[p] \in Cell
        BY <1>2, <4>2 DEF Cell
      <4> QED BY <1>3, <1>4, <4>1, <4>2, <4>3
    <3> QED BY <3>1, <3>2
  <2>2. \A p, t \in Pusher : p # t /\ ppc'[p] = "exchange" /\ ppc'[t] = "exchange" => new'[p] # new'[t]
    <3>1. \A p \in Pusher : p # r /\ ppc[p] = "exchange" => new[p] # n
      BY <1>1, <1>2 DEF NewInv
    <3> QED BY <1>1, <1>4, <3>1 DEF NewInv
  <2>3. \A p, t \in Pusher : p # t /\ ppc'[p] = "link" /\ ppc'[t] = "link" => prev'[p] # prev'[t]
    BY <1>1, <1>3, <1>4 DEF NewInv
  <2> QED BY <2>1, <2>2, <2>3 DEF NewInv
<1>9. next'[tail] = next[tail] /\ ppc'[Consumer] = ppc[Consumer]
  BY <1>2, <1>4, <1>6 DEF Pusher
<1>10. PopInv'
  BY <1>1, <1>3, <1>9 DEF PopInv
<1>11. QuietInv'
  <2>1. HalfDone' => HalfDone
    BY <1>4 DEF HalfDone, Pusher
  <2> QED BY <1>1, <1>3, <1>9, <2>1 DEF QuietInv
<1> QED BY <1>5, <1>7, <1>8, <1>10, <1>11

\* The exchange: the node is in the queue.
LEMMA ExchangeStep ==
    ASSUME MpscInv, NEW s \in Seq(Cell), Traced(s), NEW r \in Pusher, Exchange(r)
    PROVE  /\ MpscType' /\ NewInv' /\ PopInv' /\ QuietInv'
           /\ \E t : t = Append(s, new[r]) /\ Traced(t)'
           /\ new[r] \in Cell /\ (IF r = Consumer THEN new[r] = Stub ELSE new[r] \in Node)
           /\ \A i \in 1..Len(s) : s[i] # new[r]
<1>1. MpscType /\ NewInv /\ PopInv /\ QuietInv
  BY DEF MpscInv
<1>2. ppc[r] = "exchange"
  BY DEF Exchange
<1>3. /\ prev' = [prev EXCEPT ![r] = head] /\ head' = new[r] /\ ppc' = [ppc EXCEPT ![r] = "link"]
      /\ quiet' = (quiet /\ r = Consumer)
      /\ tail' = tail /\ next' = next /\ loose' = loose /\ new' = new /\ cpc' = cpc /\ ctail' = ctail
      /\ cnext' = cnext
  BY DEF Exchange
<1>4. PICK x : x = new[r]
  OBVIOUS
<1>5. x \in Cell /\ x \notin loose /\ next[x] = NULL /\ (IF r = Consumer THEN x = Stub ELSE x \in Node)
  BY <1>1, <1>2, <1>4 DEF NewInv, Cell
<1>6. /\ ppc'[r] = "link" /\ prev'[r] = head
      /\ \A p \in Pusher : p # r => ppc'[p] = ppc[p] /\ prev'[p] = prev[p]
  BY <1>1, <1>3 DEF MpscType
<1>7. MpscType'
  <2>1. quiet' \in BOOLEAN
    BY <1>3
  <2>2. prev' \in [Pusher -> Cell \union {NULL}] /\ ppc' \in [Pusher -> {"idle", "exchange", "link"}]
    BY <1>1, <1>3 DEF MpscType
  <2> QED BY <1>1, <1>3, <1>4, <1>5, <2>1, <2>2 DEF MpscType
<1>8. /\ Len(s) \in Nat /\ Len(s) >= 1 /\ 1 \in 1..Len(s) /\ Len(s) \in 1..Len(s)
      /\ \A i \in 1..Len(s) : s[i] \in Cell /\ s[i] # x
      /\ \A i \in 1..Len(s) - 1 : i \in 1..Len(s) /\ i + 1 \in 1..Len(s)
      /\ tail = s[1] /\ head = s[Len(s)]
  <2>1. Len(s) \in Nat /\ Len(s) >= 1 /\ \A i \in 1..Len(s) : s[i] \in Cell
    BY Cells DEF Traced
  <2>2. \A i \in 1..Len(s) : s[i] # x
    BY <1>2, <1>4 DEF Traced
  <2> QED BY <2>1, <2>2 DEF Traced
<1>9. PICK t : t = Append(s, x)
  OBVIOUS
<1>10. Len(t) = Len(s) + 1 /\ t[Len(s) + 1] = x /\ \A i \in 1..Len(s) : t[i] = s[i]
  BY <1>5, <1>9, AppendItems
<1>11. Traced(t)'
  <2>1. Len(t) >= 1 /\ t[1] = tail' /\ t[Len(t)] = head' /\ next'[head'] = NULL
    BY <1>3, <1>4, <1>5, <1>8, <1>10
  <2>2. \A i, j \in 1..Len(t) : t[i] = t[j] => i = j
    <3> TAKE i, j \in 1..Len(t)
    <3>1. CASE i \in 1..Len(s) /\ j \in 1..Len(s)
      BY <1>10, <3>1 DEF Traced
    <3>2. CASE i = Len(s) + 1 \/ j = Len(s) + 1
      <4>1. (i \in 1..Len(s) \/ i = Len(s) + 1) /\ (j \in 1..Len(s) \/ j = Len(s) + 1)
        BY <1>8, <1>10
      <4> QED BY <1>8, <1>10, <3>2, <4>1
    <3> QED BY <1>8, <1>10, <3>1, <3>2
  <2>3. \A i \in 1..Len(t) - 1 :
           \/ next'[t[i]] = t[i + 1]
           \/ next'[t[i]] = NULL /\ \E p \in Pusher : ppc'[p] = "link" /\ prev'[p] = t[i]
    <3> TAKE i \in 1..Len(t) - 1
    <3>1. CASE i = Len(s)
      <4>1. t[i] = head /\ next'[head] = NULL
        BY <1>3, <1>8, <1>10, <3>1 DEF Traced
      <4> QED BY <1>6, <4>1
    <3>2. CASE i # Len(s)
      <4>1. i \in 1..Len(s) - 1
        BY <1>8, <1>10, <3>2
      <4>2. t[i] = s[i] /\ t[i + 1] = s[i + 1]
        BY <1>8, <1>10, <4>1
      <4>3. CASE next[s[i]] = s[i + 1]
        BY <1>3, <4>2, <4>3
      <4>4. CASE next[s[i]] = NULL /\ \E p \in Pusher : ppc[p] = "link" /\ prev[p] = s[i]
        <5>1. PICK p \in Pusher : ppc[p] = "link" /\ prev[p] = s[i]
          BY <4>4
        <5>2. ppc'[p] = "link" /\ prev'[p] = s[i]
          BY <1>2, <1>6, <5>1
        <5> QED BY <1>3, <4>2, <4>4, <5>2
      <4> QED BY <4>1, <4>3, <4>4 DEF Traced
    <3> QED BY <3>1, <3>2
  <2>4. \A p \in Pusher : ppc'[p] = "link" =>
           \E i \in 1..Len(t) - 1 : prev'[p] = t[i] /\ new'[p] = t[i + 1] /\ next'[t[i]] = NULL
    <3> TAKE p \in Pusher
    <3> HAVE ppc'[p] = "link"
    <3>1. CASE p = r
      <4>1. Len(s) \in 1..Len(t) - 1 /\ t[Len(s)] = head /\ t[Len(s) + 1] = x
        BY <1>8, <1>10
      <4>2. prev'[p] = head /\ new'[p] = x /\ next'[head] = NULL
        BY <1>3, <1>4, <1>6, <3>1 DEF Traced
      <4> QED BY <4>1, <4>2
    <3>2. CASE p # r
      <4>1. ppc[p] = "link" /\ prev'[p] = prev[p]
        BY <1>6, <3>2
      <4>2. PICK i \in 1..Len(s) - 1 : prev[p] = s[i] /\ new[p] = s[i + 1] /\ next[s[i]] = NULL
        BY <4>1 DEF Traced
      <4>3. i \in 1..Len(t) - 1 /\ t[i] = s[i] /\ t[i + 1] = s[i + 1]
        BY <1>8, <1>10
      <4> QED BY <1>3, <4>1, <4>2, <4>3
    <3> QED BY <3>1, <3>2
  <2>5. \A i \in 1..Len(t) : t[i] \notin loose'
    <3> TAKE i \in 1..Len(t)
    <3>1. i \in 1..Len(s) \/ i = Len(s) + 1
      BY <1>8, <1>10
    <3> QED BY <1>3, <1>5, <1>10, <3>1 DEF Traced
  <2>6. \A p \in Pusher : ppc'[p] = "exchange" => \A i \in 1..Len(t) : new'[p] # t[i]
    <3> TAKE p \in Pusher
    <3> HAVE ppc'[p] = "exchange"
    <3> TAKE i \in 1..Len(t)
    <3>1. p # r /\ ppc[p] = "exchange"
      BY <1>6
    <3>2. new[p] # x
      BY <1>1, <1>2, <1>4, <3>1 DEF NewInv
    <3>3. i \in 1..Len(s) \/ i = Len(s) + 1
      BY <1>8, <1>10
    <3> QED BY <1>3, <1>10, <3>1, <3>2, <3>3 DEF Traced
  <2> QED BY <2>1, <2>2, <2>3, <2>4, <2>5, <2>6 DEF Traced
<1>12. NewInv'
  <2>1. \A p \in Pusher : p # r /\ ppc[p] = "link" => prev[p] # head
    BY <1>1, LinkAt
  <2>2. \A p, u \in Pusher : p # u /\ ppc'[p] = "link" /\ ppc'[u] = "link" => prev'[p] # prev'[u]
    BY <1>1, <1>6, <2>1 DEF NewInv
  <2>3. \A p \in Pusher : ppc'[p] = "exchange" => p # r /\ ppc[p] = "exchange"
    BY <1>6
  <2> QED BY <1>1, <1>3, <2>2, <2>3 DEF NewInv
<1>13. tail # head'
  BY <1>3, <1>4, <1>8
<1>14. PopInv'
  <2>1. r = Consumer => ppc'[Consumer] = "link" /\ ppc[Consumer] = "exchange"
    BY <1>2, <1>6
  <2>2. r # Consumer => ppc'[Consumer] = ppc[Consumer]
    BY <1>6 DEF Pusher
  <2> QED BY <1>1, <1>3, <1>13, <2>1, <2>2 DEF PopInv
<1>15. QuietInv'
  <2> SUFFICES ASSUME quiet', cpc' # "idle"
               PROVE  /\ ~HalfDone' /\ cpc' # "busy" /\ (tail' # Stub \/ head' # Stub)
                      /\ cpc' = "decide" => cnext' = next'[tail']
    BY DEF QuietInv
  <2>1. quiet /\ r = Consumer /\ cpc # "idle"
    BY <1>3
  <2>2. ~HalfDone /\ cpc # "busy" /\ (cpc = "decide" => cnext = next[tail])
    BY <1>1, <2>1 DEF QuietInv
  <2>3. ~HalfDone'
    BY <1>6, <2>1, <2>2, StubAssumption DEF HalfDone, Pusher
  <2> QED BY <1>3, <1>13, <2>2, <2>3
<1> QED BY <1>4, <1>5, <1>7, <1>8, <1>9, <1>11, <1>12, <1>14, <1>15

\* The link: the chain is the same.
LEMMA LinkNodeStep ==
    ASSUME MpscInv, NEW s \in Seq(Cell), Traced(s), NEW r \in Pusher, LinkNode(r)
    PROVE  MpscType' /\ Traced(s)' /\ NewInv' /\ PopInv' /\ QuietInv'
<1>1. MpscType /\ NewInv /\ PopInv /\ QuietInv
  BY DEF MpscInv
<1>2. ppc[r] = "link"
  BY DEF LinkNode
<1>3. /\ next' = [next EXCEPT ![prev[r]] = new[r]] /\ ppc' = [ppc EXCEPT ![r] = "idle"]
      /\ cpc' = (IF r = Consumer THEN "reload" ELSE cpc)
      /\ head' = head /\ tail' = tail /\ loose' = loose /\ new' = new /\ prev' = prev
      /\ ctail' = ctail /\ cnext' = cnext /\ quiet' = quiet
  BY DEF LinkNode
<1>4. PICK m \in 1..Len(s) - 1 :
          /\ m \in 1..Len(s) /\ m + 1 \in 1..Len(s) /\ prev[r] = s[m] /\ new[r] = s[m + 1]
          /\ prev[r] \in Cell /\ new[r] \in Cell /\ next[prev[r]] = NULL /\ prev[r] # head
  BY <1>1, <1>2, LinkAt
<1>5. /\ next'[s[m]] = s[m + 1] /\ \A c \in Cell : c # s[m] => next'[c] = next[c]
      /\ ppc'[r] = "idle" /\ \A p \in Pusher : p # r => ppc'[p] = ppc[p]
  BY <1>1, <1>3, <1>4 DEF MpscType
<1>6. MpscType'
  <2>1. next' \in [Cell -> Cell \union {NULL}] /\ ppc' \in [Pusher -> {"idle", "exchange", "link"}]
    BY <1>1, <1>3, <1>4 DEF MpscType
  <2>2. cpc' \in {"idle", "decide", "busy", "stub", "reload"}
    BY <1>1, <1>3 DEF MpscType
  <2> QED BY <1>1, <1>3, <2>1, <2>2 DEF MpscType
<1>7. /\ Len(s) \in Nat /\ Len(s) >= 1 /\ 1 \in 1..Len(s) /\ Len(s) \in 1..Len(s)
      /\ \A i \in 1..Len(s) : s[i] \in Cell /\ (s[i] = s[m] => i = m)
      /\ \A i \in 1..Len(s) - 1 : i \in 1..Len(s) /\ i + 1 \in 1..Len(s)
      /\ tail = s[1] /\ head = s[Len(s)]
  <2>1. Len(s) \in Nat /\ Len(s) >= 1 /\ \A i \in 1..Len(s) : s[i] \in Cell
    BY Cells DEF Traced
  <2>2. \A i \in 1..Len(s) : s[i] = s[m] => i = m
    BY <1>4 DEF Traced
  <2>3. \A i \in 1..Len(s) - 1 : i \in 1..Len(s) /\ i + 1 \in 1..Len(s)
    BY <2>1
  <2>4. 1 \in 1..Len(s) /\ Len(s) \in 1..Len(s)
    BY <2>1
  <2> QED BY <2>1, <2>2, <2>3, <2>4 DEF Traced
<1>8. Traced(s)'
  <2>1. Len(s) >= 1 /\ s[1] = tail' /\ s[Len(s)] = head' /\ next'[head'] = NULL
    <3>1. next[head] = NULL
      BY DEF Traced
    <3> QED BY <1>3, <1>4, <1>5, <1>7, <3>1
  <2>2. \A i, j \in 1..Len(s) : s[i] = s[j] => i = j
    BY DEF Traced
  <2>3. \A i \in 1..Len(s) - 1 :
           \/ next'[s[i]] = s[i + 1]
           \/ next'[s[i]] = NULL /\ \E p \in Pusher : ppc'[p] = "link" /\ prev'[p] = s[i]
    <3> TAKE i \in 1..Len(s) - 1
    <3>1. CASE i = m
      BY <1>5, <3>1
    <3>2. CASE i # m
      <4>1. next'[s[i]] = next[s[i]] /\ s[i] # s[m]
        BY <1>5, <1>7, <3>2
      <4>2. CASE next[s[i]] = s[i + 1]
        BY <4>1, <4>2
      <4>3. CASE next[s[i]] = NULL /\ \E p \in Pusher : ppc[p] = "link" /\ prev[p] = s[i]
        <5>1. PICK p \in Pusher : ppc[p] = "link" /\ prev[p] = s[i]
          BY <4>3
        <5>2. p # r
          BY <1>4, <4>1, <5>1
        <5>3. ppc'[p] = "link" /\ prev'[p] = s[i]
          BY <1>3, <1>5, <5>1, <5>2
        <5> QED BY <4>1, <4>3, <5>3
      <4> QED BY <4>2, <4>3 DEF Traced
    <3> QED BY <3>1, <3>2
  <2>4. \A p \in Pusher : ppc'[p] = "link" =>
           \E i \in 1..Len(s) - 1 : prev'[p] = s[i] /\ new'[p] = s[i + 1] /\ next'[s[i]] = NULL
    <3> TAKE p \in Pusher
    <3> HAVE ppc'[p] = "link"
    <3>1. p # r /\ ppc[p] = "link"
      BY <1>5
    <3>2. PICK i \in 1..Len(s) - 1 : prev[p] = s[i] /\ new[p] = s[i + 1] /\ next[s[i]] = NULL
      BY <3>1 DEF Traced
    <3>3. s[i] # s[m]
      BY <1>1, <1>2, <1>4, <3>1, <3>2 DEF NewInv
    <3>4. next'[s[i]] = NULL
      BY <1>5, <1>7, <3>2, <3>3
    <3> QED BY <1>3, <3>2, <3>4
  <2>5. \A i \in 1..Len(s) : s[i] \notin loose'
    BY <1>3 DEF Traced
  <2>6. \A p \in Pusher : ppc'[p] = "exchange" => \A i \in 1..Len(s) : new'[p] # s[i]
    BY <1>3, <1>5 DEF Traced
  <2> QED BY <2>1, <2>2, <2>3, <2>4, <2>5, <2>6 DEF Traced
<1>9. NewInv'
  <2>1. \A p \in Pusher : ppc'[p] = "exchange" =>
           /\ new'[p] \notin loose' /\ next'[new'[p]] = NULL
           /\ IF p = Consumer THEN new'[p] = Stub ELSE new'[p] \in Node
    <3> TAKE p \in Pusher
    <3> HAVE ppc'[p] = "exchange"
    <3>1. p # r /\ ppc[p] = "exchange"
      BY <1>5
    <3>2. /\ new[p] \notin loose /\ next[new[p]] = NULL
          /\ IF p = Consumer THEN new[p] = Stub ELSE new[p] \in Node
      BY <1>1, <3>1 DEF NewInv
    <3>3. new[p] # s[m] /\ new[p] \in Cell
      BY <1>4, <3>1, <3>2 DEF Traced, Cell
    <3> QED BY <1>3, <1>5, <3>2, <3>3
  <2>2. \A p, u \in Pusher : p # u /\ ppc'[p] = "exchange" /\ ppc'[u] = "exchange" => new'[p] # new'[u]
    BY <1>1, <1>3, <1>5 DEF NewInv
  <2>3. \A p, u \in Pusher : p # u /\ ppc'[p] = "link" /\ ppc'[u] = "link" => prev'[p] # prev'[u]
    BY <1>1, <1>3, <1>5 DEF NewInv
  <2> QED BY <2>1, <2>2, <2>3 DEF NewInv
<1>10. next[tail] # NULL => next'[tail] = next[tail]
  BY <1>1, <1>4, <1>5 DEF MpscType
<1>11. PopInv'
  <2>1. CASE r = Consumer
    <3>1. cpc = "stub" /\ cpc' = "reload" /\ ppc'[Consumer] = "idle" /\ tail # head /\ tail # Stub /\ ctail = tail
      BY <1>1, <1>2, <1>3, <1>5, <2>1 DEF PopInv
    <3> QED BY <1>3, <3>1 DEF PopInv
  <2>2. CASE r # Consumer
    <3>1. cpc' = cpc /\ ppc'[Consumer] = ppc[Consumer]
      BY <1>3, <1>5, <2>2 DEF Pusher
    <3>2. cpc = "decide" /\ cnext # NULL => cnext = next'[tail]
      BY <1>1, <1>10 DEF PopInv
    <3> QED BY <1>1, <1>3, <3>1, <3>2 DEF PopInv
  <2> QED BY <2>1, <2>2
<1>12. QuietInv'
  <2> SUFFICES ASSUME quiet', cpc' # "idle"
               PROVE  /\ ~HalfDone' /\ cpc' # "busy" /\ (tail' # Stub \/ head' # Stub)
                      /\ cpc' = "decide" => cnext' = next'[tail']
    BY DEF QuietInv
  <2>1. quiet /\ cpc # "idle"
    <3>1. r = Consumer => cpc = "stub"
      BY <1>1, <1>2 DEF PopInv
    <3> QED BY <1>3, <3>1
  <2>2. ~HalfDone /\ cpc # "busy" /\ (tail # Stub \/ head # Stub)
    BY <1>1, <2>1 DEF QuietInv
  <2>3. r = Consumer
    BY <1>2, <2>2 DEF HalfDone, Pusher
  <2>4. cpc' = "reload" /\ ~HalfDone'
    BY <1>3, <1>5, <2>2, <2>3 DEF HalfDone, Pusher
  <2> QED BY <1>3, <2>2, <2>4
<1> QED BY <1>6, <1>8, <1>9, <1>11, <1>12

-----------------------------------------------------------------------------
(* The steps of a pop.                                                       *)

\* A step that writes no cell and no variable of a pusher leaves the chain as it is.
LEMMA ChainKept ==
    ASSUME NEW s \in Seq(Cell), Traced(s), NewInv,
           UNCHANGED <<head, tail, next, loose, ppc, new, prev>>
    PROVE  Traced(s)' /\ NewInv' /\ (HalfDone' <=> HalfDone)
<1>1. Traced(s)'
  BY DEF Traced
<1>2. NewInv'
  BY DEF NewInv
<1> QED BY <1>1, <1>2 DEF HalfDone

\* A tail that is not the head and has no successor waits for a producer's link.
LEMMA GapIsHalfDone ==
    ASSUME NEW s \in Seq(Cell), Traced(s), tail # head, next[tail] = NULL, ppc[Consumer] # "link"
    PROVE  HalfDone
<1>1. Len(s) \in Nat /\ Len(s) >= 1
  BY Cells DEF Traced
<1>2. s[1] = tail /\ s[Len(s)] = head
  BY DEF Traced
<1>3. 1 \in 1..Len(s) - 1 /\ 2 \in 1..Len(s)
  BY <1>1, <1>2
<1>4. s[2] \in Cell /\ NULL \notin Cell
  BY <1>3, Cells, StubAssumption DEF Cell
<1>5. PICK p \in Pusher : ppc[p] = "link"
  BY <1>2, <1>3, <1>4 DEF Traced
<1> QED BY <1>5 DEF HalfDone, Pusher

\* The tail moves to its successor.
LEMMA TailMoves ==
    ASSUME MpscType, NEW s \in Seq(Cell), Traced(s), next[tail] # NULL, tail' = next[tail],
           loose' \subseteq loose \union {tail}, UNCHANGED <<head, next, ppc, new, prev>>
    PROVE  /\ Len(s) > 1 /\ s[1] = tail /\ s[2] = tail' /\ s[2] # s[1]
           /\ \E t : t = Tail(s) /\ Traced(t)'
<1>1. /\ Len(s) \in Nat /\ Len(s) >= 1 /\ s # <<>> /\ \A i \in 1..Len(s) : s[i] \in Cell
  BY Cells DEF Traced
<1>2. s[1] = tail /\ s[Len(s)] = head /\ next[head] = NULL
  BY DEF Traced
<1>3. Len(s) > 1 /\ 1 \in 1..Len(s) - 1 /\ 1 \in 1..Len(s) /\ 2 \in 1..Len(s) /\ Len(s) \in 1..Len(s)
  BY <1>1, <1>2
<1>4. s[2] = tail'
  BY <1>2, <1>3 DEF Traced
<1>5. s[2] # s[1]
  BY <1>3 DEF Traced
<1>6. PICK t : t = Tail(s)
  OBVIOUS
<1>7. Len(t) = Len(s) - 1 /\ \A i \in 1..Len(s) - 1 : t[i] = s[i + 1]
  BY <1>1, <1>6, TailItems
<1>8. /\ \A i \in 1..Len(t) : i + 1 \in 1..Len(s) /\ t[i] = s[i + 1] /\ i + 1 # 1
      /\ \A i \in 1..Len(t) - 1 : /\ i + 1 \in 1..Len(s) - 1 /\ i \in 1..Len(t) /\ i + 1 \in 1..Len(t)
                                  /\ t[i] = s[i + 1] /\ t[i + 1] = s[(i + 1) + 1]
      /\ \A i \in 1..Len(s) - 1 : i # 1 => i - 1 \in 1..Len(t) - 1 /\ (i - 1) + 1 = i
  BY <1>1, <1>7
<1>9. Traced(t)'
  <2>1. Len(t) >= 1 /\ t[1] = tail' /\ t[Len(t)] = head' /\ next'[head'] = NULL
    BY <1>1, <1>2, <1>3, <1>4, <1>7
  <2>2. \A i, j \in 1..Len(t) : t[i] = t[j] => i = j
    <3> TAKE i, j \in 1..Len(t)
    <3> HAVE t[i] = t[j]
    <3>1. i + 1 = j + 1
      BY <1>8 DEF Traced
    <3> QED BY <1>1, <1>7, <3>1
  <2>3. \A i \in 1..Len(t) - 1 :
           \/ next'[t[i]] = t[i + 1]
           \/ next'[t[i]] = NULL /\ \E p \in Pusher : ppc'[p] = "link" /\ prev'[p] = t[i]
    <3> TAKE i \in 1..Len(t) - 1
    <3>1. PICK k \in 1..Len(s) - 1 : k = i + 1 /\ t[i] = s[k] /\ t[i + 1] = s[k + 1]
      BY <1>8
    <3>2. \/ next[s[k]] = s[k + 1]
          \/ next[s[k]] = NULL /\ \E p \in Pusher : ppc[p] = "link" /\ prev[p] = s[k]
      BY DEF Traced
    <3> QED BY <3>1, <3>2
  <2>4. \A p \in Pusher : ppc'[p] = "link" =>
           \E i \in 1..Len(t) - 1 : prev'[p] = t[i] /\ new'[p] = t[i + 1] /\ next'[t[i]] = NULL
    <3> TAKE p \in Pusher
    <3> HAVE ppc'[p] = "link"
    <3>1. PICK k \in 1..Len(s) - 1 : prev[p] = s[k] /\ new[p] = s[k + 1] /\ next[s[k]] = NULL
      BY DEF Traced
    <3>2. k # 1
      BY <1>2, <3>1
    <3>3. PICK i \in 1..Len(t) - 1 : i + 1 = k
      BY <1>8, <3>2
    <3>4. t[i] = s[k] /\ t[i + 1] = s[k + 1]
      BY <1>8, <3>3
    <3> QED BY <3>1, <3>4
  <2>5. \A i \in 1..Len(t) : t[i] \notin loose'
    <3> TAKE i \in 1..Len(t)
    <3>1. PICK k \in 1..Len(s) : k = i + 1 /\ t[i] = s[k] /\ k # 1
      BY <1>8
    <3>2. s[k] # s[1] /\ s[k] \notin loose
      BY <1>3, <3>1 DEF Traced
    <3> QED BY <1>2, <3>1, <3>2
  <2>6. \A p \in Pusher : ppc'[p] = "exchange" => \A i \in 1..Len(t) : new'[p] # t[i]
    BY <1>8 DEF Traced
  <2> QED BY <2>1, <2>2, <2>3, <2>4, <2>5, <2>6 DEF Traced
<1> QED BY <1>2, <1>3, <1>4, <1>5, <1>6, <1>9

\* The loads at the start.
LEMMA StartPopStep ==
    ASSUME MpscInv, NEW s \in Seq(Cell), Traced(s), StartPop
    PROVE  MpscType' /\ Traced(s)' /\ NewInv' /\ PopInv' /\ QuietInv'
<1>1. MpscType /\ NewInv /\ PopInv /\ QuietInv
  BY DEF MpscInv
<1>2. /\ cpc = "idle" /\ ctail' = tail /\ cnext' = next[tail] /\ cpc' = "decide"
      /\ quiet' = (Queued # <<>> /\ ~HalfDone)
      /\ head' = head /\ tail' = tail /\ next' = next /\ loose' = loose
      /\ ppc' = ppc /\ new' = new /\ prev' = prev
  BY DEF StartPop
<1>3. Traced(s)' /\ NewInv' /\ (HalfDone' <=> HalfDone)
  BY <1>1, <1>2, ChainKept
<1>4. MpscType'
  <2>1. quiet' \in BOOLEAN
    BY <1>2
  <2>2. next[tail] \in Cell \union {NULL}
    BY <1>1 DEF MpscType
  <2> QED BY <1>1, <1>2, <2>1, <2>2 DEF MpscType
<1>5. PopInv'
  BY <1>1, <1>2 DEF PopInv
<1>6. tail = Stub /\ head = Stub => Queued = <<>>
  <2> HAVE tail = Stub /\ head = Stub
  <2>1. Len(s) \in Nat /\ Len(s) >= 1 /\ s[1] = tail /\ s[Len(s)] = head
    BY Cells DEF Traced
  <2>2. 1 \in 1..Len(s) /\ Len(s) \in 1..Len(s)
    BY <2>1
  <2>3. Len(s) = 1
    <3>1. s[1] = s[Len(s)]
      BY <2>1
    <3>2. \A i, j \in 1..Len(s) : s[i] = s[j] => i = j
      BY DEF Traced
    <3> QED BY <2>2, <3>1, <3>2
  <2>4. PICK q \in Seq(Node) : q = <<>>
    <3>1. <<>> \in Seq(Node)
      BY EmptySeq
    <3> QED BY <3>1
  <2>5. Len(q) = 0 /\ Len(q) = Len(s) - 1
    BY <2>3, <2>4
  <2>6. Leaves(s, q)
    BY <2>1, <2>2, <2>5 DEF Leaves
  <2> QED BY <1>1, <2>4, <2>6, QueuedNow DEF QueuedFact
<1>7. QuietInv'
  BY <1>2, <1>3, <1>6 DEF QuietInv
<1> QED BY <1>3, <1>4, <1>5, <1>7

\* The stub is passed.
LEMMA SkipStubStep ==
    ASSUME MpscInv, NEW s \in Seq(Cell), Traced(s), SkipStub
    PROVE  /\ MpscType' /\ NewInv' /\ PopInv' /\ QuietInv'
           /\ Len(s) > 1 /\ s[1] = Stub /\ \E t : t = Tail(s) /\ Traced(t)'
<1>1. MpscType /\ NewInv /\ PopInv /\ QuietInv
  BY DEF MpscInv
<1>2. /\ cpc = "decide" /\ ctail = Stub /\ cnext # NULL
      /\ tail' = cnext /\ ctail' = cnext /\ cnext' = next[cnext]
      /\ head' = head /\ next' = next /\ loose' = loose /\ ppc' = ppc /\ new' = new /\ prev' = prev
      /\ cpc' = cpc /\ quiet' = quiet
  BY DEF SkipStub
<1>3. tail = Stub /\ cnext = next[tail] /\ cnext \in Cell
  BY <1>1, <1>2 DEF PopInv, MpscType
<1>4. Len(s) > 1 /\ s[1] = tail /\ s[2] = tail' /\ s[2] # s[1] /\ \E t : t = Tail(s) /\ Traced(t)'
  BY <1>1, <1>2, <1>3, TailMoves
<1>5. MpscType'
  <2>1. next[cnext] \in Cell \union {NULL}
    BY <1>1, <1>3 DEF MpscType
  <2> QED BY <1>1, <1>2, <1>3, <2>1 DEF MpscType
<1>6. NewInv'
  BY <1>1, <1>2 DEF NewInv
<1>7. PopInv'
  BY <1>1, <1>2, <1>3 DEF PopInv
<1>8. QuietInv'
  BY <1>1, <1>2, <1>3, <1>4 DEF QuietInv, HalfDone
<1> QED BY <1>3, <1>4, <1>5, <1>6, <1>7, <1>8

\* Nothing to return.
LEMMA NothingYetStep ==
    ASSUME MpscInv, NEW s \in Seq(Cell), Traced(s), NothingYet
    PROVE  MpscType' /\ Traced(s)' /\ NewInv' /\ PopInv' /\ QuietInv'
<1>1. MpscType /\ NewInv /\ PopInv /\ QuietInv
  BY DEF MpscInv
<1>2. /\ cpc \in {"decide", "busy"} /\ cpc' = "idle"
      /\ head' = head /\ tail' = tail /\ next' = next /\ loose' = loose
      /\ ppc' = ppc /\ new' = new /\ prev' = prev
      /\ ctail' = ctail /\ cnext' = cnext /\ quiet' = quiet
  BY DEF NothingYet
<1>3. Traced(s)' /\ NewInv'
  BY <1>1, <1>2, ChainKept
<1>4. MpscType'
  BY <1>1, <1>2 DEF MpscType
<1>5. PopInv'
  BY <1>1, <1>2 DEF PopInv
<1>6. QuietInv'
  BY <1>2 DEF QuietInv
<1> QED BY <1>3, <1>4, <1>5, <1>6

\* The node at the tail is returned.
LEMMA ReturnStep ==
    ASSUME MpscInv, NEW s \in Seq(Cell), Traced(s), Return
    PROVE  /\ MpscType' /\ NewInv' /\ PopInv' /\ QuietInv'
           /\ Len(s) > 1 /\ s[1] # Stub /\ \E t : t = Tail(s) /\ Traced(t)'
<1>1. MpscType /\ NewInv /\ PopInv /\ QuietInv
  BY DEF MpscInv
<1>2. /\ cpc = "decide" /\ ctail # Stub /\ cnext # NULL
      /\ tail' = cnext /\ loose' = loose \union {ctail} /\ cpc' = "idle"
      /\ head' = head /\ next' = next /\ ppc' = ppc /\ new' = new /\ prev' = prev
      /\ ctail' = ctail /\ cnext' = cnext /\ quiet' = quiet
  BY DEF Return, Linked
<1>3. ctail = tail /\ cnext = next[tail] /\ cnext \in Cell /\ tail \in Node
  BY <1>1, <1>2 DEF PopInv, MpscType, Cell
<1>4. Len(s) > 1 /\ s[1] = tail /\ s[2] = tail' /\ \E t : t = Tail(s) /\ Traced(t)'
  BY <1>1, <1>2, <1>3, TailMoves
<1>5. MpscType'
  BY <1>1, <1>2, <1>3 DEF MpscType
<1>6. NewInv'
  <2>1. 1 \in 1..Len(s)
    BY <1>4, Cells
  <2>2. \A p \in Pusher : ppc[p] = "exchange" => new[p] # tail
    BY <1>4, <2>1 DEF Traced
  <2> QED BY <1>1, <1>2, <1>3, <2>2 DEF NewInv
<1>7. PopInv'
  BY <1>1, <1>2 DEF PopInv
<1>8. QuietInv'
  BY <1>2 DEF QuietInv
<1> QED BY <1>2, <1>3, <1>4, <1>5, <1>6, <1>7, <1>8

\* The head is looked at: the stub's push begins, or a link is missing.
LEMMA LoadHeadStep ==
    ASSUME MpscInv, NEW s \in Seq(Cell), Traced(s), LoadHead
    PROVE  MpscType' /\ Traced(s)' /\ NewInv' /\ PopInv' /\ QuietInv'
<1>1. MpscType /\ NewInv /\ PopInv /\ QuietInv
  BY DEF MpscInv
<1>2. /\ cpc = "decide" /\ ctail # Stub /\ cnext = NULL
      /\ head' = head /\ tail' = tail /\ loose' = loose /\ prev' = prev
      /\ ctail' = ctail /\ cnext' = cnext /\ quiet' = quiet
  BY DEF LoadHead
<1>3. ctail = tail /\ ppc[Consumer] = "idle" /\ Consumer \in Pusher
  BY <1>1, <1>2 DEF PopInv, MpscType, Pusher
<1>4. Stub \in Cell /\ Stub \notin Node /\ Stub \notin loose
  BY <1>1, StubAssumption DEF Cell, MpscType
<1>5. CASE TailIsHead
  <2>1. /\ tail = head /\ cpc' = "stub" /\ next' = [next EXCEPT ![Stub] = NULL]
        /\ new' = [new EXCEPT ![Consumer] = Stub] /\ ppc' = [ppc EXCEPT ![Consumer] = "exchange"]
    BY <1>3, <1>5 DEF LoadHead, TailIsHead, StubReset
  <2>2. /\ next'[Stub] = NULL /\ (\A c \in Cell : c # Stub => next'[c] = next[c])
        /\ new'[Consumer] = Stub /\ ppc'[Consumer] = "exchange"
        /\ \A p \in Pusher : p # Consumer => new'[p] = new[p] /\ ppc'[p] = ppc[p]
    BY <1>1, <1>3, <1>4, <2>1 DEF MpscType
  <2>3. MpscType'
    <3>1. /\ next' \in [Cell -> Cell \union {NULL}] /\ new' \in [Pusher -> Cell \union {NULL}]
          /\ ppc' \in [Pusher -> {"idle", "exchange", "link"}]
      BY <1>1, <1>3, <1>4, <2>1 DEF MpscType
    <3>2. cpc' \in {"idle", "decide", "busy", "stub", "reload"}
      BY <2>1
    <3> QED BY <1>1, <1>2, <3>1, <3>2 DEF MpscType
  <2>4. /\ Len(s) = 1 /\ s[1] = tail /\ s[1] = head /\ next[head] = NULL
        /\ 1..Len(s) - 1 = {} /\ 1 \in 1..Len(s) /\ \A i \in 1..Len(s) : i = 1
    <3>1. Len(s) \in Nat /\ Len(s) >= 1 /\ s[1] = tail /\ s[Len(s)] = head /\ next[head] = NULL
      BY Cells DEF Traced
    <3>2. 1 \in 1..Len(s) /\ Len(s) \in 1..Len(s)
      BY <3>1
    <3>3. Len(s) = 1
      <4>1. s[1] = s[Len(s)]
        BY <2>1, <3>1
      <4>2. \A i, j \in 1..Len(s) : s[i] = s[j] => i = j
        BY DEF Traced
      <4> QED BY <3>2, <4>1, <4>2
    <3> QED BY <3>1, <3>3
  <2>5. \A p \in Pusher : ppc'[p] # "link"
    <3>1. \A p \in Pusher : ppc[p] # "link"
      BY <2>4 DEF Traced
    <3> QED BY <2>2, <3>1
  <2>6. Traced(s)'
    <3>1. Len(s) >= 1 /\ s[1] = tail' /\ s[Len(s)] = head' /\ next'[head'] = NULL
      BY <1>1, <1>2, <2>1, <2>2, <2>4 DEF MpscType
    <3>2. \A i \in 1..Len(s) : s[i] \notin loose'
      BY <1>2 DEF Traced
    <3>3. \A p \in Pusher : ppc'[p] = "exchange" => \A i \in 1..Len(s) : new'[p] # s[i]
      <4>1. s[1] # Stub
        BY <1>2, <1>3, <2>4
      <4>2. \A p \in Pusher : p # Consumer /\ ppc[p] = "exchange" => \A i \in 1..Len(s) : new[p] # s[i]
        BY DEF Traced
      <4> QED BY <2>2, <2>4, <4>1, <4>2
    <3> QED BY <2>4, <2>5, <3>1, <3>2, <3>3 DEF Traced
  <2>7. NewInv'
    <3>1. \A p \in Pusher : p # Consumer /\ ppc[p] = "exchange" =>
             new[p] \in Node /\ new[p] # Stub /\ new[p] \in Cell /\ new[p] \notin loose /\ next[new[p]] = NULL
      BY <1>1, <1>4 DEF NewInv, Cell
    <3>2. \A p \in Pusher : ppc'[p] = "exchange" =>
             /\ new'[p] \notin loose' /\ next'[new'[p]] = NULL
             /\ IF p = Consumer THEN new'[p] = Stub ELSE new'[p] \in Node
      BY <1>2, <1>4, <2>2, <3>1
    <3>3. \A p, u \in Pusher : p # u /\ ppc'[p] = "exchange" /\ ppc'[u] = "exchange" => new'[p] # new'[u]
      BY <1>1, <2>2, <3>1 DEF NewInv
    <3> QED BY <2>5, <3>2, <3>3 DEF NewInv
  <2>8. PopInv'
    BY <1>2, <1>3, <2>1, <2>2 DEF PopInv
  <2>9. QuietInv'
    BY <1>2, <1>3, <2>1, <2>5 DEF QuietInv, HalfDone, Pusher
  <2> QED BY <2>3, <2>6, <2>7, <2>8, <2>9
<1>6. CASE ~TailIsHead
  <2>1. tail # head /\ cpc' = "busy" /\ next' = next /\ new' = new /\ ppc' = ppc
    BY <1>3, <1>6 DEF LoadHead, TailIsHead
  <2>2. Traced(s)' /\ NewInv'
    BY <1>1, <1>2, <2>1, ChainKept
  <2>3. MpscType'
    BY <1>1, <1>2, <2>1 DEF MpscType
  <2>4. PopInv'
    BY <1>1, <1>2, <1>3, <2>1 DEF PopInv
  <2>5. quiet => HalfDone /\ ~HalfDone
    BY <1>1, <1>2, <1>3, <2>1, GapIsHalfDone DEF QuietInv
  <2>6. QuietInv'
    BY <1>2, <2>5 DEF QuietInv
  <2> QED BY <2>2, <2>3, <2>4, <2>6
<1> QED BY <1>5, <1>6

\* The link of the tail is loaded again after the stub's push.
LEMMA ReloadStep ==
    ASSUME MpscInv, NEW s \in Seq(Cell), Traced(s), Reload
    PROVE  MpscType' /\ Traced(s)' /\ NewInv' /\ PopInv' /\ QuietInv'
<1>1. MpscType /\ NewInv /\ PopInv /\ QuietInv
  BY DEF MpscInv
<1>2. /\ cpc = "reload" /\ cnext' = next[ctail] /\ cpc' = (IF next[ctail] # NULL THEN "decide" ELSE "busy")
      /\ head' = head /\ tail' = tail /\ next' = next /\ loose' = loose
      /\ ppc' = ppc /\ new' = new /\ prev' = prev /\ ctail' = ctail /\ quiet' = quiet
  BY DEF Reload, AfterReload
<1>3. ctail = tail /\ tail # head /\ ppc[Consumer] = "idle" /\ next[tail] \in Cell \union {NULL}
  BY <1>1, <1>2 DEF PopInv, MpscType, Pusher
<1>4. Traced(s)' /\ NewInv' /\ (HalfDone' <=> HalfDone)
  BY <1>1, <1>2, ChainKept
<1>5. MpscType'
  BY <1>1, <1>2, <1>3 DEF MpscType
<1>6. PopInv'
  BY <1>1, <1>2, <1>3 DEF PopInv
<1>7. QuietInv'
  <2>1. quiet => ~HalfDone /\ (tail # Stub \/ head # Stub)
    BY <1>1, <1>2 DEF QuietInv
  <2>2. next[tail] = NULL => HalfDone
    BY <1>3, GapIsHalfDone
  <2> QED BY <1>2, <1>3, <1>4, <2>1, <2>2 DEF QuietInv
<1> QED BY <1>4, <1>5, <1>6, <1>7

-----------------------------------------------------------------------------
(* The invariant.                                                            *)

\* The queue starts with the stub alone.
LEMMA MpscInit == Init => MpscInv
<1> HAVE Init
<1>1. Stub \in Cell /\ NULL \notin Cell
  BY StubAssumption DEF Cell
<1>2. MpscType
  BY <1>1 DEF Init, MpscType
<1>3. \A p \in Pusher : ppc[p] = "idle"
  BY DEF Init
<1>4. ChainInv
  <2>1. PICK s : s = <<Stub>>
    OBVIOUS
  <2>2. s \in Seq(Cell) /\ Len(s) = 1 /\ s[1] = Stub
    BY <1>1, <2>1
  <2>3. head = Stub /\ tail = Stub /\ next[head] = NULL /\ loose = Node
    BY <1>1 DEF Init
  <2>4. Traced(s)
    <3>1. 1..Len(s) - 1 = {} /\ \A i \in 1..Len(s) : i = 1
      BY <2>2
    <3> QED BY <1>3, <2>2, <2>3, <3>1, StubAssumption DEF Traced
  <2> QED BY <2>2, <2>4 DEF ChainInv
<1>5. NewInv
  BY <1>3 DEF NewInv
<1>6. PopInv
  BY <1>3 DEF PopInv, Init, Pusher
<1>7. QuietInv
  BY DEF QuietInv, Init
<1> QED BY <1>2, <1>4, <1>5, <1>6, <1>7 DEF MpscInv

\* Whatever happens, a chain is traced after the step.
LEMMA MpscStep == MpscInv /\ [Next]_vars => MpscInv'
<1> SUFFICES ASSUME MpscInv, [Next]_vars PROVE MpscInv'
  OBVIOUS
<1>1. PICK s \in Seq(Cell) : Traced(s)
  BY DEF MpscInv, ChainInv
<1> DEFINE Kept(t) == MpscType' /\ Traced(t)' /\ NewInv' /\ PopInv' /\ QuietInv'
<1>2. ASSUME NEW t \in Seq(Cell), Kept(t) PROVE MpscInv'
  <2>1. ChainInv'
    BY <1>2 DEF ChainInv
  <2> QED BY <1>2, <2>1 DEF MpscInv
<1> HIDE DEF Kept
<1>3. ASSUME NEW p \in Producer, NEW n \in Node, StartPush(p, n) PROVE MpscInv'
  <2>1. Kept(s)
    BY <1>1, <1>3, StartPushStep DEF Kept
  <2> QED BY <1>2, <2>1
<1>4. ASSUME NEW p \in Pusher, Exchange(p) PROVE MpscInv'
  <2>1. PICK t : t = Append(s, new[p]) /\ Traced(t)'
    BY <1>1, <1>4, ExchangeStep
  <2>2. MpscType' /\ NewInv' /\ PopInv' /\ QuietInv' /\ new[p] \in Cell
    BY <1>1, <1>4, ExchangeStep
  <2>3. t \in Seq(Cell)
    BY <2>1, <2>2, AppendItems
  <2> QED BY <1>2, <2>1, <2>2, <2>3 DEF Kept
<1>5. ASSUME NEW p \in Pusher, LinkNode(p) PROVE MpscInv'
  <2>1. Kept(s)
    BY <1>1, <1>5, LinkNodeStep DEF Kept
  <2> QED BY <1>2, <2>1
<1>6. CASE StartPop
  <2>1. Kept(s)
    BY <1>1, <1>6, StartPopStep DEF Kept
  <2> QED BY <1>2, <2>1
<1>7. ASSUME SkipStub \/ Return PROVE MpscInv'
  <2>1. /\ MpscType' /\ NewInv' /\ PopInv' /\ QuietInv' /\ Len(s) > 1
        /\ \E t : t = Tail(s) /\ Traced(t)'
    BY <1>1, <1>7, SkipStubStep, ReturnStep
  <2>2. PICK t : t = Tail(s) /\ Traced(t)'
    BY <2>1
  <2>3. s # <<>>
    BY <2>1
  <2>4. t \in Seq(Cell)
    BY <2>2, <2>3, TailItems
  <2> QED BY <1>2, <2>1, <2>2, <2>4 DEF Kept
<1>8. CASE NothingYet
  <2>1. Kept(s)
    BY <1>1, <1>8, NothingYetStep DEF Kept
  <2> QED BY <1>2, <2>1
<1>9. CASE LoadHead
  <2>1. Kept(s)
    BY <1>1, <1>9, LoadHeadStep DEF Kept
  <2> QED BY <1>2, <2>1
<1>10. CASE Reload
  <2>1. Kept(s)
    BY <1>1, <1>10, ReloadStep DEF Kept
  <2> QED BY <1>2, <2>1
<1>11. CASE UNCHANGED vars
  <2>1. MpscType /\ NewInv /\ PopInv /\ QuietInv
    BY DEF MpscInv
  <2>2. UNCHANGED <<head, tail, next, loose, ppc, new, prev>> /\ UNCHANGED <<cpc, ctail, cnext, quiet>>
    BY <1>11 DEF vars
  <2>3. Traced(s)' /\ NewInv' /\ (HalfDone' <=> HalfDone)
    BY <1>1, <2>1, <2>2, ChainKept
  <2>4. MpscType'
    BY <2>1, <2>2 DEF MpscType
  <2>5. PopInv' /\ QuietInv'
    BY <2>1, <2>2, <2>3 DEF PopInv, QuietInv
  <2> QED BY <1>2, <2>3, <2>4, <2>5 DEF Kept
<1> QED BY <1>3, <1>4, <1>5, <1>6, <1>7, <1>8, <1>9, <1>10, <1>11 DEF Next, PopStep, PushStep

\* In every reachable state the cells form one chain from the tail to the head,
\* with a pusher at every link that _M_push_back has yet to write, and what
\* _M_pop_front has loaded is still so.
THEOREM MpscInvHolds == Spec => []MpscInv
<1>1. Init => MpscInv
  BY MpscInit
<1>2. MpscInv /\ [Next]_vars => MpscInv'
  BY MpscStep
<1> QED BY <1>1, <1>2, PTL DEF Spec

\* Whoever has yet to write the link of the node before its own never writes into
\* a node that _M_pop_front has returned, for any number of producers.
THEOREM LinkBeforePopHolds == Spec => []LinkBeforePop
<1>1. MpscInv => LinkBeforePop
  <2> SUFFICES ASSUME MpscInv, NEW p \in Pusher, ppc[p] = "link" PROVE prev[p] \notin loose
    BY DEF LinkBeforePop
  <2>1. PICK s \in Seq(Cell) : Traced(s)
    BY DEF MpscInv, ChainInv
  <2>2. \E i \in 1..Len(s) : prev[p] = s[i]
    BY <2>1, LinkAt DEF MpscInv
  <2> QED BY <2>1, <2>2 DEF Traced
<1> QED BY <1>1, MpscInvHolds, PTL

\* _M_pop_front returns a null pointer only if the queue was empty when it began or
\* a producer was between its exchange and its link at some moment of the call.
THEOREM GivesUpHolds == Spec => []GivesUpWithReason
<1>1. MpscInv => GivesUpWithReason
  <2> SUFFICES ASSUME MpscInv, quiet, cpc = "busy" \/ (cpc = "decide" /\ ctail = Stub /\ cnext = NULL)
               PROVE  FALSE
    BY DEF GivesUpWithReason
  <2>1. PICK s \in Seq(Cell) : Traced(s)
    BY DEF MpscInv, ChainInv
  <2>2. QuietInv /\ PopInv /\ MpscType
    BY DEF MpscInv
  <2>3. ~HalfDone /\ cpc # "busy" /\ (tail # Stub \/ head # Stub) /\ (cpc = "decide" => cnext = next[tail])
    BY <2>2 DEF QuietInv
  <2>4. cpc = "decide" /\ tail = Stub /\ next[tail] = NULL /\ ppc[Consumer] # "link" /\ tail # head
    BY <2>2, <2>3 DEF PopInv
  <2> QED BY <2>1, <2>3, <2>4, GapIsHalfDone
<1> QED BY <1>1, MpscInvHolds, PTL

-----------------------------------------------------------------------------
(* The refinement of Fifo.                                                   *)

\* What is in the queue is the chain without the stub.
LEMMA QueuedSome ==
    ASSUME MpscInv, NEW s \in Seq(Cell), Traced(s)
    PROVE  \E q \in Seq(Node) : Leaves(s, q) /\ Queued = q
<1>1. Once(s)
  BY DEF Traced, Once
<1>2. PICK q \in Seq(Node) : Leaves(s, q)
  BY <1>1, LeavesSome
<1> QED BY <1>2, QueuedNow DEF QueuedFact, MpscInv

\* A step that leaves the chain leaves the queue.
LEMMA QueuedKept ==
    ASSUME MpscInv, NEW s \in Seq(Cell), Traced(s), MpscType', Traced(s)'
    PROVE  Queued' = Queued
<1>1. PICK q \in Seq(Node) : Leaves(s, q) /\ Queued = q
  BY QueuedSome
<1>2. Queued' = q
  BY <1>1, QueuedThen DEF QueuedFact
<1> QED BY <1>1, <1>2

\* The exchange of a producer puts its node, the one of the consumer nothing.
LEMMA ExchangePuts ==
    ASSUME MpscInv, NEW s \in Seq(Cell), Traced(s), NEW r \in Pusher, Exchange(r)
    PROVE  Abstract!Next \/ UNCHANGED Queued
<1>1. PICK q \in Seq(Node) : Leaves(s, q) /\ Queued = q
  BY QueuedSome
<1>2. PICK x : x = new[r]
  OBVIOUS
<1>3. /\ MpscType' /\ x \in Cell /\ (IF r = Consumer THEN x = Stub ELSE x \in Node)
      /\ \A i \in 1..Len(s) : s[i] # x
  BY <1>2, ExchangeStep
<1>4. PICK t : t = Append(s, new[r]) /\ Traced(t)'
  BY ExchangeStep
<1>5. t = Append(s, x) /\ t \in Seq(Cell)
  BY <1>2, <1>3, <1>4, AppendItems
<1>6. CASE r = Consumer
  <2>1. Leaves(t, q)
    BY <1>1, <1>3, <1>5, <1>6, LeavesStub
  <2>2. Queued' = q
    BY <1>3, <1>4, <1>5, <2>1, QueuedThen DEF QueuedFact
  <2> QED BY <1>1, <2>2
<1>7. CASE r # Consumer
  <2>1. x \in Node
    BY <1>3, <1>7
  <2>2. PICK u : u = Append(q, x)
    OBVIOUS
  <2>3. u \in Seq(Node) /\ Leaves(t, u)
    BY <1>1, <1>5, <2>1, <2>2, LeavesAppend, AppendItems
  <2>4. Queued' = u
    BY <1>3, <1>4, <1>5, <2>3, QueuedThen DEF QueuedFact
  <2>5. \A i \in DOMAIN q : q[i] # x
    <3>1. Len(s) \in Nat /\ DOMAIN q = 1..Len(q) /\ Len(q) \in Nat
      BY Cells
    <3>2. \A i \in 1..Len(q) : \E j \in 1..Len(s) : q[i] = s[j]
      BY <1>1, <3>1 DEF Leaves
    <3> QED BY <1>3, <3>1, <3>2
  <2>6. Abstract!Put(x)
    BY <1>1, <2>2, <2>4, <2>5 DEF Abstract!Put
  <2> QED BY <2>1, <2>6 DEF Abstract!Next
<1> QED BY <1>6, <1>7

\* A return gets the oldest node, and passing the stub gets nothing.
LEMMA TailGets ==
    ASSUME MpscInv, NEW s \in Seq(Cell), Traced(s), SkipStub \/ Return
    PROVE  Abstract!Next \/ UNCHANGED Queued
<1>1. PICK q \in Seq(Node) : Leaves(s, q) /\ Queued = q
  BY QueuedSome
<1>2. MpscType' /\ Len(s) > 1 /\ \E t : t = Tail(s) /\ Traced(t)'
  BY SkipStubStep, ReturnStep
<1>3. PICK t : t = Tail(s) /\ Traced(t)'
  BY <1>2
<1>4. s # <<>> /\ Len(s) >= 1 /\ Once(s)
  BY <1>2, Cells DEF Traced, Once
<1>5. t \in Seq(Cell)
  BY <1>3, <1>4, TailItems
<1>6. /\ s[1] = Stub => Leaves(t, q)
      /\ s[1] # Stub => q # <<>> /\ Leaves(t, Tail(q))
  BY <1>1, <1>3, <1>4, LeavesTail
<1>7. CASE s[1] = Stub
  <2>1. Queued' = q
    BY <1>2, <1>3, <1>5, <1>6, <1>7, QueuedThen DEF QueuedFact
  <2> QED BY <1>1, <2>1
<1>8. CASE s[1] # Stub
  <2>1. PICK u : u = Tail(q)
    OBVIOUS
  <2>2. u \in Seq(Node) /\ Leaves(t, u) /\ q # <<>>
    BY <1>6, <1>8, <2>1, TailItems
  <2>3. Queued' = u
    BY <1>2, <1>3, <1>5, <2>2, QueuedThen DEF QueuedFact
  <2>4. Abstract!Get
    BY <1>1, <2>1, <2>2, <2>3 DEF Abstract!Get
  <2> QED BY <2>4 DEF Abstract!Next
<1> QED BY <1>7, <1>8

\* Every step of the queue is a step of Fifo or leaves what is queued as it is.
LEMMA FifoStep == MpscInv /\ [Next]_vars => [Abstract!Next]_Queued
<1> SUFFICES ASSUME MpscInv, [Next]_vars PROVE Abstract!Next \/ UNCHANGED Queued
  OBVIOUS
<1>1. PICK s \in Seq(Cell) : Traced(s)
  BY DEF MpscInv, ChainInv
<1>2. ASSUME NEW p \in Producer, NEW n \in Node, StartPush(p, n) PROVE Queued' = Queued
  BY <1>1, <1>2, StartPushStep, QueuedKept
<1>3. ASSUME NEW p \in Pusher, LinkNode(p) PROVE Queued' = Queued
  BY <1>1, <1>3, LinkNodeStep, QueuedKept
<1>4. ASSUME StartPop \/ NothingYet \/ LoadHead \/ Reload PROVE Queued' = Queued
  BY <1>1, <1>4, StartPopStep, NothingYetStep, LoadHeadStep, ReloadStep, QueuedKept
<1>5. ASSUME NEW p \in Pusher, Exchange(p) PROVE Abstract!Next \/ UNCHANGED Queued
  BY <1>1, <1>5, ExchangePuts
<1>6. ASSUME SkipStub \/ Return PROVE Abstract!Next \/ UNCHANGED Queued
  BY <1>1, <1>6, TailGets
<1>7. ASSUME UNCHANGED vars PROVE Queued' = Queued
  <2>1. UNCHANGED <<head, tail, next, loose, ppc, new, prev>>
    BY <1>7 DEF vars
  <2>2. Traced(s)' /\ MpscType'
    BY <1>1, <1>7, <2>1, ChainKept DEF MpscInv, MpscType, vars
  <2> QED BY <1>1, <2>2, QueuedKept
<1> QED BY <1>2, <1>3, <1>4, <1>5, <1>6, <1>7 DEF Next, PopStep, PushStep

\* The queue is empty at first.
LEMMA FifoInit == Init => Abstract!Init
<1> HAVE Init
<1>1. MpscInv
  BY MpscInit
<1>2. PICK s \in Seq(Cell) : Traced(s)
  BY <1>1 DEF MpscInv, ChainInv
<1>3. PICK q \in Seq(Node) : Leaves(s, q) /\ Queued = q
  BY <1>1, <1>2, QueuedSome
<1>4. Len(s) \in Nat /\ Len(s) >= 1 /\ Len(q) \in Nat /\ s[1] = Stub /\ s[Len(s)] = Stub
  BY <1>2, Cells DEF Traced, Init
<1>5. 1 \in 1..Len(s) /\ Len(s) \in 1..Len(s) /\ s[1] = s[Len(s)]
  BY <1>4
<1>6. \A i, j \in 1..Len(s) : s[i] = s[j] => i = j
  BY <1>2 DEF Traced
<1>7. Len(s) = 1
  BY <1>5, <1>6
<1>8. Len(q) = 0
  BY <1>3, <1>4, <1>5, <1>7 DEF Leaves
<1>9. q = <<>>
  BY <1>8, EmptySeq
<1> QED BY <1>3, <1>9 DEF Abstract!Init

\* The queue implements Fifo: nodes leave in the order of the exchanges of __head_,
\* each once, and the stub never leaves.
THEOREM ImplementsFifoHolds == Spec => ImplementsFifo
<1>1. Init => Abstract!Init
  BY FifoInit
<1>2. MpscInv /\ [Next]_vars => [Abstract!Next]_Queued
  BY FifoStep
<1> QED BY <1>1, <1>2, MpscInvHolds, PTL DEF Spec, ImplementsFifo, Abstract!Spec
=====
