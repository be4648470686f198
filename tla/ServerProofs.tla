----------------------------- MODULE ServerProofs -----------------------------
(***************************************************************************)
(* Proofs about Server for any number and size of the slots, any length of *)
(* the stream and any number of connections.                               *)
(***************************************************************************)
EXTENDS Server, SequenceFacts

Event == [op : Op, res : Int, bid : 0..NrBufs, bufMore : BOOLEAN, more : BOOLEAN]

TypeInv ==
    /\ {closed, broken, live, running, crashed} \subseteq BOOLEAN
    /\ taken \in 0..Sent /\ kpos \in 0..(BufSize - 1) /\ ring \in Seq(Bid)
    /\ mem \in [Bid -> [0..(BufSize - 1) -> Nat]]
    /\ armed \subseteq Op /\ pending \subseteq Op /\ cq \in Seq(Event)
    /\ offered \in Nat /\ conns \in Nat /\ cur \in Nat
    /\ view \in [bid : 0..NrBufs, offset : Nat, len : Nat] /\ replenish \in 0..NrBufs

-----------------------------------------------------------------------------
(* The request of the receiver.                                              *)

IsRecv(e) == e.op = "recv"
IsData(e) == e.op = "recv" /\ e.res > 0

\* what the kernel says in a completion: data is in a slot, and a request that
\* brings no data has ended
EventInv ==
    \A i \in DOMAIN cq : /\ cq[i].bid \in Bid <=> IsData(cq[i])
                         /\ IsRecv(cq[i]) /\ cq[i].res <= 0 => ~cq[i].more

\* __multishot_live_ is set while the kernel holds the request or completions
\* of it are to come, and nothing comes after the one that ends it
RequestInv ==
    /\ "recv" \in armed => live /\ \A i \in DOMAIN cq : IsRecv(cq[i]) => cq[i].more
    /\ "recv" \in pending => ~live /\ ~running
    /\ \A i \in DOMAIN cq : IsRecv(cq[i]) => live
    /\ \A i, j \in DOMAIN cq : i < j /\ IsRecv(cq[i]) /\ ~cq[i].more => ~IsRecv(cq[j])
    /\ conns = 0 => ~live /\ ~running /\ "recv" \notin pending

-----------------------------------------------------------------------------
(* The slots.                                                                *)

\* a completion uses its slot up
Exhausts(e) == e.bid \in Bid /\ ~e.bufMore

\* slots used up by completions to come
Spent == {cq[i].bid : i \in {j \in DOMAIN cq : Exhausts(cq[j])}}

\* no two completions use up the same slot
Unique(q) == \A i, j \in DOMAIN q : Exhausts(q[i]) /\ Exhausts(q[j]) /\ q[i].bid = q[j].bid => i = j

\* a slot is in one place only
SlotInv ==
    /\ kpos > 0 => ring # <<>>
    /\ ~running => replenish = NoBid
    /\ IsInjective(ring)
    /\ Unique(cq)
    /\ Range(ring) \intersect Spent = {} /\ replenish \notin Range(ring) \union Spent
    /\ conns > 0 => Bid \subseteq Range(ring) \union Spent \union {replenish}
    /\ conns = 0 => ring = <<>>

-----------------------------------------------------------------------------
(* The stream.                                                               *)

\* from unit p and offset o, a completion e leads to unit q and offset r
Follows(e, p, o, q, r) ==
    /\ q = IF IsData(e) THEN p + e.res ELSE p
    /\ r = IF IsData(e) THEN NextOffset(o, e)
           ELSE IF IsRecv(e) /\ e.res = -ENOBUFS THEN 0 ELSE o

\* in memory m, len units of slot b from offset o on are those after unit p
Holds(m, b, o, len, p) ==
    /\ b \in Bid /\ o + len <= BufSize
    /\ \A k \in 0..(len - 1) : m[b][o + k] = p + 1 + k

\* with completions q, slots r on offer and the kernel at offset at of the first,
\* slot b is written no more before offset end: it is used up by a completion
\* from position i on, or being filled
Safe(q, r, at, b, end, i) ==
    \/ \E j \in DOMAIN q : j >= i /\ q[j].bid = b /\ Exhausts(q[j])
    \/ r # <<>> /\ b = Head(r) /\ end <= at

\* pos and off give the unit and the offset that every completion begins at:
\* from what was read to what the kernel has taken, from cur to kpos
Traced(pos, off) ==
    /\ pos \in [1..(Len(cq) + 1) -> Nat] /\ off \in [1..(Len(cq) + 1) -> Nat]
    /\ pos[1] = Len(got) + (IF running THEN view.len ELSE 0) /\ off[1] = cur
    /\ pos[Len(cq) + 1] = taken /\ off[Len(cq) + 1] = kpos
    /\ \A i \in DOMAIN cq : Follows(cq[i], pos[i], off[i], pos[i + 1], off[i + 1])
    /\ \A i \in DOMAIN cq : IsData(cq[i]) =>
           /\ Holds(mem, cq[i].bid, off[i], cq[i].res, pos[i])
           /\ Safe(cq, ring, kpos, cq[i].bid, off[i] + cq[i].res, i)

\* the piece the coroutine looks at is the next one and stays so
ViewInv ==
    running => /\ Holds(mem, view.bid, view.offset, view.len, Len(got))
               /\ view.bid = replenish \/ Safe(cq, ring, kpos, view.bid, view.offset + view.len, 1)

StreamInv == got \in Seq(Nat) /\ StreamIntact /\ ViewInv /\ \E pos, off : Traced(pos, off)

-----------------------------------------------------------------------------
(* Proofs: the request.                                                      *)

\* What the kernel moves fits the slot and the stream.
LEMMA MinPair ==
    ASSUME NEW a \in Int, NEW b \in Int
    PROVE  Min({a, b}) \in Int /\ Min({a, b}) <= a /\ Min({a, b}) <= b
<1>1. \E x \in {a, b} : \A y \in {a, b} : x <= y
  <2>1. CASE a <= b
    BY <2>1
  <2>2. CASE ~(a <= b)
    BY <2>2
  <2> QED BY <2>1, <2>2
<1> QED BY <1>1 DEF Min

\* A completion the kernel posts for a request it holds.
LEMMA PostRequest ==
    ASSUME TypeInv, EventInv, RequestInv, NEW e \in Event, Post(e), e.op \in armed,
           e.bid \in Bid <=> IsData(e), IsRecv(e) /\ e.res <= 0 => ~e.more
    PROVE  EventInv' /\ RequestInv'
<1>1. PICK l \in Nat : l = Len(cq)
  BY LenProperties DEF TypeInv
<1>2. /\ DOMAIN cq = 1..l /\ DOMAIN cq' = 1..(l + 1) /\ cq'[l + 1] = e
      /\ \A i \in 1..l : cq'[i] = cq[i]
  BY <1>1, AppendItems DEF TypeInv, Post
<1>3. \A i \in 1..(l + 1) : i \in 1..l \/ i = l + 1
  BY <1>1
<1>4. UNCHANGED <<pending, conns, live, running>> /\ armed' \subseteq armed /\ (e.more \/ e.op \notin armed')
  BY DEF Post, opVars
<1>5. EventInv'
  BY <1>2, <1>3 DEF EventInv
<1>6. IsRecv(e) => "recv" \in armed
  BY DEF IsRecv
<1>7. \A i \in 1..(l + 1) : IsRecv(cq'[i]) => live'
  BY <1>2, <1>3, <1>4, <1>6 DEF RequestInv
<1>8. "recv" \in armed' => live' /\ \A i \in 1..(l + 1) : IsRecv(cq'[i]) => cq'[i].more
  <2>1. "recv" \in armed' /\ IsRecv(e) => e.more
    BY <1>4 DEF IsRecv
  <2> QED BY <1>2, <1>3, <1>4, <2>1 DEF RequestInv
<1>9. ASSUME NEW i \in 1..(l + 1), NEW j \in 1..(l + 1), i < j, IsRecv(cq'[i]), ~cq'[i].more
      PROVE  ~IsRecv(cq'[j])
  <2>1. i \in 1..l /\ cq'[i] = cq[i]
    BY <1>1, <1>2, <1>9
  <2>2. CASE j \in 1..l
    BY <1>2, <1>9, <2>1, <2>2 DEF RequestInv
  <2>3. CASE j = l + 1
    BY <1>2, <1>6, <1>9, <2>1, <2>3 DEF RequestInv
  <2> QED BY <1>3, <2>2, <2>3
<1> QED BY <1>2, <1>4, <1>5, <1>7, <1>8, <1>9 DEF RequestInv

\* Reaping the oldest completion leaves the others as they are.
LEMMA PopRequest ==
    ASSUME TypeInv, EventInv, RequestInv, cq # <<>>, cq' = Tail(cq)
    PROVE  /\ EventInv'
           /\ \A i \in DOMAIN cq' : IsRecv(cq'[i]) => live
           /\ "recv" \in armed => \A i \in DOMAIN cq' : IsRecv(cq'[i]) => cq'[i].more
           /\ \A i, j \in DOMAIN cq' : i < j /\ IsRecv(cq'[i]) /\ ~cq'[i].more => ~IsRecv(cq'[j])
           /\ IsRecv(Head(cq)) /\ ~Head(cq).more => \A i \in DOMAIN cq' : ~IsRecv(cq'[i])
<1>1. PICK l \in Nat \ {0} : l = Len(cq)
  BY TailItems DEF TypeInv
<1>2. /\ DOMAIN cq = 1..l /\ DOMAIN cq' = 1..(l - 1) /\ Head(cq) = cq[1]
      /\ \A i \in 1..(l - 1) : cq'[i] = cq[i + 1]
  BY <1>1, TailItems DEF TypeInv
<1>3. \A i \in 1..(l - 1) : i + 1 \in 1..l /\ 1 < i + 1
  BY <1>1
<1>4. \A i, j \in 1..(l - 1) : i < j => i + 1 < j + 1
  OBVIOUS
<1>5. 1 \in DOMAIN cq
  BY <1>1, <1>2
<1>6. EventInv'
  BY <1>2, <1>3 DEF EventInv
<1>7. \A i \in DOMAIN cq' : IsRecv(cq'[i]) => live
  BY <1>2, <1>3 DEF RequestInv
<1>8. "recv" \in armed => \A i \in DOMAIN cq' : IsRecv(cq'[i]) => cq'[i].more
  BY <1>2, <1>3 DEF RequestInv
<1>9. ASSUME NEW i \in DOMAIN cq', NEW j \in DOMAIN cq', i < j, IsRecv(cq'[i]), ~cq'[i].more
      PROVE  ~IsRecv(cq'[j])
  BY <1>2, <1>3, <1>4, <1>9 DEF RequestInv
<1>10. IsRecv(Head(cq)) /\ ~Head(cq).more => \A i \in DOMAIN cq' : ~IsRecv(cq'[i])
  BY <1>2, <1>3, <1>5 DEF RequestInv
<1> QED BY <1>6, <1>7, <1>8, <1>9, <1>10

\* At the start the receiver does not exist.
LEMMA RequestInit == Init => TypeInv /\ EventInv /\ RequestInv
<1> SUFFICES ASSUME Init PROVE TypeInv /\ EventInv /\ RequestInv
  OBVIOUS
<1>1. DOMAIN cq = {}
  BY DEF Init
<1>2. EventInv /\ RequestInv
  BY <1>1 DEF Init, EventInv, RequestInv
<1>3. mem \in [Bid -> [0..(BufSize - 1) -> Nat]]
  BY DEF Init
<1>4. kpos \in 0..(BufSize - 1) /\ taken \in 0..Sent /\ offered \in Nat
  BY ServerAssumption DEF Init
<1>5. NoBid \in 0..NrBufs
  BY ServerAssumption DEF NoBid
<1>6. view \in [bid : 0..NrBufs, offset : Nat, len : Nat] /\ replenish \in 0..NrBufs
  BY <1>5 DEF Init, NoView
<1>7. ring \in Seq(Bid) /\ cq \in Seq(Event)
  BY DEF Init
<1> QED BY <1>2, <1>3, <1>4, <1>6, <1>7 DEF Init, TypeInv, Op

\* What a step that posts data may rely on.
LEMMA DataFacts ==
    ASSUME TypeInv, NEW len, NEW more \in BOOLEAN, PostData(len, more)
    PROVE  /\ len \in Nat \ {0} /\ taken + len <= Sent /\ kpos + len <= BufSize
           /\ "recv" \in armed /\ ring # <<>> /\ Head(ring) \in Bid /\ Tail(ring) \in Seq(Bid)
           /\ mem' \in [Bid -> [0..(BufSize - 1) -> Nat]]
           /\ \A b \in Bid, i \in 0..(BufSize - 1) :
                  mem'[b][i] = IF b = Head(ring) /\ i \in kpos..(kpos + len - 1)
                               THEN taken + 1 + i - kpos ELSE mem[b][i]
           /\ \/ kpos + len < BufSize /\ kpos' = kpos + len /\ UNCHANGED ring
                     /\ Post(Entry("recv", len, Head(ring), TRUE, more))
              \/ kpos + len = BufSize /\ kpos' = 0 /\ ring' = Tail(ring)
                     /\ Post(Entry("recv", len, Head(ring), FALSE, more))
<1>1. taken \in Nat /\ kpos \in Nat /\ Sent \in Nat /\ BufSize \in Nat /\ ring \in Seq(Bid)
  BY ServerAssumption DEF TypeInv
<1>2. "recv" \in armed /\ ring # <<>> /\ len \in 1..Min({Sent - taken, BufSize - kpos})
  BY DEF PostData
<1>3. len \in Nat \ {0} /\ taken + len <= Sent /\ kpos + len <= BufSize
  <2>1. Sent - taken \in Int /\ BufSize - kpos \in Int
    BY <1>1
  <2>2. PICK m \in Int : m = Min({Sent - taken, BufSize - kpos}) /\ m <= Sent - taken /\ m <= BufSize - kpos
    BY <2>1, MinPair
  <2>3. len \in 1..m
    BY <1>2, <2>2
  <2> QED BY <1>1, <2>2, <2>3
<1>4. Head(ring) \in Bid /\ Tail(ring) \in Seq(Bid)
  BY <1>1, <1>2, TailItems
<1>5. PICK h \in Bid : h = Head(ring)
  BY <1>4
<1>6. mem' = [mem EXCEPT ![h] = [i \in DOMAIN mem[h] |-> IF i \in kpos..(kpos + len - 1)
                                                         THEN taken + 1 + i - kpos ELSE mem[h][i]]]
  BY <1>5 DEF PostData
<1>7. mem \in [Bid -> [0..(BufSize - 1) -> Nat]] /\ DOMAIN mem[h] = 0..(BufSize - 1)
  BY <1>5 DEF TypeInv
<1>8. PICK w : w = [i \in 0..(BufSize - 1) |-> IF i \in kpos..(kpos + len - 1)
                                               THEN taken + 1 + i - kpos ELSE mem[h][i]]
  OBVIOUS
<1>9. w \in [0..(BufSize - 1) -> Nat]
  <2>1. \A i \in 0..(BufSize - 1) : i \in kpos..(kpos + len - 1) => taken + 1 + i - kpos \in Nat
    BY <1>1, <1>3
  <2> QED BY <1>7, <1>8, <2>1
<1>10. mem' = [mem EXCEPT ![h] = w]
  BY <1>6, <1>7, <1>8
<1>11. mem' \in [Bid -> [0..(BufSize - 1) -> Nat]]
  BY <1>7, <1>9, <1>10
<1>12. \A b \in Bid, i \in 0..(BufSize - 1) :
           mem'[b][i] = IF b = h /\ i \in kpos..(kpos + len - 1) THEN taken + 1 + i - kpos ELSE mem[b][i]
  BY <1>7, <1>8, <1>10
<1>13. \/ kpos + len < BufSize /\ kpos' = kpos + len /\ UNCHANGED ring
              /\ Post(Entry("recv", len, Head(ring), TRUE, more))
       \/ kpos + len = BufSize /\ kpos' = 0 /\ ring' = Tail(ring)
              /\ Post(Entry("recv", len, Head(ring), FALSE, more))
  <2>0. PICK left : left = (kpos + len < BufSize)
    OBVIOUS
  <2>1. /\ kpos' = (IF left THEN kpos + len ELSE 0)
        /\ ring' = (IF left THEN ring ELSE Tail(ring))
        /\ Post(Entry("recv", len, Head(ring), left, more))
    BY <2>0 DEF PostData
  <2>2. CASE kpos + len < BufSize
    <3>1. left = TRUE
      BY <2>0, <2>2
    <3> QED BY <2>1, <2>2, <3>1
  <2>3. CASE ~(kpos + len < BufSize)
    <3>0. (kpos + len < BufSize) = FALSE
      BY <2>3
    <3>1. left = FALSE
      BY ONLY <2>0, <3>0
    <3>2. kpos + len = BufSize
      BY <1>1, <1>3, <2>3
    <3> QED BY <2>1, <3>1, <3>2
  <2> QED BY <2>2, <2>3
<1> QED BY <1>2, <1>3, <1>4, <1>5, <1>11, <1>12, <1>13

\* Every entry the kernel posts is well formed.
LEMMA EntryFacts ==
    ASSUME NEW op \in Op, NEW res \in Int, NEW bid \in 0..NrBufs, NEW bufMore \in BOOLEAN, NEW more \in BOOLEAN
    PROVE  LET e == Entry(op, res, bid, bufMore, more)
           IN  /\ e \in Event /\ e.op = op /\ e.res = res /\ e.bid = bid
               /\ e.bufMore = bufMore /\ e.more = more
BY DEF Entry, Event

\* The completion the loop reaps next.
LEMMA HeadFacts ==
    ASSUME TypeInv, NEW op, Reaping(op)
    PROVE  /\ cq # <<>> /\ Head(cq) \in Event /\ Tail(cq) \in Seq(Event) /\ Head(cq).op = op
           /\ Head(cq).res \in Int /\ Head(cq).bid \in 0..NrBufs
           /\ Head(cq).bufMore \in BOOLEAN /\ Head(cq).more \in BOOLEAN /\ ~running
<1>1. cq # <<>> /\ cq \in Seq(Event) /\ Head(cq).op = op /\ ~running
  BY DEF Reaping, TypeInv
<1>2. Head(cq) \in Event /\ Tail(cq) \in Seq(Event)
  BY <1>1, TailItems
<1> QED BY <1>1, <1>2 DEF Event

\* The state of the server and of the kernel keeps its types.
LEMMA TypeStep == TypeInv /\ [Next]_vars => TypeInv'
<1> SUFFICES ASSUME TypeInv, [Next]_vars PROVE TypeInv'
  OBVIOUS
<1> USE DEF peerVars, bufVars, opVars
<1>a. /\ NrBufs \in Nat \ {0} /\ BufSize \in Nat \ {0} /\ Sent \in Nat /\ NoBid \in 0..NrBufs /\ NoBid = NrBufs
      /\ Bid \subseteq 0..NrBufs /\ 0 \in 0..(BufSize - 1) /\ "recv" \in Op /\ "accept" \in Op
  BY ServerAssumption DEF NoBid, Bid, Op
<1>p. ASSUME NEW e \in Event, Post(e) PROVE /\ cq' \in Seq(Event) /\ armed' \subseteq Op
                                            /\ UNCHANGED <<peerVars, pending, conns, opVars, running, got, crashed>>
  BY <1>p, AppendItems DEF Post, TypeInv
<1>1. CASE Break
  BY <1>1 DEF Break, TypeInv
<1>2. ASSUME NEW len \in 1..BufSize, NEW more \in BOOLEAN, PostData(len, more) PROVE TypeInv'
  <2>1. PICK m \in BOOLEAN : Post(Entry("recv", len, Head(ring), m, more))
    BY <1>2, DataFacts
  <2>2. Head(ring) \in 0..NrBufs
    BY <1>2, <1>a, DataFacts
  <2>3. Entry("recv", len, Head(ring), m, more) \in Event
    BY <1>a, <2>2, EntryFacts
  <2>4. cq' \in Seq(Event) /\ armed' \subseteq Op /\ UNCHANGED <<peerVars, pending, conns, opVars, running, got, crashed>>
    BY <1>p, <2>1, <2>3
  <2>5. mem' \in [Bid -> [0..(BufSize - 1) -> Nat]] /\ ring' \in Seq(Bid)
    BY <1>2, DataFacts DEF TypeInv
  <2>6. kpos' \in 0..(BufSize - 1) /\ taken' \in 0..Sent /\ UNCHANGED offered
    <3>1. kpos \in Nat /\ taken \in Nat
      BY DEF TypeInv
    <3>2. taken' = taken + len /\ UNCHANGED offered
      BY <1>2 DEF PostData
    <3>3. taken + len <= Sent /\ len \in Nat
      BY <1>2, DataFacts
    <3>4. (kpos + len < BufSize /\ kpos' = kpos + len) \/ kpos' = 0
      BY <1>2, DataFacts
    <3> QED BY <1>a, <3>1, <3>2, <3>3, <3>4
  <2> QED BY <2>4, <2>5, <2>6 DEF TypeInv
<1>3. CASE PostNoBufs
  <2>1. Entry("recv", -ENOBUFS, NoBid, FALSE, FALSE) \in Event
    BY <1>a DEF Entry, Event, ENOBUFS
  <2> QED BY <1>3, <1>p, <2>1 DEF PostNoBufs, TypeInv
<1>4. CASE PostEnd
  <2>1. PICK r \in Int : Post(Entry("recv", r, NoBid, FALSE, FALSE))
    <3>1. PICK r : r = (IF broken THEN -ECONNRESET ELSE 0)
      OBVIOUS
    <3>2. r \in Int
      BY <3>1 DEF ECONNRESET
    <3>3. Post(Entry("recv", r, NoBid, FALSE, FALSE))
      BY <1>4, <3>1 DEF PostEnd
    <3> QED BY <3>2, <3>3
  <2>2. Entry("recv", r, NoBid, FALSE, FALSE) \in Event
    BY <1>a, EntryFacts
  <2> QED BY <1>4, <1>p, <2>1, <2>2 DEF PostEnd, TypeInv
<1>5. ASSUME NEW more \in BOOLEAN, PostAccept(more) PROVE TypeInv'
  <2>1. Entry("accept", conns, NoBid, FALSE, more) \in Event
    BY <1>a DEF Entry, Event, TypeInv
  <2>2. offered' \in Nat
    BY <1>5 DEF PostAccept, TypeInv
  <2> QED BY <1>5, <1>p, <2>1, <2>2 DEF PostAccept, TypeInv
<1>6. CASE PostAcceptError
  <2>1. Entry("accept", -ENFILE, NoBid, FALSE, FALSE) \in Event
    BY <1>a DEF Entry, Event, ENFILE
  <2> QED BY <1>6, <1>p, <2>1 DEF PostAcceptError, TypeInv
<1>7. CASE CompleteAccept
  <2>1. cq' \in Seq(Event)
    BY <1>7, HeadFacts DEF CompleteAccept
  <2>2. FullRing \in Seq(Bid)
    BY <1>a DEF FullRing, Bid
  <2>3. ring' \in Seq(Bid) /\ pending' \subseteq Op /\ conns' \in Nat /\ crashed' \in BOOLEAN
    <3>1. CASE Terminate
      BY <3>1 DEF Terminate, TypeInv
    <3>2. CASE ~(Head(cq).res < 0 \/ GroupTaken)
      <4>1. conns' = conns + 1 /\ UNCHANGED crashed /\ ring' = (IF conns = 0 THEN FullRing ELSE ring)
        BY <1>7, <3>2 DEF CompleteAccept
      <4>2. pending' \subseteq pending \union {"recv", "accept"}
        BY <1>7, <3>2 DEF CompleteAccept
      <4>3. ring' \in Seq(Bid) /\ conns' \in Nat
        BY <2>2, <4>1 DEF TypeInv
      <4>4. crashed' \in BOOLEAN /\ pending' \subseteq Op
        BY <1>a, <4>1, <4>2 DEF TypeInv
      <4> QED BY <4>3, <4>4
    <3> QED BY <1>7, <3>1, <3>2 DEF CompleteAccept
  <2>4. UNCHANGED <<peerVars, taken, kpos, mem, offered, armed, opVars, running, got>>
    BY <1>7 DEF CompleteAccept
  <2> QED BY <2>1, <2>3, <2>4 DEF TypeInv
<1>8. CASE CompleteNoBufs
  <2>1. cq' \in Seq(Event)
    BY <1>8, HeadFacts DEF CompleteNoBufs
  <2> QED BY <1>8, <1>a, <2>1 DEF CompleteNoBufs, Resubmitted, TypeInv
<1>9. CASE CompleteEnd
  <2>1. cq' \in Seq(Event)
    BY <1>9, HeadFacts DEF CompleteEnd
  <2> QED BY <1>9, <2>1 DEF CompleteEnd, TypeInv
<1>10. CASE CompleteData
  <2>1. Reaping("recv") /\ Head(cq).res > 0 /\ cq' = Tail(cq)
    BY <1>10 DEF CompleteData
  <2>2. PICK e \in Event : e = Head(cq) /\ e.res \in Nat /\ e.bid \in 0..NrBufs
    BY <2>1, HeadFacts
  <2>3. /\ live' = (live /\ e.more) /\ view' = [bid |-> e.bid, offset |-> cur, len |-> e.res]
        /\ cur' = (IF e.bufMore THEN cur + e.res ELSE 0)
        /\ replenish' = (IF e.bufMore THEN replenish ELSE e.bid) /\ running' = TRUE
        /\ UNCHANGED <<peerVars, bufVars, offered, armed, pending, conns, got, crashed>>
    BY <1>10, <2>2 DEF CompleteData, NextOffset
  <2>4. cq' \in Seq(Event)
    BY <2>1, HeadFacts
  <2>5. cur' \in Nat /\ replenish' \in 0..NrBufs /\ live' \in BOOLEAN
    BY <2>2, <2>3 DEF TypeInv, Event
  <2>6. view' \in [bid : 0..NrBufs, offset : Nat, len : Nat]
    BY <2>2, <2>3 DEF TypeInv
  <2> QED BY <2>3, <2>4, <2>5, <2>6 DEF TypeInv
<1>11. CASE Read
  <2>1. ring' \in Seq(Bid)
    <3>1. replenish # NoBid => replenish \in Bid
      BY <1>a DEF TypeInv, Bid
    <3> QED BY <1>11, <3>1, AppendItems DEF Read, _M_replenish, TypeInv
  <2>2. NoView \in [bid : 0..NrBufs, offset : Nat, len : Nat]
    BY <1>a DEF NoView
  <2> QED BY <1>11, <1>a, <2>1, <2>2 DEF Read, TypeInv
<1>12. CASE Submit
  BY <1>12 DEF Submit, TypeInv
<1>13. CASE UNCHANGED vars
  BY <1>13 DEF vars, TypeInv
<1> QED BY <1>1, <1>2, <1>3, <1>4, <1>5, <1>6, <1>7, <1>8, <1>9, <1>10, <1>11, <1>12, <1>13 DEF Next, KernelData, KernelAccept, LoopStep

\* A step that leaves the completion queue and the request alone.
LEMMA StillRequest ==
    ASSUME EventInv, RequestInv, UNCHANGED <<cq, armed, pending, live, running>>, conns' = conns
    PROVE  EventInv' /\ RequestInv'
BY DEF EventInv, RequestInv

\* Every step keeps the receiver's request in one place.
LEMMA RequestStep == TypeInv /\ EventInv /\ RequestInv /\ [Next]_vars => EventInv' /\ RequestInv'
<1> SUFFICES ASSUME TypeInv, EventInv, RequestInv, [Next]_vars PROVE EventInv' /\ RequestInv'
  OBVIOUS
<1> USE DEF peerVars, bufVars, opVars
<1>a. /\ NrBufs \in Nat \ {0} /\ NoBid \in 0..NrBufs /\ NoBid \notin Bid
      /\ Bid \subseteq 0..NrBufs /\ "recv" \in Op /\ "accept" \in Op
  BY ServerAssumption DEF NoBid, Bid, Op
<1>1. CASE Break
  BY <1>1, StillRequest DEF Break
<1>2. ASSUME NEW len \in 1..BufSize, NEW more \in BOOLEAN, PostData(len, more) PROVE EventInv' /\ RequestInv'
  <2>h. PICK h : h = Head(ring)
    OBVIOUS
  <2>1. PICK m \in BOOLEAN : Post(Entry("recv", len, h, m, more))
    BY <1>2, <2>h, DataFacts
  <2>2. h \in Bid /\ len \in Nat \ {0} /\ "recv" \in armed
    BY <1>2, <2>h, DataFacts
  <2>3. PICK e : e = Entry("recv", len, h, m, more)
    OBVIOUS
  <2>4. e \in Event /\ e.op = "recv" /\ e.res = len /\ e.bid = h
    BY <1>a, <2>2, <2>3 DEF Entry, Event
  <2>5. IsData(e) /\ ~(e.res <= 0)
    BY <2>2, <2>4 DEF IsData
  <2> QED BY <2>1, <2>2, <2>3, <2>4, <2>5, PostRequest
<1>3. CASE PostNoBufs
  <2>1. PICK e : e = Entry("recv", -ENOBUFS, NoBid, FALSE, FALSE)
    OBVIOUS
  <2>2. e \in Event /\ e.op = "recv" /\ e.res < 0 /\ e.bid = NoBid /\ ~e.more
    BY <1>a, <2>1 DEF Entry, Event, ENOBUFS
  <2>3. ~IsData(e) /\ e.bid \notin Bid
    BY <1>a, <2>2 DEF IsData, Event
  <2>4. Post(e) /\ e.op \in armed
    BY <1>3, <2>1, <2>2 DEF PostNoBufs
  <2> QED BY <2>2, <2>3, <2>4, PostRequest
<1>4. CASE PostEnd
  <2>1. PICK r : r = (IF broken THEN -ECONNRESET ELSE 0)
    OBVIOUS
  <2>2. PICK e : e = Entry("recv", r, NoBid, FALSE, FALSE)
    OBVIOUS
  <2>3. e \in Event /\ e.op = "recv" /\ e.res <= 0 /\ e.bid = NoBid /\ ~e.more
    BY <1>a, <2>1, <2>2 DEF Entry, Event, ECONNRESET
  <2>4. ~IsData(e) /\ e.bid \notin Bid
    BY <1>a, <2>3 DEF IsData, Event
  <2>5. Post(e) /\ e.op \in armed
    BY <1>4, <2>1, <2>2, <2>3 DEF PostEnd
  <2> QED BY <2>3, <2>4, <2>5, PostRequest
<1>5. ASSUME NEW r \in Int, NEW more \in BOOLEAN, "accept" \in armed, Post(Entry("accept", r, NoBid, FALSE, more))
      PROVE  EventInv' /\ RequestInv'
  <2>1. PICK e : e = Entry("accept", r, NoBid, FALSE, more)
    OBVIOUS
  <2>2. e \in Event /\ e.op = "accept" /\ e.bid = NoBid
    BY <1>a, <2>1 DEF Entry, Event
  <2>3. ~IsData(e) /\ ~IsRecv(e) /\ e.bid \notin Bid /\ e.op \in armed
    BY <1>a, <1>5, <2>2 DEF IsData, IsRecv
  <2> QED BY <1>5, <2>1, <2>2, <2>3, PostRequest
<1>6. ASSUME NEW more \in BOOLEAN, PostAccept(more) PROVE EventInv' /\ RequestInv'
  <2>1. conns \in Int
    BY DEF TypeInv
  <2> QED BY <1>5, <1>6, <2>1 DEF PostAccept
<1>7. CASE PostAcceptError
  <2>1. PICK r \in Int : r = -ENFILE
    BY DEF ENFILE
  <2>2. "accept" \in armed /\ Post(Entry("accept", r, NoBid, FALSE, FALSE))
    BY <1>7, <2>1 DEF PostAcceptError
  <2> QED BY <1>5, <2>2
<1>8. CASE CompleteAccept
  <2>1. Reaping("accept") /\ cq' = Tail(cq) /\ UNCHANGED <<armed, live, running>>
    BY <1>8 DEF CompleteAccept
  <2>2. cq # <<>> /\ ~running
    BY <2>1, HeadFacts
  <2>3. "recv" \in pending' => "recv" \in pending \/ conns = 0
    BY <1>8 DEF CompleteAccept, Terminate
  <2>4. conns' = conns \/ conns' = conns + 1
    BY <1>8 DEF CompleteAccept, Terminate
  <2>5. conns \in Nat /\ (conns' = 0 => conns = 0 /\ pending' = pending)
    BY <1>8, <2>4 DEF TypeInv, CompleteAccept, Terminate
  <2>6. "recv" \in pending' => ~live' /\ ~running'
    BY <2>1, <2>2, <2>3 DEF RequestInv
  <2> QED BY <2>1, <2>2, <2>5, <2>6, PopRequest DEF RequestInv
<1>9. CASE CompleteNoBufs
  <2>1. /\ Reaping("recv") /\ Head(cq).res = -ENOBUFS /\ cq' = Tail(cq) /\ UNCHANGED <<armed, running, conns>>
        /\ live' = FALSE
    BY <1>9 DEF CompleteNoBufs
  <2>2. cq # <<>> /\ ~running /\ IsRecv(Head(cq)) /\ Head(cq).res <= 0
    BY <2>1, HeadFacts DEF IsRecv, ENOBUFS
  <2>3. 1 \in DOMAIN cq /\ Head(cq) = cq[1]
    BY <2>2, TailItems DEF TypeInv
  <2>4. ~Head(cq).more
    BY <2>2, <2>3 DEF EventInv
  <2>5. "recv" \notin armed
    BY <2>2, <2>3, <2>4 DEF RequestInv
  <2> QED BY <2>1, <2>2, <2>4, <2>5, PopRequest DEF RequestInv
<1>10. CASE CompleteEnd
  <2>1. Reaping("recv") /\ cq' = Tail(cq) /\ UNCHANGED <<armed, pending, conns, live, running>>
    BY <1>10 DEF CompleteEnd
  <2>2. cq # <<>>
    BY <2>1, HeadFacts
  <2> QED BY <2>1, <2>2, PopRequest DEF RequestInv
<1>11. CASE CompleteData
  <2>1. Reaping("recv") /\ cq' = Tail(cq) /\ live' = (live /\ Head(cq).more) /\ UNCHANGED <<armed, pending, conns>>
    BY <1>11 DEF CompleteData
  <2>2. cq # <<>> /\ IsRecv(Head(cq)) /\ Head(cq).more \in BOOLEAN
    BY <2>1, HeadFacts DEF IsRecv
  <2>3. 1 \in DOMAIN cq /\ Head(cq) = cq[1]
    BY <2>2, TailItems DEF TypeInv
  <2>4. live /\ "recv" \notin pending
    BY <2>2, <2>3 DEF RequestInv
  <2>5. "recv" \in armed => Head(cq).more
    BY <2>2, <2>3 DEF RequestInv
  <2>6. \A i \in DOMAIN cq' : IsRecv(cq'[i]) => live'
    BY <2>1, <2>2, <2>4, PopRequest
  <2> QED BY <2>1, <2>2, <2>4, <2>5, <2>6, PopRequest DEF RequestInv
<1>12. CASE Read
  <2>1. /\ running /\ running' = FALSE /\ UNCHANGED <<cq, armed, conns, live>>
        /\ pending' = pending \union (IF ~live THEN {"recv"} ELSE {})
    BY <1>12 DEF Read, MustSubmit
  <2>2. "recv" \in pending' => ~live' /\ ~running'
    BY <2>1 DEF RequestInv
  <2> QED BY <2>1, <2>2 DEF RequestInv, EventInv
<1>13. CASE Submit
  <2>1. cq = <<>> /\ armed' = armed \union pending /\ pending' = {} /\ live' = (live \/ "recv" \in pending)
            /\ UNCHANGED <<cq, conns, running>>
    BY <1>13 DEF Submit
  <2>2. DOMAIN cq = {} /\ DOMAIN cq' = {}
    BY <2>1
  <2>3. conns = 0 => ~live'
    BY <2>1 DEF RequestInv
  <2> QED BY <2>1, <2>2, <2>3 DEF RequestInv, EventInv
<1>14. CASE UNCHANGED vars
  BY <1>14, StillRequest DEF vars
<1> QED BY <1>1, <1>2, <1>3, <1>4, <1>6, <1>7, <1>8, <1>9, <1>10, <1>11, <1>12, <1>13, <1>14 DEF Next, KernelData, KernelAccept, LoopStep

\* A receiver is submitted once at a time: __multishot_live_ is exact for any
\* sequence of completions, ended requests and exhausted slots.
THEOREM OneRequestHolds == Spec => []OneRequest
<1>1. TypeInv /\ EventInv /\ RequestInv /\ [Next]_vars => TypeInv' /\ EventInv' /\ RequestInv'
  BY TypeStep, RequestStep
<1>2. TypeInv /\ RequestInv => OneRequest
  <2> SUFFICES ASSUME TypeInv, RequestInv PROVE OneRequest
    OBVIOUS
  <2> DEFINE E == {i \in DOMAIN cq : cq[i].op = "recv" /\ ~cq[i].more}
  <2>1. Final("recv") = Cardinality(E)
    BY DEF Final
  <2>2. PICK l \in Nat : DOMAIN cq = 1..l
    BY LenProperties DEF TypeInv
  <2>3. CASE E = {}
    <3>1. Final("recv") = 0
      BY <2>1, <2>3, FS_EmptySet
    <3> QED BY <3>1 DEF RequestInv, OneRequest
  <2>4. CASE E # {}
    <3>1. PICK i \in DOMAIN cq : IsRecv(cq[i]) /\ ~cq[i].more
      BY <2>4 DEF IsRecv
    <3>2. \A j \in E : j = i
      <4> SUFFICES ASSUME NEW j \in DOMAIN cq, IsRecv(cq[j]), ~cq[j].more PROVE j = i
        BY DEF IsRecv
      <4>1. ~(i < j) /\ ~(j < i)
        BY <3>1 DEF RequestInv
      <4> QED BY <2>2, <3>1, <4>1
    <3>3. E = {i}
      BY <2>4, <3>2
    <3>4. Final("recv") = 1
      BY <2>1, <3>3, FS_Singleton
    <3>5. live /\ "recv" \notin armed /\ "recv" \notin pending
      BY <3>1 DEF RequestInv
    <3> QED BY <3>4, <3>5 DEF OneRequest
  <2> QED BY <2>3, <2>4
<1> QED BY <1>1, <1>2, RequestInit, PTL DEF Spec

-----------------------------------------------------------------------------
(* Proofs: the slots.                                                        *)

\* A posted completion uses up its own slot.
LEMMA PostSlot ==
    ASSUME TypeInv, NEW e \in Event, cq' = Append(cq, e)
    PROVE  /\ Spent' = Spent \union (IF Exhausts(e) THEN {e.bid} ELSE {})
           /\ Unique(cq) /\ (Exhausts(e) => e.bid \notin Spent) => Unique(cq')
<1>1. PICK l \in Nat : l = Len(cq)
  BY LenProperties DEF TypeInv
<1>2. /\ DOMAIN cq = 1..l /\ DOMAIN cq' = 1..(l + 1) /\ cq'[l + 1] = e
      /\ \A i \in 1..l : cq'[i] = cq[i]
  BY <1>1, AppendItems DEF TypeInv
<1>3. /\ \A i \in 1..(l + 1) : i \in 1..l \/ i = l + 1
      /\ \A i \in 1..l : i \in 1..(l + 1) /\ i # l + 1
      /\ l + 1 \in 1..(l + 1)
  BY <1>1
<1>4. Spent' = Spent \union (IF Exhausts(e) THEN {e.bid} ELSE {})
  <2>1. ASSUME NEW b, b \in Spent' PROVE b \in Spent \union (IF Exhausts(e) THEN {e.bid} ELSE {})
    <3>1. PICK i \in 1..(l + 1) : Exhausts(cq'[i]) /\ b = cq'[i].bid
      BY <1>2, <2>1 DEF Spent
    <3> QED BY <1>2, <1>3, <3>1 DEF Spent
  <2>2. ASSUME NEW b, b \in Spent \union (IF Exhausts(e) THEN {e.bid} ELSE {}) PROVE b \in Spent'
    <3>1. CASE b \in Spent
      <4>1. PICK i \in 1..l : Exhausts(cq[i]) /\ b = cq[i].bid
        BY <1>2, <3>1 DEF Spent
      <4> QED BY <1>2, <1>3, <4>1 DEF Spent
    <3>2. CASE Exhausts(e) /\ b = e.bid
      BY <1>2, <1>3, <3>2 DEF Spent
    <3> QED BY <2>2, <3>1, <3>2
  <2> QED BY <2>1, <2>2
<1>5. ASSUME Unique(cq), Exhausts(e) => e.bid \notin Spent PROVE Unique(cq')
  <2>1. \A i \in 1..l : Exhausts(cq[i]) => cq[i].bid \in Spent
    BY <1>2 DEF Spent
  <2> SUFFICES ASSUME NEW i \in 1..(l + 1), NEW j \in 1..(l + 1), Exhausts(cq'[i]), Exhausts(cq'[j]),
                      cq'[i].bid = cq'[j].bid
               PROVE  i = j
    BY <1>2 DEF Unique
  <2>2. CASE i \in 1..l /\ j \in 1..l
    BY <1>2, <1>5, <2>2 DEF Unique
  <2>3. CASE i = l + 1 \/ j = l + 1
    BY <1>2, <1>3, <1>5, <2>1, <2>3
  <2> QED BY <1>3, <2>2, <2>3
<1> QED BY <1>4, <1>5

\* The reaped completion gives up its slot.
LEMMA PopSlot ==
    ASSUME TypeInv, cq # <<>>, cq' = Tail(cq)
    PROVE  /\ Spent = Spent' \union (IF Exhausts(Head(cq)) THEN {Head(cq).bid} ELSE {})
           /\ Unique(cq) => Unique(cq') /\ (Exhausts(Head(cq)) => Head(cq).bid \notin Spent')
<1>1. PICK l \in Nat \ {0} : l = Len(cq)
  BY TailItems DEF TypeInv
<1>h. PICK h : h = Head(cq)
  OBVIOUS
<1>2. /\ DOMAIN cq = 1..l /\ DOMAIN cq' = 1..(l - 1) /\ h = cq[1]
      /\ \A i \in 1..(l - 1) : cq'[i] = cq[i + 1]
  BY <1>1, <1>h, TailItems DEF TypeInv
<1>3. /\ \A i \in 1..(l - 1) : i + 1 \in 1..l /\ i + 1 # 1
      /\ \A i \in 1..l : i = 1 \/ (i - 1 \in 1..(l - 1) /\ (i - 1) + 1 = i)
      /\ \A i, j \in 1..(l - 1) : i + 1 = j + 1 => i = j
      /\ 1 \in 1..l
  BY <1>1
<1>4. \A b \in Spent' : \E i \in 1..l : i # 1 /\ Exhausts(cq[i]) /\ cq[i].bid = b
  <2> SUFFICES ASSUME NEW b, b \in Spent' PROVE \E i \in 1..l : i # 1 /\ Exhausts(cq[i]) /\ cq[i].bid = b
    OBVIOUS
  <2>1. PICK i \in 1..(l - 1) : Exhausts(cq'[i]) /\ b = cq'[i].bid
    BY <1>2 DEF Spent
  <2> QED BY <1>2, <1>3, <2>1
<1>5. Spent = Spent' \union (IF Exhausts(h) THEN {h.bid} ELSE {})
  <2>1. ASSUME NEW b, b \in Spent PROVE b \in Spent' \union (IF Exhausts(h) THEN {h.bid} ELSE {})
    <3>1. PICK i \in 1..l : Exhausts(cq[i]) /\ b = cq[i].bid
      BY <1>2, <2>1 DEF Spent
    <3>2. CASE i = 1
      BY <1>2, <3>1, <3>2
    <3>3. CASE i # 1
      <4>1. PICK k \in 1..(l - 1) : k + 1 = i
        BY <1>3, <3>3
      <4>2. cq'[k] = cq[i] /\ k \in DOMAIN cq'
        BY <1>2, <4>1
      <4> QED BY <3>1, <4>2 DEF Spent
    <3> QED BY <3>2, <3>3
  <2>2. Spent' \subseteq Spent
    BY <1>2, <1>4 DEF Spent
  <2>3. Exhausts(h) => h.bid \in Spent
    BY <1>2, <1>3 DEF Spent
  <2> QED BY <2>1, <2>2, <2>3
<1>6. ASSUME Unique(cq) PROVE Unique(cq') /\ (Exhausts(h) => h.bid \notin Spent')
  <2>1. Unique(cq')
    BY <1>2, <1>3, <1>6 DEF Unique
  <2>2. Exhausts(h) => h.bid \notin Spent'
    BY <1>2, <1>3, <1>4, <1>6 DEF Unique
  <2> QED BY <2>1, <2>2
<1> QED BY <1>h, <1>5, <1>6

\* At the start no slot exists.
LEMMA SlotInit == Init => SlotInv
<1> SUFFICES ASSUME Init PROVE SlotInv
  OBVIOUS
<1>1. DOMAIN cq = {} /\ DOMAIN ring = {} /\ kpos = 0 /\ conns = 0 /\ ring = <<>> /\ replenish = NoBid
  BY DEF Init
<1>2. Spent = {} /\ Range(ring) = {}
  BY <1>1 DEF Spent, Range
<1> QED BY <1>1, <1>2 DEF SlotInv, IsInjective, Unique

\* _M_setup_ring offers every slot once.
LEMMA FullRingFacts ==
    FullRing \in Seq(Bid) /\ IsInjective(FullRing) /\ Range(FullRing) = Bid /\ FullRing # <<>>
<1>1. NrBufs \in Nat \ {0}
  BY ServerAssumption
<1>2. DOMAIN FullRing = 1..NrBufs /\ \A i \in 1..NrBufs : FullRing[i] = i - 1
  BY DEF FullRing
<1>3. FullRing \in Seq(Bid)
  BY <1>1 DEF FullRing, Bid
<1>4. IsInjective(FullRing)
  BY <1>1, <1>2 DEF IsInjective
<1>5. ASSUME NEW b \in Bid PROVE b \in Range(FullRing)
  <2>1. b + 1 \in 1..NrBufs /\ FullRing[b + 1] = b
    BY <1>1, <1>2 DEF Bid
  <2> QED BY <1>2, <2>1 DEF Range
<1>6. Range(FullRing) \subseteq Bid
  BY <1>1, <1>2 DEF Range, Bid
<1>7. 1 \in DOMAIN FullRing /\ DOMAIN <<>> = {}
  BY <1>1, <1>2
<1> QED BY <1>3, <1>4, <1>5, <1>6, <1>7

\* Every step keeps each slot in one place.
LEMMA SlotStep == TypeInv /\ EventInv /\ RequestInv /\ SlotInv /\ [Next]_vars => SlotInv'
<1> SUFFICES ASSUME TypeInv, EventInv, RequestInv, SlotInv, [Next]_vars PROVE SlotInv'
  OBVIOUS
<1> USE DEF peerVars, bufVars, opVars
<1>a. NrBufs \in Nat \ {0} /\ NoBid = NrBufs /\ NoBid \notin Bid /\ Bid \subseteq 0..NrBufs /\ 0..NrBufs = Bid \union {NoBid}
  BY ServerAssumption DEF NoBid, Bid
<1>t. /\ ring \in Seq(Bid) /\ cq \in Seq(Event) /\ replenish \in 0..NrBufs /\ conns \in Nat /\ kpos \in Nat
      /\ running \in BOOLEAN
  BY DEF TypeInv
<1>i. /\ kpos > 0 => ring # <<>>
      /\ ~running => replenish = NoBid
      /\ IsInjective(ring) /\ Unique(cq)
      /\ Range(ring) \intersect Spent = {} /\ replenish \notin Range(ring) \union Spent
      /\ conns > 0 => Bid \subseteq Range(ring) \union Spent \union {replenish}
      /\ conns = 0 => ring = <<>>
  BY DEF SlotInv
<1>b. NoBid \notin Range(ring) \union Spent
  BY <1>a, <1>t DEF Range, Spent, Exhausts
<1>s. ASSUME UNCHANGED <<ring, kpos, replenish, conns, running>>, Spent' = Spent, Unique(cq') PROVE SlotInv'
  BY <1>i, <1>s DEF SlotInv
<1>p. ASSUME NEW e \in Event, Post(e), UNCHANGED bufVars, e.bid = NoBid PROVE SlotInv'
  <2>1. ~Exhausts(e) /\ cq' = Append(cq, e) /\ UNCHANGED <<ring, kpos, replenish, conns, running>>
    BY <1>a, <1>p DEF Exhausts, Post
  <2>2. Spent' = Spent /\ Unique(cq')
    BY <1>i, <2>1, PostSlot
  <2> QED BY <1>s, <2>1, <2>2
<1>1. CASE Break
  BY <1>1, <1>i, <1>s DEF Break, Spent
<1>2. ASSUME NEW len \in 1..BufSize, NEW more \in BOOLEAN, PostData(len, more) PROVE SlotInv'
  <2>h. PICK h : h = Head(ring)
    OBVIOUS
  <2>r. PICK r : r = Tail(ring)
    OBVIOUS
  <2>1. h \in Bid /\ r \in Seq(Bid) /\ ring # <<>> /\ "recv" \in armed
    BY <1>2, <2>h, <2>r, DataFacts
  <2>2. Range(ring) = Range(r) \union {h} /\ IsInjective(r) /\ h \notin Range(r)
    BY <1>i, <1>t, <2>h, <2>r, <2>1, RangeTail
  <2>3. conns > 0
    BY <1>t, <2>1 DEF RequestInv
  <2>4. CASE kpos' = kpos + len /\ UNCHANGED ring /\ Post(Entry("recv", len, h, TRUE, more))
    <3>1. PICK e : e = Entry("recv", len, h, TRUE, more)
      OBVIOUS
    <3>2. e \in Event /\ ~Exhausts(e)
      BY <1>a, <2>1, <3>1 DEF Entry, Event, Exhausts, Op
    <3>3. cq' = Append(cq, e) /\ UNCHANGED <<replenish, conns, running>>
      BY <2>4, <3>1 DEF Post
    <3>4. Spent' = Spent /\ Unique(cq')
      BY <1>i, <3>2, <3>3, PostSlot
    <3> QED BY <1>i, <2>1, <2>4, <3>3, <3>4 DEF SlotInv
  <2>5. CASE kpos' = 0 /\ ring' = r /\ Post(Entry("recv", len, h, FALSE, more))
    <3>1. PICK e : e = Entry("recv", len, h, FALSE, more)
      OBVIOUS
    <3>2. e \in Event /\ Exhausts(e) /\ e.bid = h
      BY <1>a, <2>1, <3>1 DEF Entry, Event, Exhausts, Op
    <3>3. cq' = Append(cq, e) /\ UNCHANGED <<replenish, conns, running>>
      BY <2>5, <3>1 DEF Post
    <3>4. Spent' = Spent \union {h} /\ Unique(cq')
      BY <1>i, <2>2, <3>2, <3>3, PostSlot
    <3>5. ~(kpos' > 0) /\ conns' # 0
      BY <2>3, <2>5, <3>3
    <3> QED BY <1>i, <2>2, <2>5, <3>3, <3>4, <3>5 DEF SlotInv
  <2> QED BY <1>2, <2>h, <2>r, <2>4, <2>5, DataFacts
<1>3. CASE PostNoBufs
  <2>1. PICK e : e = Entry("recv", -ENOBUFS, NoBid, FALSE, FALSE)
    OBVIOUS
  <2>2. e \in Event /\ e.bid = NoBid
    BY <1>a, <2>1 DEF Entry, Event, ENOBUFS, Op
  <2> QED BY <1>3, <1>p, <2>1, <2>2 DEF PostNoBufs
<1>4. CASE PostEnd
  <2>1. PICK r : r = (IF broken THEN -ECONNRESET ELSE 0)
    OBVIOUS
  <2>2. PICK e : e = Entry("recv", r, NoBid, FALSE, FALSE)
    OBVIOUS
  <2>3. e \in Event /\ e.bid = NoBid
    BY <1>a, <2>1, <2>2 DEF Entry, Event, ECONNRESET, Op
  <2> QED BY <1>4, <1>p, <2>1, <2>2, <2>3 DEF PostEnd
<1>5. ASSUME NEW more \in BOOLEAN, PostAccept(more) PROVE SlotInv'
  <2>1. PICK e : e = Entry("accept", conns, NoBid, FALSE, more)
    OBVIOUS
  <2>2. e \in Event /\ e.bid = NoBid
    BY <1>a, <1>t, <2>1 DEF Entry, Event, Op
  <2> QED BY <1>5, <1>p, <2>1, <2>2 DEF PostAccept
<1>6. CASE PostAcceptError
  <2>1. PICK e : e = Entry("accept", -ENFILE, NoBid, FALSE, FALSE)
    OBVIOUS
  <2>2. e \in Event /\ e.bid = NoBid
    BY <1>a, <2>1 DEF Entry, Event, ENFILE, Op
  <2> QED BY <1>6, <1>p, <2>1, <2>2 DEF PostAcceptError
<1>o. ASSUME NEW op, Reaping(op), cq' = Tail(cq), ~Exhausts(Head(cq)) PROVE Spent' = Spent /\ Unique(cq')
  <2>1. cq # <<>>
    BY <1>o, HeadFacts
  <2> QED BY <1>i, <1>o, <2>1, PopSlot
<1>n. ASSUME NEW op, Reaping(op), op = "accept" \/ Head(cq).res <= 0 PROVE ~Exhausts(Head(cq))
  <2>1. 1 \in DOMAIN cq /\ Head(cq) = cq[1] /\ Head(cq).op = op /\ Head(cq).res \in Int
    <3>1. cq # <<>> /\ Head(cq).op = op /\ Head(cq).res \in Int
      BY <1>n, HeadFacts
    <3> QED BY <1>t, <3>1, TailItems
  <2> QED BY <1>n, <2>1 DEF EventInv, IsData, Exhausts
<1>7. CASE CompleteAccept
  <2>1. Reaping("accept") /\ cq' = Tail(cq) /\ UNCHANGED <<kpos, replenish, running>>
    BY <1>7 DEF CompleteAccept
  <2>2. Spent' = Spent /\ Unique(cq')
    BY <1>n, <1>o, <2>1
  <2>3. CASE UNCHANGED <<ring, conns>>
    BY <1>s, <2>1, <2>2, <2>3
  <2>4. CASE conns' = conns + 1 /\ ring' = IF conns = 0 THEN FullRing ELSE ring
    <3>1. conns' > 0 /\ conns' # 0
      BY <1>t, <2>4
    <3>2. CASE conns = 0
      <4>1. \A i \in DOMAIN cq : ~IsRecv(cq[i])
        BY <3>2 DEF RequestInv
      <4>2. Spent = {}
        BY <4>1 DEF Spent, Exhausts, EventInv, IsData, IsRecv
      <4>3. ring' = FullRing /\ replenish = NoBid
        BY <1>i, <2>1, <2>4, <3>2 DEF Reaping
      <4>4. IsInjective(ring') /\ Range(ring') = Bid /\ ring' # <<>>
        BY <4>3, FullRingFacts
      <4> QED BY <1>a, <1>i, <2>1, <2>2, <3>1, <4>2, <4>3, <4>4 DEF SlotInv
    <3>3. CASE conns # 0
      <4>1. conns > 0 /\ ring' = ring
        BY <1>t, <2>4, <3>3
      <4> QED BY <1>i, <2>1, <2>2, <3>1, <4>1 DEF SlotInv
    <3> QED BY <3>2, <3>3
  <2> QED BY <1>7, <2>3, <2>4 DEF CompleteAccept, Terminate
<1>8. CASE CompleteNoBufs
  <2>1. Reaping("recv") /\ Head(cq).res <= 0 /\ cq' = Tail(cq) /\ UNCHANGED <<ring, kpos, replenish, conns, running>>
    BY <1>8 DEF CompleteNoBufs, ENOBUFS
  <2> QED BY <1>n, <1>o, <1>s, <2>1
<1>9. CASE CompleteEnd
  <2>1. Reaping("recv") /\ Head(cq).res <= 0 /\ cq' = Tail(cq) /\ UNCHANGED <<ring, kpos, replenish, conns, running>>
    BY <1>9 DEF CompleteEnd
  <2> QED BY <1>n, <1>o, <1>s, <2>1
<1>10. CASE CompleteData
  <2>1. /\ Reaping("recv") /\ Head(cq).res > 0 /\ cq' = Tail(cq) /\ running' = TRUE /\ UNCHANGED <<ring, kpos, conns>>
        /\ replenish' = IF Head(cq).bufMore THEN replenish ELSE Head(cq).bid
    BY <1>10 DEF CompleteData
  <2>2. cq # <<>> /\ replenish = NoBid /\ IsData(Head(cq))
    BY <1>i, <2>1, HeadFacts DEF Reaping, IsData
  <2>3. Head(cq).bid \in Bid
    <3>1. 1 \in DOMAIN cq /\ Head(cq) = cq[1]
      BY <1>t, <2>2, TailItems
    <3> QED BY <2>2, <3>1 DEF EventInv
  <2>4. CASE Head(cq).bufMore
    <3>1. ~Exhausts(Head(cq)) /\ replenish' = replenish
      BY <2>1, <2>4 DEF Exhausts
    <3>2. Spent' = Spent /\ Unique(cq')
      BY <1>o, <2>1, <3>1
    <3> QED BY <1>i, <2>1, <3>1, <3>2 DEF SlotInv
  <2>5. CASE ~Head(cq).bufMore
    <3>1. Exhausts(Head(cq)) /\ replenish' = Head(cq).bid
      BY <2>1, <2>3, <2>5 DEF Exhausts
    <3>2. Spent = Spent' \union {replenish'} /\ Unique(cq') /\ replenish' \notin Spent'
      BY <1>i, <2>1, <2>2, <3>1, PopSlot
    <3>3. replenish' \notin Range(ring) /\ Range(ring) \intersect Spent' = {}
      BY <1>i, <3>2
    <3>4. conns > 0 => Bid \subseteq Range(ring) \union Spent' \union {replenish'}
      BY <1>a, <1>i, <2>2, <3>2
    <3> QED BY <1>i, <2>1, <3>2, <3>3, <3>4 DEF SlotInv
  <2> QED BY <2>4, <2>5
<1>11. CASE Read
  <2>1. /\ running /\ ring' = _M_replenish(ring, replenish) /\ replenish' = NoBid /\ running' = FALSE
        /\ UNCHANGED <<kpos, cq, conns>>
    BY <1>11 DEF Read
  <2>2. Spent' = Spent /\ Unique(cq') /\ conns # 0
    BY <1>i, <2>1 DEF Spent, RequestInv
  <2>3. CASE replenish = NoBid
    <3>1. ring' = ring
      BY <2>1, <2>3 DEF _M_replenish
    <3> QED BY <1>b, <1>i, <2>1, <2>2, <2>3, <3>1 DEF SlotInv
  <2>4. CASE replenish # NoBid
    <3>1. replenish \in Bid /\ ring' = Append(ring, replenish)
      BY <1>a, <1>t, <2>1, <2>4 DEF _M_replenish
    <3>2. Range(ring') = Range(ring) \union {replenish} /\ IsInjective(ring')
      BY <1>i, <1>t, <3>1, RangeAppend
    <3>3. ring' # <<>>
      BY <1>t, <3>1, AppendItems, EmptySeq
    <3> QED BY <1>a, <1>b, <1>i, <2>1, <2>2, <3>1, <3>2, <3>3 DEF SlotInv
  <2> QED BY <2>3, <2>4
<1>12. CASE Submit
  BY <1>12, <1>i, <1>s DEF Submit, Spent
<1>13. CASE UNCHANGED vars
  BY <1>13, <1>i, <1>s DEF vars, Spent
<1> QED BY <1>1, <1>2, <1>3, <1>4, <1>5, <1>6, <1>7, <1>8, <1>9, <1>10, <1>11, <1>12, <1>13 DEF Next, KernelData, KernelAccept, LoopStep

RequestAndSlots == TypeInv /\ EventInv /\ RequestInv /\ SlotInv

\* The receiver's request and its slots in every reachable state.
THEOREM RequestAndSlotsHold == Spec => []RequestAndSlots
<1>1. RequestAndSlots /\ [Next]_vars => RequestAndSlots'
  BY TypeStep, RequestStep, SlotStep DEF RequestAndSlots
<1>2. Init => RequestAndSlots
  BY RequestInit, SlotInit DEF RequestAndSlots
<1> QED BY <1>1, <1>2, PTL DEF Spec

\* No slot is lost and none is handed back twice, for any number and size of
\* the slots.
THEOREM SlotsConservedHolds == Spec => []SlotsConserved
<1>1. RequestAndSlots => SlotsConserved
  <2> SUFFICES ASSUME TypeInv, SlotInv, conns > 0, NEW b \in Bid
               PROVE  Cardinality({i \in DOMAIN ring : ring[i] = b}) + Cardinality(UsedUp(b))
                          + (IF replenish = b THEN 1 ELSE 0) = 1
    BY DEF RequestAndSlots, SlotsConserved
  <2> DEFINE R == {i \in DOMAIN ring : ring[i] = b}
             U == UsedUp(b)
  <2>1. Cardinality(R) = IF b \in Range(ring) THEN 1 ELSE 0
    <3>1. CASE b \in Range(ring)
      <4>1. PICK i \in DOMAIN ring : ring[i] = b
        BY <3>1 DEF Range
      <4>2. R = {i}
        BY <4>1 DEF SlotInv, IsInjective
      <4> QED BY <3>1, <4>2, FS_Singleton
    <3>2. CASE b \notin Range(ring)
      <4>1. R = {}
        BY <3>2 DEF Range
      <4> QED BY <3>2, <4>1, FS_EmptySet
    <3> QED BY <3>1, <3>2
  <2>2. Cardinality(U) = IF b \in Spent THEN 1 ELSE 0
    <3>1. CASE b \in Spent
      <4>1. PICK i \in DOMAIN cq : Exhausts(cq[i]) /\ cq[i].bid = b
        BY <3>1 DEF Spent
      <4>2. U = {i}
        BY <4>1 DEF SlotInv, Unique, UsedUp, Exhausts
      <4> QED BY <3>1, <4>2, FS_Singleton
    <3>2. CASE b \notin Spent
      <4>1. U = {}
        BY <3>2 DEF Spent, UsedUp, Exhausts
      <4> QED BY <3>2, <4>1, FS_EmptySet
    <3> QED BY <3>1, <3>2
  <2>3. b \in Range(ring) \union Spent \union {replenish}
    BY DEF SlotInv
  <2>4. ~(b \in Range(ring) /\ b \in Spent) /\ replenish \notin Range(ring) /\ replenish \notin Spent
    BY DEF SlotInv
  <2> HIDE DEF R, U
  <2>5. Cardinality(R) + Cardinality(U) + (IF replenish = b THEN 1 ELSE 0) = 1
    BY <2>1, <2>2, <2>3, <2>4
  <2> QED BY <2>5 DEF R, U
<1> QED BY <1>1, RequestAndSlotsHold, PTL

-----------------------------------------------------------------------------
(* Proofs: the stream.                                                       *)

\* The units the kernel writes next are none of those still to be read.
LEMMA DataKeeps ==
    ASSUME TypeInv, NEW len, NEW more \in BOOLEAN, PostData(len, more),
           NEW b, NEW o \in Nat, NEW n \in Nat, NEW p \in Nat, Holds(mem, b, o, n, p),
           b \notin Range(ring) \/ o + n <= kpos
    PROVE  Holds(mem', b, o, n, p)
<1>0. ring # <<>> /\ \A c \in Bid, i \in 0..(BufSize - 1) :
                        mem'[c][i] = IF c = Head(ring) /\ i \in kpos..(kpos + len - 1)
                                     THEN taken + 1 + i - kpos ELSE mem[c][i]
  BY DataFacts, Zenon
<1>1. kpos \in Nat /\ ring \in Seq(Bid) /\ BufSize \in Nat
  BY ServerAssumption DEF TypeInv
<1>2. Head(ring) \in Range(ring)
  BY <1>0, <1>1, RangeTail
<1>3. b \in Bid /\ o + n <= BufSize
  BY DEF Holds
<1>4. ASSUME NEW k \in 0..(n - 1) PROVE mem'[b][o + k] = p + 1 + k
  <2>1. o + k \in 0..(BufSize - 1) /\ o + k < o + n
    BY <1>1, <1>3
  <2>2. ~(b = Head(ring) /\ o + k \in kpos..(kpos + len - 1))
    BY <1>1, <1>2, <2>1
  <2>3. mem'[b][o + k] = mem[b][o + k]
    BY <1>0, <1>3, <2>1, <2>2
  <2> QED BY <2>3 DEF Holds
<1> QED BY <1>3, <1>4 DEF Holds

\* A slot that is used up, or filled beyond a unit, stays so.
LEMMA DataSafe ==
    ASSUME TypeInv, NEW len, NEW more \in BOOLEAN, PostData(len, more),
           NEW b, NEW end \in Nat, NEW i \in 1..(Len(cq) + 1), Safe(cq, ring, kpos, b, end, i)
    PROVE  Safe(cq', ring', kpos', b, end, i)
<1>h. PICK h : h = Head(ring)
  OBVIOUS
<1>0. len \in Nat /\ h \in Bid
  BY <1>h, DataFacts
<1>1. kpos \in Nat /\ cq \in Seq(Event) /\ len \in Nat /\ h \in Bid
  BY <1>0 DEF TypeInv
<1>2. Bid \subseteq 0..NrBufs
  BY ServerAssumption DEF Bid
<1>3. PICK m \in BOOLEAN : /\ Post(Entry("recv", len, h, m, more))
                           /\ (m /\ kpos' = kpos + len /\ UNCHANGED ring) \/ ~m
  BY <1>h, DataFacts
<1>4. PICK e : e = Entry("recv", len, h, m, more)
  OBVIOUS
<1>5. e \in Event /\ e.bid = h /\ e.bufMore = m
  BY <1>1, <1>2, <1>4 DEF Entry, Event, Op
<1>6. cq' = Append(cq, e)
  BY <1>3, <1>4 DEF Post
<1>7. /\ DOMAIN cq = 1..Len(cq) /\ DOMAIN cq' = 1..(Len(cq) + 1) /\ Len(cq) \in Nat
      /\ cq'[Len(cq) + 1] = e /\ \A j \in 1..Len(cq) : cq'[j] = cq[j]
  BY <1>1, <1>5, <1>6, AppendItems
<1>8. CASE \E j \in DOMAIN cq : j >= i /\ cq[j].bid = b /\ Exhausts(cq[j])
  <2>1. PICK j \in DOMAIN cq : j >= i /\ cq[j].bid = b /\ Exhausts(cq[j])
    BY <1>8
  <2>2. j \in DOMAIN cq' /\ cq'[j] = cq[j]
    BY <1>7
  <2> QED BY <2>1, <2>2 DEF Safe
<1>9. CASE ring # <<>> /\ b = Head(ring) /\ end <= kpos
  <2>1. CASE m /\ kpos' = kpos + len /\ UNCHANGED ring
    <3>1. end <= kpos'
      BY <1>1, <1>9, <2>1
    <3> QED BY <1>9, <2>1, <3>1 DEF Safe
  <2>2. CASE ~m
    <3>1. Exhausts(e) /\ e.bid = b
      BY <1>1, <1>5, <1>9, <1>h, <2>2 DEF Exhausts
    <3>2. Len(cq) + 1 \in DOMAIN cq' /\ Len(cq) + 1 >= i
      BY <1>7
    <3> QED BY <1>7, <3>1, <3>2 DEF Safe
  <2> QED BY <1>3, <2>1, <2>2
<1> QED BY <1>8, <1>9 DEF Safe

\* A completion posted where the kernel stands continues the trace.
LEMMA PostTraced ==
    ASSUME TypeInv, NEW pos, NEW off, Traced(pos, off), NEW e \in Event, cq' = Append(cq, e),
           taken' \in Nat, kpos' \in Nat, Follows(e, taken, kpos, taken', kpos'),
           UNCHANGED <<cur, got, running, view>>,
           \A i \in DOMAIN cq : IsData(cq[i]) => /\ Holds(mem', cq[i].bid, off[i], cq[i].res, pos[i])
                                                 /\ Safe(cq', ring', kpos', cq[i].bid, off[i] + cq[i].res, i),
           IsData(e) => /\ Holds(mem', e.bid, kpos, e.res, taken)
                        /\ Safe(cq', ring', kpos', e.bid, kpos + e.res, Len(cq) + 1)
    PROVE  \E p, o : Traced(p, o)'
<1>1. PICK l \in Nat : l = Len(cq)
  BY LenProperties DEF TypeInv
<1>2. /\ DOMAIN cq = 1..l /\ DOMAIN cq' = 1..(l + 1) /\ Len(cq') = l + 1
      /\ cq'[l + 1] = e /\ \A i \in 1..l : cq'[i] = cq[i]
  BY <1>1, AppendItems DEF TypeInv
<1>3. PICK p : p = [i \in 1..(l + 2) |-> IF i <= l + 1 THEN pos[i] ELSE taken']
  OBVIOUS
<1>4. PICK o : o = [i \in 1..(l + 2) |-> IF i <= l + 1 THEN off[i] ELSE kpos']
  OBVIOUS
<1>5. pos \in [1..(l + 1) -> Nat] /\ off \in [1..(l + 1) -> Nat]
  BY <1>1 DEF Traced
<1>6. p \in [1..(l + 2) -> Nat] /\ \A i \in 1..(l + 1) : p[i] = pos[i]
  BY <1>1, <1>3, <1>5
<1>7. o \in [1..(l + 2) -> Nat] /\ \A i \in 1..(l + 1) : o[i] = off[i]
  BY <1>1, <1>4, <1>5
<1>8. p[l + 2] = taken' /\ o[l + 2] = kpos'
  BY <1>1, <1>3, <1>4
<1>9. pos[l + 1] = taken /\ off[l + 1] = kpos
  BY <1>1 DEF Traced
<1>10. /\ \A i \in 1..(l + 1) : i \in 1..l \/ i = l + 1
       /\ \A i \in 1..l : i \in 1..(l + 1) /\ i + 1 \in 1..(l + 1)
       /\ 1 \in 1..(l + 1) /\ l + 1 \in 1..(l + 1) /\ (l + 1) + 1 = l + 2
  BY <1>1
<1>11. p[1] = Len(got') + (IF running' THEN view'.len ELSE 0) /\ o[1] = cur'
  BY <1>6, <1>7, <1>10 DEF Traced
<1>12. ASSUME NEW i \in 1..(l + 1) PROVE Follows(cq'[i], p[i], o[i], p[i + 1], o[i + 1])
  <2>1. CASE i \in 1..l
    BY <1>2, <1>6, <1>7, <1>10, <2>1 DEF Traced
  <2>2. CASE i = l + 1
    BY <1>2, <1>6, <1>7, <1>8, <1>9, <1>10, <2>2
  <2> QED BY <1>10, <2>1, <2>2
<1>13. ASSUME NEW i \in 1..(l + 1), IsData(cq'[i])
       PROVE  Holds(mem', cq'[i].bid, o[i], cq'[i].res, p[i]) /\ Safe(cq', ring', kpos', cq'[i].bid, o[i] + cq'[i].res, i)
  <2>1. CASE i \in 1..l
    <3>1. cq'[i] = cq[i] /\ p[i] = pos[i] /\ o[i] = off[i] /\ i \in DOMAIN cq
      BY <1>2, <1>6, <1>7, <1>10, <2>1
    <3>2. IsData(cq[i])
      BY <1>13, <3>1
    <3>3. Holds(mem', cq[i].bid, off[i], cq[i].res, pos[i]) /\ Safe(cq', ring', kpos', cq[i].bid, off[i] + cq[i].res, i)
      BY <3>1, <3>2
    <3> QED BY <3>1, <3>3
  <2>2. CASE i = l + 1
    <3>1. cq'[i] = e /\ p[i] = taken /\ o[i] = kpos
      BY <1>2, <1>6, <1>7, <1>9, <1>10, <2>2
    <3>2. Holds(mem', e.bid, kpos, e.res, taken) /\ Safe(cq', ring', kpos', e.bid, kpos + e.res, l + 1)
      BY <1>1, <1>13, <3>1
    <3> QED BY <2>2, <3>1, <3>2
  <2> QED BY <1>10, <2>1, <2>2
<1>14. Traced(p, o)'
  BY <1>2, <1>6, <1>7, <1>8, <1>10, <1>11, <1>12, <1>13 DEF Traced
<1> QED BY <1>14

\* Reaping a completion moves the others one position forward.
LEMMA PopSafe ==
    ASSUME TypeInv, cq # <<>>, cq' = Tail(cq), NEW r, NEW at, NEW b, NEW end, NEW i \in Nat \ {0},
           Safe(cq, r, at, b, end, i + 1)
    PROVE  Safe(cq', r, at, b, end, i)
<1>1. PICK l \in Nat \ {0} : l = Len(cq)
  BY TailItems DEF TypeInv
<1>2. DOMAIN cq = 1..l /\ DOMAIN cq' = 1..(l - 1) /\ \A j \in 1..(l - 1) : cq'[j] = cq[j + 1]
  BY <1>1, TailItems DEF TypeInv
<1>3. CASE \E j \in DOMAIN cq : j >= i + 1 /\ cq[j].bid = b /\ Exhausts(cq[j])
  <2>1. PICK j \in 1..l : j >= i + 1 /\ cq[j].bid = b /\ Exhausts(cq[j])
    BY <1>2, <1>3
  <2>2. PICK k \in 1..(l - 1) : k + 1 = j /\ k >= i
    BY <1>1, <2>1
  <2>3. cq'[k].bid = b /\ Exhausts(cq'[k]) /\ k \in DOMAIN cq'
    BY <1>2, <2>1, <2>2
  <2> QED BY <2>2, <2>3 DEF Safe
<1> QED BY <1>3 DEF Safe

\* The trace without its first completion, from what that one led to.
LEMMA PopTraced ==
    ASSUME TypeInv, NEW pos, NEW off, Traced(pos, off), cq # <<>>, cq' = Tail(cq),
           UNCHANGED <<taken, kpos, mem>>, ring' = ring \/ \A i \in DOMAIN cq : ~IsData(cq[i]),
           pos[2] = Len(got') + (IF running' THEN view'.len ELSE 0), off[2] = cur'
    PROVE  \E p, o : Traced(p, o)'
<1>1. PICK l \in Nat \ {0} : l = Len(cq)
  BY TailItems DEF TypeInv
<1>2. /\ DOMAIN cq = 1..l /\ DOMAIN cq' = 1..(l - 1) /\ Len(cq') = l - 1
      /\ \A i \in 1..(l - 1) : cq'[i] = cq[i + 1]
  BY <1>1, TailItems DEF TypeInv
<1>3. PICK p : p = [i \in 1..l |-> pos[i + 1]]
  OBVIOUS
<1>4. PICK o : o = [i \in 1..l |-> off[i + 1]]
  OBVIOUS
<1>5. /\ pos \in [1..(l + 1) -> Nat] /\ off \in [1..(l + 1) -> Nat]
      /\ pos[l + 1] = taken /\ off[l + 1] = kpos
  BY <1>1 DEF Traced
<1>6. p \in [1..l -> Nat] /\ o \in [1..l -> Nat]
  BY <1>1, <1>3, <1>4, <1>5
<1>7. /\ \A i \in 1..(l - 1) : i \in 1..l /\ i + 1 \in 1..l /\ i \in Nat \ {0}
      /\ 1 \in 1..l /\ l \in 1..l /\ (l - 1) + 1 = l /\ 1 + 1 = 2
  BY <1>1
<1>8. p[1] = pos[2] /\ o[1] = off[2] /\ p[l] = taken' /\ o[l] = kpos'
  BY <1>3, <1>4, <1>5, <1>7
<1>9. ASSUME NEW i \in 1..(l - 1) PROVE Follows(cq'[i], p[i], o[i], p[i + 1], o[i + 1])
  <2>1. /\ i + 1 \in DOMAIN cq /\ cq'[i] = cq[i + 1] /\ p[i] = pos[i + 1] /\ o[i] = off[i + 1]
        /\ p[i + 1] = pos[(i + 1) + 1] /\ o[i + 1] = off[(i + 1) + 1]
    BY <1>2, <1>3, <1>4, <1>7
  <2> QED BY <2>1 DEF Traced
<1>10. ASSUME NEW i \in 1..(l - 1), IsData(cq'[i])
       PROVE  /\ Holds(mem', cq'[i].bid, o[i], cq'[i].res, p[i])
              /\ Safe(cq', ring', kpos', cq'[i].bid, o[i] + cq'[i].res, i)
  <2>1. /\ i + 1 \in DOMAIN cq /\ cq'[i] = cq[i + 1] /\ p[i] = pos[i + 1] /\ o[i] = off[i + 1]
        /\ i \in Nat \ {0}
    BY <1>2, <1>3, <1>4, <1>7
  <2>2. ring' = ring
    BY <1>10, <2>1
  <2>3. /\ Holds(mem, cq'[i].bid, o[i], cq'[i].res, p[i])
        /\ Safe(cq, ring, kpos, cq'[i].bid, o[i] + cq'[i].res, i + 1)
    BY <1>10, <2>1 DEF Traced
  <2>4. Safe(cq', ring, kpos, cq'[i].bid, o[i] + cq'[i].res, i)
    BY <2>1, <2>3, PopSafe
  <2> QED BY <2>2, <2>3, <2>4
<1>11. Traced(p, o)'
  BY <1>2, <1>6, <1>7, <1>8, <1>9, <1>10 DEF Traced
<1> QED BY <1>11

\* At the start nothing was sent.
LEMMA StreamInit == Init => StreamInv
<1> SUFFICES ASSUME Init PROVE StreamInv
  OBVIOUS
<1>1. /\ cq = <<>> /\ Len(cq) = 0 /\ DOMAIN cq = {} /\ got = <<>> /\ Len(got) = 0 /\ DOMAIN got = {}
      /\ got \in Seq(Nat) /\ ~running /\ taken = 0 /\ kpos = 0 /\ cur = 0
  BY DEF Init
<1>2. PICK p : p = [i \in 1..1 |-> 0]
  OBVIOUS
<1>3. Traced(p, p)
  BY <1>1, <1>2 DEF Traced
<1> QED BY <1>1, <1>3 DEF StreamInv, StreamIntact, ViewInv

\* A slot stays used up, or being filled, when the kernel posts something else
\* and when another slot is handed back.
LEMMA KeepSafe ==
    ASSUME TypeInv, NEW b, NEW end, NEW i,
           Safe(cq, ring, kpos, b, end, i), UNCHANGED kpos,
           \/ UNCHANGED ring /\ \E e \in Event : cq' = Append(cq, e)
           \/ UNCHANGED cq /\ (UNCHANGED ring \/ \E s \in Bid : ring' = Append(ring, s))
    PROVE  Safe(cq', ring', kpos', b, end, i)
<1>1. CASE \E j \in DOMAIN cq : j >= i /\ cq[j].bid = b /\ Exhausts(cq[j])
  <2>1. PICK j \in DOMAIN cq : j >= i /\ cq[j].bid = b /\ Exhausts(cq[j])
    BY <1>1
  <2>2. j \in DOMAIN cq' /\ cq'[j] = cq[j]
    <3>1. CASE \E e \in Event : cq' = Append(cq, e)
      <4>1. PICK e \in Event : cq' = Append(cq, e)
        BY <3>1
      <4>2. /\ Len(cq) \in Nat /\ DOMAIN cq = 1..Len(cq) /\ DOMAIN cq' = 1..(Len(cq) + 1)
            /\ \A k \in 1..Len(cq) : cq'[k] = cq[k]
        BY <4>1, AppendItems DEF TypeInv
      <4> QED BY <4>2
    <3> QED BY <3>1
  <2> QED BY <2>1, <2>2 DEF Safe
<1>2. CASE ring # <<>> /\ b = Head(ring) /\ end <= kpos
  <2>1. ring' # <<>> /\ Head(ring') = Head(ring)
    <3>1. CASE \E s \in Bid : ring' = Append(ring, s)
      <4>1. PICK s \in Bid : ring' = Append(ring, s)
        BY <3>1
      <4>2. ring \in Seq(Bid) /\ Head(ring) = ring[1] /\ 1 \in 1..Len(ring)
        BY <1>2, TailItems DEF TypeInv
      <4>3. ring' \in Seq(Bid) /\ ring'[1] = ring[1] /\ Len(ring') # 0
        BY <4>1, <4>2, AppendItems
      <4>4. ring' # <<>>
        BY <4>3
      <4> QED BY <4>2, <4>3, <4>4, TailItems
    <3> QED BY <1>2, <3>1
  <2> QED BY <1>2, <2>1 DEF Safe
<1> QED BY <1>1, <1>2 DEF Safe

\* The piece read is the next one of the stream.
LEMMA ReadNext ==
    ASSUME got \in Seq(Nat), StreamIntact, NEW n \in Nat, NEW w,
           w = [i \in 1..n |-> Len(got) + i], got' = got \o w
    PROVE  got' \in Seq(Nat) /\ Len(got') = Len(got) + n /\ StreamIntact'
<1>1. Len(got) \in Nat /\ DOMAIN got = 1..Len(got)
  BY LenProperties
<1>2. w \in Seq(Nat) /\ Len(w) = n
  <2>1. \A i \in 1..n : Len(got) + i \in Nat
    BY <1>1
  <2> QED BY <2>1
<1>3. got' \in Seq(Nat) /\ Len(got') = Len(got) + n
  BY <1>2, ConcatProperties
<1>4. DOMAIN got' = 1..(Len(got) + n)
  BY <1>3, LenProperties
<1>5. ASSUME NEW i \in 1..(Len(got) + n) PROVE got'[i] = i
  <2>1. got'[i] = IF i <= Len(got) THEN got[i] ELSE w[i - Len(got)]
    BY <1>2, <1>3, ConcatProperties
  <2>2. CASE i <= Len(got)
    <3>1. i \in DOMAIN got
      BY <1>1, <2>2
    <3> QED BY <2>1, <2>2, <3>1 DEF StreamIntact
  <2>3. CASE ~(i <= Len(got))
    <3>1. i - Len(got) \in 1..n
      BY <1>1, <2>3
    <3>2. w[i - Len(got)] = Len(got) + (i - Len(got))
      BY <3>1
    <3> QED BY <1>1, <2>1, <2>3, <3>2
  <2> QED BY <2>2, <2>3
<1> QED BY <1>3, <1>4, <1>5 DEF StreamIntact

\* Every step keeps the stream in order.
LEMMA StreamStep == RequestAndSlots /\ StreamInv /\ [Next]_vars => StreamInv'
<1> SUFFICES ASSUME RequestAndSlots, StreamInv, [Next]_vars PROVE StreamInv'
  OBVIOUS
<1> USE DEF peerVars, bufVars, opVars
<1>i. TypeInv /\ EventInv /\ RequestInv /\ SlotInv
  BY DEF RequestAndSlots
<1>a. NrBufs \in Nat \ {0} /\ NoBid \in 0..NrBufs /\ NoBid \notin Bid /\ Bid \subseteq 0..NrBufs /\ 0..NrBufs = Bid \union {NoBid}
  BY ServerAssumption DEF NoBid, Bid
<1>t. /\ taken \in Nat /\ kpos \in Nat /\ ring \in Seq(Bid) /\ cq \in Seq(Event) /\ cur \in Nat /\ replenish \in 0..NrBufs
      /\ view.offset \in Nat /\ view.len \in Nat /\ view.bid \in 0..NrBufs /\ conns \in Nat
  BY <1>i DEF TypeInv
<1>l. Len(cq) \in Nat /\ DOMAIN cq = 1..Len(cq) /\ \A i \in DOMAIN cq : cq[i] \in Event /\ cq[i].res \in Int
  <2>1. Len(cq) \in Nat /\ DOMAIN cq = 1..Len(cq)
    BY <1>t, LenProperties
  <2>2. \A i \in DOMAIN cq : cq[i] \in Event
    BY <1>t, <2>1, ElementOfSeq
  <2>3. \A e \in Event : e.res \in Int
    BY DEF Event
  <2> QED BY <2>1, <2>2, <2>3
<1>g. got \in Seq(Nat) /\ StreamIntact /\ ViewInv /\ Len(got) \in Nat
  BY LenProperties DEF StreamInv
<1>r. PICK pos, off : Traced(pos, off)
  BY DEF StreamInv
<1>f. /\ pos \in [1..(Len(cq) + 1) -> Nat] /\ off \in [1..(Len(cq) + 1) -> Nat]
      /\ pos[1] = Len(got) + (IF running THEN view.len ELSE 0) /\ off[1] = cur
      /\ \A i \in DOMAIN cq : Follows(cq[i], pos[i], off[i], pos[i + 1], off[i + 1])
      /\ \A i \in DOMAIN cq : IsData(cq[i]) => /\ Holds(mem, cq[i].bid, off[i], cq[i].res, pos[i])
                                               /\ Safe(cq, ring, kpos, cq[i].bid, off[i] + cq[i].res, i)
  BY <1>r DEF Traced
<1>n. \A i \in DOMAIN cq : /\ pos[i] \in Nat /\ off[i] \in Nat /\ i \in 1..(Len(cq) + 1)
                           /\ IsData(cq[i]) => cq[i].res \in Nat \ {0} /\ off[i] + cq[i].res \in Nat
  BY <1>f, <1>l DEF IsData
<1>s. ASSUME UNCHANGED <<cq, ring, kpos, taken, mem, cur, got, running, view, replenish>> PROVE StreamInv'
  <2>1. Traced(pos, off)' /\ ViewInv' /\ StreamIntact'
    BY <1>r, <1>g, <1>s DEF Traced, ViewInv, StreamIntact
  <2> QED BY <1>g, <1>s, <2>1 DEF StreamInv
<1>p. ASSUME NEW e \in Event, Post(e), UNCHANGED bufVars, ~IsData(e), IsRecv(e) /\ e.res = -ENOBUFS => kpos = 0
      PROVE  StreamInv'
  <2>1. cq' = Append(cq, e) /\ UNCHANGED <<ring, kpos, taken, mem, cur, got, running, view, replenish>>
    BY <1>p DEF Post
  <2>2. Follows(e, taken, kpos, taken', kpos')
    BY <1>p, <2>1 DEF Follows
  <2>3. ASSUME NEW i \in DOMAIN cq, IsData(cq[i])
        PROVE  /\ Holds(mem', cq[i].bid, off[i], cq[i].res, pos[i])
               /\ Safe(cq', ring', kpos', cq[i].bid, off[i] + cq[i].res, i)
    BY <1>f, <1>i, <2>1, <2>3, KeepSafe
  <2>4. taken' \in Nat /\ kpos' \in Nat
    BY <1>t, <2>1
  <2>5. \E p, o : Traced(p, o)'
    BY <1>i, <1>p, <1>r, <2>1, <2>2, <2>3, <2>4, PostTraced
  <2>6. ViewInv'
    <3>1. Safe(cq, ring, kpos, view.bid, view.offset + view.len, 1)
              => Safe(cq', ring', kpos', view.bid, view.offset + view.len, 1)
      BY <1>i, <2>1, KeepSafe
    <3> QED BY <1>g, <2>1, <3>1 DEF ViewInv
  <2>7. got' \in Seq(Nat) /\ StreamIntact'
    BY <1>g, <2>1 DEF StreamIntact
  <2> QED BY <2>5, <2>6, <2>7 DEF StreamInv
<1>1. CASE Break
  BY <1>1, <1>s DEF Break
<1>2. ASSUME NEW len \in 1..BufSize, NEW more \in BOOLEAN, PostData(len, more) PROVE StreamInv'
  <2>h. PICK h : h = Head(ring)
    OBVIOUS
  <2>1. len \in Nat \ {0} /\ kpos + len <= BufSize /\ ring # <<>> /\ h \in Bid
    BY <1>2, <1>i, <2>h, DataFacts
  <2>2. PICK m \in BOOLEAN : /\ Post(Entry("recv", len, h, m, more))
                             /\ \/ m /\ kpos' = kpos + len /\ UNCHANGED ring
                                \/ ~m /\ kpos' = 0
    BY <1>2, <1>i, <2>h, DataFacts
  <2>3. PICK e : e = Entry("recv", len, h, m, more)
    OBVIOUS
  <2>4. e \in Event /\ e.op = "recv" /\ e.res = len /\ e.bid = h /\ e.bufMore = m /\ IsData(e)
    BY <1>a, <2>1, <2>3 DEF Entry, Event, Op, IsData
  <2>5. /\ cq' = Append(cq, e) /\ taken' = taken + len
        /\ UNCHANGED <<cur, got, running, view, replenish>>
    BY <1>2, <2>2, <2>3 DEF Post, PostData
  <2>6. taken' \in Nat /\ kpos' \in Nat
    BY <1>t, <2>1, <2>2, <2>5
  <2>7. Follows(e, taken, kpos, taken', kpos')
    BY <2>2, <2>4, <2>5 DEF Follows, NextOffset
  <2>8. \A b, end, i : (\E j \in DOMAIN cq : j >= i /\ cq[j].bid = b /\ Exhausts(cq[j])) => b \notin Range(ring)
    BY <1>i DEF SlotInv, Spent
  <2>9. ASSUME NEW i \in DOMAIN cq, IsData(cq[i])
        PROVE  /\ Holds(mem', cq[i].bid, off[i], cq[i].res, pos[i])
               /\ Safe(cq', ring', kpos', cq[i].bid, off[i] + cq[i].res, i)
    <3>1. /\ Holds(mem, cq[i].bid, off[i], cq[i].res, pos[i])
          /\ Safe(cq, ring, kpos, cq[i].bid, off[i] + cq[i].res, i)
          /\ pos[i] \in Nat /\ off[i] \in Nat /\ cq[i].res \in Nat /\ off[i] + cq[i].res \in Nat
          /\ i \in 1..(Len(cq) + 1)
      BY <1>f, <1>n, <2>9
    <3>2. cq[i].bid \notin Range(ring) \/ off[i] + cq[i].res <= kpos
      BY <2>8, <3>1 DEF Safe
    <3>3. Holds(mem', cq[i].bid, off[i], cq[i].res, pos[i])
      BY <1>2, <1>i, <3>1, <3>2, DataKeeps
    <3>4. Safe(cq', ring', kpos', cq[i].bid, off[i] + cq[i].res, i)
      BY <1>2, <1>i, <3>1, DataSafe
    <3> QED BY <3>3, <3>4
  <2>10. Holds(mem', h, kpos, len, taken)
    <3>1. \A i \in 0..(BufSize - 1) : i \in kpos..(kpos + len - 1) => mem'[h][i] = taken + 1 + i - kpos
      <4>1. \A b \in Bid, i \in 0..(BufSize - 1) :
                mem'[b][i] = IF b = Head(ring) /\ i \in kpos..(kpos + len - 1)
                             THEN taken + 1 + i - kpos ELSE mem[b][i]
        BY <1>2, <1>i, DataFacts, Zenon
      <4> QED BY <2>1, <2>h, <4>1
    <3>2. BufSize \in Nat
      BY ServerAssumption
    <3>3. ASSUME NEW k \in 0..(len - 1) PROVE mem'[h][kpos + k] = taken + 1 + k
      <4>1. kpos + k \in 0..(BufSize - 1) /\ kpos + k \in kpos..(kpos + len - 1)
        BY <1>t, <2>1, <3>2
      <4>2. taken + 1 + (kpos + k) - kpos = taken + 1 + k
        BY <1>t, <2>1
      <4> QED BY <3>1, <4>1, <4>2
    <3> QED BY <2>1, <3>3 DEF Holds
  <2>11. Safe(cq', ring', kpos', h, kpos + len, Len(cq) + 1)
    <3>1. CASE m /\ kpos' = kpos + len /\ UNCHANGED ring
      BY <1>t, <2>1, <2>h, <3>1 DEF Safe
    <3>2. CASE ~m
      <4>1. Exhausts(e) /\ e.bid = h
        BY <2>1, <2>4, <3>2 DEF Exhausts
      <4>2. Len(cq) + 1 \in DOMAIN cq' /\ cq'[Len(cq) + 1] = e /\ Len(cq) + 1 >= Len(cq) + 1
        BY <1>l, <1>t, <2>4, <2>5, AppendItems
      <4> QED BY <4>1, <4>2 DEF Safe
    <3> QED BY <2>2, <3>1, <3>2
  <2>12. \E p, o : Traced(p, o)'
    BY <1>i, <1>r, <2>4, <2>5, <2>6, <2>7, <2>9, <2>10, <2>11, PostTraced
  <2>13. ViewInv'
    <3> SUFFICES ASSUME running
                 PROVE  /\ Holds(mem', view.bid, view.offset, view.len, Len(got))
                        /\ view.bid = replenish \/ Safe(cq', ring', kpos', view.bid, view.offset + view.len, 1)
      BY <2>5 DEF ViewInv
    <3>1. /\ Holds(mem, view.bid, view.offset, view.len, Len(got))
          /\ view.bid = replenish \/ Safe(cq, ring, kpos, view.bid, view.offset + view.len, 1)
      BY <1>g DEF ViewInv
    <3>2. view.bid \notin Range(ring) \/ view.offset + view.len <= kpos
      BY <1>i, <2>8, <3>1 DEF Safe, SlotInv
    <3>3. Holds(mem', view.bid, view.offset, view.len, Len(got))
      BY <1>2, <1>g, <1>i, <1>t, <3>1, <3>2, DataKeeps
    <3>4. 1 \in 1..(Len(cq) + 1) /\ view.offset + view.len \in Nat
      BY <1>l, <1>t
    <3>5. Safe(cq, ring, kpos, view.bid, view.offset + view.len, 1)
              => Safe(cq', ring', kpos', view.bid, view.offset + view.len, 1)
      BY <1>2, <1>i, <3>4, DataSafe
    <3> QED BY <3>1, <3>3, <3>5
  <2>14. got' \in Seq(Nat) /\ StreamIntact'
    BY <1>g, <2>5 DEF StreamIntact
  <2> QED BY <2>12, <2>13, <2>14 DEF StreamInv
<1>3. CASE PostNoBufs
  <2>1. PICK e : e = Entry("recv", -ENOBUFS, NoBid, FALSE, FALSE)
    OBVIOUS
  <2>2. e \in Event /\ ~IsData(e)
    BY <1>a, <2>1 DEF Entry, Event, ENOBUFS, Op, IsData
  <2>3. kpos = 0
    BY <1>3, <1>i, <1>t DEF PostNoBufs, SlotInv
  <2> QED BY <1>3, <1>p, <2>1, <2>2, <2>3 DEF PostNoBufs
<1>4. CASE PostEnd
  <2>1. PICK r : r = (IF broken THEN -ECONNRESET ELSE 0)
    OBVIOUS
  <2>2. PICK e : e = Entry("recv", r, NoBid, FALSE, FALSE)
    OBVIOUS
  <2>3. e \in Event /\ ~IsData(e) /\ e.res # -ENOBUFS
    BY <1>a, <2>1, <2>2 DEF Entry, Event, ECONNRESET, ENOBUFS, Op, IsData
  <2> QED BY <1>4, <1>p, <2>1, <2>2, <2>3 DEF PostEnd
<1>5. ASSUME NEW more \in BOOLEAN, PostAccept(more) PROVE StreamInv'
  <2>1. PICK e : e = Entry("accept", conns, NoBid, FALSE, more)
    OBVIOUS
  <2>2. e \in Event /\ ~IsData(e) /\ ~IsRecv(e)
    BY <1>a, <1>t, <2>1 DEF Entry, Event, Op, IsData, IsRecv
  <2> QED BY <1>5, <1>p, <2>1, <2>2 DEF PostAccept
<1>6. CASE PostAcceptError
  <2>1. PICK e : e = Entry("accept", -ENFILE, NoBid, FALSE, FALSE)
    OBVIOUS
  <2>2. e \in Event /\ ~IsData(e) /\ ~IsRecv(e)
    BY <1>a, <2>1 DEF Entry, Event, ENFILE, Op, IsData, IsRecv
  <2> QED BY <1>6, <1>p, <2>1, <2>2 DEF PostAcceptError
<1>o. ASSUME NEW op, Reaping(op)
      PROVE  /\ cq # <<>> /\ 1 \in DOMAIN cq /\ Head(cq) = cq[1] /\ ~running /\ pos[1] = Len(got) /\ off[1] = cur
             /\ Follows(Head(cq), pos[1], off[1], pos[2], off[2]) /\ Head(cq).op = op /\ Head(cq).res \in Int
  <2>1. cq # <<>> /\ ~running /\ Head(cq).op = op /\ Head(cq).res \in Int
    BY <1>i, <1>o, HeadFacts
  <2>2. 1 \in DOMAIN cq /\ Head(cq) = cq[1]
    BY <1>t, <2>1, TailItems
  <2>3. Follows(cq[1], pos[1], off[1], pos[1 + 1], off[1 + 1]) /\ 1 + 1 = 2
    BY <1>f, <2>2
  <2> QED BY <1>f, <1>g, <2>1, <2>2, <2>3
<1>q. ASSUME UNCHANGED <<running, got>>, ~running, \E p, o : Traced(p, o)' PROVE StreamInv'
  BY <1>g, <1>q DEF StreamInv, ViewInv, StreamIntact
<1>7. CASE CompleteAccept
  <2>1. Reaping("accept") /\ cq' = Tail(cq) /\ UNCHANGED <<kpos, taken, mem, cur, running, view, got>>
    BY <1>7 DEF CompleteAccept
  <2>2. ring' = ring \/ conns = 0
    BY <1>7 DEF CompleteAccept, Terminate
  <2>3. conns = 0 => \A i \in DOMAIN cq : ~IsData(cq[i])
    BY <1>i DEF RequestInv, IsData, IsRecv
  <2>4. ~IsData(Head(cq)) /\ ~IsRecv(Head(cq))
    BY <1>o, <2>1 DEF IsData, IsRecv
  <2>5. pos[2] = Len(got) /\ off[2] = cur
    BY <1>o, <2>1, <2>4 DEF Follows
  <2>6. cq # <<>> /\ ~running /\ pos[2] = Len(got') + (IF running' THEN view'.len ELSE 0) /\ off[2] = cur'
    BY <1>g, <1>o, <2>1, <2>5
  <2>7. \E p, o : Traced(p, o)'
    BY <1>i, <1>r, <2>1, <2>2, <2>3, <2>6, PopTraced
  <2> QED BY <1>q, <2>1, <2>6, <2>7
<1>8. CASE CompleteNoBufs
  <2>1. /\ Reaping("recv") /\ Head(cq).res = -ENOBUFS /\ cq' = Tail(cq) /\ cur' = 0
        /\ UNCHANGED <<ring, kpos, taken, mem, running, view, got>>
    BY <1>8 DEF CompleteNoBufs
  <2>2. ~IsData(Head(cq)) /\ IsRecv(Head(cq))
    BY <1>o, <2>1 DEF IsData, IsRecv, ENOBUFS
  <2>3. pos[2] = Len(got) /\ off[2] = 0
    BY <1>o, <2>1, <2>2 DEF Follows
  <2>4. cq # <<>> /\ ~running /\ pos[2] = Len(got') + (IF running' THEN view'.len ELSE 0) /\ off[2] = cur'
    BY <1>g, <1>o, <2>1, <2>3
  <2>5. \E p, o : Traced(p, o)'
    BY <1>i, <1>r, <2>1, <2>4, PopTraced
  <2> QED BY <1>q, <2>1, <2>4, <2>5
<1>9. CASE CompleteEnd
  <2>1. /\ Reaping("recv") /\ Head(cq).res <= 0 /\ Head(cq).res # -ENOBUFS /\ cq' = Tail(cq)
        /\ UNCHANGED <<ring, kpos, taken, mem, cur, running, view, got>>
    BY <1>9 DEF CompleteEnd
  <2>2. ~IsData(Head(cq))
    BY <1>o, <2>1 DEF IsData
  <2>3. pos[2] = Len(got) /\ off[2] = cur
    BY <1>o, <2>1, <2>2 DEF Follows
  <2>4. cq # <<>> /\ ~running /\ pos[2] = Len(got') + (IF running' THEN view'.len ELSE 0) /\ off[2] = cur'
    BY <1>g, <1>o, <2>1, <2>3
  <2>5. \E p, o : Traced(p, o)'
    BY <1>i, <1>r, <2>1, <2>4, PopTraced
  <2> QED BY <1>q, <2>1, <2>4, <2>5
<1>10. CASE CompleteData
  <2>1. /\ Reaping("recv") /\ Head(cq).res > 0 /\ cq' = Tail(cq) /\ running' = TRUE
        /\ view' = [bid |-> Head(cq).bid, offset |-> cur, len |-> Head(cq).res]
        /\ cur' = NextOffset(cur, Head(cq))
        /\ replenish' = IF Head(cq).bufMore THEN replenish ELSE Head(cq).bid
        /\ UNCHANGED <<ring, kpos, taken, mem, got>>
    BY <1>10 DEF CompleteData
  <2>2. IsData(Head(cq)) /\ view'.bid = Head(cq).bid /\ view'.offset = cur /\ view'.len = Head(cq).res
    BY <1>o, <2>1 DEF IsData
  <2>3. pos[2] = Len(got) + Head(cq).res /\ off[2] = NextOffset(cur, Head(cq))
    BY <1>o, <2>1, <2>2 DEF Follows
  <2>4. cq # <<>> /\ pos[2] = Len(got') + (IF running' THEN view'.len ELSE 0) /\ off[2] = cur'
    BY <1>o, <2>1, <2>2, <2>3
  <2>5. \E p, o : Traced(p, o)'
    BY <1>i, <1>r, <2>1, <2>4, PopTraced
  <2>6. /\ Holds(mem, Head(cq).bid, cur, Head(cq).res, Len(got))
        /\ Safe(cq, ring, kpos, Head(cq).bid, cur + Head(cq).res, 1)
    BY <1>f, <1>o, <2>1, <2>2
  <2>7. Head(cq).bid = replenish' \/ Safe(cq', ring, kpos, Head(cq).bid, cur + Head(cq).res, 1)
    <3>1. CASE ~Head(cq).bufMore
      BY <2>1, <3>1
    <3>2. CASE Head(cq).bufMore
      <4>1. ~Exhausts(cq[1])
        BY <1>o, <2>1, <3>2 DEF Exhausts
      <4>2. \A j \in DOMAIN cq : j >= 1 /\ Exhausts(cq[j]) => j >= 1 + 1
        BY <1>l, <4>1
      <4>3. Safe(cq, ring, kpos, Head(cq).bid, cur + Head(cq).res, 1 + 1)
        BY <2>6, <4>2 DEF Safe
      <4> QED BY <1>i, <2>1, <2>4, <4>3, PopSafe
    <3> QED BY <3>1, <3>2
  <2>8. ViewInv'
    BY <2>1, <2>2, <2>6, <2>7 DEF ViewInv
  <2>9. got' \in Seq(Nat) /\ StreamIntact'
    BY <1>g, <2>1 DEF StreamIntact
  <2> QED BY <2>5, <2>8, <2>9 DEF StreamInv
<1>11. CASE Read
  <2>1. /\ running /\ running' = FALSE /\ ring' = _M_replenish(ring, replenish)
        /\ got' = got \o [i \in 1..view.len |-> mem[view.bid][view.offset + i - 1]]
        /\ UNCHANGED <<kpos, taken, mem, cq, cur>>
    BY <1>11 DEF Read
  <2>2. Holds(mem, view.bid, view.offset, view.len, Len(got))
    BY <1>g, <2>1 DEF ViewInv
  <2>3. PICK n \in Nat : n = view.len
    BY <1>t
  <2>4. PICK w : w = [i \in 1..n |-> mem[view.bid][view.offset + i - 1]]
    OBVIOUS
  <2>5. \A i \in 1..n : mem[view.bid][view.offset + i - 1] = Len(got) + i
    <3> SUFFICES ASSUME NEW i \in 1..n PROVE mem[view.bid][view.offset + i - 1] = Len(got) + i
      OBVIOUS
    <3>1. i - 1 \in 0..(n - 1) /\ view.offset + (i - 1) = view.offset + i - 1 /\ Len(got) + 1 + (i - 1) = Len(got) + i
      BY <1>g, <1>t
    <3>2. mem[view.bid][view.offset + (i - 1)] = Len(got) + 1 + (i - 1)
      BY <2>2, <2>3, <3>1 DEF Holds
    <3> QED BY <3>1, <3>2
  <2>6. w = [i \in 1..n |-> Len(got) + i]
    BY <2>4, <2>5
  <2>7. got' = got \o w
    BY <2>1, <2>3, <2>4
  <2>8. got' \in Seq(Nat) /\ Len(got') = Len(got) + n /\ StreamIntact'
    BY <1>g, <2>6, <2>7, ReadNext
  <2>9. UNCHANGED ring \/ \E s \in Bid : ring' = Append(ring, s)
    BY <1>a, <1>t, <2>1 DEF _M_replenish
  <2>10. ASSUME NEW i \in DOMAIN cq, IsData(cq[i])
         PROVE  Safe(cq', ring', kpos', cq[i].bid, off[i] + cq[i].res, i)
    BY <1>f, <1>i, <2>1, <2>9, <2>10, KeepSafe
  <2>11. pos[1] = Len(got') + (IF running' THEN view'.len ELSE 0)
    BY <1>f, <2>1, <2>3, <2>8
  <2>12. Traced(pos, off)'
    BY <1>r, <2>1, <2>10, <2>11 DEF Traced
  <2> QED BY <2>1, <2>8, <2>12 DEF StreamInv, ViewInv
<1>12. CASE Submit
  BY <1>12, <1>s DEF Submit
<1>13. CASE UNCHANGED vars
  BY <1>13, <1>s DEF vars
<1> QED BY <1>1, <1>2, <1>3, <1>4, <1>5, <1>6, <1>7, <1>8, <1>9, <1>10, <1>11, <1>12, <1>13 DEF Next, KernelData, KernelAccept, LoopStep

\* The receiver reads what the peer sent, every unit once and in order,
\* whatever pieces the kernel makes of it and wherever it ends the request.
THEOREM StreamIntactHolds == Spec => []StreamIntact
<1>1. RequestAndSlots /\ StreamInv /\ [Next]_vars => StreamInv'
  BY StreamStep
<1>2. StreamInv => StreamIntact
  BY DEF StreamInv
<1> QED BY <1>1, <1>2, StreamInit, RequestAndSlotsHold, PTL DEF Spec
=============================================================================
