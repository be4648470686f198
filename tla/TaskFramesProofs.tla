--------------------------- MODULE TaskFramesProofs ---------------------------
(***************************************************************************)
(* Proofs about TaskFrames for any number of roots, any sizes of frames     *)
(* and chunks and any depth of calls.                                       *)
(***************************************************************************)
EXTENDS TaskFrames, SequenceFacts

Place == [chunk : Nat, at : Nat, size : Nat, savedCur : Nat, savedBump : Nat]
FrameType == [place : Place, owner : Alloc, top : BOOLEAN, kept : BOOLEAN]
Arena == [caps : Seq(Nat), cur : Nat, bump : Nat, next : Nat]

\* the __k_tls_alloc of the loop: restored when the running root is suspended
Base == IF running = NoRoot THEN tls ELSE prev

\* an allocator that allocates in one of its chunks
Sound(A) == A \in Arena /\ A.cur \in 1..Len(A.caps)

FramesType ==
    /\ fault \in BOOLEAN /\ running \in Root \union {NoRoot}
    /\ stack \in [Root -> Seq(FrameType)]
    /\ \A r \in Root : Len(stack[r]) <= MaxDepth
    /\ alloc = [a \in DOMAIN alloc |-> alloc[a]] /\ DOMAIN alloc \subseteq Alloc
    /\ \A a \in DOMAIN alloc : Sound(alloc[a])
    /\ tls \in DOMAIN alloc \union {NULL}

\* frames kept over a suspension lie below those called since; those of a root
\* that does not run were all kept, and the first frame of every root
KeptInv ==
    \A r \in Root :
        /\ \A i, j \in DOMAIN stack[r] : i < j /\ stack[r][j].kept => stack[r][i].kept
        /\ \A i \in DOMAIN stack[r] : i = 1 \/ r # running => stack[r][i].kept

\* the first frames of all roots, and no others, share the loop's allocator; any
\* other frame is a top frame, the first one called since its root was resumed,
\* or shares the allocator of the frame that called it
OwnerInv ==
    /\ Base \in DOMAIN alloc \union {NULL} /\ (running = NoRoot => prev = NULL)
    /\ \A r \in Root : \A i \in DOMAIN stack[r] :
           /\ stack[r][i].owner \in DOMAIN alloc
           /\ stack[r][i].owner = Base <=> i = 1
           /\ i > 1 /\ stack[r][i].top => stack[r][i - 1].kept
           /\ i > 1 /\ ~stack[r][i].top => /\ stack[r][i].owner = stack[r][i - 1].owner
                                           /\ stack[r][i - 1].kept => stack[r][i].kept

\* no other two frames of different roots share one, and a top frame is the
\* first of its allocator
ApartInv ==
    /\ \A r, s \in Root : \A i \in DOMAIN stack[r], j \in DOMAIN stack[s] :
           stack[r][i].owner = stack[s][j].owner =>
               /\ i # 1 => r = s
               /\ stack[r][i].top /\ stack[s][j].top => r = s /\ i = j
    /\ \A r \in Root : \A i, j \in DOMAIN stack[r] :
           j < i /\ stack[r][i].top => stack[r][j].owner # stack[r][i].owner
    /\ \A a \in DOMAIN alloc : \E r \in Root : \E i \in DOMAIN stack[r] :
           stack[r][i].owner = a /\ stack[r][i].top

\* frame place p lies before position b of chunk c
Below(p, c, b) == p.chunk < c \/ (p.chunk = c /\ p.at + p.size <= b)

\* it lies in a chunk of allocator A, before what A gives out next
Placed(p, A) ==
    /\ p.chunk \in 1..Len(A.caps) /\ p.at + p.size <= A.caps[p.chunk]
    /\ Below(p, A.cur, A.bump) /\ p.savedCur \in 1..Len(A.caps)

\* every frame lies in its allocator, and the frames before it on the same one
\* before the position that its prefix remembers
PlaceInv ==
    \A r \in Root : \A i \in DOMAIN stack[r] :
        /\ Placed(stack[r][i].place, alloc[stack[r][i].owner])
        /\ i > 1 => \A j \in DOMAIN stack[r] : j < i /\ stack[r][j].owner = stack[r][i].owner
               => Below(stack[r][j].place, stack[r][i].place.savedCur, stack[r][i].place.savedBump)

\* and shares no byte with another
DisjointInv ==
    \A r, s \in Root : \A i \in DOMAIN stack[r], j \in DOMAIN stack[s] :
        stack[r][i].owner = stack[s][j].owner /\ <<r, i>> # <<s, j>> =>
            Apart(stack[r][i].place, stack[s][j].place)

FramesInv ==
    /\ FramesType
    /\ ~fault => KeptInv /\ OwnerInv /\ ApartInv /\ OwnAllocator
                     /\ (running # NoRoot => stack[running] # <<>>)
LayoutInv == ~fault => PlaceInv /\ DisjointInv

-----------------------------------------------------------------------------
(* The allocator.                                                            *)

\* The first chunk with room is one of them.
LEMMA MinIn ==
    ASSUME NEW S \in SUBSET Nat, S # {}
    PROVE  Min(S) \in S /\ \A m \in S : Min(S) <= m
BY LeastNumber DEF Min

\* A new chunk is at least as large as the request and as the one before.
LEMMA ChunkFacts ==
    ASSUME NEW A \in Arena, NEW n \in Nat
    PROVE  LET B == _M_allocate_chunk(A, n)
           IN  /\ B \in Arena /\ B.cur = A.cur /\ B.bump = A.bump /\ Len(B.caps) = Len(A.caps) + 1
               /\ \A c \in 1..Len(A.caps) : B.caps[c] = A.caps[c]
               /\ B.caps[Len(A.caps) + 1] >= n /\ B.caps[Len(A.caps) + 1] >= A.next
               /\ B.next = 2 * B.caps[Len(A.caps) + 1]
<1>1. A.caps \in Seq(Nat) /\ A.cur \in Nat /\ A.bump \in Nat /\ A.next \in Nat
  BY DEF Arena
<1>2. PICK k : k = Max({A.next, n})
  OBVIOUS
<1>3. k \in Nat /\ k >= n /\ k >= A.next
  <2>1. \E x \in {A.next, n} : \A y \in {A.next, n} : x >= y
    <3>1. CASE A.next >= n
      BY <1>1, <3>1
    <3>2. CASE ~(A.next >= n)
      BY <1>1, <3>2
    <3> QED BY <3>1, <3>2
  <2> QED BY <1>1, <1>2, <2>1 DEF Max
<1>4. PICK B : B = _M_allocate_chunk(A, n)
  OBVIOUS
<1>5. B = [A EXCEPT !.caps = Append(@, k), !.next = 2 * k]
  BY <1>2, <1>4 DEF _M_allocate_chunk
<1>6. B.caps = Append(A.caps, k) /\ B.next = 2 * k /\ B.cur = A.cur /\ B.bump = A.bump
  BY <1>5 DEF Arena
<1>7. /\ Append(A.caps, k) \in Seq(Nat) /\ Len(Append(A.caps, k)) = Len(A.caps) + 1
      /\ Append(A.caps, k)[Len(A.caps) + 1] = k
      /\ \A c \in 1..Len(A.caps) : Append(A.caps, k)[c] = A.caps[c]
  BY <1>1, <1>3, AppendItems
<1>8. B \in Arena
  <2>1. Append(A.caps, k) \in Seq(Nat) /\ 2 * k \in Nat
    BY <1>3, <1>7
  <2> QED BY <1>5, <2>1 DEF Arena
<1> QED BY <1>3, <1>4, <1>6, <1>7, <1>8

\* The allocator after _M_push_stack_frame has found or made a chunk with room.
LEMMA GrownFacts ==
    ASSUME NEW A, Sound(A), NEW n \in Nat \ {0}
    PROVE  LET G == Grown(A, n)
           IN  /\ Sound(G) /\ G.cur = A.cur /\ G.bump = A.bump /\ Len(A.caps) <= Len(G.caps)
               /\ \A c \in 1..Len(A.caps) : G.caps[c] = A.caps[c]
               /\ Room(G, n) # {}
<1>1. A \in Arena /\ A.cur \in 1..Len(A.caps) /\ Len(A.caps) \in Nat
  BY LenProperties DEF Sound, Arena
<1>2. PICK B : B = _M_allocate_chunk(A, n)
  OBVIOUS
<1>3. /\ B \in Arena /\ B.cur = A.cur /\ B.bump = A.bump /\ Len(B.caps) = Len(A.caps) + 1
      /\ \A c \in 1..Len(A.caps) : B.caps[c] = A.caps[c]
      /\ B.caps[Len(A.caps) + 1] >= n /\ B.next = 2 * B.caps[Len(A.caps) + 1]
  BY <1>1, <1>2, ChunkFacts
<1>4. PICK C : C = _M_allocate_chunk(B, n)
  OBVIOUS
<1>5. /\ C \in Arena /\ C.cur = A.cur /\ C.bump = A.bump /\ Len(C.caps) = Len(A.caps) + 2
      /\ \A c \in 1..Len(B.caps) : C.caps[c] = B.caps[c]
      /\ C.caps[Len(A.caps) + 2] >= B.next
  <2>1. Len(B.caps) + 1 = Len(A.caps) + 2
    BY <1>1, <1>3
  <2> QED BY <1>3, <1>4, <2>1, ChunkFacts
<1>6. Room(C, n) # {}
  <2>1. PICK k : k = Len(A.caps) + 2
    OBVIOUS
  <2>2. k \in C.cur..Len(C.caps) /\ k # C.cur
    BY <1>1, <1>5, <2>1
  <2>3. B.caps[Len(A.caps) + 1] \in Nat /\ C.caps[k] \in Nat
    <3>1. B.caps \in Seq(Nat) /\ C.caps \in Seq(Nat) /\ Len(A.caps) + 1 \in 1..Len(B.caps) /\ k \in 1..Len(C.caps)
      <4>1. B.caps \in Seq(Nat) /\ C.caps \in Seq(Nat)
        BY <1>3, <1>5 DEF Arena
      <4> QED BY <1>1, <1>3, <1>5, <2>1, <4>1
    <3> QED BY <3>1, ElementOfSeq
  <2>4. 0 + 1 + n <= C.caps[k]
    BY <1>3, <1>5, <2>1, <2>3
  <2>5. Fits(C, k, n)
    BY <2>2, <2>4 DEF Fits
  <2> QED BY <2>2, <2>5 DEF Room
<1>7. CASE Room(A, n) # {}
  BY <1>1, <1>7 DEF Grown, Sound
<1>8. CASE Room(A, n) = {} /\ Room(B, n) # {}
  <2>1. Grown(A, n) = B
    BY <1>2, <1>8 DEF Grown
  <2>2. B.cur \in 1..Len(B.caps) /\ Len(A.caps) <= Len(B.caps)
    BY <1>1, <1>3
  <2> QED BY <1>3, <1>8, <2>1, <2>2 DEF Sound
<1>9. CASE Room(A, n) = {} /\ Room(B, n) = {}
  <2>1. Grown(A, n) = C
    BY <1>2, <1>4, <1>9 DEF Grown
  <2>2. C.cur \in 1..Len(C.caps) /\ Len(A.caps) <= Len(C.caps)
    BY <1>1, <1>5
  <2>3. \A c \in 1..Len(A.caps) : C.caps[c] = A.caps[c]
    <3>1. \A c \in 1..Len(A.caps) : c \in 1..Len(B.caps)
      BY <1>1, <1>3
    <3> QED BY <1>3, <1>5, <3>1
  <2> QED BY <1>5, <1>6, <2>1, <2>2, <2>3 DEF Sound
<1> QED BY <1>7, <1>8, <1>9

\* Before its first frame an allocator gets a chunk; otherwise nothing changes.
LEMMA StartedFacts ==
    ASSUME NEW A, A = Fresh \/ Sound(A), NEW n \in Nat \ {0}
    PROVE  LET S == Started(A, n)
           IN  Sound(S) /\ (Sound(A) => S = A)
<1>1. CASE Sound(A)
  <2>1. A.cur # 0
    BY <1>1, LenProperties DEF Sound, Arena
  <2> QED BY <1>1, <2>1 DEF Started
<1>2. CASE A = Fresh
  <2>1. A \in Arena /\ A.cur = 0 /\ Len(A.caps) = 0
    BY <1>2, FramesAssumption DEF Fresh, Arena
  <2>2. PICK B : B = _M_allocate_chunk(A, n)
    OBVIOUS
  <2>3. B \in Arena /\ Len(B.caps) = 1
    <3>1. B \in Arena /\ Len(B.caps) = Len(A.caps) + 1
      BY <2>1, <2>2, ChunkFacts
    <3> QED BY <2>1, <3>1
  <2>4. PICK S : S = [B EXCEPT !.cur = 1]
    OBVIOUS
  <2>5. S \in Arena /\ S.cur = 1 /\ S.caps = B.caps
    BY <2>3, <2>4 DEF Arena
  <2>6. Sound(S) /\ ~Sound(A)
    <3>1. S.cur \in 1..Len(S.caps)
      <4>1. Len(S.caps) = 1
        BY <2>3, <2>5
      <4> QED BY <2>5, <4>1
    <3>2. ~(A.cur \in 1..Len(A.caps))
      BY <2>1
    <3> QED BY <2>5, <3>1, <3>2 DEF Sound
  <2>7. Started(A, n) = S
    BY <2>1, <2>2, <2>4 DEF Started
  <2> QED BY <2>6, <2>7
<1> QED BY <1>1, <1>2

\* What _M_push_stack_frame gives out lies in a chunk, behind what the allocator
\* gave out before, and is what it gives out next begins behind.
LEMMA PushFacts ==
    ASSUME NEW A, A = Fresh \/ Sound(A), NEW n \in Nat \ {0}
    PROVE  LET B == _M_push_stack_frame(A, n).alloc
               p == _M_push_stack_frame(A, n).frame
           IN  /\ Sound(B) /\ p \in Place /\ p.size = n
               /\ p.chunk = B.cur /\ p.at + p.size = B.bump /\ p.at + p.size <= B.caps[p.chunk]
               /\ p.savedCur \in 1..Len(B.caps)
               /\ Sound(A) => /\ Len(A.caps) <= Len(B.caps) /\ \A c \in 1..Len(A.caps) : B.caps[c] = A.caps[c]
                              /\ p.savedCur = A.cur /\ p.savedBump = A.bump
                              /\ p.chunk > A.cur \/ (p.chunk = A.cur /\ p.at = A.bump)
<1>1. PICK S : S = Started(A, n)
  OBVIOUS
<1>2. Sound(S) /\ (Sound(A) => S = A)
  BY <1>1, StartedFacts
<1>3. PICK G : G = Grown(S, n)
  OBVIOUS
<1>4. /\ Sound(G) /\ G.cur = S.cur /\ G.bump = S.bump /\ Len(S.caps) <= Len(G.caps)
      /\ \A c \in 1..Len(S.caps) : G.caps[c] = S.caps[c]
      /\ Room(G, n) # {}
  BY <1>2, <1>3, GrownFacts
<1>5. /\ G \in Arena /\ G.cur \in Nat /\ G.bump \in Nat /\ G.caps \in Seq(Nat) /\ Len(G.caps) \in Nat /\ G.next \in Nat
      /\ S \in Arena /\ S.cur \in 1..Len(S.caps) /\ S.bump \in Nat /\ Len(S.caps) \in Nat /\ S.caps \in Seq(Nat)
      /\ G.cur \in 1..Len(G.caps)
  BY <1>2, <1>4, LenProperties DEF Sound, Arena
<1>6. PICK c : c = Min(Room(G, n))
  OBVIOUS
<1>7. c \in Nat /\ c \in G.cur..Len(G.caps) /\ Fits(G, c, n)
  <2>1. Room(G, n) \in SUBSET Nat
    BY <1>5 DEF Room
  <2>2. c \in Room(G, n)
    BY <1>4, <1>6, <2>1, MinIn
  <2> QED BY <1>5, <2>2 DEF Room
<1>8. PICK at : at = IF c = G.cur THEN G.bump ELSE 0
  OBVIOUS
<1>9. at \in Nat /\ at + 1 + n <= G.caps[c] /\ G.caps[c] \in Nat
  <2>1. c \in 1..Len(G.caps)
    BY <1>5, <1>7
  <2>2. G.caps[c] \in Nat
    BY <1>5, <2>1, ElementOfSeq
  <2> QED BY <1>5, <1>7, <1>8, <2>2 DEF Fits
<1>10. PICK B : B = [G EXCEPT !.cur = c, !.bump = at + n]
  OBVIOUS
<1>11. PICK p : p = [chunk |-> c, at |-> at, size |-> n, savedCur |-> S.cur, savedBump |-> S.bump]
  OBVIOUS
<1>12. _M_push_stack_frame(A, n).alloc = B /\ _M_push_stack_frame(A, n).frame = p
  BY <1>1, <1>3, <1>6, <1>8, <1>10, <1>11 DEF _M_push_stack_frame
<1>13. B \in Arena /\ B.cur = c /\ B.bump = at + n /\ B.caps = G.caps
  <2>1. at + n \in Nat
    BY <1>9
  <2>2. G \in [caps : Seq(Nat), cur : Nat, bump : Nat, next : Nat]
    BY <1>5 DEF Arena
  <2>3. B \in [caps : Seq(Nat), cur : Nat, bump : Nat, next : Nat]
    BY <1>7, <1>10, <2>1, <2>2
  <2>4. B.cur = c /\ B.bump = at + n /\ B.caps = G.caps
    BY <1>10, <2>2
  <2> QED BY <2>3, <2>4 DEF Arena
<1>14. p \in Place /\ p.chunk = c /\ p.at = at /\ p.size = n /\ p.savedCur = S.cur /\ p.savedBump = S.bump
  BY <1>5, <1>7, <1>9, <1>11 DEF Place
<1>15. Sound(B)
  BY <1>5, <1>7, <1>13 DEF Sound
<1>16. at + n <= B.caps[c] /\ S.cur \in 1..Len(B.caps)
  <2>1. at + n <= G.caps[c]
    BY <1>9
  <2> QED BY <1>4, <1>5, <1>13, <2>1
<1>17. c > S.cur \/ (c = S.cur /\ at = S.bump)
  BY <1>4, <1>5, <1>7, <1>8
<1>18. Len(S.caps) <= Len(B.caps) /\ \A d \in 1..Len(S.caps) : B.caps[d] = S.caps[d]
  BY <1>4, <1>13
<1> QED BY <1>2, <1>12, <1>13, <1>14, <1>15, <1>16, <1>17, <1>18


\* _M_pop_stack_frame puts the allocator back where it stood before the frame.
LEMMA PopFacts ==
    ASSUME NEW A, Sound(A), NEW p \in Place, p.savedCur \in 1..Len(A.caps)
    PROVE  LET B == _M_pop_stack_frame(A, p)
           IN  Sound(B) /\ B.cur = p.savedCur /\ B.bump = p.savedBump /\ B.caps = A.caps
<1>1. A \in Arena /\ p.savedCur \in Nat /\ p.savedBump \in Nat
  BY DEF Sound, Place
<1>2. PICK B : B = [A EXCEPT !.cur = p.savedCur, !.bump = p.savedBump]
  OBVIOUS
<1>3. B \in Arena /\ B.cur = p.savedCur /\ B.bump = p.savedBump /\ B.caps = A.caps
  BY <1>1, <1>2 DEF Arena
<1>4. B.cur \in 1..Len(B.caps)
  BY <1>3
<1> QED BY <1>2, <1>3, <1>4 DEF _M_pop_stack_frame, Sound

-----------------------------------------------------------------------------
(* What operator new and delete do to the stacks.                            *)

\* the stack of root r grows by f
Pushes(r, f) ==
    /\ stack' \in [Root -> Seq(FrameType)] /\ Len(stack'[r]) = Len(stack[r]) + 1
    /\ \A s \in Root : s # r => stack'[s] = stack[s]
    /\ \A s \in Root : \A i \in DOMAIN stack[s] : i \in DOMAIN stack'[s] /\ stack'[s][i] = stack[s][i]
    /\ \A s \in Root : \A i \in DOMAIN stack'[s] :
           i \in DOMAIN stack[s] \/ (s = r /\ i = Len(stack[r]) + 1)
    /\ Len(stack[r]) + 1 \in DOMAIN stack'[r] /\ stack'[r][Len(stack[r]) + 1] = f

\* the stack of root r loses its last frame
Pops(r) ==
    /\ stack' \in [Root -> Seq(FrameType)] /\ Len(stack'[r]) = Len(stack[r]) - 1
    /\ \A s \in Root : s # r => stack'[s] = stack[s]
    /\ \A s \in Root : \A i \in DOMAIN stack'[s] :
           i \in DOMAIN stack[s] /\ stack'[s][i] = stack[s][i] /\ (s = r => i < Len(stack[r]))
    /\ \A s \in Root : \A i \in DOMAIN stack[s] :
           i \in DOMAIN stack'[s] \/ (s = r /\ i = Len(stack[r]))

\* Positions of frames.
LEMMA StackFacts ==
    ASSUME FramesType, NEW r \in Root
    PROVE  /\ stack[r] \in Seq(FrameType) /\ Len(stack[r]) \in Nat /\ DOMAIN stack[r] = 1..Len(stack[r])
           /\ stack[r] = <<>> <=> Len(stack[r]) = 0
           /\ \A i \in DOMAIN stack[r] : i \in Nat /\ i >= 1 /\ i <= Len(stack[r]) /\ stack[r][i] \in FrameType
<1>1. stack[r] \in Seq(FrameType)
  BY DEF FramesType
<1>2. Len(stack[r]) \in Nat /\ DOMAIN stack[r] = 1..Len(stack[r])
  BY <1>1, LenProperties
<1>3. stack[r] = <<>> <=> Len(stack[r]) = 0
  BY <1>1, EmptySeq
<1>4. \A i \in 1..Len(stack[r]) : stack[r][i] \in FrameType
  BY <1>1, ElementOfSeq
<1> QED BY <1>1, <1>2, <1>3, <1>4

\* Appending a frame.
LEMMA PushesFacts ==
    ASSUME FramesType, NEW r \in Root, NEW f \in FrameType,
           stack' = [stack EXCEPT ![r] = Append(@, f)]
    PROVE  Pushes(r, f)
<1>1. stack[r] \in Seq(FrameType) /\ stack \in [Root -> Seq(FrameType)] /\ Len(stack[r]) \in Nat
  BY StackFacts DEF FramesType
<1>2. PICK q : q = Append(stack[r], f)
  OBVIOUS
<1>3. /\ q \in Seq(FrameType) /\ Len(q) = Len(stack[r]) + 1 /\ q[Len(stack[r]) + 1] = f
      /\ \A i \in 1..Len(stack[r]) : q[i] = stack[r][i]
  BY <1>1, <1>2, AppendItems
<1>4. stack' = [stack EXCEPT ![r] = q]
  BY <1>2
<1>5. stack' \in [Root -> Seq(FrameType)] /\ stack'[r] = q /\ \A s \in Root : s # r => stack'[s] = stack[s]
  BY <1>1, <1>3, <1>4
<1>6. DOMAIN q = 1..(Len(stack[r]) + 1) /\ DOMAIN stack[r] = 1..Len(stack[r])
  BY <1>1, <1>3, LenProperties
<1>7. /\ \A i \in DOMAIN stack[r] : i \in DOMAIN q /\ q[i] = stack[r][i]
      /\ \A i \in DOMAIN q : i \in DOMAIN stack[r] \/ i = Len(stack[r]) + 1
      /\ Len(stack[r]) + 1 \in DOMAIN q
  BY <1>1, <1>3, <1>6
<1> QED BY <1>3, <1>5, <1>7 DEF Pushes

\* Removing the last frame.
LEMMA PopsFacts ==
    ASSUME FramesType, NEW r \in Root, Len(stack[r]) > 1,
           stack' = [stack EXCEPT ![r] = SubSeq(@, 1, Len(@) - 1)]
    PROVE  Pops(r)
<1>1. stack[r] \in Seq(FrameType) /\ stack \in [Root -> Seq(FrameType)] /\ Len(stack[r]) \in Nat
  BY StackFacts DEF FramesType
<1>2. PICK q : q = SubSeq(stack[r], 1, Len(stack[r]) - 1)
  OBVIOUS
<1>3. /\ q \in Seq(FrameType) /\ Len(q) = Len(stack[r]) - 1
      /\ \A i \in 1..(Len(stack[r]) - 1) : q[i] = stack[r][i]
  BY <1>1, <1>2
<1>4. stack' = [stack EXCEPT ![r] = q]
  BY <1>2
<1>5. stack' \in [Root -> Seq(FrameType)] /\ stack'[r] = q /\ \A s \in Root : s # r => stack'[s] = stack[s]
  BY <1>1, <1>3, <1>4
<1>6. DOMAIN q = 1..(Len(stack[r]) - 1) /\ DOMAIN stack[r] = 1..Len(stack[r])
  BY <1>1, <1>3, LenProperties
<1>7. /\ \A i \in DOMAIN q : i \in DOMAIN stack[r] /\ q[i] = stack[r][i] /\ i < Len(stack[r])
      /\ \A i \in DOMAIN stack[r] : i \in DOMAIN q \/ i = Len(stack[r])
  BY <1>1, <1>3, <1>6
<1> QED BY <1>3, <1>5, <1>7 DEF Pops

\* A suspension marks the frames of the running root, and changes nothing else of them.
LEMMA SuspendFacts ==
    ASSUME FramesType, NEW r \in Root,
           \A s \in Root : \A i \in DOMAIN stack[s] : s # r => stack[s][i].kept,
           stack' = [stack EXCEPT ![r] = [i \in DOMAIN @ |-> [@[i] EXCEPT !.kept = TRUE]]]
    PROVE  /\ stack' \in [Root -> Seq(FrameType)]
           /\ \A s \in Root : DOMAIN stack'[s] = DOMAIN stack[s] /\ Len(stack'[s]) = Len(stack[s])
           /\ \A s \in Root : \A i \in DOMAIN stack[s] :
                  /\ stack'[s][i].owner = stack[s][i].owner /\ (stack'[s][i].top <=> stack[s][i].top)
                  /\ stack'[s][i].place = stack[s][i].place /\ stack'[s][i].kept
<1>1. stack[r] \in Seq(FrameType) /\ stack \in [Root -> Seq(FrameType)] /\ Len(stack[r]) \in Nat
      /\ DOMAIN stack[r] = 1..Len(stack[r]) /\ \A i \in DOMAIN stack[r] : stack[r][i] \in FrameType
  BY StackFacts DEF FramesType
<1>2. PICK q : q = [i \in DOMAIN stack[r] |-> [stack[r][i] EXCEPT !.kept = TRUE]]
  OBVIOUS
<1>3. \A i \in DOMAIN stack[r] :
          /\ q[i] = [stack[r][i] EXCEPT !.kept = TRUE] /\ q[i] \in FrameType
          /\ q[i].owner = stack[r][i].owner /\ q[i].top = stack[r][i].top
          /\ q[i].place = stack[r][i].place /\ q[i].kept
  <2> TAKE i \in DOMAIN stack[r]
  <2>1. q[i] = [stack[r][i] EXCEPT !.kept = TRUE] /\ stack[r][i] \in FrameType
    BY <1>1, <1>2
  <2> QED BY <2>1 DEF FrameType
<1>4. q \in Seq(FrameType) /\ Len(q) = Len(stack[r]) /\ DOMAIN q = DOMAIN stack[r]
  <2>1. q \in [1..Len(stack[r]) -> FrameType]
    BY <1>1, <1>2, <1>3
  <2> QED BY <1>1, <2>1
<1>5. stack' = [stack EXCEPT ![r] = q]
  BY <1>2
<1>6. stack' \in [Root -> Seq(FrameType)] /\ stack'[r] = q /\ \A s \in Root : s # r => stack'[s] = stack[s]
  BY <1>1, <1>4, <1>5
<1> QED BY <1>3, <1>4, <1>6

\* the new frame of root r lies at p on allocator a, which is now B
Allocates(r, n, kept, a, p, B) ==
    /\ a = NewAlloc /\ a # NULL /\ IF tls = NULL THEN a \notin DOMAIN alloc ELSE a = tls
    /\ Pushes(r, [place |-> p, owner |-> a, top |-> tls = NULL, kept |-> kept])
    /\ alloc' = [b \in DOMAIN alloc' |-> alloc'[b]]
    /\ DOMAIN alloc' = DOMAIN alloc \union {a} /\ alloc'[a] = B
    /\ \A b \in DOMAIN alloc : b # a => alloc'[b] = alloc[b]
    /\ Sound(B) /\ p.size = n
    /\ p.chunk = B.cur /\ p.at + p.size = B.bump /\ p.at + p.size <= B.caps[p.chunk]
    /\ p.savedCur \in 1..Len(B.caps)
    /\ tls # NULL =>
           /\ Len(alloc[a].caps) <= Len(B.caps)
           /\ \A c \in 1..Len(alloc[a].caps) : B.caps[c] = alloc[a].caps[c]
           /\ p.savedCur = alloc[a].cur /\ p.savedBump = alloc[a].bump
           /\ p.chunk > alloc[a].cur \/ (p.chunk = alloc[a].cur /\ p.at = alloc[a].bump)

\* operator new puts the frame on an allocator of its own if there is none, and
\* on __k_tls_alloc otherwise.
LEMMA NewFacts ==
    ASSUME FramesType, NEW r \in Root, NEW n \in Sizes, NEW kept \in BOOLEAN, New(r, n, kept)
    PROVE  \E a \in Alloc : \E p \in Place : \E B : Allocates(r, n, kept, a, p, B)
<1>1. /\ DOMAIN alloc \subseteq Alloc /\ Alloc \subseteq Nat \ {NULL} /\ n \in Nat \ {0}
      /\ tls \in DOMAIN alloc \union {NULL} /\ \A a \in DOMAIN alloc : Sound(alloc[a])
  BY FramesAssumption DEF FramesType
<1>2. PICK a : a = NewAlloc
  OBVIOUS
<1>3. a \in Alloc /\ a # NULL /\ IF tls = NULL THEN a \notin DOMAIN alloc ELSE a = tls
  <2>1. CASE tls = NULL
    <3>1. Alloc \ DOMAIN alloc # {}
      BY <1>1, <2>1 DEF New
    <3>2. Alloc \ DOMAIN alloc \in SUBSET Nat
      BY <1>1
    <3>3. Min(Alloc \ DOMAIN alloc) \in Alloc \ DOMAIN alloc
      BY <3>1, <3>2, MinIn
    <3> QED BY <1>1, <1>2, <2>1, <3>3 DEF NewAlloc
  <2>2. CASE tls # NULL
    BY <1>1, <1>2, <2>2 DEF NewAlloc
  <2> QED BY <2>1, <2>2
<1>4. PICK A : A = IF tls = NULL THEN Fresh ELSE alloc[tls]
  OBVIOUS
<1>5. (A = Fresh \/ Sound(A)) /\ (tls # NULL => Sound(A) /\ A = alloc[a])
  BY <1>1, <1>3, <1>4
<1>6. PICK p : p = _M_push_stack_frame(A, n).frame
  OBVIOUS
<1>7. PICK B : B = _M_push_stack_frame(A, n).alloc
  OBVIOUS
<1>8. /\ Sound(B) /\ p \in Place /\ p.size = n
      /\ p.chunk = B.cur /\ p.at + p.size = B.bump /\ p.at + p.size <= B.caps[p.chunk]
      /\ p.savedCur \in 1..Len(B.caps)
      /\ Sound(A) => /\ Len(A.caps) <= Len(B.caps) /\ \A c \in 1..Len(A.caps) : B.caps[c] = A.caps[c]
                     /\ p.savedCur = A.cur /\ p.savedBump = A.bump
                     /\ p.chunk > A.cur \/ (p.chunk = A.cur /\ p.at = A.bump)
  BY <1>1, <1>5, <1>6, <1>7, PushFacts
<1>9. PICK f : f = [place |-> p, owner |-> a, top |-> tls = NULL, kept |-> kept]
  OBVIOUS
<1>10. f \in FrameType
  <2>1. (tls = NULL) \in BOOLEAN
    OBVIOUS
  <2> QED BY <1>3, <1>8, <1>9, <2>1 DEF FrameType
<1>11. /\ stack' = [stack EXCEPT ![r] = Append(@, f)]
       /\ alloc' = [b \in DOMAIN alloc \union {a} |-> IF b = a THEN B ELSE alloc[b]]
  BY <1>2, <1>4, <1>6, <1>7, <1>9 DEF New
<1>12. Pushes(r, f)
  BY <1>10, <1>11, PushesFacts
<1>13. /\ alloc' = [b \in DOMAIN alloc' |-> alloc'[b]] /\ DOMAIN alloc' = DOMAIN alloc \union {a}
       /\ alloc'[a] = B /\ \A b \in DOMAIN alloc : b # a => alloc'[b] = alloc[b]
  BY <1>11
<1>14. tls # NULL =>
           /\ Len(alloc[a].caps) <= Len(B.caps)
           /\ \A c \in 1..Len(alloc[a].caps) : B.caps[c] = alloc[a].caps[c]
           /\ p.savedCur = alloc[a].cur /\ p.savedBump = alloc[a].bump
           /\ p.chunk > alloc[a].cur \/ (p.chunk = alloc[a].cur /\ p.at = alloc[a].bump)
  BY <1>5, <1>8
<1>15. Pushes(r, [place |-> p, owner |-> a, top |-> tls = NULL, kept |-> kept])
  BY <1>9, <1>12
<1>16. Allocates(r, n, kept, a, p, B)
  BY <1>2, <1>3, <1>8, <1>13, <1>14, <1>15 DEF Allocates
<1> QED BY <1>3, <1>8, <1>16

-----------------------------------------------------------------------------
(* Which frames and allocators there are: FramesInv.                         *)

\* The types after operator new.
LEMMA TypePush ==
    ASSUME FramesType, NEW r \in Root, NEW n, NEW kept, NEW a \in Alloc, NEW p, NEW B,
           Allocates(r, n, kept, a, p, B), Len(stack[r]) < MaxDepth,
           UNCHANGED fault, running' \in Root \union {NoRoot}, tls' \in {a, NULL}
    PROVE  FramesType'
<1>1. Pushes(r, [place |-> p, owner |-> a, top |-> tls = NULL, kept |-> kept])
  BY DEF Allocates
<1>2. stack' \in [Root -> Seq(FrameType)] /\ Len(stack'[r]) = Len(stack[r]) + 1
      /\ \A s \in Root : s # r => stack'[s] = stack[s]
  BY <1>1 DEF Pushes
<1>3. \A s \in Root : Len(stack'[s]) <= MaxDepth
  <2>1. Len(stack[r]) + 1 <= MaxDepth
    BY StackFacts, FramesAssumption
  <2>2. \A s \in Root : Len(stack[s]) <= MaxDepth
    BY DEF FramesType
  <2> QED BY <1>2, <2>1, <2>2
<1>4. DOMAIN alloc' = DOMAIN alloc \union {a} /\ alloc' = [b \in DOMAIN alloc' |-> alloc'[b]]
  BY DEF Allocates
<1>5. \A b \in DOMAIN alloc' : Sound(alloc'[b])
  <2>1. \A b \in DOMAIN alloc : Sound(alloc[b])
    BY DEF FramesType
  <2>2. Sound(alloc'[a]) /\ \A b \in DOMAIN alloc : b # a => alloc'[b] = alloc[b]
    BY DEF Allocates
  <2> QED BY <1>4, <2>1, <2>2
<1>6. DOMAIN alloc' \subseteq Alloc /\ tls' \in DOMAIN alloc' \union {NULL}
  BY <1>4 DEF FramesType
<1>7. fault' \in BOOLEAN
  BY DEF FramesType
<1> QED BY <1>2, <1>3, <1>4, <1>5, <1>6, <1>7 DEF FramesType

\* A spawn.
LEMMA SpawnFrames ==
    ASSUME FramesInv, NEW r \in Root, NEW n \in Sizes, Spawn(r, n)
    PROVE  FramesInv'
<1>1. ~fault /\ FramesType /\ KeptInv /\ OwnerInv /\ ApartInv
  BY DEF FramesInv, Spawn
<1>2. running = NoRoot /\ running' = r /\ tls' = NULL /\ prev' = NewAlloc /\ ~fault' /\ UNCHANGED fault
      /\ stack[r] = <<>> /\ r # NoRoot
  BY <1>1, FramesAssumption DEF Spawn, Cleared
<1>3. PICK a \in Alloc : \E p \in Place : \E B : Allocates(r, n, TRUE, a, p, B)
  BY <1>1, NewFacts DEF Spawn
<1>4. PICK p \in Place : \E B : Allocates(r, n, TRUE, a, p, B)
  BY <1>3
<1>5. PICK B : Allocates(r, n, TRUE, a, p, B)
  BY <1>4
<1>6. FramesType'
  <2>1. Len(stack[r]) < MaxDepth
    BY <1>1, <1>2, StackFacts, FramesAssumption
  <2> QED BY <1>1, <1>2, <1>5, <2>1, TypePush
<1>7. PICK f : f = [place |-> p, owner |-> a, top |-> tls = NULL, kept |-> TRUE]
  OBVIOUS
<1>8. f.owner = a /\ f.kept /\ (f.top <=> tls = NULL)
  BY <1>7
<1>9. Len(stack[r]) = 0
  BY <1>1, <1>2, StackFacts
<1>10. /\ \A s \in Root : \A i \in DOMAIN stack[s] : i \in DOMAIN stack'[s] /\ stack'[s][i] = stack[s][i]
       /\ \A s \in Root : \A i \in DOMAIN stack'[s] : i \in DOMAIN stack[s] \/ (s = r /\ i = 1)
       /\ 1 \in DOMAIN stack'[r] /\ stack'[r][1] = f /\ Len(stack'[r]) = 1
       /\ DOMAIN stack[r] = {}
  <2>1. Pushes(r, f)
    BY <1>5, <1>7 DEF Allocates
  <2>2. 0 + 1 = 1 /\ 1..0 = {}
    OBVIOUS
  <2>3. DOMAIN stack[r] = {}
    BY <1>1, <1>9, <2>2, StackFacts
  <2> QED BY <1>9, <2>1, <2>2, <2>3 DEF Pushes
<1>11. \A s \in Root : \A i \in DOMAIN stack'[s] : stack'[s][i].kept
  <2>1. \A s \in Root : \A i \in DOMAIN stack[s] : stack[s][i].kept
    BY <1>2, FramesAssumption DEF KeptInv, FramesInv, Spawn
  <2> QED BY <1>8, <1>10, <2>1
<1>12. KeptInv'
  BY <1>11 DEF KeptInv
<1>13. a = NewAlloc /\ a # NULL /\ DOMAIN alloc' = DOMAIN alloc \union {a}
       /\ IF tls = NULL THEN a \notin DOMAIN alloc ELSE a = tls
  BY <1>5 DEF Allocates
<1>14. Base' = a /\ Base = tls
  BY <1>2, <1>13 DEF Base
<1>15. \A s \in Root : \A i \in DOMAIN stack[s] : i \in Nat /\ i >= 1 /\ 1 \in DOMAIN stack[s]
  BY <1>1, StackFacts
<1>16. ASSUME tls # NULL PROVE OwnerInv' /\ ApartInv'
  <2>1. a = Base /\ DOMAIN alloc' = DOMAIN alloc /\ ~f.top
    <3>1. tls \in DOMAIN alloc
      BY <1>1, <1>16 DEF FramesType
    <3> QED BY <1>8, <1>13, <1>14, <1>16, <3>1
  <2>2. OwnerInv'
    <3>1. \A s \in Root : \A i \in DOMAIN stack'[s] :
              /\ stack'[s][i].owner \in DOMAIN alloc'
              /\ stack'[s][i].owner = a <=> i = 1
      BY <1>1, <1>8, <1>10, <1>13, <2>1 DEF OwnerInv
    <3>2. \A s \in Root : \A i \in DOMAIN stack'[s] : i > 1 =>
              /\ i \in DOMAIN stack[s] /\ i - 1 \in DOMAIN stack[s]
              /\ stack'[s][i] = stack[s][i] /\ stack'[s][i - 1] = stack[s][i - 1]
      <4> TAKE s \in Root
      <4> TAKE i \in DOMAIN stack'[s]
      <4> HAVE i > 1
      <4>1. i \in DOMAIN stack[s]
        BY <1>10
      <4>2. i - 1 \in DOMAIN stack[s]
        BY <1>1, <4>1, StackFacts
      <4> QED BY <1>10, <4>1, <4>2
    <3>3. \A s \in Root : \A i \in DOMAIN stack'[s] :
           /\ i > 1 /\ stack'[s][i].top => stack'[s][i - 1].kept
           /\ i > 1 /\ ~stack'[s][i].top => /\ stack'[s][i].owner = stack'[s][i - 1].owner
                                            /\ stack'[s][i - 1].kept => stack'[s][i].kept
      BY <1>1, <3>2 DEF OwnerInv
    <3>4. Base' \in DOMAIN alloc' \union {NULL} /\ running' # NoRoot
      BY <1>2, <1>13, <1>14
    <3> QED BY <1>14, <3>1, <3>3, <3>4 DEF OwnerInv
  <2>3. ApartInv'
    <3>1. \A s, t \in Root : \A i \in DOMAIN stack'[s], j \in DOMAIN stack'[t] :
           stack'[s][i].owner = stack'[t][j].owner =>
               /\ i # 1 => s = t
               /\ stack'[s][i].top /\ stack'[t][j].top => s = t /\ i = j
      <4> TAKE s, t \in Root
      <4> TAKE i \in DOMAIN stack'[s], j \in DOMAIN stack'[t]
      <4> HAVE stack'[s][i].owner = stack'[t][j].owner
      <4>1. stack'[s][i].owner = a <=> i = 1
        BY <1>14, <2>2 DEF OwnerInv
      <4>2. stack'[t][j].owner = a <=> j = 1
        BY <1>14, <2>2 DEF OwnerInv
      <4>3. CASE i \in DOMAIN stack[s] /\ j \in DOMAIN stack[t]
        BY <1>1, <1>10, <4>3 DEF ApartInv
      <4>4. CASE s = r /\ i = 1
        BY <1>8, <1>10, <2>1, <4>4
      <4>5. CASE t = r /\ j = 1
        BY <1>8, <1>10, <2>1, <4>1, <4>2, <4>5
      <4> QED BY <1>10, <4>3, <4>4, <4>5
    <3>2. \A s \in Root : \A i, j \in DOMAIN stack'[s] :
           j < i /\ stack'[s][i].top => stack'[s][j].owner # stack'[s][i].owner
      <4> TAKE s \in Root
      <4> TAKE i, j \in DOMAIN stack'[s]
      <4>1. CASE i \in DOMAIN stack[s] /\ j \in DOMAIN stack[s]
        BY <1>1, <1>10, <4>1 DEF ApartInv
      <4>2. CASE s = r
        BY <1>10, <4>2
      <4> QED BY <1>10, <4>1, <4>2
    <3>3. \A b \in DOMAIN alloc' : \E s \in Root : \E i \in DOMAIN stack'[s] :
           stack'[s][i].owner = b /\ stack'[s][i].top
      <4> TAKE b \in DOMAIN alloc'
      <4>1. PICK s \in Root : \E i \in DOMAIN stack[s] : stack[s][i].owner = b /\ stack[s][i].top
        BY <1>1, <2>1 DEF ApartInv
      <4> QED BY <1>10, <4>1
    <3> QED BY <3>1, <3>2, <3>3 DEF ApartInv
  <2> QED BY <2>2, <2>3
<1>17. ASSUME tls = NULL PROVE OwnerInv' /\ ApartInv'
  <2>1. \A s \in Root : DOMAIN stack[s] = {}
    <3>1. NULL \notin DOMAIN alloc
      BY <1>1, FramesAssumption DEF FramesType
    <3> QED BY <1>1, <1>14, <1>15, <1>17, <3>1 DEF OwnerInv
  <2>2. DOMAIN alloc = {}
    BY <1>1, <2>1 DEF ApartInv
  <2>3. \A s \in Root : \A i \in DOMAIN stack'[s] : s = r /\ i = 1 /\ stack'[s][i] = f
    BY <1>10, <2>1
  <2>4. OwnerInv'
    <3>1. \A s \in Root : \A i \in DOMAIN stack'[s] :
              /\ stack'[s][i].owner \in DOMAIN alloc'
              /\ stack'[s][i].owner = a <=> i = 1
              /\ ~(i > 1)
      BY <1>8, <1>13, <2>3
    <3>2. Base' \in DOMAIN alloc' \union {NULL} /\ running' # NoRoot
      BY <1>2, <1>13, <1>14
    <3> QED BY <1>14, <3>1, <3>2 DEF OwnerInv
  <2>5. ApartInv'
    <3>1. \A s, t \in Root : \A i \in DOMAIN stack'[s], j \in DOMAIN stack'[t] :
           s = t /\ i = j /\ i = 1 /\ ~(j < i)
      BY <2>3
    <3>2. \A b \in DOMAIN alloc' : \E s \in Root : \E i \in DOMAIN stack'[s] :
           stack'[s][i].owner = b /\ stack'[s][i].top
      BY <1>8, <1>10, <1>13, <1>17, <2>2
    <3> QED BY <3>1, <3>2 DEF ApartInv
  <2> QED BY <2>4, <2>5
<1>18. OwnAllocator' /\ (running' # NoRoot => stack'[running'] # <<>>)
  <2>1. Innermost' = f
    BY <1>2, <1>10 DEF Innermost
  <2>2. stack'[r] # <<>>
    <3>1. Len(<<>>) # 1
      OBVIOUS
    <3> QED BY <1>10, <3>1
  <2> QED BY <1>2, <1>8, <2>1, <2>2 DEF OwnAllocator
<1> QED BY <1>2, <1>6, <1>12, <1>16, <1>17, <1>18 DEF FramesInv

\* A resumption.
LEMMA ResumeFrames ==
    ASSUME FramesInv, NEW r \in Root, Resume(r)
    PROVE  FramesInv'
<1>1. ~fault /\ FramesType /\ KeptInv /\ OwnerInv /\ ApartInv
  BY DEF FramesInv, Resume
<1>2. running = NoRoot /\ running' = r /\ tls' = NULL /\ prev' = tls /\ ~fault' /\ fault' = fault
      /\ stack' = stack /\ alloc' = alloc /\ stack[r] # <<>> /\ r # NoRoot
  BY <1>1, FramesAssumption DEF Resume, Cleared
<1>3. FramesType'
  BY <1>1, <1>2 DEF FramesType
<1>4. \A s \in Root : \A i \in DOMAIN stack[s] : stack[s][i].kept
  BY <1>1, <1>2, FramesAssumption DEF KeptInv
<1>5. KeptInv'
  BY <1>2, <1>4 DEF KeptInv
<1>6. Base' = Base
  BY <1>2 DEF Base
<1>7. OwnerInv'
  BY <1>1, <1>2, <1>6 DEF OwnerInv
<1>8. ApartInv'
  BY <1>1, <1>2 DEF ApartInv
<1>9. OwnAllocator' /\ (running' # NoRoot => stack'[running'] # <<>>)
  <2>1. Len(stack[r]) \in DOMAIN stack[r]
    BY <1>1, <1>2, StackFacts
  <2>2. Innermost' = stack[r][Len(stack[r])]
    BY <1>2 DEF Innermost
  <2> QED BY <1>2, <1>4, <2>1, <2>2 DEF OwnAllocator
<1> QED BY <1>2, <1>3, <1>5, <1>7, <1>8, <1>9 DEF FramesInv

\* What the running root's innermost frame says about __k_tls_alloc.
LEMMA InnermostFacts ==
    ASSUME FramesInv, ~fault, running # NoRoot
    PROVE  /\ running \in Root /\ Len(stack[running]) \in Nat /\ Len(stack[running]) >= 1
           /\ Len(stack[running]) \in DOMAIN stack[running]
           /\ Innermost.kept <=> tls = NULL
           /\ tls # NULL => tls = Innermost.owner /\ Len(stack[running]) > 1
           /\ tls = NULL => \A i \in DOMAIN stack[running] : stack[running][i].kept
<1>1. FramesType /\ KeptInv /\ OwnerInv /\ OwnAllocator /\ stack[running] # <<>> /\ running \in Root
  BY DEF FramesInv, FramesType
<1>2. PICK l : l = Len(stack[running])
  OBVIOUS
<1>3. l \in Nat /\ l >= 1 /\ l \in DOMAIN stack[running]
      /\ \A i \in DOMAIN stack[running] : i \in Nat /\ i >= 1 /\ i <= l
  BY <1>1, <1>2, StackFacts
<1>4. Innermost = stack[running][l]
  BY <1>2 DEF Innermost
<1>5. Innermost.owner # NULL
  <2>1. NULL \notin DOMAIN alloc
    BY <1>1, FramesAssumption DEF FramesType
  <2> QED BY <1>1, <1>3, <1>4, <2>1 DEF OwnerInv
<1>6. tls = IF Innermost.kept THEN NULL ELSE Innermost.owner
  BY <1>1 DEF OwnAllocator
<1>7. Innermost.kept => \A i \in DOMAIN stack[running] : stack[running][i].kept
  <2>1. \A i \in DOMAIN stack[running] : i = l \/ i < l
    BY <1>3
  <2> QED BY <1>1, <1>3, <1>4, <2>1 DEF KeptInv
<1>8. ~Innermost.kept => l > 1
  <2>1. ~Innermost.kept => l # 1
    BY <1>1, <1>3, <1>4 DEF KeptInv
  <2> QED BY <1>3, <2>1
<1> QED BY <1>1, <1>2, <1>3, <1>5, <1>6, <1>7, <1>8

\* A call.
LEMMA CallFrames ==
    ASSUME FramesInv, NEW n \in Sizes, Call(n)
    PROVE  FramesInv'
<1>1. ~fault /\ FramesType /\ KeptInv /\ OwnerInv /\ ApartInv
  BY DEF FramesInv, Call
<1>2. PICK r \in Root : r = running
  BY <1>1 DEF Call, FramesType
<1>3. running # NoRoot /\ running' = r /\ tls' = NewAlloc /\ prev' = prev /\ ~fault' /\ UNCHANGED fault
      /\ Len(stack[r]) < MaxDepth /\ New(r, n, FALSE)
  BY <1>1, <1>2 DEF Call
<1>4. PICK a \in Alloc : \E p \in Place : \E B : Allocates(r, n, FALSE, a, p, B)
  BY <1>1, <1>3, NewFacts
<1>5. PICK p \in Place : \E B : Allocates(r, n, FALSE, a, p, B)
  BY <1>4
<1>6. PICK B : Allocates(r, n, FALSE, a, p, B)
  BY <1>5
<1>7. a = NewAlloc /\ a # NULL /\ DOMAIN alloc' = DOMAIN alloc \union {a}
       /\ IF tls = NULL THEN a \notin DOMAIN alloc ELSE a = tls
  BY <1>6 DEF Allocates
<1>8. FramesType'
  BY <1>1, <1>3, <1>6, <1>7, TypePush
<1>9. PICK f : f = [place |-> p, owner |-> a, top |-> tls = NULL, kept |-> FALSE]
  OBVIOUS
<1>10. f.owner = a /\ ~f.kept /\ (f.top <=> tls = NULL)
  BY <1>9
<1>11. PICK l : l = Len(stack[r])
  OBVIOUS
<1>12. /\ \A s \in Root : \A i \in DOMAIN stack[s] : i \in DOMAIN stack'[s] /\ stack'[s][i] = stack[s][i]
       /\ \A s \in Root : \A i \in DOMAIN stack'[s] : i \in DOMAIN stack[s] \/ (s = r /\ i = l + 1)
       /\ l + 1 \in DOMAIN stack'[r] /\ stack'[r][l + 1] = f /\ Len(stack'[r]) = l + 1
  <2>1. Pushes(r, f)
    BY <1>6, <1>9 DEF Allocates
  <2> QED BY <1>11, <2>1 DEF Pushes
<1>13. /\ l \in Nat /\ l >= 1 /\ l \in DOMAIN stack[r] /\ l + 1 > 1 /\ l + 1 # 1 /\ l + 1 - 1 = l
       /\ Innermost = stack[r][l] /\ l + 1 \notin DOMAIN stack[r]
       /\ Innermost.kept <=> tls = NULL
       /\ tls # NULL => tls = Innermost.owner /\ l > 1 /\ l # 1
       /\ tls = NULL => \A i \in DOMAIN stack[r] : stack[r][i].kept
  <2>1. /\ l \in Nat /\ l >= 1 /\ l \in DOMAIN stack[r]
        /\ Innermost.kept <=> tls = NULL
        /\ tls # NULL => tls = Innermost.owner /\ l > 1
        /\ tls = NULL => \A i \in DOMAIN stack[r] : stack[r][i].kept
    BY <1>1, <1>2, <1>3, <1>11, InnermostFacts
  <2>2. l + 1 > 1 /\ l + 1 # 1 /\ l + 1 - 1 = l /\ (l > 1 => l # 1)
    BY <2>1
  <2>3. l + 1 \notin DOMAIN stack[r]
    BY <1>1, <1>11, <2>1, StackFacts
  <2>4. Innermost = stack[r][l]
    BY <1>2, <1>11 DEF Innermost
  <2> QED BY <2>1, <2>2, <2>3, <2>4
<1>14. \A s \in Root : \A i \in DOMAIN stack[s] : i \in Nat /\ i >= 1 /\ (s = r => i <= l)
           /\ (i > 1 => i - 1 \in DOMAIN stack[s])
  BY <1>1, <1>11, StackFacts
<1>15. Base' = Base /\ Base # a /\ Base \in DOMAIN alloc \union {NULL}
  <2>1. Base' = Base
    BY <1>2, <1>3 DEF Base
  <2>2. Base \in DOMAIN alloc \union {NULL}
    BY <1>1 DEF OwnerInv
  <2>3. tls # NULL => stack[r][l].owner # Base
    BY <1>1, <1>13 DEF OwnerInv
  <2> QED BY <1>7, <1>13, <2>1, <2>2, <2>3
<1>16. KeptInv'
  <2>1. \A s \in Root : \A i, j \in DOMAIN stack'[s] : i < j /\ stack'[s][j].kept => stack'[s][i].kept
    <3> TAKE s \in Root
    <3> TAKE i, j \in DOMAIN stack'[s]
    <3> HAVE i < j /\ stack'[s][j].kept
    <3>1. j \in DOMAIN stack[s]
      BY <1>10, <1>12
    <3>2. i \in DOMAIN stack[s]
      BY <1>12, <1>13, <1>14, <3>1
    <3> QED BY <1>1, <1>12, <3>1, <3>2 DEF KeptInv
  <2>2. \A s \in Root : \A i \in DOMAIN stack'[s] : i = 1 \/ s # running' => stack'[s][i].kept
    BY <1>1, <1>2, <1>3, <1>12, <1>13 DEF KeptInv
  <2> QED BY <2>1, <2>2 DEF KeptInv
<1>17. OwnerInv'
  <2>1. \A s \in Root : \A i \in DOMAIN stack[s] :
           /\ stack'[s][i].owner \in DOMAIN alloc'
           /\ stack'[s][i].owner = Base <=> i = 1
           /\ i > 1 /\ stack'[s][i].top => stack'[s][i - 1].kept
           /\ i > 1 /\ ~stack'[s][i].top => /\ stack'[s][i].owner = stack'[s][i - 1].owner
                                            /\ stack'[s][i - 1].kept => stack'[s][i].kept
    BY <1>1, <1>7, <1>12, <1>14 DEF OwnerInv
  <2>2. /\ f.owner \in DOMAIN alloc' /\ f.owner # Base
        /\ f.top => stack'[r][l].kept
        /\ ~f.top => f.owner = stack'[r][l].owner /\ ~stack'[r][l].kept
    BY <1>7, <1>10, <1>12, <1>13, <1>15
  <2>3. \A s \in Root : \A i \in DOMAIN stack'[s] :
           /\ stack'[s][i].owner \in DOMAIN alloc'
           /\ stack'[s][i].owner = Base <=> i = 1
           /\ i > 1 /\ stack'[s][i].top => stack'[s][i - 1].kept
           /\ i > 1 /\ ~stack'[s][i].top => /\ stack'[s][i].owner = stack'[s][i - 1].owner
                                            /\ stack'[s][i - 1].kept => stack'[s][i].kept
    BY <1>12, <1>13, <2>1, <2>2
  <2>4. Base' \in DOMAIN alloc' \union {NULL} /\ running' # NoRoot
    BY <1>2, <1>3, <1>7, <1>15
  <2> QED BY <1>15, <2>3, <2>4 DEF OwnerInv
<1>18. \* the frames that share the allocator of the new one
       \A s \in Root : \A i \in DOMAIN stack[s] :
           stack[s][i].owner = a => ~f.top /\ s = r /\ i # 1 /\ i < l + 1
  <2> TAKE s \in Root
  <2> TAKE i \in DOMAIN stack[s]
  <2> HAVE stack[s][i].owner = a
  <2>1. tls # NULL /\ a = stack[r][l].owner /\ l # 1
    BY <1>1, <1>7, <1>13 DEF OwnerInv
  <2>2. s = r
    BY <1>1, <1>13, <2>1 DEF ApartInv
  <2>3. i # 1
    BY <1>1, <1>15 DEF OwnerInv
  <2> QED BY <1>10, <1>13, <1>14, <2>1, <2>2, <2>3
<1>19. ApartInv'
  <2>1. \A s, t \in Root : \A i \in DOMAIN stack'[s], j \in DOMAIN stack'[t] :
           stack'[s][i].owner = stack'[t][j].owner =>
               /\ i # 1 => s = t
               /\ stack'[s][i].top /\ stack'[t][j].top => s = t /\ i = j
    <3> TAKE s, t \in Root
    <3> TAKE i \in DOMAIN stack'[s], j \in DOMAIN stack'[t]
    <3> HAVE stack'[s][i].owner = stack'[t][j].owner
    <3>1. CASE i \in DOMAIN stack[s] /\ j \in DOMAIN stack[t]
      BY <1>1, <1>12, <3>1 DEF ApartInv
    <3>2. CASE i \in DOMAIN stack[s] /\ t = r /\ j = l + 1
      BY <1>10, <1>12, <1>18, <3>2
    <3>3. CASE s = r /\ i = l + 1 /\ j \in DOMAIN stack[t]
      BY <1>10, <1>12, <1>18, <3>3
    <3>4. CASE s = r /\ i = l + 1 /\ t = r /\ j = l + 1
      BY <3>4
    <3> QED BY <1>12, <3>1, <3>2, <3>3, <3>4
  <2>2. \A s \in Root : \A i, j \in DOMAIN stack'[s] :
           j < i /\ stack'[s][i].top => stack'[s][j].owner # stack'[s][i].owner
    <3> TAKE s \in Root
    <3> TAKE i, j \in DOMAIN stack'[s]
    <3> HAVE j < i /\ stack'[s][i].top
    <3>1. CASE i \in DOMAIN stack[s] /\ j \in DOMAIN stack[s]
      BY <1>1, <1>12, <3>1 DEF ApartInv
    <3>2. CASE i \in DOMAIN stack[s] /\ s = r /\ j = l + 1
      BY <1>13, <1>14, <3>2
    <3>3. CASE s = r /\ i = l + 1
      <4>1. j \in DOMAIN stack[r]
        BY <1>12, <1>13, <3>3
      <4> QED BY <1>10, <1>12, <1>18, <3>3, <4>1
    <3> QED BY <1>12, <3>1, <3>2, <3>3
  <2>3. \A b \in DOMAIN alloc' : \E s \in Root : \E i \in DOMAIN stack'[s] :
           stack'[s][i].owner = b /\ stack'[s][i].top
    <3> TAKE b \in DOMAIN alloc'
    <3>1. CASE b \in DOMAIN alloc
      <4>1. PICK s \in Root : \E i \in DOMAIN stack[s] : stack[s][i].owner = b /\ stack[s][i].top
        BY <1>1, <3>1 DEF ApartInv
      <4> QED BY <1>12, <4>1
    <3>2. CASE b = a /\ b \notin DOMAIN alloc
      <4>1. tls = NULL
        BY <1>1, <1>7, <3>2 DEF FramesType
      <4> QED BY <1>10, <1>12, <3>2, <4>1
    <3> QED BY <1>7, <3>1, <3>2
  <2> QED BY <2>1, <2>2, <2>3 DEF ApartInv
<1>20. OwnAllocator' /\ (running' # NoRoot => stack'[running'] # <<>>)
  <2>1. Innermost' = f
    BY <1>3, <1>12 DEF Innermost
  <2>2. stack'[r] # <<>>
    <3>1. Len(<<>>) # l + 1
      BY <1>13
    <3> QED BY <1>12, <3>1
  <2> QED BY <1>3, <1>7, <1>10, <2>1, <2>2 DEF OwnAllocator
<1> QED BY <1>3, <1>8, <1>16, <1>17, <1>19, <1>20 DEF FramesInv

\* A suspension.
LEMMA SuspendFrames ==
    ASSUME FramesInv, Suspend
    PROVE  FramesInv'
<1>1. ~fault /\ FramesType /\ KeptInv /\ OwnerInv /\ ApartInv
  BY DEF FramesInv, Suspend
<1>2. PICK r \in Root : r = running
  BY <1>1 DEF Suspend, FramesType
<1>3. running # NoRoot /\ running' = NoRoot /\ tls' = prev /\ prev' = NULL /\ ~fault' /\ fault' = fault
      /\ alloc' = alloc
  BY <1>1 DEF Suspend
<1>4. Base' = Base /\ Base = prev
  BY <1>3 DEF Base
<1>5. /\ stack' \in [Root -> Seq(FrameType)]
      /\ \A s \in Root : DOMAIN stack'[s] = DOMAIN stack[s] /\ Len(stack'[s]) = Len(stack[s])
      /\ \A s \in Root : \A i \in DOMAIN stack[s] :
             /\ stack'[s][i].owner = stack[s][i].owner /\ (stack'[s][i].top <=> stack[s][i].top)
             /\ stack'[s][i].place = stack[s][i].place /\ stack'[s][i].kept
  <2>1. stack' = [stack EXCEPT ![r] = [i \in DOMAIN @ |-> [@[i] EXCEPT !.kept = TRUE]]]
    BY <1>2 DEF Suspend
  <2>2. \A s \in Root : \A i \in DOMAIN stack[s] : s # r => stack[s][i].kept
    BY <1>1, <1>2 DEF KeptInv
  <2> QED BY <1>1, <2>1, <2>2, SuspendFacts
<1>6. FramesType'
  <2>1. \A s \in Root : Len(stack'[s]) <= MaxDepth
    BY <1>1, <1>5 DEF FramesType
  <2>2. tls' \in DOMAIN alloc' \union {NULL}
    BY <1>1, <1>3, <1>4 DEF OwnerInv
  <2> QED BY <1>1, <1>3, <1>5, <2>1, <2>2 DEF FramesType
<1>7. KeptInv'
  BY <1>5 DEF KeptInv
<1>8. OwnerInv'
  <2>1. Base' \in DOMAIN alloc' \union {NULL} /\ prev' = NULL
    BY <1>1, <1>3, <1>4 DEF OwnerInv
  <2>2. \A s \in Root : \A i \in DOMAIN stack[s] : i > 1 => i - 1 \in DOMAIN stack[s]
    BY <1>1, StackFacts
  <2>3. \A s \in Root : \A i \in DOMAIN stack'[s] :
           /\ stack'[s][i].owner \in DOMAIN alloc'
           /\ stack'[s][i].owner = Base' <=> i = 1
           /\ i > 1 /\ stack'[s][i].top => stack'[s][i - 1].kept
           /\ i > 1 /\ ~stack'[s][i].top => /\ stack'[s][i].owner = stack'[s][i - 1].owner
                                            /\ stack'[s][i - 1].kept => stack'[s][i].kept
    <3> TAKE s \in Root
    <3> TAKE i \in DOMAIN stack'[s]
    <3>1. i \in DOMAIN stack[s] /\ stack'[s][i].kept /\ stack'[s][i].owner = stack[s][i].owner
          /\ (stack'[s][i].top <=> stack[s][i].top)
      BY <1>5
    <3>2. stack'[s][i].owner \in DOMAIN alloc' /\ (stack'[s][i].owner = Base' <=> i = 1)
      BY <1>1, <1>3, <1>4, <3>1 DEF OwnerInv
    <3>3. ASSUME i > 1
          PROVE  stack'[s][i - 1].kept /\ stack'[s][i - 1].owner = stack[s][i - 1].owner
      BY <1>5, <2>2, <3>1, <3>3
    <3>4. i > 1 /\ ~stack[s][i].top => stack[s][i].owner = stack[s][i - 1].owner
      BY <1>1, <3>1 DEF OwnerInv
    <3> QED BY <3>1, <3>2, <3>3, <3>4
  <2> QED BY <2>1, <2>3 DEF OwnerInv
<1>9. ApartInv'
  <2>1. \A s, t \in Root : \A i \in DOMAIN stack'[s], j \in DOMAIN stack'[t] :
           stack'[s][i].owner = stack'[t][j].owner =>
               /\ i # 1 => s = t
               /\ stack'[s][i].top /\ stack'[t][j].top => s = t /\ i = j
    BY <1>1, <1>5 DEF ApartInv
  <2>2. \A s \in Root : \A i, j \in DOMAIN stack'[s] :
           j < i /\ stack'[s][i].top => stack'[s][j].owner # stack'[s][i].owner
    BY <1>1, <1>5 DEF ApartInv
  <2>3. \A b \in DOMAIN alloc' : \E s \in Root : \E i \in DOMAIN stack'[s] :
           stack'[s][i].owner = b /\ stack'[s][i].top
    <3> TAKE b \in DOMAIN alloc'
    <3>1. PICK s \in Root : \E i \in DOMAIN stack[s] : stack[s][i].owner = b /\ stack[s][i].top
      BY <1>1, <1>3 DEF ApartInv
    <3> QED BY <1>5, <3>1
  <2> QED BY <2>1, <2>2, <2>3 DEF ApartInv
<1>10. OwnAllocator' /\ (running' # NoRoot => stack'[running'] # <<>>)
  BY <1>3 DEF OwnAllocator
<1> QED BY <1>3, <1>6, <1>7, <1>8, <1>9, <1>10 DEF FramesInv

\* What operator delete does, and that it faults exactly on a frame kept over a
\* suspension that is not a top frame.
LEMMA ReturnFacts ==
    ASSUME FramesInv, Return, NEW r \in Root, r = running
    PROVE  /\ Pops(r) /\ Len(stack[r]) \in Nat /\ Len(stack[r]) > 1 /\ Len(stack[r]) \in DOMAIN stack[r]
           /\ \/ /\ stack[r][Len(stack[r])].top
                 /\ alloc' = [b \in DOMAIN alloc \ {stack[r][Len(stack[r])].owner} |-> alloc[b]]
                 /\ tls' = NULL /\ fault' = fault
              \/ /\ ~stack[r][Len(stack[r])].top /\ tls = NULL
                 /\ fault' = TRUE /\ alloc' = alloc /\ tls' = tls
              \/ /\ ~stack[r][Len(stack[r])].top /\ tls # NULL /\ tls = stack[r][Len(stack[r])].owner
                 /\ ~stack[r][Len(stack[r])].kept
                 /\ alloc' = [alloc EXCEPT ![tls] =
                                 _M_pop_stack_frame(@, stack[r][Len(stack[r])].place)]
                 /\ tls' = tls /\ fault' = fault
<1>1. ~fault /\ FramesType /\ running # NoRoot /\ Len(stack[r]) > 1
  BY DEF FramesInv, Return
<1>2. Pops(r)
  BY <1>1, PopsFacts DEF Return
<1>3. PICK g : g = stack[r][Len(stack[r])]
  OBVIOUS
<1>4. Delete(g)
  BY <1>3 DEF Return
<1>5. /\ Len(stack[r]) \in Nat /\ Len(stack[r]) \in DOMAIN stack[r]
      /\ Innermost.kept <=> tls = NULL
      /\ tls # NULL => tls = Innermost.owner
  BY <1>1, InnermostFacts
<1>6. Innermost = g
  BY <1>3 DEF Innermost
<1>7. CASE g.top
  BY <1>1, <1>2, <1>3, <1>4, <1>5, <1>7 DEF Delete, Freed, AfterTop
<1>8. CASE ~g.top /\ tls = NULL
  BY <1>1, <1>2, <1>3, <1>4, <1>5, <1>8 DEF Delete
<1>9. CASE ~g.top /\ tls # NULL
  BY <1>1, <1>2, <1>3, <1>4, <1>5, <1>6, <1>9 DEF Delete
<1> QED BY <1>7, <1>8, <1>9

\* A return: operator delete frees the allocator of a top frame, pops any other
\* frame from the allocator it lies on, or faults.
LEMMA ReturnFrames ==
    ASSUME FramesInv, LayoutInv, Return
    PROVE  FramesInv'
<1>1. ~fault /\ FramesType /\ KeptInv /\ OwnerInv /\ ApartInv /\ PlaceInv /\ running # NoRoot
  BY DEF FramesInv, LayoutInv, Return
<1>2. PICK r \in Root : r = running
  BY <1>1 DEF FramesType
<1>3. running' = r /\ prev' = prev /\ Base' = Base /\ running' = running
  BY <1>1, <1>2 DEF Return, Base
<1>4. PICK l : l = Len(stack[r])
  OBVIOUS
<1>5. PICK g : g = stack[r][l]
  OBVIOUS
<1>6. /\ Pops(r) /\ l \in Nat /\ l > 1 /\ l \in DOMAIN stack[r]
      /\ \/ /\ g.top
            /\ alloc' = [b \in DOMAIN alloc \ {g.owner} |-> alloc[b]]
            /\ tls' = NULL /\ fault' = fault
         \/ /\ ~g.top /\ tls = NULL
            /\ fault' = TRUE /\ alloc' = alloc /\ tls' = tls
         \/ /\ ~g.top /\ tls # NULL /\ tls = g.owner
            /\ ~g.kept
            /\ alloc' = [alloc EXCEPT ![tls] = _M_pop_stack_frame(@, g.place)]
            /\ tls' = tls /\ fault' = fault
  BY <1>2, <1>4, <1>5, ReturnFacts
<1>7. /\ stack' \in [Root -> Seq(FrameType)] /\ Len(stack'[r]) = l - 1
      /\ \A s \in Root : s # r => stack'[s] = stack[s]
      /\ \A s \in Root : \A i \in DOMAIN stack'[s] :
             i \in DOMAIN stack[s] /\ stack'[s][i] = stack[s][i] /\ (s = r => i < l)
      /\ \A s \in Root : \A i \in DOMAIN stack[s] :
             i \in DOMAIN stack'[s] \/ (s = r /\ i = l)
  BY <1>4, <1>6 DEF Pops
<1>8. l # 1 /\ l - 1 \in DOMAIN stack[r] /\ l - 1 \in DOMAIN stack'[r] /\ l - 1 \in Nat /\ l - 1 >= 1 /\ l - 1 # l
  <2>1. l # 1 /\ l - 1 \in DOMAIN stack[r] /\ l - 1 \in Nat /\ l - 1 >= 1 /\ l - 1 # l
    BY <1>1, <1>4, <1>6, StackFacts
  <2> QED BY <1>7, <2>1
<1>9. \A s \in Root : \A i \in DOMAIN stack'[s] : i > 1 => i - 1 \in DOMAIN stack'[s]
  <2>1. \A s \in Root : stack'[s] \in Seq(FrameType)
    BY <1>7
  <2>2. \A s \in Root : DOMAIN stack'[s] = 1..Len(stack'[s]) /\ Len(stack'[s]) \in Nat
    BY <2>1, LenProperties
  <2> QED BY <2>2
<1>10. /\ running' \in Root \union {NoRoot}
       /\ \A s \in Root : Len(stack'[s]) <= MaxDepth
  <2>1. Len(stack[r]) <= MaxDepth /\ \A s \in Root : Len(stack[s]) <= MaxDepth
    BY <1>1 DEF FramesType
  <2>2. l - 1 <= MaxDepth
    BY <1>4, <1>6, <2>1, FramesAssumption
  <2> QED BY <1>3, <1>7, <2>1, <2>2
<1>11. KeptInv'
  <2>1. \A s \in Root : \A i, j \in DOMAIN stack'[s] : i < j /\ stack'[s][j].kept => stack'[s][i].kept
    BY <1>1, <1>7 DEF KeptInv
  <2>2. \A s \in Root : \A i \in DOMAIN stack'[s] : i = 1 \/ s # running' => stack'[s][i].kept
    BY <1>1, <1>3, <1>7 DEF KeptInv
  <2> QED BY <2>1, <2>2 DEF KeptInv
<1>12. \A s \in Root : \A i \in DOMAIN stack'[s] :
           /\ stack'[s][i].owner \in DOMAIN alloc
           /\ stack'[s][i].owner = Base' <=> i = 1
           /\ i > 1 /\ stack'[s][i].top => stack'[s][i - 1].kept
           /\ i > 1 /\ ~stack'[s][i].top => /\ stack'[s][i].owner = stack'[s][i - 1].owner
                                            /\ stack'[s][i - 1].kept => stack'[s][i].kept
  <2> TAKE s \in Root
  <2> TAKE i \in DOMAIN stack'[s]
  <2>1. i \in DOMAIN stack[s] /\ stack'[s][i] = stack[s][i]
    BY <1>7
  <2>2. i > 1 => stack'[s][i - 1] = stack[s][i - 1]
    BY <1>7, <1>9
  <2>3. /\ stack[s][i].owner \in DOMAIN alloc
        /\ stack[s][i].owner = Base <=> i = 1
        /\ i > 1 /\ stack[s][i].top => stack[s][i - 1].kept
        /\ i > 1 /\ ~stack[s][i].top => /\ stack[s][i].owner = stack[s][i - 1].owner
                                        /\ stack[s][i - 1].kept => stack[s][i].kept
    BY <1>1, <2>1 DEF OwnerInv
  <2> QED BY <1>3, <2>1, <2>2, <2>3
<1>13. /\ \A s, t \in Root : \A i \in DOMAIN stack'[s], j \in DOMAIN stack'[t] :
              stack'[s][i].owner = stack'[t][j].owner =>
                  /\ i # 1 => s = t
                  /\ stack'[s][i].top /\ stack'[t][j].top => s = t /\ i = j
       /\ \A s \in Root : \A i, j \in DOMAIN stack'[s] :
              j < i /\ stack'[s][i].top => stack'[s][j].owner # stack'[s][i].owner
  <2>1. \A s, t \in Root : \A i \in DOMAIN stack'[s], j \in DOMAIN stack'[t] :
              stack'[s][i].owner = stack'[t][j].owner =>
                  /\ i # 1 => s = t
                  /\ stack'[s][i].top /\ stack'[t][j].top => s = t /\ i = j
    BY <1>1, <1>7 DEF ApartInv
  <2>2. \A s \in Root : \A i, j \in DOMAIN stack'[s] :
              j < i /\ stack'[s][i].top => stack'[s][j].owner # stack'[s][i].owner
    BY <1>1, <1>7 DEF ApartInv
  <2> QED BY <2>1, <2>2
<1>14. \A b \in DOMAIN alloc : b # g.owner \/ ~g.top =>
           \E s \in Root : \E i \in DOMAIN stack'[s] : stack'[s][i].owner = b /\ stack'[s][i].top
  <2> TAKE b \in DOMAIN alloc
  <2> HAVE b # g.owner \/ ~g.top
  <2>1. PICK s \in Root : \E i \in DOMAIN stack[s] : stack[s][i].owner = b /\ stack[s][i].top
    BY <1>1 DEF ApartInv
  <2>2. PICK i \in DOMAIN stack[s] : stack[s][i].owner = b /\ stack[s][i].top
    BY <2>1
  <2>3. i \in DOMAIN stack'[s]
    BY <1>5, <1>7, <2>2
  <2> QED BY <1>7, <2>2, <2>3
<1>15. Innermost' = stack[r][l - 1]
  BY <1>3, <1>7, <1>8 DEF Innermost
<1>16. stack'[running'] # <<>>
  <2>1. Len(<<>>) # l - 1
    BY <1>8
  <2> QED BY <1>3, <1>7, <2>1
<1>17. g.owner # Base /\ g.owner \in DOMAIN alloc /\ Base \in DOMAIN alloc \union {NULL}
       /\ (g.top => stack[r][l - 1].kept)
       /\ (~g.top => g.owner = stack[r][l - 1].owner /\ (stack[r][l - 1].kept => g.kept))
  BY <1>1, <1>5, <1>6, <1>8 DEF OwnerInv
<1>18. ASSUME g.top, alloc' = [b \in DOMAIN alloc \ {g.owner} |-> alloc[b]], tls' = NULL, fault' = fault
       PROVE  FramesInv'
  <2>1. DOMAIN alloc' = DOMAIN alloc \ {g.owner} /\ alloc' = [b \in DOMAIN alloc' |-> alloc'[b]]
        /\ \A b \in DOMAIN alloc' : alloc'[b] = alloc[b]
    BY <1>18
  <2>2. FramesType'
    BY <1>1, <1>7, <1>10, <1>18, <2>1 DEF FramesType
  <2>3. \A s \in Root : \A i \in DOMAIN stack'[s] : stack'[s][i].owner # g.owner
    <3> TAKE s \in Root
    <3> TAKE i \in DOMAIN stack'[s]
    <3>1. i \in DOMAIN stack[s] /\ stack'[s][i] = stack[s][i] /\ (s = r => i < l)
      BY <1>7
    <3>2. stack[r][l].owner = stack[s][i].owner => s = r
      BY <1>1, <1>6, <1>8, <3>1 DEF ApartInv
    <3>3. s = r => stack[s][i].owner # g.owner
      BY <1>1, <1>5, <1>6, <1>18, <3>1 DEF ApartInv
    <3> QED BY <1>5, <3>1, <3>2, <3>3
  <2>4. OwnerInv'
    <3>1. Base' \in DOMAIN alloc' \union {NULL} /\ running' # NoRoot
      BY <1>1, <1>3, <1>17, <2>1
    <3>2. \A s \in Root : \A i \in DOMAIN stack'[s] : stack'[s][i].owner \in DOMAIN alloc'
      BY <1>12, <2>1, <2>3
    <3> QED BY <1>12, <3>1, <3>2 DEF OwnerInv
  <2>5. ApartInv'
    <3>1. \A b \in DOMAIN alloc' : \E s \in Root : \E i \in DOMAIN stack'[s] :
              stack'[s][i].owner = b /\ stack'[s][i].top
      BY <1>14, <2>1
    <3> QED BY <1>13, <3>1 DEF ApartInv
  <2>6. OwnAllocator'
    BY <1>15, <1>17, <1>18 DEF OwnAllocator
  <2> QED BY <1>11, <1>16, <2>2, <2>4, <2>5, <2>6 DEF FramesInv
<1>19. ASSUME fault' = TRUE, alloc' = alloc, tls' = tls
       PROVE  FramesInv'
  <2>1. FramesType'
    BY <1>1, <1>7, <1>10, <1>19 DEF FramesType
  <2> QED BY <1>19, <2>1 DEF FramesInv
<1>20. ASSUME ~g.top, tls # NULL, tls = g.owner, ~g.kept, tls' = tls, fault' = fault,
              alloc' = [alloc EXCEPT ![tls] = _M_pop_stack_frame(@, g.place)]
       PROVE  FramesInv'
  <2>1. PICK A : A = _M_pop_stack_frame(alloc[tls], g.place)
    OBVIOUS
  <2>2. tls \in DOMAIN alloc /\ alloc' = [alloc EXCEPT ![tls] = A]
    BY <1>17, <1>20, <2>1
  <2>3. DOMAIN alloc' = DOMAIN alloc /\ alloc' = [b \in DOMAIN alloc' |-> alloc'[b]] /\ alloc'[tls] = A
        /\ \A b \in DOMAIN alloc : b # tls => alloc'[b] = alloc[b]
    BY <1>1, <2>2 DEF FramesType
  <2>4. Sound(A)
    <3>1. Sound(alloc[tls]) /\ g.place \in Place
      <4>1. g \in FrameType
        BY <1>1, <1>5, <1>6, StackFacts
      <4> QED BY <1>1, <2>2, <4>1 DEF FramesType, FrameType
    <3>2. g.place.savedCur \in 1..Len(alloc[tls].caps)
      BY <1>1, <1>5, <1>6, <1>20 DEF PlaceInv, Placed
    <3> QED BY <2>1, <3>1, <3>2, PopFacts
  <2>5. FramesType'
    <3>1. \A b \in DOMAIN alloc' : Sound(alloc'[b])
      BY <1>1, <2>3, <2>4 DEF FramesType
    <3> QED BY <1>1, <1>7, <1>10, <1>20, <2>3, <3>1 DEF FramesType
  <2>6. OwnerInv'
    <3>1. Base' \in DOMAIN alloc' \union {NULL} /\ running' # NoRoot
      BY <1>1, <1>3, <1>17, <2>3
    <3> QED BY <1>12, <2>3, <3>1 DEF OwnerInv
  <2>7. ApartInv'
    <3>1. \A b \in DOMAIN alloc' : \E s \in Root : \E i \in DOMAIN stack'[s] :
              stack'[s][i].owner = b /\ stack'[s][i].top
      BY <1>14, <1>20, <2>3
    <3> QED BY <1>13, <3>1 DEF ApartInv
  <2>8. OwnAllocator'
    BY <1>15, <1>17, <1>20 DEF OwnAllocator
  <2> QED BY <1>11, <1>16, <2>5, <2>6, <2>7, <2>8 DEF FramesInv
<1> QED BY <1>6, <1>18, <1>19, <1>20

\* FramesInv is preserved by every step.
LEMMA FramesStep ==
    ASSUME FramesInv, LayoutInv, [Next]_vars
    PROVE  FramesInv'
<1>1. ASSUME NEW r \in Root, Resume(r) PROVE FramesInv'
  BY <1>1, ResumeFrames
<1>2. ASSUME NEW r \in Root, NEW n \in Sizes, Spawn(r, n) PROVE FramesInv'
  BY <1>2, SpawnFrames
<1>3. ASSUME NEW n \in Sizes, Call(n) PROVE FramesInv'
  BY <1>3, CallFrames
<1>4. CASE Suspend
  BY <1>4, SuspendFrames
<1>5. CASE Return
  BY <1>5, ReturnFrames
<1>6. CASE ReturnRoot
  <2>1. FramesType /\ fault' = TRUE /\ alloc' = alloc /\ tls' = tls /\ stack' = stack /\ running' = running
    BY <1>6 DEF ReturnRoot, FramesInv
  <2>2. FramesType'
    BY <2>1 DEF FramesType
  <2> QED BY <2>1, <2>2 DEF FramesInv
<1>7. CASE UNCHANGED vars
  BY <1>7 DEF vars, FramesInv, FramesType, KeptInv, OwnerInv, ApartInv, OwnAllocator, Innermost, Base
<1> QED BY <1>1, <1>2, <1>3, <1>4, <1>5, <1>6, <1>7 DEF Next

-----------------------------------------------------------------------------
(* Where frames lie: LayoutInv.                                              *)

\* A frame of an allocator keeps its place when the allocator gives out another,
\* and does not overlap that.
LEMMA PlacedPush ==
    ASSUME NEW A, Sound(A), NEW B, Sound(B), NEW p \in Place, Placed(p, A), NEW q \in Place,
           q.chunk = B.cur, q.at + q.size = B.bump,
           Len(A.caps) <= Len(B.caps), \A c \in 1..Len(A.caps) : B.caps[c] = A.caps[c],
           q.chunk > A.cur \/ (q.chunk = A.cur /\ q.at = A.bump)
    PROVE  Placed(p, B) /\ Below(p, B.cur, B.bump) /\ Apart(p, q) /\ Apart(q, p)
<1>1. /\ p.chunk \in Nat /\ p.at \in Nat /\ p.size \in Nat /\ q.chunk \in Nat /\ q.at \in Nat /\ q.size \in Nat
      /\ p.savedCur \in Nat
  BY DEF Place
<1>2. A.cur \in Nat /\ A.bump \in Nat /\ Len(A.caps) \in Nat /\ Len(B.caps) \in Nat /\ B.cur \in Nat /\ B.bump \in Nat
  BY LenProperties DEF Sound, Arena
<1>3. p.chunk \in 1..Len(A.caps) /\ p.at + p.size <= A.caps[p.chunk] /\ p.savedCur \in 1..Len(A.caps)
      /\ (p.chunk < A.cur \/ (p.chunk = A.cur /\ p.at + p.size <= A.bump))
  BY DEF Placed, Below
<1>4. p.chunk \in 1..Len(B.caps) /\ p.savedCur \in 1..Len(B.caps) /\ B.caps[p.chunk] = A.caps[p.chunk]
  BY <1>1, <1>2, <1>3
<1>5. p.chunk < B.cur \/ (p.chunk = B.cur /\ p.at + p.size <= B.bump)
  BY <1>1, <1>2, <1>3
<1>6. p.chunk = q.chunk => p.at + p.size <= q.at
  BY <1>1, <1>2, <1>3
<1> QED BY <1>3, <1>4, <1>5, <1>6 DEF Placed, Below, Apart

\* operator new.
LEMMA PushLayout ==
    ASSUME FramesInv, LayoutInv, ~fault, NEW r \in Root, NEW n, NEW kept, NEW a \in Alloc,
           NEW p \in Place, NEW B, Allocates(r, n, kept, a, p, B)
    PROVE  PlaceInv' /\ DisjointInv'
<1>1. FramesType /\ OwnerInv /\ PlaceInv /\ DisjointInv
  BY DEF FramesInv, LayoutInv
<1>2. PICK f : f = [place |-> p, owner |-> a, top |-> tls = NULL, kept |-> kept]
  OBVIOUS
<1>3. f.owner = a /\ f.place = p
  BY <1>2
<1>4. PICK l : l = Len(stack[r])
  OBVIOUS
<1>5. /\ \A s \in Root : \A i \in DOMAIN stack[s] : i \in DOMAIN stack'[s] /\ stack'[s][i] = stack[s][i]
      /\ \A s \in Root : \A i \in DOMAIN stack'[s] : i \in DOMAIN stack[s] \/ (s = r /\ i = l + 1)
      /\ l + 1 \in DOMAIN stack'[r] /\ stack'[r][l + 1] = f
  <2>1. Pushes(r, f)
    BY <1>2 DEF Allocates
  <2> QED BY <1>4, <2>1 DEF Pushes
<1>6. /\ IF tls = NULL THEN a \notin DOMAIN alloc ELSE a = tls
      /\ DOMAIN alloc' = DOMAIN alloc \union {a} /\ alloc'[a] = B
      /\ \A b \in DOMAIN alloc : b # a => alloc'[b] = alloc[b]
      /\ Sound(B) /\ p.chunk = B.cur /\ p.at + p.size = B.bump /\ p.at + p.size <= B.caps[p.chunk]
      /\ p.savedCur \in 1..Len(B.caps)
      /\ tls # NULL =>
             /\ Len(alloc[a].caps) <= Len(B.caps)
             /\ \A c \in 1..Len(alloc[a].caps) : B.caps[c] = alloc[a].caps[c]
             /\ p.savedCur = alloc[a].cur /\ p.savedBump = alloc[a].bump
             /\ p.chunk > alloc[a].cur \/ (p.chunk = alloc[a].cur /\ p.at = alloc[a].bump)
  BY DEF Allocates
<1>7. \A s \in Root : \A i \in DOMAIN stack[s] :
          /\ i \in Nat /\ (s = r => i <= l) /\ stack[s][i].place \in Place /\ l \in Nat
          /\ stack[s][i].owner \in DOMAIN alloc
          /\ Placed(stack[s][i].place, alloc[stack[s][i].owner])
  <2> TAKE s \in Root
  <2> TAKE i \in DOMAIN stack[s]
  <2>1. i \in Nat /\ (s = r => i <= l) /\ stack[s][i] \in FrameType /\ l \in Nat
    BY <1>1, <1>4, StackFacts
  <2>2. stack[s][i].place \in Place
    BY <2>1 DEF FrameType
  <2>3. stack[s][i].owner \in DOMAIN alloc /\ Placed(stack[s][i].place, alloc[stack[s][i].owner])
    BY <1>1 DEF OwnerInv, PlaceInv
  <2> QED BY <2>1, <2>2, <2>3
<1>8. \* the other frames of a
      \A s \in Root : \A i \in DOMAIN stack[s] : stack[s][i].owner = a =>
          /\ tls # NULL /\ Below(stack[s][i].place, p.savedCur, p.savedBump)
          /\ Placed(stack[s][i].place, B) /\ Apart(stack[s][i].place, p) /\ Apart(p, stack[s][i].place)
  <2> TAKE s \in Root
  <2> TAKE i \in DOMAIN stack[s]
  <2> HAVE stack[s][i].owner = a
  <2>1. tls # NULL /\ a \in DOMAIN alloc
    BY <1>6, <1>7
  <2>2. Sound(alloc[a])
    BY <1>1, <2>1 DEF FramesType
  <2>3. stack[s][i].place \in Place /\ Placed(stack[s][i].place, alloc[a])
    BY <1>7
  <2>4. Below(stack[s][i].place, alloc[a].cur, alloc[a].bump)
    BY <2>3 DEF Placed
  <2>5. Placed(stack[s][i].place, B) /\ Apart(stack[s][i].place, p) /\ Apart(p, stack[s][i].place)
    BY <1>6, <2>1, <2>2, <2>3, PlacedPush
  <2> QED BY <1>6, <2>1, <2>4, <2>5
<1>9. PlaceInv'
  <2>1. \A s \in Root : \A i \in DOMAIN stack'[s] : Placed(stack'[s][i].place, alloc'[stack'[s][i].owner])
    <3> TAKE s \in Root
    <3> TAKE i \in DOMAIN stack'[s]
    <3>1. CASE i \in DOMAIN stack[s]
      BY <1>5, <1>6, <1>7, <1>8, <3>1
    <3>2. CASE s = r /\ i = l + 1
      <4>1. Placed(p, B)
        <5>1. B.cur \in 1..Len(B.caps) /\ B.cur \in Nat /\ B.bump \in Nat
          BY <1>6 DEF Sound, Arena
        <5>2. p.chunk \in 1..Len(B.caps)
          BY <1>6, <5>1
        <5>3. p.at + p.size <= B.bump
          BY <1>6, <5>1
        <5> QED BY <1>6, <5>2, <5>3 DEF Placed, Below
      <4> QED BY <1>3, <1>5, <1>6, <3>2, <4>1
    <3> QED BY <1>5, <3>1, <3>2
  <2>2. \A s \in Root : \A i, j \in DOMAIN stack'[s] :
            i > 1 /\ j < i /\ stack'[s][j].owner = stack'[s][i].owner =>
                Below(stack'[s][j].place, stack'[s][i].place.savedCur, stack'[s][i].place.savedBump)
    <3> TAKE s \in Root
    <3> TAKE i, j \in DOMAIN stack'[s]
    <3> HAVE i > 1 /\ j < i /\ stack'[s][j].owner = stack'[s][i].owner
    <3>1. CASE i \in DOMAIN stack[s]
      <4>1. j \in DOMAIN stack[s]
        BY <1>5, <1>7, <3>1
      <4>2. stack[s][j].owner = stack[s][i].owner /\ stack'[s][i] = stack[s][i] /\ stack'[s][j] = stack[s][j]
        BY <1>5, <3>1, <4>1
      <4>3. Below(stack[s][j].place, stack[s][i].place.savedCur, stack[s][i].place.savedBump)
        BY <1>1, <3>1, <4>1, <4>2 DEF PlaceInv
      <4> QED BY <4>2, <4>3
    <3>2. CASE s = r /\ i = l + 1
      <4>1. j \in DOMAIN stack[r] /\ stack'[r][j] = stack[r][j]
        <5>1. l \in Nat
          BY <1>1, <1>4, StackFacts
        <5>2. j # l + 1
          BY <3>2, <5>1
        <5> QED BY <1>5, <3>2, <5>2
      <4> QED BY <1>3, <1>5, <1>8, <3>2, <4>1
    <3> QED BY <1>5, <3>1, <3>2
  <2> QED BY <2>1, <2>2 DEF PlaceInv
<1>10. DisjointInv'
  <2>1. \A s, t \in Root : \A i \in DOMAIN stack'[s], j \in DOMAIN stack'[t] :
            stack'[s][i].owner = stack'[t][j].owner /\ <<s, i>> # <<t, j>> =>
                Apart(stack'[s][i].place, stack'[t][j].place)
    <3> TAKE s, t \in Root
    <3> TAKE i \in DOMAIN stack'[s], j \in DOMAIN stack'[t]
    <3> HAVE stack'[s][i].owner = stack'[t][j].owner /\ <<s, i>> # <<t, j>>
    <3>1. CASE i \in DOMAIN stack[s] /\ j \in DOMAIN stack[t]
      BY <1>1, <1>5, <3>1 DEF DisjointInv
    <3>2. CASE i \in DOMAIN stack[s] /\ t = r /\ j = l + 1
      BY <1>3, <1>5, <1>8, <3>2
    <3>3. CASE s = r /\ i = l + 1 /\ j \in DOMAIN stack[t]
      BY <1>3, <1>5, <1>8, <3>3
    <3>4. CASE s = r /\ i = l + 1 /\ t = r /\ j = l + 1
      BY <3>4
    <3> QED BY <1>5, <3>1, <3>2, <3>3, <3>4
  <2> QED BY <2>1 DEF DisjointInv
<1> QED BY <1>9, <1>10

\* operator delete.
LEMMA ReturnLayout ==
    ASSUME FramesInv, LayoutInv, Return, ~fault'
    PROVE  PlaceInv' /\ DisjointInv'
<1>1. ~fault /\ FramesType /\ OwnerInv /\ ApartInv /\ PlaceInv /\ DisjointInv /\ running # NoRoot
  BY DEF FramesInv, LayoutInv, Return
<1>2. PICK r \in Root : r = running
  BY <1>1 DEF FramesType
<1>3. PICK l : l = Len(stack[r])
  OBVIOUS
<1>4. PICK g : g = stack[r][l]
  OBVIOUS
<1>5. /\ Pops(r) /\ l \in Nat /\ l > 1 /\ l \in DOMAIN stack[r] /\ l # 1
      /\ \/ /\ g.top
            /\ alloc' = [b \in DOMAIN alloc \ {g.owner} |-> alloc[b]]
         \/ /\ ~g.top /\ tls # NULL /\ tls = g.owner
            /\ alloc' = [alloc EXCEPT ![tls] = _M_pop_stack_frame(@, g.place)]
  <2>1. /\ Pops(r) /\ l \in Nat /\ l > 1 /\ l \in DOMAIN stack[r]
        /\ \/ /\ g.top
              /\ alloc' = [b \in DOMAIN alloc \ {g.owner} |-> alloc[b]]
           \/ fault' = TRUE
           \/ /\ ~g.top /\ tls # NULL /\ tls = g.owner
              /\ alloc' = [alloc EXCEPT ![tls] = _M_pop_stack_frame(@, g.place)]
    BY <1>2, <1>3, <1>4, ReturnFacts
  <2>2. l # 1
    BY <2>1
  <2> QED BY <2>1, <2>2
<1>6. \A s \in Root : \A i \in DOMAIN stack'[s] :
          i \in DOMAIN stack[s] /\ stack'[s][i] = stack[s][i] /\ (s = r => i < l)
  BY <1>3, <1>5 DEF Pops
<1>7. \* the other frames of the allocator belong to the same root
      \A s \in Root : \A i \in DOMAIN stack'[s] : stack[s][i].owner = g.owner => s = r /\ ~g.top
  <2> TAKE s \in Root
  <2> TAKE i \in DOMAIN stack'[s]
  <2> HAVE stack[s][i].owner = g.owner
  <2>1. i \in DOMAIN stack[s] /\ (s = r => i < l)
    BY <1>6
  <2>2. s = r
    BY <1>1, <1>4, <1>5, <2>1 DEF ApartInv
  <2>3. ~g.top
    BY <1>1, <1>4, <1>5, <2>1, <2>2 DEF ApartInv
  <2> QED BY <2>2, <2>3
<1>8. \A s \in Root : \A i \in DOMAIN stack'[s] :
          /\ stack[s][i].owner \in DOMAIN alloc
          /\ Placed(stack[s][i].place, alloc[stack[s][i].owner])
  BY <1>1, <1>6 DEF OwnerInv, PlaceInv
<1>9. \A s \in Root : \A i \in DOMAIN stack'[s] : stack[s][i].owner # g.owner =>
          alloc'[stack[s][i].owner] = alloc[stack[s][i].owner]
  <2> TAKE s \in Root
  <2> TAKE i \in DOMAIN stack'[s]
  <2> HAVE stack[s][i].owner # g.owner
  <2>1. PICK b \in DOMAIN alloc : b = stack[s][i].owner
    BY <1>8
  <2>2. CASE alloc' = [c \in DOMAIN alloc \ {g.owner} |-> alloc[c]]
    BY <2>1, <2>2
  <2>3. CASE tls = g.owner /\ alloc' = [alloc EXCEPT ![tls] = _M_pop_stack_frame(@, g.place)]
    <3>1. PICK A : A = _M_pop_stack_frame(alloc[tls], g.place)
      OBVIOUS
    <3>2. alloc' = [alloc EXCEPT ![tls] = A]
      BY <2>3, <3>1
    <3> QED BY <1>1, <2>1, <2>3, <3>2 DEF FramesType
  <2> QED BY <1>5, <2>2, <2>3
<1>10. \A s \in Root : \A i \in DOMAIN stack'[s] : stack[s][i].owner = g.owner =>
           Placed(stack[s][i].place, alloc'[g.owner])
  <2> TAKE s \in Root
  <2> TAKE i \in DOMAIN stack'[s]
  <2> HAVE stack[s][i].owner = g.owner
  <2>1. s = r /\ ~g.top /\ i \in DOMAIN stack[r] /\ i < l
    BY <1>6, <1>7
  <2>2. tls = g.owner /\ alloc' = [alloc EXCEPT ![tls] = _M_pop_stack_frame(@, g.place)]
    BY <1>5, <2>1
  <2>3. PICK A : A = _M_pop_stack_frame(alloc[tls], g.place)
    OBVIOUS
  <2>4. alloc' = [alloc EXCEPT ![tls] = A] /\ tls \in DOMAIN alloc
    BY <1>8, <2>2, <2>3
  <2>5. alloc'[g.owner] = A
    BY <1>1, <2>2, <2>4 DEF FramesType
  <2>6. Sound(alloc[tls]) /\ g.place \in Place
    <3>1. g \in FrameType
      BY <1>1, <1>4, <1>5, StackFacts
    <3> QED BY <1>1, <2>4, <3>1 DEF FramesType, FrameType
  <2>7. g.place.savedCur \in 1..Len(alloc[tls].caps)
    BY <1>1, <1>4, <1>5, <2>2 DEF PlaceInv, Placed
  <2>8. A.cur = g.place.savedCur /\ A.bump = g.place.savedBump /\ A.caps = alloc[tls].caps
    BY <2>3, <2>6, <2>7, PopFacts
  <2>9. Below(stack[r][i].place, g.place.savedCur, g.place.savedBump)
    BY <1>1, <1>4, <1>5, <2>1 DEF PlaceInv
  <2>10. Placed(stack[r][i].place, alloc[tls])
    BY <1>8, <2>1, <2>2
  <2> QED BY <2>1, <2>5, <2>8, <2>9, <2>10 DEF Placed
<1>11. PlaceInv'
  <2>1. \A s \in Root : \A i \in DOMAIN stack'[s] : Placed(stack'[s][i].place, alloc'[stack'[s][i].owner])
    <3> TAKE s \in Root
    <3> TAKE i \in DOMAIN stack'[s]
    <3>1. stack'[s][i] = stack[s][i]
      BY <1>6
    <3>2. CASE stack[s][i].owner = g.owner
      BY <1>10, <3>1, <3>2
    <3>3. CASE stack[s][i].owner # g.owner
      BY <1>8, <1>9, <3>1, <3>3
    <3> QED BY <3>2, <3>3
  <2>2. \A s \in Root : \A i, j \in DOMAIN stack'[s] :
            i > 1 /\ j < i /\ stack'[s][j].owner = stack'[s][i].owner =>
                Below(stack'[s][j].place, stack'[s][i].place.savedCur, stack'[s][i].place.savedBump)
    BY <1>1, <1>6 DEF PlaceInv
  <2> QED BY <2>1, <2>2 DEF PlaceInv
<1>12. DisjointInv'
  BY <1>1, <1>6 DEF DisjointInv
<1> QED BY <1>11, <1>12

\* LayoutInv is preserved by every step.
LEMMA LayoutStep ==
    ASSUME FramesInv, LayoutInv, [Next]_vars
    PROVE  LayoutInv'
<1> SUFFICES ASSUME ~fault' PROVE PlaceInv' /\ DisjointInv'
  BY DEF LayoutInv
<1>1. ASSUME NEW r \in Root, NEW n \in Sizes, NEW kept \in BOOLEAN, New(r, n, kept), ~fault
      PROVE  PlaceInv' /\ DisjointInv'
  <2>1. FramesType
    BY DEF FramesInv
  <2>2. PICK a \in Alloc : \E p \in Place : \E B : Allocates(r, n, kept, a, p, B)
    BY <1>1, <2>1, NewFacts
  <2>3. PICK p \in Place : \E B : Allocates(r, n, kept, a, p, B)
    BY <2>2
  <2>4. PICK B : Allocates(r, n, kept, a, p, B)
    BY <2>3
  <2> QED BY <1>1, <2>4, PushLayout
<1>2. ASSUME NEW r \in Root, NEW n \in Sizes, Spawn(r, n) PROVE PlaceInv' /\ DisjointInv'
  BY <1>1, <1>2 DEF Spawn
<1>3. ASSUME NEW n \in Sizes, Call(n) PROVE PlaceInv' /\ DisjointInv'
  <2>1. running \in Root
    BY <1>3 DEF Call, FramesInv, FramesType
  <2> QED BY <1>1, <1>3, <2>1 DEF Call
<1>4. ASSUME NEW r \in Root, Resume(r) PROVE PlaceInv' /\ DisjointInv'
  BY <1>4 DEF Resume, LayoutInv, PlaceInv, DisjointInv
<1>5. CASE Suspend
  <2>1. ~fault /\ FramesType /\ KeptInv /\ PlaceInv /\ DisjointInv /\ running \in Root /\ alloc' = alloc
    BY <1>5 DEF Suspend, FramesInv, FramesType, LayoutInv
  <2>2. /\ \A s \in Root : DOMAIN stack'[s] = DOMAIN stack[s]
        /\ \A s \in Root : \A i \in DOMAIN stack[s] :
               stack'[s][i].owner = stack[s][i].owner /\ stack'[s][i].place = stack[s][i].place
    <3>1. stack' = [stack EXCEPT ![running] = [i \in DOMAIN @ |-> [@[i] EXCEPT !.kept = TRUE]]]
      BY <1>5 DEF Suspend
    <3>2. \A s \in Root : \A i \in DOMAIN stack[s] : s # running => stack[s][i].kept
      BY <2>1 DEF KeptInv
    <3> QED BY <2>1, <3>1, <3>2, SuspendFacts
  <2>3. PlaceInv'
    BY <2>1, <2>2 DEF PlaceInv
  <2>4. DisjointInv'
    BY <2>1, <2>2 DEF DisjointInv
  <2> QED BY <2>3, <2>4
<1>6. CASE Return
  BY <1>6, ReturnLayout
<1>7. CASE ReturnRoot
  BY <1>7 DEF ReturnRoot
<1>8. CASE UNCHANGED vars
  BY <1>8 DEF vars, LayoutInv, PlaceInv, DisjointInv
<1> QED BY <1>2, <1>3, <1>4, <1>5, <1>6, <1>7, <1>8 DEF Next

-----------------------------------------------------------------------------
(* The theorems.                                                             *)

\* The initial state.
LEMMA FramesInit == Init => FramesInv /\ LayoutInv
<1> SUFFICES ASSUME Init PROVE FramesInv /\ LayoutInv
  OBVIOUS
<1>1. /\ alloc = [a \in {} |-> Fresh] /\ DOMAIN alloc = {} /\ tls = NULL
      /\ stack = [r \in Root |-> <<>>] /\ running = NoRoot /\ prev = NULL /\ fault = FALSE
  BY DEF Init
<1>2. \A r \in Root : stack[r] = <<>> /\ DOMAIN stack[r] = {} /\ Len(stack[r]) = 0
  BY <1>1
<1>3. FramesType
  <2>1. stack \in [Root -> Seq(FrameType)]
    BY <1>1
  <2>2. alloc = [a \in DOMAIN alloc |-> alloc[a]]
    BY <1>1
  <2>3. \A r \in Root : Len(stack[r]) <= MaxDepth
    BY <1>2, FramesAssumption
  <2> QED BY <1>1, <2>1, <2>2, <2>3 DEF FramesType
<1>4. KeptInv /\ OwnerInv /\ ApartInv /\ OwnAllocator
  BY <1>1, <1>2 DEF KeptInv, OwnerInv, ApartInv, OwnAllocator, Base
<1>5. PlaceInv /\ DisjointInv
  BY <1>2 DEF PlaceInv, DisjointInv
<1> QED BY <1>1, <1>3, <1>4, <1>5 DEF FramesInv, LayoutInv

\* The inductive invariant of the frames.  Neither half is inductive alone:
\* that popping a frame leaves an allocator in one of its chunks needs the saved
\* position (LayoutInv), and that no other frame lies behind that position needs
\* the frames of an allocator to be of one root (FramesInv).
THEOREM FramesInvHolds == Spec => [](FramesInv /\ LayoutInv)
<1>1. Init => FramesInv /\ LayoutInv
  BY FramesInit
<1>2. (FramesInv /\ LayoutInv) /\ [Next]_vars => (FramesInv /\ LayoutInv)'
  BY FramesStep, LayoutStep
<1> QED BY <1>1, <1>2, PTL DEF Spec

\* __k_tls_alloc is null while the innermost frame was kept over a suspension, and
\* that frame's allocator otherwise, however spawns, calls, suspensions and
\* returns of any number of roots follow each other.
THEOREM OwnAllocatorHolds == Spec => []OwnAllocator
<1>1. FramesInv => OwnAllocator
  BY DEF FramesInv, OwnAllocator
<1> QED BY <1>1, FramesInvHolds, PTL

\* The frames as the properties name them.
LEMMA FramesAre ==
    ASSUME FramesType, NEW x \in Frames
    PROVE  \E r \in Root : \E i \in DOMAIN stack[r] :
               x = <<r, i>> /\ Frame(x) = stack[r][i]
<1>1. x \in Root \X (1..MaxDepth) /\ x[2] \in DOMAIN stack[x[1]]
  BY DEF Frames
<1>2. PICK r \in Root, i \in 1..MaxDepth : x = <<r, i>>
  BY <1>1
<1>3. x[1] = r /\ x[2] = i
  BY <1>2
<1> QED BY <1>1, <1>2, <1>3 DEF Frame

\* And each of them is one.
LEMMA FramesAll ==
    ASSUME FramesType, NEW r \in Root, NEW i \in DOMAIN stack[r]
    PROVE  <<r, i>> \in Frames /\ Frame(<<r, i>>) = stack[r][i]
<1>1. Len(stack[r]) \in Nat /\ DOMAIN stack[r] = 1..Len(stack[r]) /\ Len(stack[r]) <= MaxDepth
  BY StackFacts DEF FramesType
<1>2. i \in 1..MaxDepth
  BY <1>1, FramesAssumption
<1> QED BY <1>2 DEF Frames, Frame

\* Every allocator alive belongs to exactly one top frame alive, and neither
\* __k_tls_alloc nor __prev_alloc_ refers to one that was freed.
THEOREM AllocatorsOwnedHolds == Spec => []AllocatorsOwned
<1>1. FramesInv => AllocatorsOwned
  <2> SUFFICES ASSUME FramesInv, ~fault
               PROVE  /\ \A a \in DOMAIN alloc : Cardinality({x \in FramesOf(a) : Frame(x).top}) = 1
                      /\ {tls, prev} \subseteq DOMAIN alloc \union {NULL}
                      /\ \A x \in Frames : Frame(x).owner \in DOMAIN alloc
    BY DEF AllocatorsOwned
  <2>1. FramesType /\ OwnerInv /\ ApartInv
    BY DEF FramesInv
  <2>2. ASSUME NEW a \in DOMAIN alloc
        PROVE  Cardinality({x \in FramesOf(a) : Frame(x).top}) = 1
    <3>1. PICK r \in Root : \E i \in DOMAIN stack[r] : stack[r][i].owner = a /\ stack[r][i].top
      BY <2>1 DEF ApartInv
    <3>2. PICK i \in DOMAIN stack[r] : stack[r][i].owner = a /\ stack[r][i].top
      BY <3>1
    <3>3. <<r, i>> \in {x \in FramesOf(a) : Frame(x).top}
      BY <2>1, <3>2, FramesAll DEF FramesOf
    <3>4. ASSUME NEW x \in FramesOf(a), Frame(x).top PROVE x = <<r, i>>
      <4>0. PICK s \in Root : \E j \in DOMAIN stack[s] : x = <<s, j>> /\ Frame(x) = stack[s][j]
        BY <2>1, FramesAre DEF FramesOf
      <4>1. PICK j \in DOMAIN stack[s] : x = <<s, j>> /\ Frame(x) = stack[s][j]
        BY <4>0
      <4>2. stack[s][j].owner = a
        BY <4>1 DEF FramesOf
      <4> QED BY <2>1, <3>2, <3>4, <4>1, <4>2 DEF ApartInv
    <3>5. {x \in FramesOf(a) : Frame(x).top} = {<<r, i>>}
      BY <3>3, <3>4
    <3>6. Cardinality({<<r, i>>}) = 1
      BY FS_Singleton
    <3> QED BY <3>5, <3>6
  <2>3. tls \in DOMAIN alloc \union {NULL} /\ prev \in DOMAIN alloc \union {NULL}
    BY <2>1 DEF FramesType, OwnerInv, Base
  <2>4. \A x \in Frames : Frame(x).owner \in DOMAIN alloc
    BY <2>1, FramesAre DEF OwnerInv
  <2> QED BY <2>2, <2>3, <2>4
<1> QED BY <1>1, FramesInvHolds, PTL

\* The frames of an allocator lie within its chunks, apart from each other and
\* from what it gives out next, for all sizes, orders of calls and returns, and
\* numbers of chunks.
THEOREM FramesApartHolds == Spec => []FramesApart
<1>1. FramesInv /\ LayoutInv => FramesApart
  <2> SUFFICES ASSUME FramesInv, LayoutInv, ~fault, NEW a \in DOMAIN alloc, NEW x \in FramesOf(a)
               PROVE  LET p == Frame(x).place
                      IN /\ p.at + p.size <= alloc[a].caps[p.chunk]
                         /\ p.chunk < alloc[a].cur \/ (p.chunk = alloc[a].cur /\ p.at + p.size <= alloc[a].bump)
                         /\ \A y \in FramesOf(a) \ {x} : Apart(p, Frame(y).place)
    BY DEF FramesApart
  <2>1. FramesType /\ PlaceInv /\ DisjointInv
    BY DEF FramesInv, LayoutInv
  <2>0. PICK r \in Root : \E i \in DOMAIN stack[r] : x = <<r, i>> /\ Frame(x) = stack[r][i]
    BY <2>1, FramesAre DEF FramesOf
  <2>2. PICK i \in DOMAIN stack[r] : x = <<r, i>> /\ Frame(x) = stack[r][i]
    BY <2>0
  <2>3. stack[r][i].owner = a
    BY <2>2 DEF FramesOf
  <2>4. Placed(stack[r][i].place, alloc[a])
    BY <2>1, <2>3 DEF PlaceInv
  <2>5. ASSUME NEW y \in FramesOf(a) \ {x} PROVE Apart(stack[r][i].place, Frame(y).place)
    <3>0. PICK s \in Root : \E j \in DOMAIN stack[s] : y = <<s, j>> /\ Frame(y) = stack[s][j]
      BY <2>1, FramesAre DEF FramesOf
    <3>1. PICK j \in DOMAIN stack[s] : y = <<s, j>> /\ Frame(y) = stack[s][j]
      BY <3>0
    <3>2. stack[s][j].owner = a
      BY <3>1 DEF FramesOf
    <3> QED BY <2>1, <2>2, <2>3, <3>1, <3>2 DEF DisjointInv
  <2> QED BY <2>2, <2>4, <2>5 DEF Placed, Below
<1> QED BY <1>1, FramesInvHolds, PTL
=============================================================================
