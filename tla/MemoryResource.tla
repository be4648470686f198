---------------------------- MODULE MemoryResource ----------------------------
(***************************************************************************)
(* The pool of reference-counted blocks of __core/__memory_resource.hpp:   *)
(* the remote source all threads share (a ring of batches, head and tail   *)
(* in one word, a counter and an atomic queue per slot), and the local     *)
(* source of every thread.                                                 *)
(*                                                                         *)
(* A step is one access to memory another thread uses.  A load that a      *)
(* compare-exchange confirms is one step with it; failed exchanges stutter. *)
(* A queue is the number of blocks on it: AtomicQueue checks that its      *)
(* operations are atomic and keep the nodes apart, and free blocks are     *)
(* alike.  A block has a name, its address, only while it is used.         *)
(***************************************************************************)
EXTENDS Integers, FiniteSets

CONSTANTS Thread,
          Exiting,     \* the threads that may end
          T, N, M, K,  \* __T_, __N_, __M_, __K_
          Wrap,        \* where head and tail wrap: 2^32 in the code
          U32,         \* where __count_ wraps: 2^32 in the code
          Units,       \* size of a block: 4096 bytes in the code
          Sizes,       \* the lengths a thread asks for
          MaxMaps,     \* bound: calls of __remote_source::_M_allocate
          MaxSpans,    \* bound: subranges alive at once
          MaxCount     \* bound: __count_ is refilled below it

Block == 1..(M * MaxMaps)
NoBlock == 0
Slot == 0..(K - 1)

ASSUME PoolAssumption ==
    /\ IsFiniteSet(Thread) /\ {T, N, M, K, Units} \subseteq Nat \ {0} /\ {MaxMaps, MaxSpans, MaxCount} \subseteq Nat
    /\ K * T = N * M /\ MaxMaps <= N
    /\ Sizes \subseteq 1..Units
    /\ \E c \in 2..Wrap : Wrap = c * K
    /\ U32 \in Nat /\ MaxCount + T < U32

VARIABLES
    head, tail,  \* __state_
    slotn,       \* __n_ of every slot
    slotq,       \* length of __queue_ of every slot
    maps,        \* __remote_source::__n_
    use,         \* __use_count_ of every block
    spans,       \* the __shared_block_subrange objects alive, with names
    queue,       \* length of __local_source::__queue_ of every thread
    consume, bump, count,  \* its other fields
    pc,          \* where a thread stands
    then,        \* where it goes on after the _M_push or _M_prepend in progress
    need,        \* __n of the _M_acquire in progress, 0 if none
    hand,        \* number of blocks it is moving: __blk of _M_push and _M_prepend, __r of a pop
    slot,        \* index of __q
    n,           \* __n of _M_push and _M_prepend
    fault        \* _M_prepend has left the bounds of __ptr or of its list: nothing is known after it

remoteVars == <<head, tail, slotn, slotq, maps>>
localVars == <<queue, consume, bump, count>>
threadVars == <<pc, then, need, hand, slot, n>>
vars == <<remoteVars, use, spans, localVars, threadVars, fault>>

Init ==
    /\ head = 0 /\ tail = 0 /\ maps = 0
    /\ slotn = [s \in Slot |-> 0] /\ slotq = [s \in Slot |-> 0]
    /\ use = [b \in Block |-> 0] /\ spans = {}
    /\ queue = [t \in Thread |-> 0] /\ consume = [t \in Thread |-> NoBlock]
    /\ bump = [t \in Thread |-> Units] /\ count = [t \in Thread |-> 0]
    /\ pc = [t \in Thread |-> "idle"] /\ then = [t \in Thread |-> "idle"]
    /\ need = [t \in Thread |-> 0] /\ hand = [t \in Thread |-> 0]
    /\ slot = [t \in Thread |-> 0] /\ n = [t \in Thread |-> 0]
    /\ fault = FALSE

\* the registers of a finished ring operation are not kept
Forget(t) == slot' = [slot EXCEPT ![t] = 0] /\ n' = [n EXCEPT ![t] = 0]

At(t, where) == pc[t] = where /\ ~fault
Goto(t, where) == pc' = [pc EXCEPT ![t] = where]

-----------------------------------------------------------------------------
(* __remote_source.                                                          *)

\* _M_try_pop_swap_reversed: the exchange that claims the slot at the tail
TryPop(t) ==
    /\ At(t, "pop") /\ head # tail
    /\ slot' = [slot EXCEPT ![t] = tail % K]
    /\ tail' = (tail + 1) % Wrap
    /\ Goto(t, "take")
    /\ UNCHANGED <<head, slotn, slotq, maps, use, spans, localVars, then, need, hand, n, fault>>

\* an empty result: try again, or map after __spin_threshold_ empty results
Retry(t) == Goto(t, "pop") \/ Goto(t, "map")

TryPopEmpty(t) ==
    /\ At(t, "pop") /\ head = tail
    /\ Retry(t)
    /\ UNCHANGED <<remoteVars, use, spans, localVars, then, need, hand, slot, n, fault>>

\* then the whole queue of the slot is taken
PopTake(t) ==
    /\ At(t, "take")
    /\ hand' = [hand EXCEPT ![t] = slotq[slot[t]]]
    /\ slotq' = [slotq EXCEPT ![slot[t]] = 0]
    /\ Goto(t, "reset")
    /\ UNCHANGED <<head, tail, slotn, maps, use, spans, localVars, then, need, slot, n, fault>>

\* and its counter reset; a batch goes to the local queue, whatever its size
PopReset(t) ==
    /\ At(t, "reset")
    /\ slotn' = [slotn EXCEPT ![slot[t]] = 0]
    /\ IF hand[t] = 0 THEN Retry(t) /\ UNCHANGED <<queue, count, hand>>
       ELSE /\ queue' = [queue EXCEPT ![t] = @ + hand[t]]
            /\ count' = [count EXCEPT ![t] = (@ + T) % U32]
            /\ hand' = [hand EXCEPT ![t] = 0]
            /\ Goto(t, "refill")
    /\ Forget(t)
    /\ UNCHANGED <<head, tail, slotq, maps, use, spans, consume, bump, then, need, fault>>

\* _M_allocate: a mapping of M fresh blocks, to be prepended batch by batch
Map(t) ==
    /\ At(t, "map") /\ maps < MaxMaps
    /\ maps' = maps + 1
    /\ hand' = [hand EXCEPT ![t] = M]
    /\ then' = [then EXCEPT ![t] = "prepend"]
    /\ Goto(t, "prepend")
    /\ UNCHANGED <<head, tail, slotn, slotq, use, spans, localVars, need, slot, n, fault>>

\* _M_push and _M_prepend load the head, and go on with its slot although the
\* head may move; _M_prepend returns to the pop when its list is empty
LoadHead(t) ==
    /\ At(t, "push") \/ At(t, "prepend")
    /\ IF hand[t] = 0 THEN Goto(t, "pop") /\ UNCHANGED slot
       ELSE /\ slot' = [slot EXCEPT ![t] = head % K]
            /\ Goto(t, IF pc[t] = "push" THEN "pushLoad" ELSE "fill")
    /\ UNCHANGED <<remoteVars, use, spans, localVars, then, need, hand, n, fault>>

\* _M_push: a full slot sends it back to load the head again
PushLoad(t) ==
    /\ At(t, "pushLoad")
    /\ Goto(t, IF slotn[slot[t]] = T THEN "push" ELSE "pushCount")
    /\ UNCHANGED <<remoteVars, use, spans, localVars, then, need, hand, slot, n, fault>>

\* the exchange loop counts the block whatever __n it finds by then, __T_ included
PushCount(t) ==
    /\ At(t, "pushCount")
    /\ n' = [n EXCEPT ![t] = slotn[slot[t]]]
    /\ slotn' = [slotn EXCEPT ![slot[t]] = @ + 1]
    /\ Goto(t, "pushLink")
    /\ UNCHANGED <<head, tail, slotq, maps, use, spans, localVars, then, need, hand, slot, fault>>

PushLink(t) ==
    /\ At(t, "pushLink")
    /\ slotq' = [slotq EXCEPT ![slot[t]] = @ + hand[t]]
    /\ hand' = [hand EXCEPT ![t] = 0]
    /\ Goto(t, IF n[t] + 1 = T THEN "publish" ELSE then[t])
    /\ Forget(t)
    /\ UNCHANGED <<head, tail, slotn, maps, use, spans, localVars, then, need, fault>>

\* _M_prepend: claim what is left of the slot, or load the head again
Fill(t) ==
    /\ At(t, "fill")
    /\ IF slotn[slot[t]] = T THEN Goto(t, "prepend") /\ UNCHANGED <<slotn, n>>
       ELSE /\ n' = [n EXCEPT ![t] = slotn[slot[t]]]
            /\ slotn' = [slotn EXCEPT ![slot[t]] = T]
            /\ Goto(t, "splice")
    /\ UNCHANGED <<head, tail, slotq, maps, use, spans, localVars, then, need, hand, slot, fault>>

\* fault: the blocks are handed on and kept
KeepAll(blocks, r) == blocks

Remaining(blocks, r) == blocks - r

\* __ptr[__k + __r - 1] is the last of the next T - n blocks: past the end of
\* __ptr when fewer are left, and wild when the slot counted past T
Splice(t) ==
    /\ At(t, "splice")
    /\ IF T - n[t] \in 1..hand[t] THEN
         /\ slotq' = [slotq EXCEPT ![slot[t]] = @ + (T - n[t])]
         /\ hand' = [hand EXCEPT ![t] = Remaining(@, T - n[t])]
         /\ Goto(t, "publish")
         /\ UNCHANGED fault
       ELSE fault' = TRUE /\ UNCHANGED <<slotq, hand, pc>>
    /\ Forget(t)
    /\ UNCHANGED <<head, tail, slotn, maps, use, spans, localVars, then, need>>

\* head is advanced, whichever slot it has reached by now; it is the low half of
\* the word that is added to, so that its wrap carries into the tail
Publish(t) ==
    /\ At(t, "publish")
    /\ head' = (head + 1) % Wrap
    /\ tail' = IF head' = 0 THEN (tail + 1) % Wrap ELSE tail
    /\ Goto(t, then[t])
    /\ UNCHANGED <<slotn, slotq, maps, use, spans, localVars, then, need, hand, slot, n, fault>>

-----------------------------------------------------------------------------
(* __local_source.                                                           *)

\* _M_release of a block nobody uses: to the local queue while it holds fewer
\* than T, else _M_push; where is where the caller goes on
ReleaseBlock(t, where) ==
    IF count[t] < T THEN
        /\ queue' = [queue EXCEPT ![t] = @ + 1]
        /\ count' = [count EXCEPT ![t] = @ + 1]
        /\ Goto(t, where)
        /\ UNCHANGED <<hand, then>>
    ELSE
        /\ hand' = [hand EXCEPT ![t] = 1]
        /\ then' = [then EXCEPT ![t] = where]
        /\ Goto(t, "push")
        /\ UNCHANGED <<queue, count>>

LastReference(c) == c = 1

\* one reference to b is given up, and b with the last one
DropReference(t, b, where) ==
    /\ use' = [use EXCEPT ![b] = @ - 1]
    /\ IF LastReference(use[b]) THEN ReleaseBlock(t, where)
       ELSE Goto(t, where) /\ UNCHANGED <<queue, count, hand, then>>

\* a new __shared_block_subrange object, with a name that none alive has
NewId == CHOOSE i \in 1..(Cardinality(spans) + 1) : \A s \in spans : s.id # i
Subrange(b, offset, len) ==
    [id |-> NewId, block |-> b, offset |-> offset, len |-> len, cut |-> FALSE]

Bumped(at, len) == at + len

\* fault: the new subrange is not counted
Uncounted(c) == c

Shared(c) == c + 1

\* _M_acquire when the block in use has room
Acquire(t, len) ==
    /\ At(t, "idle") /\ Cardinality(spans) < MaxSpans
    /\ bump[t] + len <= Units
    /\ use' = [use EXCEPT ![consume[t]] = Shared(@)]
    /\ spans' = spans \union {Subrange(consume[t], bump[t], len)}
    /\ bump' = [bump EXCEPT ![t] = Bumped(@, len)]
    /\ UNCHANGED <<remoteVars, queue, consume, count, threadVars, fault>>

\* _M_acquire when it has not: _M_allocate gives up the block in use
AcquireMiss(t, len) ==
    /\ At(t, "idle") /\ Cardinality(spans) < MaxSpans
    /\ bump[t] + len > Units
    /\ need' = [need EXCEPT ![t] = len]
    /\ IF consume[t] = NoBlock THEN Goto(t, "refill") /\ UNCHANGED <<use, queue, count, hand, then>>
       ELSE DropReference(t, consume[t], "refill")
    /\ UNCHANGED <<remoteVars, spans, consume, bump, slot, n, fault>>

\* bound: short batches let __count_, which counts T for each, grow without limit
\* in the code; here the remote source is asked while it is below MaxCount, or -1
CountBound(t) == count[t] < MaxCount \/ count[t] = U32 - 1

\* _M_allocate: an empty local queue asks the remote source
Refill(t) ==
    /\ At(t, "refill") /\ queue[t] = 0 /\ CountBound(t)
    /\ Goto(t, "pop")
    /\ UNCHANGED <<remoteVars, use, spans, localVars, then, need, hand, slot, n, fault>>

\* the name of the next block to be used
Fresh == CHOOSE b \in Block : use[b] = 0

\* else its front becomes the block in use, with one reference for that and
\* one for the subrange
AcquireFresh(t) ==
    /\ At(t, "refill") /\ queue[t] > 0
    /\ queue' = [queue EXCEPT ![t] = @ - 1]
    /\ consume' = [consume EXCEPT ![t] = Fresh]
    /\ use' = [use EXCEPT ![Fresh] = Shared(@ + 1)]
    /\ spans' = spans \union {Subrange(Fresh, 0, need[t])}
    /\ bump' = [bump EXCEPT ![t] = Bumped(0, need[t])]
    /\ count' = [count EXCEPT ![t] = (@ - 1) % U32]
    /\ need' = [need EXCEPT ![t] = 0]
    /\ Goto(t, "idle")
    /\ UNCHANGED <<remoteVars, then, hand, slot, n, fault>>

\* __release
Release(t, s) ==
    /\ At(t, "idle")
    /\ spans' = spans \ {s}
    /\ DropReference(t, s.block, "idle")
    /\ UNCHANGED <<remoteVars, consume, bump, need, slot, n, fault>>

\* __splice_prefix: the rest keeps its __len_, past what it was given (cut)
SplicePrefix(s, len) ==
    /\ ~fault /\ ~s.cut /\ len <= s.len /\ Cardinality(spans) < MaxSpans
    /\ use' = [use EXCEPT ![s.block] = Shared(@)]
    /\ spans' = (spans \ {s}) \union {Subrange(s.block, s.offset, len),
                    [s EXCEPT !.offset = @ + len, !.cut = TRUE]}
    /\ UNCHANGED <<remoteVars, localVars, threadVars, fault>>

\* ~__local_source: the reference goes without a release, the queue is cleared
Exit(t) ==
    /\ At(t, "idle") /\ t \in Exiting
    /\ use' = IF consume[t] = NoBlock THEN use ELSE [use EXCEPT ![consume[t]] = @ - 1]
    /\ queue' = [queue EXCEPT ![t] = 0]
    /\ Goto(t, "gone")
    /\ UNCHANGED <<remoteVars, spans, consume, bump, count, then, need, hand, slot, n, fault>>

-----------------------------------------------------------------------------
ThreadStep(t) ==
    \/ TryPop(t) \/ TryPopEmpty(t) \/ PopTake(t) \/ PopReset(t) \/ Map(t)
    \/ LoadHead(t) \/ PushLoad(t) \/ PushCount(t) \/ PushLink(t)
    \/ Fill(t) \/ Splice(t) \/ Publish(t)
    \/ Refill(t) \/ AcquireFresh(t) \/ Exit(t)

Next ==
    \/ \E t \in Thread :
         \/ ThreadStep(t)
         \/ \E len \in Sizes : Acquire(t, len) \/ AcquireMiss(t, len)
         \/ \E s \in spans : Release(t, s)
    \/ \E s \in spans, len \in 1..Units : SplicePrefix(s, len)

Spec == Init /\ [][Next]_vars

-----------------------------------------------------------------------------
(* Properties.                                                               *)

\* t allocates from b: until _M_allocate or the end of the thread gives it up
Consumes(t, b) == consume[t] = b /\ need[t] = 0 /\ pc[t] # "gone"
Consumers(b) == {t \in Thread : Consumes(t, b)}
Subranges(b) == {s \in spans : s.block = b}

\* the sum of f over S: the number of its pairs <<x, i>> with i up to f[x]
Sum(f, S) == Cardinality(UNION {{x} \X (1..f[x]) : x \in S})

InUse == {b \in Block : use[b] > 0}

Held == Sum(slotq, Slot) + Sum(queue, Thread) + Sum(hand, Thread) + Cardinality(InUse)

\* Whatever the order of pushes, pops and stale heads, no block is lost and none
\* is in two places: the blocks on the queues, those threads are moving and
\* those in use are the blocks mapped.  Only a thread that ended takes some along.
BlocksConserved ==
    IF \E t \in Thread : pc[t] = "gone" THEN Held <= M * maps ELSE Held = M * maps

UseCountExact ==
    \A b \in Block : use[b] = Cardinality(Subranges(b)) + Cardinality(Consumers(b))

Bytes(s) == s.offset..(s.offset + s.len - 1)

Disjoint ==
    \A s \in spans : ~s.cut =>
        /\ s.offset + s.len <= Units
        /\ \A u \in spans \ {s} : u.block = s.block /\ ~u.cut => Bytes(s) \intersect Bytes(u) = {}
        /\ \A t \in Thread : Consumes(t, s.block) => s.offset + s.len <= bump[t]

\* A subrange keeps its memory to itself while it lives: __use_count_ is the
\* number of subranges of a block plus the threads that allocate from it, so the
\* block is recycled after the last of them, and no two subranges share a byte
\* or reach into what the block still has to give.  The rest __splice_prefix
\* leaves is the exception, because its __len_ is not reduced.
SubrangesSafe == UseCountExact /\ Disjoint

\* What test/__core/__memory_resource.cxx:70 asks of acquire and release, that
\* they must not crash: __ptr is only read inside its bounds and T is not exceeded.
NoCrash == ~fault
=============================================================================
