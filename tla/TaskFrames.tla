------------------------------ MODULE TaskFrames ------------------------------
(***************************************************************************)
(* Coroutine frames and the memory they live in: the stack allocator of     *)
(* __core/__allocator.hpp, operator new and delete of __task.hpp, which     *)
(* find it through __k_tls_alloc, and the two places that change            *)
(* __k_tls_alloc around them: _M_do_execute of __task_facade.hpp and the     *)
(* spawn of __spawn.hpp.                                                    *)
(*                                                                         *)
(* One thread, the scheduler's.  A root is a task given to __async_spawn; a  *)
(* task calls another in the expression that awaits it.  Sizes count the     *)
(* 16 bytes of __STDCPP_DEFAULT_NEW_ALIGNMENT__, the size of both prefixes;  *)
(* the size of a frame includes its prefix.                                 *)
(***************************************************************************)
EXTENDS Integers, Sequences, FiniteSets, FiniteSetsExt

CONSTANTS Root,      \* tasks given to __async_spawn
          Sizes,     \* sizes of frames
          MinCap,    \* __min_capacity_
          MaxDepth,  \* bound: frames of a root alive at once
          Alloc      \* names of allocators

NULL == 0
NoRoot == 0

ASSUME FramesAssumption ==
    /\ Sizes \subseteq Nat \ {0} /\ MinCap \in Nat \ {0} /\ MaxDepth \in Nat \ {0}
    /\ Alloc \subseteq Nat \ {NULL} /\ NoRoot \notin Root

VARIABLES
    alloc,    \* __chunk_, __cur_chunk_, __cur_bump_, __next_cap_ of every allocator alive
    tls,      \* __k_tls_alloc
    stack,    \* frames of every root, innermost last
    running,  \* the root being resumed, or NoRoot: the loop runs
    prev,     \* __prev_alloc_ of the facade that resumes it
    fault     \* a null pointer, freed memory or an object never constructed was used

vars == <<alloc, tls, stack, running, prev, fault>>

\* an allocator that has allocated nothing: __cur_chunk_ is null
Fresh == [caps |-> <<>>, cur |-> 0, bump |-> 0, next |-> MinCap]

Init ==
    /\ alloc = [a \in {} |-> Fresh] /\ tls = NULL
    /\ stack = [r \in Root |-> <<>>] /\ running = NoRoot /\ prev = NULL
    /\ fault = FALSE

-----------------------------------------------------------------------------
(* __allocator.                                                              *)

\* _M_allocate_chunk
_M_allocate_chunk(A, n) ==
    LET cap == Max({A.next, n})
    IN [A EXCEPT !.caps = Append(@, cap), !.next = 2 * cap]

Started(A, n) == IF A.cur = 0 THEN [_M_allocate_chunk(A, n) EXCEPT !.cur = 1] ELSE A

\* the prefix is counted twice: in n, and before __r
Fits(A, c, n) == (IF c = A.cur THEN A.bump ELSE 0) + 1 + n <= A.caps[c]

Room(A, n) == {c \in A.cur..Len(A.caps) : Fits(A, c, n)}

\* a new chunk has room, or the one after it, twice as large
Grown(A, n) ==
    LET B == _M_allocate_chunk(A, n)
    IN IF Room(A, n) # {} THEN A ELSE IF Room(B, n) # {} THEN B ELSE _M_allocate_chunk(B, n)

\* _M_push_stack_frame: the first chunk with room, from the current one on; the
\* prefix of the frame remembers where the allocator stood
_M_push_stack_frame(A, n) ==
    LET S == Started(A, n)
        G == Grown(S, n)
        c == Min(Room(G, n))
        at == IF c = G.cur THEN G.bump ELSE 0
    IN [alloc |-> [G EXCEPT !.cur = c, !.bump = at + n],
        frame |-> [chunk |-> c, at |-> at, size |-> n, savedCur |-> S.cur, savedBump |-> S.bump]]

\* fault: the position in the chunk before is not restored
PopChunk(A, f) == [A EXCEPT !.cur = f.savedCur]

_M_pop_stack_frame(A, f) == [A EXCEPT !.cur = f.savedCur, !.bump = f.savedBump]

-----------------------------------------------------------------------------
(* __promise_new_delete.                                                     *)

\* operator new: without an allocator the frame is a top frame and gets one
NewAlloc == IF tls = NULL THEN Min(Alloc \ DOMAIN alloc) ELSE tls

\* kept: the frame outlives a return to the loop
New(r, n, kept) ==
    LET p == _M_push_stack_frame(IF tls = NULL THEN Fresh ELSE alloc[tls], n)
        f == [place |-> p.frame, owner |-> NewAlloc, top |-> tls = NULL, kept |-> kept]
    IN /\ tls = NULL => Alloc # DOMAIN alloc
       /\ alloc' = [b \in DOMAIN alloc \union {NewAlloc} |->
                       IF b = NewAlloc THEN p.alloc ELSE alloc[b]]
       /\ stack' = [stack EXCEPT ![r] = Append(@, f)]

\* fault: the allocator is freed under __k_tls_alloc
Dangling(a) == a

AfterTop(a) == NULL

\* ~__allocator
Freed(a) == [b \in DOMAIN alloc \ {a} |-> alloc[b]]

\* operator delete: a top frame takes its allocator along; any other frame is
\* popped from __k_tls_alloc, whatever that is
Delete(f) ==
    IF f.top THEN
        /\ alloc' = Freed(f.owner)
        /\ tls' = AfterTop(f.owner)
        /\ UNCHANGED fault
    ELSE IF tls = NULL THEN
        /\ fault' = TRUE
        /\ UNCHANGED <<alloc, tls>>
    ELSE
        /\ alloc' = [alloc EXCEPT ![tls] = _M_pop_stack_frame(@, f.place)]
        /\ UNCHANGED <<tls, fault>>

-----------------------------------------------------------------------------
\* fault: the resumed root sees the allocator of the loop
Inherited(a) == a

Cleared(a) == NULL

\* __async_spawn of a new task: operator new in the loop, then _M_do_execute
Spawn(r, n) ==
    /\ ~fault /\ running = NoRoot /\ stack[r] = <<>>
    /\ New(r, n, TRUE)
    /\ prev' = NewAlloc
    /\ tls' = Cleared(NewAlloc)
    /\ running' = r
    /\ UNCHANGED fault

\* _M_do_execute when an operation of the root has completed
Resume(r) ==
    /\ ~fault /\ running = NoRoot /\ stack[r] # <<>>
    /\ prev' = tls
    /\ tls' = Cleared(tls)
    /\ running' = r
    /\ UNCHANGED <<alloc, stack, fault>>

\* the innermost task of the running root calls and awaits another
Call(n) ==
    /\ ~fault /\ running # NoRoot /\ Len(stack[running]) < MaxDepth
    /\ New(running, n, FALSE)
    /\ tls' = NewAlloc
    /\ UNCHANGED <<running, prev, fault>>

\* it awaits the kernel: the root is suspended and _M_do_execute returns
Suspend ==
    /\ ~fault /\ running # NoRoot
    /\ stack' = [stack EXCEPT ![running] = [i \in DOMAIN @ |-> [@[i] EXCEPT !.kept = TRUE]]]
    /\ tls' = prev /\ prev' = NULL
    /\ running' = NoRoot
    /\ UNCHANGED <<alloc, fault>>

\* it returns to the task that awaits it, whose await expression destroys the frame
Return ==
    /\ ~fault /\ running # NoRoot /\ Len(stack[running]) > 1
    /\ Delete(stack[running][Len(stack[running])])
    /\ stack' = [stack EXCEPT ![running] = SubSeq(@, 1, Len(@) - 1)]
    /\ UNCHANGED <<running, prev>>

\* a root that returns destroys a __fwd_ that spawning never constructed, and
\* the facade whose _M_do_execute is still to read __prev_alloc_
ReturnRoot ==
    /\ ~fault /\ running # NoRoot /\ Len(stack[running]) = 1
    /\ fault' = TRUE
    /\ UNCHANGED <<alloc, tls, stack, running, prev>>

Next ==
    \/ \E r \in Root : Resume(r) \/ \E n \in Sizes : Spawn(r, n)
    \/ \E n \in Sizes : Call(n)
    \/ Suspend \/ Return \/ ReturnRoot

Spec == Init /\ [][Next]_vars

-----------------------------------------------------------------------------
(* Properties.                                                               *)

Frames == {x \in Root \X (1..MaxDepth) : x[2] \in DOMAIN stack[x[1]]}

Frame(x) == stack[x[1]][x[2]]

FramesOf(a) == {x \in Frames : Frame(x).owner = a}

Apart(p, q) == p.chunk = q.chunk => p.at + p.size <= q.at \/ q.at + q.size <= p.at

\* The frames of an allocator lie within its chunks, share no byte with each
\* other, and none with what it gives out next, through growth, chunks skipped
\* and chunks used again.
FramesApart ==
    ~fault => \A a \in DOMAIN alloc : \A x \in FramesOf(a) :
        LET p == Frame(x).place
        IN /\ p.at + p.size <= alloc[a].caps[p.chunk]
           /\ p.chunk < alloc[a].cur \/ (p.chunk = alloc[a].cur /\ p.at + p.size <= alloc[a].bump)
           /\ \A y \in FramesOf(a) \ {x} : Apart(p, Frame(y).place)

Innermost == stack[running][Len(stack[running])]

\* While a root runs, __k_tls_alloc is the allocator of its innermost frame if
\* that frame was called since the root was resumed, and null otherwise: a
\* frame that is not a top frame is destroyed safely exactly when it has not
\* been kept over a suspension.
OwnAllocator ==
    ~fault /\ running # NoRoot =>
        tls = IF Innermost.kept THEN NULL ELSE Innermost.owner

\* Every allocator alive belongs to exactly one top frame alive, so none leaks
\* and none is freed twice, and neither __k_tls_alloc nor the __prev_alloc_ to
\* be restored refers to one that was freed.
AllocatorsOwned ==
    ~fault =>
        /\ \A a \in DOMAIN alloc : Cardinality({x \in FramesOf(a) : Frame(x).top}) = 1
        /\ {tls, prev} \subseteq DOMAIN alloc \union {NULL}
        /\ \A x \in Frames : Frame(x).owner \in DOMAIN alloc
=============================================================================
