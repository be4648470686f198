# TLA+ models of `__ngr`

`__ngr` is a small C++ coroutine runtime on Linux `io_uring`: a single-threaded
event loop per ring, stop (cancellation) sources with callbacks, intrusive
lock-free queues that carry tasks between threads, a timer heap, and pooled
memory for I/O buffers and coroutine frames. This directory models the parts
that carry its concurrency, checks them with TLC and proves their safety
properties, those of the timer heap excepted, for every value of the constants
with TLAPS. Paths below are relative to `src/include/__ngr/__core/` unless they
start with `src/`.

## Inventory

| Component | State | Operations | Hard behaviour |
|---|---|---|---|
| Stop source `__stop_inplace.hpp` | flag byte (stop, lock), doubly linked callback list, `__notify_` | `_M_request_stop`, construct/destroy a callback | a destructor racing the execution of its callback; registration racing the request |
| Scheduler `__scheduler.hpp` | `__state_`, in-flight gate, two counters, pending queues, timer heap, the rings | `_M_run_until_stop` (accept, reap, submit, enter, shut down), local and remote `_M_submit`, `_M_notify`, `_M_request_stop` | wake-ups, shutdown with submissions in flight, partial and interrupted `io_uring_enter`, multishot and cancel completions |
| Atomic intrusive queue `__atomic_intrusive_queue.hpp` | one atomic head | `_M_push_front`, `_M_prepend`, `_M_pop_swap`, `_M_pop_swap_reversed` | compare-exchange loops, nodes reused after a pop |
| Intrusive queue `__intrusive_queue.hpp` | head, tail | push, pop, append, prepend, create, reverse, splice | pointer surgery at empty and one-element queues |
| Intrusive heap `__intrusive_heap.hpp` | root, size, three links per node | `_M_push`, `_M_pop`, `_M_remove` | removal from the middle, links of neighbours |
| MPSC queue `__intrusive_mpsc_queue.hpp` | head, tail, stub | `_M_push_back`, `_M_pop_front` | a consumer overtaking a half-finished push |
| Segment array `__atomic_segment_array.hpp` | segments, two counters | `_M_push_back`, `_M_fold_inplace` | publication order, racing segment allocation |
| Memory resource `__memory_resource.hpp` | lock-free block ring (head/tail in one word), per-thread free list, reference counts | remote push/pop/prepend/allocate, local acquire/release | stale head, counter overflow, blocks lost or shared |
| Frame allocator `__allocator.hpp` | chunk list as a stack | push/pop of frames | frame sizes at the chunk boundary |
| Coroutine task `__task.hpp`, `__spawn.hpp`, `__task_facade.hpp` | promise, continuation, forwarded stop, thread-local allocator | await, final suspend, resume | stop forwarding while the child finishes |
| Receive and accept `src/source/main.cxx` | buffer ring, offsets, parked coroutine | submit, complete, replenish, await | completions before anybody waits |
| Circular buffer, protocol size classes, messages | — | index arithmetic | boundaries |

Remote threads push tasks to atomic queues registered in a segment array; the
loop folds them into its pending queue, hands tasks to the submission ring, and
resumes coroutines from completions, which submit further tasks. Stop sources
are chained: a coroutine's source is stopped by a callback on its parent's.
The timer heap bounds the loop's sleep. The server's receiver is a coroutine on
the scheduler: its multishot request fills the slots of a buffer ring, every
completion resumes it, and what it awaits next is submitted by a callback that
runs after the resumption. Coroutine frames come from a stack allocator that
operator new finds through a thread-local pointer, which every resumption saves,
clears and restores. The block pool stands beside this: buffers for I/O, shared
by reference count, recycled through a per-thread list and a ring all threads
share.

Properties that make each component correct: the stop source must execute every
registered callback once or let its destructor return, never both at once; the
scheduler must resume every task exactly once, never sleep through a
submission, never strand an admitted task at shutdown and keep its counters
equal to what the rings hold; the queues must neither lose nor duplicate nor
reorder nodes; the heap must keep its order and links under removal; the memory
resource must hand no block to two owners and lose none; frames must not
overlap, and be freed to the allocator they came from; the receiver must read
the stream as it was sent, with one request at a time, for as long as the peer
sends.

## Modules

| Module | Role |
|---|---|
| `StopSource` | the stop source and its callbacks, one memory access per step |
| `StopPromise` | what a stop source promises, without lock or list |
| `Scheduler` | the event loop, remote submitters, and the kernel's side of the ring (external) |
| `IntrusiveHeap`, `PrioritySet` | the timer heap on its links, and the set it stands for |
| `AtomicQueue`, `TaskLists` | the atomic and the private intrusive queues on their links, and the sequences they stand for |
| `MpscQueue`, `Fifo` | the MPSC queue on its links, and the sequence it stands for |
| `MemoryResource` | the block pool: remote ring, local lists, reference counts |
| `TaskFrames` | coroutine frames, the stack allocator, and the thread-local pointer to it |
| `Server` | accept and receive of `src/source/main.cxx`, the peer and the kernel's buffer ring (external) |
| `StopSourceProofs`, `SchedulerProofs`, `ServerProofs`, `TaskFramesProofs`, `AtomicQueueProofs`, `MpscQueueProofs`, `MemoryResourceProofs` | the theorems about the module of that name |
| `SequenceFacts` | lemmas about sequences and counting that these proofs share |
| `MCStopSource`, `MCScheduler`, `MCIntrusiveHeap`, `MCAtomicQueue`, `MCMpscQueue`, `MCMemoryResource` | instances for TLC; `Server` and `TaskFrames` need none. One `.cfg` per run |

Definitions marked `fault:` or `variant:` in a module are altered forms of the
definition that follows them. No specification uses them; they show that a
property would notice the mistake.

Atomics are modelled as sequentially consistent. Where the code uses relaxed
accesses (`__state_` and `__n_submit_in_flight_` of the scheduler) the model
therefore says nothing about reordering by the hardware.

### StopSource

State: `state` is `__state_` (bit 1 stop, bit 2 lock), `callback` the list head,
`notify` is `__notify_`; `next`, `prev`, `completed` and `attached` are the
fields of every callback (`prev` names the pointer `__prev_` points to: `HEAD`
for `__callback_`, or the callback whose `__next_` it is). `cpc` and `rpc` say
where the thread that constructs or destroys a callback, and a thread inside
`_M_request_stop`, stand. An address in `Callback` can be used for `MaxLives`
objects in turn. `executed`, `pushes` and `seq` are history.

A step is an access to `__state_` or `__callback_completed_`, or the plain
accesses between two of them. Constructing is `Construct`, `RegisterLock`,
`PushFront`, `PushUnlock` or, after a stop, `RegisterRefused`, `InlineReturn`.
Destroying is `Destroy`, `RemoveLock`, `Unlink`, `UnlinkUnlock` or, when a
request has popped the callback, `Missed`, `MissedUnlock`, `AwaitCompleted`.
`_M_request_stop` is `Request`, `RequestLock` (or `RequestRefused`), `SetNotify`,
then per callback `PopCallback`, `PopUnlock`, `Execute`, `ExecuteReturn`,
`SetCompleted`, `Relock`, and finally `RequestDone`. Failed compare-exchanges
and `__pause_or_yield` are stuttering. A callback in `SelfDestroy` is destroyed
by its own function, as `__task.hpp` does with a forwarded stop.

### Scheduler

State: the atomics `__state_` (`state`) and `__n_submit_in_flight_`
(`inFlight`), the counters `total` and `newly`, the remote and pending queues as
sequences, the timers in the heap as a set, `__n_ops_` of every io task, the
rings `sq` and `cq`, and `kernel`, the tasks the kernel has taken. `AtomicQueue`
and `IntrusiveHeap` check the structures that appear here as sequences and a set.

The loop's thread follows `lpc`: accept the remote queues one by one
(`AcceptIo`, `AcceptDr`), reap completions (`Reap`, `ReapEnd`), submit
(`SubmitBegin`, `Fill`, `FillEnd`, `TimerCommand`, `TimersEnd`), decide (`Check`),
enter the kernel (`EnterSleep`, `EnterUnlock`, `EnterTake`, `EnterReturn`,
`EnterEnd`) and, at the end, shut down (`Close`, a last accept and submit with
`stopping`, `EnterTake`, `FinalReturn`, `Reap`, `FinalReapEnd`). The last step is
the assertion at `__scheduler.hpp:551`: if it fails, the process has stopped
(`Aborted`), as it does in the Debug build that `CMakeLists.txt` forces. Remote threads
run `SubmitAdmit`/`SubmitRefuse`, `SubmitPush`, `SubmitRelease`, `Notify`,
`NotifyWrite`, or `RequestStop` and then the notification. `Post` and `PostMore`
are the kernel: with `IORING_SETUP_DEFER_TASKRUN` it posts only while the loop's
thread waits. A delivered completion, of a timer too, may submit one more task
(`Continue`).

Details a reader of the code should know: `__ioring_stop_inplace` has no
`__n_ops_`, although the ring casts every task to `__ioring_task`; the value
found behind the object is modelled as arbitrary, so its completion function is
called or not. Nothing that is built submits such a command; the model submits it
as it stands, without a count of it in the target's `__n_ops_`. `-ETIME` and `-EINTR` are returned only when the call submitted
nothing. A write to the eventfd is recorded but does not end a sleep, because no
read of it is ever submitted.

### IntrusiveHeap, AtomicQueue, MpscQueue

`IntrusiveHeap` keeps root, size and the three links of every node in one
record; one step is one call, its loops are recursive operators (`Sift`, `Shift`,
`Sink`, `Climb`) over that record, and a null pointer that is followed sets `bad`.
`call` is history: the operation performed last and the node it was given, by
which `PrioritySet` tells a pop, which must take a least node, from a removal,
which must take the one it names.

`AtomicQueue` has the shared `head`, the links `next`, and for every thread its
private queue `q`. `StartPush`, `StartPrepend`, `Link`, `CasPush`,
`CasPushFails` are the two pushes; `StartTake`, `CasReset`, `CasResetFails`,
`Reverse` or `Walk`, and `Join` are `_M_pop_swap` and `_M_pop_swap_reversed`
followed by `_M_append` or `_M_prepend`; weak compare-exchanges may fail for no
reason. Nodes return to `loose` when they are popped and may be pushed again at
any time, which includes every ABA pattern. `UpTo` reads a list from its links,
and `Taken`, `Mine` and `Offered` put together what the refinement of
`TaskLists` sees: a taken list belongs to its thread from the swap on, in the
order it will have once the loops are done.

`MpscQueue` has `head`, `tail`, the links, the producers between `Exchange` and
`LinkNode`, and the consumer's steps through `_M_pop_front`, including its own
push of the stub. `quiet` is history. `Queued`, what the refinement of `Fifo`
sees, follows the links from the tail (`After`), crosses a link that is not yet
written with the help of the pusher that will write it, and leaves out the stub.

### MemoryResource

The remote source is `head` and `tail` (the two halves of `__state_`, in which a
head that wraps carries into the tail: `Publish`), and per
slot `slotn` (`__n_`) and `slotq`, the number of blocks on its queue; a local
source is `queue` (again a number), `consume`, `bump` and `count`. Free blocks
are alike and only counted: `AtomicQueue` checks that the operations of the
queues are atomic and keep nodes apart. A block gets a name while it is used, for
its reference count `use` and for the subranges in `spans`. Subranges have a name
as well (`id`): two that hold the same bytes, which `__splice_prefix` can leave
behind, are two objects with a reference each.

`_M_acquire` is `Acquire`, or `AcquireMiss` (which gives up the block in use),
`Refill`, the pop (`TryPop`, `PopTake`, `PopReset`, or `TryPopEmpty`) and
`AcquireFresh`; a pop that stays empty goes on to `Map` and the prepend
(`LoadHead`, `Fill`, `Splice`, `Publish`). `__release` is `Release`, with
`LoadHead`, `PushLoad`, `PushCount`, `PushLink` and `Publish` when the local list
is full. `SplicePrefix` and `Exit` are `__splice_prefix` and `~__local_source`.
What the code does with numbers is kept: `__count_` grows by `__T_` whatever the
batch holds, a slot may count past `__T_` (the `continue` at
`__memory_resource.hpp:151` re-tests the exchange), `_M_prepend` may ask for more
blocks than are left (`fault`), and the slot a thread works on need not be the
head's any more when it publishes.

### TaskFrames

`alloc` holds the chunks (their sizes), the current chunk and position, and the
next capacity of every allocator alive; a frame remembers its place, the
position saved in its prefix, its owner and whether it is a top frame. `tls` is
`__k_tls_alloc`, `prev` the `__prev_alloc_` of the facade that resumes. `Spawn`,
`Resume` and `Suspend` are `_M_do_execute` up to and from the resumption; `Call`
and `Return` are an awaited task, its frame allocated by operator new and
destroyed by the await expression. `kept` marks frames that were there when the
root last returned to the loop.

Two facts a reader may not expect are in the model. A task spawned by the loop
leaves `__k_tls_alloc` at its own allocator when it first suspends, so that the
next spawned task is not a top frame but lives in the first one's allocator. And
a frame that is not a top frame and was kept over a suspension is deleted with
`__k_tls_alloc` null (`fault`). A root that returns ends in undefined behaviour
too (`ReturnRoot`). Tasks are spawned by the loop, between two resumptions, as
`__async_accept::__complete` does; a spawn from inside a running coroutine is
left out.

### Server

The kernel holds `ring` (slots on offer), `kpos` (its position in the first of
them) and `armed` (requests); `PostData` writes the next units of the stream,
`PostNoBufs`, `PostEnd`, `PostAccept` and `PostAcceptError` are its other
completions, and any of them may end a multishot request. The code is
`CompleteAccept`, `CompleteNoBufs`, `CompleteEnd`, `CompleteData` (the two
`__complete` functions), `Read` (the coroutine from its resumption to the next
`await_suspend`, and the callback that submits it), and `Submit` (both
`__submit`). An exception in a `noexcept` function ends the process (`crashed`).
The receiver of the first connection is followed; later ones repeat it with a
group of their own. The `mmap` calls that set up the buffer ring are taken to
succeed.

## Runs

| Run | Instance | Shows |
|---|---|---|
| `stop_safety` | 3 callbacks (one destroys itself), 2 objects per address, 2 requesters | the inductive invariant `Inv` (types, mutual exclusion, single execution are parts of it), `NoUseAfterDestroy`, `NoneMissed`, `Destructible`, `StopSticky`; and `SelfDestroyHangs`: a callback destroyed by its own function waits for itself for ever |
| `stop_fair` | 2 callbacks, 2 objects each, 2 requesters, fair | `RequestReturns`, `DestroyReturns`, `ImplementsPromise` (delivery included) |
| `sched_local` | the loop alone, three io tasks, one multishot, fair | `LocalTasksResumed`, `LoopEnds` |
| `sched_remote` | two remote threads, three io tasks, one multishot | counters and rings (`TotalIsOutstanding`, `NewlyIsUntaken`, `RingBounds`), the gate (`GateExact`, `NoneStranded`), the sleep (`NoLostWakeup`, `NotifySticks`) |
| `sched_commands` | one remote thread, multishot io task, its cancel, timer and its stop, fair | `ResumedIsOver` (resumed at most once, and after the last completion of the task itself), `HeapHoldsLive`, `SubmitReturns`, `ShutdownEnds` (the loop returns with no request unanswered, or stops at its assertion with one) |
| `heap` | every sequence of calls on 6 nodes, and removals from one heap of 12 | `CompleteTree`, `ErasureAware`, `ImplementsPrioritySet` (a pop takes a least timer, a removal the one it names) |
| `atomic_queue` | 2 threads, 3 nodes | `OnePlace`, `ImplementsTaskLists` |
| `mpsc` | 2 producers, the consumer, 3 nodes, fair | `LinkBeforePop`, `GivesUpWithReason`, `ImplementsFifo`, `PoppedEventually` |
| `pool` | 2 threads, one may end; slots and mappings of 1 block, 3 slots, 3 mappings, 2 subranges alive, indices that wrap at 6 | `BlocksConserved`, `SubrangesSafe` |
| `pool_crash` | violation; 1 thread, slots of 2 blocks, mappings of 4 | `NoCrash` |
| `server` | 3 slots of 2 units, 7 units sent, 3 clients, 2 groups, fair | `StreamIntact`, `SlotsConserved`, `OneRequest`, `Served` |
| `frames` | 2 roots, depth 3, frames of 2, 3 and 5, first chunk of 4 | `AllocatorsOwned`, `FramesApart`, `OwnAllocator` |

### Bounds

`MaxLives` bounds the objects per address: two are needed for a stale pointer to
meet a new object. Three callbacks give a list with a head, a middle and a last
element; two requesters give a winner and a loser. `MaxMore` bounds the
multishot completions of a task. Rings of two entries make the rings full with
three tasks. The other state of `Scheduler` is finite because every task is
submitted once. Six nodes reach every branch of the heap except a replacement
that climbs more than one level, for which twelve are needed; that part of the
run therefore starts from one twelve-node heap (`MinDeep` bounds how far it is
taken apart). Three nodes are enough for a list that is reversed, cut or grown
in the middle while one node is reused.

In the pool, a slot of one block (`T = 1`) is filled and published by every
push, so that two threads are enough for a stale head, a slot that counts past
`T`, and a head that runs ahead of the slots; `MaxMaps`, `MaxSpans` and
`MaxCount` bound the mappings, the live subranges and the local counter (a
thread asks the remote source only while its counter is below `MaxCount`:
`CountBound` in `Refill`; in the code the counter grows without limit). The ring
has three slots and its indices wrap at `Wrap = 6`, two turns of the ring, where
the code has 2^32: the run goes past the wrap and its carry. The code masks the
index with `__K_ - 1`, which is `% K` for the power of two it uses. The view
`Unnamed` leaves out the names of subranges and the slot a thread no longer
uses, which neither the actions nor the properties tell apart. `pool_crash`
needs slots that can be partly filled, and one thread. Seven units make every slot of the server
come round once and end in the middle of one; two groups for three clients reach
a group taken twice. In `frames` a frame of 5 exceeds the first chunk and a
frame of 2 fits what 3 does not, so chunks are skipped, grown and used again;
`MaxDepth` bounds the frames of a root.

### Fairness

Every thread inside an operation keeps running (weak fairness of its steps);
nobody is forced to call an operation, except that the consumer of `MpscQueue`
pops for ever and the server's kernel delivers what has arrived whenever it holds
a request and a slot (weak fairness of `KernelData`, `KernelAccept`); errors, the
end of the stream and a broken connection may happen and need not. The spin lock of the stop source is only weakly fair, and
`DestroyReturns` and `RequestReturns` hold nevertheless, because only finitely
many operations compete. The kernel finishes the work it has taken: strong
fairness of `Post`, since a finished request is posted at the next
`io_uring_enter` that waits, however short the wait is. That every request
finishes, whether or not it is cancelled, is an assumption about the peers and
devices behind it, not something the code enforces; `LocalTasksResumed`,
`LoopEnds` and `ShutdownEnds` rest on it, the last one for an
`io_uring_enter` of the shutdown that is never interrupted. Liveness of the loop is
claimed without remote threads only: `NotifySticks` shows that a notification
that finds the loop awake leaves `__state_` at `_S_notify`, after which the loop
never enters the kernel again.

## Findings

`pool_crash`: `_M_prepend` assumes that the mapping's blocks fill the slots
exactly. If the head slot already holds blocks of earlier releases, the last
slot gets fewer blocks than `__T_`, `__ptr[__k + __r - 1]`
(`__memory_resource.hpp:186`) is read past the array, and `_M_splice` follows
what it finds. `src/test/__core/__memory_resource.cxx:70` asks that acquire and
release do not crash; its round trip releases and acquires nothing afterwards.

Facts of the code that the models contain and that a user may not expect:

- `SelfDestroyHangs` and `NotifySticks` are checked as properties.
- The last `io_uring_enter` of the shutdown may be interrupted and is not
  repeated, may take only a part of what it was given, and is content with as many
  completions as there are tasks, `IORING_CQE_F_MORE` ones included. The assertion
  at `__scheduler.hpp:551` then fails: `ShutdownEnds` says that this happens exactly
  when a request is left unanswered. What the last submission leaves in
  `__io_pending_`, and what a completion submits during the last reap, stays there
  unnoticed.
- A cancel command that completes after its target was resumed still reads and
  decrements the target's `__n_ops_` (`__scheduler.hpp:202-204`), in a frame that
  may be gone; `src/__io_uring__.txt:54-55` asks that every completion be back
  before an object is destroyed. One that completes first takes `__n_ops_` to 0, and
  the target is never resumed. `ResumedIsOver` speaks of the target's own
  completions only. A caller is safe if it counts the command in `__n_ops_` first,
  as the draft `__io_uring_ops.hpp.bak:165-170` does.
- When the head of the pool's ring wraps at 2^32, the addition carries into the
  tail, which moves past a published slot.
- A task refused at `__scheduler.hpp:483` has `__n_ops_` 0 and is never resumed.
- While stopping, a timer and its stop command in one batch complete the timer
  twice, and the timer stays in the heap. Without stopping, `HeapHoldsLive`
  depends on timer and stop command coming from one thread: the queues are folded
  in the order of registration, so the command of an earlier queue overtakes.
- A prepend with a stale head publishes a slot that is not full; pushes that find
  the head's slot at `__T_` then spin for ever, on all threads.
- End of stream leaves the receiver's coroutine suspended for ever, and its group
  is never given back.
- The first task a resumed root calls gets an allocator of its own; a task called
  by that one does not, and if it suspends on the kernel before it returns, its
  frame is popped through a null `__k_tls_alloc`.

## Proofs

Every theorem below holds for all values of the constants that satisfy the
assumptions of its module, which TLC evaluates for the instances of the runs. A
proof module has one inductive invariant or several, a lemma per action, and the
properties of the runs as consequences. The invariants were checked with TLC on
small instances before they were proved.

| Module | Theorems that state a property of a run | Inductive invariants |
|---|---|---|
| `StopSourceProofs` | `InvHolds`, `NoUseAfterDestroyHolds`, `NoneMissedHolds`, `DestructibleHolds`, `StopStickyHolds`, `SelfDestroyHangsHolds`; also `TypeCorrect`, `MutualExclusionHolds`, `ExecutedOnceHolds` and `PromiseKept` (the safety part of `StopPromise`) | `Inv`, `SelfInv` |
| `SchedulerProofs` | `GateExactHolds`, `NoneStrandedHolds`, `NoLostWakeupHolds`, `NotifySticksHolds`, `TotalHolds`, `NewlyHolds`, `RingBoundsHolds`, `ResumedIsOverHolds`, `HeapHoldsLiveHolds` and `HeapHoldsLiveAlone`; also `TypeCorrect` | `GateInv`, `CountInv`, `DoneInv`, `OrderInv` |
| `ServerProofs` | `OneRequestHolds`, `SlotsConservedHolds`, `StreamIntactHolds` | `TypeInv`, `RequestInv`, `SlotInv`, `StreamInv` |
| `TaskFramesProofs` | `OwnAllocatorHolds`, `AllocatorsOwnedHolds`, `FramesApartHolds` | `FramesInv`, `LayoutInv` |
| `AtomicQueueProofs` | `OnePlaceHolds`, `ImplementsTaskListsHolds` | `AtomicInv` |
| `MpscQueueProofs` | `LinkBeforePopHolds`, `GivesUpHolds`, `ImplementsFifoHolds` | `MpscInv` |
| `MemoryResourceProofs` | `BlocksConservedHolds`, `SubrangesSafeHolds` | `PoolInv` |

The prover has no induction over data. Where an argument needs one it takes the
least counterexample: `LeastNumber` (`SequenceFacts`) and `EmptyList`
(`StopSourceProofs`). Where an invariant would have to define something by
recursion over a queue, it says that a witness exists instead (a chain of cells, a
trace of positions, the sequences of all lists), and every action shows how the witness changes.

**StopSource.** Assumed: the sets are what they should be; `NULL` and `HEAD` are
no callbacks. `Inv` has five parts. `TypeOK`. `LockInv` ties the lock
bit to the program points between acquisition and release, fixes the rest of the
byte there (`state = saved + lock`), and says that only one request gets past
its try-lock; without it an unlock could withdraw the stop. `ListInv` says that
the two link directions agree on the callbacks that are on the list, and that
`__prev_` leads from older to younger callbacks (`seq`). `ClaimInv` says what
became of a callback that is off the list: a request holds it, or it is
completed; that is what lets a destructor trust `__prev_ == nullptr` and
`__notify_`. `DoneInv` says that the list stays empty once the winning request
has returned. `NoneMissed` needs one more step: an empty head must mean that
nobody is on the list. If somebody were, take the one with the largest `seq`: it
is not the head, so its `__prev_` leads to a callback with a larger one.
`SelfInv` says that the function which destroys its own callback is still being
executed, so that nobody completes it. `PromiseStep` maps every action to a step of `StopPromise` or to a stutter.

**Scheduler.** Assumed: the kinds of tasks are disjoint, a command has a target,
the initial tasks are distinct, the completion ring is no smaller than the
submission ring. `GateInv` is about submission and sleep: the gate counts the
threads inside or is closed and empty, and behind the closed gate only the accept
in progress can find tasks (`ClosedInv`). `WakeInv` says why no wake-up is lost: a
task in a remote queue lies before the accept in progress, or somebody has
announced it or still will, from his release on. `CountInv` adds the rings: a
task is in one place at a time, among the unsubmitted, the hands of a thread, the
remote queues, the pending queue, the submission ring and the kernel, so that the
counters are the sizes of those places; `BatchInv` is what a batch may still add
without overfilling a ring. `DoneInv` says that the final completion is the last
the kernel says of a task, from which `ResumedIsOver` follows: nothing carries the
task (`Carried`) once it was resumed, and no cancel command finds the count that
would resume it again.

`HeapHoldsLive` is not true of every set of threads: a stop command in an earlier
queue overtakes the timer it aims at in a later one. `HeapHoldsLiveHolds`
therefore has a hypothesis about the callers: there is an owner for every timer
and stop command, a command has the owner of its timer, and every thread submits
only what it owns (`Owned`). `HeapHoldsLiveAlone` is the case of one thread, in
which that is no restriction and which the run `sched_commands` checks. The
invariant `OrderInv` says that no timer can follow a stop command that aims at
it, in the hands of its thread, its queue, the pending queue or by a submission
still to come, and that a completed timer is in none of these places. It speaks
only of the time before a stop is requested and the gate closes, both of which
stay (`EndStays`).

**Server.** Assumed: there are slots, they have a size. `RequestInv` says when
`__multishot_live_` is set and that nothing follows the completion that ends a
request; `SlotInv` that a slot is on offer, used up by exactly one completion, or
to be handed back. `StreamInv` says that a trace exists which gives the unit and
the buffer offset every completion in the queue begins at, from what the
coroutine has read and the offset it keeps (`cur`) to what the kernel has taken
and its own offset (`kpos`); the two offsets are never exchanged, and that they
agree is what `StreamIntact` rests on. `Safe` says that no slot is written again
before it was read.

**TaskFrames.** Assumed: sizes are positive and names of allocators are no null
pointers. `FramesInv` says which frames share an allocator: the first frames of
all roots share the loop's; any other frame is a top frame, or has the allocator
of its caller, and both were called since the last resumption or neither was.
`LayoutInv` says that every frame lies below the position its allocator gives out
next, and the earlier frames of the same allocator below the position its prefix
remembers, so that a pop frees nothing else. Both say nothing after `fault`, the
undefined behaviour described above, as do the properties.

**AtomicQueue.** Assumed: finitely many nodes, and `NULL` is none. `AtomicInv`
says that a sequence exists for the shared list and, of every thread, for its
private list, the part of a taken list that is still to be reversed and the list
it pushes or has built, such that the links spell these sequences (`Path`), no
node is in two of them or twice in one (`Apart`) and the loose nodes are in none
(`Covers`). `Knows` says what a thread's pointers mean at each of its steps. The
case that matters is the swap of a push whose head was taken and pushed again
since it was loaded: all that the swap needs is that the link behind its list is
the head, `next[batch.tail] = old`, which holds at `cas` and which nobody else can
undo, because only the thread itself holds that node. A thread writes only the
links of nodes it holds or takes from the loose ones, so every action changes the
shared list and the lists of one thread and leaves the others (`HeldPut`,
`TurnsHeld`). For the refinement, `UpToPath` shows that `UpTo` finds the
sequence that the links spell; then a push is `Offer` or `OfferAll` and, at its
swap, `Publish`; a take is `TakeAll` at its swap, and reversing, walking and joining
leave everything as `TaskLists` sees it (`ReversedTail`).

**MpscQueue.** Assumed: finitely many nodes, none of them the stub; the consumer is
no producer. `MpscInv` says that the cells in the queue form a chain from
`__tail_` to `__head_` without repetition, in which every link is written or a
pusher will write it, and every half-done push belongs to such a link. The
refinement is proved by following `Queued` along that chain: an exchange appends
its node, advancing the tail removes the first one unless it is the stub, every
other step leaves it.

**MemoryResource.** Assumed (`PoolAssumption`): finitely many threads, sizes that
are positive, a ring that wraps at a multiple of its length and mappings that
fill it exactly, as the code's constants do. `PoolInv` says what a thread holds by
where it stands, that names are names and a block is consumed by one thread, that
reference counts are exact and subranges apart, and that no block is lost. The
parts need each other: that a block with no reference exists when one is taken
from a local queue follows from the number of blocks, and that a block is counted
once follows from the exact reference counts. A step of the ring only moves
blocks between one slot, one local queue and one hand (`MoveStep`), whichever
slot a stale head made it choose.

Only model-checked, and why:

- All liveness (`RequestReturns`, `DestroyReturns`, `ImplementsPromise` with its
  fairness, `LocalTasksResumed`, `LoopEnds`, `SubmitReturns`, `ShutdownEnds`,
  `PoppedEventually`, `Served`): the provers do not handle fairness.
- `IntrusiveHeap` (`CompleteTree`, `ErasureAware`, `ImplementsPrioritySet`): one
  step is a whole call, and its loops are recursive operators. What they compute
  for a tree of any size would need an induction over data and recursive
  definitions, and the prover has neither.

## Not modelled

- The segment array. Nothing in the repository calls its `_M_push_back`; the
  scheduler's model takes the queues as registered. What its relaxed stores and
  the reader's `membarrier` guarantee is a question about the hardware's memory
  model, below the sequentially consistent steps used here.
- The circular buffer, which only a draft uses and which puts no limit on what is
  pushed; the size classes of `__protocal`, tables and constructors that nothing
  includes; the message layouts.
- Result and exception storage of a promise, which move a value once; a spawn from
  inside a running coroutine, which nothing in the repository does.
- That the caller of an atomic queue picks the right one of its two takes:
  `TaskLists` admits both directions.
- System-call wrappers, object layout helpers, error codes that throw outside the
  server, a second call of `_M_run_until_stop`, more than `__N_` mappings, requests
  larger than a block, and the `.in` and `.bak` files, which are not built.

## Plan

Done: all modules of the table above, their runs, and the proofs listed; every
safety property of a passing run is stated by a theorem, except the three of the
heap. Open:

1. `IntrusiveHeap` with one turn of a loop per step, which would need no
   recursive operator: an invariant can then name, as in `AtomicQueueProofs`, the
   node at every position of the tree and the one position where a loop stands.
2. The segment array, once something registers queues while the loop runs.
