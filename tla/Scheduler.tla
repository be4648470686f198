------------------------------ MODULE Scheduler ------------------------------
(***************************************************************************)
(* The io_uring event loop of __core/__scheduler.hpp: the thread inside    *)
(* _M_run_until_stop, the threads that submit tasks to it or request stop, *)
(* and the kernel side of the ring (external).                             *)
(*                                                                         *)
(* A step is one access to memory another thread uses, or the work on one  *)
(* task between two of them.  Tasks are opaque; a completion may submit    *)
(* one more task to the loop, as a resumed coroutine does.                 *)
(***************************************************************************)
EXTENDS Integers, Sequences, FiniteSets, Functions

CONSTANTS Io,          \* __ioring_task objects
          Multi,       \* those of Io that are multishot
          Cancel,      \* __ioring_stop_inplace objects
          Timer,       \* __timer_task objects
          TimerStop,   \* __timer_stop_inplace objects
          Target,      \* __target_ of Cancel and TimerStop
          Queues,      \* the remote threads, in the order their queues were registered
          Initial,     \* tasks submitted by the loop's thread before it runs the loop
          NoTask,      \* no task
          SqEntries, CqEntries,  \* sizes of the rings
          MaxMore      \* bound: IORING_CQE_F_MORE completions per multishot task

Uring == Io \union Cancel
Timed == Timer \union TimerStop
Task == Uring \union Timed
Thread == {Queues[i] : i \in DOMAIN Queues}

ASSUME TaskAssumption ==
    /\ Multi \subseteq Io
    /\ Initial \in Seq(Io)
    /\ Target \in [Cancel \union TimerStop -> Io \union Timer]
    /\ \A c \in Cancel : Target[c] \in Io
    /\ \A s \in TimerStop : Target[s] \in Timer
    /\ NoTask \notin Task
    /\ Uring \intersect Timed = {} /\ Io \intersect Cancel = {} /\ Timer \intersect TimerStop = {}
ASSUME QueueAssumption ==
    Queues \in Seq(Thread) /\ IsInjective(Initial)
ASSUME RingAssumption ==
    SqEntries \in Nat \ {0} /\ CqEntries \in Nat /\ SqEntries <= CqEntries /\ MaxMore \in Nat

VARIABLES
    state,      \* __state_
    inFlight,   \* __n_submit_in_flight_
    total,      \* __n_total_submit_
    newly,      \* __n_newly_submit_
    stop,       \* __source_._M_stop_requested()
    ioRemote,   \* the queues of __io_remote_, oldest task first
    drRemote,   \* the queues of __dr_remote_, oldest task first
    ioPending,  \* __io_pending_
    drPending,  \* __dr_pending_
    heap,       \* the timers in __heap_
    nOps,       \* __n_ops_ of every Io task
    lpc,        \* where the loop's thread stands
    queue,      \* index of the remote queue _M_pop_swap_reversed folds next
    stopping,   \* __stop of the _M_io_uring_submit in progress
    halting,    \* __stop of the __submission_queue::_M_submit in progress
    room,       \* __max - __r of the _M_submit in progress
    reaped,     \* __n of the _M_complete in progress, kept until the next one
    moved,      \* __r of that _M_submit; __rc of the io_uring_enter in progress
    tpc,        \* where a remote thread stands
    task,       \* __op of its _M_submit
    sq,         \* submission ring, oldest first
    kernel,     \* tasks the kernel works on
    cq,         \* completion ring, oldest first
    eventfd,    \* writes to __eventfd_ happened
    fresh,      \* tasks nobody has submitted yet
    resumed,    \* final completions delivered to a task (history)
    more        \* F_MORE completions the kernel has posted for a task

loopVars == <<lpc, queue, stopping, halting, room, reaped, moved>>
countVars == <<total, newly>>
remoteVars == <<inFlight, ioRemote, drRemote, tpc, task>>
pendingVars == <<ioPending, drPending, heap>>
ringVars == <<sq, kernel, cq, more>>
taskVars == <<nOps, fresh, resumed>>
signalVars == <<state, stop, eventfd>>
vars == <<loopVars, countVars, remoteVars, pendingVars, ringVars, taskVars, signalVars>>

no_new_submit == -1

Init ==
    /\ state = "run" /\ inFlight = 0 /\ total = 0 /\ newly = 0
    /\ stop = FALSE /\ eventfd = FALSE
    /\ ioRemote = [t \in Thread |-> <<>>] /\ drRemote = [t \in Thread |-> <<>>]
    /\ ioPending = Initial /\ drPending = <<>> /\ heap = {}
    /\ nOps = [o \in Io |-> 0]
    /\ lpc = "acceptIo" /\ queue = 1 /\ stopping = FALSE /\ halting = FALSE /\ room = 0 /\ reaped = 0 /\ moved = 0
    /\ tpc = [t \in Thread |-> "idle"] /\ task = [t \in Thread |-> NoTask]
    /\ sq = <<>> /\ kernel = {} /\ cq = <<>>
    /\ fresh = Task \ {Initial[i] : i \in DOMAIN Initial}
    /\ resumed = [o \in Task |-> 0]
    /\ more = [o \in Multi |-> 0]

-----------------------------------------------------------------------------
(* Completions.                                                              *)

Decrement(n, o) == [n EXCEPT ![o] = @ - 1]

\* __ioring_task::_M_complete on an Io task, with counters n: the counters
\* afterwards, and whether the completion function is called
Completed(n, o, isMore) ==
    [nOps |-> IF isMore /\ n[o] = 1 THEN n ELSE Decrement(n, o), calls |-> n[o] = 1]

\* __manual_stop of an Io task
ManualStop(n, o) == Completed(n, o, FALSE)

\* fault: a cancel that is first resumes the task with its own completion still due
CancelResumes(n, o) == [nOps |-> Decrement(n, o), calls |-> n[o] = 1]

\* __ioring_stop_inplace::__complete, called for a cancel task aimed at o
CancelCompleted(n, o) ==
    IF n[o] = 1 THEN ManualStop(Decrement(n, o), o)
    ELSE [nOps |-> Decrement(n, o), calls |-> FALSE]

\* what delivering a completion of task o does to the counters.  A cancel task
\* has no __n_ops_: _M_submit stored into, and _M_complete tests, whatever
\* follows the object, so its completion function may or may not be called.
Deliver(o, isMore) ==
    IF o \in Io THEN
        LET done == Completed(nOps, o, isMore) IN
        /\ nOps' = done.nOps
        /\ resumed' = IF done.calls /\ ~isMore THEN [resumed EXCEPT ![o] = @ + 1] ELSE resumed
    ELSE
        \/ UNCHANGED <<nOps, resumed>>
        \/ LET done == CancelCompleted(nOps, Target[o]) IN
           /\ nOps' = done.nOps
           /\ resumed' = [resumed EXCEPT ![o] = @ + 1,
                              ![Target[o]] = IF done.calls THEN @ + 1 ELSE @]

\* __manual_stop of a timer task: _M_stop of the timer
TimerManualStop(o) ==
    resumed' = [resumed EXCEPT ![IF o \in Timer THEN o ELSE Target[o]] = @ + 1]

\* what a completion function may do on the loop's thread: at most one
\* _M_submit(__ioring_task *), which pushes to the front
Continue(pending) ==
    \/ ioPending' = pending /\ UNCHANGED fresh
    \/ \E o \in fresh \intersect Io : ioPending' = <<o>> \o pending /\ fresh' = fresh \ {o}

-----------------------------------------------------------------------------
(* _M_run_until_stop on the loop's thread.                                   *)

Goto(l) == lpc' = l /\ UNCHANGED <<queue, stopping, halting, room, reaped, moved>>

\* no_new_submit was set: the code after the loop is running
Closed == inFlight = no_new_submit

\* _M_accept_remote_request, one _M_pop_swap_reversed of one queue at a time
AcceptIo ==
    /\ lpc = "acceptIo"
    /\ IF queue \in DOMAIN Queues
       THEN /\ ioPending' = ioPending \o ioRemote[Queues[queue]]
            /\ ioRemote' = [ioRemote EXCEPT ![Queues[queue]] = <<>>]
            /\ queue' = queue + 1 /\ UNCHANGED lpc
       ELSE /\ lpc' = "acceptDr" /\ queue' = 1 /\ UNCHANGED <<ioPending, ioRemote>>
    /\ UNCHANGED <<stopping, halting, room, reaped, moved, countVars, inFlight, drRemote, tpc, task,
                   drPending, heap, ringVars, taskVars, signalVars>>

\* what follows _M_accept_remote_request
AfterAccept == IF Closed THEN "submit" ELSE "reap"

AcceptDr ==
    /\ lpc = "acceptDr"
    /\ IF queue \in DOMAIN Queues
       THEN /\ drPending' = drPending \o drRemote[Queues[queue]]
            /\ drRemote' = [drRemote EXCEPT ![Queues[queue]] = <<>>]
            /\ queue' = queue + 1 /\ UNCHANGED lpc
       ELSE /\ lpc' = AfterAccept
            /\ queue' = 1 /\ UNCHANGED <<drPending, drRemote>>
    /\ UNCHANGED <<stopping, halting, room, reaped, moved, countVars, inFlight, ioRemote, tpc, task,
                   ioPending, heap, ringVars, taskVars, signalVars>>

\* fault: every completion counts, F_MORE or not
CountAll(entry) == 1

\* what __ioring_task::_M_complete returns
CountFinal(entry) == IF entry.more THEN 0 ELSE 1

\* __completion_queue::_M_complete, one entry
Reap ==
    /\ lpc \in {"reap", "finalReap"} /\ cq # <<>>
    /\ cq' = Tail(cq)
    /\ Deliver(Head(cq).task, Head(cq).more)
    /\ Continue(ioPending)
    /\ reaped' = reaped + CountFinal(Head(cq))
    /\ UNCHANGED <<lpc, queue, stopping, halting, room, moved, countVars, remoteVars, drPending, heap,
                   sq, kernel, more, signalVars>>

\* fault: what was reaped stays counted
TotalKept == total

TotalLeft == total - reaped

\* _M_run_some goes on to _M_io_uring_submit
ReapEnd ==
    /\ lpc = "reap" /\ cq = <<>>
    /\ total' = TotalLeft
    /\ reaped' = 0
    /\ lpc' = "submit"
    /\ UNCHANGED <<queue, stopping, halting, room, moved, newly, remoteVars, pendingVars, ringVars,
                   taskVars, signalVars>>

Min2(a, b) == IF a < b THEN a ELSE b

\* fault: only the submission ring limits a batch
RoomIgnoringCq == SqEntries - Len(sq)

\* __max: what both rings can take
Room == Min2(CqEntries - total, SqEntries - Len(sq))

\* _M_io_uring_submit and __submission_queue::_M_submit up to their loop
SubmitBegin ==
    /\ lpc = "submit"
    /\ stopping' = (Closed \/ stop) /\ halting' = stopping'
    /\ room' = Room
    /\ moved' = 0
    /\ lpc' = "fill"
    /\ UNCHANGED <<queue, reaped, countVars, remoteVars, pendingVars, ringVars, taskVars,
                   signalVars>>

\* a popped task that is stopped at once instead of submitted
Halt(o) ==
    LET done == ManualStop([nOps EXCEPT ![o] = 1], o) IN
    /\ nOps' = done.nOps
    /\ resumed' = IF done.calls THEN [resumed EXCEPT ![o] = @ + 1] ELSE resumed
    /\ Continue(Tail(ioPending))
    /\ UNCHANGED <<sq, room, moved>>

\* a popped task that is put on the submission ring
Enqueue(o) ==
    /\ nOps' = IF o \in Io THEN [nOps EXCEPT ![o] = 1] ELSE nOps
    /\ sq' = Append(sq, o)
    /\ room' = room - 1 /\ moved' = moved + 1
    /\ ioPending' = Tail(ioPending)
    /\ UNCHANGED <<fresh, resumed>>

\* one task of __io_pending_: a cancel task also saves the tasks behind it
Fill ==
    /\ lpc = "fill" /\ ioPending # <<>> /\ room > 0
    /\ halting' = (halting /\ Head(ioPending) \notin Cancel)
    /\ IF halting' THEN Halt(Head(ioPending)) ELSE Enqueue(Head(ioPending))
    /\ UNCHANGED <<lpc, queue, stopping, reaped, countVars, remoteVars, drPending, heap,
                   kernel, cq, more, signalVars>>

FillEnd ==
    /\ lpc = "fill" /\ (ioPending = <<>> \/ room = 0)
    /\ total' = total + moved /\ newly' = newly + moved
    /\ Goto("timers")
    /\ UNCHANGED <<remoteVars, pendingVars, ringVars, taskVars, signalVars>>

\* fault: the timer is completed but stays in the heap
StaysIn(h, o) == h

_M_remove(h, o) == h \ {o}

\* one task of __dr_pending_; nothing but _M_stop ever completes a timer, and
\* only _M_remove takes it out of the heap
TimerCommand ==
    /\ lpc = "timers" /\ drPending # <<>>
    /\ LET o == Head(drPending) IN
       \/ stopping /\ TimerManualStop(o) /\ Continue(ioPending) /\ UNCHANGED heap
       \/ ~stopping /\ o \in Timer /\ heap' = heap \union {o} /\ UNCHANGED <<resumed, ioPending, fresh>>
       \/ /\ ~stopping /\ o \in TimerStop /\ heap' = _M_remove(heap, Target[o])
          /\ TimerManualStop(o) /\ Continue(ioPending)
    /\ drPending' = Tail(drPending)
    /\ UNCHANGED <<loopVars, countVars, remoteVars, ringVars, nOps, signalVars>>

TimersEnd ==
    /\ lpc = "timers" /\ drPending = <<>>
    /\ Goto(IF Closed THEN "finalEnter" ELSE "check")
    /\ UNCHANGED <<countVars, remoteVars, pendingVars, ringVars, taskVars, signalVars>>

\* the loop's exit condition
Check ==
    /\ lpc = "check"
    /\ Goto(IF total = 0 \/ (total = 1 /\ stop) THEN "close" ELSE "enter")
    /\ UNCHANGED <<countVars, remoteVars, pendingVars, ringVars, taskVars, signalVars>>

\* fault: sleep is stored over a notification
SleepAnyway == state' = "sleep" /\ Goto("locked")

\* variant: a notification found on the way to sleep is consumed
SleepOrConsume ==
    IF state = "run" THEN state' = "sleep" /\ Goto("locked") ELSE state' = "run" /\ Goto("acceptIo")

SleepUnlessNotified ==
    IF state = "run" THEN state' = "sleep" /\ Goto("locked") ELSE Goto("acceptIo") /\ UNCHANGED state

\* _M_io_uring_enter: try to go from run to sleep, under __mut_
EnterSleep ==
    /\ lpc = "enter" /\ SleepUnlessNotified
    /\ UNCHANGED <<stop, eventfd, countVars, remoteVars, pendingVars, ringVars, taskVars>>

EnterUnlock ==
    /\ lpc = "locked"
    /\ Goto("syscall")
    /\ UNCHANGED <<countVars, remoteVars, pendingVars, ringVars, taskVars, signalVars>>

\* the system call takes tasks off the submission ring; it waits for
\* completions only when it could take all that were asked for
EnterTake ==
    /\ lpc \in {"syscall", "finalEnter"}
    /\ \E n \in (IF newly = 0 THEN {0} ELSE 1 .. newly) :
          /\ moved' = n
          /\ sq' = SubSeq(sq, n + 1, Len(sq))
          /\ kernel' = kernel \union {sq[i] : i \in 1 .. n}
          /\ lpc' = IF lpc = "syscall" THEN (IF n = newly THEN "waiting" ELSE "woken")
                                       ELSE (IF n = newly THEN "finalWaiting" ELSE "finalReap")
    /\ UNCHANGED <<queue, stopping, halting, room, reaped, countVars, remoteVars, pendingVars,
                   cq, more, taskVars, signalVars>>

\* enough completions, a signal, or the deadline of the timer on top of the heap
EnterReturn(enough) ==
    /\ lpc = "waiting" /\ (enough => cq # <<>>)
    /\ Goto("woken")
    /\ UNCHANGED <<countVars, remoteVars, pendingVars, ringVars, taskVars, signalVars>>

\* fault: whatever the kernel took, everything counts as taken
NewlyForgotten == 0

NewlyLeft == newly - moved

\* the rest of _M_io_uring_enter: -EINTR and -ETIME come only with nothing
\* submitted, when __n_newly_submit_ is 0 already
EnterEnd ==
    /\ lpc = "woken"
    /\ state' = "run"
    /\ newly' = NewlyLeft
    /\ Goto("acceptIo")
    /\ UNCHANGED <<stop, eventfd, total, remoteVars, pendingVars, ringVars, taskVars>>

\* fault: the gate is closed over submissions in flight
CloseAnyway == TRUE

NoneInFlight == inFlight = 0

\* after the loop: no submission is in flight, and none will be accepted
Close ==
    /\ lpc = "close" /\ NoneInFlight
    /\ inFlight' = no_new_submit
    /\ Goto("acceptIo")
    /\ UNCHANGED <<ioRemote, drRemote, tpc, task, countVars, pendingVars, ringVars, taskVars,
                   signalVars>>

\* the last io_uring_enter asks for __n_total_submit_ completions
FinalReturn(enough) ==
    /\ lpc = "finalWaiting" /\ (enough => Len(cq) >= total)
    /\ Goto("finalReap")
    /\ UNCHANGED <<countVars, remoteVars, pendingVars, ringVars, taskVars, signalVars>>

\* assert(__n_total_submit_ == __m): the build is a debug build
FinalReapEnd ==
    /\ lpc = "finalReap" /\ cq = <<>>
    /\ Goto(IF total = reaped THEN "finished" ELSE "aborted")
    /\ UNCHANGED <<countVars, remoteVars, pendingVars, ringVars, taskVars, signalVars>>

-----------------------------------------------------------------------------
(* The kernel (external): with IORING_SETUP_DEFER_TASKRUN completions are    *)
(* posted only while the loop's thread waits in io_uring_enter.              *)

InKernel == lpc \in {"waiting", "finalWaiting"}

Post(o) ==
    /\ InKernel /\ o \in kernel /\ Len(cq) < CqEntries
    /\ cq' = Append(cq, [task |-> o, more |-> FALSE])
    /\ kernel' = kernel \ {o}
    /\ UNCHANGED <<loopVars, countVars, remoteVars, pendingVars, sq, more, taskVars, signalVars>>

PostMore(o) ==
    /\ InKernel /\ o \in kernel \intersect Multi /\ Len(cq) < CqEntries
    /\ more[o] < MaxMore
    /\ more' = [more EXCEPT ![o] = @ + 1]
    /\ cq' = Append(cq, [task |-> o, more |-> TRUE])
    /\ UNCHANGED <<loopVars, countVars, remoteVars, pendingVars, sq, kernel, taskVars, signalVars>>

-----------------------------------------------------------------------------
(* Remote threads: _M_submit(queue, task), _M_request_stop and _M_notify.    *)

TGoto(t, l) == tpc' = [tpc EXCEPT ![t] = l]

\* a cancel or stop command follows the submission of its target
Submittable(o) ==
    o \in fresh /\ (o \in Cancel \union TimerStop => Target[o] \notin fresh)

SubmitAdmit(t) ==
    /\ tpc[t] = "idle" /\ inFlight # no_new_submit
    /\ \E o \in Task :
          /\ Submittable(o)
          /\ task' = [task EXCEPT ![t] = o]
          /\ fresh' = fresh \ {o}
    /\ inFlight' = inFlight + 1
    /\ TGoto(t, "push")
    /\ UNCHANGED <<ioRemote, drRemote, loopVars, countVars, pendingVars, ringVars, nOps, resumed,
                   signalVars>>

\* the gate is closed: __manual_stop on the submitting thread
SubmitRefuse(t) ==
    /\ tpc[t] = "idle" /\ inFlight = no_new_submit
    /\ \E o \in Task :
          /\ Submittable(o)
          /\ fresh' = fresh \ {o}
          /\ IF o \in Uring THEN Deliver(o, FALSE) ELSE TimerManualStop(o) /\ UNCHANGED nOps
    /\ UNCHANGED <<remoteVars, loopVars, countVars, pendingVars, ringVars, signalVars>>

SubmitPush(t) ==
    /\ tpc[t] = "push"
    /\ IF task[t] \in Uring
       THEN ioRemote' = [ioRemote EXCEPT ![t] = Append(@, task[t])] /\ UNCHANGED drRemote
       ELSE drRemote' = [drRemote EXCEPT ![t] = Append(@, task[t])] /\ UNCHANGED ioRemote
    /\ task' = [task EXCEPT ![t] = NoTask]
    /\ TGoto(t, "release")
    /\ UNCHANGED <<inFlight, loopVars, countVars, pendingVars, ringVars, taskVars, signalVars>>

\* fault: the submission stays in flight
KeepInFlight == UNCHANGED inFlight

LeaveFlight == inFlight' = inFlight - 1

SubmitRelease(t) ==
    /\ tpc[t] = "release"
    /\ LeaveFlight
    /\ TGoto(t, "notify")
    /\ UNCHANGED <<ioRemote, drRemote, task, loopVars, countVars, pendingVars, ringVars, taskVars,
                   signalVars>>

\* _M_request_stop up to _M_notify
RequestStop(t) ==
    /\ tpc[t] = "idle"
    /\ stop' = TRUE
    /\ TGoto(t, "notify")
    /\ UNCHANGED <<state, eventfd, inFlight, ioRemote, drRemote, task, loopVars, countVars,
                   pendingVars, ringVars, taskVars>>

Notify(t) ==
    /\ tpc[t] = "notify"
    /\ state' = "notify"
    /\ TGoto(t, IF state = "sleep" THEN "write" ELSE "idle")
    /\ UNCHANGED <<stop, eventfd, inFlight, ioRemote, drRemote, task, loopVars, countVars,
                   pendingVars, ringVars, taskVars>>

\* fault: the loop's thread never unlocks __mut_ after its exchange to sleep
MutexKept == FALSE

MutexFree == lpc # "locked"

\* passing __mut_ waits until the loop's thread has left its critical section
NotifyWrite(t) ==
    /\ tpc[t] = "write" /\ MutexFree
    /\ eventfd' = TRUE
    /\ TGoto(t, "idle")
    /\ UNCHANGED <<state, stop, inFlight, ioRemote, drRemote, task, loopVars, countVars,
                   pendingVars, ringVars, taskVars>>

-----------------------------------------------------------------------------
\* what the loop's thread does without waiting for the kernel
LoopStep ==
    \/ AcceptIo \/ AcceptDr \/ Reap \/ ReapEnd
    \/ SubmitBegin \/ Fill \/ FillEnd \/ TimerCommand \/ TimersEnd \/ Check
    \/ EnterSleep \/ EnterUnlock \/ EnterTake \/ EnterEnd \/ Close \/ FinalReapEnd
    \/ EnterReturn(TRUE) \/ FinalReturn(TRUE)

\* the assertion has ended the process: no thread takes another step
Aborted == lpc = "aborted"

SubmitStep(t) ==
    ~Aborted /\ (SubmitPush(t) \/ SubmitRelease(t) \/ Notify(t) \/ NotifyWrite(t))

Next ==
    \/ LoopStep \/ EnterReturn(FALSE) \/ FinalReturn(FALSE)
    \/ \E o \in Uring : Post(o) \/ PostMore(o)
    \/ \E t \in Thread :
          \/ ~Aborted /\ (SubmitAdmit(t) \/ SubmitRefuse(t) \/ RequestStop(t))
          \/ SubmitStep(t)
    \/ Aborted /\ UNCHANGED vars

\* every thread runs, and the kernel finishes what it was given: finished work
\* is posted by the next io_uring_enter that waits, however short the wait
Fairness ==
    /\ WF_vars(LoopStep)
    /\ \A t \in Thread : WF_vars(SubmitStep(t))
    /\ \A o \in Uring : SF_vars(Post(o))

Spec == Init /\ [][Next]_vars
FairSpec == Spec /\ Fairness

-----------------------------------------------------------------------------
LoopPc == {"acceptIo", "acceptDr", "reap", "submit", "fill", "timers", "check", "enter",
           "locked", "syscall", "waiting", "woken", "close", "finalEnter", "finalWaiting",
           "finalReap", "finished", "aborted"}
Completion == [task : Uring, more : BOOLEAN]

\* The members of __scheduler, its rings and its queues hold what their types allow.
TypeOK ==
    /\ state \in {"run", "sleep", "notify"} /\ stop \in BOOLEAN /\ eventfd \in BOOLEAN
    /\ inFlight \in Nat \union {no_new_submit}
    /\ total \in Nat /\ newly \in Nat
    /\ ioRemote \in [Thread -> Seq(Uring)] /\ drRemote \in [Thread -> Seq(Timed)]
    /\ ioPending \in Seq(Uring) /\ drPending \in Seq(Timed) /\ heap \subseteq Timer
    /\ nOps \in [Io -> Int] /\ resumed \in [Task -> Nat] /\ more \in [Multi -> Nat]
    /\ lpc \in LoopPc /\ queue \in Nat
    /\ stopping \in BOOLEAN /\ halting \in BOOLEAN
    /\ room \in Nat /\ reaped \in Nat /\ moved \in Nat
    /\ tpc \in [Thread -> {"idle", "push", "release", "notify", "write"}]
    /\ task \in [Thread -> Task \union {NoTask}]
    /\ sq \in Seq(Uring) /\ kernel \subseteq Uring /\ cq \in Seq(Completion)
    /\ fresh \subseteq Task

\* tasks handed to the ring whose last completion is still to be reaped
Outstanding ==
    Len(sq) + Cardinality(kernel) + Cardinality({i \in DOMAIN cq : ~cq[i].more})

\* __n_total_submit_ counts the tasks handed to the ring whose last completion
\* has not been reaped, through batches, multishot completions and shutdown;
\* it is what decides when the loop may end and how much fits the rings.
TotalIsOutstanding ==
    total + (IF lpc = "fill" THEN moved ELSE 0) - reaped = Outstanding

\* __n_newly_submit_ counts the tasks on the submission ring that no
\* io_uring_enter has taken, so that each is offered to the kernel again until taken.
NewlyIsUntaken ==
    Len(sq) = CASE lpc = "fill" -> newly + moved
                [] lpc \in {"waiting", "woken", "finalWaiting", "finalReap", "finished", "aborted"} ->
                       newly - moved
                [] OTHER -> newly

\* Neither ring is overfilled and the unsigned differences in
\* _M_io_uring_submit and __submission_queue::_M_submit do not wrap.
RingBounds == Len(sq) <= SqEntries /\ Outstanding <= CqEntries /\ total <= CqEntries

\* __n_submit_in_flight_ is the number of threads between admission and
\* release; when it is closed there is none.
GateExact ==
    LET inside == Cardinality({t \in Thread : tpc[t] \in {"push", "release"}})
    IN inFlight = IF Closed THEN no_new_submit - inside ELSE inside

\* No admitted task is left behind in a remote queue: once the accept that
\* follows the closing of the gate is over, the remote queues stay empty.
NoneStranded ==
    Closed /\ lpc \notin {"acceptIo", "acceptDr"} =>
        \A t \in Thread : ioRemote[t] = <<>> /\ drRemote[t] = <<>>

\* inside _M_io_uring_enter after the exchange to sleep
Sleeping == lpc \in {"locked", "syscall", "waiting"}

\* No wake-up is lost between a push and the loop's going to sleep: while it
\* sleeps, a task in a remote queue has a thread that still has to notify, or
\* the state tells the wake-up and the eventfd was or is about to be written.
NoLostWakeup ==
    Sleeping /\ (\E t \in Thread : ioRemote[t] # <<>> \/ drRemote[t] # <<>>) =>
        \/ \E t \in Thread : tpc[t] \in {"release", "notify"}
        \/ state = "notify" /\ (eventfd \/ \E t \in Thread : tpc[t] = "write")

\* a queue, a ring, the kernel or a thread has an entry of the task itself
Carried(o) ==
    \/ o \in Range(ioPending) \union Range(sq) \union kernel
    \/ \E i \in DOMAIN cq : cq[i].task = o
    \/ \E t \in Thread : o \in Range(ioRemote[t]) \/ task[t] = o

\* The coroutine of an io task is resumed at most once, after its last
\* completion: whatever F_MORE completions, cancel commands and stops have done
\* to __n_ops_, no queue, ring or thread carries the task any more, and a cancel
\* that completes later does not resume it again.  That the cancel's completion
\* reads __target_ all the same, and writes to it, is not excluded.
ResumedIsOver == \A o \in Io : resumed[o] > 0 => resumed[o] = 1 /\ ~Carried(o)

\* A notification that finds the loop awake leaves __state_ at notify for
\* good: only _M_io_uring_enter stores run, and only after the exchange from
\* run that now fails, so the loop polls and never enters the kernel again.
NotifySticks ==
    [][state = "notify" /\ ~Sleeping /\ lpc # "woken" => state' = "notify"]_vars

\* Until stop is requested or the gate closes, the heap holds no timer that was
\* completed, whose coroutine may have freed it.
HeapHoldsLive == (\A o \in heap : resumed[o] = 0) \/ stop \/ Closed

\* Tasks the loop's thread submits itself are resumed, however their
\* completions are batched, and the loop ends once none is left.
LocalTasksResumed == \A o \in Io : o \notin fresh ~> resumed[o] = 1
LoopEnds == <>(lpc = "finished")

\* A remote submission returns, whatever the loop does, unless the assertion at
\* the end of the loop stops the process meanwhile.
SubmitReturns == \A t \in Thread : tpc[t] = "push" ~> tpc[t] = "idle" \/ Aborted

\* the kernel has, or the submission ring offers it, a request not completed
Unanswered == kernel # {} \/ sq # <<>>

\* Once the loop has decided to end, it closes the gate and gets to its last
\* assertion.  _M_run_until_stop returns only if no request is left that could
\* complete into a task already freed; if one is, because the last
\* io_uring_enter was interrupted, took only a part, or was content with F_MORE
\* completions, the assertion stops the process.
ShutdownEnds ==
    lpc = "close" ~> \/ lpc = "finished" /\ ~Unanswered
                     \/ Aborted /\ Unanswered
=============================================================================
