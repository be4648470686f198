--------------------------- MODULE SchedulerProofs ---------------------------
(***************************************************************************)
(* Proofs about Scheduler for any number of remote threads and tasks and   *)
(* any size of the rings.                                                  *)
(***************************************************************************)
EXTENDS Scheduler, SequenceFacts

-----------------------------------------------------------------------------
(* The gate and the wake-up: what the loop's thread and the threads that     *)
(* submit to it know of each other.                                          *)

\* threads between admission and release
Inside == {t \in Thread : tpc[t] \in {"push", "release"}}

\* the accept in progress has still to fold the io queue, the timer queue, of t
ToAcceptIo(t) ==
    lpc = "acceptIo" /\ \E i \in DOMAIN Queues : i >= queue /\ Queues[i] = t
ToAcceptDr(t) ==
    \/ lpc = "acceptIo"
    \/ lpc = "acceptDr" /\ \E i \in DOMAIN Queues : i >= queue /\ Queues[i] = t

GateType ==
    /\ state \in {"run", "sleep", "notify"} /\ eventfd \in BOOLEAN
    /\ lpc \in LoopPc /\ queue \in Nat \ {0}
    /\ inFlight \in Nat \union {no_new_submit}
    /\ ioRemote \in [Thread -> Seq(Uring)] /\ drRemote \in [Thread -> Seq(Timed)]
    /\ tpc \in [Thread -> {"idle", "push", "release", "notify", "write"}]
    /\ task \in [Thread -> Task \union {NoTask}]
    /\ \A t \in Thread : tpc[t] = "push" => task[t] \in Task

\* nobody is inside the closed gate
GateCount == inFlight = Cardinality(Inside) \/ (Closed /\ Inside = {})

\* an accept begins with the first queue
FirstQueue == lpc \notin {"acceptIo", "acceptDr"} => queue = 1

\* behind the closed gate only the accept in progress finds tasks
ClosedInv ==
    Closed => \A t \in Thread : /\ ioRemote[t] # <<>> => ToAcceptIo(t)
                                /\ drRemote[t] # <<>> => ToAcceptDr(t)

\* somebody will notify, or has notified, the loop
Announced == state = "notify" \/ \E u \in Thread : tpc[u] \in {"release", "notify"}

\* a task in a remote queue is found by the accept in progress, or by the next
\* one, which comes before the loop sleeps or is announced
WakeInv ==
    lpc # "woken" => \A t \in Thread : /\ ioRemote[t] # <<>> => ToAcceptIo(t) \/ Announced
                                       /\ drRemote[t] # <<>> => ToAcceptDr(t) \/ Announced

\* who notifies a sleeping loop writes to the eventfd
SleepInv ==
    Sleeping => /\ state # "run"
                /\ state = "notify" => eventfd \/ \E u \in Thread : tpc[u] = "write"

GateInv == GateType /\ GateCount /\ FirstQueue /\ ClosedInv /\ WakeInv /\ SleepInv

\* There are finitely many remote threads, and so of those inside the gate.
LEMMA ThreadFinite == IsFiniteSet(Thread)
<1>1. PICK n \in Nat : DOMAIN Queues = 1..n
  BY QueueAssumption, LenProperties
<1>2. IsFiniteSet(DOMAIN Queues)
  BY <1>1, FS_Interval
<1> DEFINE f == [i \in DOMAIN Queues |-> Queues[i]]
<1>3. f \in Surjection(DOMAIN Queues, Thread)
  BY DEF Surjection, Thread
<1> QED BY <1>2, <1>3, FS_Surjection

\* A thread that enters or leaves changes the number of those inside by one.
LEMMA InsideFinite ==
    /\ IsFiniteSet(Inside) /\ Cardinality(Inside) \in Nat
    /\ IsFiniteSet(Inside') /\ Cardinality(Inside') \in Nat
<1>1. Inside \subseteq Thread /\ Inside' \subseteq Thread
  BY DEF Inside
<1> QED BY <1>1, ThreadFinite, FS_Subset, FS_CardinalityType

\* The gate is open and nobody is inside when the loop starts, and the first
\* accept has every queue before it.
LEMMA GateInit == Init => GateInv
<1> SUFFICES ASSUME Init PROVE GateInv
  OBVIOUS
<1> USE DEF Init
<1>1. GateType
  <2>1. ioRemote \in [Thread -> Seq(Uring)] /\ drRemote \in [Thread -> Seq(Timed)]
    OBVIOUS
  <2>2. tpc \in [Thread -> {"idle", "push", "release", "notify", "write"}]
    OBVIOUS
  <2>3. task \in [Thread -> Task \union {NoTask}]
    OBVIOUS
  <2>4. \A t \in Thread : tpc[t] # "push"
    OBVIOUS
  <2>5. lpc \in LoopPc /\ queue \in Nat \ {0} /\ inFlight \in Nat
    BY DEF LoopPc
  <2> QED BY <2>1, <2>2, <2>3, <2>4, <2>5 DEF GateType
<1>2. Inside = {} /\ Cardinality(Inside) = 0
  BY FS_EmptySet DEF Inside
<1>3. GateCount
  BY <1>2 DEF GateCount
<1> QED BY <1>1, <1>3 DEF GateInv, FirstQueue, ClosedInv, WakeInv, SleepInv, Sleeping, Closed, no_new_submit

\* Every step of the loop's thread, of a remote thread and of the kernel
\* preserves the invariant of the gate.
LEMMA GateStep == GateInv /\ [Next]_vars => GateInv'
<1> SUFFICES ASSUME GateInv, [Next]_vars PROVE GateInv'
  OBVIOUS
<1>q. queue \in Nat \ {0}
  BY DEF GateInv, GateType
<1>t. queue + 1 \in Nat \ {0}
  BY <1>q
<1>b. \A i \in DOMAIN Queues : Queues[i] \in Thread
  BY DEF Thread
<1> USE DEF GateInv, vars, loopVars, countVars, remoteVars, pendingVars, ringVars, taskVars, signalVars
<1> USE DEF GateType, GateCount, FirstQueue, ClosedInv, WakeInv, SleepInv, Sleeping, Announced,
            Closed, no_new_submit, ToAcceptIo, ToAcceptDr, LoopPc, Goto, TGoto

<1>0. PICK n \in Nat : DOMAIN Queues = 1..n
  BY QueueAssumption, LenProperties
<1>a. \A t \in Thread : \E i \in DOMAIN Queues : i >= 1 /\ Queues[i] = t
  BY <1>0 DEF Thread
<1>1. CASE AcceptIo
  <2>1. CASE queue \in DOMAIN Queues
    <3>1. Queues[queue] \in Thread /\ queue + 1 \in Nat \ {0}
      BY <1>b, <1>t, <2>1
    <3>2. /\ ioRemote' = [ioRemote EXCEPT ![Queues[queue]] = <<>>]
          /\ lpc = "acceptIo" /\ lpc' = lpc /\ queue' = queue + 1
          /\ UNCHANGED <<inFlight, drRemote, tpc, task, state, eventfd>>
      BY <1>1, <2>1 DEF AcceptIo
    <3>3. GateType' /\ GateCount' /\ FirstQueue' /\ SleepInv'
      BY <3>1, <3>2 DEF Inside
    <3>4. \A t \in Thread : ioRemote'[t] # <<>> /\ ToAcceptIo(t) => ToAcceptIo(t)'
      BY <1>0, <3>1, <3>2
    <3>5. \A t \in Thread : ioRemote'[t] # <<>> => ioRemote[t] # <<>>
      BY <3>1, <3>2
    <3> QED BY <3>2, <3>3, <3>4, <3>5
  <2>2. CASE queue \notin DOMAIN Queues
    <3>1. /\ lpc' = "acceptDr" /\ queue' = 1
          /\ UNCHANGED <<ioRemote, inFlight, drRemote, tpc, task, state, eventfd>>
      BY <1>1, <2>2 DEF AcceptIo
    <3>2. GateType' /\ GateCount' /\ FirstQueue' /\ SleepInv'
      BY <3>1 DEF Inside
    <3>3. \A t \in Thread : ~ToAcceptIo(t) /\ ToAcceptDr(t)'
      BY <1>0, <1>a, <2>2, <3>1
    <3>4. lpc = "acceptIo" /\ (Announced => Announced') /\ (Closed' => Closed)
      BY <1>1, <3>1 DEF AcceptIo
    <3>5. ClosedInv' /\ WakeInv'
      BY <3>1, <3>3, <3>4
    <3> QED BY <3>2, <3>5
  <2> QED BY <2>1, <2>2
<1>2. CASE AcceptDr
  <2>1. CASE queue \in DOMAIN Queues
    <3>1. Queues[queue] \in Thread /\ queue + 1 \in Nat \ {0}
      BY <1>b, <1>t, <2>1
    <3>2. /\ drRemote' = [drRemote EXCEPT ![Queues[queue]] = <<>>]
          /\ lpc = "acceptDr" /\ lpc' = lpc /\ queue' = queue + 1
          /\ UNCHANGED <<inFlight, ioRemote, tpc, task, state, eventfd>>
      BY <1>2, <2>1 DEF AcceptDr
    <3>3. GateType' /\ GateCount' /\ FirstQueue' /\ SleepInv'
      BY <3>1, <3>2 DEF Inside
    <3>4. \A t \in Thread : drRemote'[t] # <<>> /\ ToAcceptDr(t) => ToAcceptDr(t)'
      BY <1>0, <3>1, <3>2
    <3>5. \A t \in Thread : drRemote'[t] # <<>> => drRemote[t] # <<>>
      BY <3>1, <3>2
    <3> QED BY <3>2, <3>3, <3>4, <3>5
  <2>2. CASE queue \notin DOMAIN Queues
    BY <1>0, <1>2, <2>2 DEF AcceptDr, AfterAccept, Inside
  <2> QED BY <2>1, <2>2
<1>3. CASE Reap
  BY <1>3 DEF Reap, Inside
<1>4. CASE ReapEnd
  BY <1>4 DEF ReapEnd, Inside
<1>5. CASE SubmitBegin
  BY <1>5 DEF SubmitBegin, Inside
<1>6. CASE Fill
  BY <1>6 DEF Fill, Inside
<1>7. CASE FillEnd
  BY <1>7 DEF FillEnd, Inside
<1>8. CASE TimerCommand
  BY <1>8 DEF TimerCommand, Inside
<1>9. CASE TimersEnd
  BY <1>9 DEF TimersEnd, Inside
<1>10. CASE Check
  BY <1>10 DEF Check, Inside
<1>11. CASE EnterSleep
  BY <1>11 DEF EnterSleep, SleepUnlessNotified, Inside
<1>12. CASE EnterUnlock
  BY <1>12 DEF EnterUnlock, Inside
<1>13. CASE EnterTake
  BY <1>13 DEF EnterTake, Inside
<1>14. CASE EnterEnd
  BY <1>a, <1>14 DEF EnterEnd, Inside
<1>15. CASE Close
  <2>1. /\ inFlight = 0 /\ inFlight' = no_new_submit /\ lpc' = "acceptIo" /\ queue' = 1
        /\ UNCHANGED <<ioRemote, drRemote, tpc, task, state, eventfd>>
    BY <1>15 DEF Close, NoneInFlight
  <2>2. Inside = {} /\ Inside' = Inside
    BY <2>1, InsideFinite, FS_EmptySet DEF Inside
  <2>3. \A t \in Thread : ToAcceptIo(t)' /\ ToAcceptDr(t)'
    BY <1>a, <2>1
  <2> QED BY <2>1, <2>2, <2>3
<1>16. CASE FinalReapEnd
  BY <1>16 DEF FinalReapEnd, Inside
<1>17. ASSUME NEW enough \in BOOLEAN, EnterReturn(enough) PROVE GateInv'
  BY <1>17 DEF EnterReturn, Inside
<1>18. ASSUME NEW enough \in BOOLEAN, FinalReturn(enough) PROVE GateInv'
  BY <1>18 DEF FinalReturn, Inside
<1>19. ASSUME NEW o \in Uring, Post(o) PROVE GateInv'
  BY <1>19 DEF Post, Inside
<1>20. ASSUME NEW o \in Uring, PostMore(o) PROVE GateInv'
  BY <1>20 DEF PostMore, Inside
<1>21. ASSUME NEW t \in Thread, SubmitAdmit(t) PROVE GateInv'
  <2>1. Inside' = Inside \union {t} /\ t \notin Inside /\ ~Closed
    BY <1>21 DEF SubmitAdmit, Inside
  <2>2. Cardinality(Inside') = Cardinality(Inside) + 1
    BY <2>1, InsideFinite, FS_AddElement
  <2>3. inFlight' = inFlight + 1 /\ inFlight' # no_new_submit
    BY <1>21, <2>1, InsideFinite DEF SubmitAdmit
  <2>4. GateCount' /\ FirstQueue' /\ ClosedInv'
    BY <1>21, <2>1, <2>2, <2>3 DEF SubmitAdmit
  <2>5. PICK o \in Task : task' = [task EXCEPT ![t] = o]
    BY <1>21 DEF SubmitAdmit
  <2>6. GateType'
    BY <1>21, <2>3, <2>5, <2>1, InsideFinite DEF SubmitAdmit
  <2>7. tpc[t] = "idle" /\ tpc' = [tpc EXCEPT ![t] = "push"] /\ UNCHANGED <<ioRemote, drRemote, lpc, queue, state, eventfd>>
    BY <1>21 DEF SubmitAdmit
  <2>8. /\ \A u \in Thread : tpc[u] \in {"release", "notify"} => tpc'[u] = tpc[u]
        /\ \A u \in Thread : tpc[u] = "write" => tpc'[u] = tpc[u]
    BY <2>7
  <2>9. WakeInv' /\ SleepInv'
    BY <2>7, <2>8
  <2> QED BY <2>4, <2>6, <2>9
<1>22. ASSUME NEW t \in Thread, SubmitRefuse(t) PROVE GateInv'
  BY <1>22 DEF SubmitRefuse, Inside
<1>23. ASSUME NEW t \in Thread, RequestStop(t) PROVE GateInv'
  <2>1. Inside' = Inside
    BY <1>23 DEF RequestStop, Inside
  <2> QED BY <1>23, <2>1 DEF RequestStop
<1>24. ASSUME NEW t \in Thread, SubmitPush(t) PROVE GateInv'
  <2>1. Inside' = Inside /\ t \in Inside /\ ~Closed
    BY <1>24, InsideFinite, FS_EmptySet DEF SubmitPush, Inside
  <2>2. tpc[t] = "push" /\ tpc' = [tpc EXCEPT ![t] = "release"] /\ UNCHANGED <<lpc, queue, state, eventfd, inFlight>>
    BY <1>24 DEF SubmitPush
  <2>3. /\ ioRemote' \in [Thread -> Seq(Uring)] /\ drRemote' \in [Thread -> Seq(Timed)]
        /\ task' \in [Thread -> Task \union {NoTask}]
    <3>1. task[t] \in Task /\ task' = [task EXCEPT ![t] = NoTask]
      BY <1>24, <2>2 DEF SubmitPush
    <3>2. CASE task[t] \in Uring
      <4>1. Append(ioRemote[t], task[t]) \in Seq(Uring)
        BY <3>2, AppendProperties
      <4>2. ioRemote' = [ioRemote EXCEPT ![t] = Append(ioRemote[t], task[t])] /\ drRemote' = drRemote
        BY <1>24, <3>2 DEF SubmitPush
      <4> QED BY <3>1, <4>1, <4>2
    <3>3. CASE task[t] \in Timed /\ task[t] \notin Uring
      <4>1. Append(drRemote[t], task[t]) \in Seq(Timed)
        BY <3>3, AppendProperties
      <4>2. drRemote' = [drRemote EXCEPT ![t] = Append(drRemote[t], task[t])] /\ ioRemote' = ioRemote
        BY <1>24, <3>3 DEF SubmitPush
      <4> QED BY <3>1, <4>1, <4>2
    <3> QED BY <3>1, <3>2, <3>3 DEF Task
  <2>4. \A u \in Thread : tpc'[u] = "push" => u # t /\ task'[u] = task[u] /\ tpc[u] = "push"
    BY <1>24, <2>2 DEF SubmitPush
  <2>5. GateType' /\ GateCount' /\ FirstQueue' /\ ClosedInv'
    BY <2>1, <2>2, <2>3, <2>4
  <2>6. tpc'[t] = "release" /\ \A u \in Thread : tpc[u] = "write" => tpc'[u] = tpc[u]
    BY <2>2
  <2>7. WakeInv' /\ SleepInv'
    BY <2>2, <2>6
  <2> QED BY <2>5, <2>7
<1>25. ASSUME NEW t \in Thread, SubmitRelease(t) PROVE GateInv'
  <2>1. t \in Inside
    BY <1>25 DEF SubmitRelease, Inside
  <2>2. Inside' = Inside \ {t}
    BY <1>25 DEF SubmitRelease, Inside
  <2>3. Cardinality(Inside') = Cardinality(Inside) - 1
    BY <2>1, <2>2, InsideFinite, FS_RemoveElement
  <2>4. inFlight = Cardinality(Inside) /\ inFlight' = inFlight - 1 /\ inFlight' \in Nat
    BY <1>25, <2>1, <2>3, InsideFinite DEF SubmitRelease, LeaveFlight
  <2>5. tpc[t] = "release" /\ tpc' = [tpc EXCEPT ![t] = "notify"] /\ UNCHANGED <<ioRemote, drRemote, task, lpc, queue, state, eventfd>>
    BY <1>25 DEF SubmitRelease
  <2>6. GateType' /\ GateCount' /\ FirstQueue' /\ ClosedInv'
    BY <2>3, <2>4, <2>5
  <2>7. tpc'[t] = "notify" /\ \A u \in Thread : tpc[u] = "write" => tpc'[u] = tpc[u]
    BY <2>5
  <2>8. WakeInv' /\ SleepInv'
    BY <2>5, <2>7
  <2> QED BY <2>6, <2>8
<1>26. ASSUME NEW t \in Thread, Notify(t) PROVE GateInv'
  <2>1. Inside' = Inside
    BY <1>26 DEF Notify, Inside
  <2> QED BY <1>26, <2>1 DEF Notify
<1>27. ASSUME NEW t \in Thread, NotifyWrite(t) PROVE GateInv'
  <2>1. Inside' = Inside
    BY <1>27 DEF NotifyWrite, Inside
  <2> QED BY <1>27, <2>1 DEF NotifyWrite, MutexFree
<1>28. CASE UNCHANGED vars
  BY <1>28 DEF Inside
<1> QED BY <1>1, <1>2, <1>3, <1>4, <1>5, <1>6, <1>7, <1>8, <1>9, <1>10, <1>11, <1>12, <1>13, <1>14, <1>15, <1>16, <1>17, <1>18, <1>19, <1>20, <1>21, <1>22, <1>23, <1>24, <1>25, <1>26, <1>27, <1>28 DEF Next, LoopStep, SubmitStep

\* The gate's invariant holds in every reachable state: who is inside, what the
\* accept in progress has still to fold, and who will wake the loop.
THEOREM GateInvHolds == Spec => []GateInv
BY GateInit, GateStep, PTL DEF Spec

\* __n_submit_in_flight_ is exact for any number of submitting threads: it is
\* the number of those between the admission and the decrement of _M_submit,
\* and no thread is there once no_new_submit was stored.
THEOREM GateExactHolds == Spec => []GateExact
<1>1. GateInv => GateExact
  <2> SUFFICES ASSUME GateInv PROVE GateExact
    OBVIOUS
  <2>1. Inside = {} => Cardinality(Inside) = 0
    BY FS_EmptySet
  <2> QED BY <2>1, InsideFinite DEF GateInv, GateCount, GateExact, Closed, no_new_submit, Inside
<1> QED BY <1>1, GateInvHolds, PTL

\* The accept that follows the closing of the gate takes every task a thread
\* was admitted with, and nothing arrives after it.
THEOREM NoneStrandedHolds == Spec => []NoneStranded
<1>1. GateInv => NoneStranded
  BY DEF GateInv, ClosedInv, NoneStranded, ToAcceptIo, ToAcceptDr
<1> QED BY <1>1, GateInvHolds, PTL

\* No wake-up is lost between _M_submit's push, its exchange to notify and the
\* loop's exchange to sleep, however many threads submit at once.
THEOREM NoLostWakeupHolds == Spec => []NoLostWakeup
<1>1. GateInv => NoLostWakeup
  BY DEF GateInv, WakeInv, SleepInv, NoLostWakeup, Announced, Sleeping, ToAcceptIo, ToAcceptDr
<1> QED BY <1>1, GateInvHolds, PTL

\* A notification stays in __state_ unless the loop is inside _M_io_uring_enter.
THEOREM NotifySticksHolds == Spec => NotifySticks
<1>1. [Next]_vars => [state = "notify" /\ ~Sleeping /\ lpc # "woken" => state' = "notify"]_vars
  BY DEF Next, LoopStep, SubmitStep, vars, loopVars, countVars, remoteVars, pendingVars, ringVars,
         taskVars, signalVars, Sleeping, Goto, AcceptIo, AcceptDr, Reap, ReapEnd, SubmitBegin,
         Fill, FillEnd, TimerCommand, TimersEnd, Check, EnterSleep, SleepUnlessNotified,
         EnterUnlock, EnterTake, EnterEnd, Close, FinalReapEnd, EnterReturn, FinalReturn, Post,
         PostMore, SubmitAdmit, SubmitRefuse, RequestStop, SubmitPush, SubmitRelease, Notify,
         NotifyWrite
<1> QED BY <1>1, PTL DEF Spec, NotifySticks

-----------------------------------------------------------------------------
(* The rings and their counters.                                             *)

RingType ==
    /\ stop \in BOOLEAN /\ stopping \in BOOLEAN /\ halting \in BOOLEAN
    /\ total \in Nat /\ newly \in Nat /\ room \in Nat /\ reaped \in Nat /\ moved \in Nat
    /\ ioPending \in Seq(Uring) /\ drPending \in Seq(Timed) /\ heap \subseteq Timer
    /\ nOps \in [Io -> Int] /\ resumed \in [Task -> Nat] /\ more \in [Multi -> Nat]
    /\ sq \in Seq(Uring) /\ kernel \subseteq Uring /\ IsFiniteSet(kernel)
    /\ cq \in Seq(Completion) /\ fresh \subseteq Task

\* what the loop and the kernel have of a task's way
Given == Range(ioPending) \union Range(sq) \union kernel

\* a task on the loop's side is there once
OnceGiven ==
    /\ IsInjective(ioPending) /\ IsInjective(sq)
    /\ Range(ioPending) \intersect (Range(sq) \union kernel) = {} /\ Range(sq) \intersect kernel = {}

\* and nowhere else: not unsubmitted, not in a thread's hands, not in a remote queue
OnceOutside ==
    /\ fresh \intersect Given = {}
    /\ \A t \in Thread : /\ Range(ioRemote[t]) \intersect (fresh \union Given) = {}
                         /\ IsInjective(ioRemote[t])
                         /\ tpc[t] = "push" => task[t] \notin fresh \union Given
    /\ \A t, u \in Thread : /\ tpc[t] = "push" => task[t] \notin Range(ioRemote[u])
                            /\ t # u /\ tpc[t] = "push" /\ tpc[u] = "push" => task[t] # task[u]
                            /\ t # u => Range(ioRemote[t]) \intersect Range(ioRemote[u]) = {}

\* what the batch in progress may still add
BatchInv ==
    lpc = "fill" => room + Len(sq) <= SqEntries /\ room + moved + total <= CqEntries

\* the counters
Exact == TotalIsOutstanding /\ NewlyIsUntaken /\ RingBounds /\ BatchInv

CountInv == RingType /\ OnceGiven /\ OnceOutside /\ Exact

\* completions that end a request
FinalEntry == {e \in Completion : ~e.more}

\* The final completions in a completion ring, by their positions.
LEMMA FinalPositions ==
    ASSUME NEW c \in Seq(Completion)
    PROVE  {i \in DOMAIN c : ~c[i].more} = Positions(c, FinalEntry)
<1>1. \A i \in DOMAIN c : c[i] \in Completion
  BY LenProperties
<1> QED BY <1>1 DEF Positions, FinalEntry

\* What is outstanding is a number: the tasks on the submission ring, in the
\* kernel, and the final completions.
LEMMA OutstandingSum ==
    ASSUME NEW q \in Seq(Uring), NEW k, IsFiniteSet(k), NEW c \in Seq(Completion)
    PROVE  /\ Len(q) \in Nat /\ Cardinality(k) \in Nat /\ Count(c, FinalEntry) \in Nat
           /\ Count(c, FinalEntry) = Cardinality({i \in DOMAIN c : ~c[i].more})
<1>1. Len(q) \in Nat
  BY LenProperties
<1>2. Count(c, FinalEntry) \in Nat
  BY CountType
<1>3. Cardinality(k) \in Nat
  BY FS_CardinalityType
<1>4. Count(c, FinalEntry) = Cardinality({i \in DOMAIN c : ~c[i].more})
  BY FinalPositions DEF Count
<1> QED BY <1>1, <1>2, <1>3, <1>4

\* What is outstanding in a state.
LEMMA OutstandingNat ==
    RingType => /\ Outstanding \in Nat
                /\ Outstanding = Len(sq) + Cardinality(kernel) + Count(cq, FinalEntry)
                /\ Len(sq) \in Nat /\ Cardinality(kernel) \in Nat /\ Count(cq, FinalEntry) \in Nat
<1>1. RingType => sq \in Seq(Uring) /\ IsFiniteSet(kernel) /\ cq \in Seq(Completion)
  BY DEF RingType
<1> QED BY <1>1, OutstandingSum DEF Outstanding

\* The same of the next state.
LEMMA OutstandingNext ==
    RingType' => /\ Outstanding' \in Nat
                 /\ Outstanding' = Len(sq') + Cardinality(kernel') + Count(cq', FinalEntry)
<1>1. RingType' => sq' \in Seq(Uring) /\ IsFiniteSet(kernel') /\ cq' \in Seq(Completion)
  BY DEF RingType
<1> QED BY <1>1, OutstandingSum DEF Outstanding

\* A submission ring gets no more tasks than both rings can take.
LEMMA RoomType ==
    RingType /\ RingBounds => Room \in Nat /\ Room + Len(sq) <= SqEntries /\ Room + total <= CqEntries
BY LenProperties, RingAssumption DEF RingType, RingBounds, Room, Min2

\* Delivering a completion keeps the counters of the tasks numbers.
LEMMA DeliverType ==
    ASSUME RingType, NEW o \in Uring, NEW isMore \in BOOLEAN, Deliver(o, isMore)
    PROVE  nOps' \in [Io -> Int] /\ resumed' \in [Task -> Nat]
<1>1. CASE o \in Io
  <2>1. /\ nOps' = Completed(nOps, o, isMore).nOps
        /\ resumed' = resumed \/ resumed' = [resumed EXCEPT ![o] = @ + 1]
    BY <1>1 DEF Deliver
  <2>2. nOps' = nOps \/ nOps' = [nOps EXCEPT ![o] = @ - 1]
    BY <2>1 DEF Completed, Decrement
  <2>3. o \in Task /\ nOps \in [Io -> Int] /\ resumed \in [Task -> Nat]
    BY <1>1 DEF RingType, Task, Uring
  <2>4. nOps' \in [Io -> Int]
    BY <1>1, <2>2, <2>3
  <2>5. resumed' \in [Task -> Nat]
    BY <2>1, <2>3
  <2> QED BY <2>4, <2>5
<1>2. CASE o \notin Io
  <2>1. o \in Task /\ Target[o] \in Io /\ Target[o] \in Task
    BY <1>2, TaskAssumption DEF Uring, Task
  <2>2. CASE UNCHANGED <<nOps, resumed>>
    BY <2>2 DEF RingType
  <2>3. CASE /\ nOps' = CancelCompleted(nOps, Target[o]).nOps
             /\ resumed' = [resumed EXCEPT ![o] = @ + 1,
                    ![Target[o]] = IF CancelCompleted(nOps, Target[o]).calls THEN @ + 1 ELSE @]
    <3>1. nOps' \in [Io -> Int]
      BY <2>1, <2>3 DEF RingType, CancelCompleted, ManualStop, Completed, Decrement
    <3>2. resumed' \in [Task -> Nat]
      <4>1. resumed \in [Task -> Nat]
        BY DEF RingType
      <4>2. CASE CancelCompleted(nOps, Target[o]).calls
        BY <2>1, <2>3, <4>1, <4>2
      <4>3. CASE ~CancelCompleted(nOps, Target[o]).calls
        BY <2>1, <2>3, <4>1, <4>3
      <4> QED BY <4>2, <4>3
    <3> QED BY <3>1, <3>2
  <2> QED BY <1>2, <2>2, <2>3 DEF Deliver
<1> QED BY <1>1, <1>2

\* Nothing outside the loop changes when a task goes on, or ends, inside it.
LEMMA OutsideKept ==
    OnceOutside /\ Given' \subseteq Given /\ UNCHANGED <<fresh, ioRemote, tpc, task>> => OnceOutside'
BY DEF OnceOutside

\* A completion function that submits one more task puts it nowhere twice.
LEMMA ContinueOnce ==
    ASSUME RingType, OnceGiven, OnceOutside, UNCHANGED <<sq, kernel, ioRemote, tpc, task>>,
           NEW pending \in Seq(Uring), IsInjective(pending), Range(pending) \subseteq Range(ioPending),
           Continue(pending)
    PROVE  ioPending' \in Seq(Uring) /\ fresh' \subseteq Task /\ OnceGiven' /\ OnceOutside'
<1>1. CASE ioPending' = pending /\ UNCHANGED fresh
  <2>1. Given' \subseteq Given
    BY <1>1 DEF Given
  <2> QED BY <1>1, <2>1, OutsideKept DEF RingType, OnceGiven
<1>2. ASSUME NEW o \in fresh \intersect Io, ioPending' = <<o>> \o pending, fresh' = fresh \ {o}
      PROVE  ioPending' \in Seq(Uring) /\ fresh' \subseteq Task /\ OnceGiven' /\ OnceOutside'
  <2>1. o \notin Range(ioPending) \union Range(sq) \union kernel
    BY DEF OnceOutside, Given
  <2>2. /\ ioPending' \in Seq(Uring) /\ Range(ioPending') = Range(pending) \union {o}
        /\ IsInjective(ioPending')
    BY <1>2, <2>1, RangeCons DEF Uring
  <2>3. OnceGiven'
    BY <2>1, <2>2 DEF OnceGiven
  <2>4. Given' \subseteq Given \union {o}
    BY <2>2 DEF Given
  <2>5. OnceOutside'
    BY <1>2, <2>4 DEF OnceOutside
  <2> QED BY <1>2, <2>2, <2>3, <2>5 DEF RingType
<1> QED BY <1>1, <1>2 DEF Continue

\* A step that moves no task keeps what is outstanding and where every task is.
LEMMA StillCounted ==
    ASSUME CountInv, UNCHANGED <<sq, kernel, cq, ioPending, fresh, ioRemote, tpc, task>>
    PROVE  Outstanding' = Outstanding /\ OnceGiven' /\ OnceOutside'
BY DEF CountInv, Outstanding, OnceGiven, OnceOutside, Given

\* The rings are empty when the loop starts, and every task is in one place.
LEMMA CountInit == Init => CountInv
<1> SUFFICES ASSUME Init PROVE CountInv
  OBVIOUS
<1> USE DEF Init
<1>1. Initial \in Seq(Io) /\ Initial \in Seq(Uring) /\ Range(Initial) \subseteq Io
  BY TaskAssumption, SeqMonotonic, RangeOfSeq DEF Uring
<1>2. RingType
  <2>1. more \in [Multi -> Nat] /\ nOps \in [Io -> Int] /\ resumed \in [Task -> Nat]
    OBVIOUS
  <2>2. IsFiniteSet(kernel)
    BY FS_EmptySet
  <2>3. sq \in Seq(Uring) /\ cq \in Seq(Completion) /\ drPending \in Seq(Timed)
    OBVIOUS
  <2> QED BY <1>1, <2>1, <2>2, <2>3 DEF RingType
<1>3. Range(sq) = {} /\ IsInjective(sq) /\ \A t \in Thread : Range(ioRemote[t]) = {} /\ IsInjective(ioRemote[t])
  BY DEF Range, IsInjective
<1>4. OnceGiven
  BY <1>3, QueueAssumption DEF OnceGiven
<1>5. fresh = Task \ Range(Initial) /\ \A t \in Thread : tpc[t] # "push"
  BY DEF Range
<1>6. OnceOutside
  BY <1>3, <1>5 DEF OnceOutside, Given
<1>7. Outstanding = 0
  <2>1. Len(sq) = 0 /\ Cardinality(kernel) = 0 /\ Count(cq, FinalEntry) = 0
    BY FS_EmptySet, CountEmpty
  <2> QED BY <1>2, <2>1, OutstandingNat
<1> QED BY <1>2, <1>4, <1>6, <1>7, RingAssumption
       DEF CountInv, Exact, BatchInv, TotalIsOutstanding, NewlyIsUntaken, RingBounds

\* Every step keeps the counters exact, the rings within their sizes and every
\* task in one place.
LEMMA CountStep == GateInv /\ CountInv /\ [Next]_vars => CountInv'
<1> SUFFICES ASSUME GateInv, CountInv, [Next]_vars PROVE CountInv'
  OBVIOUS
<1> USE DEF vars, loopVars, countVars, remoteVars, pendingVars, ringVars, taskVars, signalVars, Goto, TGoto
<1>i. RingType /\ OnceGiven /\ OnceOutside
  BY DEF CountInv
<1>e. Exact
  BY DEF CountInv
<1>n. /\ total \in Nat /\ newly \in Nat /\ room \in Nat /\ reaped \in Nat /\ moved \in Nat
      /\ Len(sq) \in Nat /\ Outstanding \in Nat /\ SqEntries \in Nat /\ CqEntries \in Nat
      /\ lpc \in LoopPc
  BY <1>i, OutstandingNat, RingAssumption DEF RingType, GateInv, GateType
<1>s. sq \in Seq(Uring) /\ cq \in Seq(Completion) /\ ioPending \in Seq(Uring) /\ drPending \in Seq(Timed)
  BY <1>i DEF RingType
<1>1. CASE AcceptIo
  <2>1. CASE queue \notin DOMAIN Queues
    <3>1. UNCHANGED <<sq, kernel, cq, ioPending, fresh, ioRemote, tpc, task>>
      BY <1>1, <2>1 DEF AcceptIo
    <3>2. Outstanding' = Outstanding /\ OnceGiven' /\ OnceOutside'
      BY <3>1, StillCounted
    <3>3. Exact' /\ RingType'
      BY <1>1, <1>i, <1>e, <2>1, <3>1, <3>2 DEF AcceptIo, RingType, Exact, BatchInv, TotalIsOutstanding, NewlyIsUntaken, RingBounds
    <3> QED BY <3>2, <3>3 DEF CountInv
  <2>2. CASE queue \in DOMAIN Queues
    <3> DEFINE t == Queues[queue]
    <3>1. t \in Thread
      BY <2>2 DEF Thread
    <3>2. /\ ioPending' = ioPending \o ioRemote[t]
          /\ ioRemote' = [ioRemote EXCEPT ![t] = <<>>]
          /\ UNCHANGED <<sq, kernel, cq, fresh, tpc, task, lpc>>
      BY <1>1, <2>2 DEF AcceptIo
    <3> HIDE DEF t
    <3>3. ioRemote[t] \in Seq(Uring) /\ ioRemote \in [Thread -> Seq(Uring)]
      BY <3>1 DEF GateInv, GateType
    <3>4. IsInjective(ioRemote[t]) /\ Range(ioRemote[t]) \intersect (fresh \union Given) = {}
      BY <1>i, <3>1 DEF OnceOutside
    <3>5. IsInjective(ioPending) /\ Range(ioPending) \intersect Range(ioRemote[t]) = {}
      BY <1>i, <3>4 DEF OnceGiven, Given
    <3>6. /\ ioPending' \in Seq(Uring) /\ Range(ioPending') = Range(ioPending) \union Range(ioRemote[t])
          /\ IsInjective(ioPending')
      BY <1>s, <3>2, <3>3, <3>4, <3>5, RangeConcat, ConcatProperties
    <3>7. OnceGiven' /\ Given' = Given \union Range(ioRemote[t])
      BY <1>i, <3>2, <3>4, <3>6 DEF OnceGiven, Given
    <3>8. Range(<<>>) = {} /\ IsInjective(<<>>)
      BY DEF Range, IsInjective
    <3>9. \A u \in Thread : ioRemote'[u] = IF u = t THEN <<>> ELSE ioRemote[u]
      BY <3>1, <3>2, <3>3
    <3>10. OnceOutside'
      <4>1. \A u \in Thread : /\ Range(ioRemote'[u]) \subseteq Range(ioRemote[u])
                              /\ IsInjective(ioRemote'[u])
                              /\ Range(ioRemote'[u]) \intersect Range(ioRemote[t]) = {}
        BY <1>i, <3>1, <3>8, <3>9 DEF OnceOutside
      <4> QED BY <1>i, <3>1, <3>2, <3>4, <3>7, <4>1 DEF OnceOutside
    <3>11. Outstanding' = Outstanding
      BY <3>2 DEF Outstanding
    <3>12. Exact' /\ RingType'
      BY <1>1, <1>i, <1>e, <2>2, <3>2, <3>6, <3>11 DEF AcceptIo, RingType, Exact, BatchInv, TotalIsOutstanding, NewlyIsUntaken, RingBounds
    <3> QED BY <3>7, <3>10, <3>12 DEF CountInv
  <2> QED BY <2>1, <2>2
<1>2. CASE AcceptDr
  <2>1. UNCHANGED <<sq, kernel, cq, ioPending, fresh, ioRemote, tpc, task>>
    BY <1>2 DEF AcceptDr
  <2>2. Outstanding' = Outstanding /\ OnceGiven' /\ OnceOutside'
    BY <2>1, StillCounted
  <2>3. Exact'
    BY <1>2, <1>e, <1>n, <2>1, <2>2 DEF AcceptDr, AfterAccept, Exact, BatchInv, TotalIsOutstanding, NewlyIsUntaken, RingBounds
  <2>4. drPending' \in Seq(Timed)
    <3>1. CASE queue \in DOMAIN Queues
      <4>1. drRemote[Queues[queue]] \in Seq(Timed) /\ drPending' = drPending \o drRemote[Queues[queue]]
        BY <1>2, <3>1 DEF AcceptDr, GateInv, GateType, Thread
      <4> QED BY <1>s, <4>1, ConcatProperties
    <3>2. CASE queue \notin DOMAIN Queues
      BY <1>2, <1>s, <3>2 DEF AcceptDr
    <3> QED BY <3>1, <3>2
  <2>5. RingType'
    BY <1>2, <1>i, <2>1, <2>4 DEF AcceptDr, RingType
  <2> QED BY <2>2, <2>3, <2>5 DEF CountInv
<1>3. CASE Reap
  <2> DEFINE e == Head(cq)
  <2>1. e \in Completion /\ Tail(cq) \in Seq(Completion) /\ cq # <<>>
    BY <1>3, <1>s, HeadTailProperties DEF Reap
  <2>2. e.task \in Uring /\ e.more \in BOOLEAN
    BY <2>1 DEF Completion
  <2>3. nOps' \in [Io -> Int] /\ resumed' \in [Task -> Nat]
    BY <1>3, <1>i, <2>2, DeliverType DEF Reap
  <2>4. Continue(ioPending) /\ UNCHANGED <<sq, kernel, ioRemote, tpc, task>> /\ cq' = Tail(cq)
    BY <1>3 DEF Reap
  <2>5. ioPending' \in Seq(Uring) /\ fresh' \subseteq Task /\ OnceGiven' /\ OnceOutside'
    <3>1. IsInjective(ioPending)
      BY <1>i DEF OnceGiven
    <3> QED BY <1>i, <1>s, <2>4, <3>1, ContinueOnce
  <2>u. cq # <<>> /\ e = Head(cq)
    BY <2>1
  <2>6. CountFinal(e) = (IF e \in FinalEntry THEN 1 ELSE 0) /\ CountFinal(e) \in {0, 1}
    BY <2>1, <2>2 DEF FinalEntry, CountFinal
  <2>7. Count(Tail(cq), FinalEntry) = Count(cq, FinalEntry) - CountFinal(e)
    BY <1>s, <2>1, <2>6, CountTail
  <2>8. /\ reaped' = reaped + CountFinal(e)
        /\ UNCHANGED <<lpc, stopping, halting, room, moved, newly, total, drPending, heap, more, stop>>
        /\ lpc \in {"reap", "finalReap"}
    BY <1>3 DEF Reap
  <2>9. RingType'
    BY <1>i, <1>n, <2>1, <2>3, <2>4, <2>5, <2>6, <2>8 DEF RingType
  <2>10. Outstanding' = Outstanding - CountFinal(e)
    BY <1>i, <2>4, <2>6, <2>7, <2>9, OutstandingNat, OutstandingNext
  <2>11. TotalIsOutstanding'
    BY <1>n, <1>e, <2>6, <2>8, <2>10 DEF Exact, TotalIsOutstanding
  <2>12. NewlyIsUntaken' /\ BatchInv'
    BY <1>e, <2>4, <2>8 DEF Exact, NewlyIsUntaken, BatchInv
  <2>13. RingBounds'
    BY <1>n, <1>e, <2>4, <2>6, <2>8, <2>10 DEF Exact, RingBounds
  <2> QED BY <2>5, <2>9, <2>11, <2>12, <2>13 DEF CountInv, Exact
<1>4. CASE ReapEnd
  <2>1. UNCHANGED <<sq, kernel, cq, ioPending, fresh, ioRemote, tpc, task>>
    BY <1>4 DEF ReapEnd, TotalLeft
  <2>2. Outstanding' = Outstanding /\ OnceGiven' /\ OnceOutside'
    BY <2>1, StillCounted
  <2>3. Exact'
    BY <1>4, <1>e, <1>n, <2>1, <2>2 DEF ReapEnd, TotalLeft, Exact, BatchInv, TotalIsOutstanding, NewlyIsUntaken, RingBounds
  <2>4. RingType'
    BY <1>4, <1>i, <1>e, <1>n, <2>1 DEF ReapEnd, TotalLeft, RingType, Exact, BatchInv, TotalIsOutstanding, NewlyIsUntaken, RingBounds
  <2> QED BY <2>2, <2>3, <2>4 DEF CountInv
<1>5. CASE SubmitBegin
  <2>1. UNCHANGED <<sq, kernel, cq, ioPending, fresh, ioRemote, tpc, task>>
    BY <1>5 DEF SubmitBegin
  <2>2. Outstanding' = Outstanding /\ OnceGiven' /\ OnceOutside'
    BY <2>1, StillCounted
  <2>3. Room \in Nat /\ Room + Len(sq) <= SqEntries /\ Room + total <= CqEntries
    BY <1>i, <1>e, RoomType DEF Exact
  <2>4. stopping' \in BOOLEAN /\ halting' \in BOOLEAN
    BY <1>5, <1>i DEF SubmitBegin, RingType, Closed
  <2>5. Exact'
    BY <1>5, <1>e, <1>n, <2>1, <2>2, <2>3 DEF SubmitBegin, Exact, BatchInv, TotalIsOutstanding, NewlyIsUntaken, RingBounds
  <2>6. RingType'
    BY <1>5, <1>i, <2>1, <2>3, <2>4 DEF SubmitBegin, RingType
  <2> QED BY <2>2, <2>5, <2>6 DEF CountInv
<1>6. CASE Fill
  <2> DEFINE o == Head(ioPending)
  <2>1. o \in Uring /\ Tail(ioPending) \in Seq(Uring) /\ ioPending # <<>>
    BY <1>6, <1>s, HeadTailProperties DEF Fill
  <2>2. Range(ioPending) = Range(Tail(ioPending)) \union {o} /\ IsInjective(Tail(ioPending))
        /\ o \notin Range(Tail(ioPending))
    BY <1>i, <1>s, <2>1, RangeTail DEF OnceGiven
  <2>3. /\ halting' \in BOOLEAN /\ room > 0 /\ lpc = "fill"
        /\ UNCHANGED <<lpc, stopping, reaped, total, newly, ioRemote, tpc, task, drPending, heap, kernel, cq, more, stop>>
    BY <1>6, <1>i DEF Fill, RingType
  <2>4. CASE halting'
    <3>1. Halt(o) /\ o \in Io
      BY <1>6, <2>1, <2>4 DEF Fill, Uring
    <3>2. UNCHANGED <<sq, room, moved>> /\ Continue(Tail(ioPending))
      BY <3>1 DEF Halt
    <3>3. ioPending' \in Seq(Uring) /\ fresh' \subseteq Task /\ OnceGiven' /\ OnceOutside'
      BY <1>i, <2>1, <2>2, <2>3, <3>2, ContinueOnce
    <3>4. nOps' \in [Io -> Int]
      <4>1. [nOps EXCEPT ![o] = 1] \in [Io -> Int] /\ [nOps EXCEPT ![o] = 1][o] = 1
        BY <1>i, <3>1 DEF RingType
      <4>2. nOps' = [[nOps EXCEPT ![o] = 1] EXCEPT ![o] = @ - 1]
        BY <3>1 DEF Halt, ManualStop, Completed, Decrement
      <4> QED BY <4>1, <4>2
    <3>5. resumed' \in [Task -> Nat]
      <4>1. o \in Task /\ resumed \in [Task -> Nat]
        BY <1>i, <3>1 DEF RingType, Task, Uring
      <4>2. resumed' = resumed \/ resumed' = [resumed EXCEPT ![o] = @ + 1]
        BY <3>1 DEF Halt
      <4> QED BY <4>1, <4>2
    <3>6. Outstanding' = Outstanding
      BY <2>3, <3>2 DEF Outstanding
    <3>7. RingType'
      BY <1>i, <2>3, <3>2, <3>3, <3>4, <3>5 DEF RingType
    <3>8. Exact'
      BY <1>e, <2>3, <3>2, <3>6 DEF Exact, BatchInv, TotalIsOutstanding, NewlyIsUntaken, RingBounds
    <3> QED BY <3>3, <3>7, <3>8 DEF CountInv
  <2>5. CASE ~halting'
    <3>1. Enqueue(o)
      BY <1>6, <2>5 DEF Fill
    <3>2. /\ sq' = Append(sq, o) /\ room' = room - 1 /\ moved' = moved + 1 /\ ioPending' = Tail(ioPending)
          /\ UNCHANGED <<fresh, resumed>>
      BY <3>1 DEF Enqueue
    <3>3. nOps' \in [Io -> Int]
      BY <1>i, <3>1 DEF Enqueue, RingType
    <3>4. IsInjective(sq) /\ o \notin Range(sq) \union kernel
      BY <1>i, <2>2 DEF OnceGiven
    <3> HIDE DEF o
    <3>5. /\ sq' \in Seq(Uring) /\ Len(sq') = Len(sq) + 1 /\ Range(sq') = Range(sq) \union {o}
          /\ IsInjective(sq')
      BY <1>s, <2>1, <3>2, <3>4, RangeAppend, AppendProperties
    <3>6. OnceGiven' /\ Given' \subseteq Given
      BY <1>i, <2>1, <2>2, <2>3, <3>2, <3>4, <3>5 DEF OnceGiven, Given
    <3>7. OnceOutside'
      BY <1>i, <2>3, <3>2, <3>6, OutsideKept
    <3>8. room' \in Nat /\ moved' \in Nat
      BY <1>n, <2>3, <3>2
    <3>9. RingType'
      BY <1>i, <2>1, <2>3, <3>2, <3>3, <3>5, <3>8 DEF RingType
    <3>10. Outstanding' = Outstanding + 1
      BY <1>i, <2>3, <3>5, <3>9, OutstandingNat, OutstandingNext
    <3>11. TotalIsOutstanding'
      BY <1>n, <1>e, <2>3, <3>2, <3>10 DEF Exact, TotalIsOutstanding
    <3>12. NewlyIsUntaken'
      <4>1. Len(sq) = newly + moved
        BY <1>e, <2>3 DEF Exact, NewlyIsUntaken
      <4>2. Len(sq') = newly' + moved' /\ lpc' = "fill"
        BY <1>n, <2>3, <3>2, <3>5, <4>1
      <4> QED BY <4>2 DEF NewlyIsUntaken
    <3>13. BatchInv' /\ RingBounds'
      <4>1. /\ room + Len(sq) <= SqEntries /\ room + moved + total <= CqEntries
            /\ total + moved - reaped = Outstanding
        BY <1>e, <2>3 DEF Exact, BatchInv, TotalIsOutstanding
      <4>2. Len(sq') <= SqEntries /\ room' + Len(sq') <= SqEntries
        BY <1>n, <2>3, <3>2, <3>5, <4>1
      <4>3. Outstanding' <= CqEntries /\ total' <= CqEntries /\ room' + moved' + total' <= CqEntries
        BY <1>n, <2>3, <3>2, <3>10, <4>1
      <4> QED BY <4>2, <4>3 DEF BatchInv, RingBounds
    <3> QED BY <3>6, <3>7, <3>9, <3>11, <3>12, <3>13 DEF CountInv, Exact
  <2> QED BY <2>4, <2>5
<1>7. CASE FillEnd
  <2>1. /\ UNCHANGED <<sq, kernel, cq, ioPending, fresh, ioRemote, tpc, task, room, reaped, moved>>
        /\ total' = total + moved /\ newly' = newly + moved /\ lpc = "fill" /\ lpc' = "timers"
        /\ UNCHANGED <<stopping, halting, drPending, heap, nOps, resumed, more, stop>>
    BY <1>7 DEF FillEnd
  <2>2. Outstanding' = Outstanding /\ OnceGiven' /\ OnceOutside'
    BY <2>1, StillCounted
  <2>3. Exact'
    BY <1>e, <1>n, <2>1, <2>2 DEF Exact, BatchInv, TotalIsOutstanding, NewlyIsUntaken, RingBounds
  <2>4. total' \in Nat /\ newly' \in Nat
    BY <1>n, <2>1
  <2>5. RingType'
    BY <1>i, <2>1, <2>4 DEF RingType
  <2> QED BY <2>2, <2>3, <2>5 DEF CountInv
<1>8. CASE TimerCommand
  <2> DEFINE o == Head(drPending)
             r == IF o \in Timer THEN o ELSE Target[o]
  <2>1. /\ UNCHANGED <<sq, kernel, cq, ioRemote, tpc, task>>
        /\ Continue(ioPending) \/ UNCHANGED <<ioPending, fresh>>
    BY <1>8 DEF TimerCommand
  <2>2. ioPending' \in Seq(Uring) /\ fresh' \subseteq Task /\ OnceGiven' /\ OnceOutside'
    <3>1. IsInjective(ioPending) /\ Continue(ioPending)
      BY <1>i, <2>1 DEF OnceGiven, Continue
    <3> QED BY <1>i, <1>s, <2>1, <3>1, ContinueOnce
  <2>c. Outstanding' = Outstanding
    BY <2>1 DEF Outstanding
  <2>3. o \in Timed /\ Tail(drPending) \in Seq(Timed)
    BY <1>8, <1>s, HeadTailProperties DEF TimerCommand
  <2>4. r \in Timer /\ r \in Task
    BY <2>3, TaskAssumption DEF Timed, Task
  <2>5. resumed' = resumed \/ resumed' = [resumed EXCEPT ![r] = @ + 1]
    BY <1>8 DEF TimerCommand, TimerManualStop
  <2> HIDE DEF r
  <2>6. resumed' \in [Task -> Nat]
    <3>1. resumed \in [Task -> Nat]
      BY <1>i DEF RingType
    <3> QED BY <2>4, <2>5, <3>1
  <2>7. heap' \subseteq Timer
    BY <1>8, <1>i DEF TimerCommand, RingType, _M_remove
  <2>8. Exact'
    BY <1>8, <1>e, <2>c DEF TimerCommand, Exact, BatchInv, TotalIsOutstanding, NewlyIsUntaken, RingBounds
  <2>9. RingType'
    BY <1>8, <1>i, <2>1, <2>2, <2>3, <2>6, <2>7 DEF TimerCommand, RingType
  <2> QED BY <2>2, <2>8, <2>9 DEF CountInv
<1>9. CASE TimersEnd
  <2>1. UNCHANGED <<sq, kernel, cq, ioPending, fresh, ioRemote, tpc, task>>
    BY <1>9 DEF TimersEnd
  <2>2. Outstanding' = Outstanding /\ OnceGiven' /\ OnceOutside'
    BY <2>1, StillCounted
  <2>3. Exact'
    BY <1>9, <1>e, <1>n, <2>1, <2>2 DEF TimersEnd, Exact, BatchInv, TotalIsOutstanding, NewlyIsUntaken, RingBounds
  <2>4. RingType'
    BY <1>9, <1>i, <1>e, <1>n, <2>1 DEF TimersEnd, RingType, Exact, BatchInv, TotalIsOutstanding, NewlyIsUntaken, RingBounds
  <2> QED BY <2>2, <2>3, <2>4 DEF CountInv
<1>10. CASE Check
  <2>1. UNCHANGED <<sq, kernel, cq, ioPending, fresh, ioRemote, tpc, task>>
    BY <1>10 DEF Check
  <2>2. Outstanding' = Outstanding /\ OnceGiven' /\ OnceOutside'
    BY <2>1, StillCounted
  <2>3. Exact'
    BY <1>10, <1>e, <1>n, <2>1, <2>2 DEF Check, Exact, BatchInv, TotalIsOutstanding, NewlyIsUntaken, RingBounds
  <2>4. RingType'
    BY <1>10, <1>i, <1>e, <1>n, <2>1 DEF Check, RingType, Exact, BatchInv, TotalIsOutstanding, NewlyIsUntaken, RingBounds
  <2> QED BY <2>2, <2>3, <2>4 DEF CountInv
<1>11. CASE EnterSleep
  <2>1. UNCHANGED <<sq, kernel, cq, ioPending, fresh, ioRemote, tpc, task>>
    BY <1>11 DEF EnterSleep, SleepUnlessNotified
  <2>2. Outstanding' = Outstanding /\ OnceGiven' /\ OnceOutside'
    BY <2>1, StillCounted
  <2>3. Exact'
    BY <1>11, <1>e, <1>n, <2>1, <2>2 DEF EnterSleep, SleepUnlessNotified, Exact, BatchInv, TotalIsOutstanding, NewlyIsUntaken, RingBounds
  <2>4. RingType'
    BY <1>11, <1>i, <1>e, <1>n, <2>1 DEF EnterSleep, SleepUnlessNotified, RingType, Exact, BatchInv, TotalIsOutstanding, NewlyIsUntaken, RingBounds
  <2> QED BY <2>2, <2>3, <2>4 DEF CountInv
<1>12. CASE EnterUnlock
  <2>1. UNCHANGED <<sq, kernel, cq, ioPending, fresh, ioRemote, tpc, task>>
    BY <1>12 DEF EnterUnlock
  <2>2. Outstanding' = Outstanding /\ OnceGiven' /\ OnceOutside'
    BY <2>1, StillCounted
  <2>3. Exact'
    BY <1>12, <1>e, <1>n, <2>1, <2>2 DEF EnterUnlock, Exact, BatchInv, TotalIsOutstanding, NewlyIsUntaken, RingBounds
  <2>4. RingType'
    BY <1>12, <1>i, <1>e, <1>n, <2>1 DEF EnterUnlock, RingType, Exact, BatchInv, TotalIsOutstanding, NewlyIsUntaken, RingBounds
  <2> QED BY <2>2, <2>3, <2>4 DEF CountInv
<1>13. CASE EnterTake
  <2>1. PICK n \in (IF newly = 0 THEN {0} ELSE 1 .. newly) :
            /\ moved' = n
            /\ sq' = SubSeq(sq, n + 1, Len(sq))
            /\ kernel' = kernel \union {sq[i] : i \in 1 .. n}
            /\ lpc' = IF lpc = "syscall" THEN (IF n = newly THEN "waiting" ELSE "woken")
                                         ELSE (IF n = newly THEN "finalWaiting" ELSE "finalReap")
    BY <1>13 DEF EnterTake
  <2> DEFINE first == {sq[i] : i \in 1 .. n}
  <2>2. /\ lpc \in {"syscall", "finalEnter"}
        /\ UNCHANGED <<stopping, halting, room, reaped, total, newly, inFlight, ioRemote, drRemote, tpc, task,
                       ioPending, drPending, heap, cq, more, nOps, fresh, resumed, stop>>
    BY <1>13 DEF EnterTake
  <2>3. Len(sq) = newly
    BY <1>e, <2>2 DEF Exact, NewlyIsUntaken
  <2>4. n \in Nat /\ n <= newly /\ n \in 0..Len(sq)
    BY <1>n, <2>1, <2>3
  <2>5. IsInjective(sq) /\ Range(sq) \intersect kernel = {} /\ Range(sq) \subseteq Uring
    BY <1>i, <1>s, RangeOfSeq DEF OnceGiven
  <2>6. /\ IsFiniteSet(first) /\ Cardinality(first) = n
        /\ sq' \in Seq(Uring) /\ Len(sq') = Len(sq) - n /\ IsInjective(sq')
        /\ Range(sq) = first \union Range(sq') /\ first \intersect Range(sq') = {}
    <3> DEFINE rest == SubSeq(sq, n + 1, Len(sq))
    <3>1. /\ IsFiniteSet(first) /\ Cardinality(first) = n
          /\ rest \in Seq(Uring) /\ Len(rest) = Len(sq) - n /\ IsInjective(rest)
          /\ Range(sq) = first \union Range(rest) /\ first \intersect Range(rest) = {}
      BY <1>s, <2>4, <2>5, RangeSplit
    <3>2. sq' = rest
      BY <2>1
    <3> HIDE DEF rest, first
    <3> QED BY <3>1, <3>2
  <2>7. kernel' = kernel \union first
    BY <2>1
  <2> HIDE DEF first
  <2>8. IsFiniteSet(kernel') /\ Cardinality(kernel') = Cardinality(kernel) + n
    <3>1. kernel \intersect first = {} /\ IsFiniteSet(kernel) /\ Cardinality(kernel) \in Nat
      BY <1>i, <2>5, <2>6, OutstandingNat DEF RingType
    <3>2. Cardinality(kernel \union first) = Cardinality(kernel) + Cardinality(first) - Cardinality(kernel \intersect first)
      BY <2>6, <3>1, FS_Union
    <3>3. IsFiniteSet(kernel \union first)
      BY <2>6, <3>1, FS_Union
    <3>4. Cardinality(kernel \intersect first) = 0
      BY <3>1, FS_EmptySet
    <3> QED BY <2>4, <2>6, <2>7, <3>1, <3>2, <3>3, <3>4
  <2>9. RingType'
    BY <1>i, <2>1, <2>2, <2>4, <2>5, <2>6, <2>7, <2>8 DEF RingType
  <2>10. OnceGiven' /\ Given' \subseteq Given
    BY <1>i, <2>2, <2>5, <2>6, <2>7 DEF OnceGiven, Given
  <2>11. OnceOutside'
    BY <1>i, <2>2, <2>10, OutsideKept
  <2>12. Outstanding' = Outstanding
    BY <1>i, <2>2, <2>4, <2>6, <2>8, <2>9, OutstandingNat, OutstandingNext
  <2>13. lpc' \in {"waiting", "woken", "finalWaiting", "finalReap"}
    BY <2>1
  <2>14. TotalIsOutstanding'
    BY <1>e, <2>2, <2>12, <2>13 DEF Exact, TotalIsOutstanding
  <2>15. NewlyIsUntaken' /\ BatchInv'
    BY <2>1, <2>2, <2>3, <2>6, <2>13 DEF NewlyIsUntaken, BatchInv
  <2>16. RingBounds'
    BY <1>n, <1>e, <2>2, <2>4, <2>6, <2>12 DEF Exact, RingBounds
  <2> QED BY <2>9, <2>10, <2>11, <2>14, <2>15, <2>16 DEF CountInv, Exact
<1>14. CASE EnterEnd
  <2>1. UNCHANGED <<sq, kernel, cq, ioPending, fresh, ioRemote, tpc, task>>
    BY <1>14 DEF EnterEnd, NewlyLeft
  <2>2. Outstanding' = Outstanding /\ OnceGiven' /\ OnceOutside'
    BY <2>1, StillCounted
  <2>3. Exact'
    BY <1>14, <1>e, <1>n, <2>1, <2>2 DEF EnterEnd, NewlyLeft, Exact, BatchInv, TotalIsOutstanding, NewlyIsUntaken, RingBounds
  <2>4. RingType'
    BY <1>14, <1>i, <1>e, <1>n, <2>1 DEF EnterEnd, NewlyLeft, RingType, Exact, BatchInv, TotalIsOutstanding, NewlyIsUntaken, RingBounds
  <2> QED BY <2>2, <2>3, <2>4 DEF CountInv
<1>15. CASE Close
  <2>1. UNCHANGED <<sq, kernel, cq, ioPending, fresh, ioRemote, tpc, task>>
    BY <1>15 DEF Close
  <2>2. Outstanding' = Outstanding /\ OnceGiven' /\ OnceOutside'
    BY <2>1, StillCounted
  <2>3. Exact'
    BY <1>15, <1>e, <1>n, <2>1, <2>2 DEF Close, Exact, BatchInv, TotalIsOutstanding, NewlyIsUntaken, RingBounds
  <2>4. RingType'
    BY <1>15, <1>i, <1>e, <1>n, <2>1 DEF Close, RingType, Exact, BatchInv, TotalIsOutstanding, NewlyIsUntaken, RingBounds
  <2> QED BY <2>2, <2>3, <2>4 DEF CountInv
<1>16. CASE FinalReapEnd
  <2>1. UNCHANGED <<sq, kernel, cq, ioPending, fresh, ioRemote, tpc, task>>
    BY <1>16 DEF FinalReapEnd
  <2>2. Outstanding' = Outstanding /\ OnceGiven' /\ OnceOutside'
    BY <2>1, StillCounted
  <2>3. Exact'
    BY <1>16, <1>e, <1>n, <2>1, <2>2 DEF FinalReapEnd, Exact, BatchInv, TotalIsOutstanding, NewlyIsUntaken, RingBounds
  <2>4. RingType'
    BY <1>16, <1>i, <1>e, <1>n, <2>1 DEF FinalReapEnd, RingType, Exact, BatchInv, TotalIsOutstanding, NewlyIsUntaken, RingBounds
  <2> QED BY <2>2, <2>3, <2>4 DEF CountInv
<1>17. ASSUME NEW enough \in BOOLEAN, EnterReturn(enough) PROVE CountInv'
  <2>1. UNCHANGED <<sq, kernel, cq, ioPending, fresh, ioRemote, tpc, task>>
    BY <1>17 DEF EnterReturn
  <2>2. Outstanding' = Outstanding /\ OnceGiven' /\ OnceOutside'
    BY <2>1, StillCounted
  <2>3. Exact'
    BY <1>17, <1>e, <1>n, <2>1, <2>2 DEF EnterReturn, Exact, BatchInv, TotalIsOutstanding, NewlyIsUntaken, RingBounds
  <2>4. RingType'
    BY <1>17, <1>i, <1>e, <1>n, <2>1 DEF EnterReturn, RingType, Exact, BatchInv, TotalIsOutstanding, NewlyIsUntaken, RingBounds
  <2> QED BY <2>2, <2>3, <2>4 DEF CountInv
<1>18. ASSUME NEW enough \in BOOLEAN, FinalReturn(enough) PROVE CountInv'
  <2>1. UNCHANGED <<sq, kernel, cq, ioPending, fresh, ioRemote, tpc, task>>
    BY <1>18 DEF FinalReturn
  <2>2. Outstanding' = Outstanding /\ OnceGiven' /\ OnceOutside'
    BY <2>1, StillCounted
  <2>3. Exact'
    BY <1>18, <1>e, <1>n, <2>1, <2>2 DEF FinalReturn, Exact, BatchInv, TotalIsOutstanding, NewlyIsUntaken, RingBounds
  <2>4. RingType'
    BY <1>18, <1>i, <1>e, <1>n, <2>1 DEF FinalReturn, RingType, Exact, BatchInv, TotalIsOutstanding, NewlyIsUntaken, RingBounds
  <2> QED BY <2>2, <2>3, <2>4 DEF CountInv
<1>19. ASSUME NEW o \in Uring, Post(o) PROVE CountInv'
  <2> DEFINE e == [task |-> o, more |-> FALSE]
  <2>1. e \in Completion /\ (e \in FinalEntry <=> ~FALSE)
    BY DEF Completion, FinalEntry
  <2>2. cq' = Append(cq, e)
    BY <1>19 DEF Post
  <2>3. UNCHANGED <<sq, loopVars, countVars, remoteVars, pendingVars, taskVars, signalVars>>
    BY <1>19 DEF Post
  <2> HIDE DEF e
  <2>4. /\ kernel' = kernel \ {o} /\ UNCHANGED more
        /\ IsFiniteSet(kernel') /\ Cardinality(kernel') = Cardinality(kernel) - 1
    <3>1. o \in kernel /\ kernel' = kernel \ {o} /\ UNCHANGED more
      BY <1>19 DEF Post
    <3> QED BY <1>i, <3>1, FS_RemoveElement DEF RingType
  <2>5. cq' \in Seq(Completion)
    BY <1>s, <2>1, <2>2, AppendProperties
  <2>6. Count(cq', FinalEntry) = Count(cq, FinalEntry) + 1
    BY <1>s, <2>1, <2>2, CountAppend
  <2>7. RingType'
    BY <1>i, <2>3, <2>4, <2>5 DEF RingType
  <2>8. Outstanding' = Outstanding
    BY <1>i, <2>3, <2>4, <2>6, <2>7, OutstandingNat, OutstandingNext
  <2>9. OnceGiven' /\ Given' \subseteq Given
    BY <1>i, <2>3, <2>4 DEF OnceGiven, Given
  <2>10. OnceOutside'
    BY <1>i, <2>3, <2>9, OutsideKept
  <2>11. Exact'
    BY <1>e, <2>3, <2>8 DEF Exact, BatchInv, TotalIsOutstanding, NewlyIsUntaken, RingBounds
  <2> QED BY <2>7, <2>9, <2>10, <2>11 DEF CountInv
<1>20. ASSUME NEW o \in Uring, PostMore(o) PROVE CountInv'
  <2> DEFINE e == [task |-> o, more |-> TRUE]
  <2>1. e \in Completion /\ (e \in FinalEntry <=> ~TRUE)
    BY DEF Completion, FinalEntry
  <2>2. cq' = Append(cq, e)
    BY <1>20 DEF PostMore
  <2>3. UNCHANGED <<sq, loopVars, countVars, remoteVars, pendingVars, taskVars, signalVars>>
    BY <1>20 DEF PostMore
  <2> HIDE DEF e
  <2>4. UNCHANGED kernel
    BY <1>20 DEF PostMore
  <2>5. cq' \in Seq(Completion) /\ more' \in [Multi -> Nat]
    <3>1. more' \in [Multi -> Nat]
      BY <1>20, <1>i DEF PostMore, RingType
    <3> QED BY <1>s, <2>1, <2>2, <3>1, AppendProperties
  <2>6. Count(cq', FinalEntry) = Count(cq, FinalEntry)
    <3>1. Count(cq', FinalEntry) = Count(cq, FinalEntry) + 0
      BY <1>s, <2>1, <2>2, CountAppend
    <3> QED BY <1>i, <3>1, OutstandingNat
  <2>7. RingType'
    BY <1>i, <2>3, <2>4, <2>5 DEF RingType
  <2>8. Outstanding' = Outstanding
    BY <1>i, <2>3, <2>4, <2>6, <2>7, OutstandingNat, OutstandingNext
  <2>9. OnceGiven' /\ Given' \subseteq Given
    BY <1>i, <2>3, <2>4 DEF OnceGiven, Given
  <2>10. OnceOutside'
    BY <1>i, <2>3, <2>9, OutsideKept
  <2>11. Exact'
    BY <1>e, <2>3, <2>8 DEF Exact, BatchInv, TotalIsOutstanding, NewlyIsUntaken, RingBounds
  <2> QED BY <2>7, <2>9, <2>10, <2>11 DEF CountInv
<1>21. ASSUME NEW t \in Thread, SubmitAdmit(t) PROVE CountInv'
  <2>1. PICK o \in Task : o \in fresh /\ task' = [task EXCEPT ![t] = o] /\ fresh' = fresh \ {o}
    BY <1>21 DEF SubmitAdmit, Submittable
  <2>2. UNCHANGED <<loopVars, countVars, pendingVars, ringVars, ioRemote, nOps, resumed, stop>> /\ tpc' = [tpc EXCEPT ![t] = "push"]
    BY <1>21 DEF SubmitAdmit
  <2>3. Outstanding' = Outstanding /\ OnceGiven' /\ Given' = Given
    BY <1>i, <2>2 DEF Outstanding, OnceGiven, Given
  <2>4. \A u \in Thread : task'[u] = (IF u = t THEN o ELSE task[u]) /\ (u # t => tpc'[u] = tpc[u])
    BY <2>1, <2>2 DEF GateInv, GateType
  <2>5. OnceOutside'
    BY <1>i, <2>1, <2>2, <2>3, <2>4 DEF OnceOutside
  <2>6. Exact' /\ RingType'
    BY <1>i, <1>e, <2>1, <2>2, <2>3 DEF Exact, RingType, BatchInv, TotalIsOutstanding, NewlyIsUntaken, RingBounds
  <2> QED BY <2>3, <2>5, <2>6 DEF CountInv
<1>22. ASSUME NEW t \in Thread, SubmitRefuse(t) PROVE CountInv'
  <2>1. PICK o \in Task : /\ o \in fresh /\ fresh' = fresh \ {o}
                          /\ IF o \in Uring THEN Deliver(o, FALSE) ELSE TimerManualStop(o) /\ UNCHANGED nOps
    BY <1>22 DEF SubmitRefuse, Submittable
  <2>2. UNCHANGED <<loopVars, countVars, pendingVars, ringVars, ioRemote, tpc, task, stop>>
    BY <1>22 DEF SubmitRefuse
  <2>3. Outstanding' = Outstanding /\ OnceGiven' /\ Given' = Given
    BY <1>i, <2>2 DEF Outstanding, OnceGiven, Given
  <2>4. OnceOutside'
    BY <1>i, <2>1, <2>2, <2>3 DEF OnceOutside
  <2>5. nOps' \in [Io -> Int] /\ resumed' \in [Task -> Nat]
    <3>1. CASE o \in Uring
      BY <1>i, <2>1, <3>1, DeliverType
    <3>2. CASE o \notin Uring
      <4> DEFINE r == IF o \in Timer THEN o ELSE Target[o]
      <4>1. r \in Task
        BY <3>2, TaskAssumption DEF Timed, Task
      <4>2. resumed' = [resumed EXCEPT ![r] = @ + 1] /\ nOps' = nOps
        BY <2>1, <3>2 DEF TimerManualStop
      <4> HIDE DEF r
      <4> QED BY <1>i, <4>1, <4>2 DEF RingType
    <3> QED BY <3>1, <3>2
  <2>6. Exact' /\ RingType'
    BY <1>i, <1>e, <2>1, <2>2, <2>3, <2>5 DEF Exact, RingType, BatchInv, TotalIsOutstanding, NewlyIsUntaken, RingBounds
  <2> QED BY <2>3, <2>4, <2>6 DEF CountInv
<1>23. ASSUME NEW t \in Thread, RequestStop(t) PROVE CountInv'
  <2>1. UNCHANGED <<loopVars, countVars, pendingVars, ringVars, taskVars, ioRemote, task>> /\ stop' \in BOOLEAN
    BY <1>23, <1>i DEF RequestStop, RingType
  <2>2. \A u \in Thread : tpc'[u] = "push" => tpc[u] = "push"
    BY <1>23 DEF RequestStop, GateInv, GateType
  <2>3. Outstanding' = Outstanding /\ OnceGiven' /\ Given' = Given
    BY <1>i, <2>1 DEF Outstanding, OnceGiven, Given
  <2>4. OnceOutside'
    BY <1>i, <2>1, <2>2, <2>3 DEF OnceOutside
  <2>5. Exact' /\ RingType'
    BY <1>i, <1>e, <2>1, <2>3 DEF Exact, RingType, BatchInv, TotalIsOutstanding, NewlyIsUntaken, RingBounds
  <2> QED BY <2>3, <2>4, <2>5 DEF CountInv
<1>24. ASSUME NEW t \in Thread, SubmitPush(t) PROVE CountInv'
  <2>1. UNCHANGED <<loopVars, countVars, pendingVars, ringVars, taskVars, stop>> /\ tpc[t] = "push" /\ task[t] \in Task
    BY <1>24 DEF SubmitPush, GateInv, GateType
  <2>2. Outstanding' = Outstanding /\ OnceGiven' /\ Given' = Given
    BY <1>i, <2>1 DEF Outstanding, OnceGiven, Given
  <2>3. \A u \in Thread : /\ tpc'[u] = "push" => u # t /\ tpc[u] = "push" /\ task'[u] = task[u]
                          /\ u # t => ioRemote'[u] = ioRemote[u]
    BY <1>24 DEF SubmitPush, GateInv, GateType
  <2>4. Range(ioRemote'[t]) \subseteq Range(ioRemote[t]) \union {task[t]} /\ IsInjective(ioRemote'[t])
    <3>1. CASE task[t] \in Uring
      <4>1. ioRemote'[t] = Append(ioRemote[t], task[t]) /\ ioRemote[t] \in Seq(Uring)
        BY <1>24, <3>1 DEF SubmitPush, GateInv, GateType
      <4>2. IsInjective(ioRemote[t]) /\ task[t] \notin Range(ioRemote[t])
        BY <1>i, <2>1 DEF OnceOutside
      <4> QED BY <3>1, <4>1, <4>2, RangeAppend
    <3>2. CASE task[t] \notin Uring
      BY <1>24, <1>i, <3>2 DEF SubmitPush, OnceOutside
    <3> QED BY <3>1, <3>2
  <2>5. OnceOutside'
    <3>1. ASSUME NEW u \in Thread
          PROVE  Range(ioRemote'[u]) \intersect (fresh \union Given) = {} /\ IsInjective(ioRemote'[u])
      <4>1. CASE u = t
        BY <1>i, <2>1, <2>4, <4>1 DEF OnceOutside
      <4>2. CASE u # t
        BY <1>i, <2>3, <4>2 DEF OnceOutside
      <4> QED BY <4>1, <4>2
    <3>2. ASSUME NEW u \in Thread, NEW v \in Thread
          PROVE  /\ tpc'[u] = "push" => task'[u] \notin Range(ioRemote'[v])
                 /\ u # v /\ tpc'[u] = "push" /\ tpc'[v] = "push" => task'[u] # task'[v]
      <4>1. CASE v = t
        BY <1>i, <2>1, <2>3, <2>4, <4>1 DEF OnceOutside
      <4>2. CASE v # t
        BY <1>i, <2>3, <4>2 DEF OnceOutside
      <4> QED BY <4>1, <4>2
    <3>3. ASSUME NEW u \in Thread, NEW v \in Thread, u # v
          PROVE  Range(ioRemote'[u]) \intersect Range(ioRemote'[v]) = {}
      <4>1. \A w \in Thread : w # t => Range(ioRemote[w]) \intersect (Range(ioRemote[t]) \union {task[t]}) = {}
        BY <1>i, <2>1 DEF OnceOutside
      <4>2. CASE u = t
        BY <2>3, <2>4, <3>3, <4>1, <4>2
      <4>3. CASE v = t
        BY <2>3, <2>4, <3>3, <4>1, <4>3
      <4>4. CASE u # t /\ v # t
        BY <1>i, <2>3, <3>3, <4>4 DEF OnceOutside
      <4> QED BY <4>2, <4>3, <4>4
    <3>4. \A u \in Thread : tpc'[u] = "push" => task'[u] \notin fresh \union Given
      BY <1>i, <2>3 DEF OnceOutside
    <3>5. fresh \intersect Given = {} /\ fresh' = fresh
      BY <1>i, <2>1 DEF OnceOutside
    <3> QED BY <2>2, <3>1, <3>2, <3>3, <3>4, <3>5 DEF OnceOutside
  <2>6. Exact' /\ RingType'
    BY <1>i, <1>e, <2>1, <2>2 DEF Exact, RingType, BatchInv, TotalIsOutstanding, NewlyIsUntaken, RingBounds
  <2> QED BY <2>2, <2>5, <2>6 DEF CountInv
<1>25. ASSUME NEW t \in Thread, SubmitRelease(t) PROVE CountInv'
  <2>1. UNCHANGED <<loopVars, countVars, pendingVars, ringVars, taskVars, ioRemote, task>> /\ stop' \in BOOLEAN
    BY <1>25, <1>i DEF SubmitRelease, RingType
  <2>2. \A u \in Thread : tpc'[u] = "push" => tpc[u] = "push"
    BY <1>25 DEF SubmitRelease, GateInv, GateType
  <2>3. Outstanding' = Outstanding /\ OnceGiven' /\ Given' = Given
    BY <1>i, <2>1 DEF Outstanding, OnceGiven, Given
  <2>4. OnceOutside'
    BY <1>i, <2>1, <2>2, <2>3 DEF OnceOutside
  <2>5. Exact' /\ RingType'
    BY <1>i, <1>e, <2>1, <2>3 DEF Exact, RingType, BatchInv, TotalIsOutstanding, NewlyIsUntaken, RingBounds
  <2> QED BY <2>3, <2>4, <2>5 DEF CountInv
<1>26. ASSUME NEW t \in Thread, Notify(t) PROVE CountInv'
  <2>1. UNCHANGED <<loopVars, countVars, pendingVars, ringVars, taskVars, ioRemote, task>> /\ stop' \in BOOLEAN
    BY <1>26, <1>i DEF Notify, RingType
  <2>2. \A u \in Thread : tpc'[u] = "push" => tpc[u] = "push"
    BY <1>26 DEF Notify, GateInv, GateType
  <2>3. Outstanding' = Outstanding /\ OnceGiven' /\ Given' = Given
    BY <1>i, <2>1 DEF Outstanding, OnceGiven, Given
  <2>4. OnceOutside'
    BY <1>i, <2>1, <2>2, <2>3 DEF OnceOutside
  <2>5. Exact' /\ RingType'
    BY <1>i, <1>e, <2>1, <2>3 DEF Exact, RingType, BatchInv, TotalIsOutstanding, NewlyIsUntaken, RingBounds
  <2> QED BY <2>3, <2>4, <2>5 DEF CountInv
<1>27. ASSUME NEW t \in Thread, NotifyWrite(t) PROVE CountInv'
  <2>1. UNCHANGED <<loopVars, countVars, pendingVars, ringVars, taskVars, ioRemote, task>> /\ stop' \in BOOLEAN
    BY <1>27, <1>i DEF NotifyWrite, RingType
  <2>2. \A u \in Thread : tpc'[u] = "push" => tpc[u] = "push"
    BY <1>27 DEF NotifyWrite, GateInv, GateType
  <2>3. Outstanding' = Outstanding /\ OnceGiven' /\ Given' = Given
    BY <1>i, <2>1 DEF Outstanding, OnceGiven, Given
  <2>4. OnceOutside'
    BY <1>i, <2>1, <2>2, <2>3 DEF OnceOutside
  <2>5. Exact' /\ RingType'
    BY <1>i, <1>e, <2>1, <2>3 DEF Exact, RingType, BatchInv, TotalIsOutstanding, NewlyIsUntaken, RingBounds
  <2> QED BY <2>3, <2>4, <2>5 DEF CountInv
<1>28. CASE UNCHANGED vars
  <2>1. Outstanding' = Outstanding /\ OnceGiven' /\ OnceOutside'
    BY <1>28, StillCounted
  <2>2. Exact' /\ RingType'
    BY <1>28, <1>i, <1>e, <2>1 DEF Exact, RingType, BatchInv, TotalIsOutstanding, NewlyIsUntaken, RingBounds
  <2> QED BY <2>1, <2>2 DEF CountInv
<1> QED BY <1>1, <1>2, <1>3, <1>4, <1>5, <1>6, <1>7, <1>8, <1>9, <1>10, <1>11, <1>12, <1>13, <1>14, <1>15, <1>16, <1>17, <1>18, <1>19, <1>20, <1>21, <1>22, <1>23, <1>24, <1>25, <1>26, <1>27, <1>28 DEF Next, LoopStep, SubmitStep

\* The rings and their counters in every reachable state.
THEOREM CountInvHolds == Spec => []CountInv
<1>1. GateInv /\ CountInv /\ [Next]_vars => CountInv'
  BY CountStep
<1> QED BY <1>1, CountInit, GateInvHolds, PTL DEF Spec

\* Every member of __scheduler, its queues and its rings keep their types: no
\* counter becomes negative, which in the code would wrap an unsigned.
THEOREM TypeCorrect == Spec => []TypeOK
<1>1. GateInv /\ CountInv => TypeOK
  BY DEF GateInv, GateType, CountInv, RingType, TypeOK
<1> QED BY <1>1, GateInvHolds, CountInvHolds, PTL

\* __n_total_submit_ is exact for any number of tasks, any ring sizes and any
\* number of F_MORE completions.
THEOREM TotalHolds == Spec => []TotalIsOutstanding
<1>1. CountInv => TotalIsOutstanding
  BY DEF CountInv, Exact
<1> QED BY <1>1, CountInvHolds, PTL

\* __n_newly_submit_ is exact, whatever part of a batch io_uring_enter takes.
THEOREM NewlyHolds == Spec => []NewlyIsUntaken
<1>1. CountInv => NewlyIsUntaken
  BY DEF CountInv, Exact
<1> QED BY <1>1, CountInvHolds, PTL

\* Neither ring overflows and no unsigned difference wraps.
THEOREM RingBoundsHolds == Spec => []RingBounds
<1>1. CountInv => RingBounds
  BY DEF CountInv, Exact
<1> QED BY <1>1, CountInvHolds, PTL

-----------------------------------------------------------------------------
(* The end of a task.                                                        *)

CqTasks == {cq[i].task : i \in DOMAIN cq}

\* a task with a completion on the ring is not on its way to the kernel
CqApart ==
    /\ CqTasks \intersect (fresh \union Range(ioPending) \union Range(sq)) = {}
    /\ \A t \in Thread : /\ CqTasks \intersect Range(ioRemote[t]) = {}
                         /\ tpc[t] = "push" => task[t] \notin CqTasks

\* a final completion is the last thing the kernel says of a task
CqFinal ==
    /\ \A i, j \in DOMAIN cq : i < j /\ cq[i].task = cq[j].task => cq[i].more
    /\ \A i \in DOMAIN cq : ~cq[i].more => cq[i].task \notin kernel

\* not submitted yet, or not done with
Live(o) == o \in fresh \/ Carried(o)

DoneInv ==
    /\ CqApart /\ CqFinal
    /\ \A t \in Thread : tpc[t] # "push" => task[t] = NoTask
    /\ \A o \in Io : resumed[o] > 0 => resumed[o] = 1 /\ ~Live(o)

\* Only its own final completion, or being stopped, resumes an io task: a
\* cancel task's completion only counts down.
LEMMA DeliverResumes ==
    ASSUME RingType, NEW o \in Uring, NEW isMore \in BOOLEAN, Deliver(o, isMore)
    PROVE  \A q \in Io : \/ resumed'[q] = resumed[q]
                         \/ q = o /\ ~isMore /\ resumed'[q] = resumed[q] + 1
<1>1. nOps \in [Io -> Int] /\ resumed \in [Task -> Nat] /\ Io \subseteq Task
  BY DEF RingType, Task, Uring
<1>2. CASE o \in Io
  BY <1>1, <1>2 DEF Deliver
<1>3. CASE o \notin Io
  <2>1. o \in Task /\ Target[o] \in Io /\ Target[o] \in Task
    BY <1>3, TaskAssumption DEF Uring, Task
  <2>2. ~CancelCompleted(nOps, Target[o]).calls
    <3>1. CASE nOps[Target[o]] = 1
      <4>1. Decrement(nOps, Target[o])[Target[o]] = 0
        BY <1>1, <2>1, <3>1 DEF Decrement
      <4>2. CancelCompleted(nOps, Target[o]) = Completed(Decrement(nOps, Target[o]), Target[o], FALSE)
        BY <3>1 DEF CancelCompleted, ManualStop
      <4>3. PICK d : d = Decrement(nOps, Target[o])
        OBVIOUS
      <4>4. Completed(d, Target[o], FALSE).calls = (d[Target[o]] = 1)
        BY DEF Completed
      <4>5. d[Target[o]] # 1 /\ CancelCompleted(nOps, Target[o]) = Completed(d, Target[o], FALSE)
        BY <4>1, <4>2, <4>3
      <4> QED BY <4>4, <4>5
    <3>2. CASE nOps[Target[o]] # 1
      BY <3>2 DEF CancelCompleted
    <3> QED BY <3>1, <3>2
  <2>3. \/ UNCHANGED resumed
        \/ resumed' = [resumed EXCEPT ![o] = @ + 1,
                           ![Target[o]] = IF CancelCompleted(nOps, Target[o]).calls THEN @ + 1 ELSE @]
    BY <1>3 DEF Deliver
  <2>4. CASE UNCHANGED resumed
    BY <2>4
  <2>5. CASE resumed' = [resumed EXCEPT ![o] = @ + 1,
                             ![Target[o]] = IF CancelCompleted(nOps, Target[o]).calls THEN @ + 1 ELSE @]
    <3> SUFFICES ASSUME NEW q \in Io PROVE resumed'[q] = resumed[q]
      OBVIOUS
    <3>1. q # o /\ q \in Task
      BY <1>1, <1>3
    <3> QED BY <1>1, <2>1, <2>2, <2>5, <3>1
  <2> QED BY <2>3, <2>4, <2>5
<1> QED BY <1>2, <1>3

\* What a step has to show of the tasks it resumes.
LEMMA ResumeOnce ==
    ASSUME DoneInv, RingType, \A o \in Io : Live(o)' => Live(o),
           \A o \in Io : \/ resumed'[o] = resumed[o]
                         \/ resumed'[o] = resumed[o] + 1 /\ Live(o) /\ ~Live(o)'
    PROVE  \A o \in Io : resumed'[o] > 0 => resumed'[o] = 1 /\ ~Live(o)'
<1> SUFFICES ASSUME NEW o \in Io, resumed'[o] > 0 PROVE resumed'[o] = 1 /\ ~Live(o)'
  OBVIOUS
<1>1. resumed[o] \in Nat /\ (resumed[o] > 0 => resumed[o] = 1 /\ ~Live(o))
  BY DEF DoneInv, RingType, Task, Uring
<1> QED BY <1>1

\* A step that moves no task and resumes no io task.
LEMMA StillDone ==
    ASSUME DoneInv, RingType, UNCHANGED <<fresh, ioPending, sq, kernel, cq, ioRemote, tpc, task>>,
           \A o \in Io : resumed'[o] = resumed[o]
    PROVE  DoneInv'
<1>1. CqApart' /\ CqFinal' /\ \A t \in Thread : tpc'[t] # "push" => task'[t] = NoTask
  BY DEF DoneInv, CqApart, CqFinal, CqTasks
<1>2. \A o \in Io : Live(o)' => Live(o)
  BY DEF Live, Carried
<1> QED BY <1>1, <1>2, ResumeOnce DEF DoneInv

\* At the start no task has a completion and none was resumed.
LEMMA DoneInit == Init => DoneInv
<1> SUFFICES ASSUME Init PROVE DoneInv
  OBVIOUS
<1>1. CqTasks = {} /\ DOMAIN cq = {}
  BY DEF Init, CqTasks
<1>2. \A o \in Io : resumed[o] = 0
  BY DEF Init, Task, Uring
<1>3. \A t \in Thread : tpc[t] = "idle" /\ task[t] = NoTask
  BY DEF Init
<1> QED BY <1>1, <1>2, <1>3 DEF DoneInv, CqApart, CqFinal

\* Who refers to a task: a place of the loop, a remote queue or a thread.
LEMMA LiveWhere ==
    ASSUME DoneInv, NEW o \in Io
    PROVE  Live(o) <=> \/ o \in fresh \union Given \union CqTasks
                       \/ \E t \in Thread : o \in Range(ioRemote[t]) \/ (tpc[t] = "push" /\ task[t] = o)
<1>1. o # NoTask
  BY TaskAssumption DEF Task, Uring
<1>2. \A t \in Thread : task[t] = o => tpc[t] = "push"
  BY <1>1 DEF DoneInv
<1> QED BY <1>2 DEF Live, Carried, Given, CqTasks

\* The same of the next state.
LEMMA LiveNext ==
    ASSUME \A t \in Thread : tpc'[t] # "push" => task'[t] = NoTask, NEW o \in Io
    PROVE  Live(o)' <=> \/ o \in fresh' \union Given' \union CqTasks'
                        \/ \E t \in Thread : o \in Range(ioRemote'[t]) \/ (tpc'[t] = "push" /\ task'[t] = o)
<1>1. o # NoTask
  BY TaskAssumption DEF Task, Uring
<1>2. \A t \in Thread : task'[t] = o => tpc'[t] = "push"
  BY <1>1
<1> QED BY <1>2 DEF Live, Carried, Given, CqTasks

\* A completion the kernel posts, of a task it holds and no other place does.
LEMMA PostDone ==
    ASSUME DoneInv, RingType, OnceGiven, OnceOutside, NEW o \in kernel, NEW m \in BOOLEAN,
           cq' = Append(cq, [task |-> o, more |-> m]), kernel' \subseteq kernel, m \/ o \notin kernel',
           UNCHANGED <<fresh, ioPending, sq, ioRemote, tpc, task, resumed>>
    PROVE  DoneInv'
<1> DEFINE e == [task |-> o, more |-> m]
           l == Len(cq)
<1>1. o \in Uring /\ e \in Completion /\ e.task = o /\ e.more = m
  BY DEF RingType, Completion
<1> HIDE DEF e
<1>2. cq \in Seq(Completion) /\ l \in Nat /\ DOMAIN cq = 1..l /\ cq' = Append(cq, e)
  BY LenProperties DEF RingType, e
<1>3. /\ DOMAIN cq' = 1..(l + 1) /\ \A i \in 1..l : cq'[i] = cq[i]
      /\ cq'[l + 1] = e
  <2>1. Append(cq, e) \in Seq(Completion) /\ Len(Append(cq, e)) = l + 1
    BY <1>1, <1>2, AppendProperties
  <2>2. DOMAIN Append(cq, e) = 1..(l + 1)
    BY <2>1, LenProperties
  <2> QED BY <1>1, <1>2, <2>2, AppendProperties
<1> HIDE DEF l
<1>4. \A i \in 1..(l + 1) : i \in 1..l \/ i = l + 1
  BY <1>2
<1>5. CqTasks' = CqTasks \union {o}
  <2>1. CqTasks' \subseteq CqTasks \union {o}
    BY <1>1, <1>2, <1>3, <1>4 DEF CqTasks
  <2>2. CqTasks \subseteq CqTasks'
    BY <1>2, <1>3 DEF CqTasks
  <2>3. o \in CqTasks'
    BY <1>1, <1>2, <1>3 DEF CqTasks
  <2> QED BY <2>1, <2>2, <2>3
<1>6. CqApart'
  BY <1>5 DEF DoneInv, CqApart, OnceGiven, OnceOutside, Given
<1>7. CqFinal'
  <2>1. ASSUME NEW i \in 1..(l + 1), ~cq'[i].more PROVE cq'[i].task \notin kernel'
    <3>1. CASE i \in 1..l
      BY <1>2, <1>3, <2>1, <3>1 DEF DoneInv, CqFinal
    <3>2. CASE i = l + 1
      BY <1>1, <1>3, <2>1, <3>2
    <3> QED BY <1>4, <3>1, <3>2
  <2>2. ASSUME NEW i \in 1..(l + 1), NEW j \in 1..(l + 1), i < j, cq'[i].task = cq'[j].task PROVE cq'[i].more
    <3>1. i \in 1..l /\ cq'[i] = cq[i]
      BY <1>2, <1>3, <2>2
    <3>2. CASE j \in 1..l
      BY <1>2, <1>3, <2>2, <3>1, <3>2 DEF DoneInv, CqFinal
    <3>3. CASE j = l + 1
      <4>1. cq[i].task = o /\ i \in DOMAIN cq
        BY <1>1, <1>2, <1>3, <2>2, <3>1, <3>3
      <4> QED BY <3>1, <4>1 DEF DoneInv, CqFinal
    <3> QED BY <1>4, <3>2, <3>3
  <2> QED BY <1>3, <2>1, <2>2 DEF CqFinal
<1>8. \A t \in Thread : tpc'[t] # "push" => task'[t] = NoTask
  BY DEF DoneInv
<1>9. Given' \subseteq Given /\ o \in Given
  BY DEF Given
<1>10. \A q \in Io : Live(q)' => Live(q)
  BY <1>5, <1>8, <1>9, LiveWhere, LiveNext
<1> QED BY <1>6, <1>7, <1>8, <1>10, ResumeOnce DEF DoneInv

\* Every step of the system resumes an io task at most once, and only when no
\* queue, ring entry or thread refers to it any more.
LEMMA DoneStep == GateInv /\ CountInv /\ DoneInv /\ [Next]_vars => DoneInv'
<1> SUFFICES ASSUME GateInv, CountInv, DoneInv, [Next]_vars PROVE DoneInv'
  OBVIOUS
<1> USE DEF vars, loopVars, countVars, remoteVars, pendingVars, ringVars, taskVars, signalVars, Goto, TGoto
<1>i. RingType /\ OnceGiven /\ OnceOutside
  BY DEF CountInv
<1>s. sq \in Seq(Uring) /\ cq \in Seq(Completion) /\ ioPending \in Seq(Uring)
  BY <1>i DEF RingType
<1>d. CqApart /\ CqFinal /\ \A t \in Thread : tpc[t] # "push" => task[t] = NoTask
  BY DEF DoneInv
<1>r. resumed \in [Task -> Nat] /\ Io \subseteq Task
  BY <1>i DEF RingType, Task, Uring
<1>q. ASSUME UNCHANGED <<fresh, ioPending, sq, kernel, cq, ioRemote, tpc, task, resumed>> PROVE DoneInv'
  BY <1>i, <1>q, StillDone
<1>1. CASE AcceptIo
  <2>1. CASE queue \notin DOMAIN Queues
    BY <1>1, <1>q, <2>1 DEF AcceptIo
  <2>2. CASE queue \in DOMAIN Queues
    <3> DEFINE t == Queues[queue]
    <3>1. t \in Thread
      BY <2>2 DEF Thread
    <3>2. /\ ioPending' = ioPending \o ioRemote[t]
          /\ ioRemote' = [ioRemote EXCEPT ![t] = <<>>]
          /\ UNCHANGED <<sq, kernel, cq, fresh, tpc, task, resumed>>
      BY <1>1, <2>2 DEF AcceptIo
    <3> HIDE DEF t
    <3>3. ioRemote[t] \in Seq(Uring) /\ ioRemote \in [Thread -> Seq(Uring)]
      BY <3>1 DEF GateInv, GateType
    <3>4. Range(ioPending') = Range(ioPending) \union Range(ioRemote[t])
      BY <1>s, <3>2, <3>3, RangeConcat
    <3>5. \A u \in Thread : Range(ioRemote'[u]) \subseteq Range(ioRemote[u])
      <4>1. Range(<<>>) = {}
        BY DEF Range
      <4> QED BY <3>1, <3>2, <3>3, <4>1
    <3>6. CqTasks' = CqTasks /\ Given' = Given \union Range(ioRemote[t])
      BY <3>2, <3>4 DEF CqTasks, Given
    <3>7. CqApart' /\ CqFinal'
      BY <1>d, <3>1, <3>2, <3>4, <3>5, <3>6 DEF CqApart, CqFinal
    <3>8. \A o \in Io : Live(o)' => Live(o)
      BY <1>d, <3>1, <3>2, <3>5, <3>6, LiveWhere, LiveNext
    <3> QED BY <1>d, <1>i, <3>2, <3>7, <3>8, ResumeOnce DEF DoneInv
  <2> QED BY <2>1, <2>2
<1>2. CASE AcceptDr
  BY <1>2, <1>q DEF AcceptDr
<1>3. CASE Reap
  <2>e. PICK e : e = Head(cq)
    OBVIOUS
  <2>l. PICK l : l = Len(cq)
    OBVIOUS
  <2>1. /\ e \in Completion /\ e = cq[1] /\ l \in Nat \ {0} /\ DOMAIN cq = 1..l /\ DOMAIN Tail(cq) = 1..(l - 1)
        /\ \A i \in 1..(l - 1) : Tail(cq)[i] = cq[i + 1]
    BY <1>3, <1>s, <2>e, <2>l, HeadTailProperties, LenProperties, EmptySeq DEF Reap
  <2>2. e.task \in Uring /\ e.more \in BOOLEAN /\ e.task \in CqTasks
    BY <2>1 DEF Completion, CqTasks
  <2>3. Continue(ioPending) /\ UNCHANGED <<sq, kernel, ioRemote, tpc, task>> /\ cq' = Tail(cq)
    BY <1>3 DEF Reap
  <2>4. \A o \in Io : \/ resumed'[o] = resumed[o]
                      \/ o = e.task /\ ~e.more /\ resumed'[o] = resumed[o] + 1
    BY <1>3, <1>i, <2>e, <2>2, DeliverResumes DEF Reap
  <2>5. fresh' \subseteq fresh /\ Range(ioPending') \subseteq Range(ioPending) \union fresh
    <3>1. CASE ioPending' = ioPending /\ UNCHANGED fresh
      BY <3>1
    <3>2. ASSUME NEW o \in fresh \intersect Io, ioPending' = <<o>> \o ioPending, fresh' = fresh \ {o}
          PROVE  fresh' \subseteq fresh /\ Range(ioPending') \subseteq Range(ioPending) \union fresh
      BY <1>s, <3>2, RangeCons DEF Uring
    <3> QED BY <2>3, <3>1, <3>2 DEF Continue
  <2>6. Given' \subseteq Given \union fresh
    BY <2>3, <2>5 DEF Given
  <2>7. \A i \in 1..(l - 1) : i + 1 \in DOMAIN cq /\ i + 1 > 1 /\ cq'[i] = cq[i + 1]
    BY <2>1, <2>3
  <2>8. CqTasks' \subseteq CqTasks
    BY <2>1, <2>3, <2>7 DEF CqTasks
  <2>9. CqApart'
    BY <1>d, <2>3, <2>5, <2>8 DEF CqApart
  <2>10. CqFinal'
    <3>1. ASSUME NEW i \in 1..(l - 1), ~cq'[i].more PROVE cq'[i].task \notin kernel'
      BY <1>d, <2>3, <2>7, <3>1 DEF CqFinal
    <3>2. ASSUME NEW i \in 1..(l - 1), NEW j \in 1..(l - 1), i < j, cq'[i].task = cq'[j].task PROVE cq'[i].more
      <4>1. i + 1 \in DOMAIN cq /\ j + 1 \in DOMAIN cq /\ i + 1 < j + 1
        BY <2>1, <2>7, <3>2
      <4> QED BY <1>d, <2>7, <3>2, <4>1 DEF CqFinal
    <3> QED BY <2>1, <2>3, <3>1, <3>2 DEF CqFinal
  <2>11. \A t \in Thread : tpc'[t] # "push" => task'[t] = NoTask
    BY <1>d, <2>3
  <2>12. \A o \in Io : Live(o)' => Live(o)
    BY <2>3, <2>5, <2>6, <2>8, <2>11, LiveWhere, LiveNext
  <2>13. ASSUME NEW o \in Io, o = e.task, ~e.more PROVE Live(o) /\ ~Live(o)'
    <3>1. Live(o)
      BY <2>2, <2>13, LiveWhere
    <3>2. o \notin CqTasks'
      <4> SUFFICES ASSUME NEW i \in 1..(l - 1), cq'[i].task = o PROVE FALSE
        BY <2>1, <2>3 DEF CqTasks
      <4>1. cq[1].task = cq[i + 1].task /\ 1 \in DOMAIN cq /\ i + 1 \in DOMAIN cq /\ 1 < i + 1 /\ ~cq[1].more
        BY <2>1, <2>7, <2>13
      <4> QED BY <1>d, <4>1 DEF CqFinal
    <3>3. o \notin fresh \union Range(ioPending) \union Range(sq) \union kernel
      <4>1. 1 \in DOMAIN cq /\ cq[1].task = o /\ ~cq[1].more
        BY <2>1, <2>13
      <4>2. o \in CqTasks
        BY <2>2, <2>13
      <4>3. o \notin kernel
        BY <1>d, <4>1 DEF CqFinal
      <4> QED BY <1>d, <4>2, <4>3 DEF CqApart
    <3>4. o \notin fresh' \union Given'
      BY <2>5, <2>6, <3>3 DEF Given
    <3>5. \A t \in Thread : o \notin Range(ioRemote'[t]) /\ ~(tpc'[t] = "push" /\ task'[t] = o)
      BY <1>d, <2>2, <2>3, <2>13 DEF CqApart
    <3> QED BY <2>11, <2>13, <3>1, <3>2, <3>4, <3>5, LiveNext
  <2>14. \A o \in Io : resumed'[o] > 0 => resumed'[o] = 1 /\ ~Live(o)'
    BY <1>i, <2>4, <2>12, <2>13, ResumeOnce
  <2> QED BY <2>9, <2>10, <2>11, <2>14 DEF DoneInv
<1>4. CASE ReapEnd
  BY <1>4, <1>q DEF ReapEnd
<1>5. CASE SubmitBegin
  BY <1>5, <1>q DEF SubmitBegin
<1>6. CASE Fill
  <2>o. PICK o : o = Head(ioPending)
    OBVIOUS
  <2>1. o \in Uring /\ Tail(ioPending) \in Seq(Uring) /\ ioPending # <<>>
    BY <1>6, <1>s, <2>o, HeadTailProperties DEF Fill
  <2>2. Range(ioPending) = Range(Tail(ioPending)) \union {o} /\ o \notin Range(Tail(ioPending))
    BY <1>i, <1>s, <2>o, <2>1, RangeTail DEF OnceGiven
  <2>3. UNCHANGED <<ioRemote, tpc, task, kernel, cq>>
    BY <1>6 DEF Fill
  <2>4. CqTasks' = CqTasks /\ CqFinal' /\ \A t \in Thread : tpc'[t] # "push" => task'[t] = NoTask
    BY <1>d, <2>3 DEF CqTasks, CqFinal
  <2>5. CASE halting'
    <3>1. Halt(o) /\ o \in Io
      BY <1>6, <2>o, <2>1, <2>5 DEF Fill, Uring
    <3>2. UNCHANGED sq /\ Continue(Tail(ioPending)) /\ (resumed' = resumed \/ resumed' = [resumed EXCEPT ![o] = @ + 1])
      BY <3>1 DEF Halt
    <3>3. fresh' \subseteq fresh /\ Range(ioPending') \subseteq Range(Tail(ioPending)) \union fresh
      <4>1. CASE ioPending' = Tail(ioPending) /\ UNCHANGED fresh
        BY <4>1
      <4>2. ASSUME NEW p \in fresh \intersect Io, ioPending' = <<p>> \o Tail(ioPending), fresh' = fresh \ {p}
            PROVE  fresh' \subseteq fresh /\ Range(ioPending') \subseteq Range(Tail(ioPending)) \union fresh
        <5>1. p \in Uring
          BY <4>2 DEF Uring
        <5>2. Range(<<p>> \o Tail(ioPending)) = Range(Tail(ioPending)) \union {p}
          <6>1. PICK r : r = Tail(ioPending)
            OBVIOUS
          <6>2. r \in Seq(Uring)
            BY <2>1, <6>1
          <6>3. Range(<<p>> \o r) = Range(r) \union {p}
            BY <5>1, <6>2, RangeCons
          <6> QED BY <6>1, <6>3
        <5> QED BY <4>2, <5>2
      <4> QED BY <3>2, <4>1, <4>2 DEF Continue
    <3>4. Given' \subseteq Given \union fresh /\ Given' \subseteq (Range(Tail(ioPending)) \union Range(sq) \union kernel) \union fresh
      BY <2>2, <2>3, <3>2, <3>3 DEF Given
    <3>5. CqApart'
      BY <1>d, <2>2, <2>3, <2>4, <3>2, <3>3 DEF CqApart
    <3>6. \A q \in Io : Live(q)' => Live(q)
      BY <2>3, <2>4, <3>3, <3>4, LiveWhere, LiveNext
    <3>7. Live(o) /\ ~Live(o)'
      <4>1. o \in Given /\ o \notin fresh /\ o \notin Range(sq) \union kernel \union CqTasks
        BY <1>i, <1>d, <2>2 DEF Given, OnceGiven, OnceOutside, CqApart
      <4>2. \A t \in Thread : o \notin Range(ioRemote[t]) /\ ~(tpc[t] = "push" /\ task[t] = o)
        BY <1>i, <4>1 DEF OnceOutside
      <4> QED BY <2>2, <2>3, <2>4, <3>1, <3>3, <3>4, <4>1, <4>2, LiveWhere, LiveNext
    <3>8. \A q \in Io : resumed'[q] = resumed[q] \/ (q = o /\ resumed'[q] = resumed[q] + 1)
      BY <1>r, <3>1, <3>2
    <3> QED BY <1>i, <2>4, <3>5, <3>6, <3>7, <3>8, ResumeOnce DEF DoneInv
  <2>6. CASE ~halting'
    <3>1. Enqueue(o)
      BY <1>6, <2>o, <2>6 DEF Fill
    <3>2. sq' = Append(sq, o) /\ ioPending' = Tail(ioPending) /\ UNCHANGED <<fresh, resumed>>
      BY <3>1 DEF Enqueue
    <3>3. Range(sq') = Range(sq) \union {o}
      BY <1>s, <2>1, <3>2, RangeAppend
    <3>4. CqApart' /\ Given' = Given
      BY <1>d, <2>2, <2>3, <2>4, <3>2, <3>3 DEF CqApart, Given
    <3>5. \A q \in Io : Live(q)' => Live(q)
      BY <2>3, <2>4, <3>2, <3>4, LiveWhere, LiveNext
    <3> QED BY <1>i, <2>4, <3>2, <3>4, <3>5, ResumeOnce DEF DoneInv
  <2> QED BY <2>5, <2>6
<1>7. CASE FillEnd
  BY <1>7, <1>q DEF FillEnd
<1>8. CASE TimerCommand
  <2> DEFINE o == Head(drPending)
             r == IF o \in Timer THEN o ELSE Target[o]
  <2>1. /\ UNCHANGED <<sq, kernel, cq, ioRemote, tpc, task>>
        /\ Continue(ioPending) \/ UNCHANGED <<ioPending, fresh>>
    BY <1>8 DEF TimerCommand
  <2>2. o \in Timed
    BY <1>8, <1>i, HeadTailProperties DEF TimerCommand, RingType
  <2>3. r \in Timer /\ r \in Task /\ r \notin Io
    BY <2>2, TaskAssumption DEF Timed, Task, Uring
  <2>4. resumed' = resumed \/ resumed' = [resumed EXCEPT ![r] = @ + 1]
    BY <1>8 DEF TimerCommand, TimerManualStop
  <2> HIDE DEF r
  <2>5. \A q \in Io : resumed'[q] = resumed[q]
    BY <1>r, <2>3, <2>4
  <2>6. fresh' \subseteq fresh /\ Range(ioPending') \subseteq Range(ioPending) \union fresh
    <3>1. CASE UNCHANGED <<ioPending, fresh>>
      BY <3>1
    <3>2. ASSUME NEW q \in fresh \intersect Io, ioPending' = <<q>> \o ioPending, fresh' = fresh \ {q}
          PROVE  fresh' \subseteq fresh /\ Range(ioPending') \subseteq Range(ioPending) \union fresh
      BY <1>s, <3>2, RangeCons DEF Uring
    <3> QED BY <2>1, <3>1, <3>2 DEF Continue
  <2>7. Given' \subseteq Given \union fresh /\ CqTasks' = CqTasks
    BY <2>1, <2>6 DEF Given, CqTasks
  <2>8. CqApart' /\ CqFinal'
    BY <1>d, <2>1, <2>6, <2>7 DEF CqApart, CqFinal
  <2>9. \A t \in Thread : tpc'[t] # "push" => task'[t] = NoTask
    BY <1>d, <2>1
  <2>10. \A q \in Io : Live(q)' => Live(q)
    BY <2>1, <2>6, <2>7, <2>9, LiveWhere, LiveNext
  <2> QED BY <1>i, <2>5, <2>8, <2>9, <2>10, ResumeOnce DEF DoneInv
<1>9. CASE TimersEnd
  BY <1>9, <1>q DEF TimersEnd
<1>10. CASE Check
  BY <1>10, <1>q DEF Check
<1>11. CASE EnterSleep
  BY <1>11, <1>q DEF EnterSleep
<1>12. CASE EnterUnlock
  BY <1>12, <1>q DEF EnterUnlock
<1>13. CASE EnterTake
  <2>1. PICK n \in (IF newly = 0 THEN {0} ELSE 1 .. newly) :
            sq' = SubSeq(sq, n + 1, Len(sq)) /\ kernel' = kernel \union {sq[i] : i \in 1 .. n}
    BY <1>13 DEF EnterTake
  <2> DEFINE first == {sq[i] : i \in 1 .. n}
             rest == SubSeq(sq, n + 1, Len(sq))
  <2>2. UNCHANGED <<fresh, ioPending, cq, ioRemote, tpc, task, resumed>> /\ lpc \in {"syscall", "finalEnter"}
    BY <1>13 DEF EnterTake
  <2>3. newly \in Nat /\ Len(sq) = newly
    BY <2>2, <1>i DEF CountInv, Exact, NewlyIsUntaken, RingType
  <2>4. n \in 0..Len(sq) /\ IsInjective(sq)
    BY <1>i, <2>1, <2>3 DEF OnceGiven
  <2>5. Range(sq) = first \union Range(rest)
    BY <1>s, <2>4, RangeSplit
  <2>6. sq' = rest /\ kernel' = kernel \union first
    BY <2>1
  <2> HIDE DEF first, rest
  <2>7. CqTasks' = CqTasks /\ Given' = Given /\ CqTasks \intersect Range(sq) = {}
    BY <1>d, <2>2, <2>5, <2>6 DEF CqTasks, Given, CqApart
  <2>8. CqApart'
    BY <1>d, <2>2, <2>5, <2>6, <2>7 DEF CqApart
  <2>9. \A i \in DOMAIN cq : cq[i].task \in CqTasks
    BY DEF CqTasks
  <2>10. CqFinal'
    BY <1>d, <2>2, <2>5, <2>6, <2>7, <2>9 DEF CqFinal
  <2>11. \A o \in Io : Live(o)' => Live(o)
    BY <1>d, <2>2, <2>7, LiveWhere, LiveNext
  <2> QED BY <1>d, <1>i, <2>2, <2>8, <2>10, <2>11, ResumeOnce DEF DoneInv
<1>14. CASE EnterEnd
  BY <1>14, <1>q DEF EnterEnd
<1>15. CASE Close
  BY <1>15, <1>q DEF Close
<1>16. CASE FinalReapEnd
  BY <1>16, <1>q DEF FinalReapEnd
<1>17. ASSUME NEW enough \in BOOLEAN, EnterReturn(enough) PROVE DoneInv'
  BY <1>17, <1>q DEF EnterReturn
<1>18. ASSUME NEW enough \in BOOLEAN, FinalReturn(enough) PROVE DoneInv'
  BY <1>18, <1>q DEF FinalReturn
<1>19. ASSUME NEW o \in Uring, Post(o) PROVE DoneInv'
  <2>1. /\ o \in kernel /\ cq' = Append(cq, [task |-> o, more |-> FALSE]) /\ kernel' = kernel \ {o}
        /\ UNCHANGED <<fresh, ioPending, sq, ioRemote, tpc, task, resumed>>
    BY <1>19 DEF Post
  <2>2. kernel' \subseteq kernel /\ o \notin kernel'
    BY <2>1
  <2> QED BY <1>i, <2>1, <2>2, PostDone
<1>20. ASSUME NEW o \in Uring, PostMore(o) PROVE DoneInv'
  <2>1. /\ o \in kernel /\ cq' = Append(cq, [task |-> o, more |-> TRUE])
        /\ UNCHANGED <<kernel, fresh, ioPending, sq, ioRemote, tpc, task, resumed>>
    BY <1>20 DEF PostMore
  <2>2. kernel' \subseteq kernel
    BY <2>1
  <2> QED BY <1>i, <2>1, <2>2, PostDone
<1>21. ASSUME NEW t \in Thread, SubmitAdmit(t) PROVE DoneInv'
  <2>1. PICK o \in Task : o \in fresh /\ task' = [task EXCEPT ![t] = o] /\ fresh' = fresh \ {o}
    BY <1>21 DEF SubmitAdmit, Submittable
  <2>2. UNCHANGED <<ioPending, sq, kernel, cq, ioRemote, resumed>> /\ tpc' = [tpc EXCEPT ![t] = "push"]
    BY <1>21 DEF SubmitAdmit
  <2>3. \A u \in Thread : /\ task'[u] = (IF u = t THEN o ELSE task[u])
                          /\ tpc'[u] = (IF u = t THEN "push" ELSE tpc[u])
    BY <2>1, <2>2 DEF GateInv, GateType
  <2>4. CqTasks' = CqTasks /\ Given' = Given /\ CqFinal'
    BY <1>d, <2>2 DEF CqTasks, Given, CqFinal
  <2>5. CqApart' /\ \A u \in Thread : tpc'[u] # "push" => task'[u] = NoTask
    BY <1>d, <2>1, <2>2, <2>3, <2>4 DEF CqApart
  <2>6. \A q \in Io : Live(q)' => Live(q)
    BY <2>1, <2>2, <2>3, <2>4, <2>5, LiveWhere, LiveNext
  <2> QED BY <1>i, <2>2, <2>4, <2>5, <2>6, ResumeOnce DEF DoneInv
<1>22. ASSUME NEW t \in Thread, SubmitRefuse(t) PROVE DoneInv'
  <2>1. PICK o \in Task : /\ o \in fresh /\ fresh' = fresh \ {o}
                          /\ IF o \in Uring THEN Deliver(o, FALSE) ELSE TimerManualStop(o) /\ UNCHANGED nOps
    BY <1>22 DEF SubmitRefuse, Submittable
  <2>2. UNCHANGED <<ioPending, sq, kernel, cq, ioRemote, tpc, task>>
    BY <1>22 DEF SubmitRefuse
  <2>3. CqTasks' = CqTasks /\ Given' = Given /\ CqFinal'
    BY <1>d, <2>2 DEF CqTasks, Given, CqFinal
  <2>4. CqApart' /\ \A u \in Thread : tpc'[u] # "push" => task'[u] = NoTask
    BY <1>d, <2>1, <2>2, <2>3 DEF CqApart
  <2>5. \A q \in Io : Live(q)' => Live(q)
    BY <2>1, <2>2, <2>3, <2>4, LiveWhere, LiveNext
  <2>6. o \in Io => Live(o) /\ ~Live(o)'
    <3>1. o \notin Given \union CqTasks /\ \A u \in Thread : o \notin Range(ioRemote[u]) /\ ~(tpc[u] = "push" /\ task[u] = o)
      BY <1>i, <1>d, <2>1 DEF OnceOutside, CqApart
    <3> QED BY <2>1, <2>2, <2>3, <2>4, <3>1, LiveWhere, LiveNext
  <2>7. \A q \in Io : resumed'[q] = resumed[q] \/ (q = o /\ resumed'[q] = resumed[q] + 1)
    <3>1. CASE o \in Uring
      BY <1>i, <2>1, <3>1, DeliverResumes
    <3>2. CASE o \notin Uring
      <4> DEFINE r == IF o \in Timer THEN o ELSE Target[o]
      <4>1. r \in Timer /\ r \in Task /\ r \notin Io
        BY <3>2, TaskAssumption DEF Timed, Task, Uring
      <4>2. resumed' = [resumed EXCEPT ![r] = @ + 1]
        BY <2>1, <3>2 DEF TimerManualStop
      <4> HIDE DEF r
      <4> QED BY <1>r, <4>1, <4>2
    <3> QED BY <3>1, <3>2
  <2> QED BY <1>i, <2>3, <2>4, <2>5, <2>6, <2>7, ResumeOnce DEF DoneInv
<1>23. ASSUME NEW t \in Thread, tpc[t] # "push", NEW l, l # "push", tpc' = [tpc EXCEPT ![t] = l],
              UNCHANGED <<fresh, ioPending, sq, kernel, cq, ioRemote, task, resumed>>
       PROVE  DoneInv'
  <2>1. \A u \in Thread : tpc'[u] = "push" <=> tpc[u] = "push"
    BY <1>23 DEF GateInv, GateType
  <2>2. CqTasks' = CqTasks /\ Given' = Given /\ CqFinal'
    BY <1>d, <1>23 DEF CqTasks, Given, CqFinal
  <2>3. CqApart' /\ \A u \in Thread : tpc'[u] # "push" => task'[u] = NoTask
    BY <1>d, <1>23, <2>1, <2>2 DEF CqApart
  <2>4. \A q \in Io : Live(q)' => Live(q)
    BY <1>23, <2>1, <2>2, <2>3, LiveWhere, LiveNext
  <2> QED BY <1>i, <1>23, <2>2, <2>3, <2>4, ResumeOnce DEF DoneInv
<1>24. ASSUME NEW t \in Thread, SubmitPush(t) PROVE DoneInv'
  <2>1. UNCHANGED <<fresh, ioPending, sq, kernel, cq, resumed>> /\ tpc[t] = "push" /\ task[t] \in Task
    BY <1>24 DEF SubmitPush, GateInv, GateType
  <2>2. \A u \in Thread : /\ tpc'[u] = (IF u = t THEN "release" ELSE tpc[u])
                          /\ task'[u] = (IF u = t THEN NoTask ELSE task[u])
                          /\ u # t => ioRemote'[u] = ioRemote[u]
    BY <1>24 DEF SubmitPush, GateInv, GateType
  <2>3. Range(ioRemote'[t]) \subseteq Range(ioRemote[t]) \union {task[t]}
    <3>1. CASE task[t] \in Uring
      <4>1. ioRemote'[t] = Append(ioRemote[t], task[t]) /\ ioRemote[t] \in Seq(Uring)
        BY <1>24, <3>1 DEF SubmitPush, GateInv, GateType
      <4> QED BY <3>1, <4>1, RangeAppend
    <3>2. CASE task[t] \notin Uring
      BY <1>24, <3>2 DEF SubmitPush
    <3> QED BY <3>1, <3>2
  <2>4. CqTasks' = CqTasks /\ Given' = Given /\ CqFinal'
    BY <1>d, <2>1 DEF CqTasks, Given, CqFinal
  <2>5. \A u \in Thread : tpc'[u] # "push" => task'[u] = NoTask
    BY <1>d, <2>2
  <2>6. CqApart'
    <3>1. CqTasks \intersect Range(ioRemote'[t]) = {}
      BY <1>d, <2>1, <2>3 DEF CqApart
    <3> QED BY <1>d, <2>1, <2>2, <2>4, <3>1 DEF CqApart
  <2>7. \A q \in Io : Live(q)' => Live(q)
    <3> SUFFICES ASSUME NEW q \in Io, Live(q)' PROVE Live(q)
      OBVIOUS
    <3>1. ASSUME NEW u \in Thread, q \in Range(ioRemote'[u]) PROVE Live(q)
      <4>1. CASE u = t
        BY <2>1, <2>3, <3>1, <4>1, LiveWhere
      <4>2. CASE u # t
        BY <2>2, <3>1, <4>2, LiveWhere
      <4> QED BY <4>1, <4>2
    <3>2. ASSUME NEW u \in Thread, tpc'[u] = "push", task'[u] = q PROVE Live(q)
      BY <2>2, <3>2, LiveWhere
    <3>3. CASE q \in fresh' \union Given' \union CqTasks'
      BY <2>1, <2>4, <3>3, LiveWhere
    <3> QED BY <2>5, <3>1, <3>2, <3>3, LiveNext
  <2> QED BY <1>i, <2>1, <2>4, <2>5, <2>6, <2>7, ResumeOnce DEF DoneInv
<1>25. ASSUME NEW t \in Thread, RequestStop(t) \/ SubmitRelease(t) \/ Notify(t) \/ NotifyWrite(t)
       PROVE  DoneInv'
  <2>1. /\ tpc[t] # "push" /\ UNCHANGED <<fresh, ioPending, sq, kernel, cq, ioRemote, task, resumed>>
        /\ tpc' = [tpc EXCEPT ![t] = "notify"] \/ tpc' = [tpc EXCEPT ![t] = "write"]
               \/ tpc' = [tpc EXCEPT ![t] = "idle"]
    BY <1>25 DEF RequestStop, SubmitRelease, Notify, NotifyWrite
  <2> QED BY <1>23, <2>1
<1>26. CASE UNCHANGED vars
  BY <1>26, <1>q
<1> QED BY <1>1, <1>2, <1>3, <1>4, <1>5, <1>6, <1>7, <1>8, <1>9, <1>10, <1>11, <1>12, <1>13, <1>14, <1>15, <1>16, <1>17, <1>18, <1>19, <1>20, <1>21, <1>22, <1>24, <1>25, <1>26 DEF Next, LoopStep, SubmitStep

\* The end of every task in every reachable state.
THEOREM DoneInvHolds == Spec => []DoneInv
<1>1. GateInv /\ CountInv /\ DoneInv /\ [Next]_vars => DoneInv'
  BY DoneStep
<1> QED BY <1>1, DoneInit, GateInvHolds, CountInvHolds, PTL DEF Spec

\* An io task is resumed at most once, whatever cancel tasks aim at it and
\* however submissions race with the end of the loop, and from then on nothing
\* refers to it.
THEOREM ResumedIsOverHolds == Spec => []ResumedIsOver
<1>1. DoneInv => ResumedIsOver
  BY DEF DoneInv, ResumedIsOver, Live
<1> QED BY <1>1, DoneInvHolds, PTL

-----------------------------------------------------------------------------
(* Timers and the commands that stop them.                                   *)

\* the timers that the stop commands of s aim at
Aimed(s) == {Target[x] : x \in Range(s) \intersect TimerStop}

\* no stop command of s comes before its timer
InOrder(s) == \A i, j \in DOMAIN s : i < j /\ s[i] \in TimerStop => s[j] # Target[s[i]]

\* Every thread submits only the timers and stop commands that are its own.
Owned(Owner) == \A t \in Thread : task[t] \in Timed => Owner[task[t]] = t

\* no timer can follow its stop command, and none that was completed is in the
\* heap or on its way there
Order(Owner) ==
    /\ ~stopping
    /\ InOrder(drPending) /\ Aimed(drPending) \intersect fresh = {}
    /\ \A t \in Thread :
          /\ \A x \in Range(drRemote[t]) : Owner[x] = t
          /\ InOrder(drRemote[t]) /\ Aimed(drRemote[t]) \intersect fresh = {}
          /\ Aimed(drPending) \intersect Range(drRemote[t]) = {}
          /\ task[t] \notin Aimed(drPending) \union Aimed(drRemote[t])
          /\ task[t] \in TimerStop => Target[task[t]] \notin fresh
    /\ \A o \in Timer : resumed[o] > 0 =>
          /\ o \notin heap \union fresh \union Range(drPending)
          /\ \A t \in Thread : o \notin Range(drRemote[t]) /\ task[t] # o

OrderInv(Owner) == ~stop /\ ~Closed => Order(Owner)

\* Two queues one behind the other are in order when each is and no command of
\* the first aims at the second.
LEMMA OrderConcat ==
    ASSUME NEW s \in Seq(Timed), NEW r \in Seq(Timed), InOrder(s), InOrder(r),
           Aimed(s) \intersect Range(r) = {}
    PROVE  InOrder(s \o r) /\ Aimed(s \o r) = Aimed(s) \union Aimed(r)
<1>1. PICK a, b, w : a = Len(s) /\ b = Len(r) /\ w = s \o r
  OBVIOUS
<1>2. /\ a \in Nat /\ b \in Nat /\ DOMAIN s = 1..a /\ DOMAIN r = 1..b /\ DOMAIN w = 1..(a + b)
      /\ \A i \in 1..a : w[i] = s[i]
      /\ \A i \in 1..(a + b) : i > a => w[i] = r[i - a]
  BY <1>1, LenProperties, ConcatProperties
<1>3. ASSUME NEW i \in DOMAIN w, NEW j \in DOMAIN w, i < j, w[i] \in TimerStop
      PROVE  w[j] # Target[w[i]]
  <2>1. CASE i \in 1..a /\ j \in 1..a
    BY <1>2, <1>3, <2>1 DEF InOrder
  <2>2. CASE i \in 1..a /\ j \notin 1..a
    <3>1. w[i] = s[i] /\ i \in DOMAIN s /\ j - a \in DOMAIN r /\ w[j] = r[j - a]
      BY <1>2, <1>3, <2>2
    <3>2. Target[s[i]] \in Aimed(s) /\ r[j - a] \in Range(r)
      BY <1>3, <3>1 DEF Aimed, Range
    <3> QED BY <3>1, <3>2
  <2>3. CASE i \notin 1..a
    <3>1. /\ i - a \in DOMAIN r /\ j - a \in DOMAIN r /\ i - a < j - a
          /\ w[i] = r[i - a] /\ w[j] = r[j - a]
      BY <1>2, <1>3, <2>3
    <3> QED BY <1>3, <3>1 DEF InOrder
  <2> QED BY <2>1, <2>2, <2>3
<1>4. InOrder(w)
  BY <1>3 DEF InOrder
<1>5. Range(w) = Range(s) \union Range(r)
  BY <1>1, RangeConcat
<1>6. Aimed(w) = Aimed(s) \union Aimed(r)
  BY <1>5 DEF Aimed
<1> QED BY <1>1, <1>4, <1>6

\* A task behind a queue whose commands do not aim at it.
LEMMA OrderAppend ==
    ASSUME NEW s \in Seq(Timed), NEW e \in Timed, InOrder(s), e \notin Aimed(s)
    PROVE  /\ InOrder(Append(s, e)) /\ Range(Append(s, e)) = Range(s) \union {e}
           /\ \A x \in Aimed(Append(s, e)) : x \in Aimed(s) \/ (e \in TimerStop /\ x = Target[e])
<1>1. PICK a, w : a = Len(s) /\ w = Append(s, e)
  OBVIOUS
<1>2. /\ a \in Nat /\ DOMAIN s = 1..a /\ DOMAIN w = 1..(a + 1)
      /\ \A i \in 1..a : w[i] = s[i]
      /\ w[a + 1] = e
  BY <1>1, AppendItems
<1>3. ASSUME NEW i \in DOMAIN w, NEW j \in DOMAIN w, i < j, w[i] \in TimerStop
      PROVE  w[j] # Target[w[i]]
  <2>1. i \in DOMAIN s /\ w[i] = s[i]
    BY <1>2, <1>3
  <2>2. CASE j \in 1..a
    BY <1>2, <1>3, <2>1, <2>2 DEF InOrder
  <2>3. CASE j = a + 1
    <3>1. Target[s[i]] \in Aimed(s)
      BY <1>3, <2>1 DEF Aimed, Range
    <3> QED BY <1>2, <2>1, <2>3, <3>1
  <2> QED BY <1>2, <2>2, <2>3
<1>4. InOrder(w)
  BY <1>3 DEF InOrder
<1>5. Range(w) = Range(s) \union {e}
  BY <1>1, RangeAppend
<1>6. \A x \in Aimed(w) : x \in Aimed(s) \/ (e \in TimerStop /\ x = Target[e])
  BY <1>5 DEF Aimed
<1> QED BY <1>1, <1>4, <1>5, <1>6

\* What the first task of a queue in order leaves behind.
LEMMA OrderTail ==
    ASSUME NEW s \in Seq(Timed), s # <<>>, InOrder(s)
    PROVE  /\ InOrder(Tail(s)) /\ Range(s) = Range(Tail(s)) \union {Head(s)} /\ Head(s) \in Timed
           /\ Aimed(Tail(s)) \subseteq Aimed(s)
           /\ Head(s) \in TimerStop => Target[Head(s)] \in Aimed(s) /\ Target[Head(s)] \notin Range(Tail(s))
<1>1. PICK a, h, w : a = Len(s) /\ h = Head(s) /\ w = Tail(s)
  OBVIOUS
<1>2. /\ a \in Nat \ {0} /\ DOMAIN s = 1..a /\ h = s[1] /\ h \in Timed /\ DOMAIN w = 1..(a - 1)
      /\ \A i \in 1..(a - 1) : w[i] = s[i + 1]
  BY <1>1, TailItems
<1>3. Range(s) = Range(w) \union {h}
  BY <1>1, RangeTail
<1>4. \A i \in 1..(a - 1) : i + 1 \in DOMAIN s /\ 1 < i + 1 /\ w[i] = s[i + 1]
  BY <1>2
<1>5. InOrder(w)
  <2> SUFFICES ASSUME NEW i \in 1..(a - 1), NEW j \in 1..(a - 1), i < j, w[i] \in TimerStop
               PROVE  w[j] # Target[w[i]]
    BY <1>2 DEF InOrder
  <2>1. i + 1 < j + 1
    BY <1>2
  <2> QED BY <1>4, <2>1 DEF InOrder
<1>6. h \in TimerStop => Target[h] \in Aimed(s) /\ Target[h] \notin Range(w)
  <2> HAVE h \in TimerStop
  <2>1. Target[h] \in Aimed(s)
    BY <1>3 DEF Aimed
  <2>2. ASSUME NEW i \in DOMAIN w PROVE w[i] # Target[h]
    <3>1. 1 \in DOMAIN s /\ i + 1 \in DOMAIN s /\ 1 < i + 1 /\ w[i] = s[i + 1] /\ s[1] = h
      BY <1>2, <1>4
    <3> QED BY <3>1 DEF InOrder
  <2> QED BY <2>1, <2>2 DEF Range
<1>7. Aimed(w) \subseteq Aimed(s)
  BY <1>3 DEF Aimed
<1> QED BY <1>1, <1>2, <1>3, <1>5, <1>6, <1>7

\* A step that moves and completes no timer.
LEMMA OrderKept ==
    ASSUME NEW Owner, Order(Owner), ~stopping', UNCHANGED <<drPending, drRemote, task, heap>>,
           fresh' \subseteq fresh, \A o \in Timer : resumed'[o] = resumed[o]
    PROVE  Order(Owner)'
<1>1. Aimed(drPending)' = Aimed(drPending) /\ \A t \in Thread : Aimed(drRemote[t])' = Aimed(drRemote[t])
  BY DEF Aimed
<1>2. InOrder(drPending)' /\ \A t \in Thread : InOrder(drRemote[t])'
  BY DEF InOrder, Order
<1> QED BY <1>1, <1>2 DEF Order

\* A completion of an io or a cancel task completes no timer.
LEMMA DeliverNoTimer ==
    ASSUME RingType, NEW o \in Uring, NEW isMore, Deliver(o, isMore), NEW d \in Timer
    PROVE  resumed'[d] = resumed[d]
<1>1. resumed \in [Task -> Nat] /\ d \in Task /\ d # o /\ d \notin Io
  BY TaskAssumption DEF RingType, Task, Timed, Uring
<1>2. CASE o \in Io
  BY <1>1, <1>2 DEF Deliver
<1>3. CASE o \notin Io
  <2>1. Target[o] \in Io
    BY <1>3, TaskAssumption DEF Uring
  <2>2. \/ UNCHANGED resumed
        \/ resumed' = [resumed EXCEPT ![o] = @ + 1,
                           ![Target[o]] = IF CancelCompleted(nOps, Target[o]).calls THEN @ + 1 ELSE @]
    BY <1>3 DEF Deliver
  <2> QED BY <1>1, <2>1, <2>2
<1> QED BY <1>2, <1>3

\* A stop that was requested, and the closed gate, stay.
LEMMA EndStays == GateInv /\ [Next]_vars /\ ~stop' /\ ~Closed' => ~stop /\ ~Closed
<1> SUFFICES ASSUME GateInv, [Next]_vars PROVE (stop => stop') /\ (Closed => Closed')
  OBVIOUS
<1>1. stop => stop'
  BY DEF Next, LoopStep, SubmitStep, vars, loopVars, countVars, remoteVars, pendingVars, ringVars,
         taskVars, signalVars, Goto, AcceptIo, AcceptDr, Reap, ReapEnd, SubmitBegin,
         Fill, FillEnd, TimerCommand, TimersEnd, Check, EnterSleep, SleepUnlessNotified,
         EnterUnlock, EnterTake, EnterEnd, Close, FinalReapEnd, EnterReturn, FinalReturn, Post,
         PostMore, SubmitAdmit, SubmitRefuse, RequestStop, SubmitPush, SubmitRelease, Notify,
         NotifyWrite
<1>2. Closed => Closed'
  <2> HAVE Closed
  <2>1. inFlight = no_new_submit /\ Inside = {}
    <3>1. Cardinality(Inside) # no_new_submit
      BY InsideFinite DEF no_new_submit
    <3> QED BY <3>1 DEF GateInv, GateCount, Closed
  <2>2. \A t \in Thread : ~SubmitRelease(t) /\ ~SubmitAdmit(t)
    BY <2>1 DEF SubmitRelease, SubmitAdmit, Inside
  <2>3. inFlight' = inFlight \/ inFlight' = no_new_submit
    BY <2>2 DEF Next, LoopStep, SubmitStep, vars, loopVars, countVars, remoteVars, pendingVars, ringVars,
         taskVars, signalVars, Goto, AcceptIo, AcceptDr, Reap, ReapEnd, SubmitBegin,
         Fill, FillEnd, TimerCommand, TimersEnd, Check, EnterSleep, SleepUnlessNotified,
         EnterUnlock, EnterTake, EnterEnd, Close, FinalReapEnd, EnterReturn, FinalReturn, Post,
         PostMore, SubmitRefuse, RequestStop, SubmitPush, Notify, NotifyWrite
  <2> QED BY <2>1, <2>3 DEF Closed
<1> QED BY <1>1, <1>2

\* At the start there is no timer.
LEMMA OrderInit ==
    ASSUME NEW Owner, Init
    PROVE  OrderInv(Owner)
<1>1. Range(<<>>) = {} /\ DOMAIN <<>> = {}
  BY DEF Range
<1>2. Aimed(<<>>) = {} /\ InOrder(<<>>)
  BY <1>1 DEF Aimed, InOrder
<1>3. \A t \in Thread : drRemote[t] = <<>> /\ task[t] = NoTask
  BY DEF Init
<1>4. \A o \in Timer : resumed[o] = 0
  BY DEF Init, Task, Timed
<1>5. drPending = <<>> /\ ~stopping
  BY DEF Init
<1>6. NoTask \notin TimerStop
  BY TaskAssumption DEF Task, Timed
<1> QED BY <1>1, <1>2, <1>3, <1>4, <1>5, <1>6 DEF OrderInv, Order

\* A thread's stop commands stay behind its timers on their way from its hands
\* through its queue to the loop.
LEMMA OrderStep ==
    ASSUME NEW Owner, \A s \in TimerStop : Owner[s] = Owner[Target[s]],
           GateInv, CountInv, Owned(Owner), OrderInv(Owner), [Next]_vars
    PROVE  OrderInv(Owner)'
<1> SUFFICES ASSUME ~stop', ~Closed' PROVE Order(Owner)'
  BY DEF OrderInv
<1> USE DEF vars, loopVars, countVars, remoteVars, pendingVars, ringVars, taskVars, signalVars, Goto, TGoto
<1>e. ~stop /\ ~Closed
  BY EndStays
<1>o. Order(Owner)
  BY <1>e DEF OrderInv
<1>i. RingType
  BY DEF CountInv
<1>g. GateType
  BY DEF GateInv
<1>y. drPending \in Seq(Timed) /\ drRemote \in [Thread -> Seq(Timed)] /\ resumed \in [Task -> Nat]
      /\ task \in [Thread -> Task \union {NoTask}]
  BY <1>i, <1>g DEF RingType, GateType
<1>z. Range(<<>>) = {} /\ Aimed(<<>>) = {} /\ InOrder(<<>>)
  <2>1. Range(<<>>) = {} /\ DOMAIN <<>> = {}
    BY DEF Range
  <2> QED BY <2>1 DEF Aimed, InOrder
<1>q. ASSUME UNCHANGED <<stopping, drPending, drRemote, task, heap, fresh, resumed>> PROVE Order(Owner)'
  <2>1. ~stopping'
    BY <1>o, <1>q DEF Order
  <2> QED BY <1>o, <1>q, <2>1, OrderKept
<1>1. CASE AcceptIo
  BY <1>1, <1>q DEF AcceptIo
<1>2. CASE AcceptDr
  <2>1. CASE queue \notin DOMAIN Queues
    BY <1>2, <1>q, <2>1 DEF AcceptDr
  <2>2. CASE queue \in DOMAIN Queues
    <3>1. PICK t \in Thread : t = Queues[queue]
      BY <2>2 DEF Thread
    <3>2. /\ drPending' = drPending \o drRemote[t] /\ drRemote' = [drRemote EXCEPT ![t] = <<>>]
          /\ UNCHANGED <<stopping, task, heap, fresh, resumed>>
      BY <1>2, <2>2, <3>1 DEF AcceptDr
    <3>3. PICK p, r : p = drPending /\ r = drRemote[t]
      OBVIOUS
    <3>4. /\ p \in Seq(Timed) /\ r \in Seq(Timed) /\ InOrder(p) /\ InOrder(r)
          /\ Aimed(p) \intersect Range(r) = {}
      BY <1>o, <1>y, <3>3 DEF Order
    <3>5. /\ InOrder(p \o r) /\ Aimed(p \o r) = Aimed(p) \union Aimed(r)
          /\ Range(p \o r) = Range(p) \union Range(r)
      BY <3>4, OrderConcat, RangeConcat
    <3>6. drPending' = p \o r /\ \A u \in Thread : drRemote'[u] = IF u = t THEN <<>> ELSE drRemote[u]
      BY <1>y, <3>2, <3>3
    <3>7. ASSUME NEW u \in Thread, u # t
          PROVE  Aimed(r) \intersect Range(drRemote[u]) = {} /\ task[u] \notin Aimed(r)
      <4>1. \A x \in Aimed(r) : x \in Timed /\ Owner[x] = t
        <5> SUFFICES ASSUME NEW y \in Range(r) \intersect TimerStop PROVE Target[y] \in Timed /\ Owner[Target[y]] = t
          BY DEF Aimed
        <5>1. Owner[y] = t
          BY <1>o, <3>3 DEF Order
        <5>2. Target[y] \in Timed
          BY TaskAssumption DEF Timed
        <5> QED BY <5>1, <5>2
      <4>2. \A x \in Range(drRemote[u]) : Owner[x] = u
        BY <1>o DEF Order
      <4>3. task[u] \in Timed => Owner[task[u]] = u
        BY DEF Owned
      <4> QED BY <3>7, <4>1, <4>2, <4>3
    <3>8. Aimed(drPending)' = Aimed(p) \union Aimed(r) /\ Range(drPending') = Range(p) \union Range(r) /\ InOrder(drPending)'
      <4>1. Aimed(drPending)' = Aimed(drPending') /\ (InOrder(drPending)' <=> InOrder(drPending'))
        BY DEF Aimed, InOrder
      <4> QED BY <3>5, <3>6, <4>1
    <3>9. ASSUME NEW u \in Thread
          PROVE  /\ \A x \in Range(drRemote'[u]) : Owner[x] = u
                 /\ InOrder(drRemote'[u]) /\ Aimed(drRemote'[u]) \intersect fresh = {}
                 /\ (Aimed(p) \union Aimed(r)) \intersect Range(drRemote'[u]) = {}
                 /\ task[u] \notin Aimed(p) \union Aimed(r) \union Aimed(drRemote'[u])
                 /\ Range(drRemote'[u]) \subseteq Range(drRemote[u])
      <4>1. CASE u = t
        <5>1. drRemote'[u] = <<>>
          BY <3>6, <4>1
        <5>2. task[u] \notin Aimed(p) \union Aimed(r)
          BY <1>o, <3>3, <4>1 DEF Order
        <5> QED BY <1>z, <5>1, <5>2
      <4>2. CASE u # t
        <5>1. drRemote'[u] = drRemote[u]
          BY <3>6, <4>2
        <5>2. /\ \A x \in Range(drRemote[u]) : Owner[x] = u
              /\ InOrder(drRemote[u]) /\ Aimed(drRemote[u]) \intersect fresh = {}
              /\ Aimed(p) \intersect Range(drRemote[u]) = {}
              /\ task[u] \notin Aimed(p) \union Aimed(drRemote[u])
          BY <1>o, <3>3 DEF Order
        <5> QED BY <3>7, <4>2, <5>1, <5>2
      <4> QED BY <4>1, <4>2
    <3>10. /\ (Aimed(p) \union Aimed(r)) \intersect fresh = {}
           /\ \A u \in Thread : task[u] \in TimerStop => Target[task[u]] \notin fresh
      BY <1>o, <3>3 DEF Order
    <3>11. \A o \in Timer : resumed[o] > 0 =>
              /\ o \notin heap \union fresh \union Range(p) \union Range(r)
              /\ \A u \in Thread : o \notin Range(drRemote[u]) /\ task[u] # o
      BY <1>o, <3>3 DEF Order
    <3>12. \A u \in Thread : Aimed(drRemote[u])' = Aimed(drRemote'[u]) /\ (InOrder(drRemote[u])' <=> InOrder(drRemote'[u]))
      BY DEF Aimed, InOrder
    <3>13. ~stopping'
      BY <1>o, <3>2 DEF Order
    <3> QED BY <3>2, <3>8, <3>9, <3>10, <3>11, <3>12, <3>13 DEF Order
  <2> QED BY <2>1, <2>2
<1>3. CASE Reap
  <2>1. PICK e : e = Head(cq)
    OBVIOUS
  <2>2. e \in Completion
    BY <1>3, <1>i, <2>1, HeadTailProperties DEF Reap, RingType
  <2>3. e.task \in Uring /\ Deliver(e.task, e.more)
    BY <1>3, <2>1, <2>2 DEF Reap, Completion
  <2>4. \A o \in Timer : resumed'[o] = resumed[o]
    BY <1>i, <2>3, DeliverNoTimer
  <2>5. fresh' \subseteq fresh /\ UNCHANGED <<stopping, drPending, drRemote, task, heap>>
    BY <1>3 DEF Reap, Continue
  <2>6. ~stopping'
    BY <1>o, <2>5 DEF Order
  <2> QED BY <1>o, <2>4, <2>5, <2>6, OrderKept
<1>4. CASE ReapEnd
  BY <1>4, <1>q DEF ReapEnd
<1>5. CASE SubmitBegin
  <2>1. ~stopping' /\ UNCHANGED <<drPending, drRemote, task, heap, fresh, resumed>>
    BY <1>5, <1>e DEF SubmitBegin
  <2> QED BY <1>o, <2>1, OrderKept
<1>6. CASE Fill
  <2>1. PICK o : o = Head(ioPending)
    OBVIOUS
  <2>2. o \in Uring
    BY <1>6, <1>i, <2>1, HeadTailProperties DEF Fill, RingType
  <2>3. resumed' = resumed \/ resumed' = [resumed EXCEPT ![o] = @ + 1]
    BY <1>6, <2>1 DEF Fill, Halt, Enqueue
  <2>4. \A d \in Timer : d \in Task /\ d # o
    BY <2>2, TaskAssumption DEF Task, Timed
  <2>5. \A d \in Timer : resumed'[d] = resumed[d]
    BY <1>y, <2>3, <2>4
  <2>6. fresh' \subseteq fresh /\ UNCHANGED <<stopping, drPending, drRemote, task, heap>>
    BY <1>6 DEF Fill, Halt, Enqueue, Continue
  <2>7. ~stopping'
    BY <1>o, <2>6 DEF Order
  <2> QED BY <1>o, <2>5, <2>6, <2>7, OrderKept
<1>7. CASE FillEnd
  BY <1>7, <1>q DEF FillEnd
<1>8. CASE TimerCommand
  <2>1. PICK o, p : o = Head(drPending) /\ p = Tail(drPending)
    OBVIOUS
  <2>2. ~stopping
    BY <1>o DEF Order
  <2>3. /\ drPending # <<>> /\ drPending' = p /\ UNCHANGED <<stopping, drRemote, task>> /\ fresh' \subseteq fresh
        /\ \/ o \in Timer /\ heap' = heap \union {o} /\ UNCHANGED resumed
           \/ o \in TimerStop /\ heap' = heap \ {Target[o]} /\ TimerManualStop(o)
    BY <1>8, <2>1, <2>2 DEF TimerCommand, _M_remove, Continue
  <2>4. /\ InOrder(p) /\ Range(drPending) = Range(p) \union {o} /\ o \in Timed
        /\ Aimed(p) \subseteq Aimed(drPending)
        /\ o \in TimerStop => Target[o] \in Aimed(drPending) /\ Target[o] \notin Range(p)
    BY <1>o, <1>y, <2>1, <2>3, OrderTail DEF Order
  <2>5. Aimed(drPending)' = Aimed(p) /\ InOrder(drPending)' /\ Range(drPending') = Range(p)
    BY <2>3, <2>4 DEF Aimed, InOrder
  <2>6. \A t \in Thread : /\ Aimed(drRemote[t])' = Aimed(drRemote[t]) /\ InOrder(drRemote[t])'
                          /\ drRemote'[t] = drRemote[t] /\ task'[t] = task[t]
    BY <1>o, <2>3 DEF Aimed, InOrder, Order
  <2>7. \A d \in Timer : resumed'[d] > 0 =>
          /\ d \notin heap' \union fresh \union Range(p)
          /\ \A t \in Thread : d \notin Range(drRemote[t]) /\ task[t] # d
    <3> SUFFICES ASSUME NEW d \in Timer, resumed'[d] > 0
                 PROVE  /\ d \notin heap' \union fresh \union Range(p)
                        /\ \A t \in Thread : d \notin Range(drRemote[t]) /\ task[t] # d
      OBVIOUS
    <3>1. resumed[d] > 0 => /\ d \notin heap \union fresh \union Range(p) \union {o}
                            /\ \A t \in Thread : d \notin Range(drRemote[t]) /\ task[t] # d
      BY <1>o, <2>4 DEF Order
    <3>2. CASE o \in Timer /\ heap' = heap \union {o} /\ UNCHANGED resumed
      BY <3>1, <3>2
    <3>3. CASE o \in TimerStop /\ heap' = heap \ {Target[o]} /\ TimerManualStop(o)
      <4>1. o \notin Timer /\ Target[o] \in Timer /\ Target[o] \in Task
        BY <3>3, TaskAssumption DEF Task, Timed
      <4>2. resumed' = [resumed EXCEPT ![Target[o]] = @ + 1]
        BY <3>3, <4>1 DEF TimerManualStop
      <4>3. CASE d = Target[o]
        <5>1. d \in Aimed(drPending) /\ d \notin Range(p)
          BY <2>4, <3>3, <4>3
        <5>2. d \notin fresh /\ \A t \in Thread : d \notin Range(drRemote[t]) /\ task[t] # d
          BY <1>o, <5>1 DEF Order
        <5> QED BY <3>3, <4>3, <5>1, <5>2
      <4>4. CASE d # Target[o]
        <5>1. resumed'[d] = resumed[d]
          BY <1>y, <4>1, <4>2, <4>4
        <5> QED BY <3>1, <3>3, <5>1
      <4> QED BY <4>3, <4>4
    <3> QED BY <2>3, <3>2, <3>3
  <2>8. /\ Aimed(drPending) \intersect fresh = {}
        /\ \A t \in Thread :
              /\ \A x \in Range(drRemote[t]) : Owner[x] = t
              /\ Aimed(drRemote[t]) \intersect fresh = {}
              /\ Aimed(drPending) \intersect Range(drRemote[t]) = {}
              /\ task[t] \notin Aimed(drPending) \union Aimed(drRemote[t])
              /\ task[t] \in TimerStop => Target[task[t]] \notin fresh
    BY <1>o DEF Order
  <2> QED BY <2>2, <2>3, <2>4, <2>5, <2>6, <2>7, <2>8 DEF Order
<1>9. CASE TimersEnd
  BY <1>9, <1>q DEF TimersEnd
<1>10. CASE Check
  BY <1>10, <1>q DEF Check
<1>11. CASE EnterSleep
  BY <1>11, <1>q DEF EnterSleep, SleepUnlessNotified
<1>12. CASE EnterUnlock
  BY <1>12, <1>q DEF EnterUnlock
<1>13. CASE EnterTake
  BY <1>13, <1>q DEF EnterTake
<1>14. CASE EnterEnd
  BY <1>14, <1>q DEF EnterEnd
<1>15. CASE Close
  BY <1>15 DEF Close, Closed
<1>16. CASE FinalReapEnd
  BY <1>16, <1>q DEF FinalReapEnd
<1>17. ASSUME NEW b \in BOOLEAN, EnterReturn(b) \/ FinalReturn(b) PROVE Order(Owner)'
  BY <1>17, <1>q DEF EnterReturn, FinalReturn
<1>18. ASSUME NEW o \in Uring, Post(o) \/ PostMore(o) PROVE Order(Owner)'
  BY <1>18, <1>q DEF Post, PostMore
<1>19. ASSUME NEW t \in Thread, SubmitAdmit(t) PROVE Order(Owner)'
  <2>1. PICK o \in Task : Submittable(o) /\ task' = [task EXCEPT ![t] = o] /\ fresh' = fresh \ {o}
    BY <1>19 DEF SubmitAdmit
  <2>2. UNCHANGED <<stopping, drPending, drRemote, heap, resumed>>
    BY <1>19 DEF SubmitAdmit
  <2>3. o \in fresh /\ (o \in TimerStop => Target[o] \notin fresh)
    BY <2>1 DEF Submittable
  <2>4. \A u \in Thread : task'[u] = IF u = t THEN o ELSE task[u]
    BY <1>y, <2>1
  <2>5. Aimed(drPending)' = Aimed(drPending) /\ InOrder(drPending)'
    BY <1>o, <2>2 DEF Aimed, InOrder, Order
  <2>6. \A u \in Thread : /\ Aimed(drRemote[u])' = Aimed(drRemote[u]) /\ InOrder(drRemote[u])'
                          /\ drRemote'[u] = drRemote[u]
    BY <1>o, <2>2 DEF Aimed, InOrder, Order
  <2>7. \A u \in Thread : task'[u] \notin Aimed(drPending) \union Aimed(drRemote[u])
    BY <1>o, <2>3, <2>4 DEF Order
  <2>8. \A u \in Thread : task'[u] \in TimerStop => Target[task'[u]] \notin fresh'
    BY <1>o, <2>1, <2>3, <2>4 DEF Order
  <2>9. \A d \in Timer : resumed[d] > 0 => \A u \in Thread : task'[u] # d
    BY <1>o, <2>3, <2>4 DEF Order
  <2> QED BY <1>o, <2>1, <2>2, <2>5, <2>6, <2>7, <2>8, <2>9 DEF Order
<1>20. ASSUME NEW t \in Thread, SubmitRefuse(t) PROVE Order(Owner)'
  BY <1>20, <1>e DEF SubmitRefuse, Closed
<1>21. ASSUME NEW t \in Thread, SubmitPush(t) PROVE Order(Owner)'
  <2>1. /\ UNCHANGED <<stopping, drPending, heap, fresh, resumed>> /\ task' = [task EXCEPT ![t] = NoTask]
        /\ task[t] \in Task
    BY <1>21, <1>g DEF SubmitPush, GateType
  <2>2. \A u \in Thread : task'[u] = IF u = t THEN NoTask ELSE task[u]
    BY <1>y, <2>1
  <2>3. NoTask \notin Timed /\ Timer \subseteq Timed /\ TimerStop \subseteq Timed
        /\ \A s : Aimed(s) \subseteq Timed
    <3>1. NoTask \notin Timed /\ Timer \subseteq Timed /\ TimerStop \subseteq Timed
      BY TaskAssumption DEF Task, Timed
    <3>2. \A x \in TimerStop : Target[x] \in Timed
      BY <3>1, TaskAssumption
    <3> QED BY <3>1, <3>2 DEF Aimed
  <2>4. PICK e, r : e = task[t] /\ r = drRemote[t]
    OBVIOUS
  <2>5. /\ r \in Seq(Timed) /\ InOrder(r) /\ e \notin Aimed(r) /\ e \notin Aimed(drPending)
        /\ e \in TimerStop => Target[e] \notin fresh
        /\ \A x \in Range(r) : Owner[x] = t
        /\ Aimed(r) \intersect fresh = {} /\ Aimed(drPending) \intersect Range(r) = {}
    BY <1>o, <1>y, <2>4 DEF Order
  <2>6. PICK w : w = drRemote'[t]
    OBVIOUS
  <2>7. /\ \A u \in Thread : u # t => drRemote'[u] = drRemote[u]
        /\ InOrder(w) /\ \A x \in Range(w) : x \in Range(r) \/ x = e
        /\ \A x \in Range(w) : Owner[x] = t
        /\ \A x \in Aimed(w) : x \in Aimed(r) \/ (e \in TimerStop /\ x = Target[e])
    <3>1. CASE e \in Uring
      <4>1. drRemote' = drRemote
        BY <1>21, <2>4, <3>1 DEF SubmitPush
      <4> QED BY <2>4, <2>5, <2>6, <4>1
    <3>2. CASE e \notin Uring
      <4>1. e \in Timed
        BY <2>1, <2>4, <3>2 DEF Task
      <4>2. drRemote' = [drRemote EXCEPT ![t] = Append(drRemote[t], e)]
        BY <1>21, <2>4, <3>2 DEF SubmitPush
      <4>3. w = Append(r, e) /\ \A u \in Thread : u # t => drRemote'[u] = drRemote[u]
        BY <1>y, <2>4, <2>6, <4>2
      <4>4. /\ InOrder(Append(r, e)) /\ Range(Append(r, e)) = Range(r) \union {e}
            /\ \A x \in Aimed(Append(r, e)) : x \in Aimed(r) \/ (e \in TimerStop /\ x = Target[e])
        BY <2>5, <4>1, OrderAppend
      <4>5. Owner[e] = t
        BY <2>4, <4>1 DEF Owned
      <4> QED BY <2>5, <4>3, <4>4, <4>5
    <3> QED BY <3>1, <3>2
  <2>8. \A u \in Thread : Aimed(drRemote[u])' = Aimed(drRemote'[u]) /\ (InOrder(drRemote[u])' <=> InOrder(drRemote'[u]))
    BY DEF Aimed, InOrder
  <2>9. Aimed(drPending)' = Aimed(drPending) /\ InOrder(drPending)' /\ ~stopping'
    BY <1>o, <2>1 DEF Aimed, InOrder, Order
  <2>10. ASSUME NEW u \in Thread
         PROVE  /\ \A x \in Range(drRemote'[u]) : Owner[x] = u
                /\ InOrder(drRemote'[u]) /\ Aimed(drRemote'[u]) \intersect fresh = {}
                /\ Aimed(drPending) \intersect Range(drRemote'[u]) = {}
                /\ task'[u] \notin Aimed(drPending) \union Aimed(drRemote'[u])
                /\ task'[u] \in TimerStop => Target[task'[u]] \notin fresh
                /\ \A o \in Timer : resumed[o] > 0 => o \notin Range(drRemote'[u]) /\ task'[u] # o
    <3>1. CASE u = t
      <4>1. task'[u] = NoTask /\ drRemote'[u] = w
        BY <2>2, <2>6, <3>1
      <4>2. Aimed(w) \intersect fresh = {} /\ Aimed(drPending) \intersect Range(w) = {}
        BY <2>5, <2>7
      <4>3. \A o \in Timer : resumed[o] > 0 => o \notin Range(r) /\ o # e
        BY <1>o, <2>4 DEF Order
      <4>4. \A o \in Timer : resumed[o] > 0 => o \notin Range(w)
        BY <2>7, <4>3
      <4> QED BY <2>3, <2>7, <3>1, <4>1, <4>2, <4>4
    <3>2. CASE u # t
      <4>1. task'[u] = task[u] /\ drRemote'[u] = drRemote[u]
        BY <2>2, <2>7, <3>2
      <4> QED BY <1>o, <4>1 DEF Order
    <3> QED BY <3>1, <3>2
  <2>11. Aimed(drPending) \intersect fresh = {} /\
         \A o \in Timer : resumed[o] > 0 => o \notin heap \union fresh \union Range(drPending)
    BY <1>o DEF Order
  <2> QED BY <2>1, <2>8, <2>9, <2>10, <2>11 DEF Order
<1>22. ASSUME NEW t \in Thread, SubmitRelease(t) \/ Notify(t) \/ NotifyWrite(t) PROVE Order(Owner)'
  BY <1>22, <1>q DEF SubmitRelease, Notify, NotifyWrite
<1>23. ASSUME NEW t \in Thread, RequestStop(t) PROVE Order(Owner)'
  BY <1>23 DEF RequestStop
<1>24. CASE UNCHANGED vars
  BY <1>24, <1>q
<1> QED BY <1>1, <1>2, <1>3, <1>4, <1>5, <1>6, <1>7, <1>8, <1>9, <1>10, <1>11, <1>12, <1>13, <1>14, <1>15, <1>16, <1>17, <1>18, <1>19, <1>20, <1>21, <1>22, <1>23, <1>24 DEF Next, LoopStep, SubmitStep

\* While no stop was requested and the gate is open the heap holds no completed
\* timer, for any number of submitting threads, when a timer and its stop
\* commands are submitted by the same thread: its queue keeps their order.
THEOREM HeapHoldsLiveHolds ==
    ASSUME NEW Owner, \A s \in TimerStop : Owner[s] = Owner[Target[s]]
    PROVE  Spec /\ []Owned(Owner) => []HeapHoldsLive
<1>1. Init => OrderInv(Owner)
  BY OrderInit
<1>2. GateInv /\ CountInv /\ Owned(Owner) /\ OrderInv(Owner) /\ [Next]_vars => OrderInv(Owner)'
  BY OrderStep
<1>3. CountInv /\ OrderInv(Owner) => HeapHoldsLive
  <2> SUFFICES ASSUME CountInv, Order(Owner), NEW o \in heap PROVE resumed[o] = 0
    BY DEF OrderInv, HeapHoldsLive
  <2>1. o \in Timer /\ resumed[o] \in Nat
    BY DEF CountInv, RingType, Task, Timed
  <2> QED BY <2>1 DEF Order
<1> QED BY <1>1, <1>2, <1>3, GateInvHolds, CountInvHolds, PTL DEF Spec

\* With one submitting thread no more is needed.
THEOREM HeapHoldsLiveAlone ==
    ASSUME \A t, u \in Thread : t = u
    PROVE  Spec => []HeapHoldsLive
<1>1. CASE Thread = {}
  <2>1. PICK Owner : Owner = [o \in Timed |-> NoTask]
    OBVIOUS
  <2>2. \A s \in TimerStop : Owner[s] = Owner[Target[s]]
    BY <2>1, TaskAssumption DEF Timed
  <2>3. Owned(Owner)
    BY <1>1 DEF Owned
  <2>4. Spec /\ []Owned(Owner) => []HeapHoldsLive
    BY <2>2, HeapHoldsLiveHolds
  <2> QED BY <2>3, <2>4, PTL
<1>2. ASSUME NEW t \in Thread PROVE Spec => []HeapHoldsLive
  <2>1. PICK Owner : Owner = [o \in Timed |-> t]
    OBVIOUS
  <2>2. \A s \in TimerStop : Owner[s] = Owner[Target[s]]
    BY <2>1, TaskAssumption DEF Timed
  <2>3. Owned(Owner)
    BY <2>1 DEF Owned
  <2>4. Spec /\ []Owned(Owner) => []HeapHoldsLive
    BY <2>2, HeapHoldsLiveHolds
  <2> QED BY <2>3, <2>4, PTL
<1> QED BY <1>1, <1>2
=============================================================================
