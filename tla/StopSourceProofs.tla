-------------------------- MODULE StopSourceProofs --------------------------
(***************************************************************************)
(* Proofs about StopSource for any set of callbacks and requesters, any    *)
(* number of objects per address and any choice of self-destroying ones.   *)
(* Inv is inductive (InvInit, InvStep) and implies the safety properties;  *)
(* the refinement of StopPromise is shown step by step from Inv.           *)
(***************************************************************************)
EXTENDS StopSource, WellFoundedInduction, TLAPS

USE SelfDestroyAssumption, MaxLivesAssumption, PointerAssumption
USE DEF none_flag, stop_requested_flag, locked_flag, CallbackPc, RequestPc, Address,
        RegisterTryLock, RestoreState, ExecuteUnlocked, PrevPushed, WaitIfNotified,
        CompletedSeen, HeadPopped, PublishCompleted

\* Every step of a constructor, a destructor or a request_stop preserves the
\* inductive invariant: one case per action.
LEMMA InvStep == Inv /\ [Next]_vars => Inv'
<1> SUFFICES ASSUME Inv, [Next]_vars PROVE Inv'
  OBVIOUS
<1> USE DEF Inv, vars, listVars, requestVars, objectVars
<1> USE DEF TypeOK, LockInv, MutualExclusion, HoldsC, HoldsR, Won, ListInv, OnList,
            ClaimInv, Claims, DoneInv, Locked, StopRequested

<1>1. ASSUME NEW c \in Callback, Construct(c) PROVE Inv'
  BY <1>1 DEF Construct
<1>2. ASSUME NEW c \in Callback, Destroy(c) PROVE Inv'
  BY <1>2 DEF Destroy
<1>3. ASSUME NEW c \in Callback, DestroyDetached(c) PROVE Inv'
  BY <1>3 DEF DestroyDetached
<1>4. ASSUME NEW c \in Callback, RegisterLock(c) PROVE Inv'
  BY <1>4 DEF RegisterLock, TryLock
<1>5. ASSUME NEW c \in Callback, PushFront(c) PROVE Inv'
  BY <1>5 DEF PushFront
<1>6. ASSUME NEW c \in Callback, PushUnlock(c) PROVE Inv'
  BY <1>6 DEF PushUnlock, Unlock
<1>7. ASSUME NEW c \in Callback, RegisterRefused(c) PROVE Inv'
  BY <1>7 DEF RegisterRefused, TryLockRefused
<1>8. ASSUME NEW c \in Callback, InlineReturn(c) PROVE Inv'
  BY <1>8 DEF InlineReturn
<1>9. ASSUME NEW c \in Callback, RemoveLock(c) PROVE Inv'
  BY <1>9 DEF RemoveLock, Lock
<1>10. ASSUME NEW c \in Callback, Unlink(c) PROVE Inv'
  BY <1>10 DEF Unlink
<1>11. ASSUME NEW c \in Callback, UnlinkUnlock(c) PROVE Inv'
  BY <1>11 DEF UnlinkUnlock, Unlock
<1>12. ASSUME NEW c \in Callback, Missed(c) PROVE Inv'
  BY <1>12 DEF Missed
<1>13. ASSUME NEW c \in Callback, MissedUnlock(c) PROVE Inv'
  BY <1>13 DEF MissedUnlock, Unlock
<1>14. ASSUME NEW c \in Callback, AwaitCompleted(c) PROVE Inv'
  BY <1>14 DEF AwaitCompleted
<1>15. ASSUME NEW r \in Requester, Request(r) PROVE Inv'
  BY <1>15 DEF Request
<1>16. ASSUME NEW r \in Requester, RequestLock(r) PROVE Inv'
  BY <1>16 DEF RequestLock, TryLock
<1>17. ASSUME NEW r \in Requester, RequestRefused(r) PROVE Inv'
  BY <1>17 DEF RequestRefused, TryLockRefused
<1>18. ASSUME NEW r \in Requester, SetNotify(r) PROVE Inv'
  BY <1>18 DEF SetNotify
<1>19. ASSUME NEW r \in Requester, PopCallback(r) PROVE Inv'
  BY <1>19 DEF PopCallback
<1>20. ASSUME NEW r \in Requester, PopUnlock(r) PROVE Inv'
  BY <1>20 DEF PopUnlock, Unlock
<1>21. ASSUME NEW r \in Requester, Execute(r) PROVE Inv'
  BY <1>21 DEF Execute
<1>22. ASSUME NEW r \in Requester, ExecuteReturn(r) PROVE Inv'
  BY <1>22 DEF ExecuteReturn
<1>23. ASSUME NEW r \in Requester, SetCompleted(r) PROVE Inv'
  BY <1>23 DEF SetCompleted
<1>24. ASSUME NEW r \in Requester, Relock(r) PROVE Inv'
  BY <1>24 DEF Relock, Lock
<1>25. ASSUME NEW r \in Requester, RequestDone(r) PROVE Inv'
  BY <1>25 DEF RequestDone, Unlock
<1>26. CASE UNCHANGED vars
  BY <1>26
<1> QED BY <1>1, <1>2, <1>3, <1>4, <1>5, <1>6, <1>7, <1>8, <1>9, <1>10, <1>11, <1>12, <1>13, <1>14, <1>15, <1>16, <1>17, <1>18, <1>19, <1>20, <1>21, <1>22, <1>23, <1>24, <1>25, <1>26 DEF Next, CallbackStep, RequestStep


\* The invariant holds of a source just constructed, with no callback.
LEMMA InvInit == Init => Inv
<1> SUFFICES ASSUME Init PROVE Inv
  OBVIOUS
<1> USE DEF Init
<1>1. TypeOK
  BY DEF TypeOK
<1>2. LockInv
  BY DEF LockInv, MutualExclusion, HoldsC, HoldsR, Won, StopRequested, Locked
<1>3. ListInv
  BY DEF ListInv, OnList
<1>4. ClaimInv
  BY DEF ClaimInv, Claims, Won, OnList
<1>5. DoneInv
  BY DEF DoneInv, StopRequested
<1> QED BY <1>1, <1>2, <1>3, <1>4, <1>5 DEF Inv

\* The inductive invariant of __stop_source holds in every reachable state:
\* lock ownership, the shape of the callback list and the stage of every callback.
THEOREM InvHolds == Spec => []Inv
BY InvInit, InvStep, PTL DEF Spec

\* The flag byte, the pointers and the flags of __stop_source and of its
\* callbacks keep their types.
THEOREM TypeCorrect == Spec => []TypeOK
<1>1. Inv => TypeOK
  BY DEF Inv
<1> QED BY <1>1, InvHolds, PTL

\* A non-empty set of numbers has a least element.
LEMMA SmallestNat ==
    ASSUME NEW S, S \subseteq Nat, S # {}
    PROVE  \E x \in S : \A y \in S : x <= y
<1>1. PICK x \in S : \A y \in S : ~(<<y, x>> \in OpToRel(<, Nat))
  BY WFMin, NatLessThanWellFounded
<1>2. \A y \in S : ~(y < x)
  BY <1>1, Zenon DEF OpToRel
<1> QED BY <1>2

\* When __callback_ is null no callback believes to be on the list: following
\* __prev_ from one would lead to ever younger callbacks and never to the head.
LEMMA EmptyList == Inv /\ callback = NULL => \A c \in Callback : ~OnList(c)
<1> SUFFICES ASSUME Inv, callback = NULL, NEW c0 \in Callback, OnList(c0) PROVE FALSE
  OBVIOUS
<1> DEFINE Age(c) == pushes - seq[c]
           Ages == {Age(c) : c \in {d \in Callback : OnList(d)}}
<1>1. Ages \subseteq Nat /\ Ages # {}
  BY DEF Inv, TypeOK, ListInv
<1>2. PICK a \in Ages : \A b \in Ages : a <= b
  BY <1>1, SmallestNat
<1>3. PICK c \in Callback : OnList(c) /\ a = Age(c)
  BY <1>2
<1>4. prev[c] # HEAD
  BY <1>3 DEF Inv, ListInv
<1>5. prev[c] \in Callback /\ OnList(prev[c]) /\ seq[c] < seq[prev[c]]
  BY <1>3, <1>4 DEF Inv, TypeOK, ListInv, OnList, Address
<1>6. Age(prev[c]) \in Ages /\ Age(prev[c]) < Age(c)
  BY <1>3, <1>5 DEF Inv, TypeOK
<1> QED BY <1>2, <1>3, <1>6, <1>1

\* At most one thread is between _M_lock (or a successful
\* _M_try_lock_unless_stop_requested) and the store that releases the lock.
THEOREM MutualExclusionHolds == Spec => []MutualExclusion
<1>1. Inv => MutualExclusion
  BY DEF Inv, LockInv
<1> QED BY <1>1, InvHolds, PTL

\* Once ~__stop_callback has returned, neither the list nor a running
\* _M_request_stop refers to the callback.
THEOREM NoUseAfterDestroyHolds == Spec => []NoUseAfterDestroy
<1>1. Inv => NoUseAfterDestroy
  BY DEF Inv, TypeOK, ListInv, ClaimInv, NoUseAfterDestroy, OnList
<1> QED BY <1>1, InvHolds, PTL

\* A callback is executed at most once in its life, and only after stop was
\* requested, whether its constructor or _M_request_stop executes it.
THEOREM ExecutedOnceHolds == Spec => []ExecutedOnce
<1>1. Inv => ExecutedOnce
  BY DEF Inv, DoneInv, ExecutedOnce
<1> QED BY <1>1, InvHolds, PTL

\* When the _M_request_stop that won returns, every callback whose registration
\* has returned was executed.
THEOREM NoneMissedHolds == Spec => []NoneMissed
<1>1. Inv => NoneMissed
  <2> SUFFICES ASSUME Inv, NEW r \in Requester, rpc[r] = "done", NEW c \in Callback,
                      cpc[c] \in {"live", "remove", "unlink", "missed", "await"}
               PROVE  executed[c] = 1
    BY DEF NoneMissed
  <2>1. ~OnList(c)
    BY EmptyList DEF Inv, DoneInv
  <2>2. \A s \in Requester : ~Claims(s, c)
    BY DEF Inv, LockInv, Won, Claims
  <2> QED BY <2>1, <2>2 DEF Inv, ClaimInv
<1> QED BY <1>1, InvHolds, PTL

\* The two assertions of ~__stop_source hold whenever all callbacks are
\* destroyed and no _M_request_stop is inside.
THEOREM DestructibleHolds == Spec => []Destructible
<1>1. Inv => Destructible
  BY DEF Inv, TypeOK, LockInv, HoldsC, HoldsR, ListInv, OnList, Destructible
<1> QED BY <1>1, InvHolds, PTL


\* No step clears the stop flag: an _M_unlock that overwrites the byte stores
\* what _M_lock found there.
LEMMA StopStickyStep == Inv /\ [Next]_vars => (StopRequested => StopRequested')
<1> SUFFICES ASSUME Inv, [Next]_vars, StopRequested PROVE StopRequested'
  OBVIOUS
<1> USE DEF Inv, TypeOK, LockInv, HoldsC, HoldsR, Won, StopRequested, Locked
<1>1. ASSUME NEW c \in Callback, Construct(c) \/ Destroy(c) \/ DestroyDetached(c) \/ CallbackStep(c)
      PROVE  StopRequested'
  BY <1>1 DEF Construct, Destroy, DestroyDetached, CallbackStep, RegisterLock, PushFront,
              PushUnlock, RegisterRefused, InlineReturn, RemoveLock, Unlink, UnlinkUnlock, Missed,
              MissedUnlock, AwaitCompleted, Lock, Unlock, TryLock, TryLockRefused
<1>2. ASSUME NEW r \in Requester, Request(r) \/ RequestStep(r)
      PROVE  StopRequested'
  BY <1>2 DEF Request, RequestStep, RequestLock, RequestRefused, SetNotify, PopCallback,
              PopUnlock, Execute, ExecuteReturn, SetCompleted, Relock, RequestDone,
              Lock, Unlock, TryLock, TryLockRefused
<1>3. CASE UNCHANGED vars
  BY <1>3 DEF vars
<1> QED BY <1>1, <1>2, <1>3 DEF Next

\* A requested stop is never withdrawn.
THEOREM StopStickyHolds == Spec => StopSticky
<1>1. Inv /\ [Next]_vars => [StopRequested => StopRequested']_vars
  BY StopStickyStep
<1> QED BY <1>1, InvHolds, PTL DEF Spec, StopSticky

\* a callback whose own function destroys it is being executed until then
SelfInv ==
    \A c \in SelfDestroy : cpc[c] \in {"remove", "unlink", "unlinked", "missed", "await"} =>
        /\ cpc[c] # "unlinked"
        /\ \E r \in Requester : Executing(r, c)

\* The function that runs the destructor does not return before it: the destructor
\* finds its callback off the list and __notify_ set, and nobody completes it.
LEMMA SelfStep == Inv /\ SelfInv /\ [Next]_vars =>
                      SelfInv' /\ \A c \in SelfDestroy : cpc[c] = "await" => cpc'[c] = "await"
<1> SUFFICES ASSUME Inv, SelfInv, [Next]_vars, NEW c \in SelfDestroy
             PROVE  /\ cpc[c] = "await" => cpc'[c] = "await"
                    /\ cpc'[c] \in {"remove", "unlink", "unlinked", "missed", "await"} =>
                           cpc'[c] # "unlinked" /\ \E r \in Requester : Executing(r, c)'
  BY DEF SelfInv
<1>1. /\ cpc \in [Callback -> CallbackPc] /\ rpc \in [Requester -> RequestPc] /\ tmp \in [Requester -> Address]
      /\ c \in Callback
  BY DEF Inv, TypeOK
<1>2. cpc[c] \in {"remove", "unlink", "unlinked", "missed", "await"} =>
          cpc[c] # "unlinked" /\ \E r \in Requester : Executing(r, c)
  BY DEF SelfInv
<1>3. \A r \in Requester : Executing(r, c) => prev[c] = NULL /\ ~completed[c] /\ notify
  BY <1>1 DEF Inv, ClaimInv, Claims, Won, Executing
<1>4. ASSUME NEW d \in Callback, Construct(d) \/ Destroy(d) \/ DestroyDetached(d) \/ CallbackStep(d)
      PROVE  /\ cpc[c] = "await" => cpc'[c] = "await"
             /\ cpc'[c] \in {"remove", "unlink", "unlinked", "missed", "await"} =>
                    cpc'[c] # "unlinked" /\ \E r \in Requester : Executing(r, c)
  BY <1>1, <1>2, <1>3, <1>4
     DEF Construct, Destroy, DestroyDetached, CallbackStep, RegisterLock, PushFront, PushUnlock,
         RegisterRefused, InlineReturn, RemoveLock, Unlink, UnlinkUnlock, Missed, MissedUnlock, AwaitCompleted
<1>5. ASSUME NEW d \in Callback, Construct(d) \/ Destroy(d) \/ DestroyDetached(d) \/ CallbackStep(d)
      PROVE  \A r \in Requester : Executing(r, c)' <=> Executing(r, c)
  BY <1>5 DEF Construct, Destroy, DestroyDetached, CallbackStep, RegisterLock, PushFront, PushUnlock,
         RegisterRefused, InlineReturn, RemoveLock, Unlink, UnlinkUnlock, Missed, MissedUnlock, AwaitCompleted,
         requestVars, Executing
<1>6. ASSUME NEW s \in Requester, Request(s) \/ RequestStep(s)
      PROVE  cpc' = cpc /\ \A r \in Requester : Executing(r, c) /\ cpc[c] # "absent" => Executing(r, c)'
  BY <1>1, <1>6 DEF Request, RequestStep, RequestLock, RequestRefused, SetNotify, PopCallback,
              PopUnlock, Execute, ExecuteReturn, SetCompleted, Relock, RequestDone, Executing
<1>7. CASE UNCHANGED vars
  BY <1>2, <1>7 DEF vars, Executing
<1> QED BY <1>2, <1>4, <1>5, <1>6, <1>7 DEF Next

\* A callback destroyed by its own function while request_stop executes it never
\* leaves its destructor, whatever other callbacks and requesters do.
THEOREM SelfDestroyHangsHolds == Spec => SelfDestroyHangs
<1>1. Init => SelfInv
  BY DEF Init, SelfInv
<1>2. Inv /\ SelfInv /\ [Next]_vars => SelfInv'
  BY SelfStep
<1>3. Spec => []SelfInv
  BY <1>1, <1>2, InvHolds, PTL DEF Spec
<1>4. Inv /\ SelfInv /\ [Next]_vars => [\A c \in SelfDestroy : cpc[c] = "await" => cpc'[c] = "await"]_vars
  BY SelfStep
<1> QED BY <1>3, <1>4, InvHolds, PTL DEF Spec, SelfDestroyHangs

\* Every step of StopSource is a step of StopPromise or leaves the promise's
\* state alone.
LEMMA PromiseStep == Inv /\ Inv' /\ [Next]_vars => [Promise!Next]_(Promise!vars)
<1> SUFFICES ASSUME Inv, Inv', [Next]_vars PROVE [Promise!Next]_(Promise!vars)
  OBVIOUS
<1> DEFINE Same == StopRequested' = StopRequested /\ \A d \in Callback : Status(d)' = Status(d)
           Moved(x, from, to) ==
               /\ StopRequested' = StopRequested
               /\ Status(x) = from /\ Status(x)' = to
               /\ \A d \in Callback \ {x} : Status(d)' = Status(d)
<1>a. ASSUME Same PROVE UNCHANGED Promise!vars
  BY <1>a DEF Promise!vars
<1>b. ASSUME NEW x \in Callback, NEW from, NEW to, Moved(x, from, to)
      PROVE  Promise!Move(x, from, to)
  BY <1>b DEF Promise!Move
<1> USE DEF Inv, vars, listVars, requestVars, objectVars
<1> USE DEF TypeOK, LockInv, MutualExclusion, HoldsC, HoldsR, Won, ListInv, OnList,
            ClaimInv, Claims, Status, Locked, StopRequested

<1>1. ASSUME NEW c \in Callback, Construct(c) PROVE Same
  BY <1>1 DEF Construct
<1>2. ASSUME NEW c \in Callback, Destroy(c) PROVE Same
  BY <1>2 DEF Destroy
<1>3. ASSUME NEW c \in Callback, DestroyDetached(c) PROVE Moved(c, "fired", "absent")
  BY <1>3 DEF DestroyDetached
<1>4. ASSUME NEW c \in Callback, RegisterLock(c) PROVE Same
  BY <1>4 DEF RegisterLock, TryLock
<1>5. ASSUME NEW c \in Callback, PushFront(c) PROVE Moved(c, "absent", "armed") /\ ~StopRequested
  BY <1>5 DEF PushFront
<1>6. ASSUME NEW c \in Callback, PushUnlock(c) PROVE Same
  BY <1>6 DEF PushUnlock, Unlock
<1>7. ASSUME NEW c \in Callback, RegisterRefused(c) PROVE Moved(c, "absent", "running") /\ StopRequested
  BY <1>7 DEF RegisterRefused, TryLockRefused
<1>8. ASSUME NEW c \in Callback, InlineReturn(c) PROVE Moved(c, "running", "fired")
  BY <1>8 DEF InlineReturn
<1>9. ASSUME NEW c \in Callback, RemoveLock(c) PROVE Same
  BY <1>9 DEF RemoveLock, Lock
<1>10. ASSUME NEW c \in Callback, Unlink(c) PROVE Moved(c, "armed", "absent")
  BY <1>10 DEF Unlink
<1>11. ASSUME NEW c \in Callback, UnlinkUnlock(c) PROVE Same
  BY <1>11 DEF UnlinkUnlock, Unlock
<1>12. ASSUME NEW c \in Callback, Missed(c) PROVE Same
  BY <1>12 DEF Missed
<1>13. ASSUME NEW c \in Callback, MissedUnlock(c) PROVE Same
  BY <1>13 DEF MissedUnlock, Unlock
<1>14. ASSUME NEW c \in Callback, AwaitCompleted(c) PROVE Moved(c, "fired", "absent")
  BY <1>14 DEF AwaitCompleted
<1>15. ASSUME NEW r \in Requester, Request(r) PROVE Same
  BY <1>15 DEF Request
<1>16. ASSUME NEW r \in Requester, RequestLock(r) PROVE Promise!RequestStop
  BY <1>16 DEF RequestLock, TryLock, Promise!RequestStop
<1>17. ASSUME NEW r \in Requester, RequestRefused(r) PROVE Same
  BY <1>17 DEF RequestRefused, TryLockRefused
<1>18. ASSUME NEW r \in Requester, SetNotify(r) PROVE Same
  BY <1>18 DEF SetNotify
<1>19. ASSUME NEW r \in Requester, PopCallback(r)
       PROVE  \E x \in Callback : Moved(x, "armed", "running") /\ StopRequested
  <2>1. PICK x \in Callback : x = callback
    BY <1>19 DEF PopCallback
  <2>2. Moved(x, "armed", "running") /\ StopRequested
    BY <1>19, <2>1 DEF PopCallback
  <2> QED BY <2>2
<1>20. ASSUME NEW r \in Requester, PopUnlock(r) PROVE Same
  BY <1>20 DEF PopUnlock, Unlock
<1>21. ASSUME NEW r \in Requester, Execute(r) PROVE Same
  BY <1>21 DEF Execute
<1>22. ASSUME NEW r \in Requester, ExecuteReturn(r) PROVE Same
  BY <1>22 DEF ExecuteReturn
<1>23. ASSUME NEW r \in Requester, SetCompleted(r)
       PROVE  \E x \in Callback : Moved(x, "running", "fired")
  <2>1. PICK x \in Callback : x = tmp[r]
    BY <1>23 DEF SetCompleted
  <2>2. Moved(x, "running", "fired")
    BY <1>23, <2>1 DEF SetCompleted
  <2> QED BY <2>2
<1>24. ASSUME NEW r \in Requester, Relock(r) PROVE Same
  BY <1>24 DEF Relock, Lock
<1>25. ASSUME NEW r \in Requester, RequestDone(r) PROVE Same
  BY <1>25 DEF RequestDone, Unlock
<1>26. CASE UNCHANGED vars
  BY <1>26 DEF Promise!vars
<1> HIDE DEF Inv, vars, listVars, requestVars, objectVars, TypeOK, LockInv, MutualExclusion,
             HoldsC, HoldsR, Won, ListInv, OnList, ClaimInv, Claims, Status, Locked, StopRequested,
             Same, Moved
<1>c. ASSUME NEW c \in Callback, Construct(c) \/ Destroy(c) \/ DestroyDetached(c) \/ CallbackStep(c)
      PROVE  [Promise!Next]_(Promise!vars)
  BY <1>a, <1>b, <1>c, <1>1, <1>2, <1>3, <1>4, <1>5, <1>6, <1>7, <1>8, <1>9, <1>10, <1>11, <1>12,
     <1>13, <1>14 DEF CallbackStep, Promise!Next, Promise!Arm, Promise!RunAtOnce, Promise!Finish,
     Promise!Withdraw, Promise!Release
<1>d. ASSUME NEW r \in Requester, Request(r) \/ RequestStep(r)
      PROVE  [Promise!Next]_(Promise!vars)
  BY <1>a, <1>b, <1>d, <1>15, <1>16, <1>17, <1>18, <1>19, <1>20, <1>21, <1>22, <1>23, <1>24, <1>25
     DEF RequestStep, Promise!Next, Promise!Fire, Promise!Finish
<1> QED BY <1>c, <1>d, <1>26 DEF Next

\* The initial state maps to the initial state of StopPromise.
LEMMA PromiseInit == Init => Promise!Init
BY DEF Init, Promise!Init, Status, OnList, Claims, StopRequested

\* __stop_source implements the safety part of StopPromise: what a callback may
\* observe is arming, withdrawal, one run after the request, and release.
THEOREM PromiseKept == Spec => Promise!Spec
BY PromiseInit, PromiseStep, InvHolds, PTL DEF Spec, Promise!Spec

=============================================================================
