------------------------------ MODULE StopSource ------------------------------
(***************************************************************************)
(* __stop_source, __stop_cb_base and __stop_callback of                    *)
(* __core/__stop_inplace.hpp: a stop request, a one-byte spin lock and a   *)
(* doubly linked list of callbacks, shared by the threads that construct   *)
(* and destroy callbacks and the threads that request stop.                *)
(*                                                                         *)
(* One step is one access to __state_ or __callback_completed_, or the     *)
(* plain accesses between two of them.  Failed and spurious                *)
(* compare_exchanges, and the waiting of __pause_or_yield, are stutters.   *)
(***************************************************************************)
EXTENDS Naturals

CONSTANTS Callback,     \* addresses at which __stop_callback objects live
          Requester,    \* threads that call _M_request_stop
          SelfDestroy,  \* callbacks whose function destroys the callback itself
          MaxLives,     \* bound: objects constructed at one address
          NULL,         \* nullptr
          HEAD          \* the pointer &__stop_source::__callback_

ASSUME SelfDestroyAssumption == SelfDestroy \subseteq Callback
ASSUME MaxLivesAssumption == MaxLives \in Nat
ASSUME PointerAssumption == NULL \notin Callback /\ HEAD \notin Callback /\ NULL # HEAD

VARIABLES state,      \* __state_, the flag byte
          callback,   \* __callback_, the head of the list
          notify,     \* __notify_
          next,       \* __next_ of every callback
          prev,       \* __prev_ of every callback: NULL, HEAD, or the callback whose __next_ it points to
          completed,  \* __callback_completed_ of every callback
          attached,   \* __source_ # nullptr of every callback
          cpc,        \* where construction or destruction of the callback stands
          saved,      \* __prev of the _M_remove_callback in progress
          rpc,        \* where the _M_request_stop of a thread stands
          tmp,        \* its __tmp
          lives,      \* objects constructed so far at the address (bounds the model)
          executed,   \* times the present object's _M_execute was entered (history)
          pushes,     \* callbacks linked so far (history)
          seq         \* when the callback was linked, counted in pushes (history)

vars == <<state, callback, notify, next, prev, completed, attached, cpc, saved,
          rpc, tmp, lives, executed, pushes, seq>>
listVars == <<callback, next, prev, pushes, seq>>
requestVars == <<notify, rpc, tmp>>
objectVars == <<completed, attached, lives, executed>>

none_flag == 0
stop_requested_flag == 1
locked_flag == 2

StopRequested == state \in {stop_requested_flag, locked_flag + stop_requested_flag}
Locked == state \in {locked_flag, locked_flag + stop_requested_flag}

Init ==
    /\ state = none_flag
    /\ callback = NULL
    /\ notify = FALSE
    /\ next = [c \in Callback |-> NULL]
    /\ prev = [c \in Callback |-> NULL]
    /\ completed = [c \in Callback |-> FALSE]
    /\ attached = [c \in Callback |-> FALSE]
    /\ cpc = [c \in Callback |-> "absent"]
    /\ saved = [c \in Callback |-> none_flag]
    /\ rpc = [r \in Requester |-> "idle"]
    /\ tmp = [r \in Requester |-> NULL]
    /\ lives = [c \in Callback |-> 0]
    /\ executed = [c \in Callback |-> 0]
    /\ pushes = 0
    /\ seq = [c \in Callback |-> 0]

-----------------------------------------------------------------------------
(* The spin lock.                                                            *)

\* _M_lock: only the compare_exchange that succeeds changes anything
Lock == ~Locked /\ state' = state + locked_flag

\* _M_unlock
Unlock(p) == state' = p

\* _M_try_lock_unless_stop_requested returning true, and returning false
TryLock(flags) == state = none_flag /\ state' = flags
TryLockRefused == StopRequested /\ UNCHANGED state

\* faults: registration ignores a requested stop; removal keeps the lock, or
\* clears the byte; request_stop executes callbacks under the lock
RegisterAfterStop == Lock
KeepLock(c) == UNCHANGED state
ClearState(c) == Unlock(none_flag)
ExecuteLocked == UNCHANGED state

\* how registration takes the lock, removal gives it back, and request_stop
\* gives it up for the time of an execution
RegisterTryLock == TryLock(locked_flag)
RestoreState(c) == Unlock(saved[c])
ExecuteUnlocked == Unlock(stop_requested_flag)

-----------------------------------------------------------------------------
(* ~__stop_callback and the constructor, run by the thread that owns c.      *)

\* the base class constructor; _M_register_callback is next
Construct(c) ==
    /\ cpc[c] = "absent" /\ lives[c] < MaxLives
    /\ next' = [next EXCEPT ![c] = NULL]
    /\ prev' = [prev EXCEPT ![c] = NULL]
    /\ completed' = [completed EXCEPT ![c] = FALSE]
    /\ attached' = [attached EXCEPT ![c] = TRUE]
    /\ lives' = [lives EXCEPT ![c] = @ + 1]
    /\ executed' = [executed EXCEPT ![c] = 0]
    /\ cpc' = [cpc EXCEPT ![c] = "register"]
    /\ UNCHANGED <<state, callback, pushes, seq, saved, requestVars>>

RegisterLock(c) ==
    /\ cpc[c] = "register" /\ RegisterTryLock
    /\ cpc' = [cpc EXCEPT ![c] = "link"]
    /\ UNCHANGED <<listVars, requestVars, objectVars, saved>>

\* fault: the old head keeps pointing back to the source
PrevOneWay(c) == [prev EXCEPT ![c] = HEAD]

\* __prev_ fields after c was put in front of the list
PrevPushed(c) ==
    [d \in Callback |-> IF d = c THEN HEAD ELSE IF d = callback THEN c ELSE prev[d]]

\* _M_try_push_front_callback under the lock
PushFront(c) ==
    /\ cpc[c] = "link"
    /\ next' = [next EXCEPT ![c] = callback]
    /\ prev' = PrevPushed(c)
    /\ callback' = c
    /\ pushes' = pushes + 1
    /\ seq' = [seq EXCEPT ![c] = pushes + 1]
    /\ cpc' = [cpc EXCEPT ![c] = "linked"]
    /\ UNCHANGED <<state, requestVars, objectVars, saved>>

PushUnlock(c) ==
    /\ cpc[c] = "linked" /\ Unlock(none_flag)
    /\ cpc' = [cpc EXCEPT ![c] = "live"]
    /\ UNCHANGED <<listVars, requestVars, objectVars, saved>>

\* stop was requested first: detach and execute on the constructing thread
RegisterRefused(c) ==
    /\ cpc[c] = "register" /\ TryLockRefused
    /\ attached' = [attached EXCEPT ![c] = FALSE]
    /\ executed' = [executed EXCEPT ![c] = @ + 1]
    /\ cpc' = [cpc EXCEPT ![c] = "inline"]
    /\ UNCHANGED <<listVars, requestVars, completed, lives, saved>>

InlineReturn(c) ==
    /\ cpc[c] = "inline"
    /\ cpc' = [cpc EXCEPT ![c] = "live"]
    /\ UNCHANGED <<state, listVars, requestVars, objectVars, saved>>

\* the destructor of a callback that __source_ no longer binds does nothing
DestroyDetached(c) ==
    /\ cpc[c] = "live" /\ ~attached[c]
    /\ cpc' = [cpc EXCEPT ![c] = "absent"]
    /\ UNCHANGED <<state, listVars, requestVars, objectVars, saved>>

Executing(r, c) == rpc[r] = "running" /\ tmp[r] = c

\* the destructor enters _M_remove_callback; a callback of SelfDestroy is
\* destroyed by its own function only
Destroy(c) ==
    /\ cpc[c] = "live" /\ attached[c]
    /\ c \in SelfDestroy => \E r \in Requester : Executing(r, c)
    /\ cpc' = [cpc EXCEPT ![c] = "remove"]
    /\ UNCHANGED <<state, listVars, requestVars, objectVars, saved>>

RemoveLock(c) ==
    /\ cpc[c] = "remove" /\ Lock
    /\ saved' = [saved EXCEPT ![c] = state]
    /\ cpc' = [cpc EXCEPT ![c] = "unlink"]
    /\ UNCHANGED <<listVars, requestVars, objectVars>>

\* the list before c is skipped: *__cb->__prev_ = __cb->__next_ and its mirror
Unlink(c) ==
    /\ cpc[c] = "unlink" /\ prev[c] # NULL
    /\ callback' = IF prev[c] = HEAD THEN next[c] ELSE callback
    /\ next' = [d \in Callback |-> IF d = prev[c] THEN next[c] ELSE next[d]]
    /\ prev' = [d \in Callback |-> IF d = next[c] THEN prev[c] ELSE prev[d]]
    /\ cpc' = [cpc EXCEPT ![c] = "unlinked"]
    /\ UNCHANGED <<state, pushes, seq, requestVars, objectVars, saved>>

UnlinkUnlock(c) ==
    /\ cpc[c] = "unlinked" /\ RestoreState(c)
    /\ cpc' = [cpc EXCEPT ![c] = "absent"]
    /\ UNCHANGED <<listVars, requestVars, objectVars, saved>>

\* fault: removal does not look at __notify_
ReturnAnyway == "unlinked"

\* wait for the execution when a request_stop is under way
WaitIfNotified == IF notify THEN "missed" ELSE "unlinked"

\* a request_stop has taken c off the list: wait for it if __notify_ says so
Missed(c) ==
    /\ cpc[c] = "unlink" /\ prev[c] = NULL
    /\ cpc' = [cpc EXCEPT ![c] = WaitIfNotified]
    /\ UNCHANGED <<state, listVars, requestVars, objectVars, saved>>

MissedUnlock(c) ==
    /\ cpc[c] = "missed" /\ RestoreState(c)
    /\ cpc' = [cpc EXCEPT ![c] = "await"]
    /\ UNCHANGED <<listVars, requestVars, objectVars, saved>>

\* variant: the thread that executes the callback does not wait for itself
CompletedOrOwn(c) == completed[c] \/ \E r \in Requester : Executing(r, c)

CompletedSeen(c) == completed[c]

AwaitCompleted(c) ==
    /\ cpc[c] = "await" /\ CompletedSeen(c)
    /\ cpc' = [cpc EXCEPT ![c] = "absent"]
    /\ UNCHANGED <<state, listVars, requestVars, objectVars, saved>>

-----------------------------------------------------------------------------
(* _M_request_stop, run by thread r.                                         *)

Request(r) ==
    /\ rpc[r] = "idle"
    /\ rpc' = [rpc EXCEPT ![r] = "request"]
    /\ UNCHANGED <<state, listVars, notify, tmp, objectVars, cpc, saved>>

RequestLock(r) ==
    /\ rpc[r] = "request" /\ TryLock(locked_flag + stop_requested_flag)
    /\ rpc' = [rpc EXCEPT ![r] = "notify"]
    /\ UNCHANGED <<listVars, notify, tmp, objectVars, cpc, saved>>

RequestRefused(r) ==
    /\ rpc[r] = "request" /\ TryLockRefused
    /\ rpc' = [rpc EXCEPT ![r] = "already"]
    /\ UNCHANGED <<listVars, notify, tmp, objectVars, cpc, saved>>

SetNotify(r) ==
    /\ rpc[r] = "notify"
    /\ notify' = TRUE
    /\ rpc' = [rpc EXCEPT ![r] = "loop"]
    /\ UNCHANGED <<state, listVars, tmp, objectVars, cpc, saved>>

\* __callback_ after its first callback was popped
HeadPopped == next[callback]

PopCallback(r) ==
    /\ rpc[r] = "loop" /\ callback # NULL
    /\ tmp' = [tmp EXCEPT ![r] = callback]
    /\ prev' = [d \in Callback |-> IF d = callback THEN NULL
                                   ELSE IF d = next[callback] THEN HEAD ELSE prev[d]]
    /\ callback' = HeadPopped
    /\ rpc' = [rpc EXCEPT ![r] = "popped"]
    /\ UNCHANGED <<state, next, pushes, seq, notify, objectVars, cpc, saved>>

PopUnlock(r) ==
    /\ rpc[r] = "popped" /\ ExecuteUnlocked
    /\ rpc' = [rpc EXCEPT ![r] = "execute"]
    /\ UNCHANGED <<listVars, notify, tmp, objectVars, cpc, saved>>

Execute(r) ==
    /\ rpc[r] = "execute"
    /\ executed' = [executed EXCEPT ![tmp[r]] = @ + 1]
    /\ rpc' = [rpc EXCEPT ![r] = "running"]
    /\ UNCHANGED <<state, listVars, notify, tmp, completed, attached, lives, cpc, saved>>

\* the function returns; one that destroys its callback returns after that
ExecuteReturn(r) ==
    /\ rpc[r] = "running"
    /\ tmp[r] \in SelfDestroy => cpc[tmp[r]] = "absent"
    /\ rpc' = [rpc EXCEPT ![r] = "executed"]
    /\ UNCHANGED <<state, listVars, notify, tmp, objectVars, cpc, saved>>

\* fault: the end of the execution is not published
SkipCompleted(c) == UNCHANGED completed

PublishCompleted(c) == completed' = [completed EXCEPT ![c] = TRUE]

SetCompleted(r) ==
    /\ rpc[r] = "executed" /\ PublishCompleted(tmp[r])
    /\ rpc' = [rpc EXCEPT ![r] = "relock"]
    /\ UNCHANGED <<state, listVars, notify, tmp, attached, lives, executed, cpc, saved>>

Relock(r) ==
    /\ rpc[r] = "relock" /\ Lock
    /\ rpc' = [rpc EXCEPT ![r] = "loop"]
    /\ UNCHANGED <<listVars, notify, tmp, objectVars, cpc, saved>>

RequestDone(r) ==
    /\ rpc[r] = "loop" /\ callback = NULL
    /\ Unlock(stop_requested_flag)
    /\ rpc' = [rpc EXCEPT ![r] = "done"]
    /\ UNCHANGED <<listVars, notify, tmp, objectVars, cpc, saved>>

-----------------------------------------------------------------------------
CallbackStep(c) ==
    \/ RegisterLock(c) \/ PushFront(c) \/ PushUnlock(c)
    \/ RegisterRefused(c) \/ InlineReturn(c)
    \/ RemoveLock(c) \/ Unlink(c) \/ UnlinkUnlock(c)
    \/ Missed(c) \/ MissedUnlock(c) \/ AwaitCompleted(c)

RequestStep(r) ==
    \/ RequestLock(r) \/ RequestRefused(r) \/ SetNotify(r)
    \/ PopCallback(r) \/ PopUnlock(r) \/ Execute(r) \/ ExecuteReturn(r)
    \/ SetCompleted(r) \/ Relock(r) \/ RequestDone(r)

Next ==
    \/ \E c \in Callback : Construct(c) \/ Destroy(c) \/ DestroyDetached(c) \/ CallbackStep(c)
    \/ \E r \in Requester : Request(r) \/ RequestStep(r)

\* every thread inside the library keeps running; nobody has to call it
Fairness ==
    /\ \A c \in Callback : WF_vars(CallbackStep(c))
    /\ \A r \in Requester : WF_vars(RequestStep(r))

Spec == Init /\ [][Next]_vars
FairSpec == Spec /\ Fairness

-----------------------------------------------------------------------------
CallbackPc == {"absent", "register", "link", "linked", "inline", "live", "remove",
               "unlink", "unlinked", "missed", "await"}
RequestPc == {"idle", "request", "notify", "loop", "popped", "execute", "running",
              "executed", "relock", "done", "already"}
Address == Callback \union {NULL}

\* The fields of the source and of the callbacks hold what their C++ types and
\* the program points of __stop_inplace.hpp allow.
TypeOK ==
    /\ state \in {0, 1, 2, 3}
    /\ callback \in Address
    /\ notify \in BOOLEAN
    /\ next \in [Callback -> Address]
    /\ prev \in [Callback -> Address \union {HEAD}]
    /\ completed \in [Callback -> BOOLEAN]
    /\ attached \in [Callback -> BOOLEAN]
    /\ cpc \in [Callback -> CallbackPc]
    /\ saved \in [Callback -> {none_flag, stop_requested_flag}]
    /\ rpc \in [Requester -> RequestPc]
    /\ tmp \in [Requester -> Address]
    /\ lives \in [Callback -> Nat]
    /\ executed \in [Callback -> Nat]
    /\ pushes \in Nat
    /\ seq \in [Callback -> Nat]

\* program points between the acquisition of the lock and its release
HoldsC(c) == cpc[c] \in {"link", "linked", "unlink", "unlinked", "missed"}
HoldsR(r) == rpc[r] \in {"notify", "loop", "popped"}

\* The list and __notify_ are plain memory: no two threads are ever between
\* acquiring and releasing the lock bit, whichever of _M_lock and
\* _M_try_lock_unless_stop_requested they took it with.
MutualExclusion ==
    /\ \A c, d \in Callback : HoldsC(c) /\ HoldsC(d) => c = d
    /\ \A r, s \in Requester : HoldsR(r) /\ HoldsR(s) => r = s
    /\ \A c \in Callback, r \in Requester : ~(HoldsC(c) /\ HoldsR(r))

\* the object is on the list that __callback_ heads
OnList(c) == cpc[c] \in {"linked", "live", "remove", "unlink"} /\ attached[c] /\ prev[c] # NULL

\* request_stop has popped c and still needs the object
Claims(r, c) == rpc[r] \in {"popped", "execute", "running", "executed"} /\ tmp[r] = c

\* _M_remove_callback promises that once the destructor has returned nobody
\* touches the object: neither the list nor a running request_stop, which
\* executes it and writes __callback_completed_, still refers to it.
NoUseAfterDestroy ==
    \A c \in Callback : cpc[c] \in {"absent", "register"} =>
        /\ callback # c
        /\ \A d \in Callback : OnList(d) => next[d] # c /\ prev[d] # c
        /\ \A r \in Requester : ~Claims(r, c)

\* A callback is executed at most once in its life, by whichever of its
\* constructor and request_stop came second, and only after stop was requested.
ExecutedOnce ==
    \A c \in Callback : executed[c] <= 1 /\ (executed[c] = 1 => StopRequested)

\* No callback is missed: when the request_stop that won returns, every
\* callback whose constructor has returned has been executed, even those
\* that raced with the request.
NoneMissed ==
    (\E r \in Requester : rpc[r] = "done") =>
        \A c \in Callback : cpc[c] \in {"live", "remove", "unlink", "missed", "await"} =>
            executed[c] = 1

\* What ~__stop_source asserts: once every callback is destroyed and no
\* request_stop is inside, the list is empty and the lock is free.
Destructible ==
    (/\ \A c \in Callback : cpc[c] = "absent"
     /\ \A r \in Requester : rpc[r] \in {"idle", "already", "done"})
    => ~Locked /\ callback = NULL

\* The request is never withdrawn, although every _M_unlock overwrites the
\* whole byte with a value chosen earlier.
StopSticky == [][StopRequested => StopRequested']_vars

\* Whoever enters _M_request_stop returns (when no callback destroys itself).
RequestReturns ==
    \A r \in Requester : rpc[r] = "request" ~> rpc[r] \in {"done", "already"}

\* Whoever enters the destructor returns, also when it has to wait for the
\* callback's execution on another thread (when no callback destroys itself).
DestroyReturns ==
    \A c \in Callback : cpc[c] = "remove" ~> cpc[c] = "absent"

-----------------------------------------------------------------------------
(* The promise of StopPromise, and the invariant that carries the proofs.    *)

\* what a callback address stands for in StopPromise
Status(c) ==
    IF OnList(c) THEN "armed"
    ELSE IF cpc[c] = "inline" \/ \E r \in Requester : Claims(r, c) THEN "running"
    ELSE IF cpc[c] \in {"absent", "register", "link", "unlinked"} THEN "absent"
    ELSE "fired"

Promise == INSTANCE StopPromise WITH
               requested <- StopRequested, status <- [c \in Callback |-> Status(c)]

\* __stop_source implements StopPromise, deliveries included.
ImplementsPromise == Promise!FairSpec

\* request_stop past its try-lock
Won(r) == rpc[r] \in RequestPc \ {"idle", "request", "already"}

\* who may be inside with which flags
LockInv ==
    /\ MutualExclusion
    /\ \A c \in Callback : HoldsC(c) => Locked
    /\ \A r \in Requester : HoldsR(r) => Locked
    /\ Locked => (\E c \in Callback : HoldsC(c)) \/ (\E r \in Requester : HoldsR(r))
    /\ \A c \in Callback : cpc[c] \in {"link", "linked"} => ~StopRequested
    /\ \A c \in Callback : cpc[c] \in {"unlink", "unlinked", "missed"} =>
           state = saved[c] + locked_flag
    /\ \A r \in Requester : Won(r) => StopRequested
    /\ \A r, s \in Requester : Won(r) /\ Won(s) => r = s

\* the pointers of the callbacks on the list agree with each other, and lead
\* towards __callback_ from older to younger callbacks
ListInv ==
    /\ callback # NULL => OnList(callback) /\ prev[callback] = HEAD
    /\ \A c \in Callback : OnList(c) =>
           /\ prev[c] = HEAD => callback = c
           /\ prev[c] # HEAD => OnList(prev[c]) /\ next[prev[c]] = c /\ seq[c] < seq[prev[c]]
           /\ next[c] # NULL => OnList(next[c]) /\ prev[next[c]] = c
    /\ \A c \in Callback : seq[c] <= pushes

\* a callback off the list was executed, or a request_stop holds it
ClaimInv ==
    /\ \A r \in Requester : rpc[r] \in {"popped", "execute", "running", "executed"} =>
           tmp[r] # NULL
    /\ \A r \in Requester, c \in Callback : Claims(r, c) =>
           /\ cpc[c] \in {"live", "remove", "unlink", "missed", "await"}
           /\ attached[c] /\ prev[c] = NULL /\ ~completed[c]
           /\ executed[c] = IF rpc[r] \in {"popped", "execute"} THEN 0 ELSE 1
    /\ \A r \in Requester : Won(r) => rpc[r] = "notify" \/ notify
    /\ \A c \in Callback : cpc[c] \in {"linked", "live", "remove", "unlink"} /\ attached[c] =>
           \/ OnList(c)
           \/ \E r \in Requester : Claims(r, c)
           \/ completed[c]
    /\ \A c \in Callback : cpc[c] \in {"missed", "await"} =>
           attached[c] /\ ((\E r \in Requester : Claims(r, c)) \/ completed[c])
    /\ \A c \in Callback : OnList(c) => executed[c] = 0 /\ ~completed[c]
    /\ \A c \in Callback : cpc[c] = "unlinked" => prev[c] # NULL /\ executed[c] = 0
    /\ \A c \in Callback : cpc[c] \in {"register", "link"} =>
           attached[c] /\ executed[c] = 0 /\ ~completed[c]
    /\ \A c \in Callback : cpc[c] \in {"live", "inline"} /\ ~attached[c] =>
           executed[c] = 1
    /\ \A c \in Callback : cpc[c] \in {"linked", "remove", "unlink"} => attached[c]
    /\ \A c \in Callback : cpc[c] = "inline" => ~attached[c]
    /\ \A c \in Callback : cpc[c] # "absent" /\ completed[c] =>
           executed[c] = 1 /\ notify

\* once the winning request_stop has returned the list stays empty
DoneInv ==
    /\ (\E r \in Requester : rpc[r] = "done") => callback = NULL
    /\ \A c \in Callback : executed[c] <= 1 /\ (executed[c] = 1 => StopRequested)
    /\ notify => StopRequested

\* The inductive invariant of __stop_source: lock ownership, shape of the
\* list, and where every callback stands between registration and removal.
Inv == TypeOK /\ LockInv /\ ListInv /\ ClaimInv /\ DoneInv

\* A callback destroyed by its own function, while request_stop executes it,
\* waits for a __callback_completed_ that only its own thread could set: the
\* destructor never returns (nothing compares the notifying thread's id).
SelfDestroyHangs ==
    [][\A c \in SelfDestroy : cpc[c] = "await" => cpc'[c] = "await"]_vars
=============================================================================
