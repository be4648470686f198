----------------------------- MODULE StopPromise -----------------------------
(***************************************************************************)
(* What __stop_source promises its users, without lock, list or flags:     *)
(* a callback is armed, or runs at once when stop was requested before;    *)
(* an armed callback is either withdrawn by its destructor or runs, once,  *)
(* after the request; a running callback is not destroyed until it is over.*)
(***************************************************************************)
CONSTANT Callback

VARIABLES requested,  \* stop was requested
          status      \* of every callback address

vars == <<requested, status>>

Init ==
    /\ requested = FALSE
    /\ status = [c \in Callback |-> "absent"]

RequestStop == ~requested /\ requested' = TRUE /\ UNCHANGED status

Move(c, from, to) ==
    /\ status[c] = from
    /\ status' = [status EXCEPT ![c] = to]
    /\ UNCHANGED requested

Arm(c) == ~requested /\ Move(c, "absent", "armed")
RunAtOnce(c) == requested /\ Move(c, "absent", "running")
Fire(c) == requested /\ Move(c, "armed", "running")
Finish(c) == Move(c, "running", "fired")
Withdraw(c) == Move(c, "armed", "absent")
Release(c) == Move(c, "fired", "absent")

Next ==
    \/ RequestStop
    \/ \E c \in Callback : \/ Arm(c) \/ RunAtOnce(c) \/ Fire(c)
                           \/ Finish(c) \/ Withdraw(c) \/ Release(c)

Spec == Init /\ [][Next]_vars

\* a requested stop is delivered, and callbacks are finite
FairSpec == Spec /\ \A c \in Callback : WF_vars(Fire(c)) /\ WF_vars(Finish(c))
=============================================================================
