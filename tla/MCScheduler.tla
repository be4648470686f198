----------------------------- MODULE MCScheduler -----------------------------
(* Model-checking instances of Scheduler. *)
EXTENDS Scheduler, TLC

CONSTANTS a, b, m, x, d, e, t1, t2

None == {}
A == {a}
ABM == {a, b, m}
M == {m}
X == {x}
D == {d}
E == {e}

NoneYet == <<>>
ThenAB == <<a, b>>
ThenM == <<m>>

\* the targets of the commands an instance has
NoTarget == <<>>
XtoAEtoD == [c \in {x, e} |-> IF c = x THEN a ELSE d]

NoThread == <<>>
OneThread == <<t1>>
TwoThreads == <<t1, t2>>
=============================================================================
