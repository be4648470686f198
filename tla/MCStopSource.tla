---------------------------- MODULE MCStopSource ----------------------------
(* Model-checking instance of StopSource. *)
EXTENDS StopSource, TLC

CONSTANTS c1, c2, c3, r1, r2

NoCallback == {}
Two == {c1, c2}
Three == {c1, c2, c3}
Requesters == {r1, r2}
JustC1 == {c1}
=============================================================================
