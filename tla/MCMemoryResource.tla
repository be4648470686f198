--------------------------- MODULE MCMemoryResource ---------------------------
(* Model-checking instances of MemoryResource. *)
EXTENDS MemoryResource, TLC

CONSTANTS t1, t2

One == {t1}
Two == {t1, t2}
None == {}

\* the subranges without their names, with how many there are of each
Nameless ==
    LET Plain(s) == <<s.block, s.offset, s.len, s.cut>>
    IN [p \in {Plain(s) : s \in spans} |-> Cardinality({s \in spans : Plain(s) = p})]

\* The state without what no action and no property reads: the names of
\* subranges, and the slot a thread has left.
Unnamed ==
    <<remoteVars, use, Nameless, localVars, pc, then, need, hand,
      [t \in Thread |-> IF pc[t] \in {"take", "reset", "pushLoad", "pushCount", "pushLink",
                                      "fill", "splice"}
                        THEN slot[t] ELSE 0], n, fault>>
=============================================================================
