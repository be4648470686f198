-------------------------------- MODULE Server --------------------------------
(***************************************************************************)
(* The server of source/main.cxx: a multishot accept that spawns a         *)
(* receiver per connection, and the receiver of the first connection: a    *)
(* multishot recv into a ring of slots that the kernel fills piece by      *)
(* piece, a coroutine that reads each piece and hands exhausted slots back. *)
(*                                                                         *)
(* The scheduler's thread runs between two kernel entries; the kernel may   *)
(* post completions at any moment.  The peer and the kernel are modelled    *)
(* from what the code asks of them (IORING_OP_RECV with buffer selection,   *)
(* IOU_PBUF_RING_INC, IORING_OP_ACCEPT, both multishot).                    *)
(***************************************************************************)
EXTENDS Integers, Sequences, FiniteSetsExt

CONSTANTS NrBufs, BufSize,  \* __nr_bufs_, and __buf_size_ in units
          Groups,           \* number of buffer groups: 2^16, the range of __bgid_
          Sent,             \* units the peer sends on the first connection
          Clients           \* most connections offered

Bid == 0..(NrBufs - 1)
NoBid == NrBufs
Op == {"accept", "recv"}
ENOBUFS == 105
ECONNRESET == 104
ENFILE == 23

ASSUME ServerAssumption ==
    /\ {NrBufs, BufSize, Groups} \subseteq Nat \ {0}
    /\ {Sent, Clients} \subseteq Nat

VARIABLES
    closed, broken,        \* the peer closes after its last unit; the connection was reset
    taken,                 \* kernel: units moved into the slots
    ring, kpos, mem,       \* kernel: slots on offer, write position in the first, contents
    offered,               \* kernel: connections waiting to be accepted
    armed,                 \* kernel: requests it holds
    cq,                    \* completion queue
    pending,               \* __io_pending_
    conns,                 \* connections accepted: the next __bgid_
    live, cur, view, replenish,  \* __multishot_live_, __cur_offset_,
                           \* (__bid_, __offset_, __len_), __replenish_bid_ if pending
    running,               \* the receiver's coroutine runs
    got,                   \* units it has read
    crashed                \* an error code was thrown out of a noexcept function

peerVars == <<closed, broken>>
bufVars == <<taken, ring, kpos, mem>>
opVars == <<live, cur, view, replenish>>
vars == <<peerVars, bufVars, offered, armed, cq, pending, conns, opVars, running, got, crashed>>

NoView == [bid |-> NoBid, offset |-> 0, len |-> 0]

\* main: the accept is submitted, then the scheduler runs
Init ==
    /\ closed \in BOOLEAN /\ broken = FALSE
    /\ taken = 0 /\ ring = <<>> /\ kpos = 0
    /\ mem = [b \in Bid |-> [i \in 0..(BufSize - 1) |-> 0]]
    /\ offered \in 0..Clients /\ armed = {} /\ cq = <<>> /\ pending = {"accept"} /\ conns = 0
    /\ live = FALSE /\ cur = 0 /\ view = NoView /\ replenish = NoBid
    /\ running = FALSE /\ got = <<>> /\ crashed = FALSE

-----------------------------------------------------------------------------
(* The peer of the first connection.                                         *)

Break ==
    /\ conns > 0 /\ ~broken /\ ~crashed
    /\ broken' = TRUE
    /\ UNCHANGED <<closed, bufVars, offered, armed, cq, pending, conns, opVars, running,
                   got, crashed>>

-----------------------------------------------------------------------------
(* The kernel.  A completion without more ends the request; the kernel may    *)
(* end a multishot request with any completion.                              *)

Entry(op, res, bid, bufMore, more) ==
    [op |-> op, res |-> res, bid |-> bid, bufMore |-> bufMore, more |-> more]

Post(e) ==
    /\ ~crashed
    /\ cq' = Append(cq, e)
    /\ armed' = IF e.more THEN armed ELSE armed \ {e.op}
    /\ UNCHANGED <<peerVars, pending, conns, opVars, running, got, crashed>>

\* part of what the peer sends goes where the last part ended in the first slot,
\* which is used up when it is full
PostData(len, more) ==
    /\ "recv" \in armed /\ ring # <<>> /\ ~broken
    /\ len \in 1..Min({Sent - taken, BufSize - kpos})
    /\ mem' = [mem EXCEPT ![Head(ring)] =
                  [i \in DOMAIN @ |-> IF i \in kpos..(kpos + len - 1)
                                      THEN taken + 1 + i - kpos ELSE @[i]]]
    /\ taken' = taken + len
    /\ LET left == kpos + len < BufSize
       IN /\ kpos' = IF left THEN kpos + len ELSE 0
          /\ ring' = IF left THEN ring ELSE Tail(ring)
          /\ Post(Entry("recv", len, Head(ring), left, more))
    /\ UNCHANGED offered

PostNoBufs ==
    /\ "recv" \in armed /\ ring = <<>>
    /\ Post(Entry("recv", -ENOBUFS, NoBid, FALSE, FALSE))
    /\ UNCHANGED <<bufVars, offered>>

\* end of the stream, or an error
PostEnd ==
    /\ "recv" \in armed
    /\ broken \/ (closed /\ taken = Sent)
    /\ Post(Entry("recv", IF broken THEN -ECONNRESET ELSE 0, NoBid, FALSE, FALSE))
    /\ UNCHANGED <<bufVars, offered>>

PostAccept(more) ==
    /\ "accept" \in armed /\ offered > 0
    /\ offered' = offered - 1
    /\ Post(Entry("accept", conns, NoBid, FALSE, more))
    /\ UNCHANGED bufVars

PostAcceptError ==
    /\ "accept" \in armed
    /\ Post(Entry("accept", -ENFILE, NoBid, FALSE, FALSE))
    /\ UNCHANGED <<bufVars, offered>>

-----------------------------------------------------------------------------
(* The scheduler's thread.                                                   *)

Reaping(op) == ~running /\ ~crashed /\ cq # <<>> /\ Head(cq).op = op

\* __throw_error_code_if in a noexcept function
Terminate ==
    /\ crashed' = TRUE
    /\ UNCHANGED <<ring, pending, conns>>

AcceptAgain(e) == ~e.more

\* __bgid_ has come round to a group of an earlier connection, and none is ever given back
GroupTaken == conns >= Groups

\* _M_setup_ring: every slot is on offer
FullRing == [i \in 1..NrBufs |-> i - 1]

\* __async_accept::__complete: the new coroutine constructs its __async_receive
\* with the next group, which must be free, and a full ring, awaits it and is
\* submitted by the registered callback; the accept follows if it has ended.
\* Only the first receiver is followed.
CompleteAccept ==
    /\ Reaping("accept")
    /\ cq' = Tail(cq)
    /\ IF Head(cq).res < 0 \/ GroupTaken THEN Terminate
       ELSE /\ conns' = conns + 1
            /\ ring' = IF conns = 0 THEN FullRing ELSE ring
            /\ pending' = pending \union (IF conns = 0 THEN {"recv"} ELSE {})
                                  \union (IF AcceptAgain(Head(cq)) THEN {"accept"} ELSE {})
            /\ UNCHANGED crashed
    /\ UNCHANGED <<peerVars, taken, kpos, mem, offered, armed, opVars, running, got>>

\* fault: a receiver whose slots ran out is not submitted again
Dropped == {}

Resubmitted == {"recv"}

\* __async_receive::__complete, -ENOBUFS
CompleteNoBufs ==
    /\ Reaping("recv") /\ Head(cq).res = -ENOBUFS
    /\ cq' = Tail(cq)
    /\ live' = FALSE /\ cur' = 0
    /\ pending' = pending \union Resubmitted
    /\ UNCHANGED <<peerVars, bufVars, offered, armed, conns, view, replenish, running, got, crashed>>

\* and end of stream or error: nobody is resumed
CompleteEnd ==
    /\ Reaping("recv") /\ Head(cq).res <= 0 /\ Head(cq).res # -ENOBUFS
    /\ cq' = Tail(cq)
    /\ UNCHANGED <<peerVars, bufVars, offered, armed, pending, conns, opVars, running, got, crashed>>

\* fault: the next piece is looked for where this one began
Standing(at, e) == at

NextOffset(at, e) == IF e.bufMore THEN at + e.res ELSE 0

\* and data: where it is, which slot is used up, and the coroutine is resumed
CompleteData ==
    /\ Reaping("recv") /\ Head(cq).res > 0
    /\ cq' = Tail(cq)
    /\ LET e == Head(cq)
       IN /\ live' = (live /\ e.more)
          /\ view' = [bid |-> e.bid, offset |-> cur, len |-> e.res]
          /\ cur' = NextOffset(cur, e)
          /\ replenish' = IF e.bufMore THEN replenish ELSE e.bid
    /\ running' = TRUE
    /\ UNCHANGED <<peerVars, bufVars, offered, armed, pending, conns, got, crashed>>

\* fault: the slot is not handed back
Withheld(r, b) == r

_M_replenish(r, b) == IF b = NoBid THEN r ELSE Append(r, b)

\* fault: the receiver is submitted after every piece
EveryTime(l) == TRUE

MustSubmit(l) == ~l

\* __receive_coro has printed the piece and awaits the next: await_suspend hands
\* the slot back and has the receiver submitted when its request has ended
Read ==
    /\ running
    /\ got' = got \o [i \in 1..view.len |-> mem[view.bid][view.offset + i - 1]]
    /\ ring' = _M_replenish(ring, replenish)
    /\ replenish' = NoBid /\ view' = NoView
    /\ pending' = pending \union (IF MustSubmit(live) THEN {"recv"} ELSE {})
    /\ running' = FALSE
    /\ UNCHANGED <<peerVars, taken, kpos, mem, offered, armed, cq, conns, live, cur, crashed>>

\* the loop has reaped everything: it fills the submission ring (__submit of
\* each task) and enters the kernel
Submit ==
    /\ ~running /\ ~crashed /\ cq = <<>> /\ pending # {}
    /\ armed' = armed \union pending
    /\ live' = (live \/ "recv" \in pending)
    /\ pending' = {}
    /\ UNCHANGED <<peerVars, bufVars, offered, cq, conns, cur, view, replenish, running, got, crashed>>

-----------------------------------------------------------------------------
LoopStep == CompleteAccept \/ CompleteNoBufs \/ CompleteEnd \/ CompleteData \/ Read \/ Submit
KernelData == \E len \in 1..BufSize, more \in BOOLEAN : PostData(len, more)
KernelAccept == \E more \in BOOLEAN : PostAccept(more)

Next ==
    \/ Break
    \/ KernelData \/ PostNoBufs \/ PostEnd \/ KernelAccept \/ PostAcceptError
    \/ LoopStep

\* the loop runs, and the kernel moves what has arrived when it can
Fairness == WF_vars(LoopStep) /\ WF_vars(KernelData) /\ WF_vars(KernelAccept)

Spec == Init /\ [][Next]_vars
FairSpec == Spec /\ Fairness

-----------------------------------------------------------------------------
(* Properties.                                                               *)

\* The receiver reads what the peer sent, every unit once and in order: the
\* offset __complete keeps is the kernel's through full slots, ended requests
\* and -ENOBUFS, and no slot is written again before its pieces were read.
StreamIntact == \A i \in DOMAIN got : got[i] = i

\* completions that use a slot up and still wait in the completion queue
UsedUp(b) == {i \in DOMAIN cq : cq[i].bid = b /\ ~cq[i].bufMore}

\* No slot is lost and none is handed back twice: each is on offer to the
\* kernel, or used up by one completion to come, or to be handed back by the
\* coroutine that runs.
SlotsConserved ==
    conns > 0 => \A b \in Bid :
        Cardinality({i \in DOMAIN ring : ring[i] = b}) + Cardinality(UsedUp(b))
            + (IF replenish = b THEN 1 ELSE 0) = 1

Final(op) == Cardinality({i \in DOMAIN cq : cq[i].op = op /\ ~cq[i].more})

\* A receiver is at most in one place: waiting to be submitted, held by the
\* kernel, ending with a completion to come, or about to be submitted by the
\* coroutine that runs; __multishot_live_ tells which.
OneRequest ==
    /\ (IF "recv" \in pending THEN 1 ELSE 0) + (IF "recv" \in armed THEN 1 ELSE 0) + Final("recv")
           + (IF running /\ ~live THEN 1 ELSE 0) <= 1
    /\ "recv" \in armed => live
    /\ "recv" \in pending => ~live

\* What the peer sends is read and every connection offered is accepted, unless
\* the connection breaks or the process ends: neither the receiver nor the
\* accept stays behind when its multishot request ends or its slots run out.
Served ==
    /\ conns > 0 ~> Len(got) = Sent \/ broken \/ crashed
    /\ offered > 0 ~> offered = 0 \/ crashed
=============================================================================
