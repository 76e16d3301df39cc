---------------------------- MODULE EventStream -----------------------------
(***************************************************************************)
(* What the readout pipeline promises between readout_loop, which produces *)
(* events, and fill_midas_banks, which turns them into MIDAS banks: a      *)
(* bounded first-in first-out stream of complete events.  An event that    *)
(* finds the buffer full may be lost before it enters the stream, never    *)
(* afterwards.                                                             *)
(***************************************************************************)
EXTENDS Naturals, Sequences

CONSTANTS
    Event,       \* complete events: one board's data of one trigger
    Capacity     \* how many events the buffer holds

VARIABLES
    queue,       \* events recorded and not yet delivered
    delivered    \* events delivered to MIDAS, oldest first

Init == queue = <<>> /\ delivered = <<>>

Record ==
    /\ Len(queue) < Capacity
    /\ \E e \in Event : queue' = Append(queue, e)
    /\ UNCHANGED delivered

Deliver ==
    /\ queue # <<>>
    /\ delivered' = Append(delivered, Head(queue))
    /\ queue' = Tail(queue)

Next == Record \/ Deliver

Spec == Init /\ [][Next]_<<queue, delivered>>
=============================================================================
