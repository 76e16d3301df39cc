--------------------------- MODULE MCTriggerRates ---------------------------
(* TLC instances of TriggerRates: two boards, half-second ticks, so that an *)
(* update may come before, at and after the second; the clock starts at 20  *)
(* ticks, far from 0 and from the windows that occur.                       *)
EXTENDS TriggerRates
=============================================================================
