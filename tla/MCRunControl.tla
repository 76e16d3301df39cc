---------------------------- MODULE MCRunControl ----------------------------
(* TLC instances of RunControl: two board slots and two thread identities   *)
(* (one more than the code ever needs, so that a leaked thread would show). *)
EXTENDS RunControl

AllCommands == {"start", "stop", "abort", "refresh", "exit"}

VARIABLE disturbed   \* history: since the last begin_of_run() the boards were
                     \*   scanned again, or reading the ODB threw in a worker

MCInit == Init /\ disturbed = FALSE

MCNext ==
    /\ Next
    /\ disturbed' = /\ mpc # "b_spawn"
                    /\ \/ disturbed
                       \/ mpc = "idle" /\ mpc' = "r_drop"
                       \/ \E t \in Threads : SweepThrow(t)

MCSpec == MCInit /\ [][MCNext]_<<vars, disturbed>> /\ Fairness

(* Unless the boards are scanned again, the worker is never inside a method *)
(* of a deleted DRSBoard and never calls one through a null pointer, in any *)
(* order of starts, stops, aborts and exit, and after a start that follows  *)
(* a rescan: what the joins in begin_of_run, end_of_run and the destructor  *)
(* are for.                                                                 *)
NoUseAfterFreeUndisturbed == ~disturbed => NoUseAfterFree

(* Unless a rescan or an exception comes between, a run that was started    *)
(* with a board keeps its readout thread: "Readout loop runs at full domino *)
(* rate while m_run_active".                                                *)
ReadoutUndisturbed == ~disturbed => ReadoutWhileRunning
=============================================================================
