--------------------------- MODULE MCCalibration ---------------------------
(* TLC instance of Calibration: a blank board and calibrated ones of both   *)
(* ways to store the tables, in the three situations of the preview.        *)
EXTENDS Calibration

AllBoards ==
    {[type |-> 9, mode |-> "Auto", master |-> TRUE, demand |-> 20, blank |-> FALSE,
      plan |-> <<"timing", "volt">>],
     [type |-> 8, mode |-> "Normal", master |-> TRUE, demand |-> 7, blank |-> FALSE,
      plan |-> <<"timing">>],
     [type |-> 5, mode |-> "Normal", master |-> FALSE, demand |-> 70, blank |-> TRUE,
      plan |-> <<"volt">>]}
=============================================================================
