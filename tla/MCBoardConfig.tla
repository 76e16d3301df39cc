--------------------------- MODULE MCBoardConfig ---------------------------
(* TLC instances of BoardConfig: the settings of create_board_defaults() and *)
(* one other value of each.  Levels, ranges, frequencies and delays are      *)
(* names; "off" stands for a sampling rate SetFrequency() rejects.           *)
EXTENDS BoardConfig

DefaultSettings ==
    [k \in Setting |->
        CASE k = "TriggerMode" -> "Auto"        [] k = "InputRange" -> "centred"
          [] k = "TriggerPolarity" -> "RISING"  [] k = "ReadoutMode" -> "FROM_STOP"
          [] k = "EnableCH" -> {0, 1, 2, 3}     [] k = "TriggerLogic" -> "OR"
          [] k = "Sampling Rate" -> "700 MHz"   [] k = "TriggerDelayNs" -> "0 ns"
          [] k = "TriggerLevel" -> "50 mV"      [] k \in {"TranspMode", "DominoActive"} -> TRUE
          [] OTHER -> FALSE]

OtherSettings ==
    [k \in Setting |->
        CASE k = "TriggerMode" -> "Normal"      [] k = "InputRange" -> "positive"
          [] k = "TriggerPolarity" -> "FALLING" [] k = "ReadoutMode" -> "FROM_FIRST_BIN"
          [] k = "EnableCH" -> {2}              [] k = "TriggerLogic" -> "AND"
          [] k = "Sampling Rate" -> "off"       [] k = "TriggerDelayNs" -> "100 ns"
          [] k = "TriggerLevel" -> "100 mV"     [] k \in {"TranspMode", "DominoActive"} -> FALSE
          [] OTHER -> TRUE]

Scenario(t, fw, settings, free, c, r) ==
    [type |-> t, newFw |-> fw, odb |-> settings, may |-> free, changes |-> c, runs |-> r]
Changed(c) == [k \in Setting |-> IF k \in c THEN OtherSettings[k] ELSE DefaultSettings[k]]

(* All board types; the defaults with up to two settings changed.           *)
Values ==
    {Scenario(t, fw, Changed(c), {}, 0, 0) : t \in {5, 7, 8, 9}, fw \in BOOLEAN,
        c \in UNION {{{j, k} : k \in Setting} : j \in Setting} \cup {{}}}

(* Two threads, a run, and settings changed while the program runs.         *)
Threads == {Scenario(9, TRUE, DefaultSettings, {"TriggerLevel", "EnableTcal"}, 1, 1)}
ValuesAndThreads == Values \cup Threads

(* The same, with one setting that no run and no configuration follows.     *)
DominoOnly == {Scenario(9, TRUE, Changed({"DominoActive"}), {"DominoActive"}, 1, 0)}
=============================================================================
