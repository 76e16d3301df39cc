----------------------------- MODULE MCWaveform -----------------------------
(* Six cells, two channels of the front end.                                *)
EXTENDS Waveform

TheCells == 0 .. 5

(* Up and down beyond the limits of a sample, different in every channel.   *)
TheSignal  == [k \in 0 .. 8 |-> [c \in TheCells |-> 2 * (((7 * c + 11 * k) % 15) - 7)]]
TheOffset  == [k \in 0 .. 8 |-> [c \in TheCells |-> 40 + c + (2 * k)]]
TheGain    == [k \in 0 .. 8 |-> [c \in TheCells |-> 1 + ((c + (k \div 2)) % 2)]]
ThePattern == [k \in 0 .. 8 |-> [j \in TheCells |-> <<2, 0, -1, 4, 1, 0>>[((j + k) % 6) + 1]]]
TheLow     == -12
TheScalers == <<31, 32>>
TheLut     == [S3_8 |-> 12, S3_4 |-> 4, V2_8 |-> 9, V2_4 |-> 5]

Even(w) == [c \in TheCells |-> w]
(* Widths of a chip: rounded up and down, rounded up everywhere, with one   *)
(* that is negative, and the first again with 1 missing.                    *)
WidthTables ==
    {[r \in {0, 2} |-> t[r \div 2 + 1]] :
        t \in {<< <<21, 19, 23, 17, 22, 19>>, <<22, 17, 23, 18, 21, 19>> >>,
               << <<20, 20, 20, 20, 20, 20>>, <<18, 22, 18, 22, 18, 22>> >>,
               << <<22, 18, 22, 22, 18, 22>>, <<22, 22, 22, 18, 18, 18>> >>,
               << <<30, -3, 30, 13, 25, 25>>, <<41, -6, 25, 20, 21, 22>> >>}}
TheWidths == {[r \in {0, 2} |-> [c \in TheCells |-> t[r][c + 1]]] : t \in WidthTables}

Capture(types, firmwares, modes, timings, volts, widths, stops, stuck, asked, delays, formats) ==
    {c \in [type : types, newFw : firmwares, mode : modes, timing : timings, volt : volts,
            widths : widths, stop : stops, wsr : {1}, stuck : stuck, asked : asked,
            delay : delays, format : formats] :
        c.type # 9 => \A r \in {0, 2} : \A k \in TheCells : c.widths[r][k] >= 0}

One == {CHOOSE w \in TheWidths : w[0] = Even(20)}
Both == {"stop", "first"}

(* Every stop cell with every table, with each stuck cell, and in both      *)
(* readout modes; every delay with every board and with rates that the      *)
(* reference clock rounds up, down and not at all.                          *)
TheCaptures ==
    Capture({8, 9}, {TRUE}, {"stop"}, {"none", "other", "valid"}, {TRUE}, TheWidths, TheCells,
            {{}}, {120}, {10}, {"current"})
    \cup Capture({5, 9}, BOOLEAN, {"stop"}, {"valid"}, BOOLEAN, One, TheCells,
                 {{}, {0}, {3}, {1, 2}, {0, 3}, {5, 0}}, {120}, {0}, {"current"})
    \cup Capture({7, 9}, BOOLEAN, Both, {"none", "valid"}, {TRUE}, One, TheCells,
                 {{}, {2}}, {120}, {0}, {"current"})
    \cup Capture({5, 8, 9}, BOOLEAN, {"stop"}, {"none", "valid"}, {TRUE}, TheWidths, {2}, {{}},
                 {109, 120, 131}, {-1, 0, 1, 7, 12, 23, 31, 60, 90}, {"current"})
    \cup Capture({9}, {TRUE}, {"stop"}, {"valid"}, {TRUE}, One, {4}, {{}}, {120}, {25},
                 {"current", "previous", "legacy"})
=============================================================================
