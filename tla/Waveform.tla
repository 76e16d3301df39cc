------------------------------ MODULE Waveform ------------------------------
(***************************************************************************)
(* From the cells of a DRS4 chip to an event: what the calibrations        *)
(* compute from the samples of the chip, the cell widths through the       *)
(* EEPROM, the trigger delay, TransferWaves(), GetWave() and GetTime(),    *)
(* the chronological order and the T marker of the front end, the bank and *)
(* its decoder.  A behaviour is one capture of one board.                  *)
(*                                                                         *)
(* Voltages are in ADC counts, so the conversion to 0.1 mV is left out.    *)
(* Times are in units far below that of the EEPROM, which is 2 * Half; a   *)
(* nanosecond is Ns.  Channel 8, which the front end does not read, is in  *)
(* the RAM only.  The write shift register, which only the double-length   *)
(* mode of the library needs, is read and not used: the front end reads    *)
(* single channels.                                                        *)
(***************************************************************************)
EXTENDS Integers, Sequences

CONSTANTS
    N,                        \* cells of a channel (1024)
    NCH,                      \* channels of the front end (4)
    Captures,                 \* boards and captures to consider
    Signal,                   \* the voltage in a cell: [0 .. 8 -> [0 .. N - 1 -> Int]]
    Offset, Gain, Pattern,    \* the chip: counts of a cell at 0 V and, in addition, at Level;
                              \*   what the readout adds to its k-th sample
    Level,                    \* voltage of the gain measurement
    Dead,                     \* a cell with an offset below is stuck (100)
    Zero, Low, High, Rail,    \* ADC count of 0 V; limits of a sample; the ADC's own limit
    Half, Shift, Word,        \* half an EEPROM unit; 1000 and 65536 in the code
    ClockCell,                \* a period of the reference clock, for each of the N cells
    Reference,                \* cell 700
    Ns, Lut, MaxTicks, MaxDelay,  \* LUT_DELAY_...; 255; 255 * 6 ns
    Scalers                   \* hardware counters of the channels

Unit == 2 * Half
Cell == 0 .. N - 1
Channel == 0 .. NCH - 1
Row == {2 * c : c \in Channel}
DataChannel == 0 .. 7

ASSUME SizeAssumption ==
    /\ N \in Nat \ {0} /\ NCH \in Nat \ {0} /\ Reference \in Cell
    /\ Scalers \in Seq(Int) /\ Len(Scalers) = NCH
ASSUME RoundingAssumption ==
    Half \in Nat \ {0} /\ Shift \in Nat /\ Word \in Nat /\ Shift < Word
ASSUME TriggerAssumption ==
    /\ ClockCell \in Nat \ {0} /\ Ns \in Nat \ {0} /\ MaxTicks \in Nat /\ MaxDelay \in Nat
    /\ Lut \in [{"S3_8", "S3_4", "V2_8", "V2_4"} -> Nat \ {0}]

-----------------------------------------------------------------------------
Abs(x) == IF x < 0 THEN -x ELSE x
Clamp(x, low, high) == IF x < low THEN low ELSE IF x > high THEN high ELSE x
(* (int)(a / b + 0.5) where a and b are not negative.                       *)
RoundDiv(a, b) == (2 * a + b) \div (2 * b)
(* Division of C, towards 0.                                                *)
Quotient(a, b) == IF a < 0 THEN -((-a) \div b) ELSE a \div b

(* The sum of f[first], ..., f[first + n - 1], around the ring of cells.    *)
Around(f, first, n) ==
    LET s[k \in 0 .. n] == IF k = 0 THEN 0 ELSE s[k - 1] + f[(first + k - 1) % N]
    IN  s[n]

(* The widths of a type 9 board may be negative where they are as small as  *)
(* the format allows; those of the others may not.  A calibration that      *)
(* passed found a period of more than half a unit of the EEPROM per cell.   *)
(* The rate is one that SetFrequency() accepts (0.1 to 6 GHz), of many      *)
(* ticks of the reference clock; asked is its period, 1024 / freq.          *)
ASSUME CaptureAssumption ==
    \A c \in Captures :
        /\ c.type \in {5, 7, 8, 9} /\ c.newFw \in BOOLEAN /\ c.mode \in {"stop", "first"}
        /\ c.asked \in Nat /\ 2 * c.asked >= N * ClockCell
        /\ c.timing \in {"none", "other", "valid"} /\ c.volt \in BOOLEAN
        /\ c.stop \in Cell /\ c.delay \in Int /\ c.format \in {"current", "previous", "legacy"}
        /\ c.widths \in [Row -> [Cell -> Int]]
        /\ \A r \in Row : \A k \in Cell :
              /\ c.widths[r][k] >= (IF c.type = 9 THEN -Shift * Unit ELSE 0)
              /\ c.widths[r][k] <= (Word - Shift - 1) * Unit
        /\ c.timing = "valid" => Around(c.widths[0], 0, N) > N * Half

VARIABLES
    cap,                       \* the board and its capture
    pc,
    volt,                      \* fCellOffset[], fCellGain[], fCellOffset2[]
    page, row, cell, tTrue, tRounded,  \* timing page; locals of CalibrateTiming()
    cellDT,                    \* fCellDT[0][]
    ticks,                     \* REG_TRG_DELAY
    ram, status,               \* RAM of the board; its status registers
    buffer, stopCell, stopWSR, \* fWaveforms, fStopCell[0], fStopWSR[0]
    wave, time,                \* the arrays of the capture
    marker, bank, decoded      \* trig_tc; the bank; what the decoder returns

storeVars == <<page, row, cell, tTrue, tRounded>>
chipVars == <<ram, status>>
transferVars == <<buffer, stopCell, stopWSR>>
eventVars == <<wave, time, marker, bank, decoded>>
vars == <<cap, pc, volt, storeVars, cellDT, ticks, chipVars, transferVars, eventVars>>

-----------------------------------------------------------------------------
Trailer == cap.newFw /\ cap.type # 5
Calibrated == cap.timing = "valid"         \* IsTimingCalibrationValid()

(* The width of a cell at the nominal frequency, which SetFrequency() takes *)
(* back from the whole ticks of the reference clock.                        *)
Width == RoundDiv(cap.asked, N * ClockCell) * ClockCell
(* 1024 / GetTrueFrequency().                                               *)
Total == IF Calibrated THEN Around(cellDT[0], 0, N) ELSE N * Width
UserDelay == IF cap.delay < 0 THEN 0 ELSE cap.delay

-----------------------------------------------------------------------------
(* The samples of the chip, in RAM: the cells are digitised from a cell     *)
(* on.  A stuck cell always reads 0.                                        *)
Samples(voltage, from) ==
    [a \in 0 .. 9 * N - 1 |->
        LET channel == a \div N
            j == a % N
            c == (from + j) % N
        IN  IF c \in cap.stuck THEN 0
            ELSE Clamp(Quotient(voltage[channel][c] * Gain[channel][c], Level)
                         + Offset[channel][c] + Pattern[channel][j], 0, Rail)]

Constant(level) == [k \in 0 .. 8 |-> [c \in Cell |-> level]]

DecodeWave(words, channel) == [j \in Cell |-> words[channel * N + j]]

(* With adjustToClock in the order of the cells, without in that of the     *)
(* readout.                                                                 *)
GetRawWave(words, channel, tc, adjustToClock) ==
    LET wf == DecodeWave(words, channel)
    IN  IF adjustToClock THEN [c \in Cell |-> wf[(c + N - tc) % N]] ELSE wf

(* The calibration averages over many sweeps, which stop at every cell and  *)
(* are read from there on (SetReadoutMode(1)).                              *)
Mean(f) == RoundDiv(Around(f, 0, N), N)
Averaged(sweep(_)) == [k \in Cell |-> Mean([tc \in Cell |-> sweep(tc)[k]])]

(* Mutated form: the samples are rotated again when the offset is removed.  *)
ResidualRotated(channel, offset, tc) ==
    LET wf == GetRawWave(Samples(Constant(0), tc), channel, tc, TRUE)
    IN  [k \in Cell |-> wf[k] - offset[k]]

(* Without rotation ReadSingleWaveform() takes off the offset of the cell.  *)
Residual(channel, offset, tc) ==
    LET wf == GetRawWave(Samples(Constant(0), tc), channel, tc, FALSE)
    IN  [k \in Cell |-> wf[k] - offset[(k + tc) % N]]

(* Offset and gain of the cells, which are marked when stuck.  A gain out   *)
(* of 0.5 ... 1.1 is taken to be 1.                                         *)
Primary(channel) ==
    LET measured(level) ==
          LET sweep(tc) == GetRawWave(Samples(Constant(level), tc), channel, tc, TRUE)
          IN  Averaged(sweep)
        offset == [c \in Cell |-> IF measured(0)[c] < Dead THEN 0 ELSE measured(0)[c]]
        gain(c) == measured(Level)[c] - offset[c]
    IN  [offset |-> offset,
         gain |-> [c \in Cell |-> IF \/ offset[c] = 0
                                     \/ 2 * gain(c) < Level \/ 10 * gain(c) > 11 * Level
                                  THEN Level ELSE gain(c)]]

(* What the readout adds, without the common mode.                          *)
Secondary(channel, offset) ==
    LET sweep(tc) == LET r == Residual(channel, offset, tc)
                        commonMode == Quotient(Around(r, 0, N), N)
                    IN  [k \in Cell |-> r[k] - commonMode + Zero]
    IN  Averaged(sweep)

MeasurePrimary ==
    /\ pc = "volt"
    /\ LET primary == [k \in DataChannel |-> Primary(k)]
       IN  volt' = [offset |-> [k \in DataChannel |-> primary[k].offset],
                    gain |-> [k \in DataChannel |-> primary[k].gain],
                    offset2 |-> [k \in DataChannel |-> [j \in Cell |-> Zero]]]
    /\ pc' = "second"
    /\ UNCHANGED <<cap, storeVars, cellDT, ticks, chipVars, transferVars, eventVars>>

MeasureSecondary ==
    /\ pc = "second"
    /\ volt' = [volt EXCEPT !.offset2 =
                   [k \in DataChannel |-> Secondary(k, volt.offset[k])]]
    /\ pc' = IF cap.timing = "none" THEN "load" ELSE "store"
    /\ UNCHANGED <<cap, storeVars, cellDT, ticks, chipVars, transferVars, eventVars>>

-----------------------------------------------------------------------------
(* The timing calibration stores the widths of the cells.                   *)

(* Mutated form: each width is rounded by itself.                           *)
RemainingAlone(w) == w

(* dT: the width, and what the words before it were rounded by.             *)
Remaining(w) == tTrue + w - tRounded

(* (unsigned short)(dT*10000+1000+0.5)                                      *)
Rounded(x) == ((x + Shift * Unit + Half) \div Unit) % Word

StoreCell ==
    /\ pc = "store" /\ cap.type = 9
    /\ LET w == cap.widths[row][cell]
           word == Rounded(Remaining(w))
       IN  /\ page' = [page EXCEPT ![row][cell] = word]
           /\ tTrue' = tTrue + w
           /\ tRounded' = tRounded + (word - Shift) * Unit
    /\ IF cell < N - 1
       THEN cell' = cell + 1 /\ UNCHANGED <<row, pc>>
       ELSE cell' = cell /\ row' = row /\ pc' = "row"
    /\ UNCHANGED <<cap, volt, cellDT, ticks, chipVars, transferVars, eventVars>>

StoreRow ==
    /\ pc = "row"
    /\ IF row + 2 \in Row
       THEN row' = row + 2 /\ cell' = 0 /\ tTrue' = 0 /\ tRounded' = 0 /\ pc' = "store"
       ELSE UNCHANGED <<row, cell, tTrue, tRounded>> /\ pc' = "load"
    /\ UNCHANGED <<cap, volt, page, cellDT, ticks, chipVars, transferVars, eventVars>>

(* Types 5, 7 and 8 have one row for all channels.                          *)
StoreOneRow ==
    /\ pc = "store" /\ cap.type # 9
    /\ page' = [page EXCEPT ![0] =
                  [k \in Cell |-> ((cap.widths[0][k] + Half) \div Unit) % Word]]
    /\ pc' = "load"
    /\ UNCHANGED <<cap, volt, row, cell, tTrue, tRounded, cellDT, ticks, chipVars, transferVars,
                   eventVars>>

(* Mutated form: the offset of the stored widths is not taken off.          *)
LoadedUnshifted ==
    [r \in Row |-> [k \in Cell |->
        IF cap.timing = "none" THEN Width
        ELSE IF cap.type = 9 THEN page[r][k] * Unit ELSE page[0][k] * Unit]]

(* Timing part of ReadCalibration().                                        *)
Loaded ==
    [r \in Row |-> [k \in Cell |->
        IF cap.timing = "none" THEN Width
        ELSE IF cap.type = 9 THEN (page[r][k] - Shift) * Unit ELSE page[0][k] * Unit]]

LoadTiming ==
    /\ pc = "load"
    /\ cellDT' = Loaded
    /\ pc' = "configure"
    /\ UNCHANGED <<cap, volt, storeVars, ticks, chipVars, transferVars, eventVars>>

-----------------------------------------------------------------------------
(* apply_board_config() places the trigger.                                 *)

(* The step of the delay line.                                              *)
Tick == Lut[CASE cap.type # 5 /\ cap.newFw  -> "S3_8"
              [] cap.type # 5 /\ ~cap.newFw -> "S3_4"
              [] cap.type = 5 /\ cap.newFw  -> "V2_8"
              [] cap.type = 5 /\ ~cap.newFw -> "V2_4"]

(* Mutated form: the delay counts from the beginning of the axis.           *)
TrueDelayFromStart == Clamp(UserDelay, 0, MaxDelay)

(* true_delay, from the rate the operator asks for.                         *)
TrueDelay == Clamp(RoundDiv(cap.asked, Ns) - UserDelay, 0, MaxDelay)

SetTriggerDelayNs ==
    /\ pc = "configure"
    /\ ticks' = Clamp(RoundDiv(TrueDelay * Ns, Tick), 0, MaxTicks)
    /\ pc' = "sweep"
    /\ UNCHANGED <<cap, volt, storeVars, cellDT, chipVars, transferVars, eventVars>>

-----------------------------------------------------------------------------
(* The domino wave stops at a cell.  It is read from that cell on, or from  *)
(* cell 0 on, as ReadoutMode says.  Newer firmware puts stop cell and write *)
(* shift register behind the waveforms.                                     *)
Sweep ==
    /\ pc = "sweep"
    /\ ram' = [a \in 0 .. 9 * N + 1 |->
                  IF a < 9 * N
                  THEN Samples(Signal, IF cap.mode = "stop" THEN cap.stop ELSE 0)[a]
                  ELSE IF ~Trailer THEN Rail ELSE IF a = 9 * N THEN cap.stop ELSE cap.wsr]
    /\ status' = [cell |-> cap.stop, wsr |-> 256 * cap.wsr]
    /\ pc' = "transfer"
    /\ UNCHANGED <<cap, volt, storeVars, cellDT, ticks, transferVars, eventVars>>

(* n_requested, in words.                                                   *)
Requested == IF Trailer THEN 9 * N + 2 ELSE 9 * N

TransferWaves ==
    /\ pc = "transfer"
    /\ buffer' = [a \in 0 .. Requested - 1 |-> ram[a]]
    /\ stopCell' = IF Trailer THEN ram[Requested - 2] ELSE status.cell
    /\ stopWSR'  = IF Trailer THEN ram[Requested - 1] % 256 ELSE status.wsr \div 256
    /\ pc' = "waves"
    /\ UNCHANGED <<cap, volt, storeVars, cellDT, ticks, chipVars, eventVars>>

-----------------------------------------------------------------------------
(* Sample j of a waveform that starts at cell tc.                           *)
CellValue(channel, adc, j, tc) ==
    LET c == (j + tc) % N
        v == Quotient((adc[j] - volt.offset[channel][c]) * Level, volt.gain[channel][c])
               - volt.offset2[channel][j] + Zero
    IN  IF adc[j] >= Rail \/ v > High THEN High
        ELSE IF adc[j] <= 0 \/ v < Low THEN Low ELSE v

(* Stuck cells, whose offset is 0, one after the other in place.            *)
WithoutStuck(wf, channel, tc) ==
    LET fixed[j \in 0 .. N] ==
          IF j = 0 THEN wf
          ELSE LET w == fixed[j - 1]
               IN  IF volt.offset[channel][(j - 1 + tc) % N] = 0
                   THEN [w EXCEPT ![j - 1] =
                           Quotient(w[(j - 2 + N) % N] + w[j % N], 2)]
                   ELSE w
    IN  fixed[N]

CalibrateWaveform(channel, adc, tc) ==
    IF cap.volt
    THEN WithoutStuck([j \in Cell |-> CellValue(channel, adc, j, tc)], channel, tc)
    ELSE [j \in Cell |-> adc[j] - Zero]

GetWave(channel, tc) == CalibrateWaveform(channel, DecodeWave(buffer, channel), tc)

(* Mutated form: the widths are added from the first cell of the chip on.   *)
RotatedFromZero(channel, tc, i) == Around(cellDT[channel], 0, i)

(* The time from cell tc to the sample i.                                   *)
Rotated(channel, tc, i) == Around(cellDT[channel], tc, i)

(* Mutated form: the reference is always taken from the turn of the stop cell. *)
CorrectionSameTurn(channel, tc) ==
    LET n == IF tc >= Reference THEN N ELSE Reference - tc
    IN  IF channel = 0 THEN 0 ELSE Around(cellDT[0], tc, n) - Around(cellDT[channel], tc, n)

(* All channels agree with channel 0 at the reference cell.                 *)
Correction(channel, tc) ==
    LET n == IF tc >= Reference THEN Reference + N - tc ELSE Reference - tc
    IN  IF channel = 0 THEN 0 ELSE Around(cellDT[0], tc, n) - Around(cellDT[channel], tc, n)

GetTime(channel, tc) ==
    [i \in Cell |->
        IF Calibrated THEN Rotated(channel, tc, i) + Correction(channel, tc)
        ELSE LET t == (((i + tc) % N) - tc) * Width
             IN  IF t < 0 THEN t + N * Width ELSE t]

(* GetTime() and GetWave() of the channels the front end reads.             *)
Waves ==
    /\ pc = "waves"
    /\ time' = [ch \in Channel |-> GetTime(2 * ch, stopCell)]
    /\ wave' = [ch \in Channel |-> GetWave(2 * ch, stopCell)]
    /\ pc' = "order"
    /\ UNCHANGED <<cap, volt, storeVars, cellDT, ticks, chipVars, transferVars, marker, bank, decoded>>

-----------------------------------------------------------------------------
(* The front end: oldest sample first, time from the oldest sample on.      *)

ChronologicalTime(t) ==
    [s \in Cell |-> IF s < N - 1 THEN t[(s + 1) % N] - t[1] ELSE Total]

ChronologicalWave(w) ==
    LET chrono == [s \in Cell |-> w[(s + 1) % N]]
        second == 2 * chrono[2] - chrono[3]
    IN  [chrono EXCEPT ![1] = second, ![0] = 2 * second - chrono[2]]

Order ==
    /\ pc = "order"
    /\ time' = [ch \in Channel |-> ChronologicalTime(time[ch])]
    /\ wave' = [ch \in Channel |-> ChronologicalWave(wave[ch])]
    /\ pc' = "mark"
    /\ UNCHANGED <<cap, volt, storeVars, cellDT, ticks, chipVars, transferVars, marker, bank, decoded>>

(* Mutated form: a delay beyond the last sample is not limited.             *)
TriggerCellUnlimited == RoundDiv(UserDelay * Ns * N, Total)

(* trig_tc                                                                  *)
TriggerCell == Clamp(RoundDiv(UserDelay * Ns * N, Total), 0, N - 1)

Mark ==
    /\ pc = "mark"
    /\ marker' = TriggerCell
    /\ pc' = "event"
    /\ UNCHANGED <<cap, volt, storeVars, cellDT, ticks, chipVars, transferVars, wave, time, bank,
                   decoded>>

(* Words of a header, today and in two earlier formats.                     *)
HeaderSize(format) ==
    CASE format = "current" -> 8 + NCH [] format = "previous" -> 7 + NCH
      [] format = "legacy" -> 6
ChannelSize == 1 + 2 * N

(* The event as readout_loop() lays it out and fill_midas_banks() copies    *)
(* it.  An earlier format is the same with less in the header.              *)
Event(format) ==
    LET header == <<0, marker, NCH, Total, 0, 0, UserDelay>> \o Scalers \o <<stopCell>>
        block(ch) == [k \in 1 .. ChannelSize |->
                        IF k = 1 THEN ch
                        ELSE IF k <= 1 + N THEN time[ch][k - 2] ELSE wave[ch][k - 2 - N]]
    IN  [k \in 1 .. HeaderSize(format) + NCH * ChannelSize |->
            LET b == k - HeaderSize(format) - 1
            IN  IF b < 0 THEN header[k]
                ELSE block(b \div ChannelSize)[(b % ChannelSize) + 1]]

Commit ==
    /\ pc = "event"
    /\ bank' = Event(cap.format)
    /\ pc' = "decode"
    /\ UNCHANGED <<cap, volt, storeVars, cellDT, ticks, chipVars, transferVars, wave, time, marker,
                   decoded>>

(* Mutated form: the formats are tried from the oldest to the newest.       *)
DetectOldestFirst(length, n) ==
    IF length >= HeaderSize("legacy") + n * ChannelSize THEN "legacy"
    ELSE IF length >= HeaderSize("previous") + n * ChannelSize THEN "previous"
    ELSE IF length >= HeaderSize("current") + n * ChannelSize THEN "current" ELSE "none"

Detect(length, n) ==
    IF length >= HeaderSize("current") + n * ChannelSize THEN "current"
    ELSE IF length >= HeaderSize("previous") + n * ChannelSize THEN "previous"
    ELSE IF length >= HeaderSize("legacy") + n * ChannelSize THEN "legacy" ELSE "none"

(* decode_drs4() of drs4_midas2root.py                                      *)
Decode ==
    /\ pc = "decode"
    /\ LET n == bank[3]
           format == Detect(Len(bank), n)
           first(ch) == HeaderSize(format) + ch * ChannelSize
       IN  decoded' = [format |-> format, marker |-> bank[2],
                       delay |-> IF format = "legacy" THEN 0 ELSE bank[7],
                       stop |-> IF format = "current" THEN bank[8 + NCH] ELSE 0,
                       time |-> [ch \in 0 .. n - 1 |->
                                   [s \in Cell |-> bank[first(ch) + 2 + s]]],
                       wave |-> [ch \in 0 .. n - 1 |->
                                   [s \in Cell |-> bank[first(ch) + 2 + N + s]]]]
    /\ pc' = "done"
    /\ UNCHANGED <<cap, volt, storeVars, cellDT, ticks, chipVars, transferVars, wave, time, marker,
                   bank>>

-----------------------------------------------------------------------------
Nothing == [ch \in Channel |-> [s \in Cell |-> 0]]

Init ==
    /\ cap \in Captures
    /\ pc = IF cap.volt THEN "volt" ELSE IF cap.timing = "none" THEN "load" ELSE "store"
    /\ volt = <<>>
    /\ page = [r \in Row |-> [k \in Cell |-> 0]] /\ cellDT = page
    /\ row = 0 /\ cell = 0 /\ tTrue = 0 /\ tRounded = 0
    /\ ticks = 0
    /\ ram = <<>> /\ status = <<>> /\ buffer = <<>> /\ stopCell = 0 /\ stopWSR = 0
    /\ wave = Nothing /\ time = Nothing /\ marker = 0 /\ bank = <<>> /\ decoded = <<>>

Next ==
    \/ MeasurePrimary \/ MeasureSecondary \/ StoreCell \/ StoreRow \/ StoreOneRow \/ LoadTiming \/ SetTriggerDelayNs
    \/ Sweep \/ TransferWaves \/ Waves \/ Order \/ Mark \/ Commit \/ Decode

Spec == Init /\ [][Next]_vars

-----------------------------------------------------------------------------
Ordered == pc \in {"mark", "event", "decode", "done"}

(* Whatever is stored, sent to the board or shown is in its range.          *)
TypeOK ==
    /\ cap \in Captures
    /\ page \in [Row -> [Cell -> 0 .. Word - 1]]
    /\ row \in Row /\ cell \in Cell /\ tTrue \in Int /\ tRounded \in Int
    /\ cellDT \in [Row -> [Cell -> Int]]
    /\ ticks \in 0 .. MaxTicks /\ stopCell \in Cell /\ marker \in Cell

(* The widths that were stored add up to the widths that were measured, to  *)
(* half a unit of the EEPROM, after every cell: rounding does not add up.   *)
RoundingBounded == -Half <= tTrue - tRounded /\ tTrue - tRounded <= Half

(* What is loaded at the next start has the period of the chip that was     *)
(* measured, on every channel (type 9).                                     *)
PeriodKept ==
    pc = "configure" /\ cap.type = 9 /\ cap.timing # "none" =>
        \A r \in Row : Abs(Around(cap.widths[r], 0, N) - Around(cellDT[r], 0, N)) <= Half

Limited(v) == Clamp(v, Low, High)

(* How far a calibrated sample may be off.  What the readout adds is        *)
(* measured in counts and subtracted in volts, so a gain below 1 leaves     *)
(* some of it; and a stuck cell, which does not show it, makes it appear    *)
(* smaller than it is.                                                      *)
Error(channel, c) ==
    IF cap.stuck = {} /\ Gain[channel][c] = Level THEN 0
    ELSE CHOOSE spread \in 0 .. Rail :
            /\ \E i, j \in Cell : spread = Pattern[channel][i] - Pattern[channel][j]
            /\ \A i, j \in Cell : spread >= Pattern[channel][i] - Pattern[channel][j]

Alone(c) == c \in cap.stuck /\ {(c + 1) % N, (c + N - 1) % N} \cap cap.stuck = {}

SamplesFit ==
    \A ch \in Channel : \A s \in 2 .. N - 1 :
        LET c == (cap.stop + 1 + s) % N
            left  == Limited(Signal[2 * ch][(c + N - 1) % N])
            right == Limited(Signal[2 * ch][(c + 1) % N])
        IN  /\ c \notin cap.stuck =>
                  Abs(wave[ch][s] - Limited(Signal[2 * ch][c])) <= Error(2 * ch, c)
            /\ Alone(c) => Abs(2 * wave[ch][s] - left - right) <= 2 * Error(2 * ch, c) + 1

(* A sample of an event is the voltage of the cell it came from: averaging  *)
(* in the order of the cells and then in that of the readout, firmware      *)
(* trailer or registers, calibration, and the front end's reordering agree  *)
(* on where a cell is, when ReadoutMode is FROM_STOP.  A stuck cell is      *)
(* between its neighbours.  (The first two samples are extrapolated.)       *)
SampleOfCell == Ordered /\ cap.volt /\ cap.mode = "stop" => SamplesFit

(* The same in either mode that the operator may choose: "oldest sample at  *)
(* index 0, newest / stop cell at index 1023".  FROM_FIRST_BIN breaks it,   *)
(* which capture_and_snapshot() and readout_loop() decode as FROM_STOP.     *)
SampleOfCellInEitherMode == Ordered /\ cap.volt => SamplesFit

(* The time of a sample is the sum of the widths of the cells between the   *)
(* oldest one and its own: the voltages and the times of an event are in    *)
(* the same order.  The axis ends with the period.                          *)
TimeOfCell ==
    Ordered => \A ch \in Channel :
        /\ \A s \in 0 .. N - 2 :
              time[ch][s] = IF Calibrated THEN Around(cellDT[2 * ch], cap.stop + 1, s)
                            ELSE s * Width
        /\ time[ch][N - 1] = Total

(* GetTime() puts all channels at the same time at the reference cell.      *)
ChannelsAgreeAtReference ==
    pc = "order" /\ Calibrated /\ cap.stop # Reference =>
        \A ch \in Channel :
            LET i == (Reference + N - cap.stop) % N IN time[ch][i] = time[0][i]

(* The delay line can place the edge where the operator wants it.           *)
InReach ==
    LET needed == cap.asked - UserDelay * Ns
    IN  needed >= 0 /\ needed <= MaxDelay * Ns /\ needed <= MaxTicks * Tick

(* The T marker, computed from the true frequency, is where the trigger's   *)
(* edge is, which the board delays as the rate that was asked for needs: to *)
(* a cell, the roundings to nanoseconds and ticks, and the difference of    *)
(* the true period and the one asked for, which contains the rounding to    *)
(* the reference clock.  (In units of 1 / 2 N.)                             *)
MarkerAtEdge ==
    Ordered /\ pc # "mark" /\ InReach =>
        Abs(2 * marker * Total - 2 * N * (Total - ticks * Tick))
          <= 2 * Total + N * (Ns + Tick) + 2 * N * Abs(Total - cap.asked)

(* "so the rising edge lands exactly at user_delay": on the nominal axis,   *)
(* and to the roundings to nanoseconds and ticks.  The rounding of the rate *)
(* to the reference clock breaks it, after the delay was computed.          *)
EdgeAtUserDelay ==
    Ordered /\ ~Calibrated /\ InReach =>
        2 * Abs(Total - ticks * Tick - UserDelay * Ns) <= Ns + Tick

(* The decoder returns what was written, in the format of today and in the  *)
(* two before it, whose missing fields are 0.                               *)
DecodedAsWritten ==
    pc = "done" =>
        decoded = [format |-> cap.format, marker |-> marker,
                   delay |-> IF cap.format = "legacy" THEN 0 ELSE UserDelay,
                   stop |-> IF cap.format = "current" THEN cap.stop ELSE 0,
                   time |-> time, wave |-> wave]
=============================================================================
