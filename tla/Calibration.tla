---------------------------- MODULE Calibration ----------------------------
(***************************************************************************)
(* Voltage and timing calibration of one board: CalibrateVolt() and        *)
(* CalibrateTiming(), run by the main thread from the ODB watches while    *)
(* the live preview goes on using the board; the EEPROM they leave their   *)
(* result in; and Init(), which loads it when the process starts again.    *)
(*                                                                         *)
(* A handler is the sequence of board accesses it makes (its program), one *)
(* action each.  A table is the number of the calibration that measured    *)
(* it: 0 is nothing, Garbage what is no table at all, Flat the equal cell  *)
(* widths that timing starts from.  The page transfers of the EEPROM and   *)
(* the waveforms of the preview go through the same RAM of the board.      *)
(***************************************************************************)
EXTENDS CtrlReg

CONSTANTS
    Boards,     \* boards to consider: type; TriggerMode; is it the first one connected;
                \*   sampling rate; never calibrated before; the calibrations requested
    MaxCrash,   \* bound: crashes of the process
    Events      \* waveforms per measurement (200 ... 1000 in the code)

ASSUME CalibrationAssumption ==
    /\ \A b \in Boards : /\ b.type \in EvaluationBoard /\ b.mode \in {"Auto", "Normal"}
                         /\ b.master \in BOOLEAN /\ b.blank \in BOOLEAN /\ b.demand \in Int
                         /\ b.plan \in Seq({"volt", "timing"})
    /\ MaxCrash \in Nat /\ Events \in Nat \ {0}

VARIABLES
    board,         \* the board
    eeprom, ram,   \* the pages, and what the board's RAM holds
    mem,           \* fVoltageCalibrationValid, fTimingCalibratedFrequency, fCell...[],
                   \*   fNominalFrequency
    bits, reg,     \* fCtrlBits; frequency and range registers
    hw,            \* the readout machine
    mpc, at,       \* handler of the main thread, and how far it is in its program
    buf, saved,    \* its locals
    gen,           \* number of the last calibration started
    wpc,           \* live_preview_loop()
    crashes,       \* for the bound
    last, torn, before   \* history: last[k], the last calibration of kind k that ended;
                         \*   the preview has overwritten a page, or part of one, in the RAM; what
                         \*   the calibration found

mainVars == <<mpc, at, buf, saved, gen>>
histVars == <<last, torn, before>>
vars == <<board, eeprom, ram, mem, bits, reg, hw, mainVars, wpc, crashes, histVars>>

-----------------------------------------------------------------------------
Kind == {"volt", "timing"}
Garbage == -1
Flat == -2
Default == 10                              \* 1 GHz, in units of 100 MHz
Generation == 0 .. Len(board.plan) + 1
Table == Generation \cup {Garbage, Flat}

(* The words of the EEPROM that matter, by page.  Both tables of page 2 of  *)
(* type 9 are interleaved, as are header and cell widths on page 0 of the   *)
(* other types.                                                             *)
Header == {"serial", "vmeth", "range", "tmeth", "tfreq"}
Word == Header \cup {"v1", "v2", "dt"}
TimingPage(type) == IF type = 9 THEN 2 ELSE 0
Words(type, p) ==
    (CASE p = 0 -> Header [] p = 1 -> {"v1"} [] p = 2 -> {"v2"})
      \cup IF p = TimingPage(type) THEN {"dt"} ELSE {}
Wave == [w \in Word |-> Garbage]

-----------------------------------------------------------------------------
(* What the steps of setters do to fCtrlBits: the last to touch a bit       *)
(* decides.                                                                 *)
Change(steps) ==
    LET stores == {k \in DOMAIN steps : steps[k].op = "store"}
    IN  [set   |-> {b \in Bit : \E k \in stores :
                        /\ b \in steps[k].set
                        /\ \A l \in stores : l > k => b \notin steps[l].clear},
         clear |-> {b \in Bit : \E k \in stores :
                        /\ b \in steps[k].clear
                        /\ \A l \in stores : l > k => b \notin steps[l].set}]

(* The accesses, as records named by `do`.                                  *)
Do(x) == [do |-> x]
Setter(steps) == [do |-> "set", change |-> Change(steps)]
Patch(words) == [do |-> "patch", words |-> words]
Measured(tables) == [do |-> "measured", tables |-> tables]
Taken(tables) == [do |-> "load", tables |-> tables]
Judged(skip) == [do |-> "judge", skip |-> skip]
Fetch(p) == [do |-> "page", page |-> p]
Fill(words) == [do |-> "ram", words |-> words, half |-> {}]
BurnTo(p) == [do |-> "burn", page |-> p]

Read(p) == <<Fetch(p), Do("get")>>

(* WriteEEPROM() fetches the page, so that the RAM holds what the caller's  *)
(* buffer does not cover, puts the buffer over it and burns the whole page. *)
Write(p, words) == <<Fetch(p), Fill(words), BurnTo(p)>>

ReadCalibrationOps(type) ==
    LET tables == Read(1) \o <<Taken({"v1"})>> \o Read(2) \o <<Taken({"v2"})>>
                    \o Read(TimingPage(type)) \o <<Taken({"dt", "rest"})>>
    IN  <<Do("forget")>> \o Read(0) \o <<Judged(Len(tables))>> \o tables

DefaultSetters(type) ==
    Setter(SetReadoutMode(TRUE) \o EnableTrigger(FALSE, FALSE)
             \o SetTriggerSource(type, {}) \o SetDominoActive(TRUE))
ClockSetters(type) ==
    Setter(SelectClockSource(type, FALSE) \o EnableAcalOff(type) \o EnableTcal(type, FALSE, FALSE))

InitOps(type) ==
    <<Do("reinit"), Do("defaults")>> \o ReadCalibrationOps(type)
      \o <<Do("adopt"), DefaultSetters(type), Do("start"), Do("soft"), ClockSetters(type),
           Do("reinit")>>

(* After Init(), both calibrations go back to the operator's frequency.     *)
DominoSetters == Setter(SetDominoActive(TRUE) \o SetReadoutMode(TRUE))
SetupOps == <<Do("frequency"), Do("start"), Do("soft"), DominoSetters>>

(* Mutated form: the domino wave is started and left to a trigger.          *)
ReadSingleWaveformNoTrigger == <<Do("start"), Do("spin"), Do("transfer")>>

(* For AverageWaveforms() and RobustAverageWaveforms(): the board is        *)
(* triggered by software and polled without a limit.                        *)
ReadSingleWaveform == <<Do("start"), Do("soft"), Do("spin"), Do("transfer")>>
Repeat(ops) == [n \in 1 .. Events * Len(ops) |-> ops[((n - 1) % Len(ops)) + 1]]

OffsetSetters(type) ==
    Setter((IF type = 5 THEN EnableAcalOff(type) ELSE EnableAcalStatic)
             \o EnableTcal(type, FALSE, FALSE))
GainSetters(type) == Setter(EnableAcalStatic \o EnableTcal(type, FALSE, TRUE))

MeasureVolt(type) ==
    <<OffsetSetters(type)>> \o Repeat(ReadSingleWaveform)
      \o <<GainSetters(type)>> \o Repeat(ReadSingleWaveform)

SecondaryVolt(type) ==
    <<OffsetSetters(type)>> \o Repeat(ReadSingleWaveform) \o <<Measured({"v2"})>>

(* The header is read and written as 2048 bytes of page 0.  On the types    *)
(* other than 9 that is half of the cell widths between its words as well.  *)
FillHeader(type) == [do |-> "ram", words |-> Header, half |-> Words(type, 0) \ Header]
WriteHeader(type) == <<Fetch(0), FillHeader(type), BurnTo(0)>>

(* Mutated form: the header is written before the tables.                   *)
StoreVoltHeaderFirst(type) ==
    Read(0) \o <<Patch({"vmeth", "range"})>> \o WriteHeader(type)
      \o <<Patch({"v1"})>> \o Write(1, {"v1"})
      \o IF type = 9 THEN Read(2) \o <<Patch({"v2"})>> \o Write(2, {"v2", "dt"})
         ELSE <<Patch({"v2"})>> \o Write(2, {"v2"})

(* Mutated form: page 2 is written without reading it first.                *)
StoreVoltNoRead(type) ==
    <<Patch({"v1"})>> \o Write(1, {"v1"}) \o <<Patch({"v2"})>> \o Write(2, Words(type, 2))
      \o Read(0) \o <<Patch({"vmeth", "range"})>> \o WriteHeader(type)

(* On type 9 page 2 also holds the cell widths, so it is read first.        *)
StoreVolt(type) ==
    <<Patch({"v1"})>> \o Write(1, {"v1"})
      \o (IF type = 9 THEN Read(2) \o <<Patch({"v2"})>> \o Write(2, {"v2", "dt"})
          ELSE <<Patch({"v2"})>> \o Write(2, {"v2"}))
      \o Read(0) \o <<Patch({"vmeth", "range"})>> \o WriteHeader(type)

InternalSetters(type) == Setter(SelectClockSource(type, FALSE) \o EnableTrigger(FALSE, FALSE))

CalibrateVoltOps(type) ==
    <<Do("save")>> \o InitOps(type) \o <<Do("nominal")>> \o SetupOps
      \o <<Do("range"), InternalSetters(type), Do("start")>>
      \o MeasureVolt(type) \o <<Measured({"v1"})>> \o SecondaryVolt(type) \o StoreVolt(type)
      \o <<Do("valid"), Setter(EnableAcalOff(type)), Do("tcal"), Do("triggers")>>

(* An iteration of CalibrateTiming().  Its analysis may end the loop, for   *)
(* too many failures or (type 9) for one: what has been averaged is kept.   *)
TimingEvent(left) ==
    <<Do("soft"), Do("spin"), Do("start"), Do("transfer"), [do |-> "analyse", skip |-> 5 * left]>>
TimingEvents ==
    [n \in 1 .. 5 * Events |->
        LET event == TimingEvent(Events - 1 - ((n - 1) \div 5)) IN event[((n - 1) % 5) + 1]]

(* Mutated form: on the other types channel 0 is not copied to the rest.    *)
StoreTimingNoCopy(type) ==
    IF type = 9
    THEN Read(2) \o <<Patch({"dt"})>> \o Write(2, {"v2", "dt"})
           \o Read(0) \o <<Patch({"tmeth", "tfreq"}), Do("timed")>> \o Write(0, Words(type, 0))
    ELSE Read(0) \o <<Patch({"dt", "tmeth", "tfreq"}), Do("timed")>> \o Write(0, Words(type, 0))

StoreTiming(type) ==
    IF type = 9
    THEN Read(2) \o <<Patch({"dt"})>> \o Write(2, {"v2", "dt"})
           \o Read(0) \o <<Patch({"tmeth", "tfreq"}), Do("timed")>> \o Write(0, Words(type, 0))
    ELSE Read(0) \o <<Patch({"dt", "tmeth", "tfreq"}), Do("timed")>> \o Write(0, Words(type, 0))
           \o <<Do("copy")>>

TimingSetters(type) ==
    Setter(EnableTrigger(FALSE, FALSE) \o EnableTcal(type, TRUE, FALSE)
             \o SelectClockSource(type, TRUE))

CalibrateTimingOps(type) ==
    <<Do("save")>> \o InitOps(type) \o <<Do("nominal"), Do("untimed")>> \o SetupOps
      \o <<TimingSetters(type), Do("start"), Do("flat")>>
      \o TimingEvents
      \o <<Measured(IF type = 9 THEN {"dt", "rest"} ELSE {"dt"})>>
      \o StoreTiming(type)
      \o <<Setter(EnableAcalOff(type)), Do("tcal"), Do("range"), Do("triggers")>>

Programs ==
    [type \in EvaluationBoard |->
        [init |-> InitOps(type), volt |-> CalibrateVoltOps(type),
         timing |-> CalibrateTimingOps(type), idle |-> << >>]]

-----------------------------------------------------------------------------
NoMemory == [v1 |-> 0, v2 |-> 0, dt |-> 0, rest |-> 0, valid |-> FALSE, range |-> 0,
             tfreq |-> 0, nominal |-> Default]
NoLocals == [nominal |-> 0, range |-> 0, tcal |-> FALSE, trg1 |-> FALSE, trg2 |-> FALSE]
NoBefore == [bits |-> {}, reg |-> [frequency |-> 0, range |-> 0], alone |-> TRUE]

TypeOK ==
    /\ board \in Boards
    /\ \A p \in 0 .. 2 : DOMAIN eeprom[p] = Words(board.type, p)
    /\ DOMAIN ram = Word /\ DOMAIN buf = Word
    /\ \A t \in {"v1", "v2", "dt", "rest"} : mem[t] \in Table
    /\ mem.valid \in BOOLEAN /\ mem.nominal \in 1 .. 60
    /\ bits \subseteq Bit /\ DOMAIN reg = {"frequency", "range"}
    /\ hw \in {"idle", "rolling", "reading"}
    /\ mpc \in {"init", "idle"} \cup Kind
    /\ gen \in Generation
    /\ wpc \in {"none", "first", "loop", "force", "wait", "ready"}
    /\ crashes \in 0 .. MaxCrash
    /\ last \in [Kind -> Generation] /\ torn \in BOOLEAN

Effect(change) == (bits \ change.clear) \cup change.set

-----------------------------------------------------------------------------
Program == Programs[board.type][mpc]
More == at <= Len(Program)
Arg == Program[at]
Op(x) == /\ More /\ Arg.do = x
         /\ at' = at + 1
         /\ UNCHANGED <<board, mpc, gen, wpc, crashes, last>>

Set ==
    /\ Op("set") /\ bits' = Effect(Arg.change)
    /\ UNCHANGED <<eeprom, ram, mem, reg, hw, buf, saved, torn, before>>

Start ==
    /\ Op("start") /\ hw' = "rolling"
    /\ UNCHANGED <<eeprom, ram, mem, bits, reg, buf, saved, torn, before>>

Trigger == IF hw = "rolling" THEN "reading" ELSE hw

Soft ==
    /\ Op("soft") /\ hw' = Trigger
    /\ UNCHANGED <<eeprom, ram, mem, bits, reg, buf, saved, torn, before>>

Reset ==
    /\ Op("reinit") /\ hw' = "idle"
    /\ UNCHANGED <<eeprom, ram, mem, bits, reg, buf, saved, torn, before>>

(* `while (IsBusy());`                                                      *)
Spin ==
    /\ Op("spin") /\ hw = "idle"
    /\ UNCHANGED <<eeprom, ram, mem, bits, reg, hw, buf, saved, torn, before>>

Transfer ==
    /\ Op("transfer") /\ ram' = Wave
    /\ UNCHANGED <<eeprom, mem, bits, reg, hw, buf, saved, torn, before>>

(* An EEPROM page goes to the RAM, and from there to the caller.            *)
Page ==
    /\ Op("page")
    /\ ram' = [w \in Word |-> IF w \in DOMAIN eeprom[Arg.page] THEN eeprom[Arg.page][w] ELSE 0]
    /\ UNCHANGED <<eeprom, mem, bits, reg, hw, buf, saved, torn, before>>

Get ==
    /\ Op("get") /\ buf' = ram
    /\ UNCHANGED <<eeprom, ram, mem, bits, reg, hw, saved, torn, before>>

PatchBuf ==
    /\ Op("patch")
    /\ buf' = [w \in Word |-> IF w \notin Arg.words THEN buf[w]
                              ELSE CASE w = "range" -> reg.range
                                     [] w = "tfreq" -> mem.nominal
                                     [] w \in {"v1", "v2", "dt"} -> mem[w]
                                     [] OTHER -> gen]
    /\ UNCHANGED <<eeprom, ram, mem, bits, reg, hw, saved, torn, before>>

(* Of a word in `half` one half comes from the caller and the other stays:  *)
(* no table, unless they are halves of the same.                            *)
PutRam ==
    /\ Op("ram")
    /\ ram' = [w \in Word |-> IF w \in Arg.words THEN buf[w]
                              ELSE IF w \in Arg.half /\ buf[w] # ram[w] THEN Garbage
                              ELSE ram[w]]
    /\ UNCHANGED <<eeprom, mem, bits, reg, hw, buf, saved, torn, before>>

(* The write was triggered; it ends whether the process does or not.        *)
Burn ==
    /\ Op("burn")
    /\ eeprom' = [eeprom EXCEPT ![Arg.page] = [w \in DOMAIN @ |-> ram[w]]]
    /\ UNCHANGED <<ram, mem, bits, reg, hw, buf, saved, torn, before>>

-----------------------------------------------------------------------------
(* The accesses that change only what the object remembers.                 *)
Keep == UNCHANGED <<eeprom, ram, bits, reg, hw, buf, saved, torn, before>>

Forget ==   \* ReadCalibration() begins
    /\ Op("forget") /\ Keep
    /\ mem' = [mem EXCEPT !.v1 = 0, !.v2 = 0, !.dt = 0, !.rest = 0, !.valid = FALSE, !.tfreq = 0]

(* Mutated form: Init() begins with the frequency it finds.                 *)
DefaultsKeepFrequency ==
    /\ Op("defaults") /\ reg' = [reg EXCEPT !.range = 0]
    /\ UNCHANGED <<eeprom, ram, mem, bits, hw, buf, saved, torn, before>>

Defaults ==
    /\ Op("defaults") /\ mem' = [mem EXCEPT !.nominal = Default]
    /\ reg' = [reg EXCEPT !.range = 0]
    /\ UNCHANGED <<eeprom, ram, bits, hw, buf, saved, torn, before>>

(* Without a voltage calibration nothing more is loaded.                    *)
Judge ==
    /\ More /\ Arg.do = "judge"
    /\ IF buf["vmeth"] > 0
       THEN /\ mem' = [mem EXCEPT !.valid = TRUE, !.range = buf["range"],
                                  !.tfreq = IF buf["tmeth"] > 0 THEN buf["tfreq"] ELSE -1]
            /\ at' = at + 1
       ELSE /\ at' = at + 1 + Arg.skip
            /\ mem' = [mem EXCEPT !.range = 0]
    /\ UNCHANGED <<board, mpc, gen, wpc, crashes, last>> /\ Keep

(* The tables are replaced by those in `words`.                             *)
Replaced(tables, words) ==
    [mem EXCEPT !.v1   = IF "v1" \in tables THEN words["v1"] ELSE @,
                !.v2   = IF "v2" \in tables THEN words["v2"] ELSE @,
                !.dt   = IF "dt" \in tables THEN words["dt"] ELSE @,
                !.rest = IF "rest" \in tables THEN words["dt"] ELSE @]

LoadTables == Op("load") /\ Keep /\ mem' = Replaced(Arg.tables, buf)

(* Mutated form: whatever frequency the calibration has.                    *)
AdoptUnchecked ==
    /\ Op("adopt") /\ mem' = [mem EXCEPT !.nominal = mem.tfreq]
    /\ reg' = [frequency |-> mem.tfreq, range |-> mem.range]
    /\ UNCHANGED <<eeprom, ram, bits, hw, buf, saved, torn, before>>

(* Init() takes frequency and range from the calibration, if they are legal.*)
Adopt ==
    /\ Op("adopt")
    /\ LET freq == IF mem.tfreq \in 1 .. 60 THEN mem.tfreq ELSE Default
           range == IF mem.range > 0 THEN mem.range ELSE 0
       IN  /\ mem' = [mem EXCEPT !.nominal = freq]
           /\ reg' = [frequency |-> freq, range |-> range]
    /\ buf' = Wave      \* the caller's own buffer holds nothing yet
    /\ UNCHANGED <<eeprom, ram, bits, hw, saved, torn, before>>

(* Mutated form: the frequency is saved when Init() has replaced it.        *)
NominalFromInit == Op("nominal") /\ Keep /\ UNCHANGED mem

Nominal == Op("nominal") /\ Keep /\ mem' = [mem EXCEPT !.nominal = saved.nominal]
Untimed == Op("untimed") /\ Keep /\ mem' = [mem EXCEPT !.tfreq = 0]
FlatTime == Op("flat") /\ Keep /\ mem' = [mem EXCEPT !.dt = Flat, !.rest = Flat]
Timed == Op("timed") /\ Keep /\ mem' = [mem EXCEPT !.tfreq = mem.nominal]
Copy == Op("copy") /\ Keep /\ mem' = [mem EXCEPT !.rest = mem.dt]
Valid == Op("valid") /\ Keep /\ mem' = [mem EXCEPT !.valid = TRUE, !.range = reg.range]

Convert ==  \* the averages become a table
    /\ Op("measured") /\ Keep
    /\ mem' = Replaced(Arg.tables, [w \in Word |-> gen])

Analyse ==
    /\ More /\ Arg.do = "analyse"
    /\ \E skip \in {0, Arg.skip} : at' = at + 1 + skip
    /\ UNCHANGED <<board, mpc, gen, wpc, crashes, last, mem>> /\ Keep

-----------------------------------------------------------------------------
(* What a calibration saves first and puts back, at the end or in between.  *)
Save ==
    /\ Op("save")
    /\ saved' = [nominal |-> mem.nominal, range |-> reg.range, tcal |-> TCAL_EN \in bits,
                 trg1 |-> ENABLE_TRIGGER1 \in bits, trg2 |-> ENABLE_TRIGGER2 \in bits]
    /\ UNCHANGED <<eeprom, ram, mem, bits, reg, hw, buf, torn, before>>

SetFreq ==
    /\ Op("frequency") /\ reg' = [reg EXCEPT !.frequency = mem.nominal]
    /\ UNCHANGED <<eeprom, ram, mem, bits, hw, buf, saved, torn, before>>

SetRange ==
    /\ Op("range") /\ reg' = [reg EXCEPT !.range = saved.range]
    /\ UNCHANGED <<eeprom, ram, mem, bits, hw, buf, saved, torn, before>>

RestoreTcal ==
    /\ Op("tcal") /\ bits' = Effect(Change(EnableTcal(board.type, saved.tcal, FALSE)))
    /\ UNCHANGED <<eeprom, ram, mem, reg, hw, buf, saved, torn, before>>

RestoreTriggers ==
    /\ Op("triggers") /\ bits' = Effect(Change(EnableTrigger(saved.trg1, saved.trg2)))
    /\ UNCHANGED <<eeprom, ram, mem, reg, hw, buf, saved, torn, before>>

MainOp == \/ Set \/ Start \/ Soft \/ Reset \/ Transfer \/ Page \/ Get \/ PatchBuf \/ PutRam
          \/ Burn \/ Forget \/ Defaults \/ Judge \/ LoadTables \/ Adopt \/ Nominal
          \/ Untimed \/ FlatTime \/ Timed \/ Copy \/ Valid \/ Convert \/ Analyse \/ Save
          \/ SetFreq \/ SetRange \/ RestoreTcal \/ RestoreTriggers

-----------------------------------------------------------------------------
(* init() starts the preview when the boards are scanned.                   *)
Boot ==
    /\ mpc = "init" /\ ~More
    /\ mpc' = "idle" /\ at' = 1 /\ wpc' = "first"
    /\ UNCHANGED <<board, eeprom, ram, mem, bits, reg, hw, buf, saved, gen,
                   crashes, histVars>>

Kept == {TRANSP_MODE, TCAL_EN, ENABLE_TRIGGER1, ENABLE_TRIGGER2}

(* The watch on CalibrateVoltage or CalibrateTiming, which the operator set;*)
(* other watches wait until it returns.                                     *)
Calibrate ==
    /\ mpc = "idle" /\ gen <= Len(board.plan)
    /\ mpc' = board.plan[gen] /\ gen' = gen + 1
    /\ at' = 1
    /\ before' = [bits |-> bits \cap Kept, reg |-> reg, alone |-> TRUE]
    /\ UNCHANGED <<board, eeprom, ram, mem, bits, reg, hw, buf, saved, wpc, crashes, last, torn>>

Calibrated ==
    /\ mpc \in Kind /\ ~More
    /\ mpc' = "idle" /\ at' = 1 /\ last' = [last EXCEPT ![mpc] = gen]
    /\ buf' = Wave /\ saved' = NoLocals
    /\ UNCHANGED <<board, eeprom, ram, mem, bits, reg, hw, gen, wpc, crashes, torn, before>>

(* The process ends and is started again.  The board keeps its power; the   *)
(* RAM does not matter, as its first use is for a page.                     *)
Crash ==
    /\ crashes < MaxCrash /\ crashes' = crashes + 1
    /\ mpc' = "init" /\ at' = 1 /\ wpc' = "none"
    /\ mem' = NoMemory /\ bits' = {} /\ buf' = Wave /\ saved' = NoLocals /\ before' = NoBefore
    /\ ram' = Wave
    /\ UNCHANGED <<board, eeprom, reg, hw, gen, last, torn>>

-----------------------------------------------------------------------------
Worker == UNCHANGED <<board, eeprom, mainVars, crashes, last>>

(* live_preview_loop() begins with apply_board_config(), which leaves the   *)
(* frequency alone if the chip does not have the operator's.                *)
Configure ==
    /\ wpc = "first" /\ wpc' = "loop"
    /\ bits' = (bits \ Kept) \cup {TRANSP_MODE, DACTIVE, READOUT_MODE}
                  \cup IF board.type \in {8, 9} THEN {ENABLE_TRIGGER1} ELSE {ENABLE_TRIGGER2}
    /\ IF board.demand \in 1 .. 60
       THEN /\ mem' = [mem EXCEPT !.nominal = board.demand]
            /\ reg' = [frequency |-> board.demand, range |-> 1] /\ hw' = "reading"
       ELSE reg' = [reg EXCEPT !.range = 1] /\ UNCHANGED <<mem, hw>>
    /\ before' = [before EXCEPT !.alone = @ /\ mpc \notin Kind]
    /\ Worker /\ UNCHANGED <<ram, torn>>

(* An iteration for the master in Normal mode, or for any board in Auto.    *)
PreviewStart ==
    /\ wpc = "loop" /\ (board.mode = "Auto" \/ board.master)
    /\ hw' = "rolling" /\ wpc' = IF board.mode = "Auto" THEN "force" ELSE "wait"
    /\ Worker /\ UNCHANGED <<ram, mem, bits, reg, torn, before>>

PreviewForce ==
    /\ wpc = "force" /\ wpc' = "wait" /\ hw' = Trigger
    /\ Worker /\ UNCHANGED <<ram, mem, bits, reg, torn, before>>

(* The wait ends when the board is read out, or by count if the domino wave *)
(* still rolls: a readout takes less than the shortest count.               *)
PreviewWait ==
    /\ wpc = "wait"
    /\ \/ hw = "idle" /\ wpc' = "ready"
       \/ hw = "rolling" /\ wpc' = IF board.mode = "Auto" THEN "ready" ELSE "loop"
    /\ Worker /\ UNCHANGED <<ram, mem, bits, reg, hw, torn, before>>

(* In Normal mode the other boards are read when the master was triggered.  *)
PreviewOther ==
    /\ wpc = "loop" /\ board.mode = "Normal" /\ ~board.master /\ wpc' = "ready"
    /\ Worker /\ UNCHANGED <<ram, mem, bits, reg, hw, torn, before>>

(* The RAM holds a page, or half a table of one, that is on its way to the  *)
(* caller or to the EEPROM.                                                 *)
PageInRam == More /\ (Arg.do \in {"get", "burn"} \/ (Arg.do = "ram" /\ Arg.half # {}))

(* The waveforms replace what is there.                                     *)
PreviewTransfer ==
    /\ wpc = "ready" /\ wpc' = "loop" /\ ram' = Wave
    /\ torn' = (torn \/ PageInRam)
    /\ Worker /\ UNCHANGED <<mem, bits, reg, hw, before>>

Preview == \/ Configure \/ PreviewStart \/ PreviewForce \/ PreviewWait \/ PreviewOther
           \/ PreviewTransfer

-----------------------------------------------------------------------------
ReadoutEnds ==
    /\ hw = "reading" /\ hw' = "idle"
    /\ UNCHANGED <<board, eeprom, ram, mem, bits, reg, mainVars, wpc, crashes, histVars>>

HardwareTrigger ==
    /\ hw = "rolling" /\ bits \cap {ENABLE_TRIGGER1, ENABLE_TRIGGER2} # {} /\ hw' = "reading"
    /\ UNCHANGED <<board, eeprom, ram, mem, bits, reg, mainVars, wpc, crashes, histVars>>

(* A new board, or one calibrated in the factory: at 700 MHz, timing too.   *)
Contents(b) ==
    [p \in 0 .. 2 |-> [w \in Words(b.type, p) |->
        IF w = "serial" THEN 1
        ELSE IF b.blank \/ w = "range" THEN 0
        ELSE IF w = "tfreq" THEN 7 ELSE 1]]

Init ==
    /\ board \in Boards
    /\ eeprom = Contents(board) /\ ram = Wave /\ mem = NoMemory
    /\ bits = {} /\ reg = [frequency |-> 0, range |-> 0] /\ hw = "idle"
    /\ mpc = "init" /\ at = 1 /\ buf = Wave /\ saved = NoLocals
    /\ gen = 1 /\ wpc = "none" /\ crashes = 0
    /\ last = [k \in Kind |-> IF board.blank THEN 0 ELSE 1]
    /\ torn = FALSE /\ before = NoBefore

Main == Boot \/ Calibrated \/ MainOp \/ Calibrate

Next == Main \/ Spin \/ Preview \/ ReadoutEnds \/ HardwareTrigger \/ Crash

Spec == Init /\ [][Next]_vars

(* The main thread polls all the time, so it sees that a board is idle      *)
(* between a readout of the preview and its next start.                     *)
FairSpec == Spec /\ WF_vars(Main) /\ SF_vars(Spin) /\ WF_vars(Preview) /\ WF_vars(ReadoutEnds)

-----------------------------------------------------------------------------
StoredTime == eeprom[TimingPage(board.type)]["dt"]

(* The EEPROM never claims a calibration whose tables it does not hold,     *)
(* wherever the process ends: headers are written after their tables and no *)
(* page is written over with an older one.                                  *)
HeaderNotAhead ==
    ~torn => LET header == eeprom[0]
             IN  /\ eeprom[1]["v1"] >= header["vmeth"] /\ eeprom[2]["v2"] >= header["vmeth"]
                 /\ StoredTime >= header["tmeth"]
                 /\ header["tmeth"] > 0 => header["tfreq"] > 0

AtRest == mpc = "idle"

(* ReadCalibration() loads no timing without a voltage calibration, so the  *)
(* first of these, whose Init() calls it, loses an earlier timing           *)
(* calibration from memory until the next restart.                          *)
TimingForgotten == board.blank /\ StoredTime < eeprom[0]["vmeth"]

(* A calibration that ended is not lost: not by the other kind of           *)
(* calibration, not by a crash in the middle of a later one, not by a       *)
(* restart; nor is the serial number that shares its page.                  *)
CompletedKept ==
    (AtRest /\ ~torn) =>
        /\ eeprom[0]["serial"] = 1
        /\ mem.v1 >= last["volt"] /\ mem.v2 >= last["volt"]
        /\ StoredTime >= last["timing"]
        /\ (last["volt"] > 0 /\ last["timing"] > 0 /\ ~TimingForgotten)
              => /\ mem.dt >= last["timing"] /\ mem.rest >= last["timing"]
                 /\ mem.valid /\ mem.tfreq > 0

(* Between calibrations the program corrects with what a restart would load.*)
(* Before the first voltage calibration a restart loads nothing.            *)
MemoryIsStored ==
    (AtRest /\ ~torn /\ eeprom[0]["vmeth"] > 0) =>
        /\ mem.v1 = eeprom[1]["v1"] /\ mem.v2 = eeprom[2]["v2"]
        /\ mem.valid /\ (before.alone => mem.range = eeprom[0]["range"])
        /\ ~TimingForgotten =>
              /\ mem.dt = StoredTime /\ mem.rest = StoredTime
              /\ (eeprom[0]["tmeth"] > 0 /\ before.alone) => mem.tfreq = eeprom[0]["tfreq"]

(* GetTrueFrequency() divides by the sum of the cell widths when the board  *)
(* runs at the frequency of its timing calibration; the preview calls it in *)
(* the middle of a calibration too, and the widths are then never all zero, *)
(* unless the preview itself sets the frequency while they are, or the      *)
(* calibration was made at the very 1 GHz that Init() begins with.          *)
TrueFrequencyDefined ==
    (mem.nominal = mem.tfreq /\ mem.nominal # Default /\ before.alone) => mem.dt # 0

(* A calibration that is not disturbed gives the board back with the        *)
(* frequency, range, triggers, calibration clock and transparent mode it    *)
(* found.                                                                   *)
ConfigurationKept ==
    [][(Calibrated /\ before.alone) =>
          /\ bits \cap Kept = before.bits /\ reg = before.reg
          /\ mem.nominal = before.reg.frequency]_vars

(* Although it polls without a limit and the preview restarts the board     *)
(* under it, a calibration ends, unless the preview waits for triggers that *)
(* the calibration has disabled.                                            *)
CalibrationEnds ==
    (mpc \in Kind /\ ~(board.mode = "Normal" /\ board.master)) ~> mpc \notin Kind
=============================================================================
