------------------------------ MODULE CtrlReg ------------------------------
(***************************************************************************)
(* The control register of a board and the setters of DRS.cpp that write   *)
(* it.  A setter changes bits of fCtrlBits, which is a plain variable, and *)
(* then sends the whole word; it is here the sequence of steps that other  *)
(* threads can come between:                                               *)
(*     load, store   one `fCtrlBits |= ...` or `&= ~...`                   *)
(*     send          Write(T_CTRL, REG_CTRL, &fCtrlBits, 4), which reads   *)
(*                   fCtrlBits under s_drsMutex                            *)
(*     put           a Write() of another register                         *)
(* Bits are named by their numbers, so that bits with two names alias.     *)
(* The members that only getters return (fTcalFreq, fDominoActive, ...)    *)
(* are left out.                                                           *)
(***************************************************************************)
EXTENDS Integers, Sequences

START_TRIG == 0
REINIT_TRIG == 1
SOFT_TRIG == 2
EEPROM_READ_TRIG == 4
TCAL_EN == 19
TCAL_SOURCE == 20
TRANSP_MODE == 21
ENABLE_TRIGGER1 == 22
READOUT_MODE == 23
NEG_TRIGGER == 24
ACAL_EN == 25
DACTIVE == 27
DECIMATION == 29
TR_SOURCE1 == 29
TR_SOURCE2 == 30
ENABLE_TRIGGER2 == 31

Bit == 0 .. 31
Trigs == {START_TRIG, REINIT_TRIG, SOFT_TRIG, EEPROM_READ_TRIG}
Register == {"trigger", "frequency", "dominoMode", "range", "delay", "levels", "calib", "page"}

EvaluationBoard == {5, 7, 8, 9}    \* the board types this front end drives

-----------------------------------------------------------------------------
Load == [op |-> "load"]
Store(set, clear) == [op |-> "store", set |-> set, clear |-> clear]
Send == [op |-> "send"]
Put(r, v) == [op |-> "put", reg |-> r, val |-> v]

Update(set, clear) == <<Load, Store(set, clear)>>
Assign(bit, flag) == IF flag THEN Update({bit}, {}) ELSE Update({}, {bit})
Switch(bit, flag) == Append(Assign(bit, flag), Send)
Pulse(bit) == Switch(bit, TRUE) \o Update({}, {bit})

StartDomino == Pulse(START_TRIG)
SoftTrigger == Pulse(SOFT_TRIG)
Reinit == Pulse(REINIT_TRIG)

SetDecimation(flag) == Switch(DECIMATION, flag)
SetTranspMode(flag) == Switch(TRANSP_MODE, flag)
SetDominoActive(mode) == Switch(DACTIVE, mode)
SetReadoutMode(mode) == Switch(READOUT_MODE, mode)
SetTriggerPolarity(negative) == Switch(NEG_TRIGGER, negative)

EnableTrigger(flag1, flag2) ==
    Assign(ENABLE_TRIGGER1, flag1) \o Switch(ENABLE_TRIGGER2, flag2)

(* On type 9 the clock comes through the calibration switches; on the       *)
(* others the level shares its bit with the trigger polarity.               *)
EnableTcal(type, freq, level) ==
    IF type = 9
    THEN IF freq THEN Append(Update({TCAL_EN, ACAL_EN}, {}), Send)
                 ELSE Append(Update({}, {TCAL_EN, ACAL_EN}), Send)
    ELSE (IF freq THEN Update({TCAL_EN}, {}) ELSE Update({}, {TCAL_EN, TCAL_SOURCE}))
           \o Switch(NEG_TRIGGER, level)

SelectClockSource(type, source) ==
    IF type <= 8 THEN Switch(TCAL_SOURCE, source) ELSE << >>

(* EnableAcal(0, 0): the calibration voltage is turned off on type 5 and    *)
(* goes to the common mode on the others.                                   *)
EnableAcalOff(type) ==
    <<Put("calib", IF type = 5 THEN "zero" ELSE "common")>> \o Switch(ACAL_EN, FALSE)

(* EnableAcal(1, voltage): the calibration voltage is switched to the chip.  *)
EnableAcalStatic == <<Put("calib", "static")>> \o Switch(ACAL_EN, TRUE)

(* The source is a channel number on types 5 and 7 and a mask on 8 and 9.   *)
SetTriggerSource(type, source) ==
    IF type \in {5, 7}
    THEN Assign(TR_SOURCE1, 0 \in source) \o Switch(TR_SOURCE2, 1 \in source)
    ELSE <<Put("trigger", source)>>

(* Out of 0.1 ... 6 GHz nothing is written.  The wait for the PLL ends      *)
(* after 1000 polls, locked or not, and the trigger follows.                *)
SetFrequency(demand, inRange) ==
    IF inRange THEN <<Put("frequency", demand)>> \o StartDomino \o SoftTrigger
               ELSE << >>

SetDominoMode(mode) == <<Put("dominoMode", mode)>>
SetInputRange(center) == <<Put("range", center)>>
SetTriggerDelay(delay) == <<Put("delay", delay)>>

SetIndividualTriggerLevels(type, levels) ==
    IF type \in {8, 9} THEN <<Put("levels", levels)>> ELSE << >>

(* The EEPROM is read a page at a time into the board's RAM.                *)
ReadEEPROM(page) == <<Put("page", page)>> \o Pulse(EEPROM_READ_TRIG)
ReadCalibration == ReadEEPROM(0) \o ReadEEPROM(1) \o ReadEEPROM(2)

(* Init() of an evaluation board: all settings to their defaults, frequency *)
(* and range to those of the calibration, and the board stopped.            *)
BoardInit(type, calFrequency, calRange) ==
    Reinit \o <<Put("calib", "common")>> \o SetInputRange("default")
      \o ReadCalibration \o SetDominoMode(1) \o SetReadoutMode(TRUE) \o EnableTrigger(FALSE, FALSE)
      \o SetTriggerSource(type, {}) \o SetTriggerDelay("none") \o SetDominoActive(TRUE)
      \o SetFrequency(calFrequency, TRUE) \o SetInputRange(calRange)
      \o SelectClockSource(type, FALSE) \o EnableAcalOff(type)
      \o EnableTcal(type, FALSE, FALSE) \o Reinit
=============================================================================
