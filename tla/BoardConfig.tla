---------------------------- MODULE BoardConfig ----------------------------
(***************************************************************************)
(* The configuration of the master board: apply_board_config(), which      *)
(* writes the operator's settings from the ODB to the board.  The main     *)
(* thread runs it from the ODB watches and from begin_of_run(); the live   *)
(* preview runs it when it starts and when it sees one of the settings it  *)
(* compares change.  Nothing keeps the two apart: they share fCtrlBits,    *)
(* and each also pulses it to start and trigger the board.                 *)
(*                                                                         *)
(* A thread executes calls of setters (CtrlReg); a call reads its settings *)
(* when it begins and then is its steps.                                   *)
(***************************************************************************)
EXTENDS CtrlReg, FiniteSets

CONSTANTS
    Scenarios,   \* what to consider: the board's type and whether its firmware is 21699
                 \*   or later; the settings when the front end starts; which of them the
                 \*   operator changes; and, as bounds, how many changes and runs
    MaxChanges,  \* the most changes of a scenario
    Default,     \* the settings of create_board_defaults()
    Alternative  \* Alternative[k]: another value of setting k

Setting == {"TriggerMode", "InputRange", "TranspMode", "DominoActive",
            "TriggerPolarity", "ReadoutMode", "EnableTcal", "EnableCH",
            "TriggerLogic", "EnableEXT", "Sampling Rate", "TriggerDelayNs",
            "TriggerLevel"}

ASSUME ConfigAssumption ==
    /\ \A s \in Scenarios : /\ s.type \in EvaluationBoard /\ s.newFw \in BOOLEAN
                            /\ DOMAIN s.odb = Setting /\ s.may \subseteq Setting
                            /\ s.changes \in 0..MaxChanges /\ s.runs \in Nat
    /\ MaxChanges \in Nat
    /\ DOMAIN Default = Setting /\ DOMAIN Alternative = Setting

Thread == {"main", "worker"}

VARIABLES
    type, newFw,  \* GetBoardType(), GetFirmwareVersion() >= 21699
    may,          \* the settings the operator may change
    odb,          \* the settings in the ODB
    watched,      \* changes the watches have still to be called for
    bits, ctrl,   \* fCtrlBits, and REG_CTRL as last sent
    reg,          \* the other registers and DACs
    th,           \* th[t]: the calls and steps t has to do, the word it loaded,
                  \*        and `freq` of apply_board_config()
    mpc,          \* what the main thread is doing
    wpc,          \* what the worker is doing
    prev,         \* prev_*: the settings the preview compares
    active, inEnd,\* m_run_active, m_in_end_of_run
    changes, runs,\* how many there may still be
    alone,        \* history: the threads whose current apply_board_config() nothing
                  \*   has disturbed
    settled,      \* history: the last apply_board_config() ended undisturbed
    followed      \* history: one was completed since the run became active

boardVars == <<type, newFw, may>>
hwVars == <<bits, ctrl, reg>>
boundVars == <<changes, runs>>
histVars == <<alone, settled, followed>>
vars == <<boardVars, odb, watched, hwVars, th, mpc, wpc, prev, active, inEnd,
          boundVars, histVars>>

-----------------------------------------------------------------------------
Compared == {"TriggerMode", "TriggerLogic", "TriggerLevel", "EnableCH"}

(* OR in bits 0 to 4, AND in bits 8 to 12; the last is the LEMO input.      *)
SourceMask(s) ==
    LET offset == IF s["TriggerLogic"] = "AND" THEN 8 ELSE 0
    IN  {ch + offset : ch \in s["EnableCH"]}
          \cup IF s["EnableEXT"] THEN {4 + offset} ELSE {}

InRange(freq) == freq # "off"

(* Mutated form: the trigger source before the decimation.                  *)
ApplyCallsSourceFirst ==
    <<"begin", "SetInputRange", "SetTriggerSource", "SetDecimation", "SetTranspMode",
      "SetDominoActive", "SetTriggerPolarity", "SetReadoutMode", "EnableTcal",
      "EnableTrigger", "SetFrequency", "SetDominoMode", "SetTriggerDelayNs",
      "SetIndividualTriggerLevel", "EnableAcal", "end">>

(* The calls of apply_board_config(), in order.                             *)
ApplyCalls ==
    <<"begin", "SetInputRange", "SetDecimation", "SetTranspMode", "SetDominoActive",
      "SetTriggerPolarity", "SetReadoutMode", "EnableTcal", "EnableTrigger",
      "SetTriggerSource", "SetFrequency", "SetDominoMode", "SetTriggerDelayNs",
      "SetIndividualTriggerLevel", "EnableAcal", "end">>

(* The steps of a call, with the settings s and the caller's freq.          *)
Steps(call, s, freq) ==
    CASE call = "SetInputRange"      -> SetInputRange(s["InputRange"])
      [] call = "SetDecimation"      -> SetDecimation(FALSE)
      [] call = "SetTranspMode"      -> SetTranspMode(newFw /\ s["TranspMode"])
      [] call = "SetDominoActive"    -> SetDominoActive(s["DominoActive"])
      [] call = "SetTriggerPolarity" -> SetTriggerPolarity(s["TriggerPolarity"] = "FALLING")
      [] call = "SetReadoutMode"     -> SetReadoutMode(s["ReadoutMode"] = "FROM_STOP")
      [] call = "EnableTcal"         -> EnableTcal(type, s["EnableTcal"], FALSE)
      [] call = "EnableTrigger"      -> EnableTrigger(type \in {8, 9}, type \notin {8, 9})
      [] call = "SetTriggerSource"   -> SetTriggerSource(type, SourceMask(s))
      [] call = "SetFrequency"       -> SetFrequency(s["Sampling Rate"], InRange(s["Sampling Rate"]))
      [] call = "SetDominoMode"      -> SetDominoMode(1)
      [] call = "SetTriggerDelayNs"  -> SetTriggerDelay(<<freq, s["TriggerDelayNs"]>>)
      [] call = "SetIndividualTriggerLevel" ->
                                        SetIndividualTriggerLevels(type, s["TriggerLevel"])
      [] call = "EnableAcal"         -> EnableAcalOff(type)
      [] call = "StartDomino"        -> StartDomino
      [] call = "SoftTrigger"        -> SoftTrigger
      [] OTHER                       -> << >>

Busy(t) == \/ th[t].calls # << >>
           \/ th[t].todo # << >>
Run(t, calls) == th' = [th EXCEPT ![t].calls = calls]

-----------------------------------------------------------------------------
(* A thread's next call begins: its settings are read.  Whoever else is at  *)
(* work on the board disturbs an apply_board_config(), and is disturbed by  *)
(* what this call does.                                                     *)
Call(t) ==
    /\ th[t].todo = << >> /\ th[t].calls # << >>
    /\ LET call == Head(th[t].calls)
           freq == CASE call = "SetFrequency" -> odb["Sampling Rate"]
                     [] call = "end"          -> "unset"
                     [] OTHER                 -> th[t].freq
       IN  /\ th' = [th EXCEPT ![t].calls = Tail(@), ![t].freq = freq,
                               ![t].todo = Steps(call, odb, freq)]
           /\ alone' = CASE call = "begin" -> IF \E u \in Thread \ {t} : Busy(u)
                                              THEN {} ELSE {t}
                         [] OTHER          -> alone \cap {t}
           /\ settled' = CASE call = "begin" -> FALSE
                           [] call = "end"   -> t \in alone
                           [] OTHER          -> settled
           /\ followed' = (followed \/ (call = "end" /\ t = "main" /\ wpc \in {"readout", "wait"}))
    /\ UNCHANGED <<boardVars, odb, watched, hwVars, mpc, wpc, prev, active, inEnd, boundVars>>

(* One step of the call a thread is in.                                     *)
Step(t) ==
    /\ th[t].todo # << >>
    /\ LET s == Head(th[t].todo)
       IN  /\ bits' = IF s.op = "store" THEN (th[t].bits \ s.clear) \cup s.set ELSE bits
           /\ ctrl' = IF s.op = "send" THEN bits ELSE ctrl
           /\ reg'  = IF s.op = "put" THEN [reg EXCEPT ![s.reg] = s.val] ELSE reg
           /\ th'   = [th EXCEPT ![t].todo = Tail(@),
                                 ![t].bits = IF s.op = "load" THEN bits ELSE {}]
    /\ alone' = alone \cap {t}
    /\ settled' = (settled /\ \A u \in Thread \ {t} : th[u].todo = << >>)
    /\ UNCHANGED <<boardVars, odb, watched, mpc, wpc, prev, active, inEnd, boundVars, followed>>

-----------------------------------------------------------------------------
(* The operator changes a setting; a watch is called for it later.          *)
Change ==
    /\ changes > 0 /\ changes' = changes - 1
    /\ \E k \in may :
          odb' = [odb EXCEPT ![k] = IF @ = Default[k] THEN Alternative[k] ELSE Default[k]]
    /\ watched' = watched + 1
    /\ alone' = {} /\ settled' = FALSE
    /\ UNCHANGED <<boardVars, hwVars, th, mpc, wpc, prev, active, inEnd, runs, followed>>

(* init(): scan_boards() has initialised the board; the preview is started. *)
Boot ==
    /\ mpc = "init" /\ ~Busy("main")
    /\ mpc' = "idle" /\ wpc' = "first"
    /\ Run("worker", ApplyCalls)
    /\ UNCHANGED <<boardVars, odb, watched, hwVars, prev, active, inEnd, boundVars, histVars>>

Watch ==
    /\ mpc = "idle" /\ watched > 0
    /\ mpc' = "watch" /\ watched' = watched - 1
    /\ Run("main", ApplyCalls)
    /\ UNCHANGED <<boardVars, odb, hwVars, wpc, prev, active, inEnd, boundVars, histVars>>

WatchEnd ==
    /\ mpc = "watch" /\ ~Busy("main") /\ mpc' = "idle"
    /\ UNCHANGED <<boardVars, odb, watched, hwVars, th, wpc, prev, active, inEnd,
                   boundVars, histVars>>

BeginOfRun ==
    /\ mpc = "idle" /\ ~active /\ runs > 0
    /\ runs' = runs - 1 /\ mpc' = "begin"
    /\ Run("main", Append(ApplyCalls, "StartDomino"))
    /\ followed' = FALSE
    /\ UNCHANGED <<boardVars, odb, watched, hwVars, wpc, prev, active, inEnd, changes,
                   alone, settled>>

BeginActive ==
    /\ mpc = "begin" /\ ~Busy("main")
    /\ active' = TRUE /\ mpc' = "beginJoin"
    /\ UNCHANGED <<boardVars, odb, watched, hwVars, th, wpc, prev, inEnd, boundVars, histVars>>

(* Mutated form: readout_loop() applies the configuration when it starts.   *)
BeginJoinApplies ==
    /\ mpc = "beginJoin" /\ wpc = "done"
    /\ mpc' = "idle" /\ wpc' = "readout"
    /\ Run("worker", ApplyCalls)
    /\ UNCHANGED <<boardVars, odb, watched, hwVars, prev, active, inEnd, boundVars, histVars>>

BeginJoin ==
    /\ mpc = "beginJoin" /\ wpc = "done"
    /\ mpc' = "idle" /\ wpc' = "readout"
    /\ UNCHANGED <<boardVars, odb, watched, hwVars, th, prev, active, inEnd, boundVars, histVars>>

EndOfRun ==
    /\ mpc = "idle" /\ active
    /\ inEnd' = TRUE /\ mpc' = "endJoin"
    /\ UNCHANGED <<boardVars, odb, watched, hwVars, th, wpc, prev, active, boundVars, histVars>>

EndJoin ==
    /\ mpc = "endJoin" /\ wpc = "done"
    /\ active' = FALSE /\ inEnd' = FALSE
    /\ mpc' = "idle" /\ wpc' = "first"
    /\ Run("worker", ApplyCalls)
    /\ UNCHANGED <<boardVars, odb, watched, hwVars, prev, boundVars, histVars>>

-----------------------------------------------------------------------------
Comparable == [k \in Compared |-> odb[k]]

(* live_preview_loop() has applied the configuration and notes prev_*.      *)
PreviewFirst ==
    /\ wpc = "first" /\ ~Busy("worker")
    /\ wpc' = "loop" /\ prev' = Comparable
    /\ UNCHANGED <<boardVars, odb, watched, hwVars, th, mpc, active, inEnd, boundVars, histVars>>

PreviewEnd ==
    /\ wpc \in {"loop", "readout", "wait"} /\ ~Busy("worker")
    /\ inEnd \/ (wpc = "loop" /\ active)
    /\ wpc' = "done"
    /\ UNCHANGED <<boardVars, odb, watched, hwVars, th, mpc, prev, active, inEnd,
                   boundVars, histVars>>

(* An iteration: a compared setting that changed has the configuration      *)
(* applied again, and then the board is started.                            *)
PreviewCompare ==
    /\ wpc = "loop" /\ ~Busy("worker") /\ ~inEnd /\ ~active
    /\ prev' = Comparable /\ wpc' = "capture"
    /\ IF prev' # prev THEN Run("worker", ApplyCalls) ELSE UNCHANGED th
    /\ UNCHANGED <<boardVars, odb, watched, hwVars, mpc, active, inEnd, boundVars, histVars>>

(* Normal waits for a trigger, unless the preview is to end; Auto forces it.*)
PreviewCapture ==
    /\ wpc = "capture" /\ ~Busy("worker")
    /\ wpc' = "loop"
    /\ IF prev["TriggerMode"] # "Normal"
       THEN Run("worker", <<"StartDomino", "SoftTrigger">>)
       ELSE Run("worker", IF inEnd \/ active THEN << >> ELSE <<"StartDomino">>)
    /\ UNCHANGED <<boardVars, odb, watched, hwVars, mpc, prev, active, inEnd, boundVars, histVars>>

(* readout_loop() starts the board and waits for a trigger, which in Auto   *)
(* mode it forces after a while.                                            *)
Readout ==
    /\ wpc = "readout" /\ ~Busy("worker") /\ ~inEnd
    /\ wpc' = "wait" /\ Run("worker", <<"StartDomino">>)
    /\ UNCHANGED <<boardVars, odb, watched, hwVars, mpc, prev, active, inEnd, boundVars, histVars>>

ReadoutWait ==
    /\ wpc = "wait" /\ ~Busy("worker") /\ wpc' = "readout"
    /\ \/ UNCHANGED th
       \/ /\ odb["TriggerMode"] = "Auto" /\ ~inEnd
          /\ Run("worker", <<"SoftTrigger">>)
    /\ UNCHANGED <<boardVars, odb, watched, hwVars, mpc, prev, active, inEnd, boundVars, histVars>>

-----------------------------------------------------------------------------
Init ==
    /\ \E s \in Scenarios : /\ type = s.type /\ newFw = s.newFw /\ odb = s.odb /\ may = s.may
                            /\ changes = s.changes /\ runs = s.runs
    /\ watched = 0
    /\ bits = {} /\ ctrl = {} /\ reg = [r \in Register |-> "unset"]
    /\ th = [t \in Thread |-> [calls |-> << >>, bits |-> {}, freq |-> "unset",
                todo |-> IF t = "main" THEN BoardInit(type, "calibrated", "calibrated") ELSE << >>]]
    /\ mpc = "init" /\ wpc = "none" /\ prev = Comparable
    /\ active = FALSE /\ inEnd = FALSE
    /\ alone = {} /\ settled = FALSE /\ followed = FALSE

MainStep == \/ Boot \/ Watch \/ WatchEnd \/ BeginOfRun \/ BeginActive \/ BeginJoin
            \/ EndOfRun \/ EndJoin

WorkerStep == \/ PreviewFirst \/ PreviewEnd \/ PreviewCompare \/ PreviewCapture
              \/ Readout \/ ReadoutWait

Next == Change \/ MainStep \/ WorkerStep \/ \E t \in Thread : Call(t) \/ Step(t)

Spec == Init /\ [][Next]_vars

-----------------------------------------------------------------------------
(* On type 9 the calibration clock reaches the chip through the switch of   *)
(* the calibration voltage ("Enable clock a switch channel multiplexers").  *)
ClockSwitched == type = 9 /\ odb["EnableTcal"]

(* The control bits the settings ask for, polarity and clock source apart.  *)
Wanted ==
    LET Flag(bit, on) == IF on THEN {bit} ELSE {}
    IN  Flag(ACAL_EN, ClockSwitched)
          \cup Flag(TRANSP_MODE, newFw /\ odb["TranspMode"])
          \cup Flag(DACTIVE, odb["DominoActive"])
          \cup Flag(READOUT_MODE, odb["ReadoutMode"] = "FROM_STOP")
          \cup Flag(TCAL_EN, odb["EnableTcal"])
          \cup IF type \in {8, 9} THEN {ENABLE_TRIGGER1}
               ELSE {ENABLE_TRIGGER2} \cup Flag(TR_SOURCE1, 0 \in SourceMask(odb))
                                      \cup Flag(TR_SOURCE2, 1 \in SourceMask(odb))

RegistersFollow ==
    /\ reg["range"] = odb["InputRange"]
    /\ reg["delay"] = <<odb["Sampling Rate"], odb["TriggerDelayNs"]>>
    /\ InRange(odb["Sampling Rate"]) => reg["frequency"] = odb["Sampling Rate"]
    /\ type \in {8, 9} => /\ reg["trigger"] = SourceMask(odb)
                          /\ reg["levels"] = odb["TriggerLevel"]

(* The bits in which an apply_board_config() does not do what is wanted, or *)
(* which no setting speaks of: where the clock is to be switched its last   *)
(* call takes the switch away again (ClockReachesInputs).                   *)
Apart == {NEG_TRIGGER, TCAL_SOURCE} \cup Trigs \cup IF ClockSwitched THEN {ACAL_EN} ELSE {}

(* An apply_board_config() that nothing disturbs brings the board in line   *)
(* with the settings, whatever was configured, pulsed or lost before, and   *)
(* captures do not change that: the setters share bits by board type, so it *)
(* takes their order, and a pulse bit a race left over goes too.  Excepted  *)
(* are the switch of the calibration clock on type 9, and the polarity on   *)
(* the other types: there EnableTcal() uses its bit for the calibration     *)
(* signal, and clears it.                                                   *)
ConfigurationInEffect ==
    settled =>
        /\ RegistersFollow
        /\ bits \ Apart = Wanted \ Apart
        /\ ctrl \ Apart = Wanted \ Apart
        /\ type = 9 => (NEG_TRIGGER \in ctrl <=> odb["TriggerPolarity"] = "FALLING")
        /\ (InRange(odb["Sampling Rate"]) /\ \A t \in Thread : ~Busy(t)) => bits \cap Trigs = {}

(* DRS.cpp 4100: "Enable clock a switch channel multiplexers".  With        *)
(* EnableTcal set an undisturbed apply_board_config() leaves the clock on   *)
(* and switched to the chip.  Not so: its last call, EnableAcal(0, 0), is   *)
(* meant for the calibration voltage and opens the switch.                  *)
ClockReachesInputs == settled /\ ClockSwitched => {TCAL_EN, ACAL_EN} \subseteq ctrl

(* During a run a watch that has ended leaves thresholds, trigger source,   *)
(* frequency, delay and range as the operator last set them: no older value *)
(* is written after it, because the readout loop starts and triggers boards *)
(* only and the preview was joined.                                         *)
RunFollowsSettings ==
    (followed /\ wpc \in {"readout", "wait"} /\ watched = 0 /\ ~Busy("main")) => RegistersFollow

(* drs_frontend_class.cxx 364: "DominoActive: AlwaysRunning keeps domino    *)
(* rolling".  Not so when both threads change fCtrlBits.                    *)
DominoKeepsRolling ==
    (mpc = "idle" /\ watched = 0 /\ odb["DominoActive"] /\ \A t \in Thread : ~Busy(t))
        => DACTIVE \in ctrl
=============================================================================
