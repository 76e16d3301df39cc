-------------------------- MODULE CalibrationProof --------------------------
(***************************************************************************)
(* Proofs about Calibration, for every set of boards, any plan of          *)
(* calibrations, any number of measurements and of crashes.                *)
(*                                                                         *)
(* The programs come first: which access lies at which place (InitPlace,   *)
(* VoltPlace, TimingPlace), and so where the main thread is when it makes  *)
(* one (the lemmas At... and ...Landmarks).  The invariants then relate    *)
(* the place to the data:                                                  *)
(*   Shape          types, and how far a handler can be                    *)
(*   Configuration  what was saved, what is in force and what is restored  *)
(*   Transfers      the pages on their way between EEPROM, RAM and caller  *)
(*   Stored, Burnt  what the EEPROM holds, before and after each write     *)
(*   Measuring      the tables and the frequency being measured            *)
(*   Remembering    what Init() has loaded, and what is still of it        *)
(*   NoEmptyWidths, TrueFrequency  no frequency without cell widths        *)
(***************************************************************************)
EXTENDS Calibration, SequenceTheorems, TLAPS

LEMMA InitLength ==
    ASSUME NEW type \in EvaluationBoard
    PROVE  Len(InitOps(type)) = 21
BY DEF InitOps, ReadCalibrationOps, Read

LEMMA InitAt ==
    ASSUME NEW type \in EvaluationBoard
    PROVE  LET P == InitOps(type)
           IN  /\ P[1] = Do("reinit") /\ P[2] = Do("defaults") /\ P[3] = Do("forget")
               /\ P[4] = Fetch(0) /\ P[5] = Do("get")
               /\ P[6] = Judged(9)
               /\ P[7] = Fetch(1) /\ P[8] = Do("get")
               /\ P[9] = Taken({"v1"})
               /\ P[10] = Fetch(2) /\ P[11] = Do("get")
               /\ P[12] = Taken({"v2"})
               /\ P[13] = Fetch(TimingPage(type)) /\ P[14] = Do("get")
               /\ P[15] = Taken({"dt", "rest"})
               /\ P[16] = Do("adopt") /\ P[17] = DefaultSetters(type)
               /\ P[18] = Do("start") /\ P[19] = Do("soft")
               /\ P[20] = ClockSetters(type) /\ P[21] = Do("reinit")
<1> DEFINE P == InitOps(type)
<1>1. /\ P[1] = Do("reinit") /\ P[2] = Do("defaults") /\ P[3] = Do("forget")
      /\ P[4] = Fetch(0) /\ P[5] = Do("get")
  BY DEF InitOps, ReadCalibrationOps, Read
<1>2. P[6] = Judged(9)
  BY DEF InitOps, ReadCalibrationOps, Read
<1>3. /\ P[7] = Fetch(1) /\ P[8] = Do("get")
      /\ P[9] = Taken({"v1"})
      /\ P[10] = Fetch(2) /\ P[11] = Do("get")
      /\ P[12] = Taken({"v2"})
  BY DEF InitOps, ReadCalibrationOps, Read
<1>4. /\ P[13] = Fetch(TimingPage(type)) /\ P[14] = Do("get")
      /\ P[15] = Taken({"dt", "rest"})
      /\ P[16] = Do("adopt")
  BY DEF InitOps, ReadCalibrationOps, Read
<1>5. P[17] = DefaultSetters(type)
  BY DEF InitOps, ReadCalibrationOps, Read
<1>6. P[18] = Do("start") /\ P[19] = Do("soft")
  BY DEF InitOps, ReadCalibrationOps, Read
<1>7. P[20] = ClockSetters(type)
  BY DEF InitOps, ReadCalibrationOps, Read
<1>8. P[21] = Do("reinit")
  BY DEF InitOps, ReadCalibrationOps, Read
<1> QED BY <1>1, <1>2, <1>3, <1>4, <1>5, <1>6, <1>7, <1>8

LEMMA SweepLength == Len(Repeat(ReadSingleWaveform)) = 4 * Events
BY CalibrationAssumption DEF Repeat, ReadSingleWaveform

Poll == {"start", "soft", "spin", "transfer"}

LEMMA SweepAt ==
    ASSUME NEW n \in 1 .. 4 * Events
    PROVE  Repeat(ReadSingleWaveform)[n].do \in Poll
BY CalibrationAssumption DEF Repeat, ReadSingleWaveform, Do, Poll

Swept == 35 + 12 * Events       \* the measurements of a voltage calibration end
Cycled == 32 + 5 * Events       \* the events of a timing calibration end
Extra(type) == IF type = 9 THEN 2 ELSE 0    \* type 9 reads page 2 before it writes it
Late(type) == IF type = 9 THEN 5 ELSE 0     \* type 9 stores two pages

Setters(type) ==
    {DefaultSetters(type), ClockSetters(type), DominoSetters, InternalSetters(type),
     OffsetSetters(type), GainSetters(type), TimingSetters(type), Setter(EnableAcalOff(type))}

(* An access that only changes settings, the domino wave and the RAM.       *)
Quiet(type, access) == access.do \in Poll \/ access \in Setters(type)

LEMMA MeasureVoltAt ==
    ASSUME NEW type \in EvaluationBoard
    PROVE  /\ Len(MeasureVolt(type)) = 2 + 8 * Events
           /\ \A n \in 1 .. 2 + 8 * Events : Quiet(type, MeasureVolt(type)[n])
<1>1. Len(MeasureVolt(type)) = 2 + 8 * Events
  BY SweepLength, CalibrationAssumption DEF MeasureVolt
<1>2. ASSUME NEW n \in 1 .. 2 + 8 * Events
      PROVE  Quiet(type, MeasureVolt(type)[n])
  <2>1. \/ MeasureVolt(type)[n] \in {OffsetSetters(type), GainSetters(type)}
        \/ MeasureVolt(type)[n].do \in Poll
    BY SweepLength, SweepAt, CalibrationAssumption DEF MeasureVolt
  <2> QED BY <2>1 DEF Quiet, Setters
<1> QED BY <1>1, <1>2

LEMMA SecondaryVoltAt ==
    ASSUME NEW type \in EvaluationBoard
    PROVE  LET P == SecondaryVolt(type)
           IN  /\ Len(P) = 2 + 4 * Events
               /\ \A n \in 1 .. 1 + 4 * Events : Quiet(type, P[n])
               /\ P[2 + 4 * Events] = Measured({"v2"})
<1> DEFINE P == SecondaryVolt(type)
<1>1. Len(P) = 2 + 4 * Events /\ P[2 + 4 * Events] = Measured({"v2"})
  BY SweepLength, CalibrationAssumption DEF SecondaryVolt
<1>2. ASSUME NEW n \in 1 .. 1 + 4 * Events
      PROVE  Quiet(type, P[n])
  <2>1. P[n] = OffsetSetters(type) \/ P[n].do \in Poll
    BY SweepLength, SweepAt, CalibrationAssumption DEF SecondaryVolt
  <2> QED BY <2>1 DEF Quiet, Setters
<1> QED BY <1>1, <1>2

LEMMA VoltLength ==
    ASSUME NEW type \in EvaluationBoard
    PROVE  Len(CalibrateVoltOps(type)) = Swept + 18 + Extra(type)
<1>1. CASE type = 9
  BY <1>1, SweepLength, CalibrationAssumption, SMTT(60) DEF CalibrateVoltOps, InitOps, ReadCalibrationOps,
     Read, Write, SetupOps, MeasureVolt, SecondaryVolt, StoreVolt, WriteHeader, Swept, Extra
<1>2. CASE type # 9
  BY <1>2, SweepLength, CalibrationAssumption, SMTT(60) DEF CalibrateVoltOps, InitOps, ReadCalibrationOps,
     Read, Write, SetupOps, MeasureVolt, SecondaryVolt, StoreVolt, WriteHeader, Swept, Extra
<1> QED BY <1>1, <1>2

LEMMA VoltOpening ==
    ASSUME NEW type \in EvaluationBoard
    PROVE  LET P == CalibrateVoltOps(type)
           IN  /\ P[1] = Do("save") /\ \A n \in 2 .. 22 : P[n] = InitOps(type)[n - 1]
               /\ P[23] = Do("nominal") /\ P[24] = Do("frequency")
               /\ P[25] = Do("start") /\ P[26] = Do("soft") /\ P[27] = DominoSetters
               /\ P[28] = Do("range") /\ P[29] = InternalSetters(type) /\ P[30] = Do("start")
<1> DEFINE P == CalibrateVoltOps(type)
<1>1. P[1] = Do("save") /\ P[23] = Do("nominal") /\ P[24] = Do("frequency")
  BY SweepLength, CalibrationAssumption, SMTT(60) DEF CalibrateVoltOps, InitOps, ReadCalibrationOps, Read,
     SetupOps
<1>2. /\ P[25] = Do("start") /\ P[26] = Do("soft") /\ P[27] = DominoSetters
      /\ P[28] = Do("range") /\ P[29] = InternalSetters(type) /\ P[30] = Do("start")
  BY SweepLength, CalibrationAssumption, SMTT(60) DEF CalibrateVoltOps, InitOps, ReadCalibrationOps, Read,
     SetupOps
<1>3. ASSUME NEW n \in 2 .. 22
      PROVE  P[n] = InitOps(type)[n - 1]
  BY SweepLength, CalibrationAssumption, SMTT(60) DEF CalibrateVoltOps, InitOps, ReadCalibrationOps, Read,
     SetupOps
<1> QED BY <1>1, <1>2, <1>3

LEMMA VoltMiddle ==
    ASSUME NEW type \in EvaluationBoard
    PROVE  LET P == CalibrateVoltOps(type)
           IN  /\ \A n \in 31 .. 32 + 8 * Events : Quiet(type, P[n])
               /\ P[33 + 8 * Events] = Measured({"v1"})
               /\ \A n \in 34 + 8 * Events .. Swept - 1 : Quiet(type, P[n])
               /\ P[Swept] = Measured({"v2"})
<1> DEFINE P == CalibrateVoltOps(type)
<1>1. ASSUME NEW n \in 1 .. 2 + 8 * Events
      PROVE  P[30 + n] = MeasureVolt(type)[n]
  BY SweepLength, CalibrationAssumption, SMTT(60) DEF CalibrateVoltOps, InitOps, ReadCalibrationOps, Read,
     SetupOps, MeasureVolt, SecondaryVolt
<1>2. P[33 + 8 * Events] = Measured({"v1"})
  BY SweepLength, CalibrationAssumption, SMTT(60) DEF CalibrateVoltOps, InitOps, ReadCalibrationOps, Read,
     SetupOps, MeasureVolt, SecondaryVolt
<1>3. ASSUME NEW n \in 1 .. 2 + 4 * Events
      PROVE  P[33 + 8 * Events + n] = SecondaryVolt(type)[n]
  BY SweepLength, CalibrationAssumption, SMTT(60) DEF CalibrateVoltOps, InitOps, ReadCalibrationOps, Read,
     SetupOps, MeasureVolt, SecondaryVolt
<1>4. ASSUME NEW n \in 31 .. 32 + 8 * Events
      PROVE  Quiet(type, P[n])
  <2> DEFINE k == n - 30
  <2>1. k \in 1 .. 2 + 8 * Events /\ n = 30 + k
    BY CalibrationAssumption
  <2> HIDE DEF k
  <2>2. P[n] = MeasureVolt(type)[k]
    BY <1>1, <2>1
  <2> QED BY <2>1, <2>2, MeasureVoltAt
<1>5. ASSUME NEW n \in 34 + 8 * Events .. Swept - 1
      PROVE  Quiet(type, P[n])
  <2> DEFINE k == n - (33 + 8 * Events)
  <2>1. k \in 1 .. 1 + 4 * Events /\ n = 33 + 8 * Events + k
    BY CalibrationAssumption DEF Swept
  <2> HIDE DEF k
  <2>2. P[n] = SecondaryVolt(type)[k]
    BY <1>3, <2>1, CalibrationAssumption
  <2> QED BY <2>1, <2>2, SecondaryVoltAt
<1>6. P[Swept] = Measured({"v2"})
  <2> DEFINE k == 2 + 4 * Events
  <2>1. k \in 1 .. 2 + 4 * Events /\ Swept = 33 + 8 * Events + k
    BY CalibrationAssumption DEF Swept
  <2>2. SecondaryVolt(type)[k] = Measured({"v2"})
    BY SecondaryVoltAt
  <2> HIDE DEF k
  <2> QED BY <1>3, <2>1, <2>2
<1> HIDE DEF P
<1> QED BY <1>2, <1>4, <1>5, <1>6 DEF P

LEMMA VoltEnding ==
    ASSUME NEW type \in EvaluationBoard
    PROVE  LET P == CalibrateVoltOps(type)
               x == Extra(type)
           IN  /\ P[Swept + 1] = Patch({"v1"}) /\ P[Swept + 2] = Fetch(1)
               /\ P[Swept + 3] = Fill(Words(type, 1))
               /\ P[Swept + 4] = BurnTo(1)
               /\ type = 9 => P[Swept + 5] = Fetch(2) /\ P[Swept + 6] = Do("get")
               /\ P[Swept + 5 + x] = Patch({"v2"}) /\ P[Swept + 6 + x] = Fetch(2)
               /\ P[Swept + 7 + x] = Fill(Words(type, 2))
               /\ P[Swept + 8 + x] = BurnTo(2)
               /\ P[Swept + 9 + x] = Fetch(0) /\ P[Swept + 10 + x] = Do("get")
               /\ P[Swept + 11 + x] = Patch({"vmeth", "range"})
               /\ P[Swept + 12 + x] = Fetch(0)
               /\ P[Swept + 13 + x] = FillHeader(type)
               /\ P[Swept + 14 + x] = BurnTo(0)
               /\ P[Swept + 15 + x] = Do("valid") /\ P[Swept + 16 + x] = Setter(EnableAcalOff(type))
               /\ P[Swept + 17 + x] = Do("tcal") /\ P[Swept + 18 + x] = Do("triggers")
<1> DEFINE P == CalibrateVoltOps(type)
<1>1. CASE type = 9
  <2>1. Words(type, 1) = {"v1"} /\ Words(type, 2) = {"v2", "dt"}
    BY <1>1 DEF Words, TimingPage
  <2>2. Swept \in Int /\ Extra(type) = 2
    BY <1>1, CalibrationAssumption DEF Swept, Extra
  <2>3. /\ P[Swept + 1] = Patch({"v1"}) /\ P[Swept + 2] = Fetch(1)
    BY <1>1, SweepLength, CalibrationAssumption, SMTT(60) DEF CalibrateVoltOps, InitOps,
       ReadCalibrationOps, Read, Write, SetupOps, MeasureVolt, SecondaryVolt, StoreVolt, WriteHeader, Swept
  <2>4. /\ P[Swept + 3] = Fill({"v1"})
        /\ P[Swept + 4] = BurnTo(1)
    BY <1>1, SweepLength, CalibrationAssumption, SMTT(60) DEF CalibrateVoltOps, InitOps,
       ReadCalibrationOps, Read, Write, SetupOps, MeasureVolt, SecondaryVolt, StoreVolt, WriteHeader, Swept
  <2>5. /\ P[Swept + 5] = Fetch(2) /\ P[Swept + 6] = Do("get")
    BY <1>1, SweepLength, CalibrationAssumption, SMTT(60) DEF CalibrateVoltOps, InitOps,
       ReadCalibrationOps, Read, Write, SetupOps, MeasureVolt, SecondaryVolt, StoreVolt, WriteHeader, Swept
  <2>6. /\ P[Swept + 7] = Patch({"v2"}) /\ P[Swept + 8] = Fetch(2)
    BY <1>1, SweepLength, CalibrationAssumption, SMTT(60) DEF CalibrateVoltOps, InitOps,
       ReadCalibrationOps, Read, Write, SetupOps, MeasureVolt, SecondaryVolt, StoreVolt, WriteHeader, Swept
  <2>7. /\ P[Swept + 9] = Fill({"v2", "dt"})
        /\ P[Swept + 10] = BurnTo(2)
    BY <1>1, SweepLength, CalibrationAssumption, SMTT(60) DEF CalibrateVoltOps, InitOps,
       ReadCalibrationOps, Read, Write, SetupOps, MeasureVolt, SecondaryVolt, StoreVolt, WriteHeader, Swept
  <2>8. /\ P[Swept + 11] = Fetch(0) /\ P[Swept + 12] = Do("get")
    BY <1>1, SweepLength, CalibrationAssumption, SMTT(60) DEF CalibrateVoltOps, InitOps,
       ReadCalibrationOps, Read, Write, SetupOps, MeasureVolt, SecondaryVolt, StoreVolt, WriteHeader, Swept
  <2>9. /\ P[Swept + 13] = Patch({"vmeth", "range"})
        /\ P[Swept + 14] = Fetch(0)
    BY <1>1, SweepLength, CalibrationAssumption, SMTT(60) DEF CalibrateVoltOps, InitOps,
       ReadCalibrationOps, Read, Write, SetupOps, MeasureVolt, SecondaryVolt, StoreVolt, WriteHeader, Swept
  <2>10. /\ P[Swept + 15] = FillHeader(type)
        /\ P[Swept + 16] = BurnTo(0)
    BY <1>1, SweepLength, CalibrationAssumption, SMTT(60) DEF CalibrateVoltOps, InitOps,
       ReadCalibrationOps, Read, Write, SetupOps, MeasureVolt, SecondaryVolt, StoreVolt, WriteHeader, Swept
  <2>11. /\ P[Swept + 17] = Do("valid") /\ P[Swept + 18] = Setter(EnableAcalOff(type))
        /\ P[Swept + 19] = Do("tcal") /\ P[Swept + 20] = Do("triggers")
    BY <1>1, SweepLength, CalibrationAssumption, SMTT(60) DEF CalibrateVoltOps, InitOps,
       ReadCalibrationOps, Read, Write, SetupOps, MeasureVolt, SecondaryVolt, StoreVolt, WriteHeader, Swept
  <2> HIDE DEF P
  <2> DEFINE x == Extra(type)
  <2>20. /\ P[Swept + 1] = Patch({"v1"}) /\ P[Swept + 2] = Fetch(1)
         /\ P[Swept + 3] = Fill(Words(type, 1)) /\ P[Swept + 4] = BurnTo(1)
    BY <2>1, <2>3, <2>4
  <2>21. type = 9 => P[Swept + 5] = Fetch(2) /\ P[Swept + 6] = Do("get")
    BY <1>1, <2>5
  <2>22. P[Swept + 5 + x] = Patch({"v2"}) /\ P[Swept + 6 + x] = Fetch(2)
    BY <2>2, <2>6
  <2>23. P[Swept + 7 + x] = Fill(Words(type, 2)) /\ P[Swept + 8 + x] = BurnTo(2)
    BY <2>1, <2>2, <2>7
  <2>24. P[Swept + 9 + x] = Fetch(0) /\ P[Swept + 10 + x] = Do("get")
    BY <2>2, <2>8
  <2>25. /\ P[Swept + 11 + x] = Patch({"vmeth", "range"}) /\ P[Swept + 12 + x] = Fetch(0)
         /\ P[Swept + 13 + x] = FillHeader(type) /\ P[Swept + 14 + x] = BurnTo(0)
    BY <2>2, <2>9, <2>10
  <2>26. /\ P[Swept + 15 + x] = Do("valid") /\ P[Swept + 16 + x] = Setter(EnableAcalOff(type))
         /\ P[Swept + 17 + x] = Do("tcal") /\ P[Swept + 18 + x] = Do("triggers")
    BY <2>2, <2>11
  <2> QED BY <2>20, <2>21, <2>22, <2>23, <2>24, <2>25, <2>26 DEF P
<1>2. CASE type # 9
  <2>1. Words(type, 1) = {"v1"} /\ Words(type, 2) = {"v2"}
    BY <1>2 DEF Words, TimingPage
  <2>2. Swept \in Int /\ Extra(type) = 0
    BY <1>2, CalibrationAssumption DEF Swept, Extra
  <2>3. /\ P[Swept + 1] = Patch({"v1"}) /\ P[Swept + 2] = Fetch(1)
    BY <1>2, SweepLength, CalibrationAssumption, SMTT(60) DEF CalibrateVoltOps, InitOps,
       ReadCalibrationOps, Read, Write, SetupOps, MeasureVolt, SecondaryVolt, StoreVolt, WriteHeader, Swept
  <2>4. /\ P[Swept + 3] = Fill({"v1"})
        /\ P[Swept + 4] = BurnTo(1)
    BY <1>2, SweepLength, CalibrationAssumption, SMTT(60) DEF CalibrateVoltOps, InitOps,
       ReadCalibrationOps, Read, Write, SetupOps, MeasureVolt, SecondaryVolt, StoreVolt, WriteHeader, Swept
  <2>5. /\ P[Swept + 5] = Patch({"v2"}) /\ P[Swept + 6] = Fetch(2)
    BY <1>2, SweepLength, CalibrationAssumption, SMTT(60) DEF CalibrateVoltOps, InitOps,
       ReadCalibrationOps, Read, Write, SetupOps, MeasureVolt, SecondaryVolt, StoreVolt, WriteHeader, Swept
  <2>6. /\ P[Swept + 7] = Fill({"v2"})
        /\ P[Swept + 8] = BurnTo(2)
    BY <1>2, SweepLength, CalibrationAssumption, SMTT(60) DEF CalibrateVoltOps, InitOps,
       ReadCalibrationOps, Read, Write, SetupOps, MeasureVolt, SecondaryVolt, StoreVolt, WriteHeader, Swept
  <2>7. /\ P[Swept + 9] = Fetch(0) /\ P[Swept + 10] = Do("get")
    BY <1>2, SweepLength, CalibrationAssumption, SMTT(60) DEF CalibrateVoltOps, InitOps,
       ReadCalibrationOps, Read, Write, SetupOps, MeasureVolt, SecondaryVolt, StoreVolt, WriteHeader, Swept
  <2>8. /\ P[Swept + 11] = Patch({"vmeth", "range"})
        /\ P[Swept + 12] = Fetch(0)
    BY <1>2, SweepLength, CalibrationAssumption, SMTT(60) DEF CalibrateVoltOps, InitOps,
       ReadCalibrationOps, Read, Write, SetupOps, MeasureVolt, SecondaryVolt, StoreVolt, WriteHeader, Swept
  <2>9. /\ P[Swept + 13] = FillHeader(type)
        /\ P[Swept + 14] = BurnTo(0)
    BY <1>2, SweepLength, CalibrationAssumption, SMTT(60) DEF CalibrateVoltOps, InitOps,
       ReadCalibrationOps, Read, Write, SetupOps, MeasureVolt, SecondaryVolt, StoreVolt, WriteHeader, Swept
  <2>10. /\ P[Swept + 15] = Do("valid") /\ P[Swept + 16] = Setter(EnableAcalOff(type))
        /\ P[Swept + 17] = Do("tcal") /\ P[Swept + 18] = Do("triggers")
    BY <1>2, SweepLength, CalibrationAssumption, SMTT(60) DEF CalibrateVoltOps, InitOps,
       ReadCalibrationOps, Read, Write, SetupOps, MeasureVolt, SecondaryVolt, StoreVolt, WriteHeader, Swept
  <2> HIDE DEF P
  <2> DEFINE x == Extra(type)
  <2>20. /\ P[Swept + 1] = Patch({"v1"}) /\ P[Swept + 2] = Fetch(1)
         /\ P[Swept + 3] = Fill(Words(type, 1)) /\ P[Swept + 4] = BurnTo(1)
    BY <2>1, <2>3, <2>4
  <2>21. type = 9 => P[Swept + 5] = Fetch(2) /\ P[Swept + 6] = Do("get")
    BY <1>2
  <2>22. P[Swept + 5 + x] = Patch({"v2"}) /\ P[Swept + 6 + x] = Fetch(2)
    BY <2>2, <2>5
  <2>23. P[Swept + 7 + x] = Fill(Words(type, 2)) /\ P[Swept + 8 + x] = BurnTo(2)
    BY <2>1, <2>2, <2>6
  <2>24. P[Swept + 9 + x] = Fetch(0) /\ P[Swept + 10 + x] = Do("get")
    BY <2>2, <2>7
  <2>25. /\ P[Swept + 11 + x] = Patch({"vmeth", "range"}) /\ P[Swept + 12 + x] = Fetch(0)
         /\ P[Swept + 13 + x] = FillHeader(type) /\ P[Swept + 14 + x] = BurnTo(0)
    BY <2>2, <2>8, <2>9
  <2>26. /\ P[Swept + 15 + x] = Do("valid") /\ P[Swept + 16 + x] = Setter(EnableAcalOff(type))
         /\ P[Swept + 17 + x] = Do("tcal") /\ P[Swept + 18 + x] = Do("triggers")
    BY <2>2, <2>10
  <2> QED BY <2>20, <2>21, <2>22, <2>23, <2>24, <2>25, <2>26 DEF P
<1> QED BY <1>1, <1>2

LEMMA TimingEventsAt ==
    /\ Len(TimingEvents) = 5 * Events
    /\ \A n \in 1 .. 5 * Events :
          \/ TimingEvents[n].do \in Poll
          \/ TimingEvents[n].do = "analyse" /\ TimingEvents[n].skip = 5 * Events - n
<1>1. Len(TimingEvents) = 5 * Events
  BY CalibrationAssumption DEF TimingEvents
<1>2. ASSUME NEW n \in 1 .. 5 * Events
      PROVE  \/ TimingEvents[n].do \in Poll
             \/ TimingEvents[n].do = "analyse" /\ TimingEvents[n].skip = 5 * Events - n
  <2> DEFINE left == Events - 1 - ((n - 1) \div 5)
             k == ((n - 1) % 5) + 1
  <2>1. n \in Int /\ Events \in Int /\ k \in 1 .. 5 /\ n = 5 * ((n - 1) \div 5) + k
    BY CalibrationAssumption
  <2>2. TimingEvents[n] = TimingEvent(left)[k]
    BY DEF TimingEvents
  <2>3. CASE k = 5
    <3>1. TimingEvent(left)[5] = [do |-> "analyse", skip |-> 5 * left]
      BY DEF TimingEvent
    <3>2. 5 * left = 5 * Events - n
      BY <2>1, <2>3
    <3> QED BY <2>2, <2>3, <3>1, <3>2
  <2>4. CASE k # 5
    <3>1. TimingEvent(left)[k].do \in Poll
      <4> HIDE DEF left, k
      <4> QED BY <2>1, <2>4 DEF TimingEvent, Do, Poll
    <3> QED BY <2>2, <3>1
  <2> QED BY <2>3, <2>4
<1> QED BY <1>1, <1>2

LEMMA TimingLength ==
    ASSUME NEW type \in EvaluationBoard
    PROVE  Len(CalibrateTimingOps(type)) = Cycled + 12 + Late(type)
<1>1. CASE type = 9
  BY <1>1, TimingEventsAt, CalibrationAssumption, SMTT(60) DEF CalibrateTimingOps, InitOps,
     ReadCalibrationOps, Read, Write, SetupOps, StoreTiming, Cycled, Late
<1>2. CASE type # 9
  BY <1>2, TimingEventsAt, CalibrationAssumption, SMTT(60) DEF CalibrateTimingOps, InitOps,
     ReadCalibrationOps, Read, Write, SetupOps, StoreTiming, Cycled, Late
<1> QED BY <1>1, <1>2

LEMMA TimingOpening ==
    ASSUME NEW type \in EvaluationBoard
    PROVE  LET P == CalibrateTimingOps(type)
           IN  /\ P[1] = Do("save") /\ \A n \in 2 .. 22 : P[n] = InitOps(type)[n - 1]
               /\ P[23] = Do("nominal") /\ P[24] = Do("untimed") /\ P[25] = Do("frequency")
               /\ P[26] = Do("start") /\ P[27] = Do("soft") /\ P[28] = DominoSetters
               /\ P[29] = TimingSetters(type) /\ P[30] = Do("start") /\ P[31] = Do("flat")
               /\ \A n \in 32 .. Cycled - 1 :
                     \/ P[n].do \in Poll
                     \/ P[n].do = "analyse" /\ P[n].skip = Cycled - 1 - n
<1> DEFINE P == CalibrateTimingOps(type)
<1>1. P[1] = Do("save") /\ P[23] = Do("nominal") /\ P[24] = Do("untimed") /\ P[25] = Do("frequency")
  BY TimingEventsAt, CalibrationAssumption, SMTT(60) DEF CalibrateTimingOps, InitOps, ReadCalibrationOps,
     Read, SetupOps
<1>2. /\ P[26] = Do("start") /\ P[27] = Do("soft") /\ P[28] = DominoSetters
      /\ P[29] = TimingSetters(type) /\ P[30] = Do("start") /\ P[31] = Do("flat")
  BY TimingEventsAt, CalibrationAssumption, SMTT(60) DEF CalibrateTimingOps, InitOps, ReadCalibrationOps,
     Read, SetupOps
<1>3. ASSUME NEW n \in 2 .. 22
      PROVE  P[n] = InitOps(type)[n - 1]
  BY TimingEventsAt, CalibrationAssumption, SMTT(60) DEF CalibrateTimingOps, InitOps, ReadCalibrationOps,
     Read, SetupOps
<1>4. ASSUME NEW n \in 1 .. 5 * Events
      PROVE  P[31 + n] = TimingEvents[n]
  BY TimingEventsAt, CalibrationAssumption, SMTT(60) DEF CalibrateTimingOps, InitOps, ReadCalibrationOps,
     Read, SetupOps
<1>5. ASSUME NEW n \in 32 .. Cycled - 1
      PROVE  \/ P[n].do \in Poll
             \/ P[n].do = "analyse" /\ P[n].skip = Cycled - 1 - n
  <2> DEFINE k == n - 31
  <2>1. k \in 1 .. 5 * Events /\ n = 31 + k
    BY CalibrationAssumption DEF Cycled
  <2>2. Cycled = 32 + 5 * Events /\ Events \in Nat
    BY CalibrationAssumption DEF Cycled
  <2> HIDE DEF k, P
  <2>3. P[n] = TimingEvents[k]
    BY <1>4, <2>1
  <2>4. CASE TimingEvents[k].do \in Poll
    BY <2>3, <2>4
  <2>5. CASE TimingEvents[k].do = "analyse" /\ TimingEvents[k].skip = 5 * Events - k
    <3>1. 5 * Events - k = Cycled - 1 - n
      BY <2>1, <2>2
    <3> QED BY <2>3, <2>5, <3>1
  <2> QED BY <2>1, <2>4, <2>5, TimingEventsAt
<1> HIDE DEF P
<1> QED BY <1>1, <1>2, <1>3, <1>5 DEF P

LEMMA TimingEnding9 ==
    ASSUME NEW type \in EvaluationBoard, type = 9
    PROVE  LET P == CalibrateTimingOps(type)
           IN  /\ P[Cycled] = Measured({"dt", "rest"})
               /\ P[Cycled + 1] = Fetch(2) /\ P[Cycled + 2] = Do("get")
               /\ P[Cycled + 3] = Patch({"dt"})
               /\ P[Cycled + 4] = Fetch(2) /\ P[Cycled + 5] = Fill(Words(type, 2))
               /\ P[Cycled + 6] = BurnTo(2)
               /\ P[Cycled + 7] = Fetch(0) /\ P[Cycled + 8] = Do("get")
               /\ P[Cycled + 9] = Patch({"tmeth", "tfreq"}) /\ P[Cycled + 10] = Do("timed")
               /\ P[Cycled + 11] = Fetch(0) /\ P[Cycled + 12] = Fill(Words(type, 0))
               /\ P[Cycled + 13] = BurnTo(0)
               /\ P[Cycled + 14] = Setter(EnableAcalOff(type)) /\ P[Cycled + 15] = Do("tcal")
               /\ P[Cycled + 16] = Do("range") /\ P[Cycled + 17] = Do("triggers")
<1> DEFINE P == CalibrateTimingOps(type)
<1>1. Words(type, 2) = {"v2", "dt"}
  BY DEF Words, TimingPage
<1>2. P[Cycled] = Measured({"dt", "rest"})
  BY TimingEventsAt, CalibrationAssumption, SMTT(60) DEF CalibrateTimingOps, InitOps,
     ReadCalibrationOps, Read, Write, SetupOps, StoreTiming, Cycled
<1>3. P[Cycled + 1] = Fetch(2) /\ P[Cycled + 2] = Do("get") /\ P[Cycled + 3] = Patch({"dt"})
  BY TimingEventsAt, CalibrationAssumption, SMTT(60) DEF CalibrateTimingOps, InitOps,
     ReadCalibrationOps, Read, Write, SetupOps, StoreTiming, Cycled
<1>4. P[Cycled + 4] = Fetch(2) /\ P[Cycled + 5] = Fill({"v2", "dt"}) /\ P[Cycled + 6] = BurnTo(2)
  BY TimingEventsAt, CalibrationAssumption, SMTT(60) DEF CalibrateTimingOps, InitOps,
     ReadCalibrationOps, Read, Write, SetupOps, StoreTiming, Cycled
<1>5. P[Cycled + 7] = Fetch(0) /\ P[Cycled + 8] = Do("get")
  BY TimingEventsAt, CalibrationAssumption, SMTT(60) DEF CalibrateTimingOps, InitOps,
     ReadCalibrationOps, Read, Write, SetupOps, StoreTiming, Cycled
<1>6. P[Cycled + 9] = Patch({"tmeth", "tfreq"}) /\ P[Cycled + 10] = Do("timed")
  BY TimingEventsAt, CalibrationAssumption, SMTT(60) DEF CalibrateTimingOps, InitOps,
     ReadCalibrationOps, Read, Write, SetupOps, StoreTiming, Cycled
<1>7. P[Cycled + 11] = Fetch(0) /\ P[Cycled + 12] = Fill(Words(type, 0))
  BY TimingEventsAt, CalibrationAssumption, SMTT(60) DEF CalibrateTimingOps, InitOps,
     ReadCalibrationOps, Read, Write, SetupOps, StoreTiming, Cycled
<1>10. P[Cycled + 13] = BurnTo(0)
  BY TimingEventsAt, CalibrationAssumption, SMTT(60) DEF CalibrateTimingOps, InitOps,
     ReadCalibrationOps, Read, Write, SetupOps, StoreTiming, Cycled
<1>8. P[Cycled + 14] = Setter(EnableAcalOff(type)) /\ P[Cycled + 15] = Do("tcal")
  BY TimingEventsAt, CalibrationAssumption, SMTT(60) DEF CalibrateTimingOps, InitOps,
     ReadCalibrationOps, Read, Write, SetupOps, StoreTiming, Cycled
<1>9. P[Cycled + 16] = Do("range") /\ P[Cycled + 17] = Do("triggers")
  BY TimingEventsAt, CalibrationAssumption, SMTT(60) DEF CalibrateTimingOps, InitOps,
     ReadCalibrationOps, Read, Write, SetupOps, StoreTiming, Cycled
<1> HIDE DEF P
<1> QED BY <1>1, <1>2, <1>3, <1>4, <1>5, <1>6, <1>7, <1>8, <1>9, <1>10 DEF P

LEMMA TimingEndingOther ==
    ASSUME NEW type \in EvaluationBoard, type # 9
    PROVE  LET P == CalibrateTimingOps(type)
           IN  /\ P[Cycled] = Measured({"dt"})
               /\ P[Cycled + 1] = Fetch(0) /\ P[Cycled + 2] = Do("get")
               /\ P[Cycled + 3] = Patch({"dt", "tmeth", "tfreq"})
               /\ P[Cycled + 4] = Do("timed")
               /\ P[Cycled + 5] = Fetch(0) /\ P[Cycled + 6] = Fill(Words(type, 0))
               /\ P[Cycled + 7] = BurnTo(0)
               /\ P[Cycled + 8] = Do("copy")
               /\ P[Cycled + 9] = Setter(EnableAcalOff(type)) /\ P[Cycled + 10] = Do("tcal")
               /\ P[Cycled + 11] = Do("range") /\ P[Cycled + 12] = Do("triggers")
<1> DEFINE P == CalibrateTimingOps(type)
<1>1. P[Cycled] = Measured({"dt"})
  BY TimingEventsAt, CalibrationAssumption, SMTT(60) DEF CalibrateTimingOps, InitOps,
     ReadCalibrationOps, Read, Write, SetupOps, StoreTiming, Cycled
<1>2. /\ P[Cycled + 1] = Fetch(0) /\ P[Cycled + 2] = Do("get")
      /\ P[Cycled + 3] = Patch({"dt", "tmeth", "tfreq"})
  BY TimingEventsAt, CalibrationAssumption, SMTT(60) DEF CalibrateTimingOps, InitOps,
     ReadCalibrationOps, Read, Write, SetupOps, StoreTiming, Cycled
<1>3. P[Cycled + 4] = Do("timed")
  BY TimingEventsAt, CalibrationAssumption, SMTT(60) DEF CalibrateTimingOps, InitOps,
     ReadCalibrationOps, Read, Write, SetupOps, StoreTiming, Cycled
<1>4. P[Cycled + 5] = Fetch(0) /\ P[Cycled + 6] = Fill(Words(type, 0)) /\ P[Cycled + 7] = BurnTo(0)
  BY TimingEventsAt, CalibrationAssumption, SMTT(60) DEF CalibrateTimingOps, InitOps,
     ReadCalibrationOps, Read, Write, SetupOps, StoreTiming, Cycled
<1>5. P[Cycled + 8] = Do("copy")
  BY TimingEventsAt, CalibrationAssumption, SMTT(60) DEF CalibrateTimingOps, InitOps,
     ReadCalibrationOps, Read, Write, SetupOps, StoreTiming, Cycled
<1>6. P[Cycled + 9] = Setter(EnableAcalOff(type)) /\ P[Cycled + 10] = Do("tcal")
  BY TimingEventsAt, CalibrationAssumption, SMTT(60) DEF CalibrateTimingOps, InitOps,
     ReadCalibrationOps, Read, Write, SetupOps, StoreTiming, Cycled
<1>7. P[Cycled + 11] = Do("range") /\ P[Cycled + 12] = Do("triggers")
  BY TimingEventsAt, CalibrationAssumption, SMTT(60) DEF CalibrateTimingOps, InitOps,
     ReadCalibrationOps, Read, Write, SetupOps, StoreTiming, Cycled
<1> HIDE DEF P
<1> QED BY <1>1, <1>2, <1>3, <1>4, <1>5, <1>6, <1>7 DEF P

-----------------------------------------------------------------------------
(* The places of the accesses in the programs.                              *)
InitPlace(type, n, a) ==
    \/ n \in {1, 21} /\ a = Do("reinit")
    \/ n = 2 /\ a = Do("defaults")
    \/ n = 3 /\ a = Do("forget")
    \/ n = 4 /\ a = Fetch(0)
    \/ n = 7 /\ a = Fetch(1)
    \/ n = 10 /\ a = Fetch(2)
    \/ n = 13 /\ a = Fetch(TimingPage(type))
    \/ n \in {5, 8, 11, 14} /\ a = Do("get")
    \/ n = 6 /\ a = Judged(9)
    \/ n = 9 /\ a = Taken({"v1"})
    \/ n = 12 /\ a = Taken({"v2"})
    \/ n = 15 /\ a = Taken({"dt", "rest"})
    \/ n = 16 /\ a = Do("adopt")
    \/ n \in 17 .. 20 /\ Quiet(type, a)

StoreVoltPlace(type, n, a) ==
    \/ n = 1 /\ a = Patch({"v1"})
    \/ n = 2 /\ a = Fetch(1)
    \/ n = 3 /\ a = Fill(Words(type, 1))
    \/ n = 4 /\ a = BurnTo(1)
    \/ type = 9 /\ n = 5 /\ a = Fetch(2)
    \/ type = 9 /\ n = 6 /\ a = Do("get")
    \/ n = 5 + Extra(type) /\ a = Patch({"v2"})
    \/ n = 6 + Extra(type) /\ a = Fetch(2)
    \/ n = 7 + Extra(type) /\ a = Fill(Words(type, 2))
    \/ n = 8 + Extra(type) /\ a = BurnTo(2)
    \/ n = 9 + Extra(type) /\ a = Fetch(0)
    \/ n = 10 + Extra(type) /\ a = Do("get")
    \/ n = 11 + Extra(type) /\ a = Patch({"vmeth", "range"})
    \/ n = 12 + Extra(type) /\ a = Fetch(0)
    \/ n = 13 + Extra(type) /\ a = FillHeader(type)
    \/ n = 14 + Extra(type) /\ a = BurnTo(0)

VoltPlace(type, n, a) ==
    \/ n = 1 /\ a = Do("save")
    \/ n \in 2 .. 22 /\ InitPlace(type, n - 1, a)
    \/ n = 23 /\ a = Do("nominal")
    \/ n = 24 /\ a = Do("frequency")
    \/ n = 28 /\ a = Do("range")
    \/ n \in {25, 26, 27} \cup 29 .. 32 + 8 * Events /\ Quiet(type, a)
    \/ n = 33 + 8 * Events /\ a = Measured({"v1"})
    \/ n \in 34 + 8 * Events .. Swept - 1 /\ Quiet(type, a)
    \/ n = Swept /\ a = Measured({"v2"})
    \/ n \in Swept + 1 .. Swept + 14 + Extra(type) /\ StoreVoltPlace(type, n - Swept, a)
    \/ n = Swept + 15 + Extra(type) /\ a = Do("valid")
    \/ n = Swept + 16 + Extra(type) /\ Quiet(type, a)
    \/ n = Swept + 17 + Extra(type) /\ a = Do("tcal")
    \/ n = Swept + 18 + Extra(type) /\ a = Do("triggers")

StoreTimingPlace(type, n, a) ==
    IF type = 9
    THEN \/ n \in {1, 4} /\ a = Fetch(2)
         \/ n \in {2, 8} /\ a = Do("get")
         \/ n = 3 /\ a = Patch({"dt"})
         \/ n = 5 /\ a = Fill(Words(type, 2))
         \/ n = 6 /\ a = BurnTo(2)
         \/ n \in {7, 11} /\ a = Fetch(0)
         \/ n = 9 /\ a = Patch({"tmeth", "tfreq"})
         \/ n = 10 /\ a = Do("timed")
         \/ n = 12 /\ a = Fill(Words(type, 0))
         \/ n = 13 /\ a = BurnTo(0)
    ELSE \/ n \in {1, 5} /\ a = Fetch(0)
         \/ n = 2 /\ a = Do("get")
         \/ n = 3 /\ a = Patch({"dt", "tmeth", "tfreq"})
         \/ n = 4 /\ a = Do("timed")
         \/ n = 6 /\ a = Fill(Words(type, 0))
         \/ n = 7 /\ a = BurnTo(0)
         \/ n = 8 /\ a = Do("copy")

TimingPlace(type, n, a) ==
    \/ n = 1 /\ a = Do("save")
    \/ n \in 2 .. 22 /\ InitPlace(type, n - 1, a)
    \/ n = 23 /\ a = Do("nominal")
    \/ n = 24 /\ a = Do("untimed")
    \/ n = 25 /\ a = Do("frequency")
    \/ n \in 26 .. 30 /\ Quiet(type, a)
    \/ n = 31 /\ a = Do("flat")
    \/ n \in 32 .. Cycled - 1 /\ Quiet(type, a)
    \/ n \in 32 .. Cycled - 1 /\ a.do = "analyse" /\ a.skip = Cycled - 1 - n
    \/ n = Cycled /\ a = Measured(IF type = 9 THEN {"dt", "rest"} ELSE {"dt"})
    \/ n \in Cycled + 1 .. Cycled + 8 + Late(type) /\ StoreTimingPlace(type, n - Cycled, a)
    \/ n = Cycled + 9 + Late(type) /\ Quiet(type, a)
    \/ n = Cycled + 10 + Late(type) /\ a = Do("tcal")
    \/ n = Cycled + 11 + Late(type) /\ a = Do("range")
    \/ n = Cycled + 12 + Late(type) /\ a = Do("triggers")

LEMMA InitPlaces ==
    ASSUME NEW type \in EvaluationBoard, NEW n \in 1 .. 21
    PROVE  InitPlace(type, n, InitOps(type)[n])
<1> DEFINE P == InitOps(type)
<1>1. P[17] = DefaultSetters(type) /\ P[20] = ClockSetters(type)
      /\ P[18] = Do("start") /\ P[19] = Do("soft")
  BY InitAt
<1>2. Quiet(type, P[17]) /\ Quiet(type, P[18]) /\ Quiet(type, P[19]) /\ Quiet(type, P[20])
  BY <1>1 DEF Quiet, Setters, Do, Poll
<1>3. /\ P[1] = Do("reinit") /\ P[2] = Do("defaults") /\ P[3] = Do("forget")
      /\ P[4] = Fetch(0) /\ P[5] = Do("get") /\ P[6] = Judged(9)
      /\ P[7] = Fetch(1) /\ P[8] = Do("get") /\ P[9] = Taken({"v1"})
      /\ P[10] = Fetch(2) /\ P[11] = Do("get") /\ P[12] = Taken({"v2"})
      /\ P[13] = Fetch(TimingPage(type)) /\ P[14] = Do("get")
      /\ P[15] = Taken({"dt", "rest"}) /\ P[16] = Do("adopt") /\ P[21] = Do("reinit")
  BY InitAt
<1> HIDE DEF P
<1>4. InitPlace(type, n, P[n])
  BY <1>2, <1>3 DEF InitPlace
<1> QED BY <1>4 DEF P

LEMMA VoltPlaces ==
    ASSUME NEW type \in EvaluationBoard, NEW n \in 1 .. Swept + 18 + Extra(type)
    PROVE  VoltPlace(type, n, CalibrateVoltOps(type)[n])
<1> DEFINE P == CalibrateVoltOps(type)
           x == Extra(type)
<1>1. Swept \in Int /\ x \in {0, 2} /\ Swept = 35 + 12 * Events /\ Events \in Nat \ {0}
      /\ (type = 9 <=> x = 2)
  BY CalibrationAssumption DEF Swept, Extra
<1>2. /\ P[1] = Do("save") /\ P[23] = Do("nominal") /\ P[24] = Do("frequency")
      /\ P[28] = Do("range")
  BY VoltOpening
<1>3. Quiet(type, P[25]) /\ Quiet(type, P[26]) /\ Quiet(type, P[27])
      /\ Quiet(type, P[29]) /\ Quiet(type, P[30])
  BY VoltOpening DEF Quiet, Setters, Poll, Do
<1>4. \A k \in 2 .. 22 : P[k] = InitOps(type)[k - 1]
  BY VoltOpening
<1>5. \A k \in 1 .. 21 : InitPlace(type, k, InitOps(type)[k])
  BY InitPlaces
<1>6. /\ \A k \in 31 .. 32 + 8 * Events : Quiet(type, P[k])
      /\ P[33 + 8 * Events] = Measured({"v1"})
      /\ \A k \in 34 + 8 * Events .. Swept - 1 : Quiet(type, P[k])
      /\ P[Swept] = Measured({"v2"})
  BY VoltMiddle
<1>7. /\ P[Swept + 1] = Patch({"v1"}) /\ P[Swept + 2] = Fetch(1)
      /\ P[Swept + 3] = Fill(Words(type, 1))
      /\ P[Swept + 4] = BurnTo(1)
      /\ type = 9 => P[Swept + 5] = Fetch(2) /\ P[Swept + 6] = Do("get")
  BY VoltEnding
<1>8. /\ P[Swept + 5 + x] = Patch({"v2"}) /\ P[Swept + 6 + x] = Fetch(2)
      /\ P[Swept + 7 + x] = Fill(Words(type, 2))
      /\ P[Swept + 8 + x] = BurnTo(2)
      /\ P[Swept + 9 + x] = Fetch(0) /\ P[Swept + 10 + x] = Do("get")
      /\ P[Swept + 11 + x] = Patch({"vmeth", "range"})
      /\ P[Swept + 12 + x] = Fetch(0)
      /\ P[Swept + 13 + x] = FillHeader(type)
      /\ P[Swept + 14 + x] = BurnTo(0)
  BY VoltEnding
<1>9. /\ P[Swept + 15 + x] = Do("valid") /\ P[Swept + 17 + x] = Do("tcal")
      /\ P[Swept + 18 + x] = Do("triggers")
  BY VoltEnding
<1>10. Quiet(type, P[Swept + 16 + x])
  BY VoltEnding DEF Quiet, Setters
<1> HIDE DEF P
<1>11. n \in 2 .. 22 => VoltPlace(type, n, P[n])
  BY <1>4, <1>5 DEF VoltPlace
<1>12. n \in {1} \cup 23 .. Swept => VoltPlace(type, n, P[n])
  BY <1>1, <1>2, <1>3, <1>6 DEF VoltPlace
<1>13. ASSUME n \in Swept + 1 .. Swept + 14 + x
       PROVE  VoltPlace(type, n, P[n])
  <2>1. StoreVoltPlace(type, n - Swept, P[n])
    BY <1>1, <1>7, <1>8, <1>13 DEF StoreVoltPlace
  <2> QED BY <2>1, <1>13 DEF VoltPlace
<1>14. n \in Swept + 15 + x .. Swept + 18 + x => VoltPlace(type, n, P[n])
  BY <1>1, <1>9, <1>10 DEF VoltPlace
<1>15. VoltPlace(type, n, P[n])
  BY <1>1, <1>11, <1>12, <1>13, <1>14
<1> QED BY <1>15 DEF P

LEMMA TimingPlaces ==
    ASSUME NEW type \in EvaluationBoard, NEW n \in 1 .. Cycled + 12 + Late(type)
    PROVE  TimingPlace(type, n, CalibrateTimingOps(type)[n])
<1> DEFINE P == CalibrateTimingOps(type)
           y == Late(type)
<1>1. Cycled \in Int /\ y \in {0, 5} /\ Cycled = 32 + 5 * Events /\ Events \in Nat \ {0}
      /\ (type = 9 <=> y = 5)
  BY CalibrationAssumption DEF Cycled, Late
<1>2. /\ P[1] = Do("save") /\ P[23] = Do("nominal") /\ P[24] = Do("untimed")
      /\ P[25] = Do("frequency") /\ P[31] = Do("flat")
  BY TimingOpening
<1>3. Quiet(type, P[26]) /\ Quiet(type, P[27]) /\ Quiet(type, P[28])
      /\ Quiet(type, P[29]) /\ Quiet(type, P[30])
  BY TimingOpening DEF Quiet, Setters, Poll, Do
<1>4. \A k \in 2 .. 22 : P[k] = InitOps(type)[k - 1]
  BY TimingOpening
<1>5. \A k \in 1 .. 21 : InitPlace(type, k, InitOps(type)[k])
  BY InitPlaces
<1>6. \A k \in 32 .. Cycled - 1 :
         \/ Quiet(type, P[k])
         \/ P[k].do = "analyse" /\ P[k].skip = Cycled - 1 - k
  BY TimingOpening DEF Quiet
<1>7. n \in 2 .. 22 => TimingPlace(type, n, P[n])
  <2> HIDE DEF P
  <2> QED BY <1>4, <1>5 DEF TimingPlace
<1>8. n \in {1} \cup 23 .. Cycled - 1 => TimingPlace(type, n, P[n])
  <2> HIDE DEF P
  <2> QED BY <1>1, <1>2, <1>3, <1>6 DEF TimingPlace
<1>9. CASE type = 9 /\ n \in Cycled .. Cycled + 17
  <2>1. /\ P[Cycled] = Measured({"dt", "rest"})
        /\ P[Cycled + 1] = Fetch(2) /\ P[Cycled + 2] = Do("get") /\ P[Cycled + 3] = Patch({"dt"})
        /\ P[Cycled + 4] = Fetch(2) /\ P[Cycled + 5] = Fill(Words(type, 2))
        /\ P[Cycled + 6] = BurnTo(2)
        /\ P[Cycled + 7] = Fetch(0) /\ P[Cycled + 8] = Do("get")
        /\ P[Cycled + 9] = Patch({"tmeth", "tfreq"}) /\ P[Cycled + 10] = Do("timed")
        /\ P[Cycled + 11] = Fetch(0) /\ P[Cycled + 12] = Fill(Words(type, 0))
        /\ P[Cycled + 13] = BurnTo(0)
    BY <1>9, TimingEnding9
  <2>2. /\ Quiet(type, P[Cycled + 14]) /\ P[Cycled + 15] = Do("tcal")
        /\ P[Cycled + 16] = Do("range") /\ P[Cycled + 17] = Do("triggers")
    BY <1>9, TimingEnding9 DEF Quiet, Setters
  <2> HIDE DEF P
  <2>3. n \in Cycled + 1 .. Cycled + 13 => StoreTimingPlace(type, n - Cycled, P[n])
    BY <1>1, <1>9, <2>1 DEF StoreTimingPlace
  <2>4. n \in Cycled + 1 .. Cycled + 13 => TimingPlace(type, n, P[n])
    BY <1>1, <1>9, <2>3 DEF TimingPlace
  <2>5. n \in {Cycled} \cup Cycled + 14 .. Cycled + 17 => TimingPlace(type, n, P[n])
    BY <1>1, <1>9, <2>1, <2>2 DEF TimingPlace
  <2>6. TimingPlace(type, n, P[n])
    BY <1>1, <1>9, <2>4, <2>5
  <2> QED BY <2>6 DEF P
<1>10. CASE type # 9 /\ n \in Cycled .. Cycled + 12
  <2>1. /\ P[Cycled] = Measured({"dt"})
        /\ P[Cycled + 1] = Fetch(0) /\ P[Cycled + 2] = Do("get")
        /\ P[Cycled + 3] = Patch({"dt", "tmeth", "tfreq"}) /\ P[Cycled + 4] = Do("timed")
        /\ P[Cycled + 5] = Fetch(0) /\ P[Cycled + 6] = Fill(Words(type, 0))
        /\ P[Cycled + 7] = BurnTo(0) /\ P[Cycled + 8] = Do("copy")
    BY <1>10, TimingEndingOther
  <2>2. /\ Quiet(type, P[Cycled + 9]) /\ P[Cycled + 10] = Do("tcal")
        /\ P[Cycled + 11] = Do("range") /\ P[Cycled + 12] = Do("triggers")
    BY <1>10, TimingEndingOther DEF Quiet, Setters
  <2> HIDE DEF P
  <2>3. n \in Cycled + 1 .. Cycled + 8 => StoreTimingPlace(type, n - Cycled, P[n])
    BY <1>1, <1>10, <2>1 DEF StoreTimingPlace
  <2>4. n \in Cycled + 1 .. Cycled + 8 => TimingPlace(type, n, P[n])
    BY <1>1, <1>10, <2>3 DEF TimingPlace
  <2>5. n \in {Cycled} \cup Cycled + 9 .. Cycled + 12 => TimingPlace(type, n, P[n])
    BY <1>1, <1>10, <2>1, <2>2 DEF TimingPlace
  <2>6. TimingPlace(type, n, P[n])
    BY <1>1, <1>10, <2>4, <2>5
  <2> QED BY <2>6 DEF P
<1>11. n \in 1 .. Cycled - 1 \/ n \in Cycled .. Cycled + 12 + y
  BY <1>1
<1> QED BY <1>1, <1>7, <1>8, <1>9, <1>10, <1>11
-----------------------------------------------------------------------------
(* The invariants.  Positions in the programs: Step is the position in      *)
(* Init(), which begins both calibrations, after what they save.            *)
Type == board.type
Step == IF mpc = "init" THEN at ELSE at - 1
In(i, j) == mpc # "idle" /\ i <= Step /\ Step <= j
Volt(i, j) == mpc = "volt" /\ i <= at /\ at <= j
Timing(i, j) == mpc = "timing" /\ i <= at /\ at <= j

X == Extra(Type)
Y == Late(Type)
WidthsBurnt == IF Type = 9 THEN Cycled + 6 ELSE Cycled + 7
TimeBurnt == IF Type = 9 THEN Cycled + 13 ELSE Cycled + 7
TimedAt == IF Type = 9 THEN Cycled + 10 ELSE Cycled + 4

Count == {"serial", "vmeth", "tmeth", "v1", "v2", "dt"}
IsPage(f, words) ==
    /\ f = [w \in words |-> f[w]]
    /\ \A w \in words : f[w] \in Int /\ (w \in Count => f[w] \in Table)

Memory == [v1 : Table, v2 : Table, dt : Table, rest : Table, valid : BOOLEAN, range : Int,
           tfreq : Int, nominal : 1 .. 60]
Registers == [frequency : Int, range : Int]
Locals == [nominal : 0 .. 60, range : Int, tcal : BOOLEAN, trg1 : BOOLEAN, trg2 : BOOLEAN]
Found == [bits : SUBSET Kept, reg : Registers, alone : BOOLEAN]

Types ==
    /\ board \in Boards
    /\ eeprom = [p \in 0 .. 2 |-> eeprom[p]] /\ \A p \in 0 .. 2 : IsPage(eeprom[p], Words(Type, p))
    /\ IsPage(ram, Word) /\ IsPage(buf, Word)
    /\ mem \in Memory /\ bits \subseteq Bit /\ reg \in Registers
    /\ hw \in {"idle", "rolling", "reading"} /\ mpc \in {"init", "idle"} \cup Kind
    /\ saved \in Locals /\ gen \in Generation \ {0}
    /\ wpc \in {"none", "first", "loop", "force", "wait", "ready"}
    /\ crashes \in 0 .. MaxCrash /\ last \in [Kind -> Generation] /\ torn \in BOOLEAN
    /\ before \in Found

Places ==
    /\ at \in 1 .. Len(Program) + 1
    /\ mpc = "init" => wpc = "none"
    /\ mpc \in Kind => gen >= 2
    /\ (mpc \in Kind /\ at > 1) => saved.nominal \in 1 .. 60

Shape == Types /\ Places

-----------------------------------------------------------------------------
(* The configuration.                                                       *)
Disturbed == mpc \notin Kind \/ ~before.alone

InStep ==
    (\/ mpc = "idle"
     \/ mpc = "init" /\ at > 16
     \/ mpc = "volt" /\ at > 24
     \/ mpc = "timing" /\ at > 25) => mem.nominal = reg.frequency

Untouched ==
    ~Disturbed => /\ TRANSP_MODE \in bits <=> TRANSP_MODE \in before.bits
                  /\ at = 1 => /\ bits \cap Kept = before.bits /\ reg = before.reg
                               /\ mem.nominal = reg.frequency

Remembered ==
    ~Disturbed /\ at > 1 =>
        /\ saved.nominal = before.reg.frequency /\ saved.range = before.reg.range
        /\ saved.tcal <=> TCAL_EN \in before.bits
        /\ saved.trg1 <=> ENABLE_TRIGGER1 \in before.bits
        /\ saved.trg2 <=> ENABLE_TRIGGER2 \in before.bits

Restored ==
    ~Disturbed =>
        /\ at > 23 => mem.nominal = saved.nominal
        /\ mpc = "volt" /\ at > 28 => reg.range = saved.range
        /\ mpc = "timing" /\ at > Cycled + 11 + Y => reg.range = saved.range
        /\ (Volt(Swept + 18 + X, at) \/ Timing(Cycled + 11 + Y, at))
              => (TCAL_EN \in bits <=> saved.tcal)
        /\ (Volt(Swept + 19 + X, at) \/ Timing(Cycled + 13 + Y, at))
              => /\ ENABLE_TRIGGER1 \in bits <=> saved.trg1
                 /\ ENABLE_TRIGGER2 \in bits <=> saved.trg2

Configuration == InStep /\ Untouched /\ Remembered /\ Restored

-----------------------------------------------------------------------------
(* The pages on their way.                                                  *)
Copied(f, g, words, lost) == \A w \in words : f[w] = g[w] \/ (lost /\ f[w] = Garbage)

RamHolds(p) == Copied(ram, eeprom[p], Words(Type, p), torn)
BufHolds(p, patched) == Copied(buf, eeprom[p], Words(Type, p) \ patched, torn)
RamIsBuf(p) == Copied(ram, buf, Words(Type, p), torn)

Fetched ==
    /\ In(5, 5) => RamHolds(0)
    /\ In(8, 8) => RamHolds(1)
    /\ In(11, 11) => RamHolds(2)
    /\ In(14, 14) => RamHolds(TimingPage(Type))
    /\ Type = 9 /\ Volt(Swept + 6, Swept + 6) => RamHolds(2)
    /\ Volt(Swept + 10 + X, Swept + 10 + X) => RamHolds(0)
    /\ Type # 9 /\ Volt(Swept + 13 + X, Swept + 13 + X) => RamHolds(0)
    /\ Timing(Cycled + 2, Cycled + 2) => RamHolds(TimingPage(Type))
    /\ Type = 9 /\ Timing(Cycled + 8, Cycled + 8) => RamHolds(0)

Received ==
    /\ In(6, 6) => BufHolds(0, {})
    /\ In(9, 9) => BufHolds(1, {})
    /\ In(12, 12) => BufHolds(2, {})
    /\ In(15, 15) => BufHolds(TimingPage(Type), {})
    /\ Type = 9 /\ Volt(Swept + 7, Swept + 10) => BufHolds(2, {"v2"})
    /\ Volt(Swept + 11 + X, Swept + 14 + X) => BufHolds(0, {"vmeth", "range"})
    /\ Type = 9 /\ Timing(Cycled + 3, Cycled + 6) => BufHolds(2, {"dt"})
    /\ Type = 9 /\ Timing(Cycled + 9, Cycled + 13) => BufHolds(0, {"tmeth", "tfreq"})
    /\ Type # 9 /\ Timing(Cycled + 3, Cycled + 7) => BufHolds(0, {"dt", "tmeth", "tfreq"})

Alone == before.alone

Patched ==
    /\ Volt(Swept + 2, Swept + 4) => buf["v1"] = gen
    /\ Volt(Swept + 6 + X, Swept + 8 + X) => buf["v2"] = gen
    /\ Volt(Swept + 12 + X, Swept + 14 + X) =>
          buf["vmeth"] = gen /\ (Alone => buf["range"] = reg.range)
    /\ Timing(Cycled + 4, WidthsBurnt) => buf["dt"] = gen
    /\ Timing(TimedAt, TimeBurnt) =>
          buf["tmeth"] = gen /\ buf["tfreq"] \in 1 .. 60 /\ (Alone => buf["tfreq"] = mem.nominal)

Sent ==
    /\ Volt(Swept + 4, Swept + 4) => RamIsBuf(1)
    /\ Volt(Swept + 8 + X, Swept + 8 + X) => RamIsBuf(2)
    /\ Volt(Swept + 14 + X, Swept + 14 + X) => RamIsBuf(0)
    /\ Timing(WidthsBurnt, WidthsBurnt) => RamIsBuf(TimingPage(Type))
    /\ Timing(TimeBurnt, TimeBurnt) => RamIsBuf(0)

Transfers == Fetched /\ Received /\ Patched /\ Sent

-----------------------------------------------------------------------------
(* The EEPROM.                                                              *)
StoredVolt == eeprom[0]["vmeth"]

Stored ==
    ~torn =>
        /\ eeprom[0]["serial"] = 1
        /\ \A p \in 0 .. 2 : \A w \in Words(Type, p) : w \in Count => eeprom[p][w] \in 0 .. gen
        /\ eeprom[1]["v1"] >= StoredVolt /\ eeprom[2]["v2"] >= StoredVolt
        /\ StoredTime >= eeprom[0]["tmeth"]
        /\ eeprom[0]["tmeth"] > 0 => eeprom[0]["tfreq"] > 0
        /\ last["volt"] <= StoredVolt /\ last["timing"] <= eeprom[0]["tmeth"]
        /\ ~board.blank => StoredVolt > 0
        /\ mpc = "volt" => StoredTime < gen

Burnt ==
    ~torn =>
        /\ mpc = "volt" /\ at > Swept + 4 => eeprom[1]["v1"] = gen
        /\ mpc = "volt" /\ at > Swept + 8 + X => eeprom[2]["v2"] = gen
        /\ mpc = "volt" /\ at > Swept + 14 + X =>
              StoredVolt = gen /\ (Alone => eeprom[0]["range"] = reg.range)
        /\ mpc = "timing" /\ at > WidthsBurnt => StoredTime = gen
        /\ mpc = "timing" /\ at > TimeBurnt =>
              eeprom[0]["tmeth"] = gen /\ (Alone => eeprom[0]["tfreq"] = mem.nominal)

(* Even a page lost to the preview leaves no time calibration without widths.*)
NoEmptyWidths ==
    /\ eeprom[0]["tmeth"] > 0 => StoredTime # 0
    /\ mpc = "timing" /\ at > WidthsBurnt => StoredTime # 0

-----------------------------------------------------------------------------
(* What the object remembers.                                               *)
Measuring ==
    /\ mpc = "volt" /\ at > 33 + 8 * Events => mem.v1 = gen
    /\ mpc = "volt" /\ at > Swept => mem.v2 = gen
    /\ mpc = "timing" /\ at > Cycled => mem.dt = gen
    /\ mpc = "timing" /\ at > Cycled + (IF Type = 9 THEN 0 ELSE 8) => mem.rest = gen
    /\ Timing(25, TimedAt) => mem.tfreq = 0
    /\ mpc = "timing" /\ at > TimedAt => mem.tfreq \in 1 .. 60 /\ (Alone => mem.tfreq = mem.nominal)

Cleared == In(4, 6) => /\ mem.v1 = 0 /\ mem.v2 = 0 /\ mem.dt = 0 /\ mem.rest = 0 /\ mem.tfreq = 0

Held(v, stored) == v = IF StoredVolt > 0 THEN stored ELSE 0

AfterInit == mpc = "idle" \/ Step > 15
NotTiming == mpc # "timing" \/ at <= 31     \* the widths are those of the EEPROM
Untimed0 == mpc # "timing" \/ at <= 24

Loading ==
    ~torn =>
        /\ In(7, 15) => /\ StoredVolt > 0 /\ mem.valid
                        /\ mem.range = eeprom[0]["range"]
                        /\ eeprom[0]["tmeth"] > 0 => mem.tfreq = eeprom[0]["tfreq"]
        /\ In(10, 15) => mem.v1 = eeprom[1]["v1"]
        /\ In(13, 15) => mem.v2 = eeprom[2]["v2"]

Loaded ==
    ~torn /\ AfterInit =>
        /\ (mpc # "volt" \/ at <= 33 + 8 * Events) => Held(mem.v1, eeprom[1]["v1"])
        /\ (mpc # "volt" \/ at <= Swept) => Held(mem.v2, eeprom[2]["v2"])
        /\ StoredVolt > 0 /\ ~Volt(Swept + 15 + X, Swept + 15 + X) =>
              mem.valid /\ (Alone => mem.range = eeprom[0]["range"])
        /\ StoredVolt > 0 /\ ~TimingForgotten /\ NotTiming =>
              mem.dt = StoredTime /\ mem.rest = StoredTime
        /\ StoredVolt > 0 /\ ~TimingForgotten /\ Untimed0 /\ eeprom[0]["tmeth"] > 0 =>
              mem.tfreq > 0 /\ (Alone => mem.tfreq = eeprom[0]["tfreq"])

TrueFrequency ==
    /\ In(7, 15) => (mem.tfreq > 0 => StoredTime # 0)
    /\ In(3, 15) /\ (Alone \/ mpc = "init") => mem.nominal = Default
    /\ mem.tfreq > 0 => mem.dt # 0 \/ In(7, 15)

-----------------------------------------------------------------------------
(* Where the main thread is when it makes an access.                        *)
LEMMA SettersSet == \A type : \A a \in Setters(type) : a.do = "set"
<1>1. \A steps : Setter(steps).do = "set"
  BY DEF Setter
<1> QED BY <1>1 DEF Setters, DefaultSetters, ClockSetters, DominoSetters, InternalSetters,
                    OffsetSetters, GainSetters, TimingSetters

LEMMA ProgramLength ==
    ASSUME Shape
    PROVE  /\ Type \in EvaluationBoard
           /\ mpc = "idle" => Len(Program) = 0
           /\ mpc = "init" => Program = InitOps(Type) /\ Len(Program) = 21
           /\ mpc = "volt" => Program = CalibrateVoltOps(Type) /\ Len(Program) = Swept + 18 + X
           /\ mpc = "timing" => Program = CalibrateTimingOps(Type) /\ Len(Program) = Cycled + 12 + Y
<1>1. Type \in EvaluationBoard
  BY CalibrationAssumption DEF Shape, Types, Type
<1>2. mpc = "idle" => Program = << >>
  BY <1>1 DEF Program, Programs, Type
<1>3. mpc = "init" => Program = InitOps(Type)
  BY <1>1 DEF Program, Programs, Type
<1>4. mpc = "volt" => Program = CalibrateVoltOps(Type)
  BY <1>1 DEF Program, Programs, Type
<1>5. mpc = "timing" => Program = CalibrateTimingOps(Type)
  BY <1>1 DEF Program, Programs, Type
<1> QED BY <1>1, <1>2, <1>3, <1>4, <1>5, InitLength, VoltLength, TimingLength DEF X, Y

LEMMA Where ==
    ASSUME Shape, More
    PROVE  \/ mpc = "init" /\ at \in 1 .. 21 /\ InitPlace(Type, at, Arg)
           \/ mpc = "volt" /\ at \in 1 .. Swept + 18 + X /\ VoltPlace(Type, at, Arg)
           \/ mpc = "timing" /\ at \in 1 .. Cycled + 12 + Y /\ TimingPlace(Type, at, Arg)
<1>1. mpc \in {"init", "idle", "volt", "timing"} /\ at \in 1 .. Len(Program) + 1
  BY DEF Shape, Places, Types, Kind
<1>2. Len(Program) \in Int
  BY <1>1, ProgramLength, CalibrationAssumption DEF Swept, Cycled, X, Y, Extra, Late
<1>3. at \in 1 .. Len(Program)
  BY <1>1, <1>2 DEF More
<1>4. CASE mpc = "init"
  <2>1. at \in 1 .. 21
    BY <1>3, <1>4, ProgramLength
  <2> QED BY <1>4, <2>1, ProgramLength, InitPlaces DEF Arg
<1>5. CASE mpc = "volt"
  <2>1. at \in 1 .. Swept + 18 + Extra(Type)
    BY <1>3, <1>5, ProgramLength DEF X
  <2> QED BY <1>5, <2>1, ProgramLength, VoltPlaces DEF Arg, X
<1>6. CASE mpc = "timing"
  <2>1. at \in 1 .. Cycled + 12 + Late(Type)
    BY <1>3, <1>6, ProgramLength DEF Y
  <2> QED BY <1>6, <2>1, ProgramLength, TimingPlaces DEF Arg, Y
<1> QED BY <1>1, <1>3, <1>4, <1>5, <1>6, ProgramLength

LEMMA Numbers ==
    ASSUME Shape
    PROVE  /\ Type \in EvaluationBoard /\ Events \in Nat \ {0}
           /\ Swept = 35 + 12 * Events /\ Cycled = 32 + 5 * Events
           /\ X = (IF Type = 9 THEN 2 ELSE 0) /\ Y = (IF Type = 9 THEN 5 ELSE 0)
BY ProgramLength, CalibrationAssumption DEF Swept, Cycled, X, Y, Extra, Late

LEMMA QuietDo ==
    \A type, a : Quiet(type, a) => /\ a.do \in Poll \cup {"set"}
                                   /\ a.do = "set" => a \in Setters(type)
BY SettersSet DEF Quiet, Poll

LEMMA AtPage ==
    ASSUME Shape, More, Arg.do = "page"
    PROVE  \/ In(4, 4) /\ Arg.page = 0
           \/ In(7, 7) /\ Arg.page = 1
           \/ In(10, 10) /\ Arg.page = 2
           \/ In(13, 13) /\ Arg.page = TimingPage(Type)
           \/ Volt(Swept + 2, Swept + 2) /\ Arg.page = 1
           \/ Type = 9 /\ Volt(Swept + 5, Swept + 5) /\ Arg.page = 2
           \/ Volt(Swept + 6 + X, Swept + 6 + X) /\ Arg.page = 2
           \/ Volt(Swept + 9 + X, Swept + 9 + X) /\ Arg.page = 0
           \/ Volt(Swept + 12 + X, Swept + 12 + X) /\ Arg.page = 0
           \/ Timing(Cycled + 1, Cycled + 1) /\ Arg.page = TimingPage(Type)
           \/ Type = 9 /\ Timing(Cycled + 4, Cycled + 4) /\ Arg.page = 2
           \/ Type = 9 /\ Timing(Cycled + 7, Cycled + 7) /\ Arg.page = 0
           \/ Type = 9 /\ Timing(Cycled + 11, Cycled + 11) /\ Arg.page = 0
           \/ Type # 9 /\ Timing(Cycled + 5, Cycled + 5) /\ Arg.page = 0
BY Numbers, QuietDo, Where
   DEF InitPlace, VoltPlace, StoreVoltPlace, TimingPlace, StoreTimingPlace, Poll, Do, Fetch, Judged,
       Taken, Patch, Fill, FillHeader, BurnTo, Measured, In, Step, Volt, Timing, X, Y, Kind, TimingPage

LEMMA AtGet ==
    ASSUME Shape, More, Arg.do = "get"
    PROVE  \/ In(5, 5)
           \/ In(8, 8)
           \/ In(11, 11)
           \/ In(14, 14)
           \/ Type = 9 /\ Volt(Swept + 6, Swept + 6)
           \/ Volt(Swept + 10 + X, Swept + 10 + X)
           \/ Timing(Cycled + 2, Cycled + 2)
           \/ Type = 9 /\ Timing(Cycled + 8, Cycled + 8)
BY Numbers, QuietDo, Where
   DEF InitPlace, VoltPlace, StoreVoltPlace, TimingPlace, StoreTimingPlace, Poll, Do, Fetch, Judged,
       Taken, Patch, Fill, FillHeader, BurnTo, Measured, In, Step, Volt, Timing, X, Y, Kind, TimingPage

LEMMA AtPatch ==
    ASSUME Shape, More, Arg.do = "patch"
    PROVE  \/ Volt(Swept + 1, Swept + 1) /\ Arg.words = {"v1"}
           \/ Volt(Swept + 5 + X, Swept + 5 + X) /\ Arg.words = {"v2"}
           \/ Volt(Swept + 11 + X, Swept + 11 + X) /\ Arg.words = {"vmeth", "range"}
           \/ Type = 9 /\ Timing(Cycled + 3, Cycled + 3) /\ Arg.words = {"dt"}
           \/ Type = 9 /\ Timing(Cycled + 9, Cycled + 9) /\ Arg.words = {"tmeth", "tfreq"}
           \/ Type # 9 /\ Timing(Cycled + 3, Cycled + 3) /\ Arg.words = {"dt", "tmeth", "tfreq"}
BY Numbers, QuietDo, Where
   DEF InitPlace, VoltPlace, StoreVoltPlace, TimingPlace, StoreTimingPlace, Poll, Do, Fetch, Judged,
       Taken, Patch, Fill, FillHeader, BurnTo, Measured, In, Step, Volt, Timing, X, Y, Kind, TimingPage

LEMMA AtRam ==
    ASSUME Shape, More, Arg.do = "ram"
    PROVE  \/ /\ Volt(Swept + 13 + X, Swept + 13 + X)
              /\ Arg.words = Header /\ Arg.half = Words(Type, 0) \ Header
           \/ /\ Arg.half = {}
              /\ \/ Volt(Swept + 3, Swept + 3) /\ Arg.words = Words(Type, 1)
                 \/ Volt(Swept + 7 + X, Swept + 7 + X) /\ Arg.words = Words(Type, 2)
                 \/ Type = 9 /\ Timing(Cycled + 5, Cycled + 5) /\ Arg.words = Words(Type, 2)
                 \/ Type = 9 /\ Timing(Cycled + 12, Cycled + 12) /\ Arg.words = Words(Type, 0)
                 \/ Type # 9 /\ Timing(Cycled + 6, Cycled + 6) /\ Arg.words = Words(Type, 0)
BY Numbers, QuietDo, Where
   DEF InitPlace, VoltPlace, StoreVoltPlace, TimingPlace, StoreTimingPlace, Poll, Do, Fetch, Judged,
       Taken, Patch, Fill, FillHeader, BurnTo, Measured, In, Step, Volt, Timing, X, Y, Kind, TimingPage

LEMMA AtBurn ==
    ASSUME Shape, More, Arg.do = "burn"
    PROVE  \/ Volt(Swept + 4, Swept + 4) /\ Arg.page = 1
           \/ Volt(Swept + 8 + X, Swept + 8 + X) /\ Arg.page = 2
           \/ Volt(Swept + 14 + X, Swept + 14 + X) /\ Arg.page = 0
           \/ Type = 9 /\ Timing(Cycled + 6, Cycled + 6) /\ Arg.page = 2
           \/ Type = 9 /\ Timing(Cycled + 13, Cycled + 13) /\ Arg.page = 0
           \/ Type # 9 /\ Timing(Cycled + 7, Cycled + 7) /\ Arg.page = 0
BY Numbers, QuietDo, Where
   DEF InitPlace, VoltPlace, StoreVoltPlace, TimingPlace, StoreTimingPlace, Poll, Do, Fetch, Judged,
       Taken, Patch, Fill, FillHeader, BurnTo, Measured, In, Step, Volt, Timing, X, Y, Kind, TimingPage

LEMMA AtLoad ==
    ASSUME Shape, More, Arg.do = "load"
    PROVE  \/ In(9, 9) /\ Arg.tables = {"v1"}
           \/ In(12, 12) /\ Arg.tables = {"v2"}
           \/ In(15, 15) /\ Arg.tables = {"dt", "rest"}
BY Numbers, QuietDo, Where
   DEF InitPlace, VoltPlace, StoreVoltPlace, TimingPlace, StoreTimingPlace, Poll, Do, Fetch, Judged,
       Taken, Patch, Fill, FillHeader, BurnTo, Measured, In, Step, Volt, Timing, X, Y, Kind, TimingPage

LEMMA AtMeasured ==
    ASSUME Shape, More, Arg.do = "measured"
    PROVE  \/ Volt(33 + 8 * Events, 33 + 8 * Events) /\ Arg.tables = {"v1"}
           \/ Volt(Swept, Swept) /\ Arg.tables = {"v2"}
           \/ Type = 9 /\ Timing(Cycled, Cycled) /\ Arg.tables = {"dt", "rest"}
           \/ Type # 9 /\ Timing(Cycled, Cycled) /\ Arg.tables = {"dt"}
BY Numbers, QuietDo, Where
   DEF InitPlace, VoltPlace, StoreVoltPlace, TimingPlace, StoreTimingPlace, Poll, Do, Fetch, Judged,
       Taken, Patch, Fill, FillHeader, BurnTo, Measured, In, Step, Volt, Timing, X, Y, Kind, TimingPage

LEMMA AtJudge ==
    ASSUME Shape, More, Arg.do = "judge"
    PROVE  In(6, 6) /\ Arg.skip = 9
BY Numbers, QuietDo, Where
   DEF InitPlace, VoltPlace, StoreVoltPlace, TimingPlace, StoreTimingPlace, Poll, Do, Fetch, Judged,
       Taken, Patch, Fill, FillHeader, BurnTo, Measured, In, Step, Volt, Timing, X, Y, Kind, TimingPage

LEMMA AtAnalyse ==
    ASSUME Shape, More, Arg.do = "analyse"
    PROVE  Timing(32, Cycled - 1) /\ Arg.skip = Cycled - 1 - at
BY Numbers, QuietDo, Where
   DEF InitPlace, VoltPlace, StoreVoltPlace, TimingPlace, StoreTimingPlace, Poll, Do, Fetch, Judged,
       Taken, Patch, Fill, FillHeader, BurnTo, Measured, In, Step, Volt, Timing, X, Y, Kind, TimingPage

LEMMA AtForget ==
    ASSUME Shape, More, Arg.do = "forget"
    PROVE  In(3, 3)
BY Numbers, QuietDo, Where
   DEF InitPlace, VoltPlace, StoreVoltPlace, TimingPlace, StoreTimingPlace, Poll, Do, Fetch, Judged,
       Taken, Patch, Fill, FillHeader, BurnTo, Measured, In, Step, Volt, Timing, X, Y, Kind, TimingPage

LEMMA AtDefaults ==
    ASSUME Shape, More, Arg.do = "defaults"
    PROVE  In(2, 2)
BY Numbers, QuietDo, Where
   DEF InitPlace, VoltPlace, StoreVoltPlace, TimingPlace, StoreTimingPlace, Poll, Do, Fetch, Judged,
       Taken, Patch, Fill, FillHeader, BurnTo, Measured, In, Step, Volt, Timing, X, Y, Kind, TimingPage

LEMMA AtAdopt ==
    ASSUME Shape, More, Arg.do = "adopt"
    PROVE  In(16, 16)
BY Numbers, QuietDo, Where
   DEF InitPlace, VoltPlace, StoreVoltPlace, TimingPlace, StoreTimingPlace, Poll, Do, Fetch, Judged,
       Taken, Patch, Fill, FillHeader, BurnTo, Measured, In, Step, Volt, Timing, X, Y, Kind, TimingPage

LEMMA AtReinit ==
    ASSUME Shape, More, Arg.do = "reinit"
    PROVE  \/ In(1, 1)
           \/ In(21, 21)
BY Numbers, QuietDo, Where
   DEF InitPlace, VoltPlace, StoreVoltPlace, TimingPlace, StoreTimingPlace, Poll, Do, Fetch, Judged,
       Taken, Patch, Fill, FillHeader, BurnTo, Measured, In, Step, Volt, Timing, X, Y, Kind, TimingPage

LEMMA AtSave ==
    ASSUME Shape, More, Arg.do = "save"
    PROVE  mpc \in Kind /\ at = 1
BY Numbers, QuietDo, Where
   DEF InitPlace, VoltPlace, StoreVoltPlace, TimingPlace, StoreTimingPlace, Poll, Do, Fetch, Judged,
       Taken, Patch, Fill, FillHeader, BurnTo, Measured, In, Step, Volt, Timing, X, Y, Kind, TimingPage

LEMMA AtNominal ==
    ASSUME Shape, More, Arg.do = "nominal"
    PROVE  mpc \in Kind /\ at = 23
BY Numbers, QuietDo, Where
   DEF InitPlace, VoltPlace, StoreVoltPlace, TimingPlace, StoreTimingPlace, Poll, Do, Fetch, Judged,
       Taken, Patch, Fill, FillHeader, BurnTo, Measured, In, Step, Volt, Timing, X, Y, Kind, TimingPage

LEMMA AtUntimed ==
    ASSUME Shape, More, Arg.do = "untimed"
    PROVE  Timing(24, 24)
BY Numbers, QuietDo, Where
   DEF InitPlace, VoltPlace, StoreVoltPlace, TimingPlace, StoreTimingPlace, Poll, Do, Fetch, Judged,
       Taken, Patch, Fill, FillHeader, BurnTo, Measured, In, Step, Volt, Timing, X, Y, Kind, TimingPage

LEMMA AtFlat ==
    ASSUME Shape, More, Arg.do = "flat"
    PROVE  Timing(31, 31)
BY Numbers, QuietDo, Where
   DEF InitPlace, VoltPlace, StoreVoltPlace, TimingPlace, StoreTimingPlace, Poll, Do, Fetch, Judged,
       Taken, Patch, Fill, FillHeader, BurnTo, Measured, In, Step, Volt, Timing, X, Y, Kind, TimingPage

LEMMA AtTimed ==
    ASSUME Shape, More, Arg.do = "timed"
    PROVE  \/ Type = 9 /\ Timing(Cycled + 10, Cycled + 10)
           \/ Type # 9 /\ Timing(Cycled + 4, Cycled + 4)
BY Numbers, QuietDo, Where
   DEF InitPlace, VoltPlace, StoreVoltPlace, TimingPlace, StoreTimingPlace, Poll, Do, Fetch, Judged,
       Taken, Patch, Fill, FillHeader, BurnTo, Measured, In, Step, Volt, Timing, X, Y, Kind, TimingPage

LEMMA AtCopy ==
    ASSUME Shape, More, Arg.do = "copy"
    PROVE  Type # 9 /\ Timing(Cycled + 8, Cycled + 8)
BY Numbers, QuietDo, Where
   DEF InitPlace, VoltPlace, StoreVoltPlace, TimingPlace, StoreTimingPlace, Poll, Do, Fetch, Judged,
       Taken, Patch, Fill, FillHeader, BurnTo, Measured, In, Step, Volt, Timing, X, Y, Kind, TimingPage

LEMMA AtValid ==
    ASSUME Shape, More, Arg.do = "valid"
    PROVE  Volt(Swept + 15 + X, Swept + 15 + X)
BY Numbers, QuietDo, Where
   DEF InitPlace, VoltPlace, StoreVoltPlace, TimingPlace, StoreTimingPlace, Poll, Do, Fetch, Judged,
       Taken, Patch, Fill, FillHeader, BurnTo, Measured, In, Step, Volt, Timing, X, Y, Kind, TimingPage

LEMMA AtFrequency ==
    ASSUME Shape, More, Arg.do = "frequency"
    PROVE  \/ Volt(24, 24)
           \/ Timing(25, 25)
BY Numbers, QuietDo, Where
   DEF InitPlace, VoltPlace, StoreVoltPlace, TimingPlace, StoreTimingPlace, Poll, Do, Fetch, Judged,
       Taken, Patch, Fill, FillHeader, BurnTo, Measured, In, Step, Volt, Timing, X, Y, Kind, TimingPage

LEMMA AtRange ==
    ASSUME Shape, More, Arg.do = "range"
    PROVE  \/ Volt(28, 28)
           \/ Timing(Cycled + 11 + Y, Cycled + 11 + Y)
BY Numbers, QuietDo, Where
   DEF InitPlace, VoltPlace, StoreVoltPlace, TimingPlace, StoreTimingPlace, Poll, Do, Fetch, Judged,
       Taken, Patch, Fill, FillHeader, BurnTo, Measured, In, Step, Volt, Timing, X, Y, Kind, TimingPage

LEMMA AtTcal ==
    ASSUME Shape, More, Arg.do = "tcal"
    PROVE  \/ Volt(Swept + 17 + X, Swept + 17 + X)
           \/ Timing(Cycled + 10 + Y, Cycled + 10 + Y)
BY Numbers, QuietDo, Where
   DEF InitPlace, VoltPlace, StoreVoltPlace, TimingPlace, StoreTimingPlace, Poll, Do, Fetch, Judged,
       Taken, Patch, Fill, FillHeader, BurnTo, Measured, In, Step, Volt, Timing, X, Y, Kind, TimingPage

LEMMA AtTriggers ==
    ASSUME Shape, More, Arg.do = "triggers"
    PROVE  \/ Volt(Swept + 18 + X, Swept + 18 + X)
           \/ Timing(Cycled + 12 + Y, Cycled + 12 + Y)
BY Numbers, QuietDo, Where
   DEF InitPlace, VoltPlace, StoreVoltPlace, TimingPlace, StoreTimingPlace, Poll, Do, Fetch, Judged,
       Taken, Patch, Fill, FillHeader, BurnTo, Measured, In, Step, Volt, Timing, X, Y, Kind, TimingPage

LEMMA AtQuiet ==
    ASSUME Shape, More, Arg.do \in Poll \cup {"set"}
    PROVE  /\ Arg.do = "set" => Arg \in Setters(Type)
           /\ \/ In(17, 20)
              \/ Volt(25, 27)
              \/ Volt(29, 32 + 8 * Events)
              \/ Volt(34 + 8 * Events, Swept - 1)
              \/ Volt(Swept + 16 + X, Swept + 16 + X)
              \/ Timing(26, 30)
              \/ Timing(32, Cycled - 1)
              \/ Timing(Cycled + 9 + Y, Cycled + 9 + Y)
BY Numbers, QuietDo, Where
   DEF InitPlace, VoltPlace, StoreVoltPlace, TimingPlace, StoreTimingPlace, Poll, Do, Fetch, Judged,
       Taken, Patch, Fill, FillHeader, BurnTo, Measured, In, Step, Volt, Timing, X, Y, Kind, TimingPage

-----------------------------------------------------------------------------
(* What the setters do to the bits that a calibration saves.                *)
Apart(b) ==     \* the steps that leave bit b alone
    {Load, Send} \cup {Store(set, clear) : set \in SUBSET (Bit \ {b}), clear \in SUBSET (Bit \ {b})}
      \cup {Put("calib", v) : v \in {"zero", "common", "static"}} \cup {Put("trigger", {})}

LEMMA ChangeApart ==
    ASSUME NEW b \in Bit, NEW steps \in Seq(Apart(b))
    PROVE  b \notin Change(steps).set /\ b \notin Change(steps).clear
<1>1. \A s \in Apart(b) : s.op = "store" => b \notin s.set /\ b \notin s.clear
  BY DEF Apart, Load, Send, Store, Put
<1>2. \A k \in DOMAIN steps : steps[k] \in Apart(b)
  OBVIOUS
<1> QED BY <1>1, <1>2 DEF Change

LEMMA JoinApart ==
    ASSUME NEW b, NEW s \in Seq(Apart(b)), NEW t \in Seq(Apart(b))
    PROVE  s \o t \in Seq(Apart(b))
OBVIOUS

LEMMA UpdateApart ==
    ASSUME NEW b, NEW set \in SUBSET (Bit \ {b}), NEW clear \in SUBSET (Bit \ {b})
    PROVE  /\ Update(set, clear) \in Seq(Apart(b))
           /\ Append(Update(set, clear), Send) \in Seq(Apart(b))
<1>1. Load \in Apart(b) /\ Send \in Apart(b) /\ Store(set, clear) \in Apart(b)
  BY DEF Apart
<1> QED BY <1>1 DEF Update

LEMMA NamedBits ==
    {TCAL_EN, TCAL_SOURCE, TRANSP_MODE, NEG_TRIGGER, ACAL_EN, TR_SOURCE1, TR_SOURCE2,
     ENABLE_TRIGGER1, ENABLE_TRIGGER2, READOUT_MODE, DACTIVE} \subseteq Bit
BY DEF TRANSP_MODE, TCAL_EN, TCAL_SOURCE, NEG_TRIGGER, ACAL_EN, TR_SOURCE1, TR_SOURCE2,
       ENABLE_TRIGGER1, ENABLE_TRIGGER2, READOUT_MODE, DACTIVE, Bit

LEMMA SwitchApart ==
    ASSUME NEW b \in Bit, NEW bit \in Bit, bit # b, NEW flag \in BOOLEAN
    PROVE  Assign(bit, flag) \in Seq(Apart(b)) /\ Switch(bit, flag) \in Seq(Apart(b))
<1>1. CASE flag
  BY <1>1, UpdateApart DEF Assign, Switch
<1>2. CASE ~flag
  BY <1>2, UpdateApart DEF Assign, Switch
<1> QED BY <1>1, <1>2

LEMMA TriggerApart ==
    ASSUME NEW b \in Bit \ {ENABLE_TRIGGER1, ENABLE_TRIGGER2},
           NEW flag1 \in BOOLEAN, NEW flag2 \in BOOLEAN
    PROVE  EnableTrigger(flag1, flag2) \in Seq(Apart(b))
<1>1. /\ Assign(ENABLE_TRIGGER1, flag1) \in Seq(Apart(b))
      /\ Switch(ENABLE_TRIGGER2, flag2) \in Seq(Apart(b))
  BY NamedBits, SwitchApart
<1> QED BY <1>1, JoinApart DEF EnableTrigger

LEMMA TcalApart ==
    ASSUME NEW b \in Bit \ {TCAL_EN, TCAL_SOURCE, NEG_TRIGGER, ACAL_EN}, NEW type,
           NEW freq \in BOOLEAN, NEW level \in BOOLEAN
    PROVE  EnableTcal(type, freq, level) \in Seq(Apart(b))
<1>1. Switch(NEG_TRIGGER, level) \in Seq(Apart(b))
  BY NamedBits, SwitchApart
<1>2. /\ Append(Update({TCAL_EN, ACAL_EN}, {}), Send) \in Seq(Apart(b))
      /\ Append(Update({}, {TCAL_EN, ACAL_EN}), Send) \in Seq(Apart(b))
      /\ Update({TCAL_EN}, {}) \in Seq(Apart(b))
      /\ Update({}, {TCAL_EN, TCAL_SOURCE}) \in Seq(Apart(b))
  BY UpdateApart DEF TCAL_EN, TCAL_SOURCE, ACAL_EN, NEG_TRIGGER, Bit
<1>3. CASE type = 9
  BY <1>2, <1>3 DEF EnableTcal
<1>4. CASE type # 9
  BY <1>1, <1>2, <1>4, JoinApart DEF EnableTcal
<1> QED BY <1>3, <1>4

LEMMA ClockApart ==
    ASSUME NEW b \in Bit \ {TCAL_SOURCE}, NEW type, NEW source \in BOOLEAN
    PROVE  SelectClockSource(type, source) \in Seq(Apart(b))
<1>1. Switch(TCAL_SOURCE, source) \in Seq(Apart(b))
  BY NamedBits, SwitchApart
<1> QED BY <1>1 DEF SelectClockSource

LEMMA AcalApart ==
    ASSUME NEW b \in Bit \ {ACAL_EN}, NEW type
    PROVE  EnableAcalOff(type) \in Seq(Apart(b)) /\ EnableAcalStatic \in Seq(Apart(b))
<1>1. Switch(ACAL_EN, TRUE) \in Seq(Apart(b)) /\ Switch(ACAL_EN, FALSE) \in Seq(Apart(b))
  BY NamedBits, SwitchApart
<1>2. \A v \in {"zero", "common", "static"} : <<Put("calib", v)>> \in Seq(Apart(b))
  BY DEF Apart
<1> QED BY <1>1, <1>2, JoinApart DEF EnableAcalOff, EnableAcalStatic

LEMMA SourceApart ==
    ASSUME NEW b \in Bit \ {TR_SOURCE1, TR_SOURCE2}, NEW type
    PROVE  SetTriggerSource(type, {}) \in Seq(Apart(b))
<1>1. Assign(TR_SOURCE1, FALSE) \in Seq(Apart(b)) /\ Switch(TR_SOURCE2, FALSE) \in Seq(Apart(b))
  BY NamedBits, SwitchApart
<1>2. <<Put("trigger", {})>> \in Seq(Apart(b))
  BY DEF Apart
<1>3. (0 \in {}) = FALSE /\ (1 \in {}) = FALSE
  OBVIOUS
<1>4. Assign(TR_SOURCE1, 0 \in {}) = Assign(TR_SOURCE1, FALSE)
  BY <1>3
<1>5. Switch(TR_SOURCE2, 1 \in {}) = Switch(TR_SOURCE2, FALSE)
  BY <1>3
<1> QED BY <1>1, <1>2, <1>4, <1>5, JoinApart DEF SetTriggerSource

(* No setter of a calibration changes the transparent mode.                 *)
LEMMA SettersKeepTransparent ==
    ASSUME NEW type, NEW a \in Setters(type)
    PROVE  /\ a.change.set \subseteq Bit /\ a.change.clear \subseteq Bit
           /\ TRANSP_MODE \notin a.change.set /\ TRANSP_MODE \notin a.change.clear
<1> DEFINE S == Seq(Apart(TRANSP_MODE))
<1>1. TRANSP_MODE \in Bit \ {TCAL_EN, TCAL_SOURCE, NEG_TRIGGER, ACAL_EN, TR_SOURCE1, TR_SOURCE2,
                             ENABLE_TRIGGER1, ENABLE_TRIGGER2, READOUT_MODE, DACTIVE}
  BY DEF TRANSP_MODE, TCAL_EN, TCAL_SOURCE, NEG_TRIGGER, ACAL_EN, TR_SOURCE1, TR_SOURCE2,
         ENABLE_TRIGGER1, ENABLE_TRIGGER2, READOUT_MODE, DACTIVE, Bit
<1>2. SetReadoutMode(TRUE) \in S /\ SetDominoActive(TRUE) \in S
  BY <1>1, NamedBits, SwitchApart DEF SetReadoutMode, SetDominoActive
<1>3. EnableTrigger(FALSE, FALSE) \in S /\ SetTriggerSource(type, {}) \in S
  BY <1>1, TriggerApart, SourceApart
<1>4. /\ EnableTcal(type, FALSE, FALSE) \in S /\ EnableTcal(type, TRUE, FALSE) \in S
      /\ EnableTcal(type, FALSE, TRUE) \in S
  BY <1>1, TcalApart
<1>5. /\ SelectClockSource(type, FALSE) \in S /\ SelectClockSource(type, TRUE) \in S
      /\ EnableAcalOff(type) \in S /\ EnableAcalStatic \in S
  BY <1>1, ClockApart, AcalApart
<1>6. \A s \in S, t \in S : s \o t \in S
  BY JoinApart
<1>7. \A s \in S : /\ TRANSP_MODE \notin Setter(s).change.set
                   /\ TRANSP_MODE \notin Setter(s).change.clear
                   /\ Setter(s).change.set \subseteq Bit /\ Setter(s).change.clear \subseteq Bit
  <2>1. \A s : Setter(s).change = Change(s)
    BY DEF Setter
  <2>2. \A s : Change(s).set \subseteq Bit /\ Change(s).clear \subseteq Bit
    BY DEF Change
  <2>3. \A s \in S : TRANSP_MODE \notin Change(s).set /\ TRANSP_MODE \notin Change(s).clear
    BY <1>1, ChangeApart
  <2> QED BY <2>1, <2>2, <2>3
<1>8. \E s \in S : a = Setter(s)
  <2> HIDE DEF S
  <2> QED BY <1>2, <1>3, <1>4, <1>5, <1>6
      DEF Setters, DefaultSetters, ClockSetters, DominoSetters, InternalSetters,
          OffsetSetters, GainSetters, TimingSetters
<1> QED BY <1>7, <1>8

LEMMA OneStore ==
    ASSUME NEW s, {k \in DOMAIN s : s[k].op = "store"} = {2}
    PROVE  /\ \A b : b \in Change(s).set <=> (b \in Bit /\ b \in s[2].set)
           /\ \A b : b \in Change(s).clear <=> (b \in Bit /\ b \in s[2].clear)
BY DEF Change

LEMMA TwoStores ==
    ASSUME NEW s, {k \in DOMAIN s : s[k].op = "store"} = {2, 4}
    PROVE  /\ \A b : b \in Change(s).set
                       <=> /\ b \in Bit
                           /\ b \in s[4].set \/ (b \in s[2].set /\ b \notin s[4].clear)
           /\ \A b : b \in Change(s).clear
                       <=> /\ b \in Bit
                           /\ b \in s[4].clear \/ (b \in s[2].clear /\ b \notin s[4].set)
BY DEF Change

LEMMA TriggersAssigned ==
    ASSUME NEW flag1 \in BOOLEAN, NEW flag2 \in BOOLEAN,
           NEW c, c = Change(EnableTrigger(flag1, flag2))
    PROVE  /\ c.set \subseteq Bit /\ c.clear \subseteq Bit
           /\ TRANSP_MODE \notin c.set \cup c.clear /\ TCAL_EN \notin c.set \cup c.clear
           /\ ENABLE_TRIGGER1 \in c.set <=> flag1
           /\ ENABLE_TRIGGER1 \in c.clear <=> ~flag1
           /\ ENABLE_TRIGGER2 \in c.set <=> flag2
           /\ ENABLE_TRIGGER2 \in c.clear <=> ~flag2
<1> DEFINE s == EnableTrigger(flag1, flag2)
<1>1. /\ Len(s) = 5 /\ s[1] = Load /\ s[3] = Load /\ s[5] = Send /\ DOMAIN s = 1 .. 5
      /\ s[2] = IF flag1 THEN Store({ENABLE_TRIGGER1}, {}) ELSE Store({}, {ENABLE_TRIGGER1})
      /\ s[4] = IF flag2 THEN Store({ENABLE_TRIGGER2}, {}) ELSE Store({}, {ENABLE_TRIGGER2})
  BY DEF EnableTrigger, Assign, Switch, Update
<1>2. c = Change(s)
  OBVIOUS
<1> HIDE DEF s
<1>3. {k \in DOMAIN s : s[k].op = "store"} = {2, 4}
  BY <1>1 DEF Load, Send, Store
<1>4. /\ s[2].set = (IF flag1 THEN {22} ELSE {}) /\ s[2].clear = (IF flag1 THEN {} ELSE {22})
      /\ s[4].set = (IF flag2 THEN {31} ELSE {}) /\ s[4].clear = (IF flag2 THEN {} ELSE {31})
  BY <1>1 DEF Store, ENABLE_TRIGGER1, ENABLE_TRIGGER2
<1>5. /\ \A b : b \in c.set <=> b \in Bit /\ (b \in s[4].set \/ (b \in s[2].set /\ b \notin s[4].clear))
      /\ \A b : b \in c.clear <=> b \in Bit /\ (b \in s[4].clear \/ (b \in s[2].clear /\ b \notin s[4].set))
  BY <1>2, <1>3, TwoStores
<1> QED BY <1>4, <1>5
        DEF ENABLE_TRIGGER1, ENABLE_TRIGGER2, TRANSP_MODE, TCAL_EN, Bit

LEMMA TcalAssigned ==
    ASSUME NEW type, NEW freq \in BOOLEAN, NEW c, c = Change(EnableTcal(type, freq, FALSE))
    PROVE  /\ c.set \subseteq Bit /\ c.clear \subseteq Bit
           /\ TRANSP_MODE \notin c.set \cup c.clear
           /\ TCAL_EN \in c.set <=> freq
           /\ TCAL_EN \in c.clear <=> ~freq
<1> DEFINE s == EnableTcal(type, freq, FALSE)
<1>1. c = Change(s)
  OBVIOUS
<1>2. CASE type = 9
  <2>1. /\ Len(s) = 3 /\ s[1] = Load /\ s[3] = Send /\ DOMAIN s = 1 .. 3
        /\ s[2] = IF freq THEN Store({TCAL_EN, ACAL_EN}, {}) ELSE Store({}, {TCAL_EN, ACAL_EN})
    BY <1>2 DEF EnableTcal, Update
  <2> HIDE DEF s
  <2>2. {k \in DOMAIN s : s[k].op = "store"} = {2}
    BY <2>1 DEF Load, Send, Store
  <2>3. 19 \in Bit /\ 21 \in Bit /\ TCAL_EN = 19 /\ TRANSP_MODE = 21
    BY DEF Bit, TCAL_EN, TRANSP_MODE
  <2>5. /\ 19 \in s[2].set <=> freq
        /\ 19 \in s[2].clear <=> ~freq
        /\ 21 \notin s[2].set /\ 21 \notin s[2].clear
    BY <2>1 DEF Store, TCAL_EN, ACAL_EN, TCAL_SOURCE
  <2>4. /\ \A b : b \in c.set <=> (b \in Bit /\ b \in s[2].set)
        /\ \A b : b \in c.clear <=> (b \in Bit /\ b \in s[2].clear)
    BY <1>1, <2>2, OneStore
  <2> QED BY <2>3, <2>4, <2>5
<1>3. CASE type # 9
  <2>1. /\ Len(s) = 5 /\ s[1] = Load /\ s[3] = Load /\ s[5] = Send /\ DOMAIN s = 1 .. 5
        /\ s[2] = IF freq THEN Store({TCAL_EN}, {}) ELSE Store({}, {TCAL_EN, TCAL_SOURCE})
        /\ s[4] = Store({}, {NEG_TRIGGER})
    BY <1>3 DEF EnableTcal, Assign, Switch, Update
  <2> HIDE DEF s
  <2>2. {k \in DOMAIN s : s[k].op = "store"} = {2, 4}
    BY <2>1 DEF Load, Send, Store
  <2>3. 19 \in Bit /\ 21 \in Bit /\ TCAL_EN = 19 /\ TRANSP_MODE = 21
    BY DEF Bit, TCAL_EN, TRANSP_MODE
  <2>5. /\ 19 \in s[2].set <=> freq
        /\ 19 \in s[2].clear <=> ~freq
        /\ 21 \notin s[2].set /\ 21 \notin s[2].clear
    BY <2>1 DEF Store, TCAL_EN, ACAL_EN, TCAL_SOURCE
  <2>6. s[4].set = {} /\ s[4].clear = {24}
    BY <2>1 DEF Store, NEG_TRIGGER
  <2>4. /\ \A b : b \in c.set <=> b \in Bit /\ (b \in s[4].set \/ (b \in s[2].set /\ b \notin s[4].clear))
        /\ \A b : b \in c.clear <=> b \in Bit /\ (b \in s[4].clear \/ (b \in s[2].clear /\ b \notin s[4].set))
    BY <1>1, <2>2, TwoStores
  <2>7. /\ 19 \notin s[4].set /\ 19 \notin s[4].clear
        /\ 21 \notin s[4].set /\ 21 \notin s[4].clear
    BY <2>6
  <2>8. /\ 19 \in c.set <=> freq
        /\ 19 \in c.clear <=> ~freq
    BY <2>3, <2>4, <2>5, <2>7
  <2>9. 21 \notin c.set /\ 21 \notin c.clear /\ c.set \subseteq Bit /\ c.clear \subseteq Bit
    BY <2>4, <2>5, <2>7
  <2> QED BY <2>3, <2>8, <2>9
<1> QED BY <1>2, <1>3

-----------------------------------------------------------------------------
(* The types and the places.                                                *)
LEMMA Constant ==
    ASSUME board' = board
    PROVE  /\ Type' = Type /\ Table' = Table /\ Generation' = Generation /\ Memory' = Memory
           /\ X' = X /\ Y' = Y
           /\ TimedAt' = TimedAt /\ WidthsBurnt' = WidthsBurnt /\ TimeBurnt' = TimeBurnt
BY DEF Type, Table, Generation, Memory, X, Y, TimedAt, WidthsBurnt, TimeBurnt

LEMMA BoardKept ==
    ASSUME Next
    PROVE  board' = board
<1>1. CASE MainOp
  BY <1>1 DEF MainOp, Op, Judge, Analyse, Set, Start, Soft, Reset, Transfer, Page, Get, PatchBuf,
     PutRam, Burn, Forget, Defaults, LoadTables, Adopt, Nominal, Untimed, FlatTime, Timed, Copy,
     Valid, Convert, Save, SetFreq, SetRange, RestoreTcal, RestoreTriggers
<1>2. CASE Preview
  BY <1>2 DEF Preview, Worker, Configure, PreviewStart, PreviewForce, PreviewWait, PreviewOther,
     PreviewTransfer
<1> QED BY <1>1, <1>2 DEF Next, Main, Boot, Calibrate, Calibrated, Spin, Op, ReadoutEnds,
           HardwareTrigger, Crash

LEMMA TypesKept ==
    ASSUME Shape, Next
    PROVE  Types'
<1>1. board' = board /\ Type' = Type /\ Table' = Table /\ Generation' = Generation
      /\ Memory' = Memory
  BY BoardKept, Constant
<1>2. 0 \in Table /\ Garbage \in Table /\ Flat \in Table /\ Garbage \in Int /\ 0 \in Generation
  BY CalibrationAssumption DEF Table, Generation, Shape, Types, Garbage, Flat
<1>3. \A t \in Table : t \in Int
  BY CalibrationAssumption DEF Table, Generation, Shape, Types, Garbage, Flat
<1>4. CASE Set
  <2>2. bits' \subseteq Bit
    BY <1>4, AtQuiet, SettersKeepTransparent DEF Set, Op, Effect, Shape, Types
  <2> QED BY <1>1, <1>4, <2>2
         DEF Set, Op, Keep, Shape, Types, IsPage
<1>5. CASE Start
  BY <1>1, <1>5 DEF Start, Op, Keep, Trigger, Shape, Types, IsPage
<1>6. CASE Soft
  BY <1>1, <1>6 DEF Soft, Op, Keep, Trigger, Shape, Types, IsPage
<1>7. CASE Reset
  BY <1>1, <1>7 DEF Reset, Op, Keep, Shape, Types, IsPage
<1>8. CASE Spin
  BY <1>1, <1>8 DEF Spin, Op, Keep, Shape, Types, IsPage
<1>9. CASE Transfer
  <2>2. IsPage(ram', Word)
    BY <1>9, <1>2 DEF Transfer, IsPage, Wave
  <2> QED BY <1>1, <1>9, <2>2
         DEF Transfer, Op, Keep, Shape, Types, IsPage
<1>10. CASE Page
  <2>2. \A w \in Word : ram'[w] \in Int /\ (w \in Count => ram'[w] \in Table)
    <3>1. Arg.page \in 0 .. 2
      BY <1>10, AtPage DEF Page, Op, TimingPage
    <3>2. \A w \in Words(Type, Arg.page) : /\ eeprom[Arg.page][w] \in Int
                                           /\ w \in Count => eeprom[Arg.page][w] \in Table
      BY <3>1 DEF Shape, Types, IsPage
    <3>3. DOMAIN eeprom[Arg.page] = Words(Type, Arg.page)
      BY <3>1 DEF Shape, Types, IsPage
    <3> QED BY <1>10, <1>2, <3>2, <3>3 DEF Page
  <2> QED BY <1>1, <1>10, <2>2
         DEF Page, Op, Keep, Shape, Types, IsPage
<1>11. CASE Get
  BY <1>1, <1>11 DEF Get, Op, Keep, Shape, Types, IsPage
<1>12. CASE PatchBuf
  <2>2. \A w \in Word : buf'[w] \in Int /\ (w \in Count => buf'[w] \in Table)
    <3>1. /\ gen \in Int /\ gen \in Table /\ reg.range \in Int /\ mem.nominal \in Int
          /\ mem.dt \in Table /\ mem.v1 \in Table /\ mem.v2 \in Table
      <4>1. gen \in Table
        BY DEF Shape, Types, Table
      <4>2. mem \in Memory /\ reg \in Registers
        BY DEF Shape, Types
      <4> QED BY <1>3, <4>1, <4>2 DEF Memory, Registers
    <3>2. \A t \in Table : t \in Int
      BY <1>3
    <3>3. \A w \in Word : buf[w] \in Int /\ (w \in Count => buf[w] \in Table)
      BY DEF Shape, Types, IsPage
    <3>4. \A w \in Word : w \in {"v1", "v2"} => mem[w] \in Table
      BY <3>1
    <3> QED BY <1>12, <3>1, <3>2, <3>3, <3>4 DEF PatchBuf, Count
  <2> QED BY <1>1, <1>12, <2>2
         DEF PatchBuf, Op, Keep, Shape, Types, IsPage
<1>13. CASE PutRam
  <2>2. IsPage(ram', Word)
    BY <1>13, <1>2 DEF PutRam, IsPage, Shape, Types
  <2> QED BY <1>1, <1>13, <2>2
         DEF PutRam, Op, Keep, Shape, Types, IsPage
<1>14. CASE Burn
  <2>2. Arg.page \in 0 .. 2
    BY <1>14, AtBurn DEF Burn, Op
  <2>3. \A p \in 0 .. 2 : IsPage(eeprom'[p], Words(Type, p))
    <3>1. \A p \in 0 .. 2 : Words(Type, p) \subseteq Word /\ IsPage(eeprom[p], Words(Type, p))
      BY DEF Words, Word, Header, Shape, Types
    <3>2. \A w \in Word : ram[w] \in Int /\ (w \in Count => ram[w] \in Table)
      BY DEF Shape, Types, IsPage
    <3>3. ASSUME NEW p \in 0 .. 2
          PROVE  IsPage(eeprom'[p], Words(Type, p))
      <4>1. CASE p # Arg.page
        BY <1>14, <2>2, <3>1, <4>1 DEF Burn, Shape, Types
      <4>2. CASE p = Arg.page
        <5>1. eeprom'[p] = [w \in DOMAIN eeprom[p] |-> ram[w]]
          BY <1>14, <4>2, <2>2 DEF Burn, Shape, Types
        <5>2. DOMAIN eeprom[p] = Words(Type, p)
          BY <3>1 DEF IsPage
        <5> QED BY <5>1, <5>2, <3>1, <3>2 DEF IsPage
      <4> QED BY <4>1, <4>2
    <3> QED BY <3>3
  <2>4. eeprom' = [p \in 0 .. 2 |-> eeprom'[p]]
    BY <1>14, <2>2 DEF Burn, Shape, Types
  <2> QED BY <1>1, <1>14, <2>2, <2>3, <2>4
         DEF Burn, Op, Keep, Shape, Types, IsPage
<1>15. CASE Forget
  <2>2. mem' \in Memory
    <3>1. mem' = [v1 |-> 0, v2 |-> 0, dt |-> 0, rest |-> 0, valid |-> FALSE, range |-> mem.range,
                  tfreq |-> 0, nominal |-> mem.nominal]
      BY <1>15 DEF Forget, Shape, Types, Memory
    <3>2. mem.range \in Int /\ mem.nominal \in 1 .. 60
      BY DEF Shape, Types, Memory
    <3> QED BY <1>2, <3>1, <3>2 DEF Memory
  <2> QED BY <1>1, <1>15, <2>2
         DEF Forget, Op, Keep, Shape, Types, IsPage
<1>16. CASE Defaults
  <2>2. mem' \in Memory /\ reg' \in Registers
    BY <1>16 DEF Defaults, Default, Shape, Types, Memory, Registers
  <2> QED BY <1>1, <1>16, <2>2
         DEF Defaults, Op, Keep, Shape, Types, IsPage
<1>17. CASE Judge
  <2>2. mem' \in Memory
    <3>1. buf["range"] \in Int /\ buf["tfreq"] \in Int
      BY DEF Shape, Types, IsPage, Word, Header
    <3>2. mem \in Memory
      BY DEF Shape, Types
    <3>3. CASE buf["vmeth"] > 0
      <4> DEFINE f == IF buf["tmeth"] > 0 THEN buf["tfreq"] ELSE -1
      <4>1. mem' = [mem EXCEPT !.valid = TRUE, !.range = buf["range"], !.tfreq = f]
        BY <1>17, <3>3 DEF Judge
      <4>2. f \in Int
        BY <3>1
      <4> QED BY <3>1, <3>2, <4>1, <4>2 DEF Memory
    <3>4. CASE ~(buf["vmeth"] > 0)
      BY <1>17, <3>2, <3>4 DEF Judge, Memory
    <3> QED BY <3>3, <3>4
  <2> QED BY <1>1, <1>17, <2>2
         DEF Judge, Keep, Shape, Types, IsPage
<1>18. CASE LoadTables
  <2>2. mem' \in Memory
    <3>1. buf["v1"] \in Table /\ buf["v2"] \in Table /\ buf["dt"] \in Table
      BY DEF Shape, Types, IsPage, Word, Count
    <3> QED BY <1>18, <3>1 DEF LoadTables, Replaced, Shape, Types, Memory
  <2> QED BY <1>1, <1>18, <2>2
         DEF LoadTables, Op, Keep, Shape, Types, IsPage
<1>19. CASE Adopt
  <2>2. mem' \in Memory /\ reg' \in Registers
    BY <1>19 DEF Adopt, Default, Shape, Types, Memory, Registers
  <2>3. IsPage(buf', Word)
    BY <1>19, <1>2 DEF Adopt, IsPage, Wave
  <2> QED BY <1>1, <1>19, <2>2, <2>3
         DEF Adopt, Op, Keep, Shape, Types, IsPage
<1>20. CASE Nominal
  <2>2. mem' \in Memory
    <3>1. saved.nominal \in 1 .. 60
      BY <1>20, AtNominal DEF Nominal, Op, Shape, Places
    <3> QED BY <1>20, <3>1 DEF Nominal, Shape, Types, Memory
  <2> QED BY <1>1, <1>20, <2>2
         DEF Nominal, Op, Keep, Shape, Types, IsPage
<1>21. CASE Untimed
  <2>2. mem' \in Memory
    BY <1>21 DEF Untimed, Shape, Types, Memory
  <2> QED BY <1>1, <1>21, <2>2
         DEF Untimed, Op, Keep, Shape, Types, IsPage
<1>22. CASE FlatTime
  <2>2. mem' \in Memory
    BY <1>22, <1>2 DEF FlatTime, Shape, Types, Memory
  <2> QED BY <1>1, <1>22, <2>2
         DEF FlatTime, Op, Keep, Shape, Types, IsPage
<1>23. CASE Timed
  <2>2. mem' \in Memory
    BY <1>23 DEF Timed, Shape, Types, Memory
  <2> QED BY <1>1, <1>23, <2>2
         DEF Timed, Op, Keep, Shape, Types, IsPage
<1>24. CASE Copy
  <2>2. mem' \in Memory
    BY <1>24 DEF Copy, Shape, Types, Memory
  <2> QED BY <1>1, <1>24, <2>2
         DEF Copy, Op, Keep, Shape, Types, IsPage
<1>25. CASE Valid
  <2>2. mem' \in Memory
    BY <1>25 DEF Valid, Shape, Types, Memory, Registers
  <2> QED BY <1>1, <1>25, <2>2
         DEF Valid, Op, Keep, Shape, Types, IsPage
<1>26. CASE Convert
  <2>2. mem' \in Memory
    <3>1. gen \in Table
      BY DEF Shape, Types, Table, Generation
    <3> QED BY <1>26, <3>1 DEF Convert, Replaced, Word, Shape, Types, Memory
  <2> QED BY <1>1, <1>26, <2>2
         DEF Convert, Op, Keep, Shape, Types, IsPage
<1>27. CASE Analyse
  BY <1>1, <1>27 DEF Analyse, Keep, Shape, Types, IsPage
<1>28. CASE Save
  <2>2. saved' \in Locals
    BY <1>28 DEF Save, Locals, Shape, Types, Memory, Registers
  <2> QED BY <1>1, <1>28, <2>2
         DEF Save, Op, Keep, Shape, Types, IsPage
<1>29. CASE SetFreq
  <2>2. reg' \in Registers
    BY <1>29 DEF SetFreq, Shape, Types, Memory, Registers
  <2> QED BY <1>1, <1>29, <2>2
         DEF SetFreq, Op, Keep, Shape, Types, IsPage
<1>30. CASE SetRange
  <2>2. reg' \in Registers
    BY <1>30 DEF SetRange, Shape, Types, Locals, Registers
  <2> QED BY <1>1, <1>30, <2>2
         DEF SetRange, Op, Keep, Shape, Types, IsPage
<1>31. CASE RestoreTcal
  <2>2. bits' \subseteq Bit
    BY <1>31, TcalAssigned DEF RestoreTcal, Effect, Shape, Types, Locals
  <2> QED BY <1>1, <1>31, <2>2
         DEF RestoreTcal, Op, Keep, Shape, Types, IsPage
<1>32. CASE RestoreTriggers
  <2>2. bits' \subseteq Bit
    BY <1>32, TriggersAssigned DEF RestoreTriggers, Effect, Shape, Types, Locals
  <2> QED BY <1>1, <1>32, <2>2
         DEF RestoreTriggers, Op, Keep, Shape, Types, IsPage
<1>33. CASE Boot
  BY <1>1, <1>33 DEF Boot, histVars, Shape, Types, IsPage
<1>34. CASE Calibrate
  <2>2. mpc' \in Kind /\ gen' \in Generation \ {0}
    BY <1>34, CalibrationAssumption DEF Calibrate, Kind, Generation, Shape, Types
  <2>3. before' \in Found
    BY <1>34 DEF Calibrate, Found, Shape, Types
  <2> QED BY <1>1, <1>34, <2>2, <2>3
         DEF Calibrate, Shape, Types, IsPage
<1>35. CASE Calibrated
  <2>2. last' \in [Kind -> Generation]
    BY <1>35 DEF Calibrated, Shape, Types
  <2>3. saved' \in Locals
    BY <1>35 DEF Calibrated, NoLocals, Locals
  <2>4. IsPage(buf', Word)
    BY <1>35, <1>2 DEF Calibrated, IsPage, Wave
  <2> QED BY <1>1, <1>35, <2>2, <2>3, <2>4
         DEF Calibrated, Shape, Types, IsPage
<1>36. CASE Crash
  <2>2. IsPage(buf', Word) /\ IsPage(ram', Word)
    BY <1>36, <1>2 DEF Crash, IsPage, Wave
  <2>3. mem' \in Memory
    BY <1>36, <1>2 DEF Crash, NoMemory, Memory, Default
  <2>4. saved' \in Locals
    BY <1>36 DEF Crash, NoLocals, Locals
  <2>5. before' \in Found
    BY <1>36 DEF Crash, NoBefore, Found, Registers
  <2>6. crashes' \in 0 .. MaxCrash
    BY <1>36, CalibrationAssumption DEF Crash, Shape, Types
  <2> QED BY <1>1, <1>36, <2>2, <2>3, <2>4, <2>5, <2>6
         DEF Crash, Shape, Types, IsPage
<1>37. CASE Configure
  <2>2. mem' \in Memory /\ reg' \in Registers
    BY <1>37 DEF Configure, Shape, Types, Memory, Registers
  <2>3. bits' \subseteq Bit
    BY <1>37, NamedBits DEF Configure, Shape, Types
  <2>4. before' \in Found
    BY <1>37 DEF Configure, Shape, Types, Found
  <2> QED BY <1>1, <1>37, <2>2, <2>3, <2>4
         DEF Configure, Worker, mainVars, Shape, Types, IsPage
<1>38. CASE PreviewStart
  BY <1>1, <1>38 DEF PreviewStart, Worker, mainVars, Shape, Types, IsPage
<1>39. CASE PreviewForce
  BY <1>1, <1>39 DEF PreviewForce, Worker, mainVars, Trigger, Shape, Types, IsPage
<1>40. CASE PreviewWait
  BY <1>1, <1>40 DEF PreviewWait, Worker, mainVars, Shape, Types, IsPage
<1>41. CASE PreviewOther
  BY <1>1, <1>41 DEF PreviewOther, Worker, mainVars, Shape, Types, IsPage
<1>42. CASE PreviewTransfer
  <2>2. IsPage(ram', Word)
    BY <1>42, <1>2 DEF PreviewTransfer, IsPage, Wave
  <2> QED BY <1>1, <1>42, <2>2
         DEF PreviewTransfer, Worker, mainVars, Shape, Types, IsPage
<1>43. CASE ReadoutEnds
  BY <1>1, <1>43 DEF ReadoutEnds, mainVars, histVars, Shape, Types, IsPage
<1>44. CASE HardwareTrigger
  BY <1>1, <1>44 DEF HardwareTrigger, mainVars, histVars, Shape, Types, IsPage
<1> QED BY <1>4, <1>5, <1>6, <1>7, <1>8, <1>9, <1>10, <1>11, <1>12, <1>13, <1>14, <1>15, <1>16,
           <1>17, <1>18, <1>19, <1>20, <1>21, <1>22, <1>23, <1>24, <1>25, <1>26, <1>27, <1>28,
           <1>29, <1>30, <1>31, <1>32, <1>33, <1>34, <1>35, <1>36, <1>37, <1>38, <1>39, <1>40,
           <1>41, <1>42, <1>43, <1>44
    DEF Next, Main, MainOp, Preview

OpKeeps ==
    /\ mpc' = mpc /\ gen' = gen /\ wpc' = wpc
    /\ crashes' = crashes /\ last' = last /\ board' = board

LEMMA OpMoves ==
    ASSUME Shape, MainOp \/ Spin
    PROVE  /\ More /\ OpKeeps
           /\ \/ at' = at + 1
              \/ Arg.do = "judge" /\ at' = at + 1 + Arg.skip
              \/ Arg.do = "analyse" /\ at' = at + 1 + Arg.skip
           /\ torn' = torn /\ before' = before
<1>1. CASE Judge
  BY <1>1 DEF Judge, OpKeeps, Keep
<1>2. CASE Analyse
  <2>1. at \in Int
    BY Numbers, ProgramLength DEF Shape, Places
  <2> QED BY <1>2, <2>1 DEF Analyse, OpKeeps, Keep
<1>3. CASE ~Judge /\ ~Analyse
  BY <1>3 DEF MainOp, Op, OpKeeps, Keep, Spin, Set, Start, Soft, Reset, Transfer, Page, Get,
     PatchBuf,
     PutRam, Burn, Forget, Defaults, LoadTables, Adopt, Nominal, Untimed, FlatTime, Timed, Copy,
     Valid, Convert, Save, SetFreq, SetRange, RestoreTcal, RestoreTriggers
<1> QED BY <1>1, <1>2, <1>3

LEMMA BeginsWithSave ==
    ASSUME Shape, More, mpc \in Kind, at = 1
    PROVE  Arg.do = "save"
BY Numbers, Where DEF VoltPlace, TimingPlace, Kind, Do, X, Y

LEMMA PlacesKept ==
    ASSUME Shape, Next
    PROVE  Places'
<1>1. board' = board /\ Type' = Type /\ X' = X /\ Y' = Y
  BY BoardKept, Constant
<1>2. at \in 1 .. Len(Program) + 1 /\ Len(Program) \in Nat
  <2>1. mpc \in {"init", "idle", "volt", "timing"}
    BY DEF Shape, Types, Kind
  <2> QED BY <2>1, Numbers, ProgramLength DEF Shape, Places
<1>3. mpc' = mpc => Program' = Program
  BY <1>1 DEF Program
<1>4. CASE MainOp \/ Spin
  <2>1. OpKeeps /\ at <= Len(Program)
    BY <1>4, OpMoves DEF More
  <2>2. Arg.do = "judge" => mpc # "idle" /\ at + 10 <= Len(Program) /\ Arg.skip = 9
    <3> SUFFICES ASSUME Arg.do = "judge"
                 PROVE  mpc # "idle" /\ at + 10 <= Len(Program) /\ Arg.skip = 9
      OBVIOUS
    <3>1. In(6, 6) /\ Arg.skip = 9
      BY <1>4, OpMoves, AtJudge
    <3>2. mpc \in {"init", "idle", "volt", "timing"}
      BY DEF Shape, Types, Kind
    <3>3. mpc # "idle" /\ at <= 7
      BY <1>2, <3>1 DEF In, Step
    <3>4. Len(Program) >= 21
      <4>1. CASE mpc = "init"
        <5>1. Program = InitOps(Type) /\ Type \in EvaluationBoard
          BY <4>1, ProgramLength
        <5>2. Len(Program) = 21
          BY <5>1, InitLength
        <5> QED BY <5>2
      <4>2. CASE mpc = "volt"
        BY <4>2, Numbers, ProgramLength
      <4>3. CASE mpc = "timing"
        BY <4>3, Numbers, ProgramLength
      <4> QED BY <3>2, <3>3, <4>1, <4>2, <4>3
    <3> QED BY <1>2, <3>1, <3>3, <3>4
  <2>3. Arg.do = "analyse" => at + 1 + Arg.skip <= Len(Program) /\ Arg.skip \in Nat
    <3> SUFFICES ASSUME Arg.do = "analyse"
                 PROVE  at + 1 + Arg.skip <= Len(Program) /\ Arg.skip \in Nat
      OBVIOUS
    <3>1. Timing(32, Cycled - 1) /\ Arg.skip = Cycled - 1 - at
      BY <1>4, OpMoves, AtAnalyse
    <3> QED BY <1>2, <3>1, Numbers, ProgramLength DEF Timing
  <2>4. at' \in 1 .. Len(Program') + 1
    BY <1>2, <1>3, <1>4, <2>1, <2>2, <2>3, OpMoves DEF OpKeeps
  <2>5. mpc \in Kind => saved'.nominal \in 1 .. 60
    <3> SUFFICES ASSUME mpc \in Kind
                 PROVE  saved'.nominal \in 1 .. 60
      OBVIOUS
    <3>1. CASE Save
      BY <3>1 DEF Save, Shape, Types, Memory
    <3>2. CASE ~Save
      <4>1. saved' = saved
        BY <1>4, <3>2 DEF MainOp, Keep, Spin, Set, Start, Soft, Reset, Transfer, Page, Get,
           PatchBuf,
           PutRam, Burn, Forget, Defaults, LoadTables, Adopt, Nominal, Untimed, FlatTime, Timed,
           Copy, Valid, Convert, SetFreq, SetRange, RestoreTcal, RestoreTriggers, Judge, Analyse
      <4>2. Arg.do # "save"
        BY <1>4, <3>2 DEF MainOp, Op, Spin, Set, Start, Soft, Reset, Transfer, Page, Get, PatchBuf,
           PutRam, Burn, Forget, Defaults, LoadTables, Adopt, Nominal, Untimed, FlatTime, Timed,
           Copy, Valid, Convert, SetFreq, SetRange, RestoreTcal, RestoreTriggers, Judge, Analyse
      <4>3. at # 1
        BY <1>4, <4>2, OpMoves, BeginsWithSave
      <4> QED BY <1>2, <4>1, <4>3 DEF Shape, Places
    <3> QED BY <3>1, <3>2
  <2> QED BY <2>1, <2>4, <2>5 DEF Shape, Places, OpKeeps
<1>5. CASE Boot \/ Crash
  <2>1. at' = 1 /\ mpc' \in {"idle", "init"} /\ (mpc' = "init" => wpc' = "none")
    BY <1>5 DEF Boot, Crash
  <2>2. Len(Program') \in Nat
    <3>1. Program' = IF mpc' = "idle" THEN << >> ELSE InitOps(Type)
      BY <1>1, <2>1, Numbers DEF Program, Programs, Type
    <3> QED BY <2>1, <3>1, Numbers, InitLength
  <2> QED BY <2>1, <2>2 DEF Places, Kind
<1>6. CASE Calibrate
  <2>1. at' = 1 /\ mpc' \in Kind /\ gen' >= 2
    BY <1>6, CalibrationAssumption DEF Calibrate, Kind, Shape, Types, Generation
  <2>2. Len(Program') \in Nat
    <3>1. Program' = IF mpc' = "volt" THEN CalibrateVoltOps(Type) ELSE CalibrateTimingOps(Type)
      BY <1>1, <2>1, Numbers DEF Program, Programs, Type, Kind
    <3> QED BY <2>1, <3>1, Numbers, VoltLength, TimingLength DEF X, Y, Extra, Late
  <2> QED BY <2>1, <2>2 DEF Places, Kind
<1>7. CASE Calibrated
  <2>1. at' = 1 /\ mpc' = "idle"
    BY <1>7 DEF Calibrated
  <2>2. Program' = << >>
    BY <1>1, <2>1, Numbers DEF Program, Programs, Type
  <2> QED BY <2>1, <2>2 DEF Places, Kind
<1>8. CASE Preview \/ ReadoutEnds \/ HardwareTrigger
  <2>1. mpc' = mpc /\ at' = at /\ gen' = gen /\ saved' = saved /\ (wpc = "none" => wpc' = "none")
    BY <1>8 DEF Preview, Worker, Configure, PreviewStart, PreviewForce, PreviewWait, PreviewOther,
       PreviewTransfer, ReadoutEnds, HardwareTrigger, mainVars
  <2> QED BY <1>3, <2>1 DEF Shape, Places
<1> QED BY <1>4, <1>5, <1>6, <1>7, <1>8 DEF Next, Main

LEMMA ShapeKept ==
    ASSUME Shape, [Next]_vars
    PROVE  Shape'
<1>1. CASE Next
  BY <1>1, TypesKept, PlacesKept DEF Shape
<1>2. CASE UNCHANGED vars
  <2>1. Type' = Type /\ Table' = Table /\ Generation' = Generation /\ Memory' = Memory
        /\ Program' = Program
    BY <1>2, Constant DEF vars, mainVars, Program
  <2> QED BY <1>2, <2>1 DEF vars, mainVars, histVars, Shape, Types, Places, IsPage
<1> QED BY <1>1, <1>2

LEMMA InitShape ==
    ASSUME Init
    PROVE  Shape
<1>1. Type \in EvaluationBoard /\ board \in Boards
  BY CalibrationAssumption DEF Init, Type
<1>2. 0 \in Table /\ 1 \in Table /\ Garbage \in Table /\ Garbage \in Int
      /\ 0 \in Generation /\ 1 \in Generation
  BY CalibrationAssumption DEF Init, Table, Generation, Garbage, Flat
<1>3. \A p \in 0 .. 2 : IsPage(eeprom[p], Words(Type, p))
  <2>1. ASSUME NEW p \in 0 .. 2
        PROVE  IsPage(eeprom[p], Words(Type, p))
    <3>1. eeprom[p] = [w \in Words(Type, p) |->
              IF w = "serial" THEN 1
              ELSE IF board.blank \/ w = "range" THEN 0
              ELSE IF w = "tfreq" THEN 7 ELSE 1]
      BY DEF Init, Contents, Type
    <3>2. \A w \in Words(Type, p) : eeprom[p][w] \in {0, 1, 7} /\ (w # "tfreq" => eeprom[p][w] \in {0, 1})
      BY <3>1
    <3> QED BY <1>2, <3>1, <3>2 DEF IsPage, Count
  <2> QED BY <2>1
<1>4. eeprom = [p \in 0 .. 2 |-> eeprom[p]]
  BY DEF Init, Contents
<1>5. IsPage(ram, Word) /\ IsPage(buf, Word)
  BY <1>2 DEF Init, Wave, IsPage
<1>6. mem \in Memory /\ bits \subseteq Bit /\ reg \in Registers /\ saved \in Locals /\ before \in Found
  BY <1>2 DEF Init, Memory, Registers, Locals, Found, NoMemory, NoLocals, NoBefore, Default
<1>7. last \in [Kind -> Generation]
  BY <1>2 DEF Init
<1>8. /\ hw \in {"idle", "rolling", "reading"} /\ mpc \in {"init", "idle"} \cup Kind
      /\ gen \in Generation \ {0} /\ torn \in BOOLEAN
      /\ wpc \in {"none", "first", "loop", "force", "wait", "ready"}
      /\ crashes \in 0 .. MaxCrash
  <2>1. /\ hw = "idle" /\ mpc = "init" /\ gen = 1 /\ torn = FALSE /\ wpc = "none"
        /\ crashes = 0
    BY DEF Init
  <2>2. MaxCrash \in Nat
    BY CalibrationAssumption
  <2>3. hw \in {"idle", "rolling", "reading"} /\ mpc \in {"init", "idle"} \cup Kind
    BY <2>1
  <2>4. gen \in Generation \ {0} /\ crashes \in 0 .. MaxCrash
    BY <1>2, <2>1, <2>2
  <2>5. torn \in BOOLEAN /\ wpc \in {"none", "first", "loop", "force", "wait", "ready"}
    BY <2>1
  <2> QED BY <2>3, <2>4, <2>5
<1>9. Types
  BY <1>1, <1>3, <1>4, <1>5, <1>6, <1>7, <1>8 DEF Types
<1>10. Places
  <2>1. Program = InitOps(Type)
    BY <1>1 DEF Init, Program, Programs, Type
  <2>2. Len(Program) = 21
    BY <1>1, <2>1, InitLength
  <2> QED BY <2>2 DEF Init, Places, Kind
<1> QED BY <1>9, <1>10 DEF Shape

(* Every variable keeps its type, and the main thread its place in a        *)
(* program.                                                                 *)
THEOREM TypesKeptAlways == Spec => []TypeOK
<1>1. Init => Shape
  BY InitShape
<1>2. Shape /\ [Next]_vars => Shape'
  BY ShapeKept
<1>3. Shape => TypeOK
  <2> SUFFICES ASSUME Shape PROVE TypeOK
    OBVIOUS
  <2>1. \A p \in 0 .. 2 : DOMAIN eeprom[p] = Words(board.type, p)
    BY DEF Shape, Types, IsPage, Type
  <2>2. DOMAIN ram = Word /\ DOMAIN buf = Word
    BY DEF Shape, Types, IsPage
  <2>3. \A t \in {"v1", "v2", "dt", "rest"} : mem[t] \in Table
    BY DEF Shape, Types, Memory
  <2> QED BY <2>1, <2>2, <2>3 DEF TypeOK, Shape, Types, Memory, Registers
<1> QED BY <1>1, <1>2, <1>3, PTL DEF Spec

-----------------------------------------------------------------------------
(* The configuration.                                                       *)
Milestone == {"save", "adopt", "nominal", "frequency", "range", "tcal", "triggers"}

LEMMA Milestones ==
    ASSUME Shape, More
    PROVE  /\ mpc \in Kind /\ at = 1 => Arg.do = "save"
           /\ In(16, 16) => Arg.do = "adopt"
           /\ mpc \in Kind /\ at = 23 => Arg.do = "nominal"
           /\ Volt(24, 24) \/ Timing(25, 25) => Arg.do = "frequency"
           /\ Volt(28, 28) \/ Timing(Cycled + 11 + Y, Cycled + 11 + Y) => Arg.do = "range"
           /\ Volt(Swept + 17 + X, Swept + 17 + X) \/ Timing(Cycled + 10 + Y, Cycled + 10 + Y)
                 => Arg.do = "tcal"
           /\ Volt(Swept + 18 + X, Swept + 18 + X) \/ Timing(Cycled + 12 + Y, Cycled + 12 + Y)
                 => Arg.do = "triggers"
<1>1. mpc \in {"init", "volt", "timing"} /\ at \in Nat \ {0}
  BY Where, Numbers DEF X, Y
<1>2. CASE mpc = "init"
  BY <1>1, <1>2, Numbers, Where
     DEF InitPlace, Do, In, Step, Volt, Timing, Kind
<1>3. CASE mpc = "volt"
  BY <1>1, <1>3, Numbers, Where
     DEF VoltPlace, InitPlace, Do, In, Step, Volt, Timing, Kind, X, Y
<1>4. CASE mpc = "timing"
  BY <1>1, <1>4, Numbers, Where
     DEF TimingPlace, InitPlace, Do, In, Step, Volt, Timing, Kind, X, Y
<1> QED BY <1>1, <1>2, <1>3, <1>4

(* Where a step leads, and what it passes.                                  *)
LEMMA Onward ==
    ASSUME Shape, MainOp \/ Spin
    PROVE  /\ OpKeeps /\ torn' = torn /\ before' = before /\ Type' = Type /\ X' = X /\ Y' = Y
           /\ at \in Nat \ {0} /\ mpc \in {"init", "volt", "timing"}
           /\ \/ at' = at + 1
              \/ Arg.do = "judge" /\ In(6, 6) /\ at' = at + 10
              \/ Arg.do = "analyse" /\ Timing(32, Cycled - 1) /\ at' = Cycled
<1>1. /\ More /\ OpKeeps /\ torn' = torn /\ before' = before /\ Type' = Type /\ X' = X /\ Y' = Y
  BY OpMoves, Constant DEF OpKeeps
<1>2. mpc \in {"init", "volt", "timing"} /\ at \in Nat \ {0}
  BY <1>1, Where, Numbers DEF X, Y
<1>3. CASE at' = at + 1
  BY <1>1, <1>2, <1>3
<1>4. CASE Arg.do = "judge" /\ at' = at + 1 + Arg.skip
  BY <1>1, <1>2, <1>4, AtJudge
<1>5. CASE Arg.do = "analyse" /\ at' = at + 1 + Arg.skip
  BY <1>1, <1>2, <1>5, AtAnalyse, Numbers DEF Timing
<1> QED BY <1>3, <1>4, <1>5, OpMoves

LEMMA NeutralKeepsConfiguration ==
    ASSUME Shape, Configuration, MainOp \/ Spin, Arg.do \notin Milestone,
           bits' = bits, reg' = reg, saved' = saved, mem'.nominal = mem.nominal
    PROVE  Configuration'
<1>1. More
  BY OpMoves
<1>2. /\ ~(mpc \in Kind /\ at = 1) /\ ~In(16, 16) /\ ~(mpc \in Kind /\ at = 23)
      /\ ~Volt(24, 24) /\ ~Timing(25, 25) /\ ~Volt(28, 28)
      /\ ~Timing(Cycled + 11 + Y, Cycled + 11 + Y)
      /\ ~Volt(Swept + 17 + X, Swept + 17 + X) /\ ~Timing(Cycled + 10 + Y, Cycled + 10 + Y)
      /\ ~Volt(Swept + 18 + X, Swept + 18 + X) /\ ~Timing(Cycled + 12 + Y, Cycled + 12 + Y)
  BY <1>1, Milestones DEF Milestone
<1>3. InStep'
  BY <1>2, Onward, Numbers DEF Configuration, InStep, OpKeeps, In, Step, Volt, Timing, Kind
<1>4. Untouched'
  BY Onward, Numbers DEF Configuration, Untouched, Disturbed, OpKeeps
<1>5. Remembered'
  BY <1>2, Onward DEF Configuration, Remembered, Disturbed, OpKeeps
<1>6. Restored'
  BY <1>2, Onward, Numbers
     DEF Configuration, Restored, Disturbed, OpKeeps, In, Step, Volt, Timing, Kind
<1> QED BY <1>3, <1>4, <1>5, <1>6 DEF Configuration

LEMMA OpKeepsConfiguration ==
    ASSUME Shape, Configuration, MainOp \/ Spin
    PROVE  Configuration'
<1>1. /\ More /\ OpKeeps /\ torn' = torn /\ before' = before /\ Type' = Type /\ X' = X /\ Y' = Y
      /\ at \in Nat \ {0} /\ mpc \in {"init", "volt", "timing"}
  BY OpMoves, Onward
<1>2. CASE Arg.do \notin Milestone \cup {"set", "defaults"}
  <2>1. bits' = bits /\ reg' = reg /\ saved' = saved
    BY <1>2 DEF MainOp, Op, Keep, Spin, Set, Start, Soft, Reset, Transfer, Page, Get, PatchBuf,
       Milestone,
       PutRam, Burn, Forget, Defaults, LoadTables, Adopt, Nominal, Untimed, FlatTime, Timed,
       Copy, Valid, Convert, SetFreq, SetRange, RestoreTcal, RestoreTriggers, Judge, Analyse, Save
  <2>2. mem'.nominal = mem.nominal
    <3>1. mem \in Memory
      BY DEF Shape, Types
    <3>2. CASE Forget \/ Judge \/ LoadTables \/ Untimed \/ FlatTime \/ Timed \/ Copy \/ Valid \/ Convert
      BY <3>1, <3>2 DEF Memory, Forget, Judge, LoadTables, Replaced, Untimed, FlatTime, Timed,
         Copy, Valid, Convert
    <3>3. CASE ~(Forget \/ Judge \/ LoadTables \/ Untimed \/ FlatTime \/ Timed \/ Copy \/ Valid \/ Convert)
      BY <1>2, <3>3 DEF MainOp, Op, Keep, Spin, Set, Start, Soft, Reset, Transfer, Page, Get,
         PatchBuf, Milestone,
         PutRam, Burn, Defaults, Adopt, Nominal, SetFreq, SetRange, RestoreTcal, RestoreTriggers,
         Analyse, Save
    <3> QED BY <3>2, <3>3
  <2> QED BY <1>2, <2>1, <2>2, NeutralKeepsConfiguration
<1>3. CASE Set
  <2>1. at' = at + 1 /\ mem' = mem /\ reg' = reg /\ saved' = saved
    BY <1>3 DEF Set, Op
  <2>2. TRANSP_MODE \in bits' <=> TRANSP_MODE \in bits
    BY <1>1, <1>3, AtQuiet, SettersKeepTransparent DEF Set, Op, Effect
  <2>3. \/ In(17, 20) \/ Volt(25, 27) \/ Volt(29, 32 + 8 * Events) \/ Volt(34 + 8 * Events, Swept - 1)
        \/ Volt(Swept + 16 + X, Swept + 16 + X) \/ Timing(26, 30) \/ Timing(32, Cycled - 1)
        \/ Timing(Cycled + 9 + Y, Cycled + 9 + Y)
    BY <1>1, <1>3, AtQuiet DEF Set, Op
  <2>4. InStep'
    BY <1>1, <2>1, <2>3, Numbers DEF Configuration, InStep, OpKeeps, In, Step, Volt, Timing, Kind
  <2>5. Untouched'
    BY <1>1, <2>1, <2>2 DEF Configuration, Untouched, Disturbed, OpKeeps
  <2>6. Remembered'
    BY <1>1, <2>1, <2>3, Numbers DEF Configuration, Remembered, Disturbed, OpKeeps, In, Step,
       Volt, Timing
  <2>7. Restored'
    BY <1>1, <2>1, <2>3, Numbers DEF Configuration, Restored, Disturbed, OpKeeps, In, Step, Volt,
       Timing, Kind
  <2> QED BY <2>4, <2>5, <2>6, <2>7 DEF Configuration
<1>4. CASE Defaults
  <2>1. at' = at + 1 /\ bits' = bits /\ saved' = saved /\ In(2, 2)
    BY <1>1, <1>4, AtDefaults DEF Defaults, Op
  <2>4. InStep'
    BY <1>1, <2>1, Numbers DEF Configuration, InStep, OpKeeps, In, Step
  <2>5. Untouched'
    BY <1>1, <2>1 DEF Configuration, Untouched, Disturbed, OpKeeps
  <2>6. Remembered'
    BY <1>1, <2>1, Numbers DEF Configuration, Remembered, Disturbed, OpKeeps, In, Step, Kind
  <2>7. Restored'
    BY <1>1, <2>1, Numbers DEF Configuration, Restored, Disturbed, OpKeeps, In, Step, Volt,
       Timing, Kind
  <2> QED BY <2>4, <2>5, <2>6, <2>7 DEF Configuration
<1>5. CASE Save
  <2>1. /\ at' = at + 1 /\ bits' = bits /\ reg' = reg /\ mem' = mem /\ mpc \in Kind /\ at = 1
        /\ saved' = [nominal |-> mem.nominal, range |-> reg.range, tcal |-> TCAL_EN \in bits,
                     trg1 |-> ENABLE_TRIGGER1 \in bits, trg2 |-> ENABLE_TRIGGER2 \in bits]
    BY <1>1, <1>5, AtSave DEF Save, Op
  <2>4. InStep'
    BY <1>1, <2>1 DEF Configuration, InStep, OpKeeps, Kind
  <2>5. Untouched'
    BY <1>1, <2>1 DEF Configuration, Untouched, Disturbed, OpKeeps
  <2>6. Remembered'
    <3> SUFFICES ASSUME ~Disturbed
                 PROVE  Remembered'
      BY <1>1 DEF Remembered, Disturbed, OpKeeps
    <3>1. bits \cap Kept = before.bits /\ reg = before.reg /\ mem.nominal = reg.frequency
      BY <2>1 DEF Configuration, Untouched
    <3>2. {TCAL_EN, ENABLE_TRIGGER1, ENABLE_TRIGGER2} \subseteq Kept
      BY DEF Kept
    <3>3. /\ saved'.nominal = before.reg.frequency /\ saved'.range = before.reg.range
          /\ saved'.tcal <=> TCAL_EN \in before.bits
          /\ saved'.trg1 <=> ENABLE_TRIGGER1 \in before.bits
          /\ saved'.trg2 <=> ENABLE_TRIGGER2 \in before.bits
      BY <2>1, <3>1, <3>2
    <3> QED BY <1>1, <3>3 DEF Remembered
  <2>7. Restored'
    BY <1>1, <2>1, Numbers DEF Configuration, Restored, Disturbed, OpKeeps, In, Step, Volt,
       Timing, Kind
  <2> QED BY <2>4, <2>5, <2>6, <2>7 DEF Configuration
<1>6. CASE Adopt
  <2>1. at' = at + 1 /\ bits' = bits /\ saved' = saved /\ In(16, 16)
    BY <1>1, <1>6, AtAdopt DEF Adopt, Op
  <2>2. mem'.nominal = reg'.frequency
    BY <1>6 DEF Adopt, Shape, Types, Memory
  <2>4. InStep'
    BY <2>2 DEF InStep
  <2>5. Untouched'
    BY <1>1, <2>1 DEF Configuration, Untouched, Disturbed, OpKeeps
  <2>6. Remembered'
    BY <1>1, <2>1, Numbers DEF Configuration, Remembered, Disturbed, OpKeeps, In, Step, Kind
  <2>7. Restored'
    BY <1>1, <2>1, Numbers DEF Configuration, Restored, Disturbed, OpKeeps, In, Step, Volt,
       Timing, Kind
  <2> QED BY <2>4, <2>5, <2>6, <2>7 DEF Configuration
<1>7. CASE Nominal
  <2>1. /\ at' = at + 1 /\ bits' = bits /\ saved' = saved /\ reg' = reg /\ mpc \in Kind /\ at = 23
        /\ mem' = [mem EXCEPT !.nominal = saved.nominal]
    BY <1>1, <1>7, AtNominal DEF Nominal, Op, Keep
  <2>2. mem'.nominal = saved'.nominal
    BY <2>1 DEF Shape, Types, Memory
  <2>4. InStep'
    BY <1>1, <2>1 DEF Configuration, InStep, OpKeeps, Kind
  <2>5. Untouched'
    BY <1>1, <2>1 DEF Configuration, Untouched, Disturbed, OpKeeps
  <2>6. Remembered'
    BY <1>1, <2>1 DEF Configuration, Remembered, Disturbed, OpKeeps
  <2>7. Restored'
    BY <1>1, <2>1, <2>2, Numbers DEF Configuration, Restored, Disturbed, OpKeeps, Volt, Timing, Kind
  <2> QED BY <2>4, <2>5, <2>6, <2>7 DEF Configuration
<1>8. CASE SetFreq
  <2>1. /\ at' = at + 1 /\ bits' = bits /\ saved' = saved /\ mem' = mem
        /\ reg' = [reg EXCEPT !.frequency = mem.nominal] /\ (Volt(24, 24) \/ Timing(25, 25))
    BY <1>1, <1>8, AtFrequency DEF SetFreq, Op
  <2>2. reg'.frequency = mem'.nominal /\ reg'.range = reg.range
    BY <2>1 DEF Shape, Types, Registers
  <2>4. InStep'
    BY <2>2 DEF InStep
  <2>5. Untouched'
    BY <1>1, <2>1 DEF Configuration, Untouched, Disturbed, OpKeeps
  <2>6. Remembered'
    BY <1>1, <2>1 DEF Configuration, Remembered, Disturbed, OpKeeps, Volt, Timing
  <2>7. Restored'
    BY <1>1, <2>1, <2>2, Numbers DEF Configuration, Restored, Disturbed, OpKeeps, Volt, Timing, Kind
  <2> QED BY <2>4, <2>5, <2>6, <2>7 DEF Configuration
<1>9. CASE SetRange
  <2>1. /\ at' = at + 1 /\ bits' = bits /\ saved' = saved /\ mem' = mem
        /\ reg' = [reg EXCEPT !.range = saved.range]
        /\ (Volt(28, 28) \/ Timing(Cycled + 11 + Y, Cycled + 11 + Y))
    BY <1>1, <1>9, AtRange DEF SetRange, Op
  <2>2. reg'.frequency = reg.frequency /\ reg'.range = saved'.range
    BY <2>1 DEF Shape, Types, Registers
  <2>4. InStep'
    BY <1>1, <2>1, <2>2, Numbers DEF Configuration, InStep, OpKeeps, Volt, Timing
  <2>5. Untouched'
    BY <1>1, <2>1 DEF Configuration, Untouched, Disturbed, OpKeeps
  <2>6. Remembered'
    BY <1>1, <2>1, Numbers DEF Configuration, Remembered, Disturbed, OpKeeps, Volt, Timing
  <2>7. Restored'
    BY <1>1, <2>1, <2>2, Numbers DEF Configuration, Restored, Disturbed, OpKeeps, Volt, Timing, Kind
  <2> QED BY <2>4, <2>5, <2>6, <2>7 DEF Configuration
<1>10. CASE RestoreTcal
  <2>1. /\ at' = at + 1 /\ reg' = reg /\ saved' = saved /\ mem' = mem
        /\ Volt(Swept + 17 + X, Swept + 17 + X) \/ Timing(Cycled + 10 + Y, Cycled + 10 + Y)
    BY <1>1, <1>10, AtTcal DEF RestoreTcal, Op
  <2>2. /\ TRANSP_MODE \in bits' <=> TRANSP_MODE \in bits
        /\ TCAL_EN \in bits' <=> saved.tcal
    BY <1>10, TcalAssigned DEF RestoreTcal, Effect, Shape, Types, Locals
  <2>4. InStep'
    BY <1>1, <2>1, Numbers DEF Configuration, InStep, OpKeeps, Volt, Timing
  <2>5. Untouched'
    BY <1>1, <2>1, <2>2 DEF Configuration, Untouched, Disturbed, OpKeeps
  <2>6. Remembered'
    BY <1>1, <2>1, Numbers DEF Configuration, Remembered, Disturbed, OpKeeps, Volt, Timing
  <2>7. Restored'
    BY <1>1, <2>1, <2>2, Numbers DEF Configuration, Restored, Disturbed, OpKeeps, Volt, Timing, Kind
  <2> QED BY <2>4, <2>5, <2>6, <2>7 DEF Configuration
<1>11. CASE RestoreTriggers
  <2>1. /\ at' = at + 1 /\ reg' = reg /\ saved' = saved /\ mem' = mem
        /\ Volt(Swept + 18 + X, Swept + 18 + X) \/ Timing(Cycled + 12 + Y, Cycled + 12 + Y)
    BY <1>1, <1>11, AtTriggers DEF RestoreTriggers, Op
  <2>2. /\ TRANSP_MODE \in bits' <=> TRANSP_MODE \in bits
        /\ TCAL_EN \in bits' <=> TCAL_EN \in bits
        /\ ENABLE_TRIGGER1 \in bits' <=> saved.trg1
        /\ ENABLE_TRIGGER2 \in bits' <=> saved.trg2
    BY <1>11, TriggersAssigned DEF RestoreTriggers, Effect, Shape, Types, Locals
  <2>4. InStep'
    BY <1>1, <2>1, Numbers DEF Configuration, InStep, OpKeeps, Volt, Timing
  <2>5. Untouched'
    BY <1>1, <2>1, <2>2 DEF Configuration, Untouched, Disturbed, OpKeeps
  <2>6. Remembered'
    BY <1>1, <2>1, Numbers DEF Configuration, Remembered, Disturbed, OpKeeps, Volt, Timing
  <2>7. Restored'
    BY <1>1, <2>1, <2>2, Numbers DEF Configuration, Restored, Disturbed, OpKeeps, Volt, Timing, Kind
  <2> QED BY <2>4, <2>5, <2>6, <2>7 DEF Configuration
<1>12. CASE Arg.do \in Milestone \cup {"set", "defaults"}
  <2>1. Set \/ Defaults \/ Save \/ Adopt \/ Nominal \/ SetFreq \/ SetRange \/ RestoreTcal \/ RestoreTriggers
    BY <1>12 DEF MainOp, Op, Spin, Start, Soft, Reset, Transfer, Page, Get, PatchBuf, Milestone,
       PutRam, Burn, Forget, LoadTables, Untimed, FlatTime, Timed, Copy, Valid, Convert, Judge,
       Analyse
  <2> QED BY <2>1, <1>3, <1>4, <1>5, <1>6, <1>7, <1>8, <1>9, <1>10, <1>11
<1> QED BY <1>2, <1>12

LEMMA OthersKeepConfiguration ==
    ASSUME Shape, Configuration, Next, ~MainOp, ~Spin
    PROVE  Configuration'
<1>1. board' = board /\ Type' = Type /\ X' = X /\ Y' = Y
  BY BoardKept, Constant
<1>2. at \in Nat \ {0}
  BY Numbers, ProgramLength DEF Shape, Places
<1>3. CASE Boot \/ Crash
  <2>1. Disturbed' /\ mpc' \notin Kind
    BY <1>3 DEF Boot, Crash, Disturbed, Kind
  <2>2. InStep'
    <3>1. CASE Crash
      BY <3>1 DEF Crash, InStep
    <3>2. CASE Boot
      <4>1. mpc = "init" /\ ~More /\ reg' = reg /\ mem' = mem
        BY <3>2 DEF Boot
      <4>2. Len(Program) = 21
        BY <4>1, ProgramLength
      <4>3. at > 16
        BY <1>2, <4>1, <4>2 DEF More
      <4> QED BY <4>1, <4>3 DEF Configuration, InStep
    <3> QED BY <1>3, <3>1, <3>2
  <2> QED BY <2>1, <2>2 DEF Configuration, Untouched, Remembered, Restored
<1>4. CASE Calibrate
  <2>1. /\ mpc = "idle" /\ at' = 1 /\ bits' = bits /\ reg' = reg /\ mem' = mem
        /\ before' = [bits |-> bits \cap Kept, reg |-> reg, alone |-> TRUE]
        /\ mpc' \in Kind
    BY <1>4, CalibrationAssumption DEF Calibrate, Shape, Types, Generation, Kind
  <2>2. mem.nominal = reg.frequency
    BY <2>1 DEF Configuration, InStep
  <2>3. InStep'
    BY <2>1, <2>2 DEF InStep
  <2>4. Untouched'
    <3>1. TRANSP_MODE \in bits' <=> TRANSP_MODE \in before'.bits
      BY <2>1 DEF Kept
    <3> QED BY <2>1, <2>2, <3>1 DEF Untouched
  <2>5. Remembered'
    BY <2>1 DEF Remembered
  <2>6. Restored'
    BY <1>1, <2>1, Numbers DEF Restored, Volt, Timing
  <2> QED BY <2>3, <2>4, <2>5, <2>6 DEF Configuration
<1>5. CASE Calibrated
  <2>1. Disturbed' /\ mpc' \notin Kind
    BY <1>5 DEF Calibrated, Disturbed, Kind
  <2>2. InStep'
    <3>1. mpc \in Kind /\ ~More /\ reg' = reg /\ mem' = mem
      BY <1>5 DEF Calibrated
    <3>2. Len(Program) >= 30
      BY <3>1, ProgramLength, Numbers DEF Kind
    <3>3. at > 25
      BY <1>2, <3>1, <3>2 DEF More, Shape, Places
    <3> QED BY <1>2, <3>1, <3>3 DEF Configuration, InStep, Kind
  <2> QED BY <2>1, <2>2 DEF Configuration, Untouched, Remembered, Restored
<1>6. CASE Configure
  <2>1. mpc # "init" /\ mpc' = mpc /\ at' = at /\ wpc = "first" /\ saved' = saved
    BY <1>6 DEF Configure, Worker, mainVars, Shape, Places
  <2>2. Disturbed'
    BY <1>6, <2>1 DEF Configure, Disturbed, Shape, Types, Found
  <2>3. InStep'
    BY <1>6, <2>1 DEF Configure, Configuration, InStep, Shape, Types, Memory, Registers
  <2> QED BY <2>2, <2>3 DEF Configuration, Untouched, Remembered, Restored
<1>7. CASE (Preview /\ ~Configure) \/ ReadoutEnds \/ HardwareTrigger
  <2>1. mpc' = mpc /\ at' = at /\ bits' = bits /\ reg' = reg /\ mem' = mem /\ saved' = saved
        /\ before' = before
    BY <1>7 DEF Preview, Worker, PreviewStart, PreviewForce, PreviewWait, PreviewOther,
       PreviewTransfer, ReadoutEnds, HardwareTrigger, mainVars, histVars
  <2> QED BY <1>1, <2>1 DEF Configuration, InStep, Untouched, Remembered, Restored, Disturbed,
             Volt, Timing
<1> QED BY <1>3, <1>4, <1>5, <1>6, <1>7 DEF Next, Main

LEMMA ConfigurationInvariant ==
    ASSUME Shape, Configuration, [Next]_vars
    PROVE  Configuration'
<1>1. CASE MainOp \/ Spin
  BY <1>1, OpKeepsConfiguration
<1>2. CASE Next /\ ~MainOp /\ ~Spin
  BY <1>2, OthersKeepConfiguration
<1>3. CASE UNCHANGED vars
  <2>1. X' = X /\ Y' = Y
    BY <1>3, Constant DEF vars
  <2> QED BY <1>3, <2>1 DEF vars, mainVars, histVars, Configuration, InStep, Untouched, Remembered,
             Restored, Disturbed, Volt, Timing
<1> QED BY <1>1, <1>2, <1>3

LEMMA InitConfiguration ==
    ASSUME Init
    PROVE  Configuration
<1>1. mpc = "init" /\ at = 1 /\ Disturbed
  BY DEF Init, Disturbed, Kind
<1> QED BY <1>1 DEF Configuration, InStep, Untouched, Remembered, Restored

(* A calibration is over when its program is.                               *)
LEMMA Ended ==
    ASSUME Shape, Calibrated
    PROVE  \/ mpc = "volt" /\ at = Swept + 19 + X
           \/ mpc = "timing" /\ at = Cycled + 13 + Y
<1>1. mpc \in Kind /\ ~More /\ at \in 1 .. Len(Program) + 1
  BY DEF Calibrated, Shape, Places
<1>2. CASE mpc = "volt"
  <2>1. Len(Program) = Swept + 18 + X /\ Swept \in Int /\ X \in Int
    BY <1>2, ProgramLength, Numbers
  <2> QED BY <1>1, <1>2, <2>1 DEF More
<1>3. CASE mpc = "timing"
  <2>1. Len(Program) = Cycled + 12 + Y /\ Cycled \in Int /\ Y \in Int
    BY <1>3, ProgramLength, Numbers
  <2> QED BY <1>1, <1>3, <2>1 DEF More
<1> QED BY <1>1, <1>2, <1>3 DEF Kind

LEMMA GivesBack ==
    ASSUME Shape, Configuration, Calibrated, before.alone
    PROVE  bits \cap Kept = before.bits /\ reg = before.reg /\ mem.nominal = before.reg.frequency
<1>1. mpc \in Kind /\ ~More /\ ~Disturbed
  BY DEF Calibrated, Disturbed
<1>2. \/ mpc = "volt" /\ at = Swept + 19 + X
      \/ mpc = "timing" /\ at = Cycled + 13 + Y
  BY Ended
<1>3. at > 25 /\ (mpc = "timing" => at > Cycled + 11 + Y) /\ (mpc = "volt" => at > 28)
      /\ (Volt(Swept + 18 + X, at) \/ Timing(Cycled + 11 + Y, at))
      /\ (Volt(Swept + 19 + X, at) \/ Timing(Cycled + 13 + Y, at))
  BY <1>2, Numbers DEF Volt, Timing
<1>4. /\ mem.nominal = reg.frequency /\ mem.nominal = saved.nominal
      /\ reg.range = saved.range
      /\ saved.nominal = before.reg.frequency /\ saved.range = before.reg.range
  BY <1>1, <1>2, <1>3, Numbers DEF Configuration, InStep, Restored, Remembered, Kind
<1>5. reg = before.reg
  <2>1. reg \in Registers /\ before.reg \in Registers
    BY DEF Shape, Types, Found
  <2>2. reg.frequency = before.reg.frequency /\ reg.range = before.reg.range
    BY <1>4
  <2> QED BY <2>1, <2>2 DEF Registers
<1>6. /\ TRANSP_MODE \in bits <=> TRANSP_MODE \in before.bits
      /\ TCAL_EN \in bits <=> TCAL_EN \in before.bits
      /\ ENABLE_TRIGGER1 \in bits <=> ENABLE_TRIGGER1 \in before.bits
      /\ ENABLE_TRIGGER2 \in bits <=> ENABLE_TRIGGER2 \in before.bits
  BY <1>1, <1>2, <1>3, Numbers DEF Configuration, Untouched, Restored, Remembered
<1>7. bits \cap Kept = before.bits
  <2>1. before.bits \subseteq Kept
    BY DEF Shape, Types, Found
  <2> QED BY <1>6, <2>1 DEF Kept
<1> QED BY <1>4, <1>5, <1>7

(* ConfigurationKept: for any board and any number of measurements, a       *)
(* calibration of either kind that the preview does not disturb hands the   *)
(* frequency, the range, the triggers, the calibration clock and the        *)
(* transparent mode back as it found them, although Init() and the setters  *)
(* of the calibration change all but the last in between.                   *)
THEOREM CalibrationKeepsConfiguration == Spec => ConfigurationKept
<1>1. Init => Shape /\ Configuration
  BY InitShape, InitConfiguration
<1>2. (Shape /\ Configuration) /\ [Next]_vars => (Shape /\ Configuration)'
  BY ShapeKept, ConfigurationInvariant
<1>3. (Shape /\ Configuration) /\ [Next]_vars =>
         [(Calibrated /\ before.alone) =>
             /\ bits \cap Kept = before.bits /\ reg = before.reg
             /\ mem.nominal = before.reg.frequency]_vars
  BY GivesBack
<1> QED BY <1>1, <1>2, <1>3, PTL DEF Spec, ConfigurationKept

-----------------------------------------------------------------------------
(* What lies at the places that matter to the data.                         *)
LEMMA InitLandmarks ==
    ASSUME Shape, More
    PROVE  /\ In(3, 3) => Arg.do = "forget"
           /\ In(4, 4) \/ In(7, 7) \/ In(10, 10) \/ In(13, 13) => Arg.do = "page"
           /\ In(5, 5) \/ In(8, 8) \/ In(11, 11) \/ In(14, 14) => Arg.do = "get"
           /\ In(6, 6) => Arg.do = "judge"
           /\ In(9, 9) \/ In(12, 12) \/ In(15, 15) => Arg.do = "load"
           /\ In(2, 2) => Arg.do = "defaults"
<1>1. mpc \in {"init", "volt", "timing"} /\ at \in Nat \ {0}
  BY Where, Numbers DEF X, Y
<1>2. CASE mpc = "init"
  BY <1>1, <1>2, Numbers, Where
     DEF InitPlace, Do, Fetch, Judged, Taken, In, Step
<1>3. CASE mpc = "volt"
  BY <1>1, <1>3, Numbers, Where
     DEF VoltPlace, InitPlace, Do, Fetch, Judged, Taken, In, Step, X, Y
<1>4. CASE mpc = "timing"
  BY <1>1, <1>4, Numbers, Where
     DEF TimingPlace, InitPlace, Do, Fetch, Judged, Taken, In, Step, X, Y
<1> QED BY <1>1, <1>2, <1>3, <1>4

LEMMA VoltLandmarks ==
    ASSUME Shape, More, mpc = "volt"
    PROVE  /\ at \in {33 + 8 * Events, Swept} => Arg.do = "measured"
           /\ at \in {Swept + 1, Swept + 5 + X, Swept + 11 + X} => Arg.do = "patch"
           /\ at \in {Swept + 2, Swept + 6 + X, Swept + 9 + X, Swept + 12 + X} => Arg.do = "page"
           /\ at \in {Swept + 3, Swept + 7 + X, Swept + 13 + X} => Arg.do = "ram"
           /\ at = Swept + 13 + X => Arg.half = Words(Type, 0) \ Header
           /\ at \in {Swept + 4, Swept + 8 + X, Swept + 14 + X} => Arg.do = "burn"
           /\ at = Swept + 10 + X => Arg.do = "get"
           /\ Type = 9 /\ at = Swept + 5 => Arg.do = "page"
           /\ Type = 9 /\ at = Swept + 6 => Arg.do = "get"
           /\ at = Swept + 15 + X => Arg.do = "valid"
<1>1. at \in Nat \ {0} /\ VoltPlace(Type, at, Arg)
  BY Where, Numbers DEF X
<1> QED BY <1>1, Numbers
        DEF VoltPlace, StoreVoltPlace, Do, Fetch, Fill, FillHeader, BurnTo, Patch, Measured, X

LEMMA TimingLandmarks ==
    ASSUME Shape, More, mpc = "timing"
    PROVE  /\ at = 24 => Arg.do = "untimed"
           /\ at = 31 => Arg.do = "flat"
           /\ at = Cycled => Arg.do = "measured"
           /\ at \in {Cycled + 1, TimedAt + 1} => Arg.do = "page"
           /\ at = Cycled + 2 => Arg.do = "get"
           /\ at \in {Cycled + 3, TimedAt - 1} => Arg.do = "patch"
           /\ at = TimedAt => Arg.do = "timed"
           /\ at \in {WidthsBurnt, TimeBurnt} => Arg.do = "burn"
           /\ at \in {WidthsBurnt - 1, TimeBurnt - 1} => Arg.do = "ram"
           /\ Type = 9 /\ at \in {Cycled + 4, Cycled + 7} => Arg.do = "page"
           /\ Type = 9 /\ at = Cycled + 8 => Arg.do = "get"
           /\ Type # 9 /\ at = Cycled + 8 => Arg.do = "copy"
<1>1. at \in Nat \ {0} /\ TimingPlace(Type, at, Arg)
  BY Where, Numbers DEF Y
<1>2. at \in {24, 31, Cycled} \cup Cycled + 1 .. Cycled + 8 + Y =>
         \/ at = 24 /\ Arg = Do("untimed")
         \/ at = 31 /\ Arg = Do("flat")
         \/ at = Cycled /\ Arg.do = "measured"
         \/ at \in Cycled + 1 .. Cycled + 8 + Y /\ StoreTimingPlace(Type, at - Cycled, Arg)
  BY <1>1, Numbers DEF TimingPlace, Measured, Y
<1>3. CASE Type = 9
  BY <1>1, <1>2, <1>3, Numbers
     DEF StoreTimingPlace, Do, Fetch, Fill, FillHeader, BurnTo, Patch, TimedAt, TimeBurnt, WidthsBurnt
<1>4. CASE Type # 9
  BY <1>1, <1>2, <1>4, Numbers
     DEF StoreTimingPlace, Do, Fetch, Fill, FillHeader, BurnTo, Patch, TimedAt, TimeBurnt, WidthsBurnt
<1> QED BY <1>3, <1>4

-----------------------------------------------------------------------------
(* What a calibration measures.                                             *)
MemOp == {"forget", "judge", "load", "defaults", "adopt", "nominal", "untimed", "flat", "timed",
          "copy", "valid", "measured"}

LEMMA MemKept ==
    ASSUME MainOp \/ Spin, Arg.do \notin MemOp
    PROVE  mem' = mem
BY DEF MemOp, MainOp, Op, Keep, Spin, Set, Start, Soft, Reset, Transfer, Page, Get, PatchBuf,
       PutRam, Burn, Forget, Defaults, LoadTables, Adopt, Nominal, Untimed, FlatTime, Timed, Copy,
       Valid, Convert, SetFreq, SetRange, RestoreTcal, RestoreTriggers, Judge, Analyse, Save

LEMMA MemSteps ==
    ASSUME MainOp \/ Spin, Arg.do \in MemOp
    PROVE  \/ Arg.do = "forget" /\ Forget
           \/ Arg.do = "judge" /\ Judge
           \/ Arg.do = "load" /\ LoadTables
           \/ Arg.do = "defaults" /\ Defaults
           \/ Arg.do = "adopt" /\ Adopt
           \/ Arg.do = "nominal" /\ Nominal
           \/ Arg.do = "untimed" /\ Untimed
           \/ Arg.do = "flat" /\ FlatTime
           \/ Arg.do = "timed" /\ Timed
           \/ Arg.do = "copy" /\ Copy
           \/ Arg.do = "valid" /\ Valid
           \/ Arg.do = "measured" /\ Convert
<1>1. /\ Set \/ Start \/ Soft \/ Reset \/ Transfer \/ Page \/ Get \/ PatchBuf \/ PutRam \/ Burn
            => Arg.do \notin MemOp
      /\ Analyse \/ Save \/ SetFreq \/ SetRange \/ RestoreTcal \/ RestoreTriggers \/ Spin
            => Arg.do \notin MemOp
  BY DEF MemOp, Op, Spin, Set, Start, Soft, Reset, Transfer, Page, Get, PatchBuf, PutRam, Burn,
         SetFreq, SetRange, RestoreTcal, RestoreTriggers, Analyse, Save
<1>2. /\ Forget => Arg.do = "forget"
      /\ Judge => Arg.do = "judge"
      /\ LoadTables => Arg.do = "load"
      /\ Defaults => Arg.do = "defaults"
      /\ Adopt => Arg.do = "adopt"
      /\ Nominal => Arg.do = "nominal"
      /\ Untimed => Arg.do = "untimed"
      /\ FlatTime => Arg.do = "flat"
      /\ Timed => Arg.do = "timed"
      /\ Copy => Arg.do = "copy"
      /\ Valid => Arg.do = "valid"
      /\ Convert => Arg.do = "measured"
  BY DEF Op, Forget, Defaults, LoadTables, Adopt, Nominal, Untimed, FlatTime, Timed, Copy, Valid,
         Convert, Judge
<1> QED BY <1>1, <1>2 DEF MainOp

(* What the steps do to the memory, with the place where they are made.     *)
LEMMA MemEffects ==
    ASSUME Shape, MainOp \/ Spin
    PROVE  \/ Arg.do \notin MemOp /\ mem' = mem
           \/ /\ In(2, 2) /\ at' = at + 1 /\ Arg.do = "defaults"
              /\ mem' = [mem EXCEPT !.nominal = Default]
           \/ /\ In(3, 3) /\ at' = at + 1 /\ Arg.do = "forget"
              /\ mem' = [mem EXCEPT !.v1 = 0, !.v2 = 0, !.dt = 0, !.rest = 0, !.valid = FALSE,
                                    !.tfreq = 0]
           \/ /\ In(6, 6) /\ at' = at + 1 /\ Arg.do = "judge" /\ buf["vmeth"] > 0
              /\ mem' = [mem EXCEPT !.valid = TRUE, !.range = buf["range"],
                                    !.tfreq = IF buf["tmeth"] > 0 THEN buf["tfreq"] ELSE -1]
           \/ /\ In(6, 6) /\ at' = at + 10 /\ Arg.do = "judge" /\ ~(buf["vmeth"] > 0)
              /\ mem' = [mem EXCEPT !.range = 0]
           \/ /\ In(9, 9) /\ at' = at + 1 /\ Arg.do = "load"
              /\ mem' = [mem EXCEPT !.v1 = buf["v1"]]
           \/ /\ In(12, 12) /\ at' = at + 1 /\ Arg.do = "load"
              /\ mem' = [mem EXCEPT !.v2 = buf["v2"]]
           \/ /\ In(15, 15) /\ at' = at + 1 /\ Arg.do = "load"
              /\ mem' = [mem EXCEPT !.dt = buf["dt"], !.rest = buf["dt"]]
           \/ /\ In(16, 16) /\ at' = at + 1 /\ Arg.do = "adopt"
              /\ mem' = [mem EXCEPT !.nominal = IF mem.tfreq \in 1 .. 60 THEN mem.tfreq ELSE Default]
           \/ /\ mpc \in Kind /\ at = 23 /\ at' = at + 1 /\ Arg.do = "nominal"
              /\ mem' = [mem EXCEPT !.nominal = saved.nominal]
           \/ /\ Timing(24, 24) /\ at' = at + 1 /\ Arg.do = "untimed"
              /\ mem' = [mem EXCEPT !.tfreq = 0]
           \/ /\ Timing(31, 31) /\ at' = at + 1 /\ Arg.do = "flat"
              /\ mem' = [mem EXCEPT !.dt = Flat, !.rest = Flat]
           \/ /\ Timing(TimedAt, TimedAt) /\ at' = at + 1 /\ Arg.do = "timed"
              /\ mem' = [mem EXCEPT !.tfreq = mem.nominal]
           \/ /\ Type # 9 /\ Timing(Cycled + 8, Cycled + 8) /\ at' = at + 1 /\ Arg.do = "copy"
              /\ mem' = [mem EXCEPT !.rest = mem.dt]
           \/ /\ Volt(Swept + 15 + X, Swept + 15 + X) /\ at' = at + 1 /\ Arg.do = "valid"
              /\ mem' = [mem EXCEPT !.valid = TRUE, !.range = reg.range]
           \/ /\ Volt(33 + 8 * Events, 33 + 8 * Events) /\ at' = at + 1 /\ Arg.do = "measured"
              /\ mem' = [mem EXCEPT !.v1 = gen]
           \/ /\ Volt(Swept, Swept) /\ at' = at + 1 /\ Arg.do = "measured"
              /\ mem' = [mem EXCEPT !.v2 = gen]
           \/ /\ Type = 9 /\ Timing(Cycled, Cycled) /\ at' = at + 1 /\ Arg.do = "measured"
              /\ mem' = [mem EXCEPT !.dt = gen, !.rest = gen]
           \/ /\ Type # 9 /\ Timing(Cycled, Cycled) /\ at' = at + 1 /\ Arg.do = "measured"
              /\ mem' = [mem EXCEPT !.dt = gen]
<1>1. More /\ mem \in Memory
  BY OpMoves DEF Shape, Types
<1>2. CASE Arg.do \notin MemOp
  BY <1>2, MemKept
<1>3. CASE Forget
  BY <1>1, <1>3, AtForget DEF Forget, Op
<1>4. CASE Judge
  <2>1. In(6, 6) /\ Arg.skip = 9 /\ Arg.do = "judge"
    BY <1>1, <1>4, AtJudge DEF Judge
  <2>2. at + 1 + 9 = at + 10
    BY Onward
  <2>3. CASE buf["vmeth"] > 0
    BY <1>4, <2>1, <2>3 DEF Judge
  <2>4. CASE ~(buf["vmeth"] > 0)
    BY <1>4, <2>1, <2>2, <2>4 DEF Judge
  <2> QED BY <2>3, <2>4
<1>5. CASE LoadTables
  <2>1. mem' = Replaced(Arg.tables, buf) /\ at' = at + 1 /\ Arg.do = "load"
    BY <1>5 DEF LoadTables, Op
  <2>2. Replaced({"v1"}, buf) = [mem EXCEPT !.v1 = buf["v1"]]
    BY <1>1 DEF Replaced, Memory
  <2>3. Replaced({"v2"}, buf) = [mem EXCEPT !.v2 = buf["v2"]]
    BY <1>1 DEF Replaced, Memory
  <2>4. Replaced({"dt", "rest"}, buf) = [mem EXCEPT !.dt = buf["dt"], !.rest = buf["dt"]]
    BY <1>1 DEF Replaced, Memory
  <2> QED BY <1>1, <2>1, <2>2, <2>3, <2>4, AtLoad
<1>6. CASE Convert
  <2> DEFINE new == [w \in Word |-> gen]
  <2>1. mem' = Replaced(Arg.tables, new) /\ at' = at + 1 /\ Arg.do = "measured"
    BY <1>6 DEF Convert, Op
  <2>2. new["v1"] = gen /\ new["v2"] = gen /\ new["dt"] = gen
    BY DEF Word
  <2> HIDE DEF new
  <2>3. Replaced({"v1"}, new) = [mem EXCEPT !.v1 = gen]
    BY <1>1, <2>2 DEF Replaced, Memory
  <2>4. Replaced({"v2"}, new) = [mem EXCEPT !.v2 = gen]
    BY <1>1, <2>2 DEF Replaced, Memory
  <2>5. Replaced({"dt", "rest"}, new) = [mem EXCEPT !.dt = gen, !.rest = gen]
    BY <1>1, <2>2 DEF Replaced, Memory
  <2>6. Replaced({"dt"}, new) = [mem EXCEPT !.dt = gen]
    BY <1>1, <2>2 DEF Replaced, Memory
  <2> QED BY <1>1, <2>1, <2>3, <2>4, <2>5, <2>6, AtMeasured
<1>7. CASE Defaults
  BY <1>1, <1>7, AtDefaults DEF Defaults, Op
<1>8. CASE Adopt
  BY <1>1, <1>8, AtAdopt DEF Adopt, Op
<1>9. CASE Nominal
  BY <1>1, <1>9, AtNominal DEF Nominal, Op
<1>10. CASE Untimed
  BY <1>1, <1>10, AtUntimed DEF Untimed, Op
<1>11. CASE FlatTime
  BY <1>1, <1>11, AtFlat DEF FlatTime, Op
<1>12. CASE Timed
  BY <1>1, <1>12, AtTimed DEF Timed, Op, TimedAt
<1>13. CASE Copy
  BY <1>1, <1>13, AtCopy DEF Copy, Op
<1>14. CASE Valid
  BY <1>1, <1>14, AtValid DEF Valid, Op
<1> QED BY <1>2, <1>3, <1>4, <1>5, <1>6, <1>7, <1>8, <1>9, <1>10, <1>11, <1>12, <1>13, <1>14,
           MemSteps

LEMMA MeasuringKeptByOps ==
    ASSUME Shape, Measuring, MainOp \/ Spin
    PROVE  Measuring'
<1>1. /\ OpKeeps /\ torn' = torn /\ before' = before /\ Type' = Type /\ X' = X /\ Y' = Y
      /\ at \in Nat \ {0} /\ mpc \in {"init", "volt", "timing"} /\ More
  BY OpMoves, Onward
<1>2. TimedAt' = TimedAt /\ TimedAt = (IF Type = 9 THEN Cycled + 10 ELSE Cycled + 4)
  BY <1>1, Constant DEF OpKeeps, TimedAt
<1>3. mem \in Memory /\ mem.nominal \in 1 .. 60
  BY DEF Shape, Types, Memory
<1>4. \/ at' = at + 1
      \/ Arg.do = "judge" /\ In(6, 6) /\ at' = at + 10
      \/ Arg.do = "analyse" /\ Timing(32, Cycled - 1) /\ at' = Cycled
  BY Onward
<1>5. CASE Arg.do \notin MemOp
  <2>1. mem' = mem
    BY <1>5, MemKept
  <2>2. CASE mpc = "volt"
    <3>1. at \notin {33 + 8 * Events, Swept} /\ at' = at + 1
      BY <1>1, <1>4, <1>5, <2>2, VoltLandmarks DEF MemOp, Timing
    <3> QED BY <1>1, <2>1, <2>2, <3>1, Numbers DEF Measuring, OpKeeps, Timing
  <2>3. CASE mpc = "timing"
    <3>1. at \notin {24, Cycled, TimedAt} /\ (Type # 9 => at # Cycled + 8)
      BY <1>1, <1>5, <2>3, TimingLandmarks DEF MemOp
    <3>2. at' = at + 1 \/ (Timing(32, Cycled - 1) /\ at' = Cycled)
      BY <1>4, <1>5 DEF MemOp
    <3> QED BY <1>1, <1>2, <2>1, <2>3, <3>1, <3>2, Numbers DEF Measuring, OpKeeps, Timing, Alone
  <2> QED BY <1>1, <2>2, <2>3 DEF Measuring, OpKeeps, Timing
<1>6. CASE In(2, 15) /\ at' <= at + 10
  BY <1>1, <1>2, <1>4, <1>6, Numbers DEF Measuring, OpKeeps, In, Step, Timing
<1>7. CASE at' = at + 1 /\ (In(16, 16) \/ at = 23)
  BY <1>1, <1>2, <1>7, Numbers DEF Measuring, OpKeeps, In, Step, Timing
<1>8. CASE Timing(24, 24) /\ at' = at + 1 /\ mem' = [mem EXCEPT !.tfreq = 0]
  BY <1>1, <1>2, <1>3, <1>8, Numbers DEF Measuring, OpKeeps, Timing, Memory
<1>9. CASE Timing(31, 31) /\ at' = at + 1 /\ mem' = [mem EXCEPT !.dt = Flat, !.rest = Flat]
  BY <1>1, <1>2, <1>3, <1>9, Numbers DEF Measuring, OpKeeps, Timing, Memory
<1>10. CASE Timing(TimedAt, TimedAt) /\ at' = at + 1 /\ mem' = [mem EXCEPT !.tfreq = mem.nominal]
  BY <1>1, <1>2, <1>3, <1>10, Numbers DEF Measuring, OpKeeps, Timing, Memory, Alone
<1>11. CASE Type # 9 /\ Timing(Cycled + 8, Cycled + 8) /\ at' = at + 1
            /\ mem' = [mem EXCEPT !.rest = mem.dt]
  BY <1>1, <1>2, <1>3, <1>11, Numbers DEF Measuring, OpKeeps, Timing, Memory, Alone
<1>12. CASE Volt(Swept + 15 + X, Swept + 15 + X) /\ at' = at + 1
            /\ mem' = [mem EXCEPT !.valid = TRUE, !.range = reg.range]
  BY <1>1, <1>2, <1>3, <1>12, Numbers DEF Measuring, OpKeeps, Volt, Timing, Memory
<1>13. CASE Volt(33 + 8 * Events, 33 + 8 * Events) /\ at' = at + 1 /\ mem' = [mem EXCEPT !.v1 = gen]
  BY <1>1, <1>2, <1>3, <1>13, Numbers DEF Measuring, OpKeeps, Volt, Timing, Memory
<1>14. CASE Volt(Swept, Swept) /\ at' = at + 1 /\ mem' = [mem EXCEPT !.v2 = gen]
  BY <1>1, <1>2, <1>3, <1>14, Numbers DEF Measuring, OpKeeps, Volt, Timing, Memory
<1>15. CASE Type = 9 /\ Timing(Cycled, Cycled) /\ at' = at + 1
            /\ mem' = [mem EXCEPT !.dt = gen, !.rest = gen]
  BY <1>1, <1>2, <1>3, <1>15, Numbers DEF Measuring, OpKeeps, Timing, Memory
<1>16. CASE Type # 9 /\ Timing(Cycled, Cycled) /\ at' = at + 1 /\ mem' = [mem EXCEPT !.dt = gen]
  BY <1>1, <1>2, <1>3, <1>16, Numbers DEF Measuring, OpKeeps, Timing, Memory
<1>17. In(2, 2) \/ In(3, 3) \/ In(6, 6) \/ In(9, 9) \/ In(12, 12) \/ In(15, 15)
          => In(2, 15)
  BY <1>1 DEF In, Step
<1> QED BY <1>1, <1>5, <1>6, <1>7, <1>8, <1>9, <1>10, <1>11, <1>12, <1>13, <1>14, <1>15, <1>16,
           <1>17, MemEffects

LEMMA MeasuringKept ==
    ASSUME Shape, Measuring, [Next]_vars
    PROVE  Measuring'
<1>1. CASE MainOp \/ Spin
  BY <1>1, MeasuringKeptByOps
<1>2. CASE Boot \/ Calibrate \/ Calibrated \/ Crash
  <2>1. at' = 1 /\ Type' = Type /\ X' = X /\ TimedAt' = TimedAt
    BY <1>2, BoardKept, Constant DEF Boot, Calibrate, Calibrated, Crash, Next, Main
  <2> QED BY <2>1, Numbers DEF Measuring, Timing, TimedAt
<1>3. CASE Configure
  <2>1. /\ mpc' = mpc /\ at' = at /\ gen' = gen /\ Type' = Type /\ TimedAt' = TimedAt
        /\ mpc \in Kind => before'.alone = FALSE
        /\ mem'.v1 = mem.v1 /\ mem'.v2 = mem.v2 /\ mem'.dt = mem.dt /\ mem'.rest = mem.rest
        /\ mem'.tfreq = mem.tfreq
    BY <1>3, Constant DEF Configure, Worker, mainVars, Shape, Types, Memory, Found
  <2> QED BY <2>1 DEF Measuring, Timing, Alone, Kind
<1>4. CASE (Preview /\ ~Configure) \/ ReadoutEnds \/ HardwareTrigger \/ UNCHANGED vars
  <2>1. /\ mpc' = mpc /\ at' = at /\ gen' = gen /\ mem' = mem /\ before' = before
        /\ Type' = Type /\ TimedAt' = TimedAt
    BY <1>4, Constant DEF Preview, Worker, PreviewStart, PreviewForce, PreviewWait, PreviewOther,
       PreviewTransfer, ReadoutEnds, HardwareTrigger, vars, mainVars, histVars
  <2> QED BY <2>1 DEF Measuring, Timing, Alone
<1> QED BY <1>1, <1>2, <1>3, <1>4 DEF Next, Main

-----------------------------------------------------------------------------
(* The pages on their way.                                                  *)
PageOp == {"page", "get", "patch", "ram", "burn", "transfer", "adopt"}

LEMMA PagesKept ==
    ASSUME MainOp \/ Spin, Arg.do \notin PageOp
    PROVE  eeprom' = eeprom /\ ram' = ram /\ buf' = buf
BY DEF PageOp, MainOp, Op, Keep, Spin, Set, Start, Soft, Reset, Transfer, Page, Get, PatchBuf,
       PutRam, Burn, Forget, Defaults, LoadTables, Adopt, Nominal, Untimed, FlatTime, Timed, Copy,
       Valid, Convert, SetFreq, SetRange, RestoreTcal, RestoreTriggers, Judge, Analyse, Save

LEMMA PageSteps ==
    ASSUME MainOp \/ Spin, Arg.do \in PageOp
    PROVE  Page \/ Get \/ PatchBuf \/ PutRam \/ Burn \/ Transfer \/ Adopt
<1>1. /\ Set \/ Start \/ Soft \/ Reset \/ Save \/ SetFreq \/ SetRange \/ RestoreTcal
            => Arg.do \notin PageOp
      /\ RestoreTriggers \/ Analyse \/ Spin \/ Judge \/ Forget \/ LoadTables \/ Defaults \/ Nominal
            => Arg.do \notin PageOp
      /\ Untimed \/ FlatTime \/ Timed \/ Copy \/ Valid \/ Convert => Arg.do \notin PageOp
  BY DEF PageOp, Op, Spin, Set, Start, Soft, Reset, Save, SetFreq, SetRange, RestoreTcal,
         RestoreTriggers, Analyse, Judge, Forget, LoadTables, Defaults, Nominal, Untimed, FlatTime,
         Timed, Copy, Valid, Convert
<1> QED BY <1>1 DEF MainOp

(* Only a write changes the EEPROM.                                         *)
LEMMA OnlyBurnWrites ==
    ASSUME MainOp \/ Spin, ~Burn
    PROVE  Arg.do # "burn" /\ eeprom' = eeprom
<1>1. CASE Arg.do \notin PageOp
  BY <1>1, PagesKept DEF PageOp
<1>2. CASE Arg.do \in PageOp
  <2>1. Page \/ Get \/ PatchBuf \/ PutRam \/ Transfer \/ Adopt
    BY <1>2, PageSteps
  <2> QED BY <2>1 DEF Page, Get, PatchBuf, PutRam, Transfer, Adopt, Op
<1> QED BY <1>1, <1>2

(* The frequency and the range change only before and after the transfers.  *)
LEMMA SettingsKept ==
    ASSUME Shape, MainOp \/ Spin
    PROVE  /\ mem'.nominal = mem.nominal \/ In(2, 16) \/ (mpc \in Kind /\ at = 23)
           /\ \/ reg'.range = reg.range \/ In(2, 16)
              \/ Volt(28, 28) \/ Timing(Cycled + 11 + Y, Cycled + 11 + Y)
<1>1. More /\ mem \in Memory /\ reg \in Registers
  BY OpMoves DEF Shape, Types
<1>2. mem'.nominal = mem.nominal \/ In(2, 16) \/ (mpc \in Kind /\ at = 23)
  <2>1. CASE mem' = mem
    BY <2>1
  <2>2. In(2, 2) \/ In(16, 16) => In(2, 16)
    BY Onward DEF In, Step
  <2> QED BY <1>1, <2>1, <2>2, MemEffects DEF Memory
<1>3. CASE Defaults \/ Adopt
  <2>1. In(2, 2) \/ In(16, 16)
    BY <1>1, <1>3, AtDefaults, AtAdopt DEF Defaults, Adopt, Op
  <2>2. In(2, 16)
    BY <2>1, Onward DEF In, Step
  <2> QED BY <1>2, <2>2
<1>4. CASE SetRange
  BY <1>1, <1>2, <1>4, AtRange DEF SetRange, Op
<1>5. CASE SetFreq
  BY <1>1, <1>2, <1>5 DEF SetFreq, Registers
<1>6. CASE ~Defaults /\ ~Adopt /\ ~SetRange /\ ~SetFreq
  <2>1. reg' = reg
    BY <1>6 DEF MainOp, Keep, Spin, Set, Start, Soft, Reset, Transfer, Page, Get, PatchBuf,
       PutRam, Burn, Forget, LoadTables, Nominal, Untimed, FlatTime, Timed, Copy,
       Valid, Convert, RestoreTcal, RestoreTriggers, Judge, Analyse, Save
  <2> QED BY <1>2, <2>1
<1> QED BY <1>3, <1>4, <1>5, <1>6

LEMMA RestKeepsTransfers ==
    ASSUME Shape, Transfers, MainOp \/ Spin, Arg.do \notin PageOp
    PROVE  Transfers'
<1>1. /\ OpKeeps /\ torn' = torn /\ before' = before /\ Type' = Type /\ X' = X /\ Y' = Y
      /\ at \in Nat \ {0} /\ mpc \in {"init", "volt", "timing"} /\ More
  BY OpMoves, Onward
<1>2. /\ TimedAt' = TimedAt /\ TimedAt = (IF Type = 9 THEN Cycled + 10 ELSE Cycled + 4)
      /\ TimeBurnt' = TimeBurnt /\ TimeBurnt = (IF Type = 9 THEN Cycled + 13 ELSE Cycled + 7)
      /\ WidthsBurnt' = WidthsBurnt /\ WidthsBurnt = (IF Type = 9 THEN Cycled + 6 ELSE Cycled + 7)
  BY <1>1, Constant DEF OpKeeps, TimedAt, TimeBurnt, WidthsBurnt
<1>3. \/ at' = at + 1
      \/ In(6, 6) /\ at' = at + 10
      \/ Timing(32, Cycled - 1) /\ at' = Cycled
  BY Onward
<1>4. eeprom' = eeprom /\ ram' = ram /\ buf' = buf
  BY PagesKept
<1>5. /\ ~In(4, 4) /\ ~In(7, 7) /\ ~In(10, 10) /\ ~In(13, 13)
      /\ ~In(5, 5) /\ ~In(8, 8) /\ ~In(11, 11) /\ ~In(14, 14)
  BY <1>1, InitLandmarks DEF PageOp
<1>6. mpc = "volt" =>
         /\ at \notin {Swept + 1, Swept + 2, Swept + 3, Swept + 4, Swept + 5 + X, Swept + 6 + X,
                       Swept + 7 + X, Swept + 8 + X}
         /\ at \notin {Swept + 9 + X, Swept + 10 + X, Swept + 11 + X, Swept + 12 + X,
                       Swept + 13 + X, Swept + 14 + X}
         /\ Type = 9 => at \notin {Swept + 5, Swept + 6}
  BY <1>1, VoltLandmarks DEF PageOp
<1>7. mpc = "timing" =>
         /\ at \notin {Cycled + 1, TimedAt + 1, Cycled + 2, Cycled + 3, TimedAt - 1, WidthsBurnt,
                       TimeBurnt, WidthsBurnt - 1, TimeBurnt - 1}
         /\ Type = 9 => at \notin {Cycled + 4, Cycled + 7, Cycled + 8}
  BY <1>1, TimingLandmarks DEF PageOp
<1>8. /\ mem'.nominal = mem.nominal \/ In(2, 16) \/ (mpc \in Kind /\ at = 23)
      /\ \/ reg'.range = reg.range \/ In(2, 16)
         \/ Volt(28, 28) \/ Timing(Cycled + 11 + Y, Cycled + 11 + Y)
  BY SettingsKept
<1>9. mpc = "volt" => at \notin Swept + 1 .. Swept + 14 + X /\ at' \notin Swept + 2 .. Swept + 14 + X
  <2>1. mpc = "volt" => at \notin Swept + 1 .. Swept + 14 + X
    BY <1>1, <1>6, Numbers
  <2> QED BY <1>1, <1>3, <2>1, Numbers DEF OpKeeps, In, Step, Timing
<1>10. CASE mpc = "init"
  BY <1>1, <1>3, <1>4, <1>5, <1>10
     DEF Transfers, Fetched, Received, Patched, Sent, RamHolds, BufHolds, RamIsBuf, OpKeeps,
         In, Step, Volt, Timing
<1>11. CASE mpc = "volt"
  BY <1>1, <1>3, <1>4, <1>5, <1>9, <1>11, Numbers
     DEF Transfers, Fetched, Received, Patched, Sent, RamHolds, BufHolds, RamIsBuf, OpKeeps,
         In, Step, Volt, Timing
<1>12. CASE mpc = "timing"
  <2>1. Fetched'
    BY <1>1, <1>2, <1>3, <1>4, <1>5, <1>7, <1>12, Numbers
       DEF Transfers, Fetched, RamHolds, OpKeeps, In, Step, Volt, Timing
  <2>2. Received'
    BY <1>1, <1>2, <1>3, <1>4, <1>5, <1>7, <1>12, Numbers
       DEF Transfers, Received, BufHolds, OpKeeps, In, Step, Volt, Timing
  <2>3. Patched'
    BY <1>1, <1>2, <1>3, <1>4, <1>7, <1>8, <1>12, Numbers
       DEF Transfers, Patched, OpKeeps, In, Step, Volt, Timing, Alone, Kind
  <2>4. Sent'
    BY <1>1, <1>2, <1>3, <1>4, <1>7, <1>12, Numbers
       DEF Transfers, Sent, RamIsBuf, OpKeeps, In, Step, Volt, Timing
  <2> QED BY <2>1, <2>2, <2>3, <2>4 DEF Transfers
<1> QED BY <1>1, <1>10, <1>11, <1>12

LEMMA CopiedPart ==
    \A f, g, words, part, lost : Copied(f, g, words, lost) => Copied(f, g, words \ part, lost)
BY DEF Copied

LEMMA PagesKeepTransfers ==
    ASSUME Shape, Transfers, Measuring, MainOp \/ Spin, Arg.do \in PageOp
    PROVE  Transfers'
<1>1. /\ OpKeeps /\ torn' = torn /\ before' = before /\ Type' = Type /\ X' = X /\ Y' = Y
      /\ at \in Nat \ {0} /\ mpc \in {"init", "volt", "timing"} /\ More /\ at' = at + 1
  BY OpMoves, Onward DEF PageOp
<1>2. /\ TimedAt' = TimedAt /\ TimedAt = (IF Type = 9 THEN Cycled + 10 ELSE Cycled + 4)
      /\ TimeBurnt' = TimeBurnt /\ TimeBurnt = (IF Type = 9 THEN Cycled + 13 ELSE Cycled + 7)
      /\ WidthsBurnt' = WidthsBurnt /\ WidthsBurnt = (IF Type = 9 THEN Cycled + 6 ELSE Cycled + 7)
  BY <1>1, Constant DEF OpKeeps, TimedAt, TimeBurnt, WidthsBurnt
<1>3. CASE Page
  <2>1. eeprom' = eeprom /\ buf' = buf /\ mem' = mem /\ reg' = reg /\ Arg.do = "page"
    BY <1>3 DEF Page, Op
  <2>2. Arg.page \in 0 .. 2
    BY <1>1, <2>1, AtPage DEF TimingPage
  <2>3. Copied(ram', eeprom[Arg.page], Words(Type, Arg.page), torn)
    <3>1. DOMAIN eeprom[Arg.page] = Words(Type, Arg.page) /\ Words(Type, Arg.page) \subseteq Word
      BY <2>2 DEF Shape, Types, IsPage, Words, Word, Header
    <3> QED BY <1>3, <3>1 DEF Page, Copied
  <2>4. \/ In(4, 4) /\ Arg.page = 0
        \/ In(7, 7) /\ Arg.page = 1
        \/ In(10, 10) /\ Arg.page = 2
        \/ In(13, 13) /\ Arg.page = TimingPage(Type)
        \/ Volt(Swept + 2, Swept + 2) /\ Arg.page = 1
        \/ Type = 9 /\ Volt(Swept + 5, Swept + 5) /\ Arg.page = 2
        \/ Volt(Swept + 6 + X, Swept + 6 + X) /\ Arg.page = 2
        \/ Volt(Swept + 9 + X, Swept + 9 + X) /\ Arg.page = 0
        \/ Volt(Swept + 12 + X, Swept + 12 + X) /\ Arg.page = 0
        \/ Timing(Cycled + 1, Cycled + 1) /\ Arg.page = TimingPage(Type)
        \/ Type = 9 /\ Timing(Cycled + 4, Cycled + 4) /\ Arg.page = 2
        \/ Type = 9 /\ Timing(Cycled + 7, Cycled + 7) /\ Arg.page = 0
        \/ Type = 9 /\ Timing(Cycled + 11, Cycled + 11) /\ Arg.page = 0
        \/ Type # 9 /\ Timing(Cycled + 5, Cycled + 5) /\ Arg.page = 0
    BY <1>1, <2>1, AtPage
  <2>5. Fetched'
    BY <1>1, <2>1, <2>3, <2>4, Numbers
       DEF Transfers, Fetched, RamHolds, OpKeeps, In, Step, Volt, Timing
  <2>6. Received'
    BY <1>1, <2>1, <2>4, Numbers
       DEF Transfers, Received, BufHolds, OpKeeps, In, Step, Volt, Timing
  <2>7. Patched'
    BY <1>1, <1>2, <2>1, <2>4, Numbers
       DEF Transfers, Patched, OpKeeps, In, Step, Volt, Timing, Alone
  <2>8. Sent'
    BY <1>1, <1>2, <2>1, <2>4, Numbers
       DEF Transfers, Sent, RamIsBuf, OpKeeps, In, Step, Volt, Timing
  <2> QED BY <2>5, <2>6, <2>7, <2>8 DEF Transfers
<1>4. CASE Get
  <2>1. eeprom' = eeprom /\ ram' = ram /\ buf' = ram /\ mem' = mem /\ reg' = reg /\ Arg.do = "get"
    BY <1>4 DEF Get, Op
  <2>2. \/ In(5, 5)
        \/ In(8, 8)
        \/ In(11, 11)
        \/ In(14, 14)
        \/ Type = 9 /\ Volt(Swept + 6, Swept + 6)
        \/ Volt(Swept + 10 + X, Swept + 10 + X)
        \/ Timing(Cycled + 2, Cycled + 2)
        \/ Type = 9 /\ Timing(Cycled + 8, Cycled + 8)
    BY <1>1, <2>1, AtGet
  <2>5. Fetched'
    BY <1>1, <2>1, <2>2, Numbers
       DEF Fetched, OpKeeps, In, Step, Volt, Timing
  <2>6. Received'
    <3>1. \A p, patched : RamHolds(p) => Copied(buf', eeprom'[p], Words(Type', p) \ patched, torn')
      BY <1>1, <2>1, CopiedPart DEF RamHolds
    <3>2. /\ In(5, 5) => Copied(buf', eeprom'[0], Words(Type', 0) \ {}, torn')
          /\ In(8, 8) => Copied(buf', eeprom'[1], Words(Type', 1) \ {}, torn')
          /\ In(11, 11) => Copied(buf', eeprom'[2], Words(Type', 2) \ {}, torn')
          /\ In(14, 14) => Copied(buf', eeprom'[TimingPage(Type)],
                                  Words(Type', TimingPage(Type)) \ {}, torn')
          /\ Type = 9 /\ Volt(Swept + 6, Swept + 6) =>
                Copied(buf', eeprom'[2], Words(Type', 2) \ {"v2"}, torn')
          /\ Volt(Swept + 10 + X, Swept + 10 + X) =>
                Copied(buf', eeprom'[0], Words(Type', 0) \ {"vmeth", "range"}, torn')
      BY <3>1 DEF Transfers, Fetched
    <3>3. /\ Type = 9 /\ Timing(Cycled + 2, Cycled + 2) =>
                Copied(buf', eeprom'[2], Words(Type', 2) \ {"dt"}, torn')
          /\ Type = 9 /\ Timing(Cycled + 8, Cycled + 8) =>
                Copied(buf', eeprom'[0], Words(Type', 0) \ {"tmeth", "tfreq"}, torn')
          /\ Type # 9 /\ Timing(Cycled + 2, Cycled + 2) =>
                Copied(buf', eeprom'[0], Words(Type', 0) \ {"dt", "tmeth", "tfreq"}, torn')
      BY <3>1 DEF Transfers, Fetched, TimingPage
    <3>4. TimingPage(Type)' = TimingPage(Type)
      BY <1>1 DEF TimingPage
    <3>5. CASE mpc = "init"
      BY <1>1, <2>2, <3>2, <3>4, <3>5 DEF Received, BufHolds, OpKeeps, In, Step, Volt, Timing
    <3>6. CASE mpc = "volt"
      BY <1>1, <2>2, <3>2, <3>4, <3>6, Numbers
         DEF Received, BufHolds, OpKeeps, In, Step, Volt, Timing
    <3>7. CASE mpc = "timing"
      BY <1>1, <2>2, <3>2, <3>3, <3>4, <3>7, Numbers
         DEF Received, BufHolds, OpKeeps, In, Step, Volt, Timing
    <3> QED BY <1>1, <3>5, <3>6, <3>7
  <2>7. Patched'
    BY <1>1, <1>2, <2>1, <2>2, Numbers
       DEF Transfers, Patched, OpKeeps, In, Step, Volt, Timing, Alone
  <2>8. Sent'
    BY <1>1, <1>2, <2>1, <2>2, Numbers
       DEF Transfers, Sent, RamIsBuf, OpKeeps, In, Step, Volt, Timing
  <2> QED BY <2>5, <2>6, <2>7, <2>8 DEF Transfers
<1>5. CASE PatchBuf
  <2>1. eeprom' = eeprom /\ ram' = ram /\ mem' = mem /\ reg' = reg /\ Arg.do = "patch"
    BY <1>5 DEF PatchBuf, Op
  <2>2. /\ \A w \in Word : w \notin Arg.words => buf'[w] = buf[w]
        /\ "range" \in Arg.words => buf'["range"] = reg.range
        /\ "tfreq" \in Arg.words => buf'["tfreq"] = mem.nominal
        /\ "dt" \in Arg.words => buf'["dt"] = mem.dt
        /\ "v1" \in Arg.words => buf'["v1"] = mem.v1
        /\ "v2" \in Arg.words => buf'["v2"] = mem.v2
        /\ "vmeth" \in Arg.words => buf'["vmeth"] = gen
        /\ "tmeth" \in Arg.words => buf'["tmeth"] = gen
    <3>1. \A w \in Word : w \notin Arg.words => buf'[w] = buf[w]
      BY <1>5 DEF PatchBuf
    <3>2. "range" \in Arg.words => buf'["range"] = reg.range
      BY <1>5 DEF PatchBuf, Word, Header
    <3>3. "tfreq" \in Arg.words => buf'["tfreq"] = mem.nominal
      BY <1>5 DEF PatchBuf, Word, Header
    <3>4. "dt" \in Arg.words => buf'["dt"] = mem.dt
      BY <1>5 DEF PatchBuf, Word, Header
    <3>5. "v1" \in Arg.words => buf'["v1"] = mem.v1
      BY <1>5 DEF PatchBuf, Word, Header
    <3>6. "v2" \in Arg.words => buf'["v2"] = mem.v2
      BY <1>5 DEF PatchBuf, Word, Header
    <3>7. "vmeth" \in Arg.words => buf'["vmeth"] = gen
      BY <1>5 DEF PatchBuf, Word, Header
    <3>8. "tmeth" \in Arg.words => buf'["tmeth"] = gen
      BY <1>5 DEF PatchBuf, Word, Header
    <3> QED BY <3>1, <3>2, <3>3, <3>4, <3>5, <3>6, <3>7, <3>8
  <2>3. \/ Volt(Swept + 1, Swept + 1) /\ Arg.words = {"v1"}
        \/ Volt(Swept + 5 + X, Swept + 5 + X) /\ Arg.words = {"v2"}
        \/ Volt(Swept + 11 + X, Swept + 11 + X) /\ Arg.words = {"vmeth", "range"}
        \/ Type = 9 /\ Timing(Cycled + 3, Cycled + 3) /\ Arg.words = {"dt"}
        \/ Type = 9 /\ Timing(Cycled + 9, Cycled + 9) /\ Arg.words = {"tmeth", "tfreq"}
        \/ Type # 9 /\ Timing(Cycled + 3, Cycled + 3) /\ Arg.words = {"dt", "tmeth", "tfreq"}
    BY <1>1, <2>1, AtPatch
  <2>4. \A p \in 0 .. 2 : \A patched :
           (Arg.words \subseteq patched /\ BufHolds(p, patched))
              => Copied(buf', eeprom[p], Words(Type, p) \ patched, torn)
    <3>1. \A p \in 0 .. 2 : Words(Type, p) \subseteq Word
      BY DEF Words, Word, Header
    <3> QED BY <2>2, <3>1 DEF BufHolds, Copied
  <2>5. Fetched'
    BY <1>1, <2>1, <2>3, Numbers
       DEF Fetched, OpKeeps, In, Step, Volt, Timing
  <2>6. Received'
    <3>1. CASE mpc = "volt"
      <4>1. Type = 9 /\ Volt(Swept + 7, Swept + 7) /\ Arg.words = {"v2"} =>
               Copied(buf', eeprom[2], Words(Type, 2) \ {"v2"}, torn)
        <5>1. Type = 9 /\ Volt(Swept + 7, Swept + 7) => BufHolds(2, {"v2"})
          BY <1>1, Numbers DEF Transfers, Received, Volt
        <5> QED BY <2>4, <5>1
      <4>2. Volt(Swept + 11 + X, Swept + 11 + X) /\ Arg.words = {"vmeth", "range"} =>
               Copied(buf', eeprom[0], Words(Type, 0) \ {"vmeth", "range"}, torn)
        <5>1. Volt(Swept + 11 + X, Swept + 11 + X) => BufHolds(0, {"vmeth", "range"})
          BY <1>1, Numbers DEF Transfers, Received, Volt
        <5> QED BY <2>4, <5>1
      <4> QED BY <1>1, <2>1, <2>3, <3>1, <4>1, <4>2, Numbers
              DEF Received, BufHolds, OpKeeps, In, Step, Volt, Timing
    <3>2. CASE mpc = "timing"
      <4>1. Type = 9 /\ at = Cycled + 3 /\ Arg.words = {"dt"} =>
               Copied(buf', eeprom[2], Words(Type, 2) \ {"dt"}, torn)
        BY <2>4, <3>2, Numbers DEF Transfers, Received, Timing
      <4>2. Type = 9 /\ at = Cycled + 9 /\ Arg.words = {"tmeth", "tfreq"} =>
               Copied(buf', eeprom[0], Words(Type, 0) \ {"tmeth", "tfreq"}, torn)
        BY <2>4, <3>2, Numbers DEF Transfers, Received, Timing
      <4>3. Type # 9 /\ at = Cycled + 3 /\ Arg.words = {"dt", "tmeth", "tfreq"} =>
               Copied(buf', eeprom[0], Words(Type, 0) \ {"dt", "tmeth", "tfreq"}, torn)
        BY <2>4, <3>2, Numbers DEF Transfers, Received, Timing
      <4> QED BY <1>1, <2>1, <2>3, <3>2, <4>1, <4>2, <4>3, Numbers
              DEF Received, BufHolds, OpKeeps, In, Step, Volt, Timing
    <3> QED BY <2>3, <3>1, <3>2 DEF Volt, Timing
  <2>7. Patched'
    <3>1. /\ Volt(Swept + 1, Swept + 1) => mem.v1 = gen
          /\ Volt(Swept + 5 + X, Swept + 5 + X) => mem.v2 = gen
          /\ Timing(Cycled + 3, Cycled + 3) => mem.dt = gen
      BY <1>1, Numbers DEF Measuring, Volt, Timing
    <3>2. mem.nominal \in 1 .. 60
      BY DEF Shape, Types, Memory
    <3> QED BY <1>1, <1>2, <2>1, <2>2, <2>3, <3>1, <3>2, Numbers
            DEF Transfers, Patched, OpKeeps, Volt, Timing, Alone, Word, Header
  <2>8. Sent'
    BY <1>1, <1>2, <2>1, <2>3, Numbers
       DEF Sent, OpKeeps, In, Step, Volt, Timing
  <2> QED BY <2>5, <2>6, <2>7, <2>8 DEF Transfers
<1>6. CASE PutRam
  <2>1. eeprom' = eeprom /\ buf' = buf /\ mem' = mem /\ reg' = reg /\ Arg.do = "ram"
    BY <1>6 DEF PutRam, Op
  <2>2. \/ /\ Volt(Swept + 13 + X, Swept + 13 + X)
           /\ Arg.words = Header /\ Arg.half = Words(Type, 0) \ Header
        \/ Volt(Swept + 3, Swept + 3) /\ Arg.words = Words(Type, 1)
        \/ Volt(Swept + 7 + X, Swept + 7 + X) /\ Arg.words = Words(Type, 2)
        \/ Type = 9 /\ Timing(Cycled + 5, Cycled + 5) /\ Arg.words = Words(Type, 2)
        \/ Type = 9 /\ Timing(Cycled + 12, Cycled + 12) /\ Arg.words = Words(Type, 0)
        \/ Type # 9 /\ Timing(Cycled + 6, Cycled + 6) /\ Arg.words = Words(Type, 0)
    BY <1>1, <2>1, AtRam
  <2>9. Words(Type, 0) \subseteq Word /\ Words(Type, 1) \subseteq Word /\ Words(Type, 2) \subseteq Word
    BY DEF Words, Word, Header
  <2>10. \A w \in Word : ram'[w] = IF w \in Arg.words THEN buf[w]
                                   ELSE IF w \in Arg.half /\ buf[w] # ram[w] THEN Garbage
                                   ELSE ram[w]
    BY <1>6 DEF PutRam
  <2>11. ASSUME Arg.words \in {Words(Type, 0), Words(Type, 1), Words(Type, 2)}
         PROVE  Copied(ram', buf, Arg.words, torn)
    <3>1. Arg.words \subseteq Word
      BY <2>9, <2>11
    <3> QED BY <2>10, <3>1 DEF Copied
  <2>3. \/ /\ Volt(Swept + 13 + X, Swept + 13 + X)
           /\ Copied(ram', buf, Words(Type, 0), torn)
        \/ Volt(Swept + 3, Swept + 3) /\ Copied(ram', buf, Words(Type, 1), torn)
        \/ Volt(Swept + 7 + X, Swept + 7 + X) /\ Copied(ram', buf, Words(Type, 2), torn)
        \/ Type = 9 /\ Timing(Cycled + 5, Cycled + 5) /\ Copied(ram', buf, Words(Type, 2), torn)
        \/ Type = 9 /\ Timing(Cycled + 12, Cycled + 12) /\ Copied(ram', buf, Words(Type, 0), torn)
        \/ Type # 9 /\ Timing(Cycled + 6, Cycled + 6) /\ Copied(ram', buf, Words(Type, 0), torn)
    <3>1. ASSUME Volt(Swept + 13 + X, Swept + 13 + X),
                 Arg.words = Header, Arg.half = Words(Type, 0) \ Header
          PROVE  Copied(ram', buf, Words(Type, 0), torn)
      <4>1. CASE Type = 9
        <5>1. Arg.words = Words(Type, 0)
          BY <3>1, <4>1 DEF Words, TimingPage
        <5> QED BY <2>11, <5>1
      <4>2. CASE Type # 9
        <5>1. RamHolds(0) /\ BufHolds(0, {"vmeth", "range"})
          BY <1>1, <3>1, <4>2, Numbers DEF Transfers, Fetched, Received, Volt
        <5>2. Words(Type, 0) = Header \cup {"dt"} /\ "dt" \notin Header
          BY <4>2 DEF Words, TimingPage, Header
        <5>3. /\ ram["dt"] = eeprom[0]["dt"] \/ (torn /\ ram["dt"] = Garbage)
              /\ buf["dt"] = eeprom[0]["dt"] \/ (torn /\ buf["dt"] = Garbage)
          BY <5>1, <5>2 DEF RamHolds, BufHolds, Copied
        <5>4. ram'["dt"] = buf["dt"] \/ (torn /\ ram'["dt"] = Garbage)
          BY <2>10, <3>1, <5>2, <5>3 DEF Word
        <5>5. \A w \in Header : ram'[w] = buf[w]
          BY <2>10, <3>1 DEF Word
        <5> QED BY <5>2, <5>4, <5>5 DEF Copied
      <4> QED BY <4>1, <4>2
    <3> QED BY <2>2, <2>11, <3>1
  <2>5. Fetched'
    BY <1>1, <2>1, <2>2, Numbers
       DEF Fetched, OpKeeps, In, Step, Volt, Timing
  <2>6. Received'
    BY <1>1, <2>1, <2>2, Numbers
       DEF Transfers, Received, BufHolds, OpKeeps, In, Step, Volt, Timing
  <2>7. Patched'
    BY <1>1, <1>2, <2>1, <2>2, Numbers
       DEF Transfers, Patched, OpKeeps, In, Step, Volt, Timing, Alone
  <2>8. Sent'
    BY <1>1, <1>2, <2>1, <2>2, <2>3, Numbers
       DEF Sent, RamIsBuf, OpKeeps, In, Step, Volt, Timing, TimingPage
  <2> QED BY <2>5, <2>6, <2>7, <2>8 DEF Transfers
<1>7. CASE Burn
  <2>1. Arg.do = "burn"
    BY <1>7 DEF Burn, Op
  <2>2. \/ Volt(Swept + 4, Swept + 4)
        \/ Volt(Swept + 8 + X, Swept + 8 + X)
        \/ Volt(Swept + 14 + X, Swept + 14 + X)
        \/ Type = 9 /\ Timing(Cycled + 6, Cycled + 6)
        \/ Type = 9 /\ Timing(Cycled + 13, Cycled + 13)
        \/ Type # 9 /\ Timing(Cycled + 7, Cycled + 7)
    BY <1>1, <2>1, AtBurn
  <2> QED BY <1>1, <1>2, <2>2, Numbers
          DEF Transfers, Fetched, Received, Patched, Sent, OpKeeps, In, Step, Volt, Timing
<1>8. CASE Transfer
  <2>1. Arg.do = "transfer"
    BY <1>8 DEF Transfer, Op
  <2>2. \/ In(17, 20) \/ Volt(25, 27) \/ Volt(29, 32 + 8 * Events) \/ Volt(34 + 8 * Events, Swept - 1)
        \/ Volt(Swept + 16 + X, Swept + 16 + X) \/ Timing(26, 30) \/ Timing(32, Cycled - 1)
        \/ Timing(Cycled + 9 + Y, Cycled + 9 + Y)
    BY <1>1, <2>1, AtQuiet DEF Poll
  <2> QED BY <1>1, <1>2, <2>2, Numbers
          DEF Transfers, Fetched, Received, Patched, Sent, OpKeeps, In, Step, Volt, Timing
<1>9. CASE Adopt
  <2>1. In(16, 16)
    BY <1>1, <1>9, AtAdopt DEF Adopt, Op
  <2> QED BY <1>1, <1>2, <2>1, Numbers
          DEF Transfers, Fetched, Received, Patched, Sent, OpKeeps, In, Step, Volt, Timing
<1> QED BY <1>3, <1>4, <1>5, <1>6, <1>7, <1>8, <1>9, PageSteps

LEMMA CopiedLost ==
    \A f, g, words, lost1, lost2 :
        (Copied(f, g, words, lost1) /\ (lost1 => lost2)) => Copied(f, g, words, lost2)
BY DEF Copied

LEMMA Inside ==
    ASSUME Shape
    PROVE  /\ at \in Nat \ {0} /\ mpc \in {"init", "idle", "volt", "timing"}
           /\ mpc = "init" /\ at <= 21 => More
           /\ mpc = "volt" /\ at <= Swept + 18 + X => More
           /\ mpc = "timing" /\ at <= Cycled + 12 + Y => More
<1>1. mpc \in {"init", "idle", "volt", "timing"} /\ at \in 1 .. Len(Program) + 1
  BY DEF Shape, Places, Types, Kind
<1>2. at \in Nat \ {0}
  BY <1>1, ProgramLength, Numbers
<1> QED BY <1>1, <1>2, ProgramLength, Numbers DEF More

(* The preview loses what is in the RAM on the way to the caller or to the  *)
(* EEPROM, and torn records it.                                             *)
LEMMA PreviewKeepsTransfers ==
    ASSUME Shape, Transfers, PreviewTransfer
    PROVE  Transfers'
<1>1. /\ mpc' = mpc /\ at' = at /\ gen' = gen /\ mem' = mem /\ before' = before /\ reg' = reg
      /\ buf' = buf /\ eeprom' = eeprom /\ ram' = Wave /\ board' = board
      /\ torn' = (torn \/ (More /\ (\/ Arg.do \in {"get", "burn"}
                                     \/ (Arg.do = "ram" /\ Arg.half # {}))))
  BY DEF PreviewTransfer, PageInRam, Worker, mainVars
<1>2. /\ Type' = Type /\ X' = X /\ Y' = Y /\ TimedAt' = TimedAt /\ TimeBurnt' = TimeBurnt
      /\ WidthsBurnt' = WidthsBurnt
  BY <1>1, Constant
<1>3. /\ torn => torn'
      /\ More /\ Arg.do \in {"get", "burn"} => torn'
      /\ More /\ Arg.do = "ram" /\ Arg.half # {} => torn'
  BY <1>1
<1>4. \A p \in 0 .. 2 : \A g : torn' => Copied(ram', g, Words(Type, p), torn')
  <2>1. \A p \in 0 .. 2 : Words(Type, p) \subseteq Word
    BY DEF Words, Word, Header
  <2> QED BY <1>1, <2>1 DEF Wave, Copied
<1>5. \A p, patched : BufHolds(p, patched) => Copied(buf', eeprom'[p], Words(Type', p) \ patched, torn')
  BY <1>1, <1>2, <1>3, CopiedLost DEF BufHolds
<1>6. TimingPage(Type)' = TimingPage(Type) /\ TimingPage(Type) \in 0 .. 2
  BY <1>2 DEF TimingPage
<1>7. /\ In(5, 5) \/ In(8, 8) \/ In(11, 11) \/ In(14, 14) => torn'
      /\ Type = 9 /\ Volt(Swept + 6, Swept + 6) => torn'
      /\ Volt(Swept + 10 + X, Swept + 10 + X) => torn'
      /\ Type # 9 /\ Volt(Swept + 13 + X, Swept + 13 + X) => torn'
      /\ Timing(Cycled + 2, Cycled + 2) => torn'
      /\ Type = 9 /\ Timing(Cycled + 8, Cycled + 8) => torn'
  <2>1. In(5, 5) \/ In(8, 8) \/ In(11, 11) \/ In(14, 14) => More /\ Arg.do = "get"
    BY Inside, Numbers, InitLandmarks DEF In, Step
  <2>2. /\ Type = 9 /\ Volt(Swept + 6, Swept + 6) => More /\ Arg.do = "get"
        /\ Volt(Swept + 10 + X, Swept + 10 + X) => More /\ Arg.do = "get"
    BY Inside, Numbers, VoltLandmarks DEF Volt
  <2>3. /\ Timing(Cycled + 2, Cycled + 2) => More /\ Arg.do = "get"
        /\ Type = 9 /\ Timing(Cycled + 8, Cycled + 8) => More /\ Arg.do = "get"
    BY Inside, Numbers, TimingLandmarks DEF Timing
  <2>4. Type # 9 /\ Volt(Swept + 13 + X, Swept + 13 + X) =>
            More /\ Arg.do = "ram" /\ Arg.half = Words(Type, 0) \ Header
    BY Inside, Numbers, VoltLandmarks DEF Volt
  <2>5. Type # 9 => Words(Type, 0) \ Header # {}
    BY DEF Words, TimingPage, Header
  <2> QED BY <1>3, <2>1, <2>2, <2>3, <2>4, <2>5
<1>8. /\ Volt(Swept + 4, Swept + 4) => torn'
      /\ Volt(Swept + 8 + X, Swept + 8 + X) => torn'
      /\ Volt(Swept + 14 + X, Swept + 14 + X) => torn'
      /\ Timing(WidthsBurnt, WidthsBurnt) => torn'
      /\ Timing(TimeBurnt, TimeBurnt) => torn'
  <2>1. /\ Volt(Swept + 4, Swept + 4) => More /\ Arg.do = "burn"
        /\ Volt(Swept + 8 + X, Swept + 8 + X) => More /\ Arg.do = "burn"
        /\ Volt(Swept + 14 + X, Swept + 14 + X) => More /\ Arg.do = "burn"
    BY Inside, Numbers, VoltLandmarks DEF Volt
  <2>2. /\ Timing(WidthsBurnt, WidthsBurnt) => More /\ Arg.do = "burn"
        /\ Timing(TimeBurnt, TimeBurnt) => More /\ Arg.do = "burn"
    <3>1. WidthsBurnt \in Int /\ TimeBurnt \in Int
          /\ WidthsBurnt <= Cycled + 12 + Y /\ TimeBurnt <= Cycled + 12 + Y
      BY Numbers DEF WidthsBurnt, TimeBurnt
    <3>2. Timing(WidthsBurnt, WidthsBurnt) \/ Timing(TimeBurnt, TimeBurnt) => More
      BY <3>1, Inside, Numbers DEF Timing
    <3> QED BY <3>1, <3>2, Inside, TimingLandmarks DEF Timing
  <2> QED BY <1>3, <2>1, <2>2
<1>9. Fetched'
  BY <1>1, <1>2, <1>4, <1>6, <1>7 DEF Fetched, RamHolds, In, Step, Volt, Timing
<1>10. Received'
  <2> DEFINE Holds(p, patched) == Copied(buf', eeprom'[p], Words(Type', p) \ patched, torn')
  <2>1. /\ In(6, 6) => Holds(0, {})
        /\ In(9, 9) => Holds(1, {})
        /\ In(12, 12) => Holds(2, {})
        /\ In(15, 15) => Holds(TimingPage(Type), {})
        /\ Type = 9 /\ Volt(Swept + 7, Swept + 10) => Holds(2, {"v2"})
        /\ Volt(Swept + 11 + X, Swept + 14 + X) => Holds(0, {"vmeth", "range"})
        /\ Type = 9 /\ Timing(Cycled + 3, Cycled + 6) => Holds(2, {"dt"})
        /\ Type = 9 /\ Timing(Cycled + 9, Cycled + 13) => Holds(0, {"tmeth", "tfreq"})
        /\ Type # 9 /\ Timing(Cycled + 3, Cycled + 7) => Holds(0, {"dt", "tmeth", "tfreq"})
    BY <1>5 DEF Transfers, Received
  <2> QED BY <1>1, <1>2, <1>6, <2>1 DEF Received, BufHolds, In, Step, Volt, Timing
<1>11. Patched'
  BY <1>1, <1>2 DEF Transfers, Patched, Volt, Timing, Alone
<1>12. Sent'
  BY <1>1, <1>2, <1>4, <1>6, <1>8 DEF Sent, RamIsBuf, Volt, Timing
<1> QED BY <1>9, <1>10, <1>11, <1>12 DEF Transfers

LEMMA TransfersKept ==
    ASSUME Shape, Measuring, Transfers, [Next]_vars
    PROVE  Transfers'
<1>1. CASE MainOp \/ Spin
  BY <1>1, RestKeepsTransfers, PagesKeepTransfers
<1>2. CASE Boot \/ Calibrate \/ Calibrated \/ Crash
  <2>1. at' = 1 /\ Type' = Type /\ X' = X /\ TimedAt' = TimedAt /\ TimeBurnt' = TimeBurnt
        /\ WidthsBurnt' = WidthsBurnt
    BY <1>2, BoardKept, Constant DEF Boot, Calibrate, Calibrated, Crash, Next, Main
  <2> QED BY <2>1, Numbers DEF Transfers, Fetched, Received, Patched, Sent, In, Step, Volt, Timing,
             TimedAt, TimeBurnt, WidthsBurnt
<1>3. CASE PreviewTransfer
  BY <1>3, PreviewKeepsTransfers
<1>4. CASE (Preview /\ ~PreviewTransfer) \/ ReadoutEnds \/ HardwareTrigger \/ UNCHANGED vars
  <2>1. /\ mpc' = mpc /\ at' = at /\ gen' = gen /\ torn' = torn
        /\ eeprom' = eeprom /\ ram' = ram /\ buf' = buf /\ board' = board
        /\ \/ mem' = mem /\ reg' = reg /\ before' = before
           \/ Configure
    BY <1>4 DEF Preview, Worker, Configure, PreviewStart, PreviewForce, PreviewWait, PreviewOther,
       ReadoutEnds, HardwareTrigger, vars, mainVars, histVars
  <2>2. /\ Type' = Type /\ X' = X /\ Y' = Y /\ TimedAt' = TimedAt /\ TimeBurnt' = TimeBurnt
        /\ WidthsBurnt' = WidthsBurnt /\ TimingPage(Type)' = TimingPage(Type)
    BY <2>1, Constant DEF TimingPage
  <2>3. Configure /\ mpc \in Kind => before'.alone = FALSE
    BY DEF Configure, Shape, Types, Found
  <2>4. Fetched' /\ Received' /\ Sent'
    BY <2>1, <2>2 DEF Transfers, Fetched, Received, Sent, RamHolds, BufHolds, RamIsBuf, In, Step,
       Volt, Timing
  <2>5. Patched'
    BY <2>1, <2>2, <2>3 DEF Transfers, Patched, Volt, Timing, Alone, Kind
  <2> QED BY <2>4, <2>5 DEF Transfers
<1> QED BY <1>1, <1>2, <1>3, <1>4 DEF Next, Main

-----------------------------------------------------------------------------
(* The EEPROM.                                                              *)
LEMMA WordsOf ==
    \A type : /\ Words(type, 0) = (IF type = 9 THEN Header ELSE Header \cup {"dt"})
              /\ Words(type, 1) = {"v1"}
              /\ Words(type, 2) = (IF type = 9 THEN {"v2", "dt"} ELSE {"v2"})
BY DEF Words, TimingPage

(* What a write leaves in the EEPROM when no page was lost: its own words,  *)
(* and all the others as they were.                                         *)
LEMMA BurnEffects ==
    ASSUME Shape, Transfers, Burn, ~torn
    PROVE  \/ /\ Volt(Swept + 4, Swept + 4) /\ eeprom'[1]["v1"] = gen
              /\ eeprom'[0] = eeprom[0] /\ eeprom'[2] = eeprom[2]
           \/ /\ Volt(Swept + 8 + X, Swept + 8 + X) /\ eeprom'[2]["v2"] = gen
              /\ Type = 9 => eeprom'[2]["dt"] = eeprom[2]["dt"]
              /\ eeprom'[0] = eeprom[0] /\ eeprom'[1] = eeprom[1]
           \/ /\ Volt(Swept + 14 + X, Swept + 14 + X) /\ eeprom'[0]["vmeth"] = gen
              /\ eeprom'[0]["serial"] = eeprom[0]["serial"]
              /\ eeprom'[0]["tmeth"] = eeprom[0]["tmeth"] /\ eeprom'[0]["tfreq"] = eeprom[0]["tfreq"]
              /\ Type # 9 => eeprom'[0]["dt"] = eeprom[0]["dt"]
              /\ Alone => eeprom'[0]["range"] = reg.range
              /\ eeprom'[1] = eeprom[1] /\ eeprom'[2] = eeprom[2]
           \/ /\ Type = 9 /\ Timing(Cycled + 6, Cycled + 6) /\ eeprom'[2]["dt"] = gen
              /\ eeprom'[2]["v2"] = eeprom[2]["v2"]
              /\ eeprom'[0] = eeprom[0] /\ eeprom'[1] = eeprom[1]
           \/ /\ Timing(TimeBurnt, TimeBurnt) /\ eeprom'[0]["tmeth"] = gen
              /\ Type # 9 => eeprom'[0]["dt"] = gen
              /\ eeprom'[0]["tfreq"] \in 1 .. 60 /\ (Alone => eeprom'[0]["tfreq"] = mem.nominal)
              /\ eeprom'[0]["serial"] = eeprom[0]["serial"]
              /\ eeprom'[0]["vmeth"] = eeprom[0]["vmeth"] /\ eeprom'[0]["range"] = eeprom[0]["range"]
              /\ eeprom'[1] = eeprom[1] /\ eeprom'[2] = eeprom[2]
<1>1. More /\ Arg.do = "burn" /\ eeprom' = [eeprom EXCEPT ![Arg.page] = [w \in DOMAIN @ |-> ram[w]]]
  BY DEF Burn, Op
<1>2. \A p \in 0 .. 2 : DOMAIN eeprom[p] = Words(Type, p)
  BY DEF Shape, Types, IsPage
<1>3. ASSUME NEW p \in 0 .. 2, Arg.page = p
      PROVE  /\ \A w \in Words(Type, p) : eeprom'[p][w] = ram[w]
             /\ \A q \in 0 .. 2 : q # p => eeprom'[q] = eeprom[q]
  BY <1>1, <1>2, <1>3 DEF Shape, Types
<1>4. ASSUME NEW p \in 0 .. 2, RamIsBuf(p)
      PROVE  \A w \in Words(Type, p) : ram[w] = buf[w]
  BY <1>4 DEF RamIsBuf, Copied
<1>5. ASSUME NEW p \in 0 .. 2, NEW patched, BufHolds(p, patched)
      PROVE  \A w \in Words(Type, p) : w \notin patched => buf[w] = eeprom[p][w]
  BY <1>5 DEF BufHolds, Copied
<1>6. CASE Volt(Swept + 4, Swept + 4) /\ Arg.page = 1
  <2>1. RamIsBuf(1) /\ buf["v1"] = gen
    BY <1>6, Inside, Numbers DEF Transfers, Sent, Patched, Volt
  <2> QED BY <1>3, <1>4, <1>6, <2>1, WordsOf
<1>7. CASE Volt(Swept + 8 + X, Swept + 8 + X) /\ Arg.page = 2
  <2>1. RamIsBuf(2) /\ buf["v2"] = gen
    BY <1>7, Inside, Numbers DEF Transfers, Sent, Patched, Volt
  <2>2. eeprom'[2]["v2"] = gen /\ eeprom'[0] = eeprom[0] /\ eeprom'[1] = eeprom[1]
    BY <1>3, <1>4, <1>7, <2>1, WordsOf
  <2>3. ASSUME Type = 9
        PROVE  eeprom'[2]["dt"] = eeprom[2]["dt"]
    <3>1. BufHolds(2, {"v2"})
      BY <1>7, <2>3, Inside, Numbers DEF Transfers, Received, Volt
    <3> QED BY <1>3, <1>4, <1>5, <1>7, <2>1, <2>3, <3>1, WordsOf
  <2> QED BY <1>7, <2>2, <2>3
<1>8. CASE Volt(Swept + 14 + X, Swept + 14 + X) /\ Arg.page = 0
  <2>1. /\ RamIsBuf(0) /\ buf["vmeth"] = gen /\ (Alone => buf["range"] = reg.range)
        /\ BufHolds(0, {"vmeth", "range"})
    BY <1>8, Inside, Numbers DEF Transfers, Received, Sent, Patched, Volt
  <2>2. /\ \A w \in Words(Type, 0) : eeprom'[0][w] = buf[w]
        /\ \A w \in Words(Type, 0) : w \notin {"vmeth", "range"} => eeprom'[0][w] = eeprom[0][w]
        /\ eeprom'[1] = eeprom[1] /\ eeprom'[2] = eeprom[2]
    BY <1>3, <1>4, <1>5, <1>8, <2>1
  <2> QED BY <1>8, <2>1, <2>2, WordsOf DEF Header
<1>9. CASE Type = 9 /\ Timing(Cycled + 6, Cycled + 6) /\ Arg.page = 2
  <2>1. /\ RamIsBuf(2) /\ buf["dt"] = gen /\ BufHolds(2, {"dt"})
    BY <1>9, Inside, Numbers
       DEF Transfers, Received, Sent, Patched, Timing, WidthsBurnt, TimingPage
  <2> QED BY <1>3, <1>4, <1>5, <1>9, <2>1, WordsOf
<1>10. CASE Timing(TimeBurnt, TimeBurnt) /\ Arg.page = 0
  <2>1. /\ RamIsBuf(0) /\ buf["tmeth"] = gen /\ buf["tfreq"] \in 1 .. 60
        /\ Alone => buf["tfreq"] = mem.nominal
        /\ Type = 9 => BufHolds(0, {"tmeth", "tfreq"})
        /\ Type # 9 => BufHolds(0, {"dt", "tmeth", "tfreq"}) /\ buf["dt"] = gen
    BY <1>10, Inside, Numbers
       DEF Transfers, Received, Sent, Patched, Timing, TimeBurnt, TimedAt, WidthsBurnt
  <2>2. /\ \A w \in Words(Type, 0) : eeprom'[0][w] = buf[w]
        /\ \A w \in Words(Type, 0) :
              w \notin {"dt", "tmeth", "tfreq"} => eeprom'[0][w] = eeprom[0][w]
        /\ eeprom'[1] = eeprom[1] /\ eeprom'[2] = eeprom[2]
    BY <1>3, <1>4, <1>5, <1>10, <2>1
  <2> QED BY <1>10, <2>1, <2>2, WordsOf DEF Header
<1> QED BY <1>1, <1>6, <1>7, <1>8, <1>9, <1>10, AtBurn DEF TimeBurnt

LEMMA BurnKeepsStored ==
    ASSUME Shape, Transfers, Stored, Burnt, Burn
    PROVE  Stored' /\ Burnt'
<1>1. /\ OpKeeps /\ torn' = torn /\ before' = before /\ Type' = Type /\ X' = X /\ Y' = Y
      /\ at \in Nat \ {0} /\ mpc \in {"init", "volt", "timing"} /\ More /\ board' = board
      /\ mem' = mem /\ reg' = reg
  BY OpMoves, Onward DEF MainOp, Burn, OpKeeps
<1>2. at' = at + 1 /\ Arg.do = "burn"
  BY DEF Burn, Op
<1>3. /\ TimeBurnt' = TimeBurnt /\ TimeBurnt = (IF Type = 9 THEN Cycled + 13 ELSE Cycled + 7)
      /\ WidthsBurnt' = WidthsBurnt /\ WidthsBurnt = (IF Type = 9 THEN Cycled + 6 ELSE Cycled + 7)
  BY <1>1, Constant DEF TimeBurnt, WidthsBurnt
<1>4. CASE torn
  BY <1>1, <1>4 DEF Stored, Burnt
<1>5. CASE ~torn
  <2>1. gen \in Int /\ gen >= 1 /\ (mpc \in Kind => gen >= 2) /\ last["volt"] \in Int
        /\ last["timing"] \in Int
    BY CalibrationAssumption DEF Shape, Types, Places, Generation, Kind
  <2>2. /\ eeprom[0]["vmeth"] \in 0 .. gen /\ eeprom[0]["tmeth"] \in 0 .. gen
        /\ eeprom[0]["serial"] \in 0 .. gen /\ eeprom[1]["v1"] \in 0 .. gen
        /\ eeprom[2]["v2"] \in 0 .. gen
        /\ IF Type = 9 THEN eeprom[2]["dt"] \in 0 .. gen ELSE eeprom[0]["dt"] \in 0 .. gen
    BY <1>5, WordsOf DEF Stored, Header, Count
  <2>3. /\ eeprom[0]["serial"] = 1
        /\ eeprom[1]["v1"] >= eeprom[0]["vmeth"] /\ eeprom[2]["v2"] >= eeprom[0]["vmeth"]
        /\ StoredTime >= eeprom[0]["tmeth"]
        /\ eeprom[0]["tmeth"] > 0 => eeprom[0]["tfreq"] > 0
        /\ last["volt"] <= eeprom[0]["vmeth"] /\ last["timing"] <= eeprom[0]["tmeth"]
        /\ ~board.blank => eeprom[0]["vmeth"] > 0
        /\ mpc = "volt" => StoredTime < gen
    BY <1>5 DEF Stored, StoredVolt
  <2>4. /\ StoredTime = IF Type = 9 THEN eeprom[2]["dt"] ELSE eeprom[0]["dt"]
        /\ StoredTime' = IF Type = 9 THEN eeprom'[2]["dt"] ELSE eeprom'[0]["dt"]
    BY <1>1 DEF StoredTime, TimingPage, Type
  <2>5. /\ mpc = "volt" /\ at > Swept + 4 => eeprom[1]["v1"] = gen
        /\ mpc = "volt" /\ at > Swept + 8 + X => eeprom[2]["v2"] = gen
        /\ mpc = "timing" /\ at > WidthsBurnt => StoredTime = gen
        /\ mpc = "timing" /\ at > TimeBurnt =>
              eeprom[0]["tmeth"] = gen /\ (Alone => eeprom[0]["tfreq"] = mem.nominal)
    BY <1>5 DEF Burnt
  <2>6. \/ /\ Volt(Swept + 4, Swept + 4) /\ eeprom'[1]["v1"] = gen
           /\ eeprom'[0] = eeprom[0] /\ eeprom'[2] = eeprom[2]
        \/ /\ Volt(Swept + 8 + X, Swept + 8 + X) /\ eeprom'[2]["v2"] = gen
           /\ Type = 9 => eeprom'[2]["dt"] = eeprom[2]["dt"]
           /\ eeprom'[0] = eeprom[0] /\ eeprom'[1] = eeprom[1]
        \/ /\ Volt(Swept + 14 + X, Swept + 14 + X) /\ eeprom'[0]["vmeth"] = gen
           /\ eeprom'[0]["serial"] = eeprom[0]["serial"]
           /\ eeprom'[0]["tmeth"] = eeprom[0]["tmeth"] /\ eeprom'[0]["tfreq"] = eeprom[0]["tfreq"]
           /\ Type # 9 => eeprom'[0]["dt"] = eeprom[0]["dt"]
           /\ Alone => eeprom'[0]["range"] = reg.range
           /\ eeprom'[1] = eeprom[1] /\ eeprom'[2] = eeprom[2]
        \/ /\ Type = 9 /\ Timing(Cycled + 6, Cycled + 6) /\ eeprom'[2]["dt"] = gen
           /\ eeprom'[2]["v2"] = eeprom[2]["v2"]
           /\ eeprom'[0] = eeprom[0] /\ eeprom'[1] = eeprom[1]
        \/ /\ Timing(TimeBurnt, TimeBurnt) /\ eeprom'[0]["tmeth"] = gen
           /\ Type # 9 => eeprom'[0]["dt"] = gen
           /\ eeprom'[0]["tfreq"] \in 1 .. 60 /\ (Alone => eeprom'[0]["tfreq"] = mem.nominal)
           /\ eeprom'[0]["serial"] = eeprom[0]["serial"]
           /\ eeprom'[0]["vmeth"] = eeprom[0]["vmeth"] /\ eeprom'[0]["range"] = eeprom[0]["range"]
           /\ eeprom'[1] = eeprom[1] /\ eeprom'[2] = eeprom[2]
    BY <1>5, BurnEffects
  <2>7. /\ eeprom'[0]["vmeth"] \in 0 .. gen /\ eeprom'[0]["tmeth"] \in 0 .. gen
        /\ eeprom'[0]["serial"] \in 0 .. gen /\ eeprom'[1]["v1"] \in 0 .. gen
        /\ eeprom'[2]["v2"] \in 0 .. gen
        /\ IF Type = 9 THEN eeprom'[2]["dt"] \in 0 .. gen ELSE eeprom'[0]["dt"] \in 0 .. gen
    BY <2>1, <2>2, <2>6 DEF Volt, Timing
  <2>8. \A p \in 0 .. 2 : \A w \in Words(Type, p) : w \in Count => eeprom'[p][w] \in 0 .. gen
    BY <2>7, WordsOf DEF Header, Count
  <2>9. Stored'
    <3>1. CASE mpc = "volt"
      <4>1. /\ eeprom'[0]["serial"] = 1
            /\ eeprom'[1]["v1"] >= eeprom'[0]["vmeth"] /\ eeprom'[2]["v2"] >= eeprom'[0]["vmeth"]
            /\ StoredTime' >= eeprom'[0]["tmeth"]
            /\ eeprom'[0]["tmeth"] > 0 => eeprom'[0]["tfreq"] > 0
            /\ last["volt"] <= eeprom'[0]["vmeth"] /\ last["timing"] <= eeprom'[0]["tmeth"]
            /\ ~board.blank => eeprom'[0]["vmeth"] > 0
            /\ StoredTime' < gen
        BY <1>1, <2>1, <2>2, <2>3, <2>4, <2>5, <2>6, <3>1, Numbers DEF Volt, Timing, Kind
      <4> QED BY <1>1, <2>8, <3>1, <4>1 DEF Stored, StoredVolt, OpKeeps
    <3>2. CASE mpc = "timing"
      <4>1. /\ eeprom'[0]["serial"] = 1
            /\ eeprom'[1]["v1"] >= eeprom'[0]["vmeth"] /\ eeprom'[2]["v2"] >= eeprom'[0]["vmeth"]
            /\ StoredTime' >= eeprom'[0]["tmeth"]
            /\ eeprom'[0]["tmeth"] > 0 => eeprom'[0]["tfreq"] > 0
            /\ last["volt"] <= eeprom'[0]["vmeth"] /\ last["timing"] <= eeprom'[0]["tmeth"]
            /\ ~board.blank => eeprom'[0]["vmeth"] > 0
        BY <1>1, <1>3, <2>1, <2>2, <2>3, <2>4, <2>5, <2>6, <3>2, Numbers DEF Volt, Timing, Kind
      <4> QED BY <1>1, <2>8, <3>2, <4>1 DEF Stored, StoredVolt, OpKeeps
    <3> QED BY <2>6, <3>1, <3>2 DEF Volt, Timing
  <2>10. Burnt'
    <3>1. CASE mpc = "volt"
      <4>1. /\ at + 1 > Swept + 4 => eeprom'[1]["v1"] = gen
            /\ at + 1 > Swept + 8 + X => eeprom'[2]["v2"] = gen
            /\ at + 1 > Swept + 14 + X =>
                  eeprom'[0]["vmeth"] = gen /\ (Alone => eeprom'[0]["range"] = reg.range)
        BY <1>1, <2>5, <2>6, <3>1, Numbers DEF Volt, Timing
      <4> QED BY <1>1, <1>2, <3>1, <4>1 DEF Burnt, StoredVolt, OpKeeps, Alone
    <3>2. CASE mpc = "timing"
      <4>1. /\ at + 1 > WidthsBurnt => StoredTime' = gen
            /\ at + 1 > TimeBurnt =>
                  eeprom'[0]["tmeth"] = gen /\ (Alone => eeprom'[0]["tfreq"] = mem.nominal)
        BY <1>1, <1>3, <2>4, <2>5, <2>6, <3>2, Numbers DEF Volt, Timing
      <4> QED BY <1>1, <1>2, <1>3, <3>2, <4>1 DEF Burnt, OpKeeps, Alone
    <3> QED BY <2>6, <3>1, <3>2 DEF Volt, Timing
  <2> QED BY <2>9, <2>10
<1> QED BY <1>4, <1>5

LEMMA RestKeepsStored ==
    ASSUME Shape, Stored, Burnt, MainOp \/ Spin, ~Burn
    PROVE  Stored' /\ Burnt'
<1>1. /\ OpKeeps /\ torn' = torn /\ before' = before /\ Type' = Type /\ X' = X /\ Y' = Y
      /\ at \in Nat \ {0} /\ mpc \in {"init", "volt", "timing"} /\ More /\ board' = board
  BY OpMoves, Onward DEF OpKeeps
<1>2. /\ TimeBurnt' = TimeBurnt /\ TimeBurnt = (IF Type = 9 THEN Cycled + 13 ELSE Cycled + 7)
      /\ WidthsBurnt' = WidthsBurnt /\ WidthsBurnt = (IF Type = 9 THEN Cycled + 6 ELSE Cycled + 7)
  BY <1>1, Constant DEF TimeBurnt, WidthsBurnt
<1>3. eeprom' = eeprom /\ Arg.do # "burn"
  BY OnlyBurnWrites
<1>4. \/ at' = at + 1
      \/ In(6, 6) /\ at' = at + 10
      \/ Timing(32, Cycled - 1) /\ at' = Cycled
  BY Onward
<1>5. StoredTime' = StoredTime
  BY <1>1, <1>3 DEF StoredTime
<1>6. Stored'
  BY <1>1, <1>3, <1>5 DEF Stored, StoredVolt, OpKeeps
<1>7. /\ mem'.nominal = mem.nominal \/ In(2, 16) \/ (mpc \in Kind /\ at = 23)
      /\ \/ reg'.range = reg.range \/ In(2, 16)
         \/ Volt(28, 28) \/ Timing(Cycled + 11 + Y, Cycled + 11 + Y)
  BY SettingsKept
<1>8. CASE mpc = "init"
  BY <1>1, <1>6, <1>8 DEF Burnt, OpKeeps
<1>9. CASE mpc = "volt"
  <2>1. at \notin {Swept + 4, Swept + 8 + X, Swept + 14 + X}
    BY <1>1, <1>3, <1>9, VoltLandmarks
  <2> QED BY <1>1, <1>3, <1>4, <1>6, <1>7, <1>9, <2>1, Numbers
          DEF Burnt, StoredVolt, OpKeeps, Alone, In, Step, Volt, Timing
<1>10. CASE mpc = "timing"
  <2>1. at \notin {WidthsBurnt, TimeBurnt}
    BY <1>1, <1>3, <1>10, TimingLandmarks
  <2> QED BY <1>1, <1>2, <1>3, <1>4, <1>5, <1>6, <1>7, <1>10, <2>1, Numbers
          DEF Burnt, OpKeeps, Alone, In, Step, Volt, Timing
<1> QED BY <1>1, <1>6, <1>8, <1>9, <1>10

LEMMA StoredKept ==
    ASSUME Shape, Measuring, Transfers, Stored, Burnt, [Next]_vars
    PROVE  Stored' /\ Burnt'
<1>1. CASE MainOp \/ Spin
  BY <1>1, BurnKeepsStored, RestKeepsStored
<1>2. CASE Boot \/ Crash
  <2>1. /\ mpc' \notin Kind /\ eeprom' = eeprom /\ board' = board /\ gen' = gen /\ last' = last
        /\ torn' = torn
    BY <1>2 DEF Boot, Crash, Kind, histVars
  <2>2. Type' = Type /\ StoredTime' = StoredTime
    BY <2>1, Constant DEF StoredTime
  <2> QED BY <2>1, <2>2 DEF Stored, Burnt, StoredVolt, Kind
<1>3. CASE Calibrate
  <2>1. /\ mpc' \in Kind /\ eeprom' = eeprom /\ board' = board /\ gen' = gen + 1 /\ last' = last
        /\ torn' = torn /\ at' = 1 /\ gen \in Int
    BY <1>3, CalibrationAssumption DEF Calibrate, Kind, Shape, Types, Generation
  <2>2. Type' = Type /\ StoredTime' = StoredTime /\ X' = X /\ WidthsBurnt' = WidthsBurnt
        /\ TimeBurnt' = TimeBurnt
    BY <2>1, Constant DEF StoredTime
  <2>3. ~torn => StoredTime \in 0 .. gen
    BY WordsOf DEF Stored, StoredTime, TimingPage, Type, Header, Count
  <2>4. Stored'
    BY <2>1, <2>2, <2>3 DEF Stored, StoredVolt
  <2>5. Burnt'
    BY <2>1, <2>2, Numbers DEF Burnt, WidthsBurnt, TimeBurnt
  <2> QED BY <2>4, <2>5
<1>4. CASE Calibrated
  <2>1. /\ mpc' \notin Kind /\ eeprom' = eeprom /\ board' = board /\ gen' = gen
        /\ last' = [last EXCEPT ![mpc] = gen] /\ torn' = torn /\ mpc \in Kind
    BY <1>4 DEF Calibrated, Kind
  <2>2. Type' = Type /\ StoredTime' = StoredTime
    BY <2>1, Constant DEF StoredTime
  <2>3. ~torn => /\ mpc = "volt" => StoredVolt = gen
                 /\ mpc = "timing" => eeprom[0]["tmeth"] = gen
    BY <1>4, Ended, Numbers DEF Burnt, TimeBurnt
  <2>4. ~torn => /\ last'["volt"] <= StoredVolt
                 /\ last'["timing"] <= eeprom[0]["tmeth"]
    <3>1. last \in [Kind -> Generation] /\ gen \in Int
      BY CalibrationAssumption DEF Shape, Types, Generation
    <3> QED BY <2>1, <2>3, <3>1 DEF Stored, Kind
  <2>5. Stored'
    BY <2>1, <2>2, <2>4 DEF Stored, StoredVolt, Kind
  <2> QED BY <2>1, <2>5 DEF Burnt, Kind
<1>5. CASE Preview \/ ReadoutEnds \/ HardwareTrigger \/ UNCHANGED vars
  <2>1. /\ mpc' = mpc /\ at' = at /\ gen' = gen /\ (torn => torn') /\ last' = last
        /\ eeprom' = eeprom /\ board' = board
        /\ \/ mem' = mem /\ reg' = reg /\ before' = before
           \/ Configure
    <3>1. CASE PreviewTransfer
      BY <3>1 DEF Worker, PreviewTransfer, mainVars
    <3>2. CASE ~PreviewTransfer
      BY <1>5, <3>2 DEF Preview, Worker, Configure, PreviewStart, PreviewForce, PreviewWait,
         PreviewOther, ReadoutEnds, HardwareTrigger, vars, mainVars, histVars
    <3> QED BY <3>1, <3>2
  <2>2. /\ Type' = Type /\ X' = X /\ TimeBurnt' = TimeBurnt /\ WidthsBurnt' = WidthsBurnt
        /\ StoredTime' = StoredTime
    BY <2>1, Constant DEF StoredTime
  <2>3. Configure /\ mpc \in Kind => before'.alone = FALSE
    BY DEF Configure, Shape, Types, Found
  <2> QED BY <2>1, <2>2, <2>3 DEF Stored, Burnt, StoredVolt, Alone, Kind
<1> QED BY <1>1, <1>2, <1>3, <1>4, <1>5 DEF Next, Main

LEMMA InitStored ==
    ASSUME Init
    PROVE  Measuring /\ Transfers /\ Stored /\ Burnt
<1>1. mpc = "init" /\ at = 1 /\ gen = 1
  BY DEF Init
<1>2. Measuring /\ Transfers /\ Burnt
  BY <1>1 DEF Measuring, Transfers, Fetched, Received, Patched, Sent, Burnt, In, Step, Volt, Timing
<1>3. \A p \in 0 .. 2 : \A w \in Words(Type, p) :
         /\ eeprom[p][w] = IF w = "serial" THEN 1
                           ELSE IF board.blank \/ w = "range" THEN 0
                           ELSE IF w = "tfreq" THEN 7 ELSE 1
  BY DEF Init, Contents, Type
<1>4. \A p \in 0 .. 2 : \A w \in Words(Type, p) : w \in Count => eeprom[p][w] \in 0 .. gen
  BY <1>1, <1>3 DEF Count
<1>5. /\ eeprom[0]["serial"] = 1 /\ eeprom[0]["vmeth"] = (IF board.blank THEN 0 ELSE 1)
      /\ eeprom[0]["tmeth"] = (IF board.blank THEN 0 ELSE 1)
      /\ eeprom[0]["tfreq"] = (IF board.blank THEN 0 ELSE 7)
      /\ eeprom[1]["v1"] = (IF board.blank THEN 0 ELSE 1)
      /\ eeprom[2]["v2"] = (IF board.blank THEN 0 ELSE 1)
  BY <1>3, WordsOf DEF Header
<1>6. StoredTime = (IF board.blank THEN 0 ELSE 1)
  BY <1>3, WordsOf DEF StoredTime, TimingPage, Type
<1>7. last["volt"] = (IF board.blank THEN 0 ELSE 1) /\ last["timing"] = (IF board.blank THEN 0 ELSE 1)
  BY DEF Init, Kind
<1>8. Stored
  BY <1>1, <1>4, <1>5, <1>6, <1>7 DEF Stored, StoredVolt
<1> QED BY <1>2, <1>8

Store0 == Shape /\ Measuring /\ Transfers /\ Stored /\ Burnt

LEMMA StoreInvariant == Spec => []Store0
<1>1. Init => Store0
  BY InitShape, InitStored DEF Store0
<1>2. Store0 /\ [Next]_vars => Store0'
  BY ShapeKept, MeasuringKept, TransfersKept, StoredKept DEF Store0
<1> QED BY <1>1, <1>2, PTL DEF Spec

(* HeaderNotAhead: at whatever point the process ends, and whatever the     *)
(* preview does meanwhile short of overwriting a page on its way, the       *)
(* EEPROM never claims a calibration whose tables it does not hold.         *)
THEOREM HeaderIsNotAhead == Spec => []HeaderNotAhead
<1>1. Store0 => HeaderNotAhead
  BY DEF Store0, Stored, HeaderNotAhead, StoredVolt
<1> QED BY <1>1, StoreInvariant, PTL

-----------------------------------------------------------------------------
(* What the object remembers.                                               *)
Remembering == Cleared /\ Loading /\ Loaded

LEMMA BurnKeepsRemembering ==
    ASSUME Shape, Transfers, Stored, Burnt, Remembering, Burn
    PROVE  Remembering'
<1>1. /\ OpKeeps /\ torn' = torn /\ before' = before /\ Type' = Type /\ X' = X /\ Y' = Y
      /\ at \in Nat \ {0} /\ mpc \in {"init", "volt", "timing"} /\ More /\ board' = board
      /\ mem' = mem
  BY OpMoves, Onward DEF MainOp, Burn, OpKeeps
<1>2. at' = at + 1 /\ Arg.do = "burn"
  BY DEF Burn, Op
<1>3. TimeBurnt = (IF Type = 9 THEN Cycled + 13 ELSE Cycled + 7)
  BY DEF TimeBurnt
<1>4. Volt(Swept + 4, Swept + 14 + X) \/ Timing(Cycled + 6, Cycled + 13)
  BY <1>1, <1>2, AtBurn, Numbers DEF Volt, Timing
<1>5. Cleared'
  BY <1>1, <1>2, <1>4, Numbers DEF Cleared, In, Step, Volt, Timing, OpKeeps
<1>6. Loading'
  BY <1>1, <1>2, <1>4, Numbers DEF Loading, In, Step, Volt, Timing, OpKeeps
<1>7. Loaded'
  <2>1. CASE torn
    BY <1>1, <2>1 DEF Loaded
  <2>2. CASE ~torn
    <3>1. AfterInit
      BY <1>1, <1>4, Numbers DEF AfterInit, Step, Volt, Timing
    <3>2. /\ (mpc # "volt" \/ at <= 33 + 8 * Events) => Held(mem.v1, eeprom[1]["v1"])
          /\ (mpc # "volt" \/ at <= Swept) => Held(mem.v2, eeprom[2]["v2"])
          /\ (StoredVolt > 0 /\ ~Volt(Swept + 15 + X, Swept + 15 + X)) =>
                mem.valid /\ (Alone => mem.range = eeprom[0]["range"])
          /\ (StoredVolt > 0 /\ ~TimingForgotten /\ NotTiming) =>
                mem.dt = StoredTime /\ mem.rest = StoredTime
          /\ (StoredVolt > 0 /\ ~TimingForgotten /\ Untimed0 /\ eeprom[0]["tmeth"] > 0) =>
                mem.tfreq > 0 /\ (Alone => mem.tfreq = eeprom[0]["tfreq"])
      BY <2>2, <3>1 DEF Remembering, Loaded
    <3>3. /\ StoredTime = IF Type = 9 THEN eeprom[2]["dt"] ELSE eeprom[0]["dt"]
          /\ StoredTime' = IF Type = 9 THEN eeprom'[2]["dt"] ELSE eeprom'[0]["dt"]
      BY <1>1 DEF StoredTime, TimingPage, Type
    <3>4. CASE mpc = "volt"
      <4>1. CASE at # Swept + 14 + X
        <5>1. /\ eeprom'[0] = eeprom[0] /\ StoredTime' = StoredTime
              /\ at > Swept /\ at' # Swept + 15 + X
          BY <1>1, <1>2, <1>4, <2>2, <3>3, <3>4, <4>1, BurnEffects, Numbers DEF Volt, Timing
        <5>2. StoredVolt' = StoredVolt /\ TimingForgotten' = TimingForgotten
          BY <1>1, <5>1 DEF StoredVolt, TimingForgotten
        <5>3. ~Volt(Swept + 15 + X, Swept + 15 + X)
          BY <1>1, <1>4, <3>4, Inside, Numbers, VoltLandmarks, <1>2 DEF Volt, Timing
        <5> QED BY <1>1, <1>2, <3>2, <3>4, <5>1, <5>2, <5>3, Numbers
                DEF Loaded, Alone, NotTiming, Untimed0, Held, OpKeeps, Volt
      <4>2. CASE at = Swept + 14 + X
        <5>1. eeprom'[0]["vmeth"] = gen /\ StoredTime' = StoredTime /\ StoredTime < gen
              /\ eeprom'[0]["tmeth"] = eeprom[0]["tmeth"] /\ eeprom'[0]["tfreq"] = eeprom[0]["tfreq"]
          BY <1>1, <2>2, <3>3, <3>4, <4>2, BurnEffects, Numbers DEF Volt, Timing, Stored
        <5>2. ~TimingForgotten' => ~board.blank
          BY <1>1, <5>1 DEF TimingForgotten
        <5>3. ~board.blank => StoredVolt > 0 /\ ~TimingForgotten
          BY <2>2 DEF Stored, TimingForgotten
        <5>4. ~TimingForgotten' =>
                 /\ mem.dt = StoredTime /\ mem.rest = StoredTime
                 /\ eeprom[0]["tmeth"] > 0 =>
                       mem.tfreq > 0 /\ (Alone => mem.tfreq = eeprom[0]["tfreq"])
          BY <3>2, <3>4, <5>2, <5>3 DEF NotTiming, Untimed0
        <5>5. Volt(Swept + 15 + X, Swept + 15 + X)'
          BY <1>1, <1>2, <3>4, <4>2, Numbers DEF Volt, OpKeeps
        <5> QED BY <1>1, <1>2, <3>4, <4>2, <5>1, <5>4, <5>5, Numbers
                DEF Loaded, Alone, OpKeeps
      <4> QED BY <4>1, <4>2
    <3>5. CASE mpc = "timing"
      <4>1. /\ eeprom'[0]["vmeth"] = eeprom[0]["vmeth"] /\ eeprom'[0]["range"] = eeprom[0]["range"]
            /\ eeprom'[1] = eeprom[1] /\ eeprom'[2]["v2"] = eeprom[2]["v2"]
        BY <2>2, <3>5, BurnEffects DEF Volt
      <4>2. at > 31 /\ mpc' = "timing"
        BY <1>1, <1>4, <3>5, Numbers DEF Volt, Timing, OpKeeps
      <4> QED BY <1>1, <1>2, <3>2, <3>5, <4>1, <4>2
              DEF Loaded, Alone, NotTiming, Untimed0, Held, StoredVolt, Volt
    <3> QED BY <1>4, <3>4, <3>5 DEF Volt, Timing
  <2> QED BY <2>1, <2>2
<1> QED BY <1>5, <1>6, <1>7 DEF Remembering

LEMMA RestKeepsRemembering ==
    ASSUME Shape, Remembering, MainOp \/ Spin, eeprom' = eeprom, Arg.do \notin MemOp
    PROVE  Remembering'
<1>1. /\ OpKeeps /\ torn' = torn /\ before' = before /\ Type' = Type /\ X' = X /\ Y' = Y
      /\ at \in Nat \ {0} /\ mpc \in {"init", "volt", "timing"} /\ More /\ board' = board
  BY OpMoves, Onward DEF OpKeeps
<1>2. mem' = mem
  BY MemKept
<1>3. at' = at + 1 \/ (Timing(32, Cycled - 1) /\ at' = Cycled)
  BY Onward DEF MemOp
<1>4. /\ ~In(3, 3) /\ ~In(6, 6) /\ ~In(9, 9) /\ ~In(12, 12) /\ ~In(15, 15)
      /\ ~Volt(Swept + 15 + X, Swept + 15 + X)
  BY <1>1, Numbers, InitLandmarks, VoltLandmarks DEF MemOp, Volt
<1>5. /\ StoredVolt' = StoredVolt /\ StoredTime' = StoredTime /\ TimingForgotten' = TimingForgotten
  BY <1>1 DEF StoredVolt, StoredTime, TimingForgotten
<1>6. Cleared'
  BY <1>1, <1>2, <1>3, <1>4, Numbers DEF Remembering, Cleared, In, Step, Timing, OpKeeps
<1>7. Loading'
  BY <1>1, <1>2, <1>3, <1>4, <1>5, Numbers DEF Remembering, Loading, In, Step, Timing, OpKeeps
<1>8. Loaded'
  <2>1. CASE torn
    BY <1>1, <2>1 DEF Loaded
  <2>2. CASE ~torn /\ AfterInit'
    <3>1. AfterInit
      BY <1>1, <1>3, <1>4, <2>2, Numbers DEF AfterInit, In, Step, Timing, OpKeeps
    <3>2. /\ NotTiming' => NotTiming
          /\ Untimed0' => Untimed0
          /\ (mpc' # "volt" \/ at' <= 33 + 8 * Events) => (mpc # "volt" \/ at <= 33 + 8 * Events)
          /\ (mpc' # "volt" \/ at' <= Swept) => (mpc # "volt" \/ at <= Swept)
      BY <1>1, <1>3, Numbers DEF NotTiming, Untimed0, Timing, OpKeeps
    <3> QED BY <1>1, <1>2, <1>4, <1>5, <2>2, <3>1, <3>2 DEF Remembering, Loaded, Alone, Held
  <2> QED BY <1>1, <2>1, <2>2 DEF Loaded
<1> QED BY <1>6, <1>7, <1>8 DEF Remembering

(* Init() reads the EEPROM: what it loads is what is stored.                *)
LEMMA LoadingRemembers ==
    ASSUME Shape, Transfers, Stored, Remembering, MainOp \/ Spin, eeprom' = eeprom,
           Arg.do \in {"forget", "judge", "load", "defaults", "adopt"}
    PROVE  Remembering'
<1>1. /\ OpKeeps /\ torn' = torn /\ before' = before /\ Type' = Type /\ X' = X /\ Y' = Y
      /\ at \in Nat \ {0} /\ mpc \in {"init", "volt", "timing"} /\ More /\ board' = board
  BY OpMoves, Onward DEF OpKeeps
<1>2. mem \in Memory
  BY DEF Shape, Types
<1>3. /\ StoredVolt' = StoredVolt /\ StoredTime' = StoredTime /\ TimingForgotten' = TimingForgotten
  BY <1>1 DEF StoredVolt, StoredTime, TimingForgotten
<1>4. StoredTime = eeprom[TimingPage(Type)]["dt"]
  BY DEF StoredTime, Type
<1>5. ~torn => /\ StoredVolt \in 0 .. gen /\ eeprom[0]["tmeth"] \in 0 .. gen
               /\ eeprom[0]["tmeth"] > 0 => eeprom[0]["tfreq"] > 0
  BY WordsOf DEF Stored, StoredVolt, Header, Count
<1>6. gen \in Int
  BY CalibrationAssumption DEF Shape, Types, Generation
<1>7. CASE In(2, 2) /\ at' = at + 1
  BY <1>1, <1>7, Numbers
     DEF Remembering, Cleared, Loading, Loaded, AfterInit, In, Step, OpKeeps
<1>8. CASE /\ In(3, 3) /\ at' = at + 1
           /\ mem' = [mem EXCEPT !.v1 = 0, !.v2 = 0, !.dt = 0, !.rest = 0, !.valid = FALSE, !.tfreq = 0]
  BY <1>1, <1>2, <1>8, Numbers
     DEF Remembering, Cleared, Loading, Loaded, AfterInit, In, Step, OpKeeps, Memory
<1>9. CASE /\ In(6, 6) /\ at' = at + 1 /\ buf["vmeth"] > 0
           /\ mem' = [mem EXCEPT !.valid = TRUE, !.range = buf["range"],
                                 !.tfreq = IF buf["tmeth"] > 0 THEN buf["tfreq"] ELSE -1]
  <2>1. Cleared' /\ Loaded'
    BY <1>1, <1>9 DEF Cleared, Loaded, AfterInit, In, Step, OpKeeps
  <2>2. ~torn => /\ buf["vmeth"] = eeprom[0]["vmeth"] /\ buf["range"] = eeprom[0]["range"]
                 /\ buf["tmeth"] = eeprom[0]["tmeth"] /\ buf["tfreq"] = eeprom[0]["tfreq"]
    <3>1. BufHolds(0, {})
      BY <1>9 DEF Transfers, Received
    <3> QED BY <3>1, WordsOf DEF BufHolds, Copied, Header
  <2>3. ~torn => /\ StoredVolt > 0 /\ mem'.valid /\ mem'.range = eeprom[0]["range"]
                 /\ eeprom[0]["tmeth"] > 0 => mem'.tfreq = eeprom[0]["tfreq"]
    BY <1>2, <1>9, <2>2 DEF Memory, StoredVolt
  <2>4. Loading'
    BY <1>1, <1>3, <1>9, <2>3 DEF Loading, In, Step, OpKeeps
  <2> QED BY <2>1, <2>4 DEF Remembering
<1>10. CASE /\ In(6, 6) /\ at' = at + 10 /\ ~(buf["vmeth"] > 0) /\ mem' = [mem EXCEPT !.range = 0]
  <2>1. Cleared' /\ Loading'
    BY <1>1, <1>10 DEF Cleared, Loading, In, Step, OpKeeps
  <2>2. ~torn => StoredVolt = 0
    <3>1. BufHolds(0, {})
      BY <1>10 DEF Transfers, Received
    <3>2. ~torn => buf["vmeth"] = StoredVolt
      BY <3>1, WordsOf DEF BufHolds, Copied, Header, StoredVolt
    <3> QED BY <1>5, <1>6, <1>10, <3>2
  <2>3. mem'.v1 = 0 /\ mem'.v2 = 0
    BY <1>1, <1>2, <1>10 DEF Remembering, Cleared, Memory, In, Step
  <2>4. Loaded'
    BY <1>1, <1>3, <2>2, <2>3 DEF Loaded, Held
  <2> QED BY <2>1, <2>4 DEF Remembering
<1>11. CASE In(9, 9) /\ at' = at + 1 /\ mem' = [mem EXCEPT !.v1 = buf["v1"]]
  <2>1. Cleared' /\ Loaded'
    BY <1>1, <1>11 DEF Cleared, Loaded, AfterInit, In, Step, OpKeeps
  <2>2. ~torn => buf["v1"] = eeprom[1]["v1"]
    <3>1. BufHolds(1, {})
      BY <1>11 DEF Transfers, Received
    <3> QED BY <3>1, WordsOf DEF BufHolds, Copied
  <2>3. Loading'
    BY <1>1, <1>2, <1>3, <1>11, <2>2 DEF Remembering, Loading, In, Step, OpKeeps, Memory
  <2> QED BY <2>1, <2>3 DEF Remembering
<1>12. CASE In(12, 12) /\ at' = at + 1 /\ mem' = [mem EXCEPT !.v2 = buf["v2"]]
  <2>1. Cleared' /\ Loaded'
    BY <1>1, <1>12 DEF Cleared, Loaded, AfterInit, In, Step, OpKeeps
  <2>2. ~torn => buf["v2"] = eeprom[2]["v2"]
    <3>1. BufHolds(2, {})
      BY <1>12 DEF Transfers, Received
    <3> QED BY <3>1, WordsOf DEF BufHolds, Copied
  <2>3. Loading'
    BY <1>1, <1>2, <1>3, <1>12, <2>2 DEF Remembering, Loading, In, Step, OpKeeps, Memory
  <2> QED BY <2>1, <2>3 DEF Remembering
<1>13. CASE In(15, 15) /\ at' = at + 1 /\ mem' = [mem EXCEPT !.dt = buf["dt"], !.rest = buf["dt"]]
  <2>1. Cleared' /\ Loading'
    BY <1>1, <1>13 DEF Cleared, Loading, In, Step, OpKeeps
  <2>2. ~torn => buf["dt"] = StoredTime
    <3>1. BufHolds(TimingPage(Type), {})
      BY <1>13 DEF Transfers, Received
    <3> QED BY <1>4, <3>1, WordsOf DEF BufHolds, Copied, TimingPage
  <2>3. ~torn => /\ StoredVolt > 0 /\ mem'.valid /\ mem'.range = eeprom[0]["range"]
                 /\ eeprom[0]["tmeth"] > 0 => mem'.tfreq = eeprom[0]["tfreq"]
                 /\ mem'.v1 = eeprom[1]["v1"] /\ mem'.v2 = eeprom[2]["v2"]
                 /\ mem'.dt = StoredTime /\ mem'.rest = StoredTime
    BY <1>1, <1>2, <1>13, <2>2 DEF Remembering, Loading, In, Step, Memory
  <2>4. Loaded'
    BY <1>1, <1>3, <1>5, <2>3 DEF Loaded, Held
  <2> QED BY <2>1, <2>4 DEF Remembering
<1>14. CASE /\ In(16, 16) /\ at' = at + 1
            /\ mem' = [mem EXCEPT !.nominal = IF mem.tfreq \in 1 .. 60 THEN mem.tfreq ELSE Default]
  <2>1. Cleared' /\ Loading'
    BY <1>1, <1>14 DEF Cleared, Loading, In, Step, OpKeeps
  <2>2. /\ mem'.v1 = mem.v1 /\ mem'.v2 = mem.v2 /\ mem'.dt = mem.dt /\ mem'.rest = mem.rest
        /\ mem'.valid = mem.valid /\ mem'.range = mem.range /\ mem'.tfreq = mem.tfreq
    BY <1>2, <1>14 DEF Memory
  <2>3. AfterInit /\ NotTiming /\ Untimed0 /\ ~Volt(Swept + 15 + X, Swept + 15 + X)
        /\ (mpc # "volt" \/ at <= Swept) /\ (mpc # "volt" \/ at <= 33 + 8 * Events)
    BY <1>1, <1>14, Numbers DEF AfterInit, NotTiming, Untimed0, Volt, In, Step
  <2>4. Loaded'
    BY <1>1, <1>3, <2>2, <2>3 DEF Remembering, Loaded, Held, Alone
  <2> QED BY <2>1, <2>4 DEF Remembering
<1> QED BY <1>7, <1>8, <1>9, <1>10, <1>11, <1>12, <1>13, <1>14, MemEffects DEF MemOp

LEMMA MeasuringRemembers ==
    ASSUME Shape, Burnt, Remembering, MainOp \/ Spin, eeprom' = eeprom,
           Arg.do \in {"nominal", "untimed", "flat", "timed", "copy", "valid", "measured"}
    PROVE  Remembering'
<1>1. /\ OpKeeps /\ torn' = torn /\ before' = before /\ Type' = Type /\ X' = X /\ Y' = Y
      /\ at \in Nat \ {0} /\ mpc \in {"init", "volt", "timing"} /\ More /\ board' = board
  BY OpMoves, Onward DEF OpKeeps
<1>2. mem \in Memory
  BY DEF Shape, Types
<1>3. /\ StoredVolt' = StoredVolt /\ StoredTime' = StoredTime /\ TimingForgotten' = TimingForgotten
  BY <1>1 DEF StoredVolt, StoredTime, TimingForgotten
<1>4. TimedAt = (IF Type = 9 THEN Cycled + 10 ELSE Cycled + 4)
  BY DEF TimedAt
<1>5. ASSUME at' = at + 1, mpc \in Kind, at > 22
      PROVE  /\ Cleared' /\ Loading' /\ AfterInit
             /\ Loaded' => Remembering'
  BY <1>1, <1>5 DEF Cleared, Loading, Remembering, AfterInit, In, Step, OpKeeps, Kind
<1>6. CASE mpc \in Kind /\ at = 23 /\ at' = at + 1 /\ mem' = [mem EXCEPT !.nominal = saved.nominal]
  <2>1. /\ mem'.v1 = mem.v1 /\ mem'.v2 = mem.v2 /\ mem'.dt = mem.dt /\ mem'.rest = mem.rest
        /\ mem'.valid = mem.valid /\ mem'.range = mem.range /\ mem'.tfreq = mem.tfreq
    BY <1>2, <1>6 DEF Memory
  <2>2. AfterInit /\ NotTiming /\ Untimed0 /\ ~Volt(Swept + 15 + X, Swept + 15 + X)
        /\ (mpc # "volt" \/ at <= Swept) /\ (mpc # "volt" \/ at <= 33 + 8 * Events)
    BY <1>1, <1>6, Numbers DEF AfterInit, NotTiming, Untimed0, Volt, Step, Kind
  <2>3. Loaded'
    BY <1>1, <1>3, <2>1, <2>2 DEF Remembering, Loaded, Held, Alone
  <2> QED BY <1>5, <1>6, <2>3
<1>7. CASE Timing(24, 24) /\ at' = at + 1 /\ mem' = [mem EXCEPT !.tfreq = 0]
  <2>1. /\ mem'.v1 = mem.v1 /\ mem'.v2 = mem.v2 /\ mem'.dt = mem.dt /\ mem'.rest = mem.rest
        /\ mem'.valid = mem.valid /\ mem'.range = mem.range
    BY <1>2, <1>7 DEF Memory
  <2>2. mpc = "timing" /\ at = 24
    BY <1>1, <1>7 DEF Timing
  <2>3. Cleared' /\ Loading' /\ AfterInit
    BY <1>5, <1>7, <2>2 DEF Kind
  <2>4. Loaded'
    BY <1>1, <1>3, <1>7, <2>1, <2>2, <2>3
       DEF Remembering, Loaded, Held, Alone, NotTiming, Untimed0, Volt, OpKeeps
  <2> QED BY <2>3, <2>4 DEF Remembering
<1>8. CASE /\ mpc = "timing" /\ at > 30 /\ at' = at + 1
           /\ mem'.v1 = mem.v1 /\ mem'.v2 = mem.v2 /\ mem'.valid = mem.valid /\ mem'.range = mem.range
  <2>1. Cleared' /\ Loading' /\ AfterInit
    BY <1>1, <1>5, <1>8 DEF Kind
  <2>2. Loaded'
    BY <1>1, <1>3, <1>8, <2>1
       DEF Remembering, Loaded, Held, Alone, NotTiming, Untimed0, Volt, OpKeeps
  <2> QED BY <2>1, <2>2 DEF Remembering
<1>9. CASE /\ Volt(Swept + 15 + X, Swept + 15 + X) /\ at' = at + 1
           /\ mem' = [mem EXCEPT !.valid = TRUE, !.range = reg.range]
  <2>1. /\ mem'.v1 = mem.v1 /\ mem'.v2 = mem.v2 /\ mem'.dt = mem.dt /\ mem'.rest = mem.rest
        /\ mem'.tfreq = mem.tfreq /\ mem'.valid /\ mem'.range = reg.range
    BY <1>2, <1>9 DEF Memory
  <2>2. mpc = "volt" /\ at = Swept + 15 + X
    BY <1>1, <1>9, Numbers DEF Volt
  <2>3. Cleared' /\ Loading' /\ AfterInit
    BY <1>5, <1>9, <2>2, Numbers DEF Kind
  <2>4. ~torn => (Alone => mem'.range = eeprom[0]["range"])
    BY <1>1, <2>1, <2>2, Numbers DEF Burnt
  <2>5. Loaded'
    BY <1>1, <1>3, <1>9, <2>1, <2>2, <2>3, <2>4, Numbers
       DEF Remembering, Loaded, Held, Alone, NotTiming, Untimed0, OpKeeps
  <2> QED BY <2>3, <2>5 DEF Remembering
<1>10. CASE /\ Volt(33 + 8 * Events, 33 + 8 * Events) /\ at' = at + 1
            /\ mem' = [mem EXCEPT !.v1 = gen]
  <2>1. /\ mem'.v2 = mem.v2 /\ mem'.dt = mem.dt /\ mem'.rest = mem.rest
        /\ mem'.tfreq = mem.tfreq /\ mem'.valid = mem.valid /\ mem'.range = mem.range
    BY <1>2, <1>10 DEF Memory
  <2>2. mpc = "volt" /\ at = 33 + 8 * Events
    BY <1>1, <1>10, Numbers DEF Volt
  <2>3. Cleared' /\ Loading' /\ AfterInit
    BY <1>5, <1>10, <2>2, Numbers DEF Kind
  <2>4. Loaded'
    BY <1>1, <1>3, <1>10, <2>1, <2>2, <2>3, Numbers
       DEF Remembering, Loaded, Held, Alone, NotTiming, Untimed0, OpKeeps, Volt
  <2> QED BY <2>3, <2>4 DEF Remembering
<1>11. CASE Volt(Swept, Swept) /\ at' = at + 1 /\ mem' = [mem EXCEPT !.v2 = gen]
  <2>1. /\ mem'.dt = mem.dt /\ mem'.rest = mem.rest
        /\ mem'.tfreq = mem.tfreq /\ mem'.valid = mem.valid /\ mem'.range = mem.range
    BY <1>2, <1>11 DEF Memory
  <2>2. mpc = "volt" /\ at = Swept
    BY <1>1, <1>11, Numbers DEF Volt
  <2>3. Cleared' /\ Loading' /\ AfterInit
    BY <1>5, <1>11, <2>2, Numbers DEF Kind
  <2>4. Loaded'
    BY <1>1, <1>3, <1>11, <2>1, <2>2, <2>3, Numbers
       DEF Remembering, Loaded, Held, Alone, NotTiming, Untimed0, OpKeeps, Volt
  <2> QED BY <2>3, <2>4 DEF Remembering
<1>12. CASE \/ Timing(31, 31) /\ at' = at + 1 /\ mem' = [mem EXCEPT !.dt = Flat, !.rest = Flat]
            \/ Timing(TimedAt, TimedAt) /\ at' = at + 1 /\ mem' = [mem EXCEPT !.tfreq = mem.nominal]
            \/ Timing(Cycled + 8, Cycled + 8) /\ at' = at + 1 /\ mem' = [mem EXCEPT !.rest = mem.dt]
            \/ Timing(Cycled, Cycled) /\ at' = at + 1 /\ mem' = [mem EXCEPT !.dt = gen, !.rest = gen]
            \/ Timing(Cycled, Cycled) /\ at' = at + 1 /\ mem' = [mem EXCEPT !.dt = gen]
  <2>1. mpc = "timing" /\ at > 30 /\ at' = at + 1
    BY <1>1, <1>4, <1>12, Numbers DEF Timing
  <2>2. mem'.v1 = mem.v1 /\ mem'.v2 = mem.v2 /\ mem'.valid = mem.valid /\ mem'.range = mem.range
    BY <1>2, <1>12 DEF Memory
  <2> QED BY <1>8, <2>1, <2>2
<1> QED BY <1>6, <1>7, <1>8, <1>9, <1>10, <1>11, <1>12, MemEffects DEF MemOp

LEMMA RememberingKept ==
    ASSUME Shape, Measuring, Transfers, Stored, Burnt, Remembering, [Next]_vars
    PROVE  Remembering'
<1>1. CASE MainOp \/ Spin
  <2>1. CASE Burn
    BY <2>1, BurnKeepsRemembering
  <2>2. CASE ~Burn
    <3>1. eeprom' = eeprom
      BY <1>1, <2>2, OnlyBurnWrites
    <3> QED BY <1>1, <3>1, RestKeepsRemembering, LoadingRemembers, MeasuringRemembers DEF MemOp
  <2> QED BY <2>1, <2>2
<1>2. CASE Boot
  <2>1. /\ mpc = "init" /\ ~More /\ mpc' = "idle" /\ at' = 1 /\ eeprom' = eeprom /\ mem' = mem
        /\ torn' = torn /\ before' = before /\ board' = board
    BY <1>2 DEF Boot, histVars
  <2>2. /\ Type' = Type /\ X' = X /\ StoredVolt' = StoredVolt /\ StoredTime' = StoredTime
        /\ TimingForgotten' = TimingForgotten
    BY <2>1, Constant DEF StoredVolt, StoredTime, TimingForgotten
  <2>3. Cleared' /\ Loading'
    BY <2>1 DEF Cleared, Loading, In
  <2>4. AfterInit
    BY <2>1, Inside DEF AfterInit, Step
  <2>5. Loaded'
    BY <2>1, <2>2, <2>4 DEF Remembering, Loaded, Held, Alone, NotTiming, Untimed0, Volt
  <2> QED BY <2>3, <2>5 DEF Remembering
<1>3. CASE Calibrate \/ Crash
  <2>1. at' = 1 /\ mpc' # "idle"
    BY <1>3, CalibrationAssumption DEF Calibrate, Crash, Shape, Types, Generation
  <2> QED BY <2>1 DEF Remembering, Cleared, Loading, Loaded, AfterInit, In, Step
<1>4. CASE Calibrated
  <2>1. /\ mpc \in Kind /\ mpc' = "idle" /\ at' = 1 /\ eeprom' = eeprom /\ mem' = mem
        /\ torn' = torn /\ before' = before /\ board' = board
    BY <1>4 DEF Calibrated
  <2>2. /\ Type' = Type /\ X' = X /\ StoredVolt' = StoredVolt /\ StoredTime' = StoredTime
        /\ TimingForgotten' = TimingForgotten
    BY <2>1, Constant DEF StoredVolt, StoredTime, TimingForgotten
  <2>3. Cleared' /\ Loading'
    BY <2>1 DEF Cleared, Loading, In
  <2>4. /\ AfterInit /\ ~Volt(Swept + 15 + X, Swept + 15 + X)
        /\ \/ mpc = "volt" /\ at = Swept + 19 + X
           \/ mpc = "timing" /\ at = Cycled + 13 + Y
    BY <1>4, Ended, Numbers DEF AfterInit, Step, Volt
  <2>5. CASE mpc = "volt"
    <3>1. ~torn => /\ mem.v1 = eeprom[1]["v1"] /\ mem.v2 = eeprom[2]["v2"] /\ StoredVolt = gen
      BY <2>4, <2>5, Numbers DEF Measuring, Burnt
    <3>2. gen > 0
      BY CalibrationAssumption DEF Shape, Types, Generation
    <3>3. Loaded'
      BY <2>1, <2>2, <2>4, <2>5, <3>1, <3>2
         DEF Remembering, Loaded, Held, Alone, NotTiming, Untimed0, Volt
    <3> QED BY <2>3, <3>3 DEF Remembering
  <2>6. CASE mpc = "timing"
    <3>1. ~torn => /\ mem.dt = StoredTime /\ mem.rest = StoredTime
                   /\ mem.tfreq > 0 /\ (Alone => mem.tfreq = eeprom[0]["tfreq"])
      BY <2>4, <2>6, Numbers DEF Measuring, Burnt, WidthsBurnt, TimeBurnt, TimedAt
    <3>2. Loaded'
      BY <2>1, <2>2, <2>4, <2>6, <3>1 DEF Remembering, Loaded, Held, Alone, Volt
    <3> QED BY <2>3, <3>2 DEF Remembering
  <2> QED BY <2>1, <2>5, <2>6 DEF Kind
<1>5. CASE Preview \/ ReadoutEnds \/ HardwareTrigger \/ UNCHANGED vars
  <2>1. /\ mpc' = mpc /\ at' = at /\ (torn => torn') /\ eeprom' = eeprom /\ board' = board
        /\ (before'.alone => before.alone)
        /\ mem'.v1 = mem.v1 /\ mem'.v2 = mem.v2 /\ mem'.dt = mem.dt /\ mem'.rest = mem.rest
        /\ mem'.valid = mem.valid /\ mem'.range = mem.range /\ mem'.tfreq = mem.tfreq
    <3>1. CASE PreviewTransfer
      BY <3>1 DEF Worker, PreviewTransfer, mainVars
    <3>2. CASE Configure
      BY <3>2 DEF Worker, Configure, mainVars, Shape, Types, Memory, Found
    <3>3. CASE ~PreviewTransfer /\ ~Configure
      BY <1>5, <3>3 DEF Preview, Worker, PreviewStart, PreviewForce, PreviewWait,
         PreviewOther, ReadoutEnds, HardwareTrigger, vars, mainVars, histVars
    <3> QED BY <3>1, <3>2, <3>3
  <2>2. /\ Type' = Type /\ X' = X /\ StoredVolt' = StoredVolt /\ StoredTime' = StoredTime
        /\ TimingForgotten' = TimingForgotten
    BY <2>1, Constant DEF StoredVolt, StoredTime, TimingForgotten
  <2>3. Cleared' /\ Loading'
    BY <2>1, <2>2 DEF Remembering, Cleared, Loading, In, Step
  <2>4. Loaded'
    BY <2>1, <2>2 DEF Remembering, Loaded, Held, Alone, NotTiming, Untimed0, Volt, AfterInit, Step
  <2> QED BY <2>3, <2>4 DEF Remembering
<1> QED BY <1>1, <1>2, <1>3, <1>4, <1>5 DEF Next, Main

LEMMA InitRemembering ==
    ASSUME Init
    PROVE  Remembering
<1>1. mpc = "init" /\ at = 1
  BY DEF Init
<1> QED BY <1>1 DEF Remembering, Cleared, Loading, Loaded, AfterInit, In, Step

LEMMA MemoryInvariant == Spec => [](Store0 /\ Remembering)
<1>1. Init => Store0 /\ Remembering
  BY InitShape, InitStored, InitRemembering DEF Store0
<1>2. (Store0 /\ Remembering) /\ [Next]_vars => (Store0 /\ Remembering)'
  BY ShapeKept, MeasuringKept, TransfersKept, StoredKept, RememberingKept DEF Store0
<1> QED BY <1>1, <1>2, PTL DEF Spec

(* MemoryIsStored: between calibrations, the program corrects with what a   *)
(* restart would load from the EEPROM, however many calibrations, crashes   *)
(* and previews came before.                                                *)
THEOREM MemoryIsWhatIsStored == Spec => []MemoryIsStored
<1>1. Store0 /\ Remembering => MemoryIsStored
  <2> SUFFICES ASSUME Store0, Remembering, AtRest, ~torn, eeprom[0]["vmeth"] > 0
               PROVE  /\ mem.v1 = eeprom[1]["v1"] /\ mem.v2 = eeprom[2]["v2"]
                      /\ mem.valid /\ (before.alone => mem.range = eeprom[0]["range"])
                      /\ ~TimingForgotten =>
                            /\ mem.dt = StoredTime /\ mem.rest = StoredTime
                            /\ (eeprom[0]["tmeth"] > 0 /\ before.alone)
                                  => mem.tfreq = eeprom[0]["tfreq"]
    BY DEF MemoryIsStored
  <2>1. AfterInit /\ NotTiming /\ Untimed0 /\ ~Volt(Swept + 15 + X, Swept + 15 + X)
        /\ mpc # "volt" /\ StoredVolt > 0
    BY DEF AtRest, AfterInit, NotTiming, Untimed0, Volt, StoredVolt
  <2> QED BY <2>1 DEF Remembering, Loaded, Held, Alone
<1> QED BY <1>1, MemoryInvariant, PTL

(* CompletedKept: a calibration that ended is not lost, neither from the    *)
(* EEPROM nor, with the one exception TimingForgotten, from memory.         *)
THEOREM CompletedIsKept == Spec => []CompletedKept
<1>1. Store0 /\ Remembering => CompletedKept
  <2> SUFFICES ASSUME Store0, Remembering, AtRest, ~torn
               PROVE  /\ eeprom[0]["serial"] = 1
                      /\ mem.v1 >= last["volt"] /\ mem.v2 >= last["volt"]
                      /\ StoredTime >= last["timing"]
                      /\ (last["volt"] > 0 /\ last["timing"] > 0 /\ ~TimingForgotten)
                            => /\ mem.dt >= last["timing"] /\ mem.rest >= last["timing"]
                               /\ mem.valid /\ mem.tfreq > 0
    BY DEF CompletedKept
  <2>1. AfterInit /\ NotTiming /\ Untimed0 /\ ~Volt(Swept + 15 + X, Swept + 15 + X)
        /\ mpc # "volt"
    BY DEF AtRest, AfterInit, NotTiming, Untimed0, Volt
  <2>2. /\ eeprom[0]["serial"] = 1
        /\ \A p \in 0 .. 2 : \A w \in Words(Type, p) : w \in Count => eeprom[p][w] \in 0 .. gen
        /\ eeprom[1]["v1"] >= StoredVolt /\ eeprom[2]["v2"] >= StoredVolt
        /\ StoredTime >= eeprom[0]["tmeth"]
        /\ last["volt"] <= StoredVolt /\ last["timing"] <= eeprom[0]["tmeth"]
    BY DEF Store0, Stored
  <2>3. /\ gen \in Int /\ last["volt"] \in Int /\ last["timing"] \in Int
    BY CalibrationAssumption DEF Store0, Shape, Types, Generation, Kind
  <2>4. StoredVolt \in 0 .. gen /\ eeprom[0]["tmeth"] \in 0 .. gen /\ eeprom[1]["v1"] \in 0 .. gen
        /\ eeprom[2]["v2"] \in 0 .. gen /\ StoredTime \in 0 .. gen
    BY <2>2, WordsOf DEF StoredVolt, Header, Count, StoredTime, TimingPage, Type
  <2>5. /\ Held(mem.v1, eeprom[1]["v1"]) /\ Held(mem.v2, eeprom[2]["v2"])
        /\ (StoredVolt > 0 /\ ~TimingForgotten) => mem.dt = StoredTime /\ mem.rest = StoredTime
        /\ (StoredVolt > 0 /\ ~TimingForgotten /\ eeprom[0]["tmeth"] > 0) => mem.tfreq > 0
        /\ StoredVolt > 0 => mem.valid
    BY <2>1 DEF Remembering, Loaded
  <2>6. mem.v1 >= last["volt"] /\ mem.v2 >= last["volt"]
    BY <2>2, <2>3, <2>4, <2>5 DEF Held
  <2> QED BY <2>2, <2>3, <2>4, <2>5, <2>6
<1> QED BY <1>1, MemoryInvariant, PTL

-----------------------------------------------------------------------------
(* The frequency of the timing calibration.                                 *)

(* A write, even of a page the preview has overwritten, leaves cell widths  *)
(* that are not zero, or both them and the claim to have them as they were. *)
LEMMA BurnWidths ==
    ASSUME Shape, Transfers, NoEmptyWidths, Burn
    PROVE  \/ StoredTime' # 0
           \/ /\ StoredTime' = StoredTime /\ eeprom'[0]["tmeth"] \in {eeprom[0]["tmeth"], Garbage}
              /\ ~Timing(WidthsBurnt, WidthsBurnt)
<1>1. More /\ Arg.do = "burn" /\ eeprom' = [eeprom EXCEPT ![Arg.page] = [w \in DOMAIN @ |-> ram[w]]]
      /\ board' = board
  BY DEF Burn, Op
<1>2. \A p \in 0 .. 2 : DOMAIN eeprom[p] = Words(Type, p)
  BY DEF Shape, Types, IsPage
<1>3. ASSUME NEW p \in 0 .. 2, Arg.page = p
      PROVE  /\ \A w \in Words(Type, p) : eeprom'[p][w] = ram[w]
             /\ \A q \in 0 .. 2 : q # p => eeprom'[q] = eeprom[q]
  BY <1>1, <1>2, <1>3 DEF Shape, Types
<1>4. ASSUME NEW p \in 0 .. 2, RamIsBuf(p)
      PROVE  \A w \in Words(Type, p) : ram[w] \in {buf[w], Garbage}
  BY <1>4 DEF RamIsBuf, Copied
<1>5. ASSUME NEW p \in 0 .. 2, NEW patched, BufHolds(p, patched)
      PROVE  \A w \in Words(Type, p) : w \notin patched => buf[w] \in {eeprom[p][w], Garbage}
  BY <1>5 DEF BufHolds, Copied
<1>6. /\ StoredTime = IF Type = 9 THEN eeprom[2]["dt"] ELSE eeprom[0]["dt"]
      /\ StoredTime' = IF Type = 9 THEN eeprom'[2]["dt"] ELSE eeprom'[0]["dt"]
  BY <1>1 DEF StoredTime, TimingPage, Type
<1>7. gen \in Int /\ gen > 0 /\ Garbage # 0
  BY CalibrationAssumption DEF Shape, Types, Generation, Garbage
<1>8. CASE Volt(Swept + 4, Swept + 4) /\ Arg.page = 1
  BY <1>3, <1>6, <1>8 DEF Volt, Timing
<1>9. CASE Volt(Swept + 8 + X, Swept + 8 + X) /\ Arg.page = 2
  <2>1. eeprom'[0] = eeprom[0] /\ \A w \in Words(Type, 2) : eeprom'[2][w] = ram[w]
    BY <1>3, <1>9
  <2>2. ASSUME Type = 9
        PROVE  eeprom'[2]["dt"] \in {eeprom[2]["dt"], Garbage}
    <3>1. BufHolds(2, {"v2"}) /\ RamIsBuf(2)
      BY <1>9, <2>2, Inside, Numbers DEF Transfers, Received, Sent, Volt
    <3> QED BY <1>4, <1>5, <2>1, <2>2, <3>1, WordsOf
  <2> QED BY <1>6, <1>7, <1>9, <2>1, <2>2 DEF Volt, Timing
<1>10. CASE Volt(Swept + 14 + X, Swept + 14 + X) /\ Arg.page = 0
  <2>1. RamIsBuf(0) /\ BufHolds(0, {"vmeth", "range"})
    BY <1>10, Inside, Numbers DEF Transfers, Received, Sent, Volt
  <2>2. /\ \A w \in Words(Type, 0) : eeprom'[0][w] = ram[w]
        /\ eeprom'[2] = eeprom[2]
    BY <1>3, <1>10
  <2>3. \A w \in Words(Type, 0) :
            w \notin {"vmeth", "range"} => eeprom'[0][w] \in {eeprom[0][w], Garbage}
    BY <1>4, <1>5, <2>1, <2>2
  <2>4. /\ eeprom'[0]["tmeth"] \in {eeprom[0]["tmeth"], Garbage}
        /\ Type # 9 => \/ eeprom'[0]["dt"] = Garbage
                       \/ /\ eeprom'[0]["dt"] = eeprom[0]["dt"]
    BY <2>3, WordsOf DEF Header
  <2> QED BY <1>6, <1>7, <1>10, <2>2, <2>4 DEF Volt, Timing
<1>11. CASE Type = 9 /\ Timing(Cycled + 6, Cycled + 6) /\ Arg.page = 2
  <2>1. RamIsBuf(2) /\ buf["dt"] = gen
    BY <1>11, Inside, Numbers DEF Transfers, Sent, Patched, Timing, WidthsBurnt, TimingPage
  <2>2. eeprom'[2]["dt"] \in {gen, Garbage}
    BY <1>3, <1>4, <1>11, <2>1, WordsOf
  <2> QED BY <1>6, <1>7, <1>11, <2>2
<1>12. CASE Type = 9 /\ Timing(TimeBurnt, TimeBurnt) /\ Arg.page = 0
  <2>1. eeprom'[2] = eeprom[2]
    BY <1>3, <1>12
  <2>2. StoredTime # 0
    BY <1>12, Inside, Numbers DEF NoEmptyWidths, Timing, WidthsBurnt, TimeBurnt
  <2> QED BY <1>6, <1>12, <2>1, <2>2
<1>13. CASE Type # 9 /\ Timing(TimeBurnt, TimeBurnt) /\ Arg.page = 0
  <2>1. RamIsBuf(0) /\ buf["dt"] = gen
    BY <1>13, Inside, Numbers DEF Transfers, Sent, Patched, Timing, TimeBurnt, WidthsBurnt
  <2>2. eeprom'[0]["dt"] \in {gen, Garbage}
    BY <1>3, <1>4, <1>13, <2>1, WordsOf
  <2> QED BY <1>6, <1>7, <1>13, <2>2
<1> QED BY <1>1, <1>8, <1>9, <1>10, <1>11, <1>12, <1>13, AtBurn DEF TimeBurnt

LEMMA BurnKeepsTrueFrequency ==
    ASSUME Shape, Transfers, NoEmptyWidths, TrueFrequency, Burn
    PROVE  NoEmptyWidths' /\ TrueFrequency'
<1>1. /\ OpKeeps /\ before' = before /\ Type' = Type
      /\ at \in Nat \ {0} /\ mpc \in {"init", "volt", "timing"} /\ More /\ mem' = mem
  BY OpMoves, Onward DEF MainOp, Burn
<1>2. at' = at + 1 /\ Arg.do = "burn"
  BY DEF Burn, Op
<1>3. WidthsBurnt' = WidthsBurnt /\ WidthsBurnt \in Nat
  BY <1>1, Constant, Numbers DEF WidthsBurnt
<1>4. Volt(Swept + 4, Swept + 14 + X) \/ Timing(Cycled + 6, Cycled + 13)
  BY <1>1, <1>2, AtBurn, Numbers DEF Volt, Timing
<1>5. mpc = "timing" /\ at' > WidthsBurnt => at > WidthsBurnt \/ Timing(WidthsBurnt, WidthsBurnt)
  BY <1>1, <1>2, <1>3 DEF Timing
<1>6. ~(Garbage > 0)
  BY DEF Garbage
<1>7. NoEmptyWidths'
  BY <1>1, <1>3, <1>5, <1>6, BurnWidths DEF NoEmptyWidths, OpKeeps
<1>8. ~In(3, 15) /\ ~In(3, 15)' /\ ~In(7, 15) /\ ~In(7, 15)'
  BY <1>1, <1>2, <1>4, Numbers DEF In, Step, Volt, Timing, OpKeeps
<1>9. TrueFrequency'
  BY <1>1, <1>8 DEF TrueFrequency
<1> QED BY <1>7, <1>9

LEMMA RestKeepsTrueFrequency ==
    ASSUME Shape, Measuring, Transfers, Cleared, NoEmptyWidths, TrueFrequency, MainOp \/ Spin,
           eeprom' = eeprom, Arg.do # "burn"
    PROVE  NoEmptyWidths' /\ TrueFrequency'
<1>1. /\ OpKeeps /\ before' = before /\ Type' = Type /\ board' = board
      /\ at \in Nat \ {0} /\ mpc \in {"init", "volt", "timing"} /\ More
  BY OpMoves, Onward DEF OpKeeps
<1>2. /\ WidthsBurnt' = WidthsBurnt /\ WidthsBurnt = (IF Type = 9 THEN Cycled + 6 ELSE Cycled + 7)
      /\ TimedAt = (IF Type = 9 THEN Cycled + 10 ELSE Cycled + 4)
  BY <1>1, Constant DEF OpKeeps, WidthsBurnt, TimedAt
<1>3. StoredTime' = StoredTime
  BY <1>1 DEF StoredTime
<1>4. \/ at' = at + 1
      \/ Arg.do = "judge" /\ In(6, 6) /\ at' = at + 10
      \/ Arg.do = "analyse" /\ Timing(32, Cycled - 1) /\ at' = Cycled
  BY Onward
<1>5. NoEmptyWidths'
  <2>1. mpc = "timing" => at # WidthsBurnt
    BY <1>1, TimingLandmarks
  <2> QED BY <1>1, <1>2, <1>3, <1>4, <2>1, Numbers DEF NoEmptyWidths, OpKeeps, In, Step, Timing
<1>6. mem \in Memory
  BY DEF Shape, Types
<1>7. gen \in Int /\ gen > 0 /\ Garbage # 0 /\ ~(Garbage > 0) /\ Flat # 0
  BY CalibrationAssumption DEF Shape, Types, Generation, Garbage, Flat
<1>8. ASSUME mem'.nominal = mem.nominal \/ ~In(3, 15)', ~In(2, 2)
      PROVE  In(3, 15)' /\ (Alone \/ mpc = "init")' => mem'.nominal = Default
  <2>1. In(3, 15)' => In(3, 15)
    BY <1>1, <1>4, <1>8, Numbers DEF In, Step, OpKeeps, Timing
  <2> QED BY <1>1, <1>8, <2>1 DEF TrueFrequency, Alone, OpKeeps
<1>9. ASSUME at' = at + 1, ~In(6, 6), ~In(15, 15)
      PROVE  In(7, 15)' <=> In(7, 15)
  BY <1>1, <1>9 DEF In, Step, OpKeeps
<1>10. CASE Arg.do \notin MemOp
  <2>1. mem' = mem
    BY <1>10, MemKept
  <2>2. ~In(2, 2) /\ ~In(6, 6) /\ ~In(15, 15)
    BY <1>1, <1>10, InitLandmarks DEF MemOp
  <2>3. In(7, 15)' <=> In(7, 15)
    <3>1. CASE at' = at + 1
      BY <1>9, <2>2, <3>1
    <3>2. CASE Timing(32, Cycled - 1) /\ at' = Cycled
      BY <1>1, <3>2, Numbers DEF In, Step, Timing, OpKeeps
    <3> QED BY <1>4, <2>2, <3>1, <3>2
  <2> QED BY <1>3, <1>5, <1>8, <2>1, <2>2, <2>3 DEF TrueFrequency
<1>11. CASE In(2, 2) /\ at' = at + 1 /\ mem' = [mem EXCEPT !.nominal = Default]
  <2>1. mem'.nominal = Default /\ mem'.tfreq = mem.tfreq /\ mem'.dt = mem.dt
    BY <1>6, <1>11 DEF Memory
  <2>2. ~In(7, 15) /\ ~In(7, 15)'
    BY <1>1, <1>11 DEF In, Step, OpKeeps
  <2> QED BY <1>5, <2>1, <2>2 DEF TrueFrequency
<1>12. CASE /\ In(3, 3) /\ at' = at + 1
            /\ mem' = [mem EXCEPT !.v1 = 0, !.v2 = 0, !.dt = 0, !.rest = 0, !.valid = FALSE,
                                  !.tfreq = 0]
  <2>1. mem'.nominal = mem.nominal /\ mem'.tfreq = 0
    BY <1>6, <1>12 DEF Memory
  <2>2. ~In(2, 2)
    BY <1>1, <1>12 DEF In, Step
  <2> QED BY <1>5, <1>8, <2>1, <2>2 DEF TrueFrequency
<1>13. CASE /\ In(6, 6) /\ at' = at + 1 /\ buf["vmeth"] > 0
            /\ mem' = [mem EXCEPT !.valid = TRUE, !.range = buf["range"],
                                  !.tfreq = IF buf["tmeth"] > 0 THEN buf["tfreq"] ELSE -1]
  <2>1. mem'.nominal = mem.nominal /\ mem'.tfreq = IF buf["tmeth"] > 0 THEN buf["tfreq"] ELSE -1
    BY <1>6, <1>13 DEF Memory
  <2>2. ~In(2, 2) /\ In(7, 15)'
    BY <1>1, <1>13 DEF In, Step, OpKeeps
  <2>3. buf["tmeth"] \in {eeprom[0]["tmeth"], Garbage}
    <3>1. BufHolds(0, {})
      BY <1>13 DEF Transfers, Received
    <3> QED BY <3>1, WordsOf DEF BufHolds, Copied, Header
  <2>4. mem'.tfreq > 0 => StoredTime # 0
    BY <1>7, <2>1, <2>3 DEF NoEmptyWidths
  <2> QED BY <1>3, <1>5, <1>8, <2>1, <2>2, <2>4 DEF TrueFrequency
<1>14. CASE /\ In(6, 6) /\ at' = at + 10 /\ ~(buf["vmeth"] > 0)
            /\ mem' = [mem EXCEPT !.range = 0]
  <2>1. mem'.nominal = mem.nominal /\ mem'.tfreq = 0
    BY <1>1, <1>6, <1>14 DEF Memory, Cleared, In, Step
  <2>2. ~In(2, 2)
    BY <1>1, <1>14 DEF In, Step
  <2> QED BY <1>5, <1>8, <2>1, <2>2 DEF TrueFrequency
<1>15. CASE /\ In(9, 9) \/ In(12, 12)
            /\ at' = at + 1
            /\ mem' = [mem EXCEPT !.v1 = buf["v1"]] \/ mem' = [mem EXCEPT !.v2 = buf["v2"]]
  <2>1. mem'.nominal = mem.nominal /\ mem'.tfreq = mem.tfreq /\ mem'.dt = mem.dt
    BY <1>6, <1>15 DEF Memory
  <2>2. ~In(2, 2) /\ ~In(6, 6) /\ ~In(15, 15)
    BY <1>1, <1>15 DEF In, Step
  <2>3. In(7, 15)' <=> In(7, 15)
    BY <1>1, <1>4, <1>15, <2>2, Numbers DEF In, Step, OpKeeps, Timing
  <2> QED BY <1>3, <1>5, <1>8, <2>1, <2>2, <2>3 DEF TrueFrequency
<1>16. CASE In(15, 15) /\ at' = at + 1 /\ mem' = [mem EXCEPT !.dt = buf["dt"], !.rest = buf["dt"]]
  <2>1. mem'.nominal = mem.nominal /\ mem'.tfreq = mem.tfreq /\ mem'.dt = buf["dt"]
    BY <1>6, <1>16 DEF Memory
  <2>2. ~In(2, 2) /\ In(7, 15) /\ ~In(7, 15)'
    BY <1>1, <1>16 DEF In, Step, OpKeeps
  <2>3. buf["dt"] \in {StoredTime, Garbage}
    <3>1. BufHolds(TimingPage(Type), {})
      BY <1>16 DEF Transfers, Received
    <3>2. "dt" \in Words(Type, TimingPage(Type)) /\ StoredTime = eeprom[TimingPage(Type)]["dt"]
      BY DEF Words, StoredTime, Type
    <3> QED BY <3>1, <3>2 DEF BufHolds, Copied
  <2>4. mem'.tfreq > 0 => mem'.dt # 0
    BY <1>7, <2>1, <2>2, <2>3 DEF TrueFrequency
  <2> QED BY <1>5, <1>8, <2>1, <2>2, <2>4 DEF TrueFrequency
<1>17. ASSUME at' = at + 1, (mpc = "init" /\ at = 16) \/ (mpc \in Kind /\ at >= 17),
              mem'.tfreq > 0 => mem'.dt # 0 \/ (mem'.tfreq = mem.tfreq /\ mem'.dt = mem.dt)
       PROVE  TrueFrequency'
  <2>1. ~In(7, 15) /\ ~In(7, 15)' /\ ~In(3, 15)'
    BY <1>1, <1>17 DEF In, Step, OpKeeps, Kind
  <2> QED BY <1>17, <2>1 DEF TrueFrequency
<1>18. CASE /\ In(16, 16) \/ (mpc \in Kind /\ at = 23)
            /\ at' = at + 1
            /\ \/ mem' = [mem EXCEPT !.nominal = IF mem.tfreq \in 1 .. 60 THEN mem.tfreq ELSE Default]
               \/ mem' = [mem EXCEPT !.nominal = saved.nominal]
  <2>1. mem'.tfreq = mem.tfreq /\ mem'.dt = mem.dt
    BY <1>6, <1>18 DEF Memory
  <2>2. (mpc = "init" /\ at = 16) \/ (mpc \in Kind /\ at >= 17)
    BY <1>1, <1>18 DEF In, Step, Kind
  <2> QED BY <1>5, <1>17, <1>18, <2>1, <2>2
<1>19. CASE Timing(24, 24) /\ at' = at + 1 /\ mem' = [mem EXCEPT !.tfreq = 0]
  <2>1. mem'.tfreq = 0
    BY <1>6, <1>19 DEF Memory
  <2> QED BY <1>1, <1>5, <1>17, <1>19, <2>1 DEF Timing, Kind
<1>20. CASE Timing(31, 31) /\ at' = at + 1 /\ mem' = [mem EXCEPT !.dt = Flat, !.rest = Flat]
  <2>1. mem'.dt = Flat
    BY <1>6, <1>20 DEF Memory
  <2> QED BY <1>1, <1>5, <1>7, <1>17, <1>20, <2>1 DEF Timing, Kind
<1>21. CASE Timing(TimedAt, TimedAt) /\ at' = at + 1 /\ mem' = [mem EXCEPT !.tfreq = mem.nominal]
  <2>1. mem'.dt = mem.dt /\ mpc = "timing" /\ at = TimedAt /\ at > Cycled
    BY <1>1, <1>2, <1>6, <1>21, Numbers DEF Memory, Timing
  <2>2. mem'.dt = gen
    BY <2>1 DEF Measuring
  <2> QED BY <1>1, <1>2, <1>5, <1>7, <1>17, <1>21, <2>1, <2>2, Numbers DEF Kind
<1>22. CASE /\ \/ Type # 9 /\ Timing(Cycled + 8, Cycled + 8)
               \/ Volt(Swept + 15 + X, Swept + 15 + X) \/ Volt(33 + 8 * Events, 33 + 8 * Events)
               \/ Volt(Swept, Swept)
            /\ at' = at + 1
            /\ \/ mem' = [mem EXCEPT !.rest = mem.dt]
               \/ mem' = [mem EXCEPT !.valid = TRUE, !.range = reg.range]
               \/ mem' = [mem EXCEPT !.v1 = gen]
               \/ mem' = [mem EXCEPT !.v2 = gen]
  <2>1. mem'.tfreq = mem.tfreq /\ mem'.dt = mem.dt
    BY <1>6, <1>22 DEF Memory
  <2>2. mpc \in Kind /\ at >= 17
    BY <1>1, <1>22, Numbers DEF Timing, Volt, Kind
  <2> QED BY <1>5, <1>17, <1>22, <2>1, <2>2
<1>23. CASE /\ Timing(Cycled, Cycled) /\ at' = at + 1
            /\ \/ mem' = [mem EXCEPT !.dt = gen, !.rest = gen]
               \/ mem' = [mem EXCEPT !.dt = gen]
  <2>1. mem'.dt = gen
    BY <1>6, <1>23 DEF Memory
  <2>2. mpc \in Kind /\ at >= 17
    BY <1>1, <1>23, Numbers DEF Timing, Kind
  <2> QED BY <1>5, <1>7, <1>17, <1>23, <2>1, <2>2
<1> QED BY <1>10, <1>11, <1>12, <1>13, <1>14, <1>15, <1>16, <1>18, <1>19, <1>20, <1>21, <1>22,
           <1>23, MemEffects

LEMMA TrueFrequencyKept ==
    ASSUME Shape, Measuring, Transfers, Cleared, NoEmptyWidths, TrueFrequency, [Next]_vars
    PROVE  NoEmptyWidths' /\ TrueFrequency'
<1>1. CASE MainOp \/ Spin
  <2>1. CASE Burn
    BY <2>1, BurnKeepsTrueFrequency
  <2>2. CASE ~Burn
    <3>1. Arg.do # "burn" /\ eeprom' = eeprom
      BY <1>1, <2>2, OnlyBurnWrites
    <3> QED BY <1>1, <3>1, RestKeepsTrueFrequency
  <2> QED BY <2>1, <2>2
<1>2. CASE Boot \/ Calibrate \/ Calibrated
  <2>1. /\ at' = 1 /\ mpc' # "init" /\ eeprom' = eeprom /\ mem' = mem /\ board' = board
        /\ Type' = Type /\ WidthsBurnt' = WidthsBurnt
    BY <1>2, BoardKept, Constant, CalibrationAssumption
       DEF Boot, Calibrate, Calibrated, Next, Main, Shape, Types, Generation
  <2>2. ~In(7, 15)' /\ ~In(3, 15)' /\ ~In(7, 15)
    <3>1. ~In(7, 15)
      BY <1>2, Inside, Ended, Numbers DEF Boot, Calibrate, Calibrated, In, Step, Kind
    <3> QED BY <2>1, <3>1 DEF In, Step
  <2>3. StoredTime' = StoredTime
    BY <2>1 DEF StoredTime
  <2>4. NoEmptyWidths'
    BY <2>1, <2>3, Numbers DEF NoEmptyWidths, WidthsBurnt
  <2> QED BY <2>1, <2>2, <2>4 DEF TrueFrequency
<1>3. CASE Crash
  <2>1. /\ at' = 1 /\ mpc' = "init" /\ eeprom' = eeprom /\ mem' = NoMemory /\ board' = board
    BY <1>3 DEF Crash
  <2>2. NoEmptyWidths'
    BY <2>1 DEF NoEmptyWidths, StoredTime
  <2>3. TrueFrequency'
    BY <2>1 DEF TrueFrequency, NoMemory, In, Step
  <2> QED BY <2>2, <2>3
<1>4. CASE Configure
  <2>1. /\ mpc' = mpc /\ at' = at /\ eeprom' = eeprom /\ board' = board /\ mpc # "init"
        /\ mpc \in Kind => before'.alone = FALSE
        /\ mem'.tfreq = mem.tfreq /\ mem'.dt = mem.dt
    BY <1>4 DEF Configure, Worker, mainVars, Shape, Types, Places, Memory, Found
  <2>2. Type' = Type /\ WidthsBurnt' = WidthsBurnt /\ StoredTime' = StoredTime
    BY <2>1, Constant DEF StoredTime
  <2>3. NoEmptyWidths'
    BY <2>1, <2>2 DEF NoEmptyWidths
  <2>4. TrueFrequency'
    BY <2>1, <2>2, Inside DEF TrueFrequency, In, Step, Alone, Kind
  <2> QED BY <2>3, <2>4
<1>5. CASE (Preview /\ ~Configure) \/ ReadoutEnds \/ HardwareTrigger \/ UNCHANGED vars
  <2>1. /\ mpc' = mpc /\ at' = at /\ mem' = mem /\ before' = before /\ eeprom' = eeprom
        /\ board' = board
    BY <1>5 DEF Preview, Worker, PreviewStart, PreviewForce, PreviewWait, PreviewOther,
       PreviewTransfer, ReadoutEnds, HardwareTrigger, vars, mainVars, histVars
  <2>2. Type' = Type /\ WidthsBurnt' = WidthsBurnt /\ StoredTime' = StoredTime
    BY <2>1, Constant DEF StoredTime
  <2> QED BY <2>1, <2>2 DEF NoEmptyWidths, TrueFrequency, In, Step, Alone
<1> QED BY <1>1, <1>2, <1>3, <1>4, <1>5 DEF Next, Main

LEMMA InitTrueFrequency ==
    ASSUME Init
    PROVE  NoEmptyWidths /\ TrueFrequency
<1>1. /\ mpc = "init" /\ at = 1 /\ mem = NoMemory /\ eeprom = Contents(board) /\ board \in Boards
  BY DEF Init
<1>2. eeprom[0]["tmeth"] > 0 => StoredTime # 0
  <2>1. "dt" \in Words(board.type, TimingPage(board.type)) /\ TimingPage(board.type) \in 0 .. 2
        /\ "tmeth" \in Words(board.type, 0)
    BY DEF Words, TimingPage, Header
  <2>2. StoredTime = (IF board.blank THEN 0 ELSE 1)
    BY <1>1, <2>1 DEF StoredTime, Contents
  <2>3. eeprom[0]["tmeth"] = (IF board.blank THEN 0 ELSE 1)
    BY <1>1, <2>1 DEF Contents
  <2> QED BY <2>2, <2>3
<1>3. NoEmptyWidths
  BY <1>1, <1>2 DEF NoEmptyWidths
<1>4. TrueFrequency
  BY <1>1 DEF TrueFrequency, NoMemory, In, Step
<1> QED BY <1>3, <1>4

(* TrueFrequencyDefined: GetTrueFrequency(), which the preview calls at any *)
(* point of a calibration, never divides by cell widths that are all zero;  *)
(* this holds even when the preview has overwritten pages on their way.     *)
THEOREM TrueFrequencyIsDefined == Spec => []TrueFrequencyDefined
<1> DEFINE Inv == Store0 /\ Remembering /\ NoEmptyWidths /\ TrueFrequency
<1>1. Init => Inv
  BY InitShape, InitStored, InitRemembering, InitTrueFrequency DEF Store0
<1>2. Inv /\ [Next]_vars => Inv'
  BY ShapeKept, MeasuringKept, TransfersKept, StoredKept, RememberingKept, TrueFrequencyKept
     DEF Store0, Remembering
<1>3. Inv => TrueFrequencyDefined
  <2> SUFFICES ASSUME Inv, mem.nominal = mem.tfreq, mem.nominal # Default, before.alone
               PROVE  mem.dt # 0
    BY DEF TrueFrequencyDefined
  <2>1. mem.nominal > 0 /\ at \in Nat
    BY Inside DEF Store0, Shape, Types, Memory
  <2>2. ~In(7, 15)
    BY <2>1 DEF TrueFrequency, Alone, In, Step
  <2> QED BY <2>1, <2>2 DEF TrueFrequency
<1> QED BY <1>1, <1>2, <1>3, PTL DEF Spec
=============================================================================
