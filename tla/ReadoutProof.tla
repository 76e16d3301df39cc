---------------------------- MODULE ReadoutProof -----------------------------
(***************************************************************************)
(* Theorems about Readout, for any number of boards, triggers and runs and *)
(* a buffer of any size: above all, that the pipeline implements           *)
(* EventStream; then, about the events it records: none is recorded twice, *)
(* and those of one iteration belong to one trigger.                       *)
(***************************************************************************)
EXTENDS Readout, SequenceTheorems, TLAPS

-----------------------------------------------------------------------------
(* Arithmetic of indices.                                                   *)

LEMMA DivMod ==
    ASSUME NEW a \in Nat, NEW c \in Nat \ {0}
    PROVE  a = c * (a \div c) + (a % c) /\ a % c \in 0 .. c - 1 /\ a \div c \in Nat
<1>1. a % c \in 0 .. c - 1 /\ a \div c \in Int
  OBVIOUS
<1>2. a = c * (a \div c) + (a % c)
  OBVIOUS
<1>3. ASSUME a \div c <= -1 PROVE FALSE
  <2>1. c * (a \div c) <= -c
    BY <1>1, <1>3
  <2> QED
    BY <1>1, <1>2, <2>1
<1> QED
  BY <1>1, <1>2, <1>3

(* Events less than a buffer apart are in different slots.                  *)
LEMMA SlotsDiffer ==
    ASSUME NEW a \in Nat, NEW b \in Nat, NEW c \in Nat \ {0}, a < b, b < a + c
    PROVE  a % c # b % c
<1> SUFFICES ASSUME a % c = b % c PROVE FALSE
  OBVIOUS
<1> DEFINE p == a \div c
           q == b \div c
<1>1. a = c * p + (a % c) /\ b = c * q + (b % c) /\ p \in Nat /\ q \in Nat
  BY DivMod
<1> HIDE DEF p, q
<1>2. b - a = c * (q - p)
  <2>1. b - a = c * q - c * p
    BY <1>1
  <2> QED
    BY <1>1, <2>1
<1>3. CASE q - p >= 1
  <2>1. c * (q - p) >= c
    BY <1>1, <1>3
  <2> QED
    BY <1>2, <2>1
<1>4. CASE q - p <= 0
  <2>1. c * (q - p) <= 0
    BY <1>1, <1>4
  <2> QED
    BY <1>2, <2>1
<1> QED
  BY <1>1, <1>3, <1>4

LEMMA FullTurn == ASSUME NEW c \in Nat \ {0} PROVE c % c = 0
<1> DEFINE q == c \div c
           r == c % c
<1>1. c = c * q + r /\ r \in 0 .. c - 1 /\ q \in Nat
  BY DivMod
<1> HIDE DEF q, r
<1>2. CASE q = 0
  BY <1>1, <1>2
<1>3. CASE q >= 2
  <2>1. c * q >= c + c
    BY <1>1, <1>3
  <2> QED
    BY <1>1, <2>1
<1>4. CASE q = 1
  BY <1>1, <1>4 DEF r
<1> QED
  BY <1>1, <1>2, <1>3, <1>4

LEMMA BoardIndex ==
    /\ 0 \in Board /\ NBoards - 1 \in Board /\ NBoards \in Nat \ {0}
    /\ \A b \in Board : /\ b \in Nat /\ b < NBoards /\ (b + 1) % NBoards \in Board
                        /\ b > 0 => b - 1 \in Board
                        /\ b + 1 = NBoards => (b + 1) % NBoards = 0
<1>1. \A b \in Board : b + 1 = NBoards => (b + 1) % NBoards = 0
  BY FullTurn, ReadoutAssumption
<1> QED
  BY <1>1, ReadoutAssumption DEF Board

LEMMA SlotIndex == \A k \in Nat : SlotAt(k) \in 0 .. Capacity - 1
  BY ReadoutAssumption DEF SlotAt

-----------------------------------------------------------------------------
(* The inductive invariant.                                                 *)

(* Where the threads are: the worker lives only between StartReadout and    *)
(* the join; the wait for the master starts at board 0 and has polls left.  *)
Control ==
    /\ pc \in {"done", "test", "domino", "wait", "force", "decide", "board",
               "getwp", "header", "wave", "commit", "count"}
    /\ mpc \in {"stopped", "arm", "poll", "copy", "advance", "join"}
    /\ i \in Board /\ n \in 0 .. PollBound /\ mi \in 0 .. NBoards /\ runs \in 0 .. MaxRun
    /\ pc # "done" => mpc \in {"poll", "copy", "advance", "join"}
    /\ pc = "wait" => i = 0
    /\ pc \in {"wait", "force"} => n >= 1

(* What the boards hold: one that has stopped has the data of a trigger; no *)
(* board is idle in a run; and a software trigger that starts a board has a *)
(* number.                                                                  *)
Boards ==
    /\ st \in [Board -> {"idle", "running", "reading", "ready"}]
    /\ ev \in [Board -> 0 .. MaxTrig] /\ nTrig \in 0 .. MaxTrig
    /\ \A b \in Board : /\ ev[b] <= nTrig
                        /\ st[b] \in {"reading", "ready"} => ev[b] >= 1
    /\ pc # "done" => \A b \in Board : st[b] # "idle"
    /\ mpc = "arm" => \A b \in Board : b < mi => st[b] # "idle"
    /\ pc = "force" => /\ st[Master] = "running" => nTrig < MaxTrig
                       /\ i > 0 => st[Master] # "running"

Item == [board |-> i, trig |-> data]

Whole(k) == mem[SlotAt(k)].header \in Event /\ mem[SlotAt(k)].waves = mem[SlotAt(k)].header

(* The ring buffer: what is between rp and wp is whole, what the worker     *)
(* fills is not yet, and what the main thread copies is the oldest event.   *)
Ring ==
    /\ mem \in [0 .. Capacity - 1 -> [header : Event \cup {Empty}, waves : Event \cup {Empty}]]
    /\ nW \in Nat /\ nR \in Nat /\ nR <= nW /\ nW <= nR + Capacity
    /\ pc \in {"header", "wave", "commit"} => nW < nR + Capacity
    /\ data \in 0 .. MaxTrig
    /\ pc \in {"getwp", "header", "wave", "commit"} => data >= 1
    /\ \A k \in nR .. nW - 1 : Whole(k)
    /\ pc \in {"wave", "commit"} => mem[SlotAt(nW)].header = Item
    /\ pc = "commit" => mem[SlotAt(nW)].waves = Item
    /\ out \in Event \cup {Empty}
    /\ mpc \in {"copy", "advance"} => nR < nW /\ out = mem[SlotAt(nR)].header

Rest ==
    /\ forced \in BOOLEAN /\ inEnd \in BOOLEAN /\ armed \in BOOLEAN
    /\ cnt \in [Board -> Nat] /\ took \subseteq [board : Board, trig : 0 .. MaxTrig]
    /\ delivered \in Seq(Event \cup {Empty})

RInv == Control /\ Boards /\ Ring /\ Rest

LEMMA RInvInit == Init => RInv
<1> SUFFICES ASSUME Init PROVE RInv
  OBVIOUS
<1>1. Control
  BY ReadoutAssumption, BoardIndex DEF Init, Control
<1>2. Boards
  BY ReadoutAssumption, BoardIndex DEF Init, Boards
<1>3. Ring
  <2>1. mem \in [0 .. Capacity - 1 -> [header : Event \cup {Empty}, waves : Event \cup {Empty}]]
    BY DEF Init
  <2> QED
    BY <2>1, ReadoutAssumption DEF Init, Ring
<1>4. Rest
  <2>1. delivered \in Seq(Event \cup {Empty})
    BY DEF Init
  <2> QED
    BY <2>1 DEF Init, Rest
<1> QED
  BY <1>1, <1>2, <1>3, <1>4 DEF RInv

LEMMA ControlStep == RInv /\ [Next]_vars => Control'
<1> SUFFICES ASSUME Control, [Next]_vars PROVE Control'
  BY DEF RInv
<1> USE BoardIndex, ReadoutAssumption DEF Control
<1>1. CASE Hardware \/ UNCHANGED vars
  BY <1>1 DEF Hardware, HardwareTrigger, ReadoutDone, Preview, vars, loopVars, mainVars
<1>2. CASE LoopTest
  BY <1>2 DEF LoopTest, Quiet, mainVars
<1>3. CASE Domino
  BY <1>3 DEF Domino, Quiet, mainVars
<1>4. CASE WaitMaster
  BY <1>4 DEF WaitMaster, Quiet, mainVars
<1>5. CASE ForceTrigger
  <2>1. pc = "force" /\ i' = (i + 1) % NBoards /\ UNCHANGED <<n, mpc, mi, runs>>
    BY <1>5 DEF ForceTrigger, Quiet, mainVars
  <2>2. (i + 1 = NBoards /\ pc' = "wait") \/ pc' = "force"
    BY <1>5 DEF ForceTrigger
  <2>3. i' \in Board /\ (pc' = "wait" => i' = 0)
    BY <2>1, <2>2
  <2> QED
    BY <2>1, <2>2, <2>3
<1>6. CASE Decide
  BY <1>6 DEF Decide, Quiet, mainVars
<1>7. CASE BoardBusy \/ GetWp \/ CountEvent
  BY <1>7 DEF BoardBusy, GetWp, CountEvent, NextBoard, Quiet, mainVars
<1>8. CASE TransferWaves \/ FillHeader \/ FillWaves \/ Commit
  BY <1>8 DEF TransferWaves, FillHeader, FillWaves, Commit, Quiet, mainVars
<1>9. CASE Consumer
  BY <1>9 DEF Consumer, PollEvent, CopyBank, AdvanceRp, loopVars
<1>10. CASE BeginOfRun
  BY <1>10 DEF BeginOfRun, loopVars
<1>11. CASE BeginDomino
  BY <1>11 DEF BeginDomino, loopVars
<1>12. CASE StartReadout
  BY <1>12 DEF StartReadout
<1>13. CASE EndOfRun \/ EndJoin
  BY <1>13 DEF EndOfRun, EndJoin, loopVars
<1> QED
  BY <1>1, <1>2, <1>3, <1>4, <1>5, <1>6, <1>7, <1>8, <1>9, <1>10, <1>11, <1>12, <1>13, Zenon
     DEF Next, ReadoutLoop, Transition

-----------------------------------------------------------------------------
(* The boards.                                                              *)

LEMMA Started ==
    ASSUME Boards, NEW b \in Board, StartDomino(b)
    PROVE  /\ st' \in [Board -> {"idle", "running", "reading", "ready"}]
           /\ st'[b] = "running" /\ \A c \in Board : c # b => st'[c] = st[c]
           /\ ev' = ev /\ nTrig' = nTrig
           /\ \A c \in Board : /\ ev'[c] <= nTrig'
                               /\ st'[c] \in {"reading", "ready"} => ev'[c] >= 1
                               /\ st[c] # "idle" => st'[c] # "idle"
<1>1. /\ st' = [st EXCEPT ![b] = "running"] /\ ev' = ev /\ nTrig' = nTrig
      /\ st \in [Board -> {"idle", "running", "reading", "ready"}]
  BY DEF StartDomino, Boards
<1>2. st'[b] = "running" /\ \A c \in Board : c # b => st'[c] = st[c]
  BY <1>1
<1> QED
  BY <1>1, <1>2 DEF Boards

LEMMA Latched ==
    ASSUME Boards, NEW S \in SUBSET Board, \A b \in S : st[b] = "running",
           nTrig' \in 0 .. MaxTrig, nTrig <= nTrig', S # {} => nTrig' >= 1,
           Latch(S, nTrig')
    PROVE  /\ st' \in [Board -> {"idle", "running", "reading", "ready"}]
           /\ ev' \in [Board -> 0 .. MaxTrig]
           /\ \A b \in Board : /\ ev'[b] <= nTrig'
                               /\ st'[b] \in {"reading", "ready"} => ev'[b] >= 1
                               /\ st[b] # "idle" => st'[b] # "idle"
                               /\ b \in S => st'[b] = "reading"
                               /\ b \notin S => st'[b] = st[b]
<1>1. /\ st' = [b \in Board |-> IF b \in S THEN "reading" ELSE st[b]]
      /\ ev' = [b \in Board |-> IF b \in S THEN nTrig' ELSE ev[b]]
  BY DEF Latch
<1>2. /\ st \in [Board -> {"idle", "running", "reading", "ready"}]
      /\ ev \in [Board -> 0 .. MaxTrig] /\ nTrig \in Nat /\ MaxTrig \in Nat
  BY ReadoutAssumption DEF Boards
<1>3. st' \in [Board -> {"idle", "running", "reading", "ready"}]
  BY <1>1, <1>2
<1>4. ev' \in [Board -> 0 .. MaxTrig]
  BY <1>1, <1>2
<1>5. ASSUME NEW b \in Board
      PROVE  /\ ev'[b] <= nTrig'
             /\ st'[b] \in {"reading", "ready"} => ev'[b] >= 1
             /\ st[b] # "idle" => st'[b] # "idle"
             /\ b \in S => st'[b] = "reading"
             /\ b \notin S => st'[b] = st[b]
  <2>1. CASE b \in S
    BY <1>1, <1>2, <2>1
  <2>2. CASE b \notin S
    <3>1. st'[b] = st[b] /\ ev'[b] = ev[b]
      BY <1>1, <2>2
    <3>2. ev[b] \in Nat /\ ev[b] <= nTrig /\ (st[b] \in {"reading", "ready"} => ev[b] >= 1)
      BY <1>2 DEF Boards
    <3> QED
      BY <1>2, <2>2, <3>1, <3>2
  <2> QED
    BY <2>1, <2>2
<1> QED
  BY <1>3, <1>4, <1>5

LEMMA BoardsHardware == RInv /\ Hardware => Boards'
<1> SUFFICES ASSUME Control, Boards, Hardware PROVE Boards'
  BY DEF RInv
<1>1. CASE HardwareTrigger
  <2>1. /\ nTrig' = nTrig + 1 /\ nTrig < MaxTrig /\ UNCHANGED <<pc, i, mpc, mi>>
        /\ Latch({b \in Board : st[b] = "running"}, nTrig') /\ st[Master] = "running"
    BY <1>1 DEF HardwareTrigger, loopVars, mainVars
  <2>2. nTrig' \in 0 .. MaxTrig /\ nTrig <= nTrig' /\ nTrig' >= 1
    BY <2>1, ReadoutAssumption DEF Boards
  <2>3. PICK S \in SUBSET Board : S = {b \in Board : st[b] = "running"}
    OBVIOUS
  <2>7. (\A b \in S : st[b] = "running") /\ Latch(S, nTrig')
    BY <2>1, <2>3
  <2>4. /\ st' \in [Board -> {"idle", "running", "reading", "ready"}]
        /\ ev' \in [Board -> 0 .. MaxTrig]
        /\ \A b \in Board : /\ ev'[b] <= nTrig'
                            /\ st'[b] \in {"reading", "ready"} => ev'[b] >= 1
                            /\ st[b] # "idle" => st'[b] # "idle"
                            /\ b \in S => st'[b] = "reading"
    BY <2>2, <2>7, Latched
  <2>5. Master \in S /\ Master \in Board
    BY <2>1, <2>3, BoardIndex DEF Master
  <2>6. st'[Master] = "reading"
    BY <2>4, <2>5
  <2>8. pc' # "done" => \A b \in Board : st'[b] # "idle"
    BY <2>1, <2>4 DEF Boards
  <2>9. mpc' = "arm" => \A b \in Board : b < mi' => st'[b] # "idle"
    BY <2>1, <2>4 DEF Boards
  <2> QED
    BY <2>2, <2>4, <2>6, <2>8, <2>9 DEF Boards
<1>2. CASE \E b \in Board : ReadoutDone(b)
  <2>1. PICK b \in Board : ReadoutDone(b)
    BY <1>2
  <2>2. /\ st[b] = "reading" /\ st' = [st EXCEPT ![b] = "ready"]
        /\ UNCHANGED <<ev, nTrig, pc, i, mpc, mi>>
    BY <2>1 DEF ReadoutDone, loopVars, mainVars
  <2>3. st'[b] = "ready" /\ \A c \in Board : c # b => st'[c] = st[c]
    BY <2>2 DEF Boards
  <2>4. st' \in [Board -> {"idle", "running", "reading", "ready"}]
    BY <2>2 DEF Boards
  <2> QED
    BY <2>2, <2>3, <2>4, BoardIndex DEF Boards, Master
<1>3. CASE Preview
  <2>1. PICK b \in Board : StartDomino(b)
    BY <1>3 DEF Preview
  <2>2. mpc \in {"stopped", "arm"} /\ UNCHANGED <<pc, i, mpc, mi>>
    BY <1>3 DEF Preview, loopVars, mainVars
  <2>3. pc = "done"
    BY <2>2 DEF Control
  <2> QED
    BY <2>1, <2>2, <2>3, Started DEF Boards
<1> QED
  BY <1>1, <1>2, <1>3 DEF Hardware

LEMMA BoardsStep == RInv /\ [Next]_vars => Boards'
<1> SUFFICES ASSUME RInv, Control, Boards, [Next]_vars PROVE Boards'
  BY DEF RInv
<1>1. CASE Hardware
  BY <1>1, BoardsHardware
<1>2. CASE Domino
  <2>1. i \in Board /\ StartDomino(i) /\ pc = "domino" /\ mpc' = mpc /\ mi' = mi
        /\ pc' \in {"domino", "wait"}
    BY <1>2 DEF Domino, Control, Quiet, mainVars
  <2> QED
    BY <2>1, Started DEF Boards, Control
<1>3. CASE BeginDomino
  <2>1. mi \in Board /\ StartDomino(mi) /\ mpc = "arm" /\ mpc' = "arm" /\ mi' = mi + 1
        /\ pc' = pc /\ pc = "done"
    BY <1>3, ReadoutAssumption DEF BeginDomino, Control, loopVars, Board
  <2>2. \A b \in Board : b < mi + 1 => b = mi \/ b < mi
    BY <2>1, BoardIndex
  <2> QED
    BY <2>1, <2>2, Started DEF Boards
<1>4. CASE ForceTrigger
  <2>10. PICK S \in SUBSET Board : S = {i} \cap {c \in Board : st[c] = "running"}
    OBVIOUS
  <2>1. /\ pc = "force" /\ i \in Board /\ UNCHANGED <<mpc, mi>> /\ pc' \in {"wait", "force"}
        /\ nTrig' = IF i = Master /\ st[i] = "running" THEN nTrig + 1 ELSE nTrig
        /\ Latch(S, nTrig')
    BY <1>4, <2>10 DEF ForceTrigger, SoftTrigger, Control, Quiet, mainVars
  <2>2. \A b \in S : st[b] = "running" /\ b = i
    BY <2>10
  <2>3. nTrig \in 0 .. MaxTrig /\ MaxTrig \in Nat
    BY ReadoutAssumption DEF Boards
  <2>4. nTrig' \in 0 .. MaxTrig /\ nTrig <= nTrig'
    BY <2>1, <2>3 DEF Boards
  <2>5. S # {} => nTrig' >= 1
    <3> SUFFICES ASSUME S # {} PROVE nTrig' >= 1
      OBVIOUS
    <3>1. st[i] = "running"
      BY <2>2
    <3>2. CASE i = Master
      BY <2>1, <2>3, <3>1, <3>2
    <3>3. CASE i # Master
      <4>1. i > 0 /\ Master \in Board
        BY <2>1, <3>3, BoardIndex DEF Master
      <4>2. st[Master] \in {"reading", "ready"}
        BY <2>1, <4>1 DEF Boards
      <4>3. ev[Master] >= 1 /\ ev[Master] <= nTrig /\ ev[Master] \in Nat
        BY <4>1, <4>2, ReadoutAssumption DEF Boards
      <4> QED
        BY <2>3, <2>4, <4>3
    <3> QED
      BY <3>2, <3>3
  <2>6. /\ st' \in [Board -> {"idle", "running", "reading", "ready"}]
        /\ ev' \in [Board -> 0 .. MaxTrig]
        /\ \A b \in Board : /\ ev'[b] <= nTrig'
                            /\ st'[b] \in {"reading", "ready"} => ev'[b] >= 1
                            /\ st[b] # "idle" => st'[b] # "idle"
                            /\ b \in S => st'[b] = "reading"
                            /\ b \notin S => st'[b] = st[b]
    BY <2>1, <2>2, <2>4, <2>5, Latched
  <2>7. st'[Master] # "running"
    <3>1. CASE i = Master
      <4>1. st[i] = "running" => i \in S
        BY <2>1, <2>10
      <4> QED
        BY <2>1, <2>6, <3>1, <4>1
    <3>2. CASE i # Master
      <4>1. Master \in Board /\ Master \notin S /\ i > 0
        BY <2>1, <2>2, <3>2, BoardIndex DEF Master
      <4>2. st'[Master] = st[Master]
        BY <2>6, <4>1
      <4> QED
        BY <2>1, <4>1, <4>2 DEF Boards
    <3> QED
      BY <3>1, <3>2
  <2>8. \A b \in Board : st'[b] # "idle"
    BY <2>1, <2>6 DEF Boards
  <2>9. mpc' # "arm"
    BY <2>1 DEF Control
  <2> QED
    BY ONLY <2>4, <2>6, <2>7, <2>8, <2>9 DEF Boards
<1>5. CASE WaitMaster
  BY <1>5, BoardIndex DEF WaitMaster, Boards, Control, Quiet, mainVars, hwVars, Master
<1>6. CASE StartReadout
  <2>1. \A b \in Board : b < mi
    BY <1>6, BoardIndex DEF StartReadout
  <2> QED
    BY <1>6, <2>1 DEF StartReadout, Boards, hwVars
<1>7. CASE BeginOfRun
  BY <1>7, BoardIndex DEF BeginOfRun, Boards, Control, hwVars, loopVars
<1>8. ASSUME UNCHANGED hwVars, pc # "done" \/ pc' = "done", pc' # "force",
             mpc' # "arm" \/ UNCHANGED <<mpc, mi>>
      PROVE  Boards'
  BY <1>8 DEF Boards, hwVars
<1>9. CASE LoopTest \/ Decide \/ BoardBusy \/ TransferWaves
  BY <1>8, <1>9 DEF LoopTest, Decide, BoardBusy, NextBoard, TransferWaves, Quiet, mainVars
<1>10. CASE GetWp \/ FillHeader \/ FillWaves \/ Commit \/ CountEvent
  BY <1>8, <1>10 DEF GetWp, FillHeader, FillWaves, Commit, CountEvent, NextBoard, Quiet, mainVars
<1>11. CASE Consumer \/ EndOfRun \/ EndJoin \/ UNCHANGED vars
  BY <1>11 DEF Consumer, PollEvent, CopyBank, AdvanceRp, EndOfRun, EndJoin, vars,
     Boards, hwVars, loopVars, mainVars
<1> QED
  BY <1>1, <1>2, <1>3, <1>4, <1>5, <1>6, <1>7, <1>9, <1>10, <1>11, Zenon
     DEF Next, ReadoutLoop, Transition

-----------------------------------------------------------------------------
(* The ring buffer.                                                         *)

(* The slot being filled is not one of those that wait to be read.          *)
LEMMA OtherSlot ==
    ASSUME Ring, nW < nR + Capacity, NEW k \in nR .. nW - 1
    PROVE  SlotAt(k) # SlotAt(nW)
<1>1. k \in Nat /\ nW \in Nat /\ Capacity \in Nat \ {0} /\ k < nW /\ nW < k + Capacity
  BY ReadoutAssumption DEF Ring
<1> QED
  BY <1>1, SlotsDiffer DEF SlotAt

LEMMA ItemIsEvent ==
    ASSUME Control, Ring, data >= 1 PROVE Item \in Event
BY ReadoutAssumption DEF Control, Ring, Item, Event

LEMMA SlotUntouched ==
    ASSUME Ring, FillHeader \/ FillWaves, NEW k \in nR .. nW - 1
    PROVE  mem'[SlotAt(k)] = mem[SlotAt(k)]
<1>1. nW < nR + Capacity /\ nR \in Nat /\ nW \in Nat
  BY DEF Ring, FillHeader, FillWaves
<1>2. k \in Nat /\ SlotAt(k) # SlotAt(nW)
  BY <1>1, OtherSlot
<1>3. SlotAt(k) \in 0 .. Capacity - 1 /\ SlotAt(nW) \in 0 .. Capacity - 1
  BY <1>1, <1>2, SlotIndex
<1>4. mem \in [0 .. Capacity - 1 -> [header : Event \cup {Empty}, waves : Event \cup {Empty}]]
  BY DEF Ring
<1> DEFINE s == SlotAt(nW)
           t == SlotAt(k)
<1>5. \/ mem' = [mem EXCEPT ![s] = [mem[s] EXCEPT !.header = [board |-> i, trig |-> data]]]
      \/ mem' = [mem EXCEPT ![s] = [mem[s] EXCEPT !.waves = [board |-> i, trig |-> data]]]
  BY Zenon DEF FillHeader, FillWaves
<1> HIDE DEF s, t
<1>6. t \in DOMAIN mem /\ t # s
  BY <1>2, <1>3, <1>4 DEF s, t
<1>7. mem'[t] = mem[t]
  BY <1>5, <1>6
<1> QED
  BY <1>7 DEF t

LEMMA RingFill ==
    ASSUME Control, Boards, Ring, FillHeader \/ FillWaves PROVE Ring'
<1> DEFINE s == SlotAt(nW)
<1>1. /\ pc \in {"header", "wave"} /\ nW < nR + Capacity /\ nW \in Nat
      /\ data >= 1 /\ s \in 0 .. Capacity - 1 /\ Item \in Event
      /\ UNCHANGED <<nW, nR, i, data, mpc, out>> /\ Item' = Item
  BY SlotIndex, ItemIsEvent DEF FillHeader, FillWaves, Ring, Quiet, mainVars, Item
<1> HIDE DEF s
<1>2. mem \in [0 .. Capacity - 1 -> [header : Event \cup {Empty}, waves : Event \cup {Empty}]]
  BY DEF Ring
<1>3. mem[s] \in [header : Event \cup {Empty}, waves : Event \cup {Empty}]
  BY <1>1, <1>2
<1>4. PICK r \in [header : Event \cup {Empty}, waves : Event \cup {Empty}] :
          /\ mem' = [mem EXCEPT ![s] = r] /\ r.header = Item
          /\ pc' = "commit" => r.waves = Item
          /\ pc' \in {"wave", "commit"}
  <2>1. CASE FillHeader
    <3> DEFINE r == [header |-> Item, waves |-> mem[s].waves]
    <3>1. r \in [header : Event \cup {Empty}, waves : Event \cup {Empty}]
      BY <1>1, <1>3
    <3>2. [mem[s] EXCEPT !.header = Item] = r
      BY <1>3
    <3>3. mem' = [mem EXCEPT ![s].header = Item]
      BY <2>1 DEF FillHeader, Item, s
    <3>4. mem' = [mem EXCEPT ![s] = [mem[s] EXCEPT !.header = Item]]
      BY <3>3, Zenon
    <3>5. pc' = "wave" /\ r.header = Item
      BY <2>1 DEF FillHeader
    <3> HIDE DEF r
    <3>6. mem' = [mem EXCEPT ![s] = r]
      BY ONLY <3>2, <3>4
    <3> QED
      BY ONLY <3>1, <3>5, <3>6
  <2>2. CASE FillWaves
    <3> DEFINE r == [header |-> mem[s].header, waves |-> Item]
    <3>1. r \in [header : Event \cup {Empty}, waves : Event \cup {Empty}]
      BY <1>1, <1>3
    <3>2. [mem[s] EXCEPT !.waves = Item] = r
      BY <1>3
    <3>3. mem' = [mem EXCEPT ![s].waves = Item]
      BY <2>2 DEF FillWaves, Item, s
    <3>4. mem' = [mem EXCEPT ![s] = [mem[s] EXCEPT !.waves = Item]]
      BY <3>3, Zenon
    <3>5. pc' = "commit" /\ r.waves = Item /\ r.header = Item
      BY <2>2 DEF FillWaves, Ring, s
    <3> HIDE DEF r
    <3>6. mem' = [mem EXCEPT ![s] = r]
      BY ONLY <3>2, <3>4
    <3> QED
      BY ONLY <3>1, <3>5, <3>6
  <2> QED
    BY <2>1, <2>2
<1>5. mem' \in [0 .. Capacity - 1 -> [header : Event \cup {Empty}, waves : Event \cup {Empty}]]
  BY <1>1, <1>2, <1>4
<1>6. mem'[s] = r /\ \A t \in 0 .. Capacity - 1 : t # s => mem'[t] = mem[t]
  BY <1>1, <1>2, <1>4
<1>7. ASSUME NEW k \in nR .. nW - 1
      PROVE  mem'[SlotAt(k)] = mem[SlotAt(k)]
  BY SlotUntouched
<1>8. \A k \in nR' .. nW' - 1 : Whole(k)'
  <2> SUFFICES ASSUME NEW k \in nR .. nW - 1 PROVE Whole(k)'
    BY <1>1
  <2>1. Whole(k)
    BY DEF Ring
  <2>2. mem'[SlotAt(k)] = mem[SlotAt(k)]
    BY <1>7
  <2> QED
    BY <2>1, <2>2 DEF Whole, SlotAt
<1>9. mem'[SlotAt(nW)'].header = Item' /\ (pc' = "commit" => mem'[SlotAt(nW)'].waves = Item')
  BY <1>1, <1>4, <1>6 DEF s, SlotAt
<1>10. mpc' \in {"copy", "advance"} => nR' < nW' /\ out' = mem'[SlotAt(nR)'].header
  <2> SUFFICES ASSUME mpc \in {"copy", "advance"} PROVE nR < nW /\ out = mem'[SlotAt(nR)].header
    BY <1>1 DEF SlotAt
  <2>1. nR < nW /\ out = mem[SlotAt(nR)].header /\ nR \in nR .. nW - 1
    BY DEF Ring
  <2> QED
    BY <1>7, <2>1
<1>11. /\ nW' \in Nat /\ nR' \in Nat /\ nR' <= nW' /\ nW' < nR' + Capacity /\ nW' <= nR' + Capacity
       /\ data' \in 0 .. MaxTrig /\ data' >= 1 /\ out' \in Event \cup {Empty}
  BY <1>1 DEF Ring
<1> QED
  BY ONLY <1>4, <1>5, <1>8, <1>9, <1>10, <1>11 DEF Ring

LEMMA RingStep == RInv /\ [Next]_vars => Ring'
<1> SUFFICES ASSUME Control, Boards, Ring, [Next]_vars PROVE Ring'
  BY DEF RInv
<1>1. CASE FillHeader \/ FillWaves
  BY <1>1, RingFill
<1>2. CASE Commit
  <2>1. /\ pc = "commit" /\ pc' = "count" /\ nW' = nW + 1
        /\ UNCHANGED <<mem, nR, data, mpc, out>>
    BY <1>2 DEF Commit, Quiet, mainVars
  <2>2. Item \in Event /\ Whole(nW)
    BY <2>1, ItemIsEvent DEF Ring, Whole
  <2>3. nW \in Nat /\ nR \in Nat /\ nR <= nW /\ nW < nR + Capacity /\ Capacity \in Nat
    BY <2>1, ReadoutAssumption DEF Ring
  <2>4. ASSUME NEW k \in nR .. nW' - 1 PROVE Whole(k)
    <3>1. k = nW \/ k \in nR .. nW - 1
      BY <2>1, <2>3
    <3> QED
      BY <2>2, <3>1 DEF Ring
  <2>5. \A k \in nR' .. nW' - 1 : Whole(k)'
    BY <2>1, <2>4 DEF Whole, SlotAt
  <2>6. nW' \in Nat /\ nR' <= nW' /\ nW' <= nR' + Capacity
    BY <2>1, <2>3
  <2>7. mpc' \in {"copy", "advance"} => nR' < nW' /\ out' = mem'[SlotAt(nR)'].header
    <3>1. mpc \in {"copy", "advance"} => nR < nW /\ out = mem[SlotAt(nR)].header
      BY DEF Ring
    <3> QED
      BY <2>1, <2>3, <3>1 DEF SlotAt
  <2> QED
    BY <2>1, <2>5, <2>6, <2>7 DEF Ring
<1>3. CASE GetWp
  <2>1. UNCHANGED <<mem, nW, nR, data, mpc, out>> /\ pc = "getwp" /\ nW \in Nat /\ nR \in Nat
        /\ nW <= nR + Capacity
    BY <1>3 DEF GetWp, Quiet, mainVars, ringVars, Ring
  <2>2. pc' \in {"test", "board", "header"} /\ (pc' = "header" => nW < nR + Capacity)
    BY <1>3, <2>1, ReadoutAssumption DEF GetWp, NextBoard
  <2> QED
    BY <2>1, <2>2 DEF Ring, Whole, SlotAt
<1>4. CASE TransferWaves
  <2>1. UNCHANGED <<mem, nW, nR, mpc, out>> /\ pc' = "getwp" /\ data' = ev[i]
    BY <1>4 DEF TransferWaves, Quiet, mainVars, ringVars
  <2>2. ev[i] \in 0 .. MaxTrig /\ ev[i] >= 1
    <3>1. pc = "board" /\ ~Busy(i) /\ i \in Board
      BY <1>4 DEF TransferWaves, Control
    <3>2. st[i] = "ready"
      BY <3>1 DEF Busy, Boards
    <3> QED
      BY <3>1, <3>2 DEF Boards
  <2> QED
    BY <2>1, <2>2 DEF Ring, Whole, SlotAt
<1>5. CASE PollEvent
  <2>1. /\ UNCHANGED <<mem, nW, nR, data, pc, i>> /\ mpc' = "copy" /\ nW > nR
        /\ out' = mem[SlotAt(nR)].header
    BY <1>5 DEF PollEvent, ringVars, loopVars
  <2>2. nR \in nR .. nW - 1
    BY <2>1 DEF Ring
  <2>3. mem[SlotAt(nR)].header \in Event
    BY <2>2 DEF Ring, Whole
  <2> QED
    BY <2>1, <2>3 DEF Ring, Whole, SlotAt, Item
<1>6. CASE CopyBank
  <2>1. /\ UNCHANGED <<mem, nW, nR, data, pc, i>> /\ mpc = "copy" /\ mpc' = "advance"
        /\ out' = IF mem[SlotAt(nR)] = [header |-> out, waves |-> out] THEN out ELSE Empty
    BY <1>6 DEF CopyBank, ringVars, loopVars
  <2>2. nR < nW /\ out = mem[SlotAt(nR)].header /\ nR \in Nat
    BY <2>1 DEF Ring
  <2>3. nR \in nR .. nW - 1
    BY <2>2 DEF Ring
  <2>4. mem[SlotAt(nR)].waves = out
    BY <2>2, <2>3 DEF Ring, Whole
  <2>5. mem[SlotAt(nR)] \in [header : Event \cup {Empty}, waves : Event \cup {Empty}]
    BY <2>2, SlotIndex DEF Ring
  <2>6. mem[SlotAt(nR)] = [header |-> out, waves |-> out]
    BY <2>2, <2>4, <2>5
  <2>7. out' = out
    BY <2>1, <2>6
  <2> QED
    BY <2>1, <2>2, <2>7 DEF Ring, Whole, SlotAt, Item
<1>7. CASE AdvanceRp
  <2>1. /\ UNCHANGED <<mem, nW, data, pc, i>> /\ mpc = "advance" /\ mpc' = "poll" /\ nR' = nR + 1
        /\ out' = Empty
    BY <1>7 DEF AdvanceRp, loopVars
  <2>2. nR < nW /\ nR \in Nat /\ nW \in Nat /\ nW <= nR + Capacity /\ Capacity \in Nat
    BY <2>1, ReadoutAssumption DEF Ring
  <2>3. nR' \in Nat /\ nR' <= nW /\ nW <= nR' + Capacity
    BY <2>1, <2>2
  <2>4. \A k \in nR' .. nW - 1 : Whole(k)'
    <3>1. \A k \in nR' .. nW - 1 : k \in nR .. nW - 1
      BY <2>1, <2>2
    <3> QED
      BY <2>1, <3>1 DEF Ring, Whole, SlotAt
  <2>5. pc' \in {"header", "wave", "commit"} => nW < nR' + Capacity
    BY <2>1, <2>2 DEF Ring
  <2> QED
    BY <2>1, <2>3, <2>4, <2>5 DEF Ring, SlotAt, Item
<1>8. ASSUME UNCHANGED <<mem, nW, nR, data, out>>, mpc' \in {"copy", "advance"} => mpc' = mpc,
             \/ pc' \notin {"getwp", "header", "wave", "commit"}
             \/ UNCHANGED <<pc, i>>
      PROVE  Ring'
  BY <1>8 DEF Ring, Whole, SlotAt, Item
<1>9. CASE Hardware \/ UNCHANGED vars
  BY <1>8, <1>9 DEF Hardware, HardwareTrigger, ReadoutDone, Preview, vars, ringVars, loopVars,
     mainVars
<1>10. CASE LoopTest \/ Domino \/ WaitMaster \/ ForceTrigger \/ Decide
  BY <1>8, <1>10 DEF LoopTest, Domino, WaitMaster, ForceTrigger, Decide, ringVars, Quiet, mainVars
<1>11. CASE BoardBusy \/ CountEvent
  BY <1>8, <1>11 DEF BoardBusy, CountEvent, NextBoard, ringVars, Quiet, mainVars
<1>12. CASE Transition
  BY <1>8, <1>12 DEF Transition, BeginOfRun, BeginDomino, StartReadout, EndOfRun, EndJoin,
     ringVars, loopVars
<1> QED
  BY <1>1, <1>2, <1>3, <1>4, <1>5, <1>6, <1>7, <1>9, <1>10, <1>11, <1>12, Zenon
     DEF Next, ReadoutLoop, Consumer

-----------------------------------------------------------------------------
LEMMA RestStep == RInv /\ [Next]_vars => Rest'
<1> SUFFICES ASSUME Control, Boards, Ring, Rest, [Next]_vars PROVE Rest'
  BY DEF RInv
<1> USE DEF Rest
<1>1. CASE LoopTest
  <2>1. UNCHANGED <<forced, inEnd, cnt, delivered>> /\ armed' \in BOOLEAN
    BY <1>1 DEF LoopTest, Quiet, mainVars
  <2>2. took' = took \/ took' = {}
    BY <1>1 DEF LoopTest
  <2> QED
    BY <2>1, <2>2
<1>2. CASE WaitMaster \/ Domino
  <2>1. UNCHANGED <<armed, took, inEnd, cnt, delivered>>
    BY <1>2 DEF WaitMaster, Domino, Quiet, mainVars
  <2>2. forced' = forced \/ forced' = TRUE \/ forced' = FALSE
    BY <1>2 DEF WaitMaster, Domino
  <2> QED
    BY <2>1, <2>2
<1>3. CASE TransferWaves
  <2>1. /\ UNCHANGED <<forced, armed, inEnd, cnt, delivered>>
        /\ took' = took \cup {[board |-> i, trig |-> ev[i]]}
    BY <1>3 DEF TransferWaves, Quiet, mainVars
  <2>2. i \in Board /\ ev[i] \in 0 .. MaxTrig
    BY DEF Control, Boards
  <2> QED
    BY <2>1, <2>2
<1>4. CASE CountEvent
  <2>1. /\ UNCHANGED <<forced, armed, took, inEnd, delivered>>
        /\ cnt' = [cnt EXCEPT ![i] = cnt[i] + 1] /\ i \in Board
    BY <1>4 DEF CountEvent, mainVars, Control
  <2>2. cnt' \in [Board -> Nat]
    BY <2>1
  <2> QED
    BY <2>1, <2>2
<1>5. CASE AdvanceRp
  <2>1. /\ UNCHANGED <<forced, armed, took, inEnd, cnt>> /\ delivered' = Append(delivered, out)
    BY <1>5 DEF AdvanceRp, loopVars
  <2>2. out \in Event \cup {Empty}
    BY DEF Ring
  <2> QED
    BY <2>1, <2>2
<1>6. CASE StartReadout \/ EndOfRun \/ EndJoin
  <2>1. UNCHANGED <<forced, armed, cnt, delivered>> /\ (inEnd' = inEnd \/ inEnd' \in BOOLEAN)
    BY <1>6 DEF StartReadout, EndOfRun, EndJoin, loopVars
  <2>2. took' = took \/ took' = {}
    BY <1>6 DEF StartReadout, EndOfRun, EndJoin, loopVars
  <2> QED
    BY <2>1, <2>2
<1>7. ASSUME UNCHANGED <<forced, armed, took, inEnd, cnt, delivered>> PROVE Rest'
  BY <1>7
<1>8. CASE Hardware \/ UNCHANGED vars
  BY <1>7, <1>8 DEF Hardware, HardwareTrigger, ReadoutDone, Preview, vars, loopVars, mainVars
<1>9. CASE ForceTrigger \/ Decide \/ BoardBusy \/ GetWp \/ FillHeader \/ FillWaves \/ Commit
  BY <1>7, <1>9 DEF ForceTrigger, Decide, BoardBusy, GetWp, FillHeader, FillWaves, Commit,
     Quiet, mainVars
<1>10. CASE PollEvent \/ CopyBank \/ BeginOfRun \/ BeginDomino
  BY <1>7, <1>10 DEF PollEvent, CopyBank, BeginOfRun, BeginDomino, loopVars
<1> QED
  BY <1>1, <1>2, <1>3, <1>4, <1>5, <1>6, <1>8, <1>9, <1>10, Zenon
     DEF Next, ReadoutLoop, Consumer, Transition

LEMMA RInvStep == RInv /\ [Next]_vars => RInv'
  BY ControlStep, BoardsStep, RingStep, RestStep DEF RInv

LEMMA RInvariant == Spec => []RInv
  BY RInvInit, RInvStep, PTL DEF Spec

(* Above all: no index leaves its array and no event comes from a trigger   *)
(* that was not accepted.                                                   *)
THEOREM TypeCorrect == Spec => []TypeOK
<1>1. RInv => TypeOK
  BY DEF RInv, Control, Boards, Ring, Rest, TypeOK
<1> QED
  BY <1>1, RInvariant, PTL

-----------------------------------------------------------------------------
(* The refinement.                                                          *)

QueueShape ==
    /\ Queue \in Seq(Event) /\ Len(Queue) = nW - nR
    /\ \A k \in 1 .. nW - nR : Queue[k] = mem[SlotAt(nR + k - 1)].header

LEMMA QueueHasShape == Ring => QueueShape
<1> SUFFICES ASSUME Ring PROVE QueueShape
  OBVIOUS
<1>1. nW \in Nat /\ nR \in Nat /\ nW - nR \in Nat
  BY DEF Ring
<1>2. ASSUME NEW k \in 1 .. nW - nR
      PROVE  /\ Queue[k] = mem[SlotAt(nR + k - 1)].header
             /\ mem[SlotAt(nR + k - 1)].header \in Event
  <2>1. nR + k - 1 \in nR .. nW - 1
    BY <1>1
  <2>2. Whole(nR + k - 1)
    BY <2>1 DEF Ring
  <2> QED
    BY <2>2 DEF Queue, Whole
<1>3. Queue \in [1 .. nW - nR -> Event]
  <2>1. Queue = [k \in 1 .. nW - nR |-> Queue[k]]
    BY DEF Queue
  <2> QED
    BY <1>2, <2>1
<1> QED
  BY <1>1, <1>2, <1>3 DEF QueueShape

LEMMA SameSequence ==
    ASSUME NEW s \in Seq(Event), NEW t \in Seq(Event), Len(s) = Len(t),
           \A k \in 1 .. Len(s) : s[k] = t[k]
    PROVE  s = t
  BY SeqEqual

LEMMA StreamInit == Init => Stream!Init
<1> SUFFICES ASSUME Init PROVE Queue = <<>> /\ delivered = <<>>
  BY DEF Stream!Init
<1>1. Ring
  BY RInvInit DEF RInv
<1>2. Queue \in Seq(Event) /\ Len(Queue) = 0
  BY <1>1, QueueHasShape DEF QueueShape, Init
<1> QED
  BY <1>2 DEF Init

LEMMA StreamStep == RInv /\ RInv' /\ [Next]_vars => [Stream!Next]_<<Queue, delivered>>
<1> SUFFICES ASSUME Ring, Ring', Control, [Next]_vars
             PROVE  Stream!Next \/ (Queue' = Queue /\ delivered' = delivered)
  BY DEF RInv
<1>1. QueueShape /\ QueueShape'
  BY QueueHasShape, PTL
<1>2. nW \in Nat /\ nR \in Nat /\ nR <= nW
  BY DEF Ring
<1>3. CASE Commit
  <2>1. /\ pc = "commit" /\ nW' = nW + 1 /\ UNCHANGED <<mem, nR, delivered>>
        /\ nW < nR + Capacity
    BY <1>3 DEF Commit, Quiet, mainVars, Ring
  <2> DEFINE e == mem[SlotAt(nW)].header
  <2>2. e \in Event
    BY <2>1, ItemIsEvent DEF Ring
  <2>3. Append(Queue, e) \in Seq(Event) /\ Len(Append(Queue, e)) = nW - nR + 1
    BY <1>1, <2>2 DEF QueueShape
  <2>4. Queue' \in Seq(Event) /\ Len(Queue') = nW - nR + 1
    BY <1>1, <1>2, <2>1 DEF QueueShape
  <2>5. ASSUME NEW k \in 1 .. nW - nR + 1 PROVE Queue'[k] = Append(Queue, e)[k]
    <3>1. Queue'[k] = mem[SlotAt(nR + k - 1)].header
      BY <1>1, <1>2, <2>1 DEF QueueShape, SlotAt
    <3>2. CASE k <= nW - nR
      <4>1. Queue[k] = mem[SlotAt(nR + k - 1)].header
        BY <1>1, <1>2, <3>2 DEF QueueShape
      <4> QED
        BY <1>1, <1>2, <3>1, <3>2, <4>1 DEF QueueShape
    <3>3. CASE k = nW - nR + 1
      <4>1. nR + k - 1 = nW
        BY <1>2, <3>3
      <4> QED
        BY <1>1, <1>2, <3>1, <3>3, <4>1 DEF QueueShape
    <3>4. k <= nW - nR \/ k = nW - nR + 1
      BY <1>2
    <3> QED
      BY <3>2, <3>3, <3>4
  <2> HIDE DEF e
  <2>6. Queue' = Append(Queue, e)
    BY <2>3, <2>4, <2>5, SameSequence
  <2>7. Len(Queue) < Capacity
    BY <1>1, <1>2, <2>1, ReadoutAssumption DEF QueueShape
  <2> QED
    BY <2>1, <2>2, <2>6, <2>7 DEF Stream!Next, Stream!Record
<1>4. CASE AdvanceRp
  <2>1. /\ mpc = "advance" /\ nR' = nR + 1 /\ delivered' = Append(delivered, out)
        /\ UNCHANGED <<mem, nW>>
    BY <1>4 DEF AdvanceRp
  <2>2. nR < nW /\ out = mem[SlotAt(nR)].header
    BY <2>1 DEF Ring
  <2>3. Queue # <<>> /\ Head(Queue) = out
    <3>1. Queue[1] = mem[SlotAt(nR + 1 - 1)].header
      BY <1>1, <1>2, <2>2 DEF QueueShape
    <3>2. nR + 1 - 1 = nR
      BY <1>2
    <3> QED
      BY <1>1, <1>2, <2>2, <3>1, <3>2 DEF QueueShape
  <2>4. /\ Tail(Queue) \in Seq(Event) /\ Len(Tail(Queue)) = nW - nR - 1
        /\ \A k \in 1 .. nW - nR - 1 : Tail(Queue)[k] = Queue[k + 1]
    BY <1>1, <2>3, HeadTailProperties DEF QueueShape
  <2>5. Queue' \in Seq(Event) /\ Len(Queue') = nW - nR - 1
    BY <1>1, <1>2, <2>1 DEF QueueShape
  <2>6. ASSUME NEW k \in 1 .. nW - nR - 1 PROVE Queue'[k] = Tail(Queue)[k]
    <3>1. Queue'[k] = mem[SlotAt(nR + 1 + k - 1)].header
      BY <1>1, <1>2, <2>1 DEF QueueShape, SlotAt
    <3>2. Queue[k + 1] = mem[SlotAt(nR + (k + 1) - 1)].header
      BY <1>1, <1>2 DEF QueueShape
    <3>3. nR + 1 + k - 1 = nR + (k + 1) - 1
      BY <1>2
    <3> QED
      BY <2>4, <3>1, <3>2, <3>3
  <2>7. Queue' = Tail(Queue)
    BY <2>4, <2>5, <2>6, SameSequence
  <2> QED
    BY <2>1, <2>3, <2>7 DEF Stream!Next, Stream!Deliver
<1>5. CASE FillHeader \/ FillWaves
  <2>1. UNCHANGED <<nW, nR, delivered>> /\ nW < nR + Capacity
    BY <1>5 DEF FillHeader, FillWaves, Quiet, mainVars, Ring
  <2>2. ASSUME NEW k \in nR .. nW - 1 PROVE mem'[SlotAt(k)] = mem[SlotAt(k)]
    BY <1>5, <2>2, SlotUntouched
  <2>3. Queue' \in Seq(Event) /\ Len(Queue') = nW - nR /\ Queue \in Seq(Event) /\ Len(Queue) = nW - nR
    BY <1>1, <1>2, <2>1 DEF QueueShape
  <2>4. ASSUME NEW k \in 1 .. nW - nR PROVE Queue'[k] = Queue[k]
    <3>1. nR + k - 1 \in nR .. nW - 1
      BY <1>2
    <3>2. Queue'[k] = mem'[SlotAt(nR + k - 1)].header
      BY <1>1, <1>2, <2>1 DEF QueueShape, SlotAt
    <3>3. Queue[k] = mem[SlotAt(nR + k - 1)].header
      BY <1>1, <1>2 DEF QueueShape
    <3> QED
      BY <2>2, <3>1, <3>2, <3>3
  <2>5. Queue' = Queue
    BY <2>3, <2>4, SameSequence
  <2> QED
    BY <2>1, <2>5
<1>6. ASSUME UNCHANGED <<mem, nW, nR, delivered>> PROVE Queue' = Queue /\ delivered' = delivered
  BY <1>6 DEF Queue, SlotAt
<1>7. CASE Hardware \/ UNCHANGED vars
  BY <1>6, <1>7 DEF Hardware, HardwareTrigger, ReadoutDone, Preview, vars, ringVars, mainVars
<1>8. CASE LoopTest \/ Domino \/ WaitMaster \/ ForceTrigger \/ Decide
  BY <1>6, <1>8 DEF LoopTest, Domino, WaitMaster, ForceTrigger, Decide, ringVars, Quiet, mainVars
<1>9. CASE BoardBusy \/ TransferWaves \/ GetWp \/ CountEvent
  BY <1>6, <1>9 DEF BoardBusy, TransferWaves, GetWp, CountEvent, ringVars, Quiet, mainVars
<1>10. CASE PollEvent \/ CopyBank \/ Transition
  BY <1>6, <1>10 DEF PollEvent, CopyBank, Transition, BeginOfRun, BeginDomino, StartReadout,
     EndOfRun, EndJoin, ringVars
<1> QED
  BY <1>3, <1>4, <1>5, <1>7, <1>8, <1>9, <1>10, Zenon DEF Next, ReadoutLoop, Consumer

(* readout_loop and fill_midas_banks implement the event stream, for any    *)
(* buffer: banks are whole events in the order they were recorded.          *)
THEOREM ReadoutImplementsStream == Spec => ImplementsStream
<1> QED
  BY StreamInit, StreamStep, RInvariant, PTL DEF Spec, ImplementsStream, Stream!Spec


-----------------------------------------------------------------------------
(* The recorded events: what was delivered and what is in the buffer.       *)

All == delivered \o Queue

Bank == Event \cup {Empty}

LEMMA Delivering ==
    ASSUME NEW d \in Seq(Bank), NEW q \in Seq(Bank), q # <<>>
    PROVE  Append(d, Head(q)) \o Tail(q) = d \o q
<1>1. /\ Tail(q) \in Seq(Bank) /\ Len(Tail(q)) = Len(q) - 1 /\ Len(q) \in Nat \ {0}
      /\ \A k \in 1 .. Len(q) - 1 : Tail(q)[k] = q[k + 1]
  BY HeadTailProperties
<1> DEFINE t == Tail(q)
           x == Append(d, Head(q))
<1>2. x \in Seq(Bank) /\ Len(x) = Len(d) + 1 /\ x[Len(d) + 1] = q[1]
      /\ \A k \in 1 .. Len(d) : x[k] = d[k]
  BY <1>1
<1>3. t \in Seq(Bank) /\ Len(t) = Len(q) - 1 /\ \A k \in 1 .. Len(q) - 1 : t[k] = q[k + 1]
  BY <1>1
<1> HIDE DEF t, x
<1>4. /\ x \o t \in Seq(Bank) /\ d \o q \in Seq(Bank)
      /\ Len(x \o t) = Len(d) + Len(q) /\ Len(d \o q) = Len(d) + Len(q)
      /\ \A k \in 1 .. Len(d) + Len(q) :
             /\ (x \o t)[k] = IF k <= Len(d) + 1 THEN x[k] ELSE t[k - (Len(d) + 1)]
             /\ (d \o q)[k] = IF k <= Len(d) THEN d[k] ELSE q[k - Len(d)]
  <2>1. /\ x \o t \in Seq(Bank) /\ Len(x \o t) = Len(x) + Len(t)
        /\ \A k \in 1 .. Len(x) + Len(t) :
               (x \o t)[k] = IF k <= Len(x) THEN x[k] ELSE t[k - Len(x)]
    BY <1>2, <1>3, ConcatProperties
  <2>2. /\ d \o q \in Seq(Bank) /\ Len(d \o q) = Len(d) + Len(q)
        /\ \A k \in 1 .. Len(d) + Len(q) :
               (d \o q)[k] = IF k <= Len(d) THEN d[k] ELSE q[k - Len(d)]
    BY ConcatProperties
  <2>3. Len(d) \in Nat /\ Len(x) + Len(t) = Len(d) + Len(q)
    BY <1>1, <1>2, <1>3
  <2> QED
    BY <1>2, <2>1, <2>2, <2>3
<1>5. ASSUME NEW k \in 1 .. Len(d) + Len(q) PROVE (x \o t)[k] = (d \o q)[k]
  <2>1. CASE k <= Len(d)
    BY <1>2, <1>4, <2>1
  <2>2. CASE k = Len(d) + 1
    <3>1. k - Len(d) = 1 /\ ~(k <= Len(d)) /\ k <= Len(d) + 1
      BY <2>2
    <3>2. (d \o q)[k] = q[1]
      BY <1>4, <3>1
    <3>3. (x \o t)[k] = x[Len(d) + 1]
      BY <1>4, <2>2, <3>1
    <3> QED
      BY <1>2, <3>2, <3>3
  <2>3. CASE k > Len(d) + 1
    <3>1. (x \o t)[k] = t[k - (Len(d) + 1)] /\ k - (Len(d) + 1) \in 1 .. Len(q) - 1
      BY <1>1, <1>4, <2>3
    <3>2. (d \o q)[k] = q[k - Len(d)] /\ k - (Len(d) + 1) + 1 = k - Len(d)
      BY <1>4, <2>3
    <3> QED
      BY <1>3, <3>1, <3>2
  <2>4. Len(d) \in Nat /\ k \in Int
    OBVIOUS
  <2>5. k <= Len(d) \/ k = Len(d) + 1 \/ k > Len(d) + 1
    BY <2>4
  <2> QED
    BY <2>1, <2>2, <2>3, <2>5
<1>6. x \o t = d \o q
  <2>1. \A k \in 1 .. Len(x \o t) : (x \o t)[k] = (d \o q)[k]
    BY <1>4, <1>5
  <2> QED
    BY <1>4, <2>1, SeqEqual
<1> QED
  BY <1>6 DEF x, t

LEMMA Recording ==
    ASSUME NEW d \in Seq(Bank), NEW q \in Seq(Bank), NEW e \in Bank
    PROVE  d \o Append(q, e) = Append(d \o q, e)
<1>1. /\ d \o Append(q, e) \in Seq(Bank) /\ Append(d \o q, e) \in Seq(Bank)
      /\ Len(d \o Append(q, e)) = Len(d) + Len(q) + 1
      /\ Len(Append(d \o q, e)) = Len(d) + Len(q) + 1
  OBVIOUS
<1>2. ASSUME NEW k \in 1 .. Len(d) + Len(q) + 1
      PROVE  (d \o Append(q, e))[k] = Append(d \o q, e)[k]
  OBVIOUS
<1> QED
  BY <1>1, <1>2, SeqEqual

(* The events recorded are the banks of the stream, whole or not.           *)
LEMMA AllBanks ==
    RInv => All \in Seq(Bank) /\ Queue \in Seq(Bank) /\ delivered \in Seq(Bank)
<1> SUFFICES ASSUME RInv PROVE Queue \in Seq(Bank) /\ delivered \in Seq(Bank)
  BY DEF All
<1>1. Queue \in Seq(Event)
  BY QueueHasShape DEF RInv, QueueShape
<1>2. Queue \in Seq(Bank)
  BY <1>1 DEF Bank
<1> QED
  BY <1>2 DEF RInv, Rest, Bank

LEMMA WpStays == [Next]_vars /\ ~Commit => nW' = nW
<1> SUFFICES ASSUME [Next]_vars, ~Commit PROVE nW' = nW
  OBVIOUS
<1>1. CASE Hardware \/ UNCHANGED vars
  BY <1>1 DEF Hardware, HardwareTrigger, ReadoutDone, Preview, vars, ringVars
<1>2. CASE LoopTest \/ Domino \/ WaitMaster \/ ForceTrigger \/ Decide
  BY <1>2 DEF LoopTest, Domino, WaitMaster, ForceTrigger, Decide, ringVars
<1>3. CASE BoardBusy \/ TransferWaves \/ GetWp \/ FillHeader \/ FillWaves \/ CountEvent
  BY <1>3 DEF BoardBusy, TransferWaves, GetWp, FillHeader, FillWaves, CountEvent, ringVars
<1>4. CASE Consumer \/ Transition
  BY <1>4 DEF Consumer, PollEvent, CopyBank, AdvanceRp, Transition, BeginOfRun, BeginDomino,
     StartReadout, EndOfRun, EndJoin, ringVars
<1> QED
  BY <1>1, <1>2, <1>3, <1>4, Zenon DEF Next, ReadoutLoop

LEMMA RpMoves == [Next]_vars => nR' = nR \/ nR' = nR + 1
<1> SUFFICES ASSUME [Next]_vars PROVE nR' = nR \/ nR' = nR + 1
  OBVIOUS
<1>1. CASE Hardware \/ UNCHANGED vars
  BY <1>1 DEF Hardware, HardwareTrigger, ReadoutDone, Preview, vars, ringVars
<1>2. CASE LoopTest \/ Domino \/ WaitMaster \/ ForceTrigger \/ Decide
  BY <1>2 DEF LoopTest, Domino, WaitMaster, ForceTrigger, Decide, ringVars
<1>3. CASE BoardBusy \/ TransferWaves \/ GetWp \/ FillHeader \/ FillWaves \/ Commit \/ CountEvent
  BY <1>3 DEF BoardBusy, TransferWaves, GetWp, FillHeader, FillWaves, Commit, CountEvent, ringVars
<1>4. CASE Consumer \/ Transition
  BY <1>4 DEF Consumer, PollEvent, CopyBank, AdvanceRp, Transition, BeginOfRun, BeginDomino,
     StartReadout, EndOfRun, EndJoin, ringVars
<1> QED
  BY <1>1, <1>2, <1>3, <1>4, Zenon DEF Next, ReadoutLoop

(* Commit appends the event the worker holds; no other step changes what is *)
(* recorded.                                                                *)
LEMMA AllStep ==
    RInv /\ RInv' /\ [Next]_vars =>
        \/ All' = All /\ ~Commit
        \/ Commit /\ Item \in Event /\ All' = Append(All, Item)
<1> SUFFICES ASSUME RInv, RInv', [Next]_vars
             PROVE  \/ All' = All /\ ~Commit
                    \/ Commit /\ Item \in Event /\ All' = Append(All, Item)
  OBVIOUS
<1>1. Queue \in Seq(Bank) /\ delivered \in Seq(Bank)
  BY AllBanks
<1>2. /\ QueueShape /\ QueueShape' /\ nW \in Nat /\ nR \in Nat /\ nR <= nW
  BY QueueHasShape, PTL DEF RInv, Ring
<1>3. Stream!Next \/ (Queue' = Queue /\ delivered' = delivered)
  BY StreamStep
<1>4. Len(Queue) = nW - nR /\ Len(Queue') = nW' - nR'
  BY <1>2 DEF QueueShape
<1>5. CASE Commit
  <2>1. /\ nW' = nW + 1 /\ pc = "commit" /\ UNCHANGED <<nR, delivered, mem>>
    BY <1>5 DEF Commit, Quiet, mainVars
  <2>2. Len(Queue') = Len(Queue) + 1
    BY <1>2, <1>4, <2>1
  <2>3. Stream!Record
    <3>1. ~ Stream!Deliver
      <4> SUFFICES ASSUME Stream!Deliver PROVE FALSE
        OBVIOUS
      <4>1. Queue # <<>> /\ Queue' = Tail(Queue)
        BY DEF Stream!Deliver
      <4>2. Len(Queue') = Len(Queue) - 1
        BY <1>1, <4>1, HeadTailProperties
      <4> QED
        BY <1>2, <1>4, <2>2, <4>2
    <3>2. Queue' # Queue
      BY <1>2, <1>4, <2>2
    <3> QED
      BY <1>3, <3>1, <3>2 DEF Stream!Next
  <2>4. PICK e \in Event : Queue' = Append(Queue, e)
    BY <2>3 DEF Stream!Record
  <2>5. Queue'[nW - nR + 1] = e
    BY <1>1, <1>4, <2>4
  <2>6. Queue'[nW - nR + 1] = mem[SlotAt(nW)].header
    <3>1. nW - nR + 1 \in 1 .. nW' - nR' /\ nR' + (nW - nR + 1) - 1 = nW
      BY <1>2, <2>1
    <3>2. Queue'[nW - nR + 1] = mem'[SlotAt(nR' + (nW - nR + 1) - 1)].header
      BY <1>2, <3>1 DEF QueueShape, SlotAt
    <3> QED
      BY <2>1, <3>1, <3>2
  <2>7. e = Item
    BY <2>1, <2>5, <2>6 DEF RInv, Ring
  <2>8. All' = delivered \o Append(Queue, e)
    BY <2>1, <2>4 DEF All
  <2>9. delivered \o Append(Queue, e) = Append(delivered \o Queue, e)
    BY <1>1, Recording DEF Bank
  <2> QED
    BY <1>5, <2>7, <2>8, <2>9 DEF All
<1>6. CASE ~Commit
  <2>1. nW' = nW /\ (nR' = nR \/ nR' = nR + 1)
    BY <1>6, WpStays, RpMoves
  <2>2. Len(Queue') <= Len(Queue)
    BY <1>2, <1>4, <2>1
  <2>3. CASE Stream!Record
    <3>1. PICK e \in Event : Queue' = Append(Queue, e)
      BY <2>3 DEF Stream!Record
    <3>2. Len(Queue') = Len(Queue) + 1
      BY <1>1, <3>1
    <3> QED
      BY <1>2, <1>4, <2>2, <3>2
  <2>4. CASE Stream!Deliver
    <3>1. Queue # <<>> /\ Queue' = Tail(Queue) /\ delivered' = Append(delivered, Head(Queue))
      BY <2>4 DEF Stream!Deliver
    <3> QED
      BY <1>1, <1>6, <3>1, Delivering DEF All
  <2>5. CASE Queue' = Queue /\ delivered' = delivered
    BY <1>6, <2>5 DEF All
  <2> QED
    BY <1>3, <2>3, <2>4, <2>5 DEF Stream!Next
<1> QED
  BY <1>5, <1>6

-----------------------------------------------------------------------------
(* No event is recorded twice.                                              *)

(* What is recorded of board b is older than trigger t.                     *)
Older(b, t) == \A k \in 1 .. Len(All) : All[k].board = b => All[k].trig < t

(* The boards that this iteration has started and not yet transferred.      *)
Unread(b) ==
    \/ pc \in {"wait", "force", "decide"}
    \/ pc \in {"board", "getwp", "header", "wave", "commit"} /\ b >= i
    \/ pc \in {"domino", "count"} /\ b > i

(* A board that stopped since it was started holds new data, and the event  *)
(* the worker holds is still in its board; a software trigger that reaches  *)
(* a slave when the master has stopped carries a new number.                *)
Fresh ==
    /\ NoDuplicateEvent
    /\ \A k \in 1 .. Len(All) : All[k].trig <= nTrig
    /\ pc \in {"getwp", "header", "wave", "commit"} => st[i] = "ready" /\ data = ev[i]
    /\ \A b \in Board : st[b] \in {"reading", "ready"} /\ Unread(b) => Older(b, ev[b])
    /\ pc \in {"wait", "force"} /\ st[Master] # "running" =>
           \A b \in Board : st[b] = "running" => Older(b, nTrig)

LEMMA FreshInit == Init => Fresh
<1> SUFFICES ASSUME Init PROVE Fresh
  OBVIOUS
<1>1. Queue = <<>> /\ delivered = <<>>
  BY StreamInit DEF Stream!Init
<1>2. Len(All) = 0
  BY <1>1 DEF All
<1>3. NoDuplicateEvent
  BY <1>1 DEF NoDuplicateEvent
<1>4. pc = "done"
  BY DEF Init
<1> QED
  BY <1>2, <1>3, <1>4 DEF Fresh, Unread, Older

(* A step that records nothing, starts no trigger and moves the loop to a   *)
(* place where no more is claimed.                                          *)
LEMMA FreshQuiet ==
    ASSUME Fresh, All' = All, UNCHANGED <<st, ev, nTrig>>,
           \A b \in Board : Unread(b)' => Unread(b),
           pc' \in {"getwp", "header", "wave", "commit"} =>
               st[i'] = "ready" /\ data' = ev[i'],
           pc' \in {"wait", "force"} => pc \in {"wait", "force"}
    PROVE  Fresh'
<1>1. NoDuplicateEvent'
  BY DEF Fresh, NoDuplicateEvent, All
<1>2. \A b \in Board : \A t : Older(b, t) => Older(b, t)'
  BY DEF Older
<1> QED
  BY <1>1, <1>2 DEF Fresh, Older

(* The steps that start or stop boards.                                     *)
LEMMA FreshBoards ==
    ASSUME RInv, Fresh, All' = All, Hardware \/ Domino \/ BeginDomino
    PROVE  Fresh'
<1>1. NoDuplicateEvent'
  BY DEF Fresh, NoDuplicateEvent, All
<1>2. All' = All
  OBVIOUS
<1>3. Boards /\ Control /\ nTrig \in Nat
  BY DEF RInv, Boards
<1>4. CASE HardwareTrigger
  <2>1. /\ nTrig' = nTrig + 1 /\ st[Master] = "running" /\ UNCHANGED <<pc, i, data>>
        /\ Latch({b \in Board : st[b] = "running"}, nTrig')
    BY <1>4 DEF HardwareTrigger, loopVars
  <2>2. \A b \in Board : IF st[b] = "running" THEN st'[b] = "reading" /\ ev'[b] = nTrig'
                                              ELSE st'[b] = st[b] /\ ev'[b] = ev[b]
    BY <2>1 DEF Latch
  <2>3. \A k \in 1 .. Len(All) : All[k].trig < nTrig' /\ All[k].trig <= nTrig'
    <3>1. \A k \in 1 .. Len(All) : All[k].trig \in Int
      BY AllBanks DEF Bank, Event, Empty
    <3> QED
      BY <1>3, <2>1, <3>1 DEF Fresh
  <2>4. \A b \in Board : Older(b, nTrig)'
    BY <2>3 DEF Older
  <2>5. \A b \in Board : st'[b] \in {"reading", "ready"} /\ Unread(b)' => Older(b, ev[b])'
    <3> SUFFICES ASSUME NEW b \in Board, st'[b] \in {"reading", "ready"}, Unread(b)'
                 PROVE  Older(b, ev[b])'
      OBVIOUS
    <3>1. Unread(b)
      BY <2>1 DEF Unread
    <3>2. CASE st[b] = "running"
      BY <2>2, <2>4, <3>2
    <3>3. CASE st[b] # "running"
      BY <1>2, <2>2, <3>1, <3>3 DEF Fresh, Older
    <3> QED
      BY <3>2, <3>3
  <2> QED
    BY <1>1, <1>3, <2>1, <2>2, <2>3, <2>4, <2>5 DEF Fresh, Control
<1>5. CASE \E b \in Board : ReadoutDone(b)
  <2>1. PICK b \in Board : ReadoutDone(b)
    BY <1>5
  <2>2. /\ st[b] = "reading" /\ st' = [st EXCEPT ![b] = "ready"]
        /\ UNCHANGED <<ev, nTrig, pc, i, data>>
    BY <2>1 DEF ReadoutDone, loopVars
  <2>3. st'[b] = "ready" /\ \A c \in Board : c # b => st'[c] = st[c]
    BY <1>3, <2>2 DEF Boards
  <2>4. Master \in Board /\ i \in Board
    BY <1>3, BoardIndex DEF Master, Control
  <2>5. \A c \in Board : /\ st'[c] \in {"reading", "ready"} <=> st[c] \in {"reading", "ready"}
                         /\ st'[c] = "running" <=> st[c] = "running"
                         /\ st[c] = "ready" => st'[c] = "ready"
    BY <2>2, <2>3
  <2> QED
    BY <1>1, <1>2, <2>2, <2>4, <2>5 DEF Fresh, Unread, Older
<1>6. CASE Preview \/ BeginDomino
  <2>1. pc = "done" /\ pc' = "done" /\ nTrig' = nTrig
    BY <1>3, <1>6 DEF Preview, BeginDomino, StartDomino, loopVars, Control
  <2> QED
    BY <1>1, <2>1 DEF Fresh, Unread
<1>7. CASE Domino
  <2>1. i \in Board /\ StartDomino(i) /\ pc = "domino" /\ pc' \in {"domino", "wait"}
    BY <1>3, <1>7 DEF Domino, Control
  <2>2. /\ st'[i] = "running" /\ \A c \in Board : c # i => st'[c] = st[c]
        /\ ev' = ev /\ nTrig' = nTrig
    BY <1>3, <2>1, Started
  <2>3. \/ i > 0 /\ pc' = "domino" /\ i' = i - 1
        \/ i = 0 /\ pc' = "wait"
    BY <1>7, <2>1, BoardIndex DEF Domino
  <2>4. \A b \in Board : Unread(b)' => b = i \/ Unread(b)
    <3>1. \A b \in Board : b \in Nat
      BY BoardIndex
    <3>2. \A b \in Board : (b > i - 1 => b = i \/ b > i) /\ (i = 0 => b = i \/ b > i)
      BY <2>1, <3>1
    <3> QED
      BY <2>1, <2>3, <3>2 DEF Unread
  <2>5. \A b \in Board : st'[b] \in {"reading", "ready"} /\ Unread(b)' => Older(b, ev[b])'
    BY <1>2, <2>2, <2>4 DEF Fresh, Older
  <2>6. pc' = "wait" => st'[Master] = "running"
    BY <2>2, <2>3 DEF Master
  <2> QED
    BY <1>1, <2>1, <2>2, <2>5, <2>6 DEF Fresh
<1> QED
  BY <1>4, <1>5, <1>6, <1>7 DEF Hardware

LEMMA FreshForce ==
    ASSUME RInv, Fresh, All' = All, ForceTrigger
    PROVE  Fresh'
<1>1. NoDuplicateEvent'
  BY DEF Fresh, NoDuplicateEvent, All
<1>2. All' = All
  OBVIOUS
<1>3. Boards /\ Control /\ nTrig \in Nat /\ Master \in Board /\ i \in Board
  BY BoardIndex DEF RInv, Boards, Control, Master
<1>4. /\ pc = "force" /\ pc' \in {"wait", "force"}
      /\ nTrig' = IF i = Master /\ st[i] = "running" THEN nTrig + 1 ELSE nTrig
      /\ Latch({i} \cap {c \in Board : st[c] = "running"}, nTrig')
  BY DEF ForceTrigger, SoftTrigger
<1>5. \A b \in Board : IF b = i /\ st[b] = "running" THEN st'[b] = "reading" /\ ev'[b] = nTrig'
                                                     ELSE st'[b] = st[b] /\ ev'[b] = ev[b]
  BY <1>4 DEF Latch
<1>6. \A k \in 1 .. Len(All) : All[k].trig \in Int /\ All[k].trig <= nTrig
  BY AllBanks DEF Bank, Event, Empty, Fresh
<1>7. CASE i = Master /\ st[i] = "running"
  <2>1. \A k \in 1 .. Len(All) : All[k].trig < nTrig' /\ All[k].trig <= nTrig'
    BY <1>3, <1>4, <1>6, <1>7
  <2>2. \A b \in Board : Older(b, nTrig)'
    BY <2>1 DEF Older
  <2>3. \A b \in Board : st'[b] \in {"reading", "ready"} => Older(b, ev[b])'
    BY <1>2, <1>4, <1>5, <2>2 DEF Fresh, Unread, Older
  <2> QED
    BY <1>1, <1>4, <2>1, <2>2, <2>3 DEF Fresh
<1>8. CASE ~(i = Master /\ st[i] = "running")
  <2>1. nTrig' = nTrig
    BY <1>4, <1>8
  <2>2. st[Master] # "running"
    <3>1. CASE i = Master
      BY <1>8, <3>1
    <3>2. CASE i # Master
      <4>1. i > 0
        BY <1>3, <3>2, BoardIndex DEF Master
      <4> QED
        BY <1>3, <1>4, <4>1 DEF Boards
    <3> QED
      BY <3>1, <3>2
  <2>3. \A b \in Board : st[b] = "running" => Older(b, nTrig)
    BY <1>4, <2>2 DEF Fresh
  <2>4. \A b \in Board : st'[b] \in {"reading", "ready"} => Older(b, ev[b])'
    BY <1>2, <1>4, <1>5, <2>1, <2>3 DEF Fresh, Unread, Older
  <2>5. \A b \in Board : st'[b] = "running" => Older(b, nTrig)'
    BY <1>2, <1>5, <2>1, <2>3 DEF Older
  <2>6. \A k \in 1 .. Len(All') : All'[k].trig <= nTrig'
    BY <1>6, <2>1
  <2> QED
    BY <1>1, <1>4, <2>4, <2>5, <2>6 DEF Fresh
<1> QED
  BY <1>7, <1>8

(* What is recorded is new: it is newer than all that is recorded of its    *)
(* board.                                                                   *)
LEMMA FreshCommit ==
    ASSUME RInv, Fresh, Commit, Item \in Event, All' = Append(All, Item)
    PROVE  Fresh'
<1>1. /\ pc = "commit" /\ pc' = "count" /\ UNCHANGED <<i, data, st, ev, nTrig>>
  BY DEF Commit, hwVars
<1>2. /\ i \in Board /\ st[i] = "ready" /\ data = ev[i] /\ ev[i] <= nTrig
      /\ Item.board = i /\ Item.trig = ev[i]
  BY <1>1 DEF RInv, Control, Boards, Fresh, Item
<1>3. Unread(i) /\ i \in Int
  BY <1>1, <1>2, BoardIndex DEF Unread
<1>4. Older(i, ev[i])
  BY <1>2, <1>3 DEF Fresh, Older
<1>5. /\ All \in Seq(Bank) /\ Len(All) \in Nat /\ Len(All') = Len(All) + 1
      /\ All'[Len(All) + 1] = Item /\ \A k \in 1 .. Len(All) : All'[k] = All[k]
  BY AllBanks DEF Bank
<1>6. \A k \in 1 .. Len(All') : k \in 1 .. Len(All) \/ k = Len(All) + 1
  BY <1>5
<1>7. \A k \in 1 .. Len(All) : All[k] # Item
  <2> SUFFICES ASSUME NEW k \in 1 .. Len(All), All[k] = Item PROVE FALSE
    OBVIOUS
  <2>1. All[k].trig < ev[i]
    BY <1>2, <1>4 DEF Older
  <2>2. ev[i] \in Nat
    BY <1>2 DEF RInv, Boards
  <2> QED
    BY <1>2, <2>1, <2>2
<1>8. NoDuplicateEvent'
  <2>1. \A j, k \in 1 .. Len(All) : j # k => All[j] # All[k]
    BY DEF Fresh, NoDuplicateEvent, All
  <2>2. \A j, k \in 1 .. Len(All') : j # k => All'[j] # All'[k]
    BY <1>5, <1>6, <1>7, <2>1
  <2> QED
    BY <2>2 DEF NoDuplicateEvent, All
<1>9. \A k \in 1 .. Len(All') : All'[k].trig <= nTrig'
  BY <1>1, <1>2, <1>5, <1>6 DEF Fresh, Older
<1>10. ASSUME NEW b \in Board, st'[b] \in {"reading", "ready"}, Unread(b)'
       PROVE  Older(b, ev[b])'
  <2>1. b > i /\ b \in Int
    BY <1>1, <1>10, BoardIndex DEF Unread
  <2>2. Older(b, ev[b])
    <3>1. Unread(b) /\ st[b] \in {"reading", "ready"}
      BY <1>1, <1>3, <1>10, <2>1 DEF Unread
    <3> QED
      BY <3>1 DEF Fresh
  <2>3. Item.board # b
    BY <1>2, <1>3, <2>1
  <2> QED
    BY <1>1, <1>5, <1>6, <2>2, <2>3 DEF Older
<1> QED
  BY <1>1, <1>8, <1>9, <1>10 DEF Fresh

LEMMA FreshStep == RInv /\ RInv' /\ Fresh /\ [Next]_vars => Fresh'
<1> SUFFICES ASSUME RInv, RInv', Fresh, [Next]_vars PROVE Fresh'
  OBVIOUS
<1>1. CASE Commit
  <2>1. Item \in Event /\ All' = Append(All, Item)
    BY <1>1, AllStep
  <2> QED
    BY <1>1, <2>1, FreshCommit
<1>2. CASE ~Commit
  <2>1. All' = All
    BY <1>2, AllStep
  <2>2. CASE Hardware \/ Domino \/ BeginDomino
    BY <2>1, <2>2, FreshBoards
  <2>3. CASE ForceTrigger
    BY <2>1, <2>3, FreshForce
  <2> USE <2>1, BoardIndex DEF RInv
  <2>4. CASE LoopTest
    <3>1. /\ UNCHANGED <<st, ev, nTrig>>
          /\ pc' = "done" \/ (pc' = "domino" /\ i' = NBoards - 1)
      BY <2>4 DEF LoopTest, hwVars
    <3>2. \A b \in Board : ~(b > NBoards - 1)
      BY ReadoutAssumption DEF Board
    <3>3. \A b \in Board : ~Unread(b)'
      BY <3>1, <3>2 DEF Unread
    <3> QED
      BY <3>1, <3>3, FreshQuiet
  <2>5. CASE WaitMaster \/ Decide
    <3>1. /\ UNCHANGED <<st, ev, nTrig, i, data>>
          /\ pc \in {"wait", "decide"}
          /\ pc' \in {"wait", "force", "decide", "done", "test", "board"}
          /\ pc = "decide" => pc' \in {"done", "test", "board"}
      BY <2>5 DEF WaitMaster, Decide, hwVars
    <3>2. \A b \in Board : Unread(b)
      BY <3>1 DEF Unread, Fresh
    <3> QED
      BY <3>1, <3>2, FreshQuiet
  <2>6. CASE BoardBusy \/ CountEvent \/ GetWp
    <3>1. /\ UNCHANGED <<st, ev, nTrig, data>> /\ i \in Board
          /\ pc \in {"board", "count", "getwp"}
          /\ \/ pc' = "header" /\ i' = i /\ pc = "getwp"
             \/ pc' = "test"
             \/ pc' = "board" /\ i' = (i + 1) % NBoards /\ i + 1 # NBoards
      BY <2>6 DEF BoardBusy, CountEvent, GetWp, NextBoard, hwVars, Control
    <3>2. i \in Int /\ (i + 1 # NBoards => (i + 1) % NBoards = i + 1)
      <4>1. i \in 0 .. NBoards - 1 /\ NBoards \in Nat
        BY <3>1, ReadoutAssumption DEF Board
      <4> QED
        BY <4>1
    <3>3. \A b \in Board : b \in Int
      BY DEF Board
    <3>4. \A b \in Board : b >= i + 1 => b > i /\ b >= i
      <4>1. i \in Int
        BY <3>2
      <4> QED
        BY ONLY <3>3, <4>1
    <3>5. \A b \in Board : Unread(b)' => Unread(b)
      BY <3>1, <3>2, <3>4 DEF Unread
    <3> QED
      BY <3>1, <3>5, FreshQuiet DEF Fresh
  <2>7. CASE TransferWaves
    <3>1. /\ UNCHANGED <<st, ev, nTrig, i>> /\ pc = "board" /\ pc' = "getwp" /\ data' = ev[i]
          /\ ~Busy(i) /\ i \in Board
      BY <2>7 DEF TransferWaves, hwVars, Control
    <3>2. st[i] = "ready"
      BY <3>1 DEF Busy, Boards
    <3>3. \A b \in Board : Unread(b)' => Unread(b)
      BY <3>1 DEF Unread
    <3> QED
      BY <3>1, <3>2, <3>3, FreshQuiet
  <2>8. CASE FillHeader \/ FillWaves
    <3>1. /\ UNCHANGED <<st, ev, nTrig, i, data>> /\ pc \in {"header", "wave"}
          /\ pc' \in {"wave", "commit"}
      BY <2>8 DEF FillHeader, FillWaves, hwVars
    <3>2. \A b \in Board : Unread(b)' => Unread(b)
      BY <3>1 DEF Unread
    <3> QED
      BY <3>1, <3>2, FreshQuiet DEF Fresh
  <2>9. CASE StartReadout
    <3>1. UNCHANGED <<st, ev, nTrig>> /\ pc' = "test"
      BY <2>9 DEF StartReadout, hwVars
    <3>2. \A b \in Board : ~Unread(b)'
      BY <3>1 DEF Unread
    <3> QED
      BY <3>1, <3>2, FreshQuiet
  <2>10. CASE Consumer \/ BeginOfRun \/ EndOfRun \/ EndJoin \/ UNCHANGED vars
    <3>1. UNCHANGED <<st, ev, nTrig, pc, i, data>>
      BY <2>10 DEF Consumer, PollEvent, CopyBank, AdvanceRp, BeginOfRun, EndOfRun, EndJoin, vars,
         hwVars, loopVars
    <3>2. \A b \in Board : Unread(b)' => Unread(b)
      BY <3>1 DEF Unread
    <3> QED
      BY <3>1, <3>2, FreshQuiet DEF Fresh
  <2> QED
    BY <1>2, <2>2, <2>3, <2>4, <2>5, <2>6, <2>7, <2>8, <2>9, <2>10, Zenon
       DEF Next, ReadoutLoop, Transition
<1> QED
  BY <1>1, <1>2

(* No board's data of one trigger are recorded twice, across the runs, the  *)
(* time outs of the wait and the software triggers: what readout_loop       *)
(* transfers was latched after its own StartDomino().                       *)
THEOREM NothingTwice == Spec => []NoDuplicateEvent
<1>1. Fresh => NoDuplicateEvent
  BY DEF Fresh
<1> QED
  BY <1>1, FreshInit, FreshStep, RInvariant, PTL DEF Spec

-----------------------------------------------------------------------------
(* One trigger per iteration.                                               *)

(* The master has stopped, and every board that stopped has the data of     *)
(* the last trigger.                                                        *)
Stopped ==
    /\ st[Master] # "running"
    /\ \A b \in Board : st[b] # "running" => ev[b] = nTrig

Transferring == pc \in {"board", "getwp", "header", "wave", "commit", "count"}

(* If the master had stopped when the iteration began, no trigger comes     *)
(* until all boards run, and after that one no other.                       *)
Together ==
    /\ SameTrigger
    /\ ~armed =>
         /\ pc = "domino" => st[Master] # "running" /\ \A b \in Board : b > i => st[b] = "running"
         /\ pc \in {"domino", "wait", "force", "decide"} => took = {}
         /\ pc \in {"wait", "force", "decide"} => (\A b \in Board : st[b] = "running") \/ Stopped
         /\ Transferring => Stopped /\ \A e \in took : e.trig = nTrig

LEMMA TogetherInit == Init => Together
  BY DEF Init, Together, SameTrigger, Transferring

LEMMA TogetherBoards ==
    ASSUME RInv, Together, Hardware \/ Domino \/ BeginDomino \/ ForceTrigger
    PROVE  Together'
<1>1. Boards /\ Control /\ nTrig \in Nat /\ Master \in Board /\ i \in Board
  BY BoardIndex DEF RInv, Boards, Control, Master
<1>2. UNCHANGED <<armed, took>>
  BY DEF Hardware, HardwareTrigger, ReadoutDone, Preview, Domino, BeginDomino, ForceTrigger,
     loopVars
<1>3. SameTrigger'
  BY <1>2 DEF Together, SameTrigger
<1> SUFFICES ASSUME ~armed
             PROVE  /\ (pc = "domino" => st[Master] # "running"
                                        /\ \A b \in Board : b > i => st[b] = "running")'
                    /\ (pc \in {"domino", "wait", "force", "decide"} => took = {})'
                    /\ (pc \in {"wait", "force", "decide"} =>
                            (\A b \in Board : st[b] = "running") \/ Stopped)'
                    /\ (Transferring => Stopped /\ \A e \in took : e.trig = nTrig)'
  BY <1>2, <1>3 DEF Together
<1>4. CASE HardwareTrigger
  <2>1. /\ nTrig' = nTrig + 1 /\ st[Master] = "running" /\ UNCHANGED <<pc, i>>
        /\ Latch({b \in Board : st[b] = "running"}, nTrig')
    BY <1>4 DEF HardwareTrigger, loopVars
  <2>2. \A b \in Board : st[b] = "running" => st'[b] = "reading" /\ ev'[b] = nTrig'
    BY <2>1 DEF Latch
  <2>3. pc # "domino" /\ ~Transferring
    BY <2>1 DEF Together, Stopped
  <2>4. pc \in {"wait", "force", "decide"} => \A b \in Board : st[b] = "running"
    BY <2>1 DEF Together, Stopped
  <2>5. pc \in {"wait", "force", "decide"} => Stopped'
    BY <1>1, <2>2, <2>4 DEF Stopped
  <2> QED
    BY <1>2, <2>1, <2>3, <2>5 DEF Together, Transferring
<1>5. CASE \E b \in Board : ReadoutDone(b)
  <2>1. PICK b \in Board : ReadoutDone(b)
    BY <1>5
  <2>2. /\ st[b] = "reading" /\ st' = [st EXCEPT ![b] = "ready"]
        /\ UNCHANGED <<ev, nTrig, pc, i>>
    BY <2>1 DEF ReadoutDone, loopVars
  <2>3. \A c \in Board : st'[c] = "running" <=> st[c] = "running"
    BY <1>1, <2>2 DEF Boards
  <2>4. Stopped => Stopped'
    BY <1>1, <2>2, <2>3 DEF Stopped
  <2> QED
    BY <1>1, <1>2, <2>2, <2>3, <2>4 DEF Together, Transferring
<1>6. CASE Preview \/ BeginDomino
  <2>1. pc' = "done"
    BY <1>1, <1>6 DEF Preview, BeginDomino, loopVars, Control
  <2> QED
    BY <2>1 DEF Transferring
<1>7. CASE Domino
  <2>1. StartDomino(i) /\ pc = "domino"
    BY <1>7 DEF Domino
  <2>2. st'[i] = "running" /\ \A c \in Board : c # i => st'[c] = st[c]
    BY <1>1, <2>1, Started
  <2>3. \/ i > 0 /\ pc' = "domino" /\ i' = i - 1
        \/ i = 0 /\ pc' = "wait"
    BY <1>1, <1>7, BoardIndex DEF Domino
  <2>4. \A b \in Board : b \in Nat
    BY BoardIndex
  <2>5. st[Master] # "running" /\ \A b \in Board : b > i => st[b] = "running"
    BY <2>1 DEF Together
  <2>6. CASE i > 0
    <3>1. \A b \in Board : b > i - 1 => b = i \/ b > i
      BY <1>1, <2>4
    <3> QED
      BY <1>1, <1>2, <2>1, <2>2, <2>3, <2>5, <2>6, <3>1 DEF Together, Transferring, Master
  <2>7. CASE i = 0
    <3>1. \A b \in Board : b = i \/ b > i
      BY <2>4, <2>7
    <3>2. \A b \in Board : st'[b] = "running"
      BY <2>2, <2>5, <3>1
    <3> QED
      BY <1>2, <2>1, <2>3, <2>7, <3>2 DEF Together, Transferring
  <2> QED
    BY <2>3, <2>6, <2>7
<1>8. CASE ForceTrigger
  <2>1. /\ pc = "force" /\ pc' \in {"wait", "force"}
        /\ nTrig' = IF i = Master /\ st[i] = "running" THEN nTrig + 1 ELSE nTrig
        /\ Latch({i} \cap {c \in Board : st[c] = "running"}, nTrig')
    BY <1>8 DEF ForceTrigger, SoftTrigger
  <2>2. \A b \in Board :
           IF b = i /\ st[b] = "running" THEN st'[b] = "reading" /\ ev'[b] = nTrig'
                                         ELSE st'[b] = st[b] /\ ev'[b] = ev[b]
    BY <2>1 DEF Latch
  <2>3. (\A b \in Board : st[b] = "running") \/ Stopped
    BY <2>1 DEF Together
  <2>4. Stopped'
    <3>1. CASE i = Master /\ st[i] = "running"
      BY <1>1, <2>2, <2>3, <3>1 DEF Stopped
    <3>2. CASE i = Master /\ st[i] # "running"
      BY <1>1, <2>1, <2>2, <2>3, <3>2 DEF Stopped
    <3>3. CASE i # Master
      <4>1. st[Master] # "running"
        BY <1>1, <2>1, <3>3, BoardIndex DEF Boards, Master
      <4> QED
        BY <1>1, <2>1, <2>2, <2>3, <3>3, <4>1 DEF Stopped
    <3> QED
      BY <3>1, <3>2, <3>3
  <2> QED
    BY <1>2, <2>1, <2>4 DEF Together, Transferring
<1> QED
  BY <1>4, <1>5, <1>6, <1>7, <1>8 DEF Hardware

LEMMA TogetherStep == RInv /\ Together /\ [Next]_vars => Together'
<1> SUFFICES ASSUME RInv, Together, [Next]_vars PROVE Together'
  OBVIOUS
<1>1. CASE Hardware \/ Domino \/ BeginDomino \/ ForceTrigger
  BY <1>1, TogetherBoards
<1>2. CASE LoopTest
  <2>1. CASE pc' = "done" /\ UNCHANGED <<armed, took>>
    BY <2>1 DEF Together, SameTrigger, Transferring
  <2>2. CASE pc' = "domino"
    <3>1. /\ i' = NBoards - 1 /\ armed' = (st[Master] = "running") /\ took' = {}
          /\ UNCHANGED st
      BY <1>2, <2>2 DEF LoopTest, hwVars
    <3>2. \A b \in Board : ~(b > NBoards - 1)
      BY ReadoutAssumption DEF Board
    <3> QED
      BY <2>2, <3>1, <3>2 DEF Together, SameTrigger, Transferring
  <2> QED
    BY <1>2, <2>1, <2>2 DEF LoopTest
<1>3. CASE WaitMaster \/ Decide
  <2>1. /\ UNCHANGED <<st, ev, nTrig, armed, took>> /\ pc \in {"wait", "decide"}
        /\ pc' \in {"wait", "force", "decide", "done", "test", "board"}
        /\ pc' = "board" => ~Busy(Master)
    BY <1>3 DEF WaitMaster, Decide, hwVars
  <2>2. pc' = "board" => st[Master] # "running"
    BY <2>1 DEF Busy
  <2>3. Stopped' <=> Stopped
    BY <2>1 DEF Stopped
  <2>4. Master \in Board
    BY BoardIndex DEF Master
  <2> QED
    BY <2>1, <2>2, <2>3, <2>4 DEF Together, SameTrigger, Transferring
<1>4. CASE TransferWaves
  <2>1. /\ UNCHANGED <<st, ev, nTrig, armed>> /\ pc = "board" /\ pc' = "getwp"
        /\ took' = took \cup {[board |-> i, trig |-> ev[i]]} /\ ~Busy(i) /\ i \in Board
    BY <1>4 DEF TransferWaves, hwVars, RInv, Control
  <2>2. CASE armed
    BY <2>1, <2>2 DEF Together, SameTrigger, Transferring
  <2>3. CASE ~armed
    <3>1. Stopped /\ \A e \in took : e.trig = nTrig
      BY <2>1, <2>3 DEF Together, Transferring
    <3>2. ev[i] = nTrig
      BY <2>1, <3>1 DEF Stopped, Busy
    <3>3. \A e \in took' : e.trig = nTrig
      BY <2>1, <3>1, <3>2
    <3> QED
      BY <2>1, <3>1, <3>3 DEF Together, SameTrigger, Transferring, Stopped
  <2> QED
    BY <2>2, <2>3
<1>5. CASE BoardBusy \/ GetWp \/ FillHeader \/ FillWaves \/ Commit \/ CountEvent
  <2>1. /\ UNCHANGED <<st, ev, nTrig, armed, took>> /\ Transferring
        /\ Transferring' \/ pc' = "test"
    BY <1>5 DEF BoardBusy, GetWp, FillHeader, FillWaves, Commit, CountEvent, NextBoard, hwVars,
       Transferring
  <2>2. pc' \notin {"domino", "wait", "force", "decide"}
    BY <2>1 DEF Transferring
  <2> QED
    BY <2>1, <2>2 DEF Together, SameTrigger, Stopped
<1>6. CASE StartReadout
  BY <1>6 DEF StartReadout, Together, SameTrigger, Transferring
<1>7. CASE Consumer \/ BeginOfRun \/ EndOfRun \/ EndJoin \/ UNCHANGED vars
  <2>1. UNCHANGED <<st, ev, nTrig, pc, i, armed, took>>
    BY <1>7 DEF Consumer, PollEvent, CopyBank, AdvanceRp, BeginOfRun, EndOfRun, EndJoin, vars,
       hwVars, loopVars
  <2> QED
    BY <2>1 DEF Together, SameTrigger, Transferring, Stopped
<1> QED
  BY <1>1, <1>2, <1>3, <1>4, <1>5, <1>6, <1>7, Zenon DEF Next, ReadoutLoop, Transition

(* The boards' data of one iteration belong to one trigger, unless the      *)
(* master was still running when it began: it is enough that readout_loop   *)
(* starts the slaves before the master.                                     *)
THEOREM OneTrigger == Spec => []SameTrigger
<1>1. Together => SameTrigger
  BY DEF Together
<1> QED
  BY <1>1, TogetherInit, TogetherStep, RInvariant, PTL DEF Spec
=============================================================================
