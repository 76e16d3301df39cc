------------------------------ MODULE Readout -------------------------------
(***************************************************************************)
(* The data path of a run: readout_loop on the worker thread, the MIDAS    *)
(* ring buffer, is_data_available and fill_midas_banks on the main thread, *)
(* and the boards as the loop sees them.                                   *)
(*                                                                         *)
(* A board is running after StartDomino(), reads its analog cells into its *)
(* RAM after a trigger, and is then ready; IsBusy() holds in the first two *)
(* states.  The boards are daisy-chained: a hardware trigger that the      *)
(* master accepts reaches every board that runs at that moment.  All       *)
(* boards of the model are connected; RunControl has the board tables.     *)
(* An event is the data one board latched for one trigger, identified by   *)
(* the board and the number of the trigger.                                *)
(***************************************************************************)
EXTENDS Integers, Sequences, FiniteSets

CONSTANTS
    NBoards,     \* connected boards, board 0 is the master
    Capacity,    \* events the ring buffer holds (128 MB / 32 kB in the code)
    MaxTrig,     \* bound: triggers, by hardware or by software
    MaxRun,      \* bound: runs started
    PollBound    \* bound: polls of the wait for the master (100000)

ASSUME ReadoutAssumption ==
    /\ NBoards \in Nat \ {0} /\ Capacity \in Nat \ {0}
    /\ MaxTrig \in Nat /\ MaxRun \in Nat /\ PollBound \in Nat \ {0}

Board == 0 .. NBoards - 1
Master == 0
Empty == [board |-> -1, trig |-> 0]
Event == [board : Board, trig : 1 .. MaxTrig]

VARIABLES
    st,          \* st[b]: what board b does
    ev,          \* ev[b]: the trigger whose data board b latched last
    nTrig,       \* triggers so far
    pc, i,       \* readout_loop: where it is, its board index
    n, forced,   \*   polls left, software trigger already sent
    data,        \*   fWaveforms after TransferWaves()
    mem, nW, nR, \* the ring buffer: slots, events written, events read
    cnt,         \* m_event_cnt[]
    inEnd,       \* m_in_end_of_run
    mpc, mi,     \* main thread: where it is, its board index
    out,         \* header read from the slot at rp
    delivered,   \* the banks handed to MIDAS
    runs,        \* runs started
    armed,       \* history: the master was running when the iteration began
    took         \* history: the events transferred in this iteration

hwVars == <<st, ev, nTrig>>
ringVars == <<mem, nW, nR>>
loopVars == <<pc, i, n, forced, data, armed, took>>
mainVars == <<mpc, mi, out, delivered, runs, inEnd>>
vars == <<hwVars, ringVars, loopVars, mainVars, cnt>>

Busy(b) == st[b] \in {"running", "reading"}

-----------------------------------------------------------------------------
(* The boards (external).                                                   *)

StartDomino(b) == st' = [st EXCEPT ![b] = "running"] /\ UNCHANGED <<ev, nTrig>>

Latch(S, trig) ==
    /\ st' = [b \in Board |-> IF b \in S THEN "reading" ELSE st[b]]
    /\ ev' = [b \in Board |-> IF b \in S THEN trig ELSE ev[b]]

HardwareTrigger ==
    /\ st[Master] = "running" /\ nTrig < MaxTrig
    /\ nTrig' = nTrig + 1
    /\ Latch({b \in Board : st[b] = "running"}, nTrig + 1)
    /\ UNCHANGED <<ringVars, loopVars, mainVars, cnt>>

(* SoftTrigger() stops one board; a board that does not run ignores it.     *)
SoftTrigger(b) ==
    /\ nTrig' = IF b = Master /\ st[b] = "running" THEN nTrig + 1 ELSE nTrig
    /\ Latch({b} \cap {c \in Board : st[c] = "running"}, nTrig')

ReadoutDone(b) ==
    /\ st[b] = "reading"
    /\ st' = [st EXCEPT ![b] = "ready"]
    /\ UNCHANGED <<ev, nTrig, ringVars, loopVars, mainVars, cnt>>

(* Between runs the live preview keeps starting the boards.                 *)
Preview ==
    /\ mpc \in {"stopped", "arm"}
    /\ \E b \in Board : StartDomino(b)
    /\ UNCHANGED <<ringVars, loopVars, mainVars, cnt>>

-----------------------------------------------------------------------------
(* readout_loop.                                                            *)

Quiet == UNCHANGED <<mainVars, cnt>>

LoopTest ==
    /\ pc = "test"
    /\ \/ /\ inEnd
          /\ pc' = "done" /\ UNCHANGED <<i, armed, took>>
       \/ /\ ~inEnd
          /\ pc' = "domino" /\ i' = NBoards - 1
          /\ armed' = (st[Master] = "running") /\ took' = {}
    /\ UNCHANGED <<n, forced, data, hwVars, ringVars>> /\ Quiet

(* Mutated form: only the master is restarted.                              *)
DominoMasterOnly ==
    /\ pc = "domino"
    /\ StartDomino(Master)
    /\ i' = 0 /\ pc' = "wait" /\ n' = PollBound /\ forced' = FALSE
    /\ UNCHANGED <<data, armed, took, ringVars>> /\ Quiet

(* StartDomino() on the boards, last one first, so that the slaves run      *)
(* before the master can accept a trigger.                                  *)
Domino ==
    /\ pc = "domino"
    /\ StartDomino(i)
    /\ IF i > 0
         THEN i' = i - 1 /\ UNCHANGED <<pc, n, forced>>
         ELSE i' = 0 /\ pc' = "wait" /\ n' = PollBound /\ forced' = FALSE
    /\ UNCHANGED <<data, armed, took, ringVars>> /\ Quiet

WaitMaster ==
    /\ pc = "wait"
    /\ \/ /\ ~Busy(Master) \/ inEnd
          /\ pc' = "decide" /\ UNCHANGED <<n, forced>>
       \/ /\ Busy(Master) /\ ~inEnd
          /\ n' = n - 1
          /\ \/ pc' = (IF n = 1 THEN "decide" ELSE "wait") /\ UNCHANGED forced
             \/ /\ n > 1 /\ ~forced                       \* 1 s without a trigger
                /\ forced' = TRUE
                /\ \/ pc' = "wait"                        \* TriggerMode Normal
                   \/ pc' = "force" /\ nTrig < MaxTrig    \* TriggerMode Auto
    /\ UNCHANGED <<i, data, armed, took, hwVars, ringVars>> /\ Quiet

ForceTrigger ==
    /\ pc = "force"
    /\ SoftTrigger(i)
    /\ i' = (i + 1) % NBoards
    /\ pc' = IF i + 1 = NBoards THEN "wait" ELSE "force"
    /\ UNCHANGED <<n, forced, data, armed, took, ringVars>> /\ Quiet

Decide ==
    /\ pc = "decide"
    /\ \/ inEnd /\ pc' = "done"
       \/ ~inEnd /\ Busy(Master) /\ pc' = "test"
       \/ ~inEnd /\ ~Busy(Master) /\ pc' = "board"
    /\ UNCHANGED <<i, n, forced, data, armed, took, hwVars, ringVars>> /\ Quiet

(* Mutated form: the boards are started once, before the loop.              *)
NextBoardWithoutRestart ==
    /\ i' = (i + 1) % NBoards
    /\ pc' = IF i + 1 = NBoards THEN "wait" ELSE "board"

NextBoard ==
    /\ i' = (i + 1) % NBoards
    /\ pc' = IF i + 1 = NBoards THEN "test" ELSE "board"

(* A board that is still busy is skipped in this iteration.                 *)
BoardBusy ==
    /\ pc = "board" /\ Busy(i)
    /\ NextBoard
    /\ UNCHANGED <<n, forced, data, armed, took, hwVars, ringVars>> /\ Quiet

TransferWaves ==
    /\ pc = "board" /\ ~Busy(i)
    /\ pc' = "getwp"
    /\ data' = ev[i]
    /\ took' = took \cup {[board |-> i, trig |-> ev[i]]}
    /\ UNCHANGED <<i, n, forced, armed, hwVars, ringVars>> /\ Quiet

SlotAt(k) == k % Capacity

(* Mutated form: one event more than the buffer holds.                      *)
GetWpOneMore ==
    /\ pc = "getwp"
    /\ \/ nW - nR > Capacity /\ NextBoard
       \/ nW - nR <= Capacity /\ pc' = "header" /\ UNCHANGED i
    /\ UNCHANGED <<n, forced, data, armed, took, hwVars, ringVars>> /\ Quiet

(* rb_get_wp() without room: the event is dropped.                          *)
GetWp ==
    /\ pc = "getwp"
    /\ \/ nW - nR = Capacity /\ NextBoard
       \/ nW - nR < Capacity /\ pc' = "header" /\ UNCHANGED i
    /\ UNCHANGED <<n, forced, data, armed, took, hwVars, ringVars>> /\ Quiet

FillHeader ==
    /\ pc = "header" /\ pc' = "wave"
    /\ mem' = [mem EXCEPT ![SlotAt(nW)].header = [board |-> i, trig |-> data]]
    /\ UNCHANGED <<i, n, forced, data, armed, took, hwVars, nW, nR>> /\ Quiet

FillWaves ==
    /\ pc = "wave" /\ pc' = "commit"
    /\ mem' = [mem EXCEPT ![SlotAt(nW)].waves = [board |-> i, trig |-> data]]
    /\ UNCHANGED <<i, n, forced, data, armed, took, hwVars, nW, nR>> /\ Quiet

Commit ==
    /\ pc = "commit" /\ pc' = "count"
    /\ nW' = nW + 1
    /\ UNCHANGED <<i, n, forced, data, armed, took, hwVars, mem, nR>> /\ Quiet

CountEvent ==
    /\ pc = "count"
    /\ cnt' = [cnt EXCEPT ![i] = @ + 1]
    /\ NextBoard
    /\ UNCHANGED <<n, forced, data, armed, took, hwVars, ringVars, mainVars>>

ReadoutLoop == \/ LoopTest \/ Domino \/ WaitMaster \/ ForceTrigger \/ Decide \/ BoardBusy
               \/ TransferWaves \/ GetWp \/ FillHeader \/ FillWaves \/ Commit \/ CountEvent

-----------------------------------------------------------------------------
(* The main thread: MIDAS polls while the run goes on.                      *)

(* Mutated form: the last event of the buffer is not seen.                  *)
PollEventLate ==
    /\ mpc = "poll" /\ nW > nR + 1
    /\ mpc' = "copy"
    /\ out' = mem[SlotAt(nR)].header
    /\ UNCHANGED <<mi, delivered, runs, inEnd, hwVars, ringVars, loopVars, cnt>>

(* is_data_available() and the first part of fill_midas_banks(): the header *)
(* is read and checked.                                                     *)
PollEvent ==
    /\ mpc = "poll" /\ nW > nR
    /\ mpc' = "copy"
    /\ out' = mem[SlotAt(nR)].header
    /\ UNCHANGED <<mi, delivered, runs, inEnd, hwVars, ringVars, loopVars, cnt>>

(* The bank is the slot as it is when it is copied; a slot whose parts do   *)
(* not belong together is a torn event.                                     *)
CopyBank ==
    /\ mpc = "copy" /\ mpc' = "advance"
    /\ out' = IF mem[SlotAt(nR)] = [header |-> out, waves |-> out] THEN out ELSE Empty
    /\ UNCHANGED <<mi, delivered, runs, inEnd, hwVars, ringVars, loopVars, cnt>>

AdvanceRp ==
    /\ mpc = "advance" /\ mpc' = "poll"
    /\ nR' = nR + 1
    /\ delivered' = Append(delivered, out)
    /\ out' = Empty
    /\ UNCHANGED <<mi, runs, inEnd, hwVars, mem, nW, loopVars, cnt>>

(* begin_of_run starts the boards in ascending order, then the thread.      *)
BeginOfRun ==
    /\ mpc = "stopped" /\ runs < MaxRun
    /\ mpc' = "arm" /\ runs' = runs + 1 /\ mi' = 0
    /\ UNCHANGED <<out, delivered, inEnd, hwVars, ringVars, loopVars, cnt>>

BeginDomino ==
    /\ mpc = "arm" /\ mi < NBoards
    /\ StartDomino(mi)
    /\ mi' = mi + 1
    /\ UNCHANGED <<mpc, out, delivered, runs, inEnd, ringVars, loopVars, cnt>>

StartReadout ==
    /\ mpc = "arm" /\ mi = NBoards
    /\ mpc' = "poll" /\ mi' = 0
    /\ pc' = "test" /\ took' = {}
    /\ UNCHANGED <<out, delivered, runs, inEnd, hwVars, ringVars,
                   i, n, forced, data, armed, cnt>>

EndOfRun ==
    /\ mpc = "poll"
    /\ mpc' = "join" /\ inEnd' = TRUE
    /\ UNCHANGED <<mi, out, delivered, runs, hwVars, ringVars, loopVars, cnt>>

(* The ring buffer is not emptied.                                          *)
EndJoin ==
    /\ mpc = "join" /\ pc = "done"
    /\ mpc' = "stopped" /\ inEnd' = FALSE
    /\ UNCHANGED <<mi, out, delivered, runs, hwVars, ringVars, loopVars, cnt>>

Consumer == PollEvent \/ CopyBank \/ AdvanceRp
Transition == BeginOfRun \/ BeginDomino \/ StartReadout \/ EndOfRun \/ EndJoin

-----------------------------------------------------------------------------
Init ==
    /\ st = [b \in Board |-> "idle"] /\ ev = [b \in Board |-> 0] /\ nTrig = 0
    /\ pc = "done" /\ i = 0 /\ n = 0 /\ forced = FALSE /\ data = 0
    /\ mem = [k \in 0 .. Capacity - 1 |-> [header |-> Empty, waves |-> Empty]]
    /\ nW = 0 /\ nR = 0
    /\ cnt = [b \in Board |-> 0]
    /\ inEnd = FALSE /\ mpc = "stopped" /\ mi = 0 /\ out = Empty
    /\ delivered = <<>> /\ runs = 0
    /\ armed = FALSE /\ took = {}

Hardware == HardwareTrigger \/ (\E b \in Board : ReadoutDone(b)) \/ Preview

Next == Hardware \/ ReadoutLoop \/ Consumer \/ Transition

Spec == Init /\ [][Next]_vars

(* The worker thread is scheduled, MIDAS polls a running front end and      *)
(* finishes a transition it started, and a board finishes its readout.      *)
FairSpec == /\ Spec
            /\ WF_vars(ReadoutLoop) /\ WF_vars(Consumer)
            /\ WF_vars(BeginDomino \/ StartReadout \/ EndJoin)
            /\ WF_vars(\E b \in Board : ReadoutDone(b))

-----------------------------------------------------------------------------
Queue == [k \in 1 .. nW - nR |->
             LET s == mem[SlotAt(nR + k - 1)] IN
             IF s.header = s.waves THEN s.header ELSE Empty]

Stream == INSTANCE EventStream WITH queue <- Queue, delivered <- delivered

TypeOK ==
    /\ st \in [Board -> {"idle", "running", "reading", "ready"}]
    /\ ev \in [Board -> 0 .. MaxTrig] /\ nTrig \in 0 .. MaxTrig
    /\ pc \in {"done", "test", "domino", "wait", "force", "decide", "board",
               "getwp", "header", "wave", "commit", "count"}
    /\ i \in Board /\ n \in 0 .. PollBound /\ forced \in BOOLEAN /\ data \in 0 .. MaxTrig
    /\ mem \in [0 .. Capacity - 1 -> [header : Event \cup {Empty}, waves : Event \cup {Empty}]]
    /\ nW \in Nat /\ nR \in Nat /\ cnt \in [Board -> Nat] /\ inEnd \in BOOLEAN
    /\ mpc \in {"stopped", "arm", "poll", "copy", "advance", "join"} /\ mi \in 0 .. NBoards
    /\ out \in Event \cup {Empty} /\ delivered \in Seq(Event \cup {Empty})
    /\ runs \in 0 .. MaxRun /\ armed \in BOOLEAN /\ took \subseteq [board : Board, trig : 0 .. MaxTrig]

(* readout_loop and fill_midas_banks implement the event stream: banks are  *)
(* complete events in the order they were recorded, across the end of a run *)
(* and a full buffer, although the slot is filled piece by piece while the  *)
(* main thread reads.                                                       *)
ImplementsStream == Stream!Spec

(* No board's data of one trigger are recorded twice: what the loop         *)
(* transfers was always latched after its own StartDomino().                *)
NoDuplicateEvent ==
    LET all == delivered \o Queue IN
    \A j, k \in 1 .. Len(all) : j # k => all[j] # all[k]

(* The events of one iteration belong to one trigger if the master was not  *)
(* still running from before: starting the slaves first is then enough.     *)
(* (With the master running, after a time out or in the first iteration of  *)
(* a run, a trigger between two StartDomino() calls separates the boards.)  *)
SameTrigger ==
    ~armed => \A e, f \in took : e.trig = f.trig

(* Every recorded event is delivered unless the run ends first; then it     *)
(* stays in the buffer.                                                     *)
RecordedIsDelivered ==
    \A k \in 1 .. MaxTrig * NBoards : nW >= k ~> (nR >= k \/ mpc = "stopped")

(* "each board's TransferWaves runs as soon as that board's IsBusy clears": *)
(* when an iteration that transferred something is over, every board the    *)
(* trigger reached was transferred.                                         *)
TriggeredBoardsTransferred ==
    pc = "test" /\ took # {} =>
        \A b \in Board : st[b] \in {"reading", "ready"} => \E e \in took : e.board = b
=============================================================================
