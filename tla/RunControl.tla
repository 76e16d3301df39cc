----------------------------- MODULE RunControl -----------------------------
(***************************************************************************)
(* The thread and run lifecycle of the DRS4 front end                      *)
(* (src/src/drs_frontend_class.cxx, src/src/drs_frontend.cxx).             *)
(*                                                                         *)
(* Two kinds of activity share the boards:                                 *)
(*   - the main thread of the MIDAS framework, which runs one handler at   *)
(*     a time (begin_of_run, end_of_run, startabort, the Refresh watch,    *)
(*     frontend_exit);                                                     *)
(*   - the thread m_readout_thread points to, which runs either            *)
(*     live_preview_loop or readout_loop.                                  *)
(* They communicate only through the two atomic flags m_in_end_of_run and  *)
(* m_run_active, through join(), and through the unprotected board tables  *)
(* m_num_boards, m_boards[] and m_board_hw_connected[].  Every read of a   *)
(* flag or of a table entry is a step of its own, and a call of a DRSBoard *)
(* method is an interval (enter, leave), because one USB transfer takes    *)
(* longer than anything the main thread does to the tables.                *)
(***************************************************************************)
EXTENDS Integers, FiniteSets

CONSTANTS
    MaxBoards,   \* DRS4_MAX_BOARDS, the number of slots of m_boards[]
    Threads,     \* the identities a std::thread can get
    None,        \* no thread, no object in use
    Commands,    \* which requests MIDAS and the operator make
    MaxScan,     \* bound: how often the USB bus is scanned
    PollBound,   \* bound: iterations of the IsBusy() wait loops (10000, 100000)
    MayThrow     \* may reading the ODB inside a capture throw

ASSUME SizeAssumption ==
    /\ MaxBoards \in Nat \ {0}
    /\ MaxScan \in Nat \ {0}
    /\ PollBound \in Nat \ {0}

ASSUME EnvironmentAssumption ==
    /\ Commands \subseteq {"start", "stop", "abort", "refresh", "exit"}
    /\ MayThrow \in BOOLEAN
    /\ None \notin Threads \cup Int

VARIABLES
    mpc,         \* where the main thread is in the handler it runs
    mi,          \* the slot index of that handler's loop
    run,         \* MIDAS' run state as this client knows it
    inEnd,       \* m_in_end_of_run
    runActive,   \* m_run_active
    thread,      \* m_readout_thread
    w,           \* the state of every worker thread
    drs,         \* the object m_drs points to, 0 for nullptr
    scans,       \* how many DRS objects have been constructed
    num,         \* m_num_boards
    board,       \* m_boards[]: the DRS object each DRSBoard belongs to, 0 for nullptr
    hw           \* m_board_hw_connected[]

vars == <<mpc, mi, run, inEnd, runActive, thread, w, drs, scans, num, board, hw>>
flags == <<inEnd, runActive>>
boards == <<drs, scans, num, board, hw>>

Slot == 0 .. MaxBoards - 1

-----------------------------------------------------------------------------
(* The worker threads.                                                      *)

(* A board sweep is a `for` loop over the slots that calls methods of the   *)
(* connected boards; the table says where the thread goes after the sweep.  *)
SweepTo ==
    [ lconf   |-> "ltest",    \* live: apply_all_configs() on entry
      lrate   |-> "lpick",    \* live: update_trigger_rates()
      lreconf |-> "lmode",    \* live: apply_all_configs() after a change
      lcap    |-> "ltest",    \* live: capture_and_snapshot()
      rrate   |-> "rdom",     \* readout: update_trigger_rates()
      rdom    |-> "rpick",    \* readout: StartDomino(), last board first
      rforce  |-> "rwait",    \* readout: SoftTrigger() in Auto mode
      rxfer   |-> "rtest" ]   \* readout: TransferWaves() ... rb_increment_wp()

SweepPC == DOMAIN SweepTo

(* The places where the worker calls a method of m_boards[master].          *)
CallPC == {"linfo", "lstart", "lwait", "lchk", "rwait", "rchk"}

WorkerPC == SweepPC \cup CallPC
            \cup {"none", "done", "ltest", "lpick", "lmode", "rtest", "rpick", "rend"}

Worker == [ kind   : {"live", "readout"},
            pc     : WorkerPC,
            i      : Int,                          \* loop index
            obj    : {None} \cup 0 .. MaxScan,     \* the board object a method runs on
            m      : Slot,                         \* the local `master`
            n      : 0 .. PollBound,               \* polls left in a wait loop
            forced : BOOLEAN ]

NewThread(k) == [ kind |-> k, pc |-> IF k = "live" THEN "lconf" ELSE "rtest",
                  i |-> 0, obj |-> None, m |-> 0, n |-> 0, forced |-> FALSE ]

NoThread == [NewThread("live") EXCEPT !.pc = "none"]

Connected == {i \in Slot : i < num /\ hw[i]}

(* The first connected board, which live_preview_loop and readout_loop both *)
(* call the master.                                                         *)
IsMaster(i) == i \in Connected /\ \A j \in Connected : i <= j

(* The loop head: may the sweep go on, and the next index.                  *)
More(t) == IF w[t].pc = "rdom" THEN w[t].i >= 0 ELSE w[t].i < num
Advance(t) == IF w[t].pc = "rdom" THEN w[t].i - 1 ELSE w[t].i + 1

(* apply_board_config() also tests the pointer; the other loops only test   *)
(* m_board_hw_connected[].                                                  *)
Visits(t) == LET i == w[t].i IN
    /\ i \in Slot
    /\ hw[i]
    /\ w[t].pc \in {"lconf", "lreconf"} => board[i] # 0

SweepPass(t) ==
    /\ w[t].pc \in SweepPC /\ w[t].obj = None
    /\ More(t) /\ ~Visits(t)
    /\ w' = [w EXCEPT ![t].i = Advance(t)]

SweepEnter(t) ==
    /\ w[t].pc \in SweepPC /\ w[t].obj = None
    /\ More(t) /\ Visits(t)
    /\ w' = [w EXCEPT ![t].obj = board[w[t].i]]

SweepLeave(t) ==
    /\ w[t].pc \in SweepPC /\ w[t].obj # None
    /\ w' = [w EXCEPT ![t].obj = None, ![t].i = Advance(t)]

SweepEnd(t) ==
    /\ w[t].pc \in SweepPC /\ w[t].obj = None
    /\ ~More(t)
    /\ LET next == SweepTo[w[t].pc] IN
       w' = [w EXCEPT ![t].pc = next, ![t].i = IF next = "rdom" THEN num - 1 ELSE 0]

(* `midas::odb b(path)` throws when the board's ODB directory is missing;   *)
(* both loops catch it outside the loop and the thread returns.             *)
SweepThrow(t) ==
    /\ MayThrow
    /\ w[t].pc \in {"lcap", "rxfer"} /\ w[t].obj # None
    /\ w' = [w EXCEPT ![t].pc = "done", ![t].obj = None]

(* A call of a method of m_boards[master].  The slot is not tested again.   *)
CallEnter(t) ==
    /\ w[t].pc \in CallPC /\ w[t].obj = None
    /\ w' = [w EXCEPT ![t].obj = board[w[t].m]]

(* The call returned and the thread goes on at pc.                          *)
Return(t, pc) == [w EXCEPT ![t].pc = pc, ![t].obj = None, ![t].i = 0]

Returning(t, pc) == w[t].pc = pc /\ w[t].obj # None

-----------------------------------------------------------------------------
(* live_preview_loop.                                                       *)

LiveTest(t) ==
    /\ w[t].pc = "ltest"
    /\ w' = [w EXCEPT ![t].pc = IF inEnd \/ runActive THEN "done" ELSE "lrate"]

LivePick(t) ==
    /\ w[t].pc = "lpick"
    /\ \/ /\ runActive \/ Connected = {}
          /\ w' = [w EXCEPT ![t].pc = "ltest"]
       \/ /\ ~runActive
          /\ \E i \in Connected : /\ IsMaster(i)
                                  /\ w' = [w EXCEPT ![t].pc = "linfo", ![t].m = i]

(* A board whose type or serial number reads 0 is skipped; a changed        *)
(* setting of the master makes the loop configure all boards again.         *)
LiveInfo(t) ==
    /\ Returning(t, "linfo")
    /\ \E pc \in {"ltest", "lreconf", "lmode"} : w' = Return(t, pc)

LiveMode(t) ==
    /\ w[t].pc = "lmode"
    /\ \/ w' = [w EXCEPT ![t].pc = "lcap"]                                \* Auto
       \/ w' = [w EXCEPT ![t].pc = IF inEnd \/ runActive THEN "ltest"     \* Normal
                                                         ELSE "lstart"]

LiveStart(t) ==
    /\ Returning(t, "lstart")
    /\ w' = [Return(t, "lwait") EXCEPT ![t].n = PollBound]

(* One poll of the wait for a hardware trigger.                             *)
LiveWait(t) ==
    /\ Returning(t, "lwait")
    /\ \/ w' = Return(t, "lchk")                                          \* not busy
       \/ /\ inEnd \/ runActive
          /\ w' = Return(t, "lchk")
       \/ /\ ~inEnd /\ ~runActive
          /\ w' = [Return(t, IF w[t].n = 1 THEN "lchk" ELSE "lwait")
                     EXCEPT ![t].n = w[t].n - 1]

LiveCheck(t) ==
    /\ Returning(t, "lchk")
    /\ \E pc \in {"lcap", "ltest"} : w' = Return(t, pc)

LivePreview(t) == \/ LiveTest(t) \/ LivePick(t) \/ LiveInfo(t) \/ LiveMode(t)
                  \/ LiveStart(t) \/ LiveWait(t) \/ LiveCheck(t)

-----------------------------------------------------------------------------
(* readout_loop.                                                            *)

(* Mutated form: the loop condition of the live preview copied.             *)
ReadoutTestLikeLive(t) ==
    /\ w[t].pc = "rtest"
    /\ \/ /\ inEnd \/ runActive
          /\ w' = [w EXCEPT ![t].pc = "done"]
       \/ /\ ~inEnd /\ ~runActive
          /\ w' = [w EXCEPT ![t].pc = "rdom", ![t].i = num - 1]

ReadoutTest(t) ==
    /\ w[t].pc = "rtest"
    /\ \/ /\ inEnd
          /\ w' = [w EXCEPT ![t].pc = "done"]
       \/ /\ ~inEnd
          /\ \/ w' = [w EXCEPT ![t].pc = "rrate", ![t].i = 0]             \* 200 ms passed
             \/ w' = [w EXCEPT ![t].pc = "rdom", ![t].i = num - 1]

(* `if (master < 0) break;`: the thread returns although the run goes on.   *)
ReadoutPick(t) ==
    /\ w[t].pc = "rpick"
    /\ \/ /\ Connected = {}
          /\ w' = [w EXCEPT ![t].pc = "done"]
       \/ \E i \in Connected :
             /\ IsMaster(i)
             /\ w' = [w EXCEPT ![t].pc = "rwait", ![t].m = i,
                               ![t].n = PollBound, ![t].forced = FALSE]

(* One poll of the wait for the master: not busy, end of run, time out, or  *)
(* go on; after 1 s without a trigger the boards are triggered by software  *)
(* once if the master's TriggerMode is Auto.                                *)
ReadoutWait(t) ==
    /\ Returning(t, "rwait")
    /\ \/ w' = Return(t, "rend")                                          \* not busy
       \/ /\ inEnd
          /\ w' = Return(t, "rend")
       \/ /\ ~inEnd /\ w[t].n = 1
          /\ w' = [Return(t, "rend") EXCEPT ![t].n = 0]
       \/ /\ ~inEnd /\ w[t].n > 1
          /\ \/ w' = [Return(t, "rwait") EXCEPT ![t].n = w[t].n - 1]
             \/ /\ ~w[t].forced
                /\ \E pc \in {"rwait", "rforce"} :
                      w' = [Return(t, pc) EXCEPT ![t].n = w[t].n - 1, ![t].forced = TRUE]

ReadoutEnd(t) ==
    /\ w[t].pc = "rend"
    /\ w' = [w EXCEPT ![t].pc = IF inEnd THEN "done" ELSE "rchk"]

(* `if (m_boards[master]->IsBusy()) continue;`                              *)
ReadoutCheck(t) ==
    /\ Returning(t, "rchk")
    /\ \E pc \in {"rxfer", "rtest"} : w' = Return(t, pc)

Readout(t) == \/ ReadoutTest(t) \/ ReadoutPick(t) \/ ReadoutWait(t)
              \/ ReadoutEnd(t) \/ ReadoutCheck(t)

Sweep(t) == SweepPass(t) \/ SweepEnter(t) \/ SweepLeave(t) \/ SweepEnd(t) \/ SweepThrow(t)

WorkerStep(t) ==
    /\ Sweep(t) \/ CallEnter(t) \/ LivePreview(t) \/ Readout(t)
    /\ UNCHANGED <<mpc, mi, run, flags, thread, boards>>

-----------------------------------------------------------------------------
(* What the handlers of the main thread share.                              *)

Goto(from, to) == mpc = from /\ mpc' = to

(* m_readout_thread->join(); delete m_readout_thread; m_readout_thread = 0. *)
Join(from, to) ==
    /\ Goto(from, to)
    /\ \/ thread = None /\ UNCHANGED <<thread, w>>
       \/ /\ thread # None
          /\ w[thread].pc = "done"
          /\ w' = [w EXCEPT ![thread] = NoThread]
          /\ thread' = None
    /\ UNCHANGED <<mi, run, flags, boards>>

(* m_readout_thread = new std::thread(loop, this).                          *)
Spawn(from, kind, state) ==
    /\ Goto(from, "idle")
    /\ \E t \in Threads : /\ w[t].pc = "none"
                          /\ w' = [w EXCEPT ![t] = NewThread(kind)]
                          /\ thread' = t
    /\ run' = state
    /\ UNCHANGED <<mi, flags, boards>>

-----------------------------------------------------------------------------
(* frontend_init: the boards are scanned before any worker exists.          *)

Boot ==
    /\ Goto("boot", "i_spawn")
    /\ scans' = 1 /\ drs' = 1
    /\ \E n \in 0 .. MaxBoards :
          /\ num' = n
          /\ board' = [i \in Slot |-> IF i < n THEN 1 ELSE 0]
          /\ hw' = [i \in Slot |-> i < n]
    /\ UNCHANGED <<mi, run, flags, thread, w>>

BootSpawn == Spawn("i_spawn", "live", "stopped")

-----------------------------------------------------------------------------
(* begin_of_run.                                                            *)

BeginOfRun ==
    /\ "start" \in Commands /\ run = "stopped"
    /\ Goto("idle", "b_inactive")
    /\ inEnd' = FALSE
    /\ UNCHANGED <<mi, run, runActive, thread, w, boards>>

BeginInactive ==
    /\ Goto("b_inactive", "b_connect")
    /\ runActive' = FALSE
    /\ UNCHANGED <<mi, run, inEnd, thread, w, boards>>

(* Without a connected board connect_all() initialises every known board;   *)
(* each Init() may fail.  With still no board the handler returns FE_ERR_HW *)
(* and leaves the live preview running.                                     *)
BeginConnect ==
    /\ mpc = "b_connect"
    /\ \/ /\ Connected # {}
          /\ mpc' = "b_config" /\ hw' = hw
       \/ /\ Connected = {}
          /\ \E S \in SUBSET {i \in Slot : i < num /\ board[i] # 0} :
                /\ hw' = [i \in Slot |-> hw[i] \/ i \in S]
                /\ mpc' = IF S = {} THEN "idle" ELSE "b_config"
    /\ UNCHANGED <<mi, run, flags, thread, w, drs, scans, num, board>>

(* apply_all_configs() and StartDomino() on every connected board: the main *)
(* thread uses the boards, nothing of this module's state changes.          *)
BeginConfig ==
    /\ Goto("b_config", "b_active")
    /\ UNCHANGED <<mi, run, flags, thread, w, boards>>

(* Mutated form: m_run_active is only set after the join.                   *)
BeginActiveTooLate ==
    /\ Goto("b_active", "b_join")
    /\ UNCHANGED <<mi, run, flags, thread, w, boards>>

BeginActive ==
    /\ Goto("b_active", "b_join")
    /\ runActive' = TRUE
    /\ UNCHANGED <<mi, run, inEnd, thread, w, boards>>

BeginJoin == Join("b_join", "b_spawn")
BeginSpawn == Spawn("b_spawn", "readout", "running")

-----------------------------------------------------------------------------
(* end_of_run, called for the stop transition and by startabort, which      *)
(* MIDAS sends whenever some client failed to start.                        *)

EndOfRun ==
    /\ \/ "stop" \in Commands /\ run = "running"
       \/ "abort" \in Commands
    /\ Goto("idle", "e_join")
    /\ inEnd' = TRUE
    /\ UNCHANGED <<mi, run, runActive, thread, w, boards>>

(* Mutated form: the old thread is forgotten instead of joined.             *)
EndDetach ==
    /\ Goto("e_join", "e_inactive")
    /\ thread' = None
    /\ UNCHANGED <<mi, run, flags, w, boards>>

EndJoin == Join("e_join", "e_inactive")

EndInactive ==
    /\ Goto("e_inactive", "e_clear")
    /\ runActive' = FALSE
    /\ UNCHANGED <<mi, run, inEnd, thread, w, boards>>

(* Mutated form: m_in_end_of_run stays set.                                 *)
EndKeepsFlag ==
    /\ Goto("e_clear", "e_spawn")
    /\ UNCHANGED <<mi, run, flags, thread, w, boards>>

EndClear ==
    /\ Goto("e_clear", "e_spawn")
    /\ inEnd' = FALSE
    /\ UNCHANGED <<mi, run, runActive, thread, w, boards>>

EndSpawn == Spawn("e_spawn", "live", "stopped")

-----------------------------------------------------------------------------
(* The Refresh watch: rescan_boards and scan_boards, with the worker alive. *)

Refresh ==
    /\ "refresh" \in Commands /\ scans < MaxScan
    /\ Goto("idle", "r_drop")
    /\ mi' = 0
    /\ UNCHANGED <<run, flags, thread, w, boards>>

RefreshDrop ==
    /\ mpc = "r_drop"
    /\ hw' = [hw EXCEPT ![mi] = FALSE]
    /\ \/ mi + 1 < MaxBoards /\ mi' = mi + 1 /\ mpc' = "r_drop"
       \/ mi + 1 = MaxBoards /\ mi' = 0 /\ mpc' = "r_delete"
    /\ UNCHANGED <<run, flags, thread, w, drs, scans, num, board>>

(* delete m_drs: its destructor deletes every DRSBoard.                     *)
RefreshDelete ==
    /\ Goto("r_delete", "r_scan")
    /\ drs' = 0
    /\ UNCHANGED <<mi, run, flags, thread, w, scans, num, board, hw>>

RefreshScan ==
    /\ Goto("r_scan", "r_boards")
    /\ scans' = scans + 1
    /\ drs' = scans + 1
    /\ num' \in 0 .. MaxBoards
    /\ mi' = 0
    /\ UNCHANGED <<run, flags, thread, w, board, hw>>

RefreshBoard ==
    /\ mpc = "r_boards" /\ mi < num
    /\ board' = [board EXCEPT ![mi] = drs]
    /\ hw' = [hw EXCEPT ![mi] = TRUE]
    /\ mi' = mi + 1
    /\ UNCHANGED <<mpc, run, flags, thread, w, drs, scans, num>>

(* Mutated form: the slots without a board keep their old pointers.         *)
RefreshKeepsPointers ==
    /\ mi = num
    /\ Goto("r_boards", "idle")
    /\ mi' = 0
    /\ UNCHANGED <<run, flags, thread, w, boards>>

RefreshNull ==
    /\ mi = num
    /\ Goto("r_boards", "idle")
    /\ board' = [i \in Slot |-> IF i < num THEN board[i] ELSE 0]
    /\ mi' = 0
    /\ UNCHANGED <<run, flags, thread, w, drs, scans, num, hw>>

-----------------------------------------------------------------------------
(* frontend_exit: ~DRS4Frontend().                                          *)

Exit ==
    /\ "exit" \in Commands
    /\ \/ /\ thread # None
          /\ Goto("idle", "x_join") /\ inEnd' = TRUE
       \/ /\ thread = None
          /\ Goto("idle", "x_delete") /\ inEnd' = inEnd
    /\ UNCHANGED <<mi, run, runActive, thread, w, boards>>

(* Mutated form: the destructor as it was before it joined the thread.      *)
ExitNoJoin ==
    /\ Goto("x_join", "x_delete")
    /\ UNCHANGED <<mi, run, flags, thread, w, boards>>

ExitJoin == Join("x_join", "x_delete")

ExitDelete ==
    /\ Goto("x_delete", "gone")
    /\ drs' = 0
    /\ UNCHANGED <<mi, run, flags, thread, w, scans, num, board, hw>>

-----------------------------------------------------------------------------
MainPC == {"boot", "i_spawn", "idle", "gone",
           "b_inactive", "b_connect", "b_config", "b_active", "b_join", "b_spawn",
           "e_join", "e_inactive", "e_clear", "e_spawn",
           "r_drop", "r_delete", "r_scan", "r_boards", "x_join", "x_delete"}

Init ==
    /\ mpc = "boot" /\ mi = 0 /\ run = "stopped"
    /\ inEnd = FALSE /\ runActive = FALSE
    /\ thread = None /\ w = [t \in Threads |-> NoThread]
    /\ drs = 0 /\ scans = 0 /\ num = 0
    /\ board = [i \in Slot |-> 0] /\ hw = [i \in Slot |-> FALSE]

Command == BeginOfRun \/ EndOfRun \/ Refresh \/ Exit

MainStep ==
    \/ Boot \/ BootSpawn
    \/ BeginInactive \/ BeginConnect \/ BeginConfig \/ BeginActive \/ BeginJoin \/ BeginSpawn
    \/ EndJoin \/ EndInactive \/ EndClear \/ EndSpawn
    \/ RefreshDrop \/ RefreshDelete \/ RefreshScan \/ RefreshBoard \/ RefreshNull
    \/ ExitJoin \/ ExitDelete

Next == Command \/ MainStep \/ \E t \in Threads : WorkerStep(t)

Spec == Init /\ [][Next]_vars

(* A handler that has started is run to its end and a thread that can run   *)
(* is scheduled by the operating system; nothing makes a command arrive.    *)
Fairness == /\ WF_vars(MainStep)
            /\ \A t \in Threads : WF_vars(WorkerStep(t))

-----------------------------------------------------------------------------
TypeOK ==
    /\ mpc \in MainPC /\ mi \in 0 .. MaxBoards /\ run \in {"stopped", "running"}
    /\ inEnd \in BOOLEAN /\ runActive \in BOOLEAN
    /\ thread \in Threads \cup {None}
    /\ w \in [Threads -> Worker]
    /\ drs \in 0 .. MaxScan /\ scans \in 0 .. MaxScan /\ num \in 0 .. MaxBoards
    /\ board \in [Slot -> 0 .. MaxScan] /\ hw \in [Slot -> BOOLEAN]

(* There is never a second worker: every std::thread that was started and   *)
(* not yet joined is the one m_readout_thread points to, through every      *)
(* interleaving of start, stop, abort, rescan and exit.  (begin_of_run,     *)
(* end_of_run and the destructor join before they replace the pointer.)     *)
SingleWorker ==
    /\ \A t \in Threads : w[t].pc # "none" => t = thread
    /\ thread # None => w[thread].pc # "none"

(* Between handlers the worker is the loop that belongs to the run state    *)
(* and both flags agree with it, also after a begin_of_run that returned    *)
(* FE_ERR_HW, an abort without a run and an abort of a started run: the     *)
(* claim of the comment in startabort that end_of_run() is idempotent.      *)
WorkerMatchesRun ==
    mpc = "idle" =>
        /\ thread # None
        /\ w[thread].kind = IF run = "running" THEN "readout" ELSE "live"
        /\ ~inEnd
        /\ runActive = (run = "running")

(* The worker is never inside a method of a DRSBoard that was deleted and   *)
(* never calls one through a null pointer: the reason the destructor gives  *)
(* for joining the thread before it deletes m_drs.                          *)
NoUseAfterFree ==
    \A t \in Threads : w[t].obj # None => w[t].obj = drs /\ drs # 0

(* Once a handler is finished the board tables agree: a connected slot is   *)
(* below m_num_boards and holds a board of the current DRS object, and no   *)
(* slot holds a board of a deleted one.                                     *)
NoDanglingAtRest ==
    mpc = "idle" =>
        \A i \in Slot : /\ hw[i] => i < num /\ board[i] = drs
                        /\ board[i] \in {0, drs}

(* While a run is going on, no handler is active and a board is connected,  *)
(* the readout thread is alive: "Readout loop runs at full domino rate      *)
(* while m_run_active".                                                     *)
ReadoutWhileRunning ==
    mpc = "idle" /\ run = "running" /\ Connected # {} => w[thread].pc # "done"

(* Every handler ends: join() never waits for ever for a worker that missed *)
(* the flag ("Signal the live_preview thread to exit BEFORE we join it").   *)
HandlersFinish == mpc # "idle" ~> mpc \in {"idle", "gone"}
=============================================================================
