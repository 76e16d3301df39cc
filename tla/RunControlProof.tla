--------------------------- MODULE RunControlProof ---------------------------
(***************************************************************************)
(* Theorems about RunControl, for any number of board slots, thread        *)
(* identities, scans and polls.  TypeCorrect comes first; the invariants   *)
(* after it are proved relative to it.                                     *)
(***************************************************************************)
EXTENDS MCRunControl, TLAPS

(* Where a poll is still to be made the wait loop's counter has not run     *)
(* out, and a rescan in progress is within the bound.                       *)
PollsLeft == \A t \in Threads : w[t].pc \in {"lwait", "rwait", "rforce"} => w[t].n >= 1
ScansLeft == mpc \in {"r_drop", "r_delete", "r_scan"} => scans < MaxScan

TypeInv == TypeOK /\ PollsLeft /\ ScansLeft

(* The sweeps, listed.                                                      *)
LEMMA SweepPCs ==
    SweepPC = {"lconf", "lrate", "lreconf", "lcap", "rrate", "rdom", "rforce", "rxfer"}
BY DEF SweepPC, SweepTo

LEMMA NewThreadType ==
    /\ NewThread("live") \in Worker /\ NewThread("readout") \in Worker
    /\ NoThread \in Worker /\ NoThread.pc = "none" /\ NoThread.obj = None
<1>1. 0 \in Slot /\ 0 \in 0 .. PollBound /\ {"none", "lconf", "rtest"} \subseteq WorkerPC
  BY SizeAssumption, SweepPCs DEF Slot, WorkerPC
<1>2. NewThread("live") \in Worker /\ NewThread("readout") \in Worker
  BY <1>1 DEF NewThread, Worker
<1>3. ASSUME NEW r \in Worker
      PROVE  [r EXCEPT !.pc = "none"] \in Worker
  BY <1>1 DEF Worker
<1>4. NoThread \in Worker
  BY <1>2, <1>3 DEF NoThread
<1>5. NoThread.pc = "none" /\ NoThread.obj = None
  BY DEF NoThread, NewThread
<1>. QED BY <1>2, <1>4, <1>5

LEMMA InitType == Init => TypeInv
<1>. SUFFICES ASSUME Init PROVE TypeInv
  OBVIOUS
<1>1. mpc \in MainPC /\ run \in {"stopped", "running"}
  BY DEF Init, MainPC
<1>2. inEnd \in BOOLEAN /\ runActive \in BOOLEAN /\ thread \in Threads \cup {None}
  BY DEF Init
<1>3. mi \in 0 .. MaxBoards /\ drs \in 0 .. MaxScan /\ scans \in 0 .. MaxScan
      /\ num \in 0 .. MaxBoards
  BY SizeAssumption DEF Init
<1>4. board \in [Slot -> 0 .. MaxScan] /\ hw \in [Slot -> BOOLEAN]
  BY SizeAssumption DEF Init
<1>5. w \in [Threads -> Worker] /\ PollsLeft
  BY NewThreadType DEF Init, PollsLeft
<1>6. ScansLeft
  BY DEF Init, ScansLeft
<1>. QED BY <1>1, <1>2, <1>3, <1>4, <1>5, <1>6 DEF TypeInv, TypeOK

(* A step of a worker changes nothing but its own record.                   *)
LEMMA SweepType ==
    ASSUME TypeInv, NEW t \in Threads, Sweep(t)
    PROVE  w' \in [Threads -> Worker] /\ PollsLeft'
<1>. USE SizeAssumption DEF TypeInv, TypeOK, PollsLeft, Worker
<1>1. CASE SweepPass(t)
  BY <1>1 DEF SweepPass, Advance
<1>2. CASE SweepEnter(t)
  <2>1. board[w[t].i] \in 0 .. MaxScan
    BY <1>2 DEF SweepEnter, Visits
  <2>. QED BY <1>2, <2>1 DEF SweepEnter
<1>3. CASE SweepLeave(t)
  BY <1>3 DEF SweepLeave, Advance
<1>4. CASE SweepEnd(t)
  <2>. DEFINE next == SweepTo[w[t].pc]
  <2>1. next \in WorkerPC /\ next # "lwait" /\ next # "rforce"
        /\ (next = "rwait" => w[t].pc = "rforce")
    BY <1>4, SweepPCs DEF SweepEnd, SweepTo, WorkerPC, CallPC
  <2>2. w' = [w EXCEPT ![t].pc = next, ![t].i = IF next = "rdom" THEN num - 1 ELSE 0]
    BY <1>4 DEF SweepEnd
  <2>. DEFINE v == IF next = "rdom" THEN num - 1 ELSE 0
  <2>3. v \in Int
    OBVIOUS
  <2>. HIDE DEF next, v
  <2>4. w' = [w EXCEPT ![t].pc = next, ![t].i = v]
    BY <2>2 DEF v
  <2>. QED BY <2>1, <2>3, <2>4
<1>5. CASE SweepThrow(t)
  BY <1>5 DEF SweepThrow, WorkerPC
<1>. QED BY <1>1, <1>2, <1>3, <1>4, <1>5 DEF Sweep

LEMMA CallType ==
    ASSUME TypeInv, NEW t \in Threads, CallEnter(t)
    PROVE  w' \in [Threads -> Worker] /\ PollsLeft'
<1>1. board[w[t].m] \in 0 .. MaxScan
  BY DEF TypeInv, TypeOK, Worker
<1>. QED BY <1>1 DEF TypeInv, TypeOK, PollsLeft, Worker, CallEnter

LEMMA ReturnType ==
    ASSUME TypeInv, NEW t \in Threads, NEW pc \in WorkerPC
    PROVE  /\ Return(t, pc) \in [Threads -> Worker]
           /\ Return(t, pc)[t].pc = pc /\ Return(t, pc)[t].n = w[t].n
           /\ \A u \in Threads : u # t => Return(t, pc)[u] = w[u]
<1>1. ASSUME NEW r \in Worker, NEW v \in Int
      PROVE  [r EXCEPT !.pc = pc, !.obj = None, !.i = v] \in Worker
  BY DEF Worker
<1>. DEFINE z == 0
<1>2. z \in Int /\ w \in [Threads -> Worker]
  BY DEF TypeInv, TypeOK
<1>. HIDE DEF z
<1>. DEFINE r == [w[t] EXCEPT !.pc = pc, !.obj = None, !.i = z]
<1>3. r \in Worker /\ r.pc = pc /\ r.n = w[t].n
  BY <1>1, <1>2 DEF Worker
<1>4. Return(t, pc) = [w EXCEPT ![t] = r]
  BY DEF Return, z
<1>. HIDE DEF r
<1>. QED BY <1>2, <1>3, <1>4

(* A return that also sets the number of polls left.                        *)
LEMMA PollType ==
    ASSUME TypeInv, NEW t \in Threads, NEW pc \in WorkerPC, NEW k \in 0 .. PollBound,
           pc \in {"lwait", "rwait", "rforce"} => k >= 1,
           w' = [Return(t, pc) EXCEPT ![t].n = k]
    PROVE  w' \in [Threads -> Worker] /\ PollsLeft'
<1>1. ASSUME NEW r \in Worker
      PROVE  [r EXCEPT !.n = k] \in Worker
  BY DEF Worker
<1>. DEFINE f == Return(t, pc)
            r == [f[t] EXCEPT !.n = k]
<1>2. f \in [Threads -> Worker] /\ f[t].pc = pc /\ \A u \in Threads : u # t => f[u] = w[u]
  BY ReturnType
<1>. HIDE DEF f
<1>3. r \in Worker /\ r.pc = pc /\ r.n = k
  BY <1>1, <1>2 DEF Worker
<1>4. w' = [f EXCEPT ![t] = r]
  BY DEF f
<1>. HIDE DEF r
<1>. QED BY <1>2, <1>3, <1>4 DEF TypeInv, PollsLeft

(* A return that keeps it.                                                  *)
LEMMA LeaveType ==
    ASSUME TypeInv, NEW t \in Threads, NEW pc \in WorkerPC,
           pc \in {"lwait", "rwait", "rforce"} => w[t].n >= 1,
           w' = Return(t, pc)
    PROVE  w' \in [Threads -> Worker] /\ PollsLeft'
BY ReturnType DEF TypeInv, PollsLeft

LEMMA LiveType ==
    ASSUME TypeInv, NEW t \in Threads, LivePreview(t)
    PROVE  w' \in [Threads -> Worker] /\ PollsLeft'
<1>0. {"done", "ltest", "lrate", "linfo", "lreconf", "lmode", "lcap", "lstart", "lwait",
       "lchk"} \subseteq WorkerPC
  BY SweepPCs DEF WorkerPC, CallPC
<1>1. CASE LiveTest(t)
  BY <1>0, <1>1 DEF LiveTest, TypeInv, TypeOK, PollsLeft, Worker
<1>2. CASE LivePick(t)
  BY <1>0, <1>2 DEF LivePick, Connected, TypeInv, TypeOK, PollsLeft, Worker
<1>3. CASE LiveInfo(t)
  BY <1>0, <1>3, LeaveType DEF LiveInfo
<1>4. CASE LiveMode(t)
  BY <1>0, <1>4 DEF LiveMode, TypeInv, TypeOK, PollsLeft, Worker
<1>5. CASE LiveStart(t)
  BY <1>0, <1>5, PollType, SizeAssumption DEF LiveStart
<1>6. CASE LiveWait(t)
  <2>. w[t].n \in 1 .. PollBound
    BY <1>6 DEF LiveWait, Returning, TypeInv, TypeOK, PollsLeft, Worker
  <2>1. CASE w' = Return(t, "lchk")
    BY <1>0, <2>1, LeaveType
  <2>2. CASE w' = [Return(t, IF w[t].n = 1 THEN "lchk" ELSE "lwait") EXCEPT ![t].n = w[t].n - 1]
    <3>. DEFINE pc == IF w[t].n = 1 THEN "lchk" ELSE "lwait"
    <3>1. /\ pc \in WorkerPC /\ w[t].n - 1 \in 0 .. PollBound
          /\ (pc \in {"lwait", "rwait", "rforce"} => w[t].n - 1 >= 1)
      BY <1>0, SizeAssumption
    <3>2. w' = [Return(t, pc) EXCEPT ![t].n = w[t].n - 1]
      BY <2>2
    <3>. HIDE DEF pc
    <3>. QED BY <3>1, <3>2, PollType
  <2>. QED BY <1>6, <2>1, <2>2 DEF LiveWait
<1>7. CASE LiveCheck(t)
  BY <1>0, <1>7, LeaveType DEF LiveCheck
<1>. QED BY <1>1, <1>2, <1>3, <1>4, <1>5, <1>6, <1>7 DEF LivePreview

LEMMA ReadoutType ==
    ASSUME TypeInv, NEW t \in Threads, Readout(t)
    PROVE  w' \in [Threads -> Worker] /\ PollsLeft'
<1>0. {"done", "rtest", "rrate", "rdom", "rpick", "rwait", "rforce", "rend", "rchk",
       "rxfer"} \subseteq WorkerPC
  BY SweepPCs DEF WorkerPC, CallPC
<1>1. CASE ReadoutTest(t)
  BY <1>0, <1>1 DEF ReadoutTest, TypeInv, TypeOK, PollsLeft, Worker
<1>2. CASE ReadoutPick(t)
  <2>1. ASSUME w' = [w EXCEPT ![t].pc = "done"]
        PROVE  w' \in [Threads -> Worker] /\ PollsLeft'
    BY <1>0, <2>1 DEF TypeInv, TypeOK, PollsLeft, Worker
  <2>2. ASSUME NEW j \in Slot,
               w' = [w EXCEPT ![t].pc = "rwait", ![t].m = j,
                              ![t].n = PollBound, ![t].forced = FALSE]
        PROVE  w' \in [Threads -> Worker] /\ PollsLeft'
    <3>. DEFINE r == [w[t] EXCEPT !.pc = "rwait", !.m = j, !.n = PollBound, !.forced = FALSE]
    <3>0. ASSUME NEW q \in Worker, NEW pc \in WorkerPC, NEW k \in 0 .. PollBound
          PROVE  [q EXCEPT !.pc = pc, !.m = j, !.n = k, !.forced = FALSE] \in Worker
      BY DEF Worker
    <3>1. r.n >= 1
      BY SizeAssumption DEF TypeInv, TypeOK, Worker
    <3>3. w[t] \in Worker /\ PollBound \in 0 .. PollBound /\ "rwait" \in WorkerPC
      BY <1>0, SizeAssumption DEF TypeInv, TypeOK
    <3>4. r \in Worker
      BY <3>0, <3>3
    <3>2. w' = [w EXCEPT ![t] = r]
      BY <2>2
    <3>. HIDE DEF r
    <3>. QED BY <3>1, <3>2, <3>4 DEF TypeInv, TypeOK, PollsLeft
  <2>. QED BY <1>2, <2>1, <2>2 DEF ReadoutPick, Connected
<1>3. CASE ReadoutWait(t)
  <2>. w[t].n \in 1 .. PollBound /\ 0 \in 0 .. PollBound
    BY <1>3, SizeAssumption
       DEF ReadoutWait, Returning, TypeInv, TypeOK, PollsLeft, Worker
  <2>1. CASE w' = Return(t, "rend")
    BY <1>0, <2>1, LeaveType
  <2>2. CASE w' = [Return(t, "rend") EXCEPT ![t].n = 0]
    BY <1>0, <2>2, PollType
  <2>3. CASE w[t].n > 1 /\ w' = [Return(t, "rwait") EXCEPT ![t].n = w[t].n - 1]
    BY <1>0, <2>3, PollType, SizeAssumption
  <2>4. CASE /\ w[t].n > 1
             /\ \E pc \in {"rwait", "rforce"} :
                   w' = [Return(t, pc) EXCEPT ![t].n = w[t].n - 1, ![t].forced = TRUE]
    <3>1. PICK pc \in {"rwait", "rforce"} :
             w' = [Return(t, pc) EXCEPT ![t].n = w[t].n - 1, ![t].forced = TRUE]
      BY <2>4
    <3>. DEFINE f == Return(t, pc)
                r == [f[t] EXCEPT !.n = w[t].n - 1, !.forced = TRUE]
    <3>2. f \in [Threads -> Worker] /\ f[t].pc = pc /\ \A u \in Threads : u # t => f[u] = w[u]
      BY <1>0, ReturnType
    <3>3. f[t] \in Worker /\ w[t].n - 1 \in 0 .. PollBound /\ w[t].n - 1 >= 1
      BY <2>4, <3>2, SizeAssumption
    <3>4. r \in Worker /\ r.pc = pc /\ r.n >= 1
      BY <3>2, <3>3 DEF Worker
    <3>5. w' = [f EXCEPT ![t] = r]
      BY <3>1
    <3>. HIDE DEF f, r
    <3>. QED BY <3>2, <3>4, <3>5 DEF TypeInv, PollsLeft
  <2>. QED BY <1>3, <2>1, <2>2, <2>3, <2>4, Zenon DEF ReadoutWait
<1>4. CASE ReadoutEnd(t)
  BY <1>0, <1>4 DEF ReadoutEnd, TypeInv, TypeOK, PollsLeft, Worker
<1>5. CASE ReadoutCheck(t)
  BY <1>0, <1>5, LeaveType DEF ReadoutCheck
<1>. QED BY <1>1, <1>2, <1>3, <1>4, <1>5 DEF Readout

LEMMA WorkerStepType ==
    ASSUME TypeInv, NEW t \in Threads, WorkerStep(t)
    PROVE  TypeInv'
<1>1. w' \in [Threads -> Worker] /\ PollsLeft'
  BY SweepType, CallType, LiveType, ReadoutType DEF WorkerStep
<1>2. UNCHANGED <<mpc, mi, run, flags, thread, boards>>
  BY DEF WorkerStep
<1>. QED BY <1>1, <1>2 DEF TypeInv, TypeOK, ScansLeft, flags, boards

LEMMA JoinType ==
    ASSUME TypeInv, NEW from, NEW to \in MainPC \ {"r_drop", "r_delete", "r_scan"},
           Join(from, to)
    PROVE  TypeInv'
<1>1. w' \in [Threads -> Worker] /\ PollsLeft' /\ thread' \in Threads \cup {None}
  BY NewThreadType DEF Join, TypeInv, TypeOK, PollsLeft
<1>. QED BY <1>1 DEF Join, Goto, TypeInv, TypeOK, ScansLeft, flags, boards

LEMMA SpawnType ==
    ASSUME TypeInv, NEW from, NEW kind \in {"live", "readout"},
           NEW state \in {"stopped", "running"}, Spawn(from, kind, state)
    PROVE  TypeInv'
<1>1. PICK t \in Threads : w' = [w EXCEPT ![t] = NewThread(kind)] /\ thread' = t
  BY DEF Spawn
<1>2. NewThread(kind) \in Worker /\ NewThread(kind).pc \notin {"lwait", "rwait", "rforce"}
  BY NewThreadType DEF NewThread
<1>3. w' \in [Threads -> Worker] /\ PollsLeft'
  BY <1>1, <1>2 DEF TypeInv, TypeOK, PollsLeft
<1>4. mpc' = "idle"
  BY DEF Spawn, Goto
<1>. QED BY <1>1, <1>3, <1>4 DEF Spawn, TypeInv, TypeOK, ScansLeft, MainPC, flags, boards

LEMMA BeginType ==
    ASSUME TypeInv,
           BeginOfRun \/ BeginInactive \/ BeginConnect \/ BeginConfig \/ BeginActive
    PROVE  TypeInv'
<1>. USE DEF TypeInv, TypeOK, PollsLeft, ScansLeft, MainPC, Goto, flags, boards
<1>1. CASE BeginOfRun
  BY <1>1 DEF BeginOfRun
<1>2. CASE BeginInactive
  BY <1>2 DEF BeginInactive
<1>3. CASE BeginConnect
  <2>1. hw' \in [Slot -> BOOLEAN] /\ mpc' \in {"b_config", "idle"}
    BY <1>3 DEF BeginConnect
  <2>. QED BY <1>3, <2>1 DEF BeginConnect
<1>4. CASE BeginConfig
  BY <1>4 DEF BeginConfig
<1>5. CASE BeginActive
  BY <1>5 DEF BeginActive
<1>. QED BY <1>1, <1>2, <1>3, <1>4, <1>5

LEMMA EndType ==
    ASSUME TypeInv, EndOfRun \/ EndInactive \/ EndClear
    PROVE  TypeInv'
<1>. USE DEF TypeInv, TypeOK, PollsLeft, ScansLeft, MainPC, Goto, flags, boards
<1>1. CASE EndOfRun
  BY <1>1 DEF EndOfRun
<1>2. CASE EndInactive
  BY <1>2 DEF EndInactive
<1>3. CASE EndClear
  BY <1>3 DEF EndClear
<1>. QED BY <1>1, <1>2, <1>3

LEMMA RefreshType ==
    ASSUME TypeInv,
           Refresh \/ RefreshDrop \/ RefreshDelete \/ RefreshScan \/ RefreshBoard \/ RefreshNull
    PROVE  TypeInv'
<1>. USE SizeAssumption
     DEF TypeInv, TypeOK, PollsLeft, ScansLeft, MainPC, Goto, flags, boards
<1>1. CASE Refresh
  BY <1>1 DEF Refresh
<1>2. CASE RefreshDrop
  <2>1. hw' \in [Slot -> BOOLEAN] /\ mpc' \in {"r_delete", "r_drop"}
    BY <1>2 DEF RefreshDrop
  <2>2. mi' \in 0 .. MaxBoards
    BY <1>2 DEF RefreshDrop
  <2>. QED BY <1>2, <2>1, <2>2 DEF RefreshDrop
<1>3. CASE RefreshDelete
  BY <1>3 DEF RefreshDelete
<1>4. CASE RefreshScan
  BY <1>4 DEF RefreshScan
<1>5. CASE RefreshBoard
  <2>1. board' \in [Slot -> 0 .. MaxScan] /\ hw' \in [Slot -> BOOLEAN]
    BY <1>5 DEF RefreshBoard
  <2>. QED BY <1>5, <2>1 DEF RefreshBoard
<1>6. CASE RefreshNull
  <2>1. board' \in [Slot -> 0 .. MaxScan]
    BY <1>6 DEF RefreshNull
  <2>. QED BY <1>6, <2>1 DEF RefreshNull
<1>. QED BY <1>1, <1>2, <1>3, <1>4, <1>5, <1>6

LEMMA ProcessType ==
    ASSUME TypeInv, Boot \/ Exit \/ ExitDelete
    PROVE  TypeInv'
<1>. USE SizeAssumption
     DEF TypeInv, TypeOK, PollsLeft, ScansLeft, MainPC, Goto, flags, boards
<1>1. CASE Boot
  <2>1. board' \in [Slot -> 0 .. MaxScan] /\ hw' \in [Slot -> BOOLEAN]
        /\ num' \in 0 .. MaxBoards
    BY <1>1 DEF Boot
  <2>. QED BY <1>1, <2>1 DEF Boot
<1>2. CASE Exit
  BY <1>2 DEF Exit
<1>3. CASE ExitDelete
  BY <1>3 DEF ExitDelete
<1>. QED BY <1>1, <1>2, <1>3

LEMMA MainType == TypeInv /\ (Command \/ MainStep) => TypeInv'
<1>. SUFFICES ASSUME TypeInv, Command \/ MainStep PROVE TypeInv'
  OBVIOUS
<1>1. CASE BeginJoin \/ EndJoin \/ ExitJoin
  BY <1>1, JoinType DEF BeginJoin, EndJoin, ExitJoin, MainPC
<1>2. CASE BootSpawn \/ BeginSpawn \/ EndSpawn
  BY <1>2, SpawnType DEF BootSpawn, BeginSpawn, EndSpawn
<1>. QED BY <1>1, <1>2, BeginType, EndType, RefreshType, ProcessType DEF Command, MainStep

LEMMA NextType == TypeInv /\ [Next]_vars => TypeInv'
<1>. SUFFICES ASSUME TypeInv, [Next]_vars PROVE TypeInv'
  OBVIOUS
<1>1. CASE UNCHANGED vars
  BY <1>1 DEF vars, TypeInv, TypeOK, PollsLeft, ScansLeft
<1>. QED BY <1>1, MainType, WorkerStepType DEF Next

(* TypeOK for every state of the lifecycle, with every command and with     *)
(* exceptions: the tables stay within DRS4_MAX_BOARDS, the wait loops'      *)
(* counters never become negative.                                          *)
THEOREM TypeCorrect == Spec => []TypeOK
<1>1. TypeInv => TypeOK
  BY DEF TypeInv
<1>. QED BY InitType, NextType, <1>1, PTL DEF Spec

-----------------------------------------------------------------------------
(* A step of a worker concerns a thread that was started, does not end its  *)
(* identity and does not change which loop it runs; only join() and the     *)
(* spawns do.                                                               *)
Stays(t) == /\ w[t].pc # "none" /\ w'[t].pc # "none"
            /\ w'[t].kind = w[t].kind
            /\ \A u \in Threads : u # t => w'[u] = w[u]

LEMMA SweepStays ==
    ASSUME TypeInv, NEW t \in Threads, Sweep(t)
    PROVE  Stays(t)
<1>. USE SweepPCs DEF TypeInv, TypeOK, Worker, Stays
<1>1. CASE SweepPass(t) \/ SweepEnter(t) \/ SweepLeave(t)
  BY <1>1 DEF SweepPass, SweepEnter, SweepLeave
<1>2. CASE SweepEnd(t)
  <2>. DEFINE next == SweepTo[w[t].pc]
  <2>1. next # "none"
    BY <1>2 DEF SweepEnd, SweepTo
  <2>. HIDE DEF next
  <2>. QED BY <1>2, <2>1 DEF SweepEnd, next
<1>3. CASE SweepThrow(t)
  BY <1>3 DEF SweepThrow
<1>. QED BY <1>1, <1>2, <1>3 DEF Sweep

LEMMA LoopStays ==
    ASSUME TypeInv, NEW t \in Threads, CallEnter(t) \/ LivePreview(t) \/ Readout(t)
    PROVE  Stays(t)
<1>. USE DEF TypeInv, TypeOK, Worker, Stays, Return, Returning
<1>1. CASE CallEnter(t)
  BY <1>1 DEF CallEnter, CallPC
<1>2. CASE LiveTest(t) \/ LivePick(t) \/ LiveInfo(t)
  BY <1>2 DEF LiveTest, LivePick, LiveInfo
<1>3. CASE LiveMode(t) \/ LiveStart(t) \/ LiveCheck(t)
  BY <1>3 DEF LiveMode, LiveStart, LiveCheck
<1>4. CASE LiveWait(t)
  BY <1>4 DEF LiveWait
<1>5. CASE ReadoutTest(t)
  BY <1>5 DEF ReadoutTest
<1>8. CASE ReadoutPick(t)
  <2>1. CASE w' = [w EXCEPT ![t].pc = "done"]
    BY <1>8, <2>1 DEF ReadoutPick
  <2>2. CASE \E j \in Slot : w' = [w EXCEPT ![t].pc = "rwait", ![t].m = j,
                                           ![t].n = PollBound, ![t].forced = FALSE]
    <3>1. PICK j \in Slot : w' = [w EXCEPT ![t].pc = "rwait", ![t].m = j,
                                          ![t].n = PollBound, ![t].forced = FALSE]
      BY <2>2
    <3>. DEFINE r == [w[t] EXCEPT !.pc = "rwait", !.m = j, !.n = PollBound, !.forced = FALSE]
    <3>2. r.pc = "rwait" /\ r.kind = w[t].kind
      OBVIOUS
    <3>3. w' = [w EXCEPT ![t] = r]
      BY <3>1
    <3>. HIDE DEF r
    <3>. QED BY <1>8, <3>2, <3>3 DEF ReadoutPick
  <2>. QED BY <1>8, <2>1, <2>2 DEF ReadoutPick, Connected
<1>6. CASE ReadoutWait(t)
  BY <1>6 DEF ReadoutWait
<1>7. CASE ReadoutEnd(t) \/ ReadoutCheck(t)
  BY <1>7 DEF ReadoutEnd, ReadoutCheck
<1>. QED BY <1>1, <1>2, <1>3, <1>4, <1>5, <1>6, <1>7, <1>8 DEF LivePreview, Readout

(* The handlers: at these places no worker exists.                          *)
Unthreaded == {"boot", "i_spawn", "b_spawn", "e_inactive", "e_clear", "e_spawn",
               "x_delete", "gone"}

ThreadInv == SingleWorker /\ (mpc \in Unthreaded => thread = None)

LEMMA ThreadStep == TypeInv /\ ThreadInv /\ [Next]_vars => ThreadInv'
<1>. SUFFICES ASSUME TypeInv, ThreadInv, [Next]_vars PROVE ThreadInv'
  OBVIOUS
<1>. USE DEF ThreadInv, SingleWorker, Unthreaded
<1>1. ASSUME UNCHANGED <<thread, w>>, mpc' \in Unthreaded => mpc \in Unthreaded \/ thread = None
      PROVE  ThreadInv'
  BY <1>1
<1>2. ASSUME NEW t \in Threads, WorkerStep(t) PROVE ThreadInv'
  <2>1. Stays(t)
    BY <1>2, SweepStays, LoopStays DEF WorkerStep
  <2>2. UNCHANGED <<mpc, thread>>
    BY <1>2 DEF WorkerStep
  <2>. QED BY <2>1, <2>2 DEF Stays
<1>3. ASSUME NEW from, NEW to, Join(from, to) PROVE ThreadInv'
  <2>1. CASE thread = None
    BY <1>3, <2>1 DEF Join
  <2>2. CASE thread # None
    <3>1. w' = [w EXCEPT ![thread] = NoThread] /\ thread' = None /\ thread \in Threads
      BY <1>3, <2>2 DEF Join, TypeInv, TypeOK
    <3>. QED BY <3>1, NewThreadType DEF TypeInv, TypeOK
  <2>. QED BY <2>1, <2>2
<1>4. ASSUME NEW from \in Unthreaded, NEW kind \in {"live", "readout"}, NEW state,
             Spawn(from, kind, state)
      PROVE  ThreadInv'
  <2>1. PICK t \in Threads : w' = [w EXCEPT ![t] = NewThread(kind)] /\ thread' = t
    BY <1>4 DEF Spawn
  <2>2. thread = None /\ mpc' = "idle"
    BY <1>4 DEF Spawn, Goto
  <2>3. NewThread(kind).pc # "none" /\ t # None
    BY EnvironmentAssumption DEF NewThread
  <2>. DEFINE r == NewThread(kind)
  <2>4. r.pc # "none" /\ w' = [w EXCEPT ![t] = r] /\ w \in [Threads -> Worker]
    BY <2>1, <2>3 DEF TypeInv, TypeOK
  <2>. HIDE DEF r
  <2>5. /\ w'[t].pc # "none"
        /\ \A u \in Threads : u # t => w'[u] = w[u]
    BY <2>4
  <2>. QED BY <2>1, <2>2, <2>5, EnvironmentAssumption
<1>5. CASE UNCHANGED vars
  BY <1>1, <1>5 DEF vars
<1>6. CASE BeginJoin \/ EndJoin \/ ExitJoin
  BY <1>3, <1>6 DEF BeginJoin, EndJoin, ExitJoin
<1>7. CASE BootSpawn \/ BeginSpawn \/ EndSpawn
  BY <1>4, <1>7 DEF BootSpawn, BeginSpawn, EndSpawn
<1>8. CASE BeginOfRun \/ BeginInactive \/ BeginConnect \/ BeginConfig \/ BeginActive
  BY <1>1, <1>8 DEF BeginOfRun, BeginInactive, BeginConnect, BeginConfig, BeginActive, Goto
<1>9. CASE EndOfRun \/ EndInactive \/ EndClear
  BY <1>1, <1>9 DEF EndOfRun, EndInactive, EndClear, Goto
<1>10. CASE Refresh \/ RefreshDrop \/ RefreshDelete \/ RefreshScan \/ RefreshBoard \/ RefreshNull
  BY <1>1, <1>10
     DEF Refresh, RefreshDrop, RefreshDelete, RefreshScan, RefreshBoard, RefreshNull, Goto
<1>11. CASE Boot \/ Exit \/ ExitDelete
  BY <1>1, <1>11 DEF Boot, Exit, ExitDelete, Goto
<1>. QED
  BY <1>2, <1>5, <1>6, <1>7, <1>8, <1>9, <1>10, <1>11 DEF Next, Command, MainStep

(* There is at most one worker at any time, and m_readout_thread points to  *)
(* it: through every interleaving of start, stop, abort, rescan and exit.   *)
THEOREM OneWorker == Spec => []SingleWorker
<1>1. Init => TypeInv /\ ThreadInv
  BY InitType, NewThreadType
     DEF Init, ThreadInv, SingleWorker, Unthreaded
<1>2. TypeInv /\ [Next]_vars => TypeInv'
  BY NextType
<1>3. ThreadInv => SingleWorker
  BY DEF ThreadInv
<1>. QED BY <1>1, <1>2, <1>3, ThreadStep, PTL DEF Spec

-----------------------------------------------------------------------------
(* What the flags, the run state and the kind of the worker are inside the  *)
(* handlers.                                                                *)
AtRest == {"idle", "r_drop", "r_delete", "r_scan", "r_boards"}
Starting == {"b_inactive", "b_connect", "b_config", "b_active"}

Alive(k) == thread # None /\ w[thread].kind = k

RunInv ==
    /\ mpc \in AtRest =>
          /\ Alive(IF run = "running" THEN "readout" ELSE "live")
          /\ ~inEnd /\ runActive = (run = "running")
    /\ mpc \in Starting => run = "stopped" /\ ~inEnd /\ ~runActive /\ Alive("live")
    /\ mpc \in {"b_join", "b_spawn"} => ~inEnd /\ runActive
    /\ mpc = "e_clear" => ~runActive
    /\ mpc \in {"boot", "i_spawn", "e_spawn"} => ~inEnd /\ ~runActive

LEMMA RunStep == TypeInv /\ ThreadInv /\ RunInv /\ [Next]_vars => RunInv'
<1>. SUFFICES ASSUME TypeInv, ThreadInv, RunInv, [Next]_vars PROVE RunInv'
  OBVIOUS
<1>. USE DEF RunInv, AtRest, Starting, Alive, Goto
<1>0. inEnd \in BOOLEAN /\ runActive \in BOOLEAN
  BY DEF TypeInv, TypeOK
<1>1. ASSUME NEW t \in Threads, WorkerStep(t) PROVE RunInv'
  <2>1. Stays(t)
    BY <1>1, SweepStays, LoopStays DEF WorkerStep
  <2>2. UNCHANGED <<mpc, run, inEnd, runActive, thread>>
    BY <1>1 DEF WorkerStep, flags
  <2>3. thread # None => w'[thread].kind = w[thread].kind
    BY <2>1 DEF Stays, TypeInv, TypeOK
  <2>. QED BY <2>2, <2>3
<1>2. ASSUME NEW kind \in {"live", "readout"}, NEW state \in {"stopped", "running"}, NEW from,
             Spawn(from, kind, state), ~inEnd, runActive = (state = "running"),
             kind = IF state = "running" THEN "readout" ELSE "live"
      PROVE  RunInv'
  <2>1. PICK t \in Threads : w' = [w EXCEPT ![t] = NewThread(kind)] /\ thread' = t
    BY <1>2 DEF Spawn
  <2>2. NewThread(kind).kind = kind /\ t # None
    BY EnvironmentAssumption DEF NewThread
  <2>. DEFINE r == NewThread(kind)
  <2>3. r.kind = kind /\ w' = [w EXCEPT ![t] = r] /\ w \in [Threads -> Worker]
    BY <2>1, <2>2 DEF TypeInv, TypeOK
  <2>. HIDE DEF r
  <2>4. w'[thread'].kind = kind /\ thread' # None
    BY <2>1, <2>2, <2>3
  <2>. QED BY <1>2, <2>4 DEF Spawn, flags
<1>3. CASE BootSpawn
  BY <1>0, <1>2, <1>3 DEF BootSpawn, Spawn
<1>4. CASE BeginSpawn
  BY <1>2, <1>4 DEF BeginSpawn, Spawn
<1>5. CASE EndSpawn
  BY <1>0, <1>2, <1>5 DEF EndSpawn, Spawn
<1>6. CASE BeginJoin \/ EndJoin \/ ExitJoin
  BY <1>6 DEF BeginJoin, EndJoin, ExitJoin, Join, flags
<1>7. ASSUME UNCHANGED <<run, inEnd, runActive, thread, w>>,
             \/ mpc' = mpc
             \/ mpc \in AtRest \cup Starting /\ mpc' = "idle"
             \/ mpc \in AtRest /\ mpc' \in AtRest
             \/ mpc \in Starting /\ mpc' \in Starting
             \/ mpc' \in {"x_join", "x_delete", "gone"}
             \/ mpc = "boot" /\ mpc' = "i_spawn"
      PROVE  RunInv'
  BY <1>0, <1>7
<1>8. CASE BeginOfRun
  BY <1>8 DEF BeginOfRun
<1>9. CASE BeginInactive
  BY <1>9 DEF BeginInactive
<1>10. CASE BeginConnect \/ BeginConfig
  BY <1>7, <1>10 DEF BeginConnect, BeginConfig, flags, boards
<1>11. CASE BeginActive
  BY <1>11 DEF BeginActive
<1>12. CASE EndOfRun \/ EndInactive
  BY <1>12 DEF EndOfRun, EndInactive
<1>13. CASE EndClear
  BY <1>13 DEF EndClear
<1>14. CASE Refresh \/ RefreshDrop \/ RefreshDelete \/ RefreshScan \/ RefreshBoard \/ RefreshNull
  BY <1>7, <1>14
     DEF Refresh, RefreshDrop, RefreshDelete, RefreshScan, RefreshBoard, RefreshNull, flags
<1>15. CASE Boot \/ ExitDelete
  BY <1>7, <1>15 DEF Boot, ExitDelete, flags
<1>16. CASE Exit
  BY <1>16 DEF Exit
<1>17. CASE UNCHANGED vars
  BY <1>7, <1>17 DEF vars, flags
<1>. QED BY <1>1, <1>3, <1>4, <1>5, <1>6, <1>8, <1>9, <1>10, <1>11, <1>12, <1>13, <1>14,
            <1>15, <1>16, <1>17
         DEF Next, Command, MainStep

(* Between handlers the worker and both flags belong to the run state, also *)
(* after a failed begin_of_run and a start-abort with or without a run.     *)
THEOREM RunStateCorrect == Spec => []WorkerMatchesRun
<1>1. Init => TypeInv /\ ThreadInv /\ RunInv
  BY InitType, NewThreadType
     DEF Init, ThreadInv, SingleWorker, Unthreaded, RunInv, AtRest, Starting
<1>2. TypeInv /\ [Next]_vars => TypeInv'
  BY NextType
<1>3. RunInv => WorkerMatchesRun
  BY DEF RunInv, AtRest, Alive, WorkerMatchesRun
<1>. QED BY <1>1, <1>2, <1>3, ThreadStep, RunStep, PTL DEF Spec

-----------------------------------------------------------------------------
(* The board tables inside the handlers that change them.                   *)
Current(i) == /\ hw[i] => i < num /\ board[i] = drs
              /\ board[i] \in {0, drs}

BoardInv ==
    /\ mpc \notin {"r_scan", "r_boards", "gone"} => \A i \in Slot : Current(i)
    /\ mpc = "r_drop" => mi \in Slot /\ \A i \in Slot : i < mi => ~hw[i]
    /\ mpc \in {"r_delete", "r_scan"} => \A i \in Slot : ~hw[i]
    /\ mpc = "r_boards" => /\ mi <= num
                           /\ \A i \in Slot : IF i < mi THEN board[i] = drs ELSE ~hw[i]

LEMMA BoardStep == TypeInv /\ BoardInv /\ [Next]_vars => BoardInv'
<1>. SUFFICES ASSUME TypeInv, BoardInv, [Next]_vars PROVE BoardInv'
  OBVIOUS
<1>0. num \in Nat /\ mi \in Nat /\ board \in [Slot -> 0 .. MaxScan] /\ hw \in [Slot -> BOOLEAN]
      /\ Slot \subseteq Nat /\ MaxBoards \in Nat \ {0}
  BY SizeAssumption DEF TypeInv, TypeOK, Slot
<1>. USE <1>0 DEF BoardInv, Current, Goto
<1>1. ASSUME UNCHANGED boards,
             mpc' \notin {"r_drop", "r_delete", "r_scan", "r_boards"},
             mpc \in {"r_scan", "r_boards", "gone"} => mpc' = mpc
      PROVE  BoardInv'
  BY <1>1 DEF boards
<1>2. CASE UNCHANGED vars
  BY <1>2 DEF vars
<1>3. ASSUME NEW t \in Threads, WorkerStep(t) PROVE BoardInv'
  BY <1>3 DEF WorkerStep, boards
<1>4. CASE BeginJoin \/ EndJoin \/ ExitJoin
  BY <1>1, <1>4 DEF BeginJoin, EndJoin, ExitJoin, Join
<1>5. CASE BootSpawn \/ BeginSpawn \/ EndSpawn
  BY <1>1, <1>5 DEF BootSpawn, BeginSpawn, EndSpawn, Spawn
<1>6. CASE BeginOfRun \/ BeginInactive \/ BeginConfig \/ BeginActive
  BY <1>1, <1>6 DEF BeginOfRun, BeginInactive, BeginConfig, BeginActive
<1>7. CASE BeginConnect
  BY <1>7 DEF BeginConnect
<1>8. CASE EndOfRun \/ EndInactive \/ EndClear \/ Exit
  BY <1>1, <1>8 DEF EndOfRun, EndInactive, EndClear, Exit
<1>9. CASE Boot
  BY <1>9 DEF Boot
<1>10. CASE Refresh
  BY <1>10 DEF Refresh, boards, Slot
<1>11. CASE RefreshDrop
  BY <1>11 DEF RefreshDrop, Slot
<1>12. CASE RefreshDelete
  BY <1>12 DEF RefreshDelete
<1>13. CASE RefreshScan
  <2>1. num' \in Nat /\ mi' = 0 /\ mpc' = "r_boards" /\ hw' = hw
    BY <1>13 DEF RefreshScan
  <2>. QED BY <1>13, <2>1 DEF RefreshScan
<1>14. CASE RefreshBoard
  BY <1>14 DEF RefreshBoard
<1>15. CASE RefreshNull
  BY <1>15 DEF RefreshNull
<1>16. CASE ExitDelete
  BY <1>16 DEF ExitDelete
<1>. QED BY <1>2, <1>3, <1>4, <1>5, <1>6, <1>7, <1>8, <1>9, <1>10, <1>11, <1>12, <1>13,
            <1>14, <1>15, <1>16
         DEF Next, Command, MainStep

(* A finished handler leaves no slot with a board of a deleted DRS object   *)
(* and no connected slot without a board of the current one, after every    *)
(* rescan and connect_all().                                                *)
THEOREM NoDangling == Spec => []NoDanglingAtRest
<1>1. Init => BoardInv
  BY DEF Init, BoardInv, Current
<1>2. BoardInv => NoDanglingAtRest
  BY DEF BoardInv, Current, NoDanglingAtRest
<1>. QED BY <1>1, <1>2, InitType, NextType, BoardStep, PTL DEF Spec

-----------------------------------------------------------------------------
(* Without the Refresh watch the boards outlive the workers.  The places    *)
(* where a worker still relies on the master it picked:                     *)
MasterPC == {"linfo", "lreconf", "lmode", "lstart", "lwait", "lchk",
             "rwait", "rforce", "rend", "rchk"}

UsesBoard(t) == w[t].obj # None => w[t].pc # "none" /\ w[t].obj = drs /\ drs # 0
KnowsMaster(t) == w[t].pc \in MasterPC => hw[w[t].m]

UseInv ==
    /\ mpc \notin {"r_drop", "r_delete", "r_scan", "r_boards"}
    /\ mpc \notin {"boot", "gone"} => drs # 0
    /\ \A t \in Threads : UsesBoard(t) /\ KnowsMaster(t)

(* A worker step enters only a connected board, and picks only a connected  *)
(* master.                                                                  *)
Careful(t) ==
    /\ \/ w'[t].obj \in {None, w[t].obj}
       \/ \E i \in Slot : hw[i] /\ w'[t].obj = board[i]
    /\ w'[t].pc \in MasterPC => hw[w'[t].m]

LEMMA SweepCareful ==
    ASSUME TypeInv, NEW t \in Threads, Sweep(t), KnowsMaster(t)
    PROVE  Careful(t)
<1>. USE DEF TypeInv, TypeOK, Worker, Careful, KnowsMaster, MasterPC
<1>1. CASE SweepPass(t) \/ SweepLeave(t)
  BY <1>1 DEF SweepPass, SweepLeave
<1>2. CASE SweepEnter(t)
  <2>1. w'[t].obj = board[w[t].i] /\ w'[t].pc = w[t].pc /\ w'[t].m = w[t].m
    BY <1>2 DEF SweepEnter
  <2>2. w[t].i \in Slot /\ hw[w[t].i]
    BY <1>2 DEF SweepEnter, Visits
  <2>. QED BY <2>1, <2>2
<1>3. CASE SweepEnd(t)
  <2>. DEFINE next == SweepTo[w[t].pc]
  <2>1. next \in MasterPC => w[t].pc \in MasterPC
    BY <1>3, SweepPCs DEF SweepEnd, SweepTo
  <2>2. w'[t].pc = next /\ w'[t].obj = w[t].obj /\ w'[t].m = w[t].m
    <3>. DEFINE v == IF next = "rdom" THEN num - 1 ELSE 0
    <3>1. w' = [w EXCEPT ![t].pc = next, ![t].i = v]
      BY <1>3 DEF SweepEnd
    <3>. HIDE DEF next, v
    <3>. QED BY <3>1
  <2>. HIDE DEF next
  <2>. QED BY <2>1, <2>2
<1>4. CASE SweepThrow(t)
  BY <1>4 DEF SweepThrow
<1>. QED BY <1>1, <1>2, <1>3, <1>4 DEF Sweep

LEMMA LoopCareful ==
    ASSUME TypeInv, NEW t \in Threads, CallEnter(t) \/ LivePreview(t) \/ Readout(t),
           KnowsMaster(t)
    PROVE  Careful(t)
<1>. USE DEF TypeInv, TypeOK, Worker, Careful, KnowsMaster, MasterPC
<1>1. CASE CallEnter(t)
  <2>1. w[t].m \in Slot /\ hw[w[t].m]
    BY <1>1 DEF CallEnter, CallPC
  <2>2. w'[t].obj = board[w[t].m] /\ w'[t].pc = w[t].pc /\ w'[t].m = w[t].m
    BY <1>1 DEF CallEnter
  <2>. QED BY <2>1, <2>2
<1>2. CASE LiveTest(t)
  BY <1>2 DEF LiveTest
<1>3. CASE LivePick(t)
  BY <1>3 DEF LivePick, Connected
<1>4. CASE LiveInfo(t) \/ LiveCheck(t)
  BY <1>4 DEF LiveInfo, LiveCheck, Return, Returning
<1>5. CASE LiveMode(t)
  BY <1>5 DEF LiveMode
<1>6. CASE LiveStart(t)
  BY <1>6 DEF LiveStart, Return, Returning
<1>7. CASE LiveWait(t)
  BY <1>7 DEF LiveWait, Return, Returning
<1>8. CASE ReadoutTest(t)
  BY <1>8 DEF ReadoutTest
<1>9. CASE ReadoutPick(t)
  <2>1. CASE w' = [w EXCEPT ![t].pc = "done"]
    BY <2>1
  <2>2. CASE \E j \in Connected : w' = [w EXCEPT ![t].pc = "rwait", ![t].m = j,
                                                ![t].n = PollBound, ![t].forced = FALSE]
    <3>1. PICK j \in Connected : w' = [w EXCEPT ![t].pc = "rwait", ![t].m = j,
                                               ![t].n = PollBound, ![t].forced = FALSE]
      BY <2>2
    <3>. DEFINE r == [w[t] EXCEPT !.pc = "rwait", !.m = j, !.n = PollBound, !.forced = FALSE]
    <3>2. r.m = j /\ r.obj = w[t].obj
      OBVIOUS
    <3>3. w' = [w EXCEPT ![t] = r]
      BY <3>1
    <3>. HIDE DEF r
    <3>. QED BY <3>2, <3>3 DEF Connected
  <2>. QED BY <1>9, <2>1, <2>2 DEF ReadoutPick
<1>10. CASE ReadoutWait(t)
  BY <1>10 DEF ReadoutWait, Return, Returning
<1>11. CASE ReadoutEnd(t)
  BY <1>11 DEF ReadoutEnd
<1>12. CASE ReadoutCheck(t)
  BY <1>12 DEF ReadoutCheck, Return, Returning
<1>. QED BY <1>1, <1>2, <1>3, <1>4, <1>5, <1>6, <1>7, <1>8, <1>9, <1>10, <1>11, <1>12
         DEF LivePreview, Readout

LEMMA UseStep ==
    ASSUME TypeInv, ThreadInv, BoardInv, UseInv, [Next]_vars, ~Refresh
    PROVE  UseInv'
<1>. USE DEF UseInv, UsesBoard, KnowsMaster, Goto
<1>1. ASSUME UNCHANGED <<w, drs, hw>>, mpc' \notin {"r_drop", "r_delete", "r_scan", "r_boards"},
             mpc \in {"boot", "gone"} => mpc' = mpc
      PROVE  UseInv'
  BY <1>1
<1>2. ASSUME NEW t \in Threads, WorkerStep(t) PROVE UseInv'
  <2>1. Stays(t) /\ Careful(t)
    BY <1>2, SweepStays, LoopStays, SweepCareful, LoopCareful DEF WorkerStep
  <2>2. mpc \notin {"boot", "gone"}
    BY <2>1, EnvironmentAssumption DEF Stays, ThreadInv, SingleWorker, Unthreaded
  <2>3. UNCHANGED <<mpc, drs, hw, board, num>>
    BY <1>2 DEF WorkerStep, boards
  <2>4. \A i \in Slot : hw[i] => board[i] = drs
    BY <2>2 DEF BoardInv, Current
  <2>. QED BY <2>1, <2>2, <2>3, <2>4 DEF Stays, Careful
<1>3. ASSUME NEW from, NEW to, Join(from, to), to \in {"b_spawn", "e_inactive", "x_delete"},
             from # "boot", from # "gone"
      PROVE  UseInv'
  <2>1. UNCHANGED <<drs, hw>> /\ mpc = from /\ mpc' = to
    BY <1>3 DEF Join, boards
  <2>2. \A t \in Threads : w'[t] = w[t] \/ w'[t] = NoThread
    BY <1>3 DEF Join, TypeInv, TypeOK
  <2>. QED BY <1>3, <2>1, <2>2, NewThreadType DEF MasterPC
<1>4. ASSUME NEW from, NEW kind \in {"live", "readout"}, NEW state, Spawn(from, kind, state),
             from # "boot", from # "gone"
      PROVE  UseInv'
  <2>. DEFINE r == NewThread(kind)
  <2>1. r.obj = None /\ r.pc \notin MasterPC
    BY DEF NewThread, MasterPC
  <2>2. \A t \in Threads : w'[t] = w[t] \/ w'[t] = r
    BY <1>4 DEF Spawn, TypeInv, TypeOK
  <2>3. UNCHANGED <<drs, hw>> /\ mpc = from /\ mpc' = "idle"
    BY <1>4 DEF Spawn, boards
  <2>. HIDE DEF r
  <2>. QED BY <1>4, <2>1, <2>2, <2>3
<1>5. CASE UNCHANGED vars
  BY <1>1, <1>5 DEF vars
<1>6. CASE BeginJoin \/ EndJoin \/ ExitJoin
  BY <1>3, <1>6 DEF BeginJoin, EndJoin, ExitJoin
<1>7. CASE BootSpawn \/ BeginSpawn \/ EndSpawn
  BY <1>4, <1>7 DEF BootSpawn, BeginSpawn, EndSpawn
<1>8. CASE BeginOfRun \/ BeginInactive \/ BeginConfig \/ BeginActive
  BY <1>1, <1>8 DEF BeginOfRun, BeginInactive, BeginConfig, BeginActive, boards
<1>9. CASE BeginConnect
  <2>1. UNCHANGED <<w, drs>> /\ mpc' \in {"b_config", "idle"} /\ mpc = "b_connect"
    BY <1>9 DEF BeginConnect
  <2>2. \A i \in Slot : hw[i] => hw'[i]
    BY <1>9 DEF BeginConnect
  <2>3. \A t \in Threads : w[t].m \in Slot
    BY DEF TypeInv, TypeOK, Worker
  <2>. QED BY <2>1, <2>2, <2>3
<1>10. CASE EndOfRun \/ EndInactive \/ EndClear \/ Exit
  BY <1>1, <1>10 DEF EndOfRun, EndInactive, EndClear, Exit, boards
<1>11. CASE Boot \/ ExitDelete
  <2>1. thread = None /\ UNCHANGED w
    BY <1>11 DEF Boot, ExitDelete, ThreadInv, Unthreaded
  <2>2. \A t \in Threads : w[t].pc = "none" /\ w[t].obj = None
    BY <2>1, EnvironmentAssumption DEF ThreadInv, SingleWorker
  <2>. QED BY <1>11, <2>1, <2>2 DEF Boot, ExitDelete, MasterPC
<1>12. CASE Refresh \/ RefreshDrop \/ RefreshDelete \/ RefreshScan \/ RefreshBoard \/ RefreshNull
  BY <1>12 DEF RefreshDrop, RefreshDelete, RefreshScan, RefreshBoard, RefreshNull
<1>. QED BY <1>2, <1>5, <1>6, <1>7, <1>8, <1>9, <1>10, <1>11, <1>12
         DEF Next, Command, MainStep

(* As long as nobody rescans the USB bus, no worker is ever inside a method *)
(* of a deleted DRSBoard or calls one through a null pointer, whatever the  *)
(* order of start, stop, abort and exit, and whatever throws: what joining  *)
(* the thread in end_of_run and in the destructor is for.                   *)
THEOREM BoardsOutliveWorkers ==
    ASSUME "refresh" \notin Commands
    PROVE  Spec => []NoUseAfterFree
<1>1. Init => TypeInv /\ ThreadInv /\ BoardInv /\ UseInv
  <2>1. Init => TypeInv /\ ThreadInv /\ BoardInv
    BY InitType, NewThreadType
       DEF Init, ThreadInv, SingleWorker, Unthreaded, BoardInv, Current
  <2>2. Init => UseInv
    BY NewThreadType DEF Init, UseInv, UsesBoard, KnowsMaster, MasterPC
  <2>. QED BY <2>1, <2>2
<1>2. UseInv => NoUseAfterFree
  BY DEF UseInv, UsesBoard, NoUseAfterFree
<1>3. TypeInv /\ ThreadInv /\ BoardInv /\ UseInv /\ [Next]_vars => UseInv'
  BY UseStep DEF Refresh
<1>. QED BY <1>1, <1>2, <1>3, NextType, ThreadStep, BoardStep, PTL DEF Spec

-----------------------------------------------------------------------------
(* With rescans and exceptions, as MCSpec records them.  What holds whether *)
(* the run was disturbed or not: who has no thread uses no board, a thread  *)
(* stays in its loop, m_drs is there unless it is being replaced, and a run *)
(* is only started with a board.                                            *)
ReadoutPC == {"rtest", "rrate", "rdom", "rpick", "rwait", "rforce", "rend", "rchk", "rxfer",
              "done"}

InLoop(t) == /\ w[t].pc = "none" => w[t].obj = None
             /\ w[t].pc # "none" /\ w[t].kind = "readout" => w[t].pc \in ReadoutPC

Always ==
    /\ \A t \in Threads : InLoop(t)
    /\ mpc \notin {"boot", "gone", "r_scan"} => drs # 0
    /\ mpc \in {"b_config", "b_active", "b_join", "b_spawn"} => Connected # {}

(* How the readout loop ends.                                               *)
LEMMA ReadoutEnds ==
    ASSUME TypeInv, NEW t \in Threads, WorkerStep(t),
           w[t].kind = "readout", w[t].pc \in ReadoutPC
    PROVE  /\ w'[t].pc \in ReadoutPC
           /\ w'[t].pc = "done" => inEnd \/ Connected = {} \/ SweepThrow(t)
<1>. USE DEF TypeInv, TypeOK, Worker, ReadoutPC
<1>1. CASE SweepPass(t) \/ SweepEnter(t) \/ SweepLeave(t) \/ CallEnter(t)
  BY <1>1, SweepPCs DEF SweepPass, SweepEnter, SweepLeave, CallEnter, CallPC
<1>2. CASE SweepEnd(t)
  <2>. DEFINE next == SweepTo[w[t].pc]
  <2>1. next \in {"rdom", "rpick", "rwait", "rtest"}
    BY <1>2, SweepPCs DEF SweepEnd, SweepTo
  <2>2. w'[t].pc = next
    <3>. DEFINE v == IF next = "rdom" THEN num - 1 ELSE 0
    <3>1. w' = [w EXCEPT ![t].pc = next, ![t].i = v]
      BY <1>2 DEF SweepEnd
    <3>. HIDE DEF next, v
    <3>. QED BY <3>1
  <2>. HIDE DEF next
  <2>. QED BY <2>1, <2>2
<1>3. CASE SweepThrow(t)
  BY <1>3 DEF SweepThrow
<1>4. CASE LivePreview(t)
  BY <1>4 DEF LivePreview, LiveTest, LivePick, LiveInfo, LiveMode, LiveStart, LiveWait, LiveCheck,
              Returning
<1>5. CASE ReadoutTest(t)
  BY <1>5 DEF ReadoutTest
<1>6. CASE ReadoutPick(t)
  <2>1. CASE Connected = {} /\ w' = [w EXCEPT ![t].pc = "done"]
    BY <2>1
  <2>2. ASSUME NEW j \in Connected,
               w' = [w EXCEPT ![t].pc = "rwait", ![t].m = j,
                              ![t].n = PollBound, ![t].forced = FALSE]
        PROVE  w'[t].pc = "rwait"
    <3>. DEFINE r == [w[t] EXCEPT !.pc = "rwait", !.m = j, !.n = PollBound, !.forced = FALSE]
    <3>1. r.pc = "rwait"
      OBVIOUS
    <3>2. w' = [w EXCEPT ![t] = r]
      BY <2>2
    <3>. HIDE DEF r
    <3>. QED BY <3>1, <3>2
  <2>. QED BY <1>6, <2>1, <2>2 DEF ReadoutPick
<1>7. CASE ReadoutWait(t)
  BY <1>7 DEF ReadoutWait, Return, Returning
<1>8. CASE ReadoutEnd(t)
  BY <1>8 DEF ReadoutEnd
<1>9. CASE ReadoutCheck(t)
  BY <1>9 DEF ReadoutCheck, Return, Returning
<1>. QED BY <1>1, <1>2, <1>3, <1>4, <1>5, <1>6, <1>7, <1>8, <1>9
         DEF WorkerStep, Sweep, Readout

LEMMA AlwaysStep == TypeInv /\ Always /\ [Next]_vars => Always'
<1>. SUFFICES ASSUME TypeInv, Always, [Next]_vars PROVE Always'
  OBVIOUS
<1>. USE DEF Always, InLoop, Goto
<1>1. ASSUME UNCHANGED <<w, drs, num, hw>>,
             mpc \in {"boot", "gone", "r_scan"} => mpc' = mpc,
             mpc' \in {"b_config", "b_active", "b_join", "b_spawn"} =>
                 mpc \in {"b_config", "b_active", "b_join", "b_spawn"}
      PROVE  Always'
  BY <1>1 DEF Connected
<1>2. ASSUME NEW t \in Threads, WorkerStep(t) PROVE Always'
  <2>1. Stays(t)
    BY <1>2, SweepStays, LoopStays DEF WorkerStep
  <2>2. UNCHANGED <<mpc, drs, hw, num>>
    BY <1>2 DEF WorkerStep, boards
  <2>3. w'[t].kind = "readout" => w'[t].pc \in ReadoutPC
    BY <1>2, <2>1, ReadoutEnds DEF Stays
  <2>. QED BY <2>1, <2>2, <2>3 DEF Stays, Connected
<1>3. ASSUME NEW from, NEW to, Join(from, to), from # "boot", from # "gone", from # "r_scan",
             to \in {"b_spawn", "e_inactive", "x_delete"}, to = "b_spawn" => from = "b_join"
      PROVE  Always'
  <2>1. UNCHANGED <<drs, hw, num>> /\ mpc = from /\ mpc' = to
    BY <1>3 DEF Join, boards
  <2>2. \A t \in Threads : w'[t] = w[t] \/ w'[t] = NoThread
    BY <1>3 DEF Join, TypeInv, TypeOK
  <2>. QED BY <1>3, <2>1, <2>2, NewThreadType DEF Connected
<1>4. ASSUME NEW from, NEW kind \in {"live", "readout"}, NEW state, Spawn(from, kind, state),
             from # "boot", from # "gone", from # "r_scan"
      PROVE  Always'
  <2>. DEFINE r == NewThread(kind)
  <2>1. r.pc # "none" /\ (r.kind = "readout" => r.pc \in ReadoutPC)
    BY DEF NewThread, ReadoutPC
  <2>2. \A t \in Threads : w'[t] = w[t] \/ w'[t] = r
    BY <1>4 DEF Spawn, TypeInv, TypeOK
  <2>3. UNCHANGED <<drs, hw, num>> /\ mpc = from /\ mpc' = "idle"
    BY <1>4 DEF Spawn, boards
  <2>. HIDE DEF r
  <2>. QED BY <1>4, <2>1, <2>2, <2>3
<1>5. CASE UNCHANGED vars
  BY <1>1, <1>5 DEF vars
<1>6. CASE BeginJoin \/ EndJoin \/ ExitJoin
  BY <1>3, <1>6 DEF BeginJoin, EndJoin, ExitJoin
<1>7. CASE BootSpawn \/ BeginSpawn \/ EndSpawn
  BY <1>4, <1>7 DEF BootSpawn, BeginSpawn, EndSpawn
<1>8. CASE BeginOfRun \/ BeginInactive \/ BeginConfig \/ BeginActive
  BY <1>1, <1>8 DEF BeginOfRun, BeginInactive, BeginConfig, BeginActive, boards
<1>9. CASE BeginConnect
  <2>1. UNCHANGED <<w, drs>> /\ mpc = "b_connect" /\ mpc' \in {"b_config", "idle"}
    BY <1>9 DEF BeginConnect
  <2>2. mpc' = "b_config" => Connected' # {}
    BY <1>9 DEF BeginConnect, Connected
  <2>. QED BY <2>1, <2>2
<1>10. CASE EndOfRun \/ EndInactive \/ EndClear \/ Exit
  BY <1>1, <1>10 DEF EndOfRun, EndInactive, EndClear, Exit, boards
<1>11. CASE Boot \/ ExitDelete
  BY <1>11 DEF Boot, ExitDelete
<1>12. CASE Refresh \/ RefreshDrop \/ RefreshDelete \/ RefreshScan \/ RefreshBoard \/ RefreshNull
  <2>1. mpc' # "r_scan" => drs' # 0
    BY <1>12 DEF Refresh, RefreshDrop, RefreshDelete, RefreshScan, RefreshBoard, RefreshNull,
                 boards, TypeInv, TypeOK
  <2>2. UNCHANGED w /\ mpc' \in {"r_drop", "r_delete", "r_scan", "r_boards", "idle"}
    BY <1>12 DEF Refresh, RefreshDrop, RefreshDelete, RefreshScan, RefreshBoard, RefreshNull
  <2>. QED BY <2>1, <2>2
<1>. QED BY <1>2, <1>5, <1>6, <1>7, <1>8, <1>9, <1>10, <1>11, <1>12
         DEF Next, Command, MainStep

(* A readout thread has a board and has only returned when told to.         *)
Reads(t) == w[t].pc # "none" /\ w[t].kind = "readout" =>
                Connected # {} /\ (w[t].pc = "done" => inEnd)

RunInvs == TypeInv /\ ThreadInv /\ RunInv /\ BoardInv /\ Always

Undisturbed == UseInv /\ \A t \in Threads : Reads(t)

LEMMA ReadsStep ==
    ASSUME RunInvs, Undisturbed, [Next]_vars, ~Refresh, \A t \in Threads : ~SweepThrow(t)
    PROVE  \A t \in Threads : Reads(t)'
<1>. USE DEF RunInvs, Undisturbed, Reads, Goto
<1>1. ASSUME w' = w, Connected # {} => Connected' # {},
             (inEnd => inEnd')
               \/ \A t \in Threads : w[t].pc # "none" => w[t].kind # "readout"
      PROVE  \A t \in Threads : Reads(t)'
  BY <1>1
<1>2. ASSUME NEW t \in Threads, WorkerStep(t) PROVE \A u \in Threads : Reads(u)'
  <2>1. Stays(t)
    BY <1>2, SweepStays, LoopStays DEF WorkerStep
  <2>2. UNCHANGED <<inEnd, hw, num>>
    BY <1>2 DEF WorkerStep, boards, flags
  <2>3. w[t].kind = "readout" /\ w'[t].pc = "done" => inEnd \/ Connected = {}
    BY <1>2, <2>1, ReadoutEnds DEF Always, InLoop, Stays
  <2>. QED BY <2>1, <2>2, <2>3 DEF Stays, Connected
<1>3. CASE BeginJoin \/ EndJoin \/ ExitJoin
  <2>1. UNCHANGED <<inEnd, hw, num>>
    BY <1>3 DEF BeginJoin, EndJoin, ExitJoin, Join, boards, flags
  <2>2. \A t \in Threads : w'[t] = w[t] \/ w'[t] = NoThread
    BY <1>3 DEF BeginJoin, EndJoin, ExitJoin, Join, TypeInv, TypeOK
  <2>. QED BY <2>1, <2>2, NewThreadType DEF Connected
<1>4. CASE BootSpawn \/ BeginSpawn \/ EndSpawn
  <2>1. UNCHANGED <<inEnd, hw, num>> /\ (BeginSpawn => Connected # {})
    BY <1>4 DEF BootSpawn, BeginSpawn, EndSpawn, Spawn, boards, flags, Always
  <2>2. PICK kind \in {"live", "readout"} : /\ \A t \in Threads : w'[t] = w[t] \/ w'[t] = NewThread(kind)
                                            /\ kind = "readout" => BeginSpawn
    BY <1>4 DEF BootSpawn, BeginSpawn, EndSpawn, Spawn, TypeInv, TypeOK
  <2>. DEFINE r == NewThread(kind)
  <2>3. r.kind = kind /\ r.pc # "done" /\ \A t \in Threads : w'[t] = w[t] \/ w'[t] = r
    BY <2>2 DEF NewThread
  <2>. HIDE DEF r
  <2>. QED BY <2>1, <2>2, <2>3 DEF Connected
<1>5. CASE BeginOfRun
  <2>1. thread # None /\ w[thread].kind = "live"
    BY <1>5 DEF BeginOfRun, RunInv, AtRest, Alive
  <2>2. \A t \in Threads : w[t].pc # "none" => w[t].kind # "readout"
    BY <2>1 DEF ThreadInv, SingleWorker
  <2>. QED BY <1>1, <1>5, <2>2 DEF BeginOfRun, boards, Connected
<1>6. CASE EndClear
  <2>1. \A t \in Threads : w[t].pc = "none"
    BY <1>6, EnvironmentAssumption DEF EndClear, ThreadInv, SingleWorker, Unthreaded
  <2>. QED BY <1>1, <1>6, <2>1 DEF EndClear, boards, Connected
<1>7. CASE Boot
  <2>1. \A t \in Threads : w[t].pc = "none"
    BY <1>7, EnvironmentAssumption DEF Boot, ThreadInv, SingleWorker, Unthreaded
  <2>. QED BY <1>7, <2>1 DEF Boot
<1>8. CASE BeginConnect
  <2>1. UNCHANGED <<w, inEnd>> /\ (Connected # {} => Connected' # {})
    BY <1>8 DEF BeginConnect, Connected, flags
  <2>. QED BY <1>1, <2>1
<1>9. CASE BeginInactive \/ BeginConfig \/ BeginActive
  BY <1>1, <1>9 DEF BeginInactive, BeginConfig, BeginActive, boards, flags, Connected
<1>10. CASE EndOfRun \/ EndInactive \/ Exit \/ ExitDelete
  BY <1>1, <1>10 DEF EndOfRun, EndInactive, Exit, ExitDelete, boards, flags, Connected
<1>11. CASE RefreshDrop \/ RefreshDelete \/ RefreshScan \/ RefreshBoard \/ RefreshNull
  BY <1>11 DEF RefreshDrop, RefreshDelete, RefreshScan, RefreshBoard, RefreshNull, UseInv
<1>12. CASE UNCHANGED vars
  BY <1>1, <1>12 DEF vars, Connected
<1>. QED BY <1>2, <1>3, <1>4, <1>5, <1>6, <1>7, <1>8, <1>9, <1>10, <1>11, <1>12
         DEF Next, Command, MainStep

(* A start begins anew, whatever was before it.                             *)
LEMMA StartAnew ==
    ASSUME RunInvs, BeginSpawn
    PROVE  Undisturbed'
<1>1. \A t \in Threads : w[t].pc = "none" /\ w[t].obj = None
  BY EnvironmentAssumption
     DEF RunInvs, Always, InLoop, BeginSpawn, Spawn, Goto, ThreadInv, SingleWorker, Unthreaded
<1>2. UNCHANGED <<drs, hw, num, inEnd>> /\ mpc' = "idle" /\ mpc = "b_spawn"
  BY DEF BeginSpawn, Spawn, Goto, boards, flags
<1>. DEFINE r == NewThread("readout")
<1>3. \A t \in Threads : w'[t] = w[t] \/ w'[t] = r
  BY DEF BeginSpawn, Spawn, RunInvs, TypeInv, TypeOK
<1>4. r.obj = None /\ r.pc \notin MasterPC /\ r.pc # "done"
  BY DEF NewThread, MasterPC
<1>. HIDE DEF r
<1>5. drs # 0 /\ Connected # {} /\ Connected' = Connected
  BY <1>2 DEF RunInvs, Always, Connected
<1>. QED BY <1>1, <1>2, <1>3, <1>4, <1>5
         DEF Undisturbed, UseInv, UsesBoard, KnowsMaster, Reads, MasterPC

LEMMA UndisturbedStep ==
    ASSUME RunInvs, ~disturbed => Undisturbed, [MCNext]_<<vars, disturbed>>
    PROVE  (~disturbed => Undisturbed)'
<1>1. CASE UNCHANGED <<vars, disturbed>>
  <2>. SUFFICES ASSUME ~disturbed PROVE Undisturbed'
    BY <1>1
  <2>1. ~Refresh /\ \A t \in Threads : ~SweepThrow(t)
    BY <1>1 DEF Refresh, Goto, vars, SweepThrow, RunInvs, TypeInv, TypeOK, Worker
  <2>2. [Next]_vars
    BY <1>1
  <2>. QED BY <2>1, <2>2, UseStep, ReadsStep DEF RunInvs, Undisturbed
<1>2. CASE MCNext /\ mpc = "b_spawn"
  <2>1. BeginSpawn
    <3>1. \A t \in Threads : ~WorkerStep(t)
      <4>1. \A t \in Threads : w[t].pc = "none"
        BY <1>2, EnvironmentAssumption DEF RunInvs, ThreadInv, SingleWorker, Unthreaded
      <4>. QED BY <4>1, SweepStays, LoopStays DEF WorkerStep, RunInvs, Stays
    <3>. QED BY <1>2, <3>1
             DEF MCNext, Next, Command, MainStep, BeginOfRun, EndOfRun, Refresh, Exit, Boot,
                 BootSpawn, BeginInactive, BeginConnect, BeginConfig, BeginActive, BeginJoin,
                 EndJoin, EndInactive, EndClear, EndSpawn, RefreshDrop, RefreshDelete, RefreshScan,
                 RefreshBoard, RefreshNull, ExitJoin, ExitDelete, Goto, Join, Spawn
  <2>. QED BY <2>1, StartAnew
<1>3. CASE MCNext /\ mpc # "b_spawn"
  <2>. SUFFICES ASSUME ~disturbed' PROVE Undisturbed'
    OBVIOUS
  <2>1. /\ ~(mpc = "idle" /\ mpc' = "r_drop")
        /\ ~\E t \in Threads : SweepThrow(t)
        /\ ~disturbed
    BY <1>3 DEF MCNext
  <2>2. ~Refresh /\ [Next]_vars
    BY <1>3, <2>1 DEF MCNext, Refresh, Goto
  <2>. QED BY <2>1, <2>2, UseStep, ReadsStep DEF RunInvs, Undisturbed
<1>. QED BY <1>1, <1>2, <1>3

LEMMA MCInvariant == MCSpec => [](RunInvs /\ (~disturbed => Undisturbed))
<1>1. MCInit => RunInvs /\ (~disturbed => Undisturbed)
  <2>. SUFFICES ASSUME Init PROVE RunInvs /\ Undisturbed
    BY DEF MCInit
  <2>1. TypeInv /\ ThreadInv /\ BoardInv
    BY InitType, NewThreadType
       DEF Init, ThreadInv, SingleWorker, Unthreaded, BoardInv, Current
  <2>2. RunInv
    BY DEF Init, RunInv, AtRest, Starting
  <2>3. Always /\ Undisturbed
    BY NewThreadType
       DEF Init, Always, InLoop, Undisturbed, Reads, UseInv, UsesBoard, KnowsMaster, MasterPC
  <2>. QED BY <2>1, <2>2, <2>3 DEF RunInvs
<1>2. RunInvs /\ (~disturbed => Undisturbed) /\ [MCNext]_<<vars, disturbed>>
      => (RunInvs /\ (~disturbed => Undisturbed))'
  <2>. SUFFICES ASSUME RunInvs, ~disturbed => Undisturbed, [MCNext]_<<vars, disturbed>>
                PROVE  (RunInvs /\ (~disturbed => Undisturbed))'
    OBVIOUS
  <2>1. [Next]_vars
    BY DEF MCNext
  <2>2. RunInvs'
    BY <2>1, NextType, ThreadStep, RunStep, BoardStep, AlwaysStep DEF RunInvs
  <2>. QED BY <2>2, UndisturbedStep
<1>. QED BY <1>1, <1>2, PTL DEF MCSpec

(* From a start to the next rescan no worker is inside a method of a        *)
(* deleted DRSBoard, whatever was rescanned before and in any order of      *)
(* stops, aborts, starts and exit.                                          *)
THEOREM RestartIsSafe == MCSpec => []NoUseAfterFreeUndisturbed
<1>1. (~disturbed => Undisturbed) => NoUseAfterFreeUndisturbed
  BY DEF Undisturbed, UseInv, UsesBoard, NoUseAfterFree, NoUseAfterFreeUndisturbed
<1>. QED BY <1>1, MCInvariant, PTL

(* A run keeps its readout thread until it ends, the boards are rescanned   *)
(* or reading the ODB throws: readout_loop returns on its own only without  *)
(* a connected board, and begin_of_run() does not start a run without one.  *)
THEOREM RunKeepsReadout == MCSpec => []ReadoutUndisturbed
<1>1. RunInvs /\ (~disturbed => Undisturbed) => ReadoutUndisturbed
  BY DEF RunInvs, RunInv, AtRest, Alive, ThreadInv, SingleWorker, TypeInv, TypeOK, Undisturbed,
         Reads, ReadoutWhileRunning, ReadoutUndisturbed
<1>. QED BY <1>1, MCInvariant, PTL
=============================================================================
