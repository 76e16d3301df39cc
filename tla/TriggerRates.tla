---------------------------- MODULE TriggerRates ----------------------------
(***************************************************************************)
(* The acquisition rate of the status panel: update_trigger_rates() on the *)
(* worker thread, the event counters it reads, and begin_of_run() on the   *)
(* main thread, which resets part of that state while the worker of the    *)
(* live preview is still running.                                          *)
(*                                                                         *)
(* RunControl has the lifecycle of the threads; here one worker exists at  *)
(* all times and begin_of_run()'s join() waits until it is between two     *)
(* iterations.  The shared variables are plain: each 8-byte load or store  *)
(* is a step, a memset() one step per board.                               *)
(***************************************************************************)
EXTENDS Integers

CONSTANTS
    NBoards,     \* connected boards
    Epoch,       \* the system clock when the front end starts, in ticks
    Second,      \* ticks in a second
    MaxTime,     \* bound: ticks the clock advances
    MaxEvents,   \* bound: events counted on one board
    MaxRun       \* bound: runs started

ASSUME RateAssumption ==
    /\ NBoards \in Nat \ {0} /\ Second \in Nat \ {0}
    /\ Epoch \in Nat /\ Epoch > MaxTime
    /\ MaxTime \in Nat /\ MaxEvents \in Nat /\ MaxRun \in Nat

Board == 0 .. NBoards - 1

VARIABLES
    now,         \* the system clock
    cnt,         \* m_event_cnt[]
    prevCnt,     \* m_prev_event_cnt[]
    prevTime,    \* m_prev_time
    step, i,     \* the worker: where it is, its board index
    nowS, dt,    \*   now_s, dt
    cur,         \*   cur_cnt
    mpc, mi,     \* the main thread: where it is, its board index
    runs,        \* runs started
    rate,        \* TrgRate_B<i>_Acq in the ODB: events per ticks
    shown        \* history: the sums of what was published for a board

workerVars == <<step, i, nowS, dt, cur, rate, shown>>
mainVars == <<mpc, mi, runs>>
rateVars == <<now, cnt, prevCnt, prevTime, workerVars, mainVars>>

NoRate == [delta |-> 0, dt |-> 0]

-----------------------------------------------------------------------------
(* The worker between two updates counts what it captured or read out.      *)
CountEvent ==
    /\ step = "loop"
    /\ \E b \in Board : /\ cnt[b] < MaxEvents
                        /\ cnt' = [cnt EXCEPT ![b] = @ + 1]
    /\ UNCHANGED <<now, prevCnt, prevTime, workerVars, mainVars>>

(* `if (m_prev_time <= 0) m_prev_time = now_s;`                             *)
ReadClock ==
    /\ step = "loop" /\ step' = "window"
    /\ nowS' = now
    /\ prevTime' = IF prevTime = 0 THEN now ELSE prevTime
    /\ UNCHANGED <<now, cnt, prevCnt, i, dt, cur, rate, shown, mainVars>>

(* `double dt = now_s - m_prev_time;`                                       *)
Window ==
    /\ step = "window"
    /\ dt' = nowS - prevTime
    /\ step' = IF dt' >= Second THEN "tick" ELSE "loop"
    /\ UNCHANGED <<now, cnt, prevCnt, prevTime, i, nowS, cur, rate, shown, mainVars>>

(* Mutated form: m_prev_time keeps the time of the first update.            *)
TickWithoutReset ==
    /\ step = "tick" /\ step' = "rate"
    /\ i' = 0
    /\ UNCHANGED <<now, cnt, prevCnt, prevTime, nowS, dt, cur, rate, shown, mainVars>>

(* `if (rate_tick) m_prev_time = now_s;`                                    *)
Tick ==
    /\ step = "tick" /\ step' = "rate"
    /\ prevTime' = nowS /\ i' = 0
    /\ UNCHANGED <<now, cnt, prevCnt, nowS, dt, cur, rate, shown, mainVars>>

(* cur_cnt, delta and the rate.                                             *)
PublishRate ==
    /\ step = "rate" /\ step' = "store"
    /\ cur' = cnt[i]
    /\ LET delta == IF prevCnt[i] <= cnt[i] THEN cnt[i] - prevCnt[i] ELSE 0
       IN /\ rate' = [rate EXCEPT ![i] = [delta |-> delta, dt |-> dt]]
          /\ shown' = [shown EXCEPT ![i] = [delta |-> @.delta + delta, dt |-> @.dt + dt]]
    /\ UNCHANGED <<now, cnt, prevCnt, prevTime, i, nowS, dt, mainVars>>

(* Mutated form: the counter of the previous update is not brought up.      *)
StoreForgotten ==
    /\ step = "store"
    /\ i' = (i + 1) % NBoards
    /\ step' = IF i + 1 = NBoards THEN "loop" ELSE "rate"
    /\ UNCHANGED <<now, cnt, prevCnt, prevTime, nowS, dt, cur, rate, shown, mainVars>>

(* `m_prev_event_cnt[i] = cur_cnt;` and the next board.                     *)
StorePrev ==
    /\ step = "store"
    /\ prevCnt' = [prevCnt EXCEPT ![i] = cur]
    /\ i' = (i + 1) % NBoards
    /\ step' = IF i + 1 = NBoards THEN "loop" ELSE "rate"
    /\ UNCHANGED <<now, cnt, prevTime, nowS, dt, cur, rate, shown, mainVars>>

UpdateTriggerRates == ReadClock \/ Window \/ Tick \/ PublishRate \/ StorePrev

-----------------------------------------------------------------------------
(* begin_of_run(): the resets, then the join.  m_event_cnt[] is kept.       *)
BeginOfRun ==
    /\ mpc = "idle" /\ runs < MaxRun
    /\ mpc' = "reset" /\ mi' = 0 /\ runs' = runs + 1
    /\ UNCHANGED <<now, cnt, prevCnt, prevTime, workerVars>>

(* Mutated form: the event counter is reset instead of its last value.      *)
ResetEventCnt ==
    /\ mpc = "reset"
    /\ cnt' = [cnt EXCEPT ![mi] = 0]
    /\ mi' = (mi + 1) % NBoards
    /\ mpc' = IF mi + 1 = NBoards THEN "time" ELSE "reset"
    /\ UNCHANGED <<now, prevCnt, prevTime, workerVars, runs>>

(* memset(m_prev_event_cnt, 0, sizeof(m_prev_event_cnt)).                   *)
ResetPrevCnt ==
    /\ mpc = "reset"
    /\ prevCnt' = [prevCnt EXCEPT ![mi] = 0]
    /\ mi' = (mi + 1) % NBoards
    /\ mpc' = IF mi + 1 = NBoards THEN "time" ELSE "reset"
    /\ UNCHANGED <<now, cnt, prevTime, workerVars, runs>>

ResetPrevTime ==
    /\ mpc = "time" /\ mpc' = "join"
    /\ prevTime' = 0
    /\ UNCHANGED <<now, cnt, prevCnt, workerVars, mi, runs>>

Join ==
    /\ mpc = "join" /\ step = "loop"
    /\ mpc' = "idle"
    /\ UNCHANGED <<now, cnt, prevCnt, prevTime, workerVars, mi, runs>>

-----------------------------------------------------------------------------
ClockTick ==
    /\ now < Epoch + MaxTime
    /\ now' = now + 1
    /\ UNCHANGED <<cnt, prevCnt, prevTime, workerVars, mainVars>>

RateInit ==
    /\ now = Epoch
    /\ cnt = [b \in Board |-> 0] /\ prevCnt = [b \in Board |-> 0] /\ prevTime = 0
    /\ step = "loop" /\ i = 0 /\ nowS = 0 /\ dt = 0 /\ cur = 0
    /\ mpc = "idle" /\ mi = 0 /\ runs = 0
    /\ rate = [b \in Board |-> NoRate] /\ shown = [b \in Board |-> NoRate]

RateNext == \/ CountEvent \/ UpdateTriggerRates
        \/ BeginOfRun \/ ResetPrevCnt \/ ResetPrevTime \/ Join
        \/ ClockTick

RateSpec == RateInit /\ [][RateNext]_rateVars

-----------------------------------------------------------------------------
Clock == 0 .. Epoch + MaxTime

RateTypeOK ==
    /\ now \in Clock /\ prevTime \in Clock /\ nowS \in Clock /\ dt \in Clock
    /\ cnt \in [Board -> 0 .. MaxEvents] /\ prevCnt \in [Board -> 0 .. MaxEvents]
    /\ step \in {"loop", "window", "tick", "rate", "store"} /\ i \in Board
    /\ cur \in 0 .. MaxEvents
    /\ mpc \in {"idle", "reset", "time", "join"} /\ mi \in Board /\ runs \in 0 .. MaxRun
    /\ rate \in [Board -> [delta : 0 .. MaxEvents, dt : Clock]]
    /\ shown \in [Board -> [delta : Nat, dt : Nat]]

(* The count of the last update is never ahead of the event counter, so the *)
(* unsigned difference is never formed the wrong way round and the `: 0`    *)
(* branch that would hide events is never taken, although begin_of_run()    *)
(* resets one of the two in the middle of an update.                        *)
PrevNotAhead == \A b \in Board : prevCnt[b] <= cnt[b]

(* Until the first run is started the published rates, each with its       *)
(* window, add up to the events captured: every event is part of exactly    *)
(* one rate or still to be published, each window is a second or more, and  *)
(* the windows of a board do not overlap, so together they are no longer    *)
(* than the front end has been running.                                     *)
RatesAddUp ==
    runs = 0 => \A b \in Board :
        /\ shown[b].delta = (IF step = "store" /\ i = b THEN cur ELSE prevCnt[b])
        /\ rate[b] # NoRate => rate[b].dt >= Second
        /\ shown[b].dt <= now - Epoch
=============================================================================
