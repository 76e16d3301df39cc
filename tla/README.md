# Verification of the DRS4 MIDAS front end

TLA+ models of the front end of this repository (`src/src/drs_frontend*.cxx`), of the DRS library
it drives (`src/src/DRS.cpp`), and of the web page and the offline decoder that use its output.
TLC checks the models on small instances; TLAPS proves the theorems in the `*Proof` modules for
every value of the constants.

    tlc -workers 2 -config RunControl_all.cfg MCRunControl    # one run
    tlapm RunControlProof.tla                                 # the proofs of one module

## 1. The system

The front end is one process with two threads. The **main thread** belongs to the MIDAS framework
and runs one handler at a time: `begin_of_run`, `end_of_run`, `startabort`, the ODB watches,
`poll_event` / `read_trigger_event`, `frontend_exit`. The **worker** (`m_readout_thread`) runs
`live_preview_loop` while no run is going on and `readout_loop` during a run; transitions join one
and start the other. Both use the boards (`m_boards[]`, objects of `DRS.cpp`), which do their own
USB transfers. Outside the process are the operator's web page, the MIDAS web server, the logger
and the offline decoder.

| Component | State | Operations | Interacts with | Hard part | What makes it correct |
|---|---|---|---|---|---|
| Run and thread lifecycle (`drs_frontend_class.cxx` 36-59, 121-191, 867-1253, 1406-1506; `drs_frontend.cxx`) | `m_in_end_of_run`, `m_run_active`, `m_readout_thread`, `m_drs`, `m_num_boards`, `m_boards[]`, `m_board_hw_connected[]` | init, begin/end of run, start-abort, rescan, exit, two worker loops | every other component runs on one of its threads | two threads share tables without a lock; joins; exceptions end a worker | one worker, of the kind the run needs; handlers end; no call into a deleted board |
| Readout pipeline (1406-1713) | board states, MIDAS ring buffer, `m_event_cnt[]` | StartDomino in reverse order, wait for the master, transfer, fill, commit, poll, copy | boards, MIDAS logger | trigger arrives between any two calls; buffer full; run ends anywhere; slow board | events are whole, in order, once, of one trigger, and delivered |
| Snapshot (767-861) | JSON file, `.tmp` file, two ODB flags | capture, write, fsync, rename; request; HTTP read | web page, file system | reader during the rename, crash, power failure, full disk, failed fsync | readers see whole files; the live file never goes back |
| Acquisition rates (951-984) | `m_event_cnt[]`, `m_prev_event_cnt[]`, `m_prev_time` | update, reset at begin of run | both threads write the state without a lock | reset in the middle of an update | each event in one rate; windows disjoint |
| Board configuration (325-521) | control bits, thresholds, clock by board type | `apply_board_config` on either thread | control register | order of setters by board type; a second configuration while the worker runs | the register ends as the settings say, whatever ran before |
| Control register and setters (`DRS.cpp` 1517-3260, 4090-4340) | `fCtrlBits`, trigger and DAC shadows | setters, StartDomino, SoftTrigger, Init, Reinit | all of the front end | read-modify-write by two threads | no setter loses another's bit |
| EEPROM, calibration data (`DRS.cpp` 4443-4520, 4768-5170, 5480-5769) | pages behind the board's RAM, header, cached tables | read, write page by page, load at every start | calibration, and the preview, whose waveforms use the same RAM | crash between pages; two calibrations share a page | the header never claims a table that is not there; a completed calibration is not lost |
| Calibration (527-667, 689-761) | averages, ODB status | voltage and timing calibration from a watch on the main thread | worker, EEPROM, ODB | the preview restarts, reads and configures the board meanwhile; unbounded spin on `IsBusy()` | ends; gives the board back as it was; memory agrees with the EEPROM |
| Waveforms (`DRS.cpp` 2800-2900, 3397-3900, 4537-4700; 1259-1374) | offsets, gains, cell widths | measure, store, decode, rotate, time axis, trigger delay and marker | readout, preview, decoder | arithmetic modulo 1024, two readout layouts, rounding | each sample has the voltage and the time of its cell |
| Settings (20-115, 121-320, 689-761) | ODB tree, slots | defaults, inventory, scan, rescan, watches | page, worker, USB bus | boards come and go or cannot be opened; kill between any two steps; others write the ODB | directories match the boards; an operator's value survives |
| Bank decoder (`drs4_midas2root.py`) | none | find the layout, parse | `fill_midas_banks` | layout by size | decodes what was encoded |
| Web page (`drs4.html`) | controls, last values, timers | loadSettings, saveSetting, snapshots | ODB, snapshot | replies lost or out of order | ends up with the ODB's values |
| USB transport (`DRS.cpp` 289-420, 1253-1513; `musbstd.h`) | one mutex, one buffer, two endpoints per board | Read, Write, open, close | everything above | threads and boards share mutex and buffer; a time-out leaves an answer behind | an access is atomic and gets its own answer |
| Response calibration, averager, vendored headers, build files | - | - | - | - | not modelled, section 7 |

Section and line numbers without a file name are those of `src/src/drs_frontend_class.cxx`.
`PROJECT.json` lists each hazard at its line.

## 2. Modules

| Module | Content |
|---|---|
| `RunControl` | the lifecycle: main thread, worker loops, board tables |
| `EventStream` | abstract: a bounded FIFO of complete events |
| `Readout` | the data path of a run; implements `EventStream` |
| `Snapshot` | the snapshot file, its reader, crashes and power failures |
| `TriggerRates` | the Acq/s rates and the resets of begin_of_run |
| `CtrlReg` | the setters of `DRS.cpp` as sequences of loads, stores and transfers; `Init()` of a board |
| `BoardConfig` | `apply_board_config()` on the main thread and on the worker, over `CtrlReg` |
| `Calibration` | both calibrations against the preview, EEPROM pages, crashes, restart; over `CtrlReg` |
| `Waveform` | from the cells of the chip to the decoded event |
| `Settings` | slots and directories, rescans, the page and other ODB clients |
| `RegisterFile` | abstract: atomic access to the registers of the boards |
| `Usb` | `Read()` and `Write()` over USB 2; implements `RegisterFile` |
| `RunControlProof`, `ReadoutProof`, `BoardConfigProof`, `CalibrationProof`, `WaveformProof`, `SettingsProof`, `UsbProof` | theorems about the module they are named after |
| `PageProof` | theorems about `Snapshot` and `TriggerRates` |
| `MC...` | TLC instances of the module they extend |

The modules are composed along the calls. `Calibration` and `BoardConfig` are built from the
setters of `CtrlReg`. These take a register access for one step, which is what `RegisterFile`
promises and `Usb` is shown to implement. `Readout` is seen from MIDAS as `EventStream`.
`Waveform` composes calibration, EEPROM encoding, readout, bank and decoder, and `Settings` front
end and page. `RunControl` establishes what the others assume of it: that there is one worker,
that it is `readout_loop` exactly during a run, and that transitions join it; `Readout`,
`TriggerRates` and `BoardConfig` contain the part of begin/end of run that touches their own
variables.

Operators whose comment begins "Mutated form" are not part of any specification. Each differs from
the operator after it by a bug the code could have, and is there to show that the property named
with it in `PROJECT.json` would notice.

### RunControl

| Model | Code |
|---|---|
| `mpc`, `mi` | position in the handler of the main thread and its `for` index |
| `run` | the run state MIDAS gives this client |
| `inEnd`, `runActive`, `thread` | `m_in_end_of_run`, `m_run_active`, `m_readout_thread` |
| `w[t]` | a worker thread: the loop it runs, where it is, the board object a method is executing on (`obj`), `master`, the wait loop's counter, `soft_triggered` |
| `drs`, `board[i]` | the generation of the DRS object; `delete m_drs` makes all pointers of that generation dangling |
| `num`, `hw[i]` | `m_num_boards`, `m_board_hw_connected[i]` |

Grain: every read or write of a shared flag or table entry is one step. A board method is an
interval from `SweepEnter`/`CallEnter` to `SweepLeave`/`Returning`, because a USB transfer lasts
longer than anything the main thread does to the tables. The `for` loops over boards that look
alike (configuration, rates, capture, transfer) are one family of actions, the *sweeps*; the table
`SweepTo` says where each goes on. `begin_of_run`'s own use of the boards (`apply_all_configs`,
`StartDomino`) is `BeginConfig`: same thread as the rescan, so it cannot meet one, and it changes
nothing of this module's state.

`startabort` (`drs_frontend.cxx` 170-183) calls `end_of_run()`; `EndOfRun` therefore has both
guards, and an abort may come while no run exists. The flag reset at the start of `begin_of_run`
(`BeginOfRun`, `BeginInactive`) is modelled although `WorkerMatchesRun` shows it never changes
anything.

### Readout

A board is `idle`, `running` (after `StartDomino`), `reading` (triggered, still busy) or `ready`.
A hardware trigger needs a running master and reaches every running board, as in the daisy chain
the comments of the start order and of `readout_loop` (1401-1403) describe; `SoftTrigger` reaches
one board. These actions are the hardware and are external, as is the ring buffer of MIDAS. The
loop is modelled call by call: `LoopTest`, `Domino` (descending), `WaitMaster` with its time out,
end-of-run test and one forced trigger, `Decide`, then per board `BoardBusy` or `TransferWaves`,
`GetWp`, `FillHeader`, `FillWaves`, `Commit`, `CountEvent`. The main thread reads header and
waveforms in two steps while the loop goes on. An event is identified by (board, trigger number),
so equal events are equal data. Two history variables: `armed` (the master was running from before
when the iteration began) and `took` (transfers of this iteration).

`Queue` is the refinement mapping to `EventStream`: the slots from `nR` to `nW`, with a slot whose
header and waveforms differ mapped to a value that is not an event, so a torn event violates the
refinement.

### Snapshot

A file is an inode with the snapshot it holds, its length in chunks, the chunks on stable storage,
and what became of its `fsync()`: `Sync` may fail without anybody noticing (843), and such a file
is `"lost"` once the power has failed; until then the cache has all of it. `dirLog` is the sequence
of directory states any of which a power failure may leave. `Crash` kills the process at any step
and keeps the disk; `PowerFailure` also picks a directory state and, per file, a length between
synced and written. The HTTP server is external: it opens the live path, takes the size and reads
that many bytes in steps. `Flags` sets `SnapshotReady` also when writing failed, as the code does.
`m_snapshot_wanted` is set by the watch and read nowhere; the preview takes a snapshot with each
capture, so a request is served by the next one.

### TriggerRates

`m_event_cnt[]`, `m_prev_event_cnt[]` and `m_prev_time` are plain variables that two threads
access: formally a data race. The build is for 64-bit machines, where aligned 8-byte loads and
stores are single instructions, so the outcomes are the interleavings of whole loads and stores,
and `memset` of one element. `shown` is a history variable, the sum of what was published. The
specification is called `RateSpec`, so that `PageProof` can extend this module beside `Snapshot`.

### CtrlReg and BoardConfig

`fCtrlBits` is a plain member that every setter changes with `|=` or `&= ~` and then sends. A
setter is a sequence of steps: `load`, `store`, `send` (the transfer reads `fCtrlBits` again,
under the mutex), `put` (another register). Bits are named by their numbers, because several have
two names (29 is decimation and a trigger source, 24 polarity and calibration level, 20 the
calibration source). In `BoardConfig` each thread has a queue of calls; `Call` starts the next
one, reading its settings from the ODB there, and `Step` executes one step.

| Model | Code |
|---|---|
| `odb`, `watched` | the board's settings; changes whose watch has not been called yet |
| `bits`, `ctrl`, `reg` | `fCtrlBits`, the control register as last sent, other registers and DACs |
| `th[t]` | what a thread has still to do: calls, steps, the word it loaded, `freq` |
| `mpc`, `wpc`, `active`, `inEnd` | the handlers and loops of `RunControl`, reduced to the points where one configures or starts the board |
| `prev` | `prev_mode`, `prev_logic`, `prev_level`, `prev_ch` of the preview |
| `alone`, `settled` | history: whether anything came between the steps of the last configuration |
| `Wanted`, `ClockSwitched`, `Apart` | what the settings ask of the control word, by the comments of the setters: on type 9 `EnableTcal` asks for the switch `ACAL_EN` too; `Apart` are the bits the property leaves out |
| `followed` | history: a watch configured the board since the run began |

One board is modelled, the master (the preview compares the settings of the first connected
board). The preview reads the settings it compares in one step. Setters before the DRS4 types 5,
7, 8 and 9 are left out, and so are exceptions of `midas::odb` in the middle of a configuration.

### Calibration

A handler is the sequence of the board accesses it makes (`Program`), one action each; `at` is how
far the main thread is in it, so the preview and a crash come between any two of them. A table is
the number of the calibration that measured it (`gen`); `Garbage` is what a page holds that was
overwritten, `Flat` the equal widths timing starts from. `eeprom` and `ram` are records of the
words that matter, by page, laid out by board type: type 9 interleaves offsets and widths on page
2, the others keep the widths on page 0 with the header. `WriteEEPROM()` is modelled by what it
does: fetch the page to the RAM, put the caller's words there, burn. The header is rewritten with
2048 bytes of page 0 (`DRS.cpp` 5199-5201). On types 5, 7 and 8 that is only half of the cell
widths between its words, and the other half is burnt from what the RAM holds: `FillHeader` names
such words in `half`, and `PutRam` makes them `Garbage` when the two halves are not of one table. A
transfer of the preview is `torn` also when it falls between that fetch and the write
(`PageInRam`).

| Model | Code |
|---|---|
| `mem` | `fVoltageCalibrationValid`, `fTimingCalibratedFrequency`, `fNominalFrequency`, the tables `fCell...` |
| `bits`, `reg`, `hw` | `fCtrlBits`; frequency and range; idle, domino wave rolling, being read out |
| `mpc`, `at`, `buf`, `saved` | the handler of the main thread, how far it is in its program, its locals |
| `wpc` | where `live_preview_loop` is |
| `last`, `torn`, `before` | history: calibrations that ended; the preview has overwritten a page, or half of one, on its way; what the calibration found, and whether the preview configured into it (`alone`) |

The analysis of an event of a timing calibration is nondeterministic (it may end the loop). A
readout ends before the preview's shortest count does, and the EEPROM's poll loops are long
enough: assumptions the code makes too.

### Waveform

Functions over integers with parameters for what is 1024 cells, 4 channels, 65536 codes. A
behaviour is one capture: the board measures its offsets and gains, rounds and stores its cell
widths, loads them, sets the trigger delay, is read out (with a trailer or with status registers),
rotates, calibrates, makes the time axis and the marker, writes the bank in one of three formats,
and the decoder reads it. `CalibrateTiming()`'s rounding is a loop with a step per cell, because
the theorem is about its invariant; the rest are steps of whole functions. The chip is a constant
(`Offset`, `Gain`, `Pattern`), so that the properties compare the result with the voltages and
widths put in. `Captures` says which boards, stop cells, stuck cells, rates, modes, delays and
formats are considered.

`Samples` digitises from the stop cell or from cell 0, as `ReadoutMode` says; the front end decodes
both as the first. `asked` is the period at the rate the operator asks for, from which 461 computes
the delay; `Width` is the cell width at the rate `SetFrequency()` makes of it, in whole ticks of the
reference clock (`ClockCell`), and `Total` is what the time axis is made of. Rates are those
`SetFrequency()` accepts. The double-length mode of the library is left out: the front end reads
single channels and hands -1 for the write shift register (1324, 1553), so `stopWSR` is read and
not used.

### Settings

`todo` is what the main thread has still to do of `init()` or `rescan_boards()`; a kill comes
between any two steps. `Open` is the scan of `DRS::DRS()` with answers that may be lost while a
board is identified; an attached board that `musb_open()` or the ID check refuses ends it, as
365-369 do. `refused` (history) is its place on the bus, and `Reached` how far the scan got.
`odb[i]` is the directory of a slot: which board it names, and one value for the operator's
settings, since page and front end treat each key alone. The watch on `Refresh` (`notified`,
`refresh`) is called later than the change, as in MIDAS. The page has requests for reading and for
writing under way; each is served, answered, or lost, in any order.

### Usb and RegisterFile

An access is `Lock`, `Address`, `Data`, `SendWrite` or `SendRead`, `Receive` or `TimeOut`,
`Unlock`; `usb2_buffer` is one variable for all threads and boards. The board executes the
commands of endpoint 4 in order, and answers wait in endpoint 8. A time-out leaves an answer on
its way; only the constructor of `DRS` empties the endpoint. `Close` is a rescan: the mutex is
destroyed and never initialised again. In the refinement a write takes effect when it is sent
(`Effective` executes what is still in endpoint 4); a board stops being `trusted` with its first
failed access, and after a rescan nothing is promised (`apart`).

## 3. Runs

| Run | Bounds | Shows |
|---|---|---|
| `lifecycle` | 2 slots, 2 thread identities, 3 scans, 2 polls, all commands, exceptions | one worker, of the kind the run needs (`SingleWorker`, `WorkerMatchesRun`); consistent tables between handlers (`NoDanglingAtRest`); a worker no rescan disturbs uses live boards (`NoUseAfterFreeUndisturbed`), and a run nothing disturbs keeps its readout (`ReadoutUndisturbed`); every handler ends (`HandlersFinish`) |
| `rescan_use_after_free` | 2 scans, no exceptions | **violated**: `NoUseAfterFree` |
| `stream` | 2 boards, 2 ring slots, 3 triggers, 2 runs, 2 polls | `NoDuplicateEvent`, `SameTrigger`, `RecordedIsDelivered`; `ImplementsStream`: events are whole, in order and never overwritten |
| `slow_slave` | the same | **violated**: `TriggeredBoardsTransferred` |
| `snapshot_file` | 4 inodes, 2 chunks, 3 snapshots, 2 crashes | a reader gets one whole snapshot (`ReadsWholeSnapshot`), a power failure leaves one (`LiveSurvivesPowerFailure`), both unless its `fsync()` failed; the live file never goes back (`LiveMovesForward`) |
| `rates` | 2 boards, 2 events each, 3 seconds in half-second ticks, 1 run | `PrevNotAhead`: the unsigned difference never wraps; `RatesAddUp`: every event is in one rate, windows do not overlap |
| `config` | types 5, 7, 8, 9, both firmwares, the defaults with up to two settings changed; and type 9 with two settings the operator may change, 1 change, 1 run | `ConfigurationInEffect`: an undisturbed configuration leaves in the registers what the settings ask, but for the bits `Apart`; `RunFollowsSettings` |
| `config_lost` | type 9, one setting, 1 change, no run | **violated**: `DominoKeepsRolling` |
| `calibration` | 3 boards (type 9 in Auto mode, type 8 as the master in Normal mode, type 5 blank and not the master), a plan of one or two calibrations, 1 crash, 2 events per measurement | `HeaderNotAhead`, `CompletedKept`, `MemoryIsStored` for the data; `TrueFrequencyDefined`: no division by zero; `ConfigurationKept` and `CalibrationEnds` for the handler |
| `waveform` | 6 cells, 2 channels, every stop cell, widths that round up, down and are negative, no, one or two stuck cells, both readout modes, rates that the clock rounds up, down and not at all, delays below, at and beyond their limits, 3 formats | `RoundingBounded`, `PeriodKept` for the EEPROM; `SampleOfCell` (read FROM_STOP), `TimeOfCell`, `ChannelsAgreeAtReference` for the event; `MarkerAtEdge`; `DecodedAsWritten` for the file |
| `settings` | 2 boards, 2 slots, 2 values, 3 events (plugging, refused boards, lost answers, kills, edits, requests), 1 load and 1 save under way | `ScanFindsAll`, `InventoryMatches`, `OperatorSettingsKept`, `RefreshServed`, `PageCatchesUp` |
| `usb` | 2 threads, 2 boards, 2 registers, 1 command under way, 2 failures, kills or resets | `AnswersAwaited`, `ImplementsRegisterFile` |

Why the bounds are enough. Board loops treat all boards but the master alike, so one master and
one other board show every order of two boards. Two thread identities are one more than may live
at once, so a leaked thread is a state of its own. Three scans are enough for a pointer of a
deleted generation beside a current one, and for a start after that. Two polls make the wait loops
take each exit: at once, after another poll, by time out. In `stream` three triggers on two boards
produce up to six events for two slots: the buffer is full, drops, and wraps around three times,
over the end of a run. In `snapshot_file` three snapshots give a stale `.tmp`, a live file and one
still read at once; two chunks make a half-written file. The numbers 2 and 3 in `rates` put an
update before, at and after the second; the clock starts far from 0 so that a window counted from
0 stands out. In `config` any two settings differ from their defaults at once, so two setters that
share a bit meet with every pair of values. Its second kind of scenario has one setting the
preview compares and one it does not, and one run: the operator's change falls before, into and
after each configuration of either thread, the join, and the run.

In `calibration` the first board does a timing and then a voltage calibration, so each finds the
other's data on the page they share; two events per measurement let a timing calibration end before
and after the last; one crash falls on each step of each, and the restart runs to its end. Six
cells in `waveform` keep the reference cell and both ends of the ring apart; of the three rates one
is a whole number of ticks. Three events in `settings` are a removal, a kill and an edit in any
order, with the scan between them; one board fewer and one more than before, and boards that change
places, all occur with two slots. In `usb` two failures are a time-out and a kill, or two boards
that fail; threads are interchangeable, as are boards, hence the symmetry.

`CHECK_DEADLOCK FALSE` in most configurations: the process stops for good after `frontend_exit` in
`RunControl`, and in the other modules when the named bounds (triggers, runs, snapshots, crashes,
clock) are used up. `Settings` and `Usb` go on for ever, and are checked for deadlock.

## 4. Fairness

`MCRunControl!MCSpec` (with `RunControl!Fairness`): weak fairness of `MainStep` (a handler that
has started is executed to its end by the main thread) and of each worker's steps (the operating
system schedules a runnable thread, and a board method returns because every USB transfer has a
time out). Commands are not fair: nobody has to start a run. `HandlersFinish` then depends only on
the loops testing the flags.

`Readout!FairSpec`: weak fairness of the loop, of the consumer (MIDAS calls `poll_event` as long
as the run goes on), of the steps of a transition that has begun, and of the end of a board's
readout. Not fair: triggers, starting and ending runs. `RecordedIsDelivered` therefore has the end
of the run as its other outcome; what is then in the buffer is delivered first in the next run,
because no code empties it.

`Calibration!FairSpec`: weak fairness of the main thread, of the preview and of the end of a
readout. `Spin` is strongly fair: `while (IsBusy());` looks at the board all the time, the preview
restarts it only once per iteration, so the main thread meets it idle if it is idle again and
again. Triggers are not fair.

`Settings!Spec`: weak fairness of the main thread, which takes the next step of a scan or calls
the watch; of the page's timers; and of serving and answering each request that is not lost.
Nobody has to plug, edit, kill or ask.

The other modules claim safety only and have no fairness.

## 5. Findings

1. `rescan_boards()` deletes all boards on the main thread without stopping the worker, which may
   be inside one of them (`rescan_use_after_free`). `BoardsOutliveWorkers` proves that this is the
   only way: without a rescan no deleted board is ever used.
2. A board that is busy when its turn comes is skipped and restarted in the next iteration, so its
   data of that trigger are lost, where the comment says it is read as soon as its `IsBusy` clears
   (`slow_slave`).
3. Both threads configure the same board without a lock. The preview's configuration can read
   `DominoActive` before the operator changes it and write the old value after the watch has
   written the new one; nothing writes it again (`config_lost`).

What was seen while modelling and has no run of its own follows, because no order of steps decides
it, or because the property above is stated with a condition that leaves it out.

*Runs, rates, snapshots*

- A rescan during a run can make `readout_loop` see no connected board and return (1444); the run
  goes on without readout until the next transition. `ReadoutUndisturbed` is therefore stated up
  to a rescan.
- `begin_of_run` clears `m_prev_event_cnt[]` and not `m_event_cnt[]`, so the first rate of a run
  counts all earlier events again; and it sets `m_prev_time` to 0 while the preview may be between
  its test and its use, so that one rate is divided by the time since 1970. `RatesAddUp` is
  therefore stated up to the first run.
- `SameTrigger` says that all events of an iteration belong to one trigger *if the master was not
  running when the iteration began*. After a time out or in the first iteration of a run the
  master runs already, a trigger can fall between two `StartDomino()` calls, and the boards then
  differ.
- Nobody looks at what `fsync()` returns (843) and the file is renamed all the same: a power
  failure can then leave a cut file under the live name, where the comment at 817 says "never a
  half-truncated/half-written file" (`NeverHalfWritten`). Until the power fails the page cache has
  all of it. `ReadsWholeSnapshot` and `LiveSurvivesPowerFailure` are stated for files whose
  `fsync()` did not fail.
- The directory is never synced, where the comment at 842 says "fsync the file's data and the
  directory so the rename is durable": `SnapshotReady` may be true for a snapshot that a power
  failure takes back (`RenameIsDurable`).
- `do_snapshot()` writes two keys of `m_settings` from the worker although the header says it must
  not touch it (`drs_frontend_class.h` 69), in every schedule.

*Configuration*

- `begin_of_run` configures the boards (1015) before it joins the preview (1028), whose own
  configuration may end later with settings it read earlier. `RunFollowsSettings` is therefore
  stated from the first watch of a run on.
- On type 9 the calibration clock reaches the chip through the switch `ACAL_EN`, which
  `EnableTcal(1, ...)` closes ("Enable clock a switch channel multiplexers", `DRS.cpp` 4100). The
  last call of `apply_board_config()`, `EnableAcal(0, 0)` (481), opens it again, so that the
  operator's `EnableTcal` has no effect there (`ClockReachesInputs`). `Wanted` asks for the switch;
  `ConfigurationInEffect` leaves it out for these settings only.
- `EnableTcal(..., 0)` clears the bit of the trigger polarity that `SetTriggerPolarity` has just
  set, on types 5, 7 and 8 (`DRS.h` 140): FALLING is never in effect there.
- On types 5 and 7 `SetTriggerSource` takes a channel number and gets a mask, and
  `SetIndividualTriggerLevel` does nothing. A rejected sampling rate is still used for the trigger
  delay; 0 divides by zero.

*Calibration*

- `CalibrateVolt()` always returns 1; a failed timing calibration is stored all the same, and the
  watch writes "done" over its message (716). On type 9 the loop may end early with no error and a
  table averaged over fewer events.
- Trigger source and delay, readout mode, polarity, domino mode and clock source are not put back,
  and nothing configures the board afterwards; `ConfigurationKept` names the rest.
- A transfer of the preview between the write to the RAM and the EEPROM's trigger burns waveforms
  into the page: the calibration data are excused while `torn`. On types 5, 7 and 8 `StoreVolt`
  burns half of the cell widths from the RAM without having written them there, so a transfer
  between the fetch of the header and its write spoils them too. A power failure in the middle of a
  burn is not modelled either.
- The preview configures the board whenever a setting changed, also during a calibration, and
  disturbs its frequency, range and signals; the cell widths may then all be zero at the nominal
  frequency of the old calibration. `TrueFrequencyDefined` and `ConfigurationKept` say `alone`.
- A timing calibration made at exactly 1 GHz makes `GetTrueFrequency()` divide by zero in
  `Init()`, which begins with that frequency before it has loaded the widths.
- In Normal mode the preview on the master can keep restarting a board whose trigger the
  calibration has disabled, and `ReadSingleWaveform()` spins for ever; `CalibrationEnds` leaves
  that out. The preview never starts the other boards in that mode.
- A board never calibrated before: its first voltage calibration loses an earlier timing
  calibration from memory, because `ReadCalibration()` then returns early, until the next restart.
- A crash between pages leaves offsets of a new calibration with gains and corrections of the old
  one under a valid header, with nothing to tell.
- An EEPROM poll that ends by count uses whatever is in the RAM.
- Type 9: `EnableTcal` with the clock on leaves the analog calibration switches on; `EnableAcal(1,
  0)` is undone by the `EnableTcal(0, ...)` after it; the `memcpy` of type 9 tables copies as many
  bytes as the table has shorts.

*Waveforms*

- `ReadoutMode` is a setting (105, 374), but captures decode every waveform as if it had been read
  from the stop cell on (1324-1339, 1553-1566). With FROM_FIRST_BIN offsets, gains and order are
  those of other cells (`SampleOfCellInEitherMode`); `SampleOfCell` is about FROM_STOP.
- The trigger delay is computed from the rate asked for (445, 461), after `SetFrequency()` has
  rounded that rate to ticks of the reference clock (`DRS.cpp` 2667-2677). At 0.7 GHz the edge is
  6.5 ns away from where the comment at 457 says it lands "exactly" (`EdgeAtUserDelay`). The bound
  of `MarkerAtEdge` contains the difference between the period of the time axis and the one asked
  for.
- The time array of an event is shifted so that it begins at 0 on every channel (`- tmp[1]`),
  which takes away the alignment of the channels that `GetTime()` has just made; the last sample
  gets the length of the axis, a cell width too late.
- A stuck cell at an end of the readout is averaged with the sample at the other end, and of two
  stuck cells next to each other the first uses a stale neighbour. The correction of what the
  readout adds is measured in counts and subtracted in volts, after the division by the gain.
- At stop cell 700 the alignment uses a whole turn. Types 5, 7 and 8 round each width alone.
  Widths may be negative on type 9.
- `SetTriggerDelayNs` computes a register value with an upper byte and writes `ticks`; `ticks /
  255 * 100` is 0 or 100. Delays beyond the line are limited without notice, where the comment
  says "exactly".
- `AnalyzePeriod` says "from i1 to i2-1 inclusive" (5453) and loops to `i2` (5458).
- A bank of the current format that is cut to the length of an older one is read as that one; the
  decoder's comment has a 44-byte header for a layout of 48.

*Settings and page*

- A board that another process holds, or that fails the ID check, ends the scan (`DRS.cpp` 332-369).
  A rescan then drops its settings and those of the boards behind it, all of them attached, where
  the comment at 169 says "Drop only slots that no longer have a board" (`DropsOnlyDetached`).
- Settings belong to the slot, not to the board: a board that moves to another slot finds another
  board's settings there. After a restart with fewer boards the directories of the others stay
  until a rescan. A board found by a rescan has no watches and the defaults of `Init()` until
  something configures it.
- `Refresh` set before `setup_watches()` is not served and stays set. A board unplugged during the
  enumeration makes it skip another. A lost answer makes the type one guessed from the serial
  number.
- What the operator changes within the 100 ms of `_loadingSettings` is dropped without a word, and
  the control shows a value the ODB never got; a failed save leaves the control as it is; a late
  answer to a load between a save and its reply can leave it wrong. `PageCatchesUp` speaks of the
  control only while the operator has not used it.

*Transport*

- After a read has given up, every later read of the board gets the previous answer until the next
  scan of a new process. Callers do not look at the result of `Read()`, so a time-out reads as
  zeros, and `IsBusy()` as false.
- `~DRSBoard` destroys the static mutex (610), which the boards of the next scan go on using; the
  C library refuses to lock it and no caller looks.

Six of these are stated in the modules, in the words of the comment that says otherwise, and TLC
finds each violated when it takes the place of the properties of the configuration named here:

| Definition | Configuration |
|---|---|
| `NeverHalfWritten` (invariant), `RenameIsDurable` (property) | `Snapshot_crash.cfg` |
| `ClockReachesInputs` (invariant) | `BoardConfig_all.cfg` |
| `SampleOfCellInEitherMode`, `EdgeAtUserDelay` (invariants) | `Waveform_all.cfg` |
| `DropsOnlyDetached` (property) | `Settings_all.cfg` |

## 6. Proofs

Every theorem holds for all values of the constants under the named assumptions of its module:
bounds are numbers, positive where the code needs one, and special values are distinct.

| Module | Theorem | States | Inductive invariant |
|---|---|---|---|
| `RunControlProof` | `TypeCorrect` | `Spec => []TypeOK` | `TypeInv`: `TypeOK` with `PollsLeft` and `ScansLeft` |
| | `OneWorker` | `Spec => []SingleWorker` | `ThreadInv`: and `thread = None` at the points between join and start |
| | `RunStateCorrect` | `Spec => []WorkerMatchesRun` | `RunInv`: flags and worker in each phase of a transition |
| | `NoDangling` | `Spec => []NoDanglingAtRest` | `BoardInv`: how far a rescan has got says which slots are cleared, dangling or current |
| | `BoardsOutliveWorkers` | without `"refresh"`, `Spec => []NoUseAfterFree` | `UseInv`: boards live while a worker does; its master is connected |
| | `RestartIsSafe`, `RunKeepsReadout` | `MCSpec => []NoUseAfterFreeUndisturbed`, `MCSpec => []ReadoutUndisturbed` | `Always`, and until a disturbance `Undisturbed`: `UseInv`, and `Reads`: a readout thread has a board and returns only when told to |
| `ReadoutProof` | `TypeCorrect` | `Spec => []TypeOK` | `RInv` |
| | `ReadoutImplementsStream` | `Spec => ImplementsStream` | `RInv` = `Control`, `Boards`, `Ring`, `Rest` |
| | `NothingTwice`, `OneTrigger` | `NoDuplicateEvent`, `SameTrigger` | `Fresh`, `Together` |
| `PageProof` | `TypeCorrect`, `ReadsAreWhole`, `LiveIsDurable`, `LiveAdvances` | the invariants of the run and `LiveMovesForward` | `IInv` |
| | `RatesTypeCorrect`, `NeverAhead`, `RatesAreExact` | of `TriggerRates`: `RateTypeOK`, `PrevNotAhead`, `RatesAddUp` | `Counts`, `Windows` |
| `BoardConfigProof` | `Underlying`, `ConfigurationComplete`, `RunFollowed` | `IInv`, `ConfigurationInEffect`, `RunFollowsSettings` | `IInv` |
| `CalibrationProof` | `TypesKeptAlways` | `TypeOK` | `Shape` |
| | `CalibrationKeepsConfiguration` | the action property `ConfigurationKept` | `Configuration` |
| | `HeaderIsNotAhead` | `HeaderNotAhead` | `Store0` = `Shape`, `Measuring`, `Transfers`, `Stored`, `Burnt` |
| | `MemoryIsWhatIsStored`, `CompletedIsKept` | `MemoryIsStored`, `CompletedKept` | and `Remembering` |
| | `TrueFrequencyIsDefined` | `TrueFrequencyDefined` | `NoEmptyWidths`, `TrueFrequency` |
| `SettingsProof` | `DirectoriesMatch`, `SettingsAreKept` | `InventoryMatches`, `OperatorSettingsKept` | `IInv` = `Records`, `Scanning` or `Settling` |
| | `EveryBoardIsFound` | `ScanFindsAll` | `Scan` = `OnBus` and, by position in the scan, `Aligned` or `Slotted` |
| `UsbProof` | `TypeCorrect`, `AccessesExclude`, `AnswersAreAwaited` | `TypeOK`, `MutualExclusion`, `AnswersAwaited` | `IInv` = `Types`, `OpenedFirst`, `MutualExclusion`, `Awaited` |
| | `UsbImplementsRegisterFile` | `Spec => ImplementsRegisterFile` | `JInv`: and `ProperAll`, `Filled`, `Fetched` |
| `WaveformProof` | `RoundingDoesNotAddUp`, `PeriodIsKept` | `RoundingBounded`, `PeriodKept` | `RoundingInv`, `WInv` |
| | `TypesKept`, `TimeIsOfCell`, `BankIsDecoded`, `ReferenceIsCommon`, `MarkerIsAtEdge` | `TypeOK`, `TimeOfCell`, `DecodedAsWritten`, `ChannelsAgreeAtReference`, `MarkerAtEdge` | `EInv` = `WInv`, `ChipInv`, `EventInv`, `DecodedAsWritten` |
| | `SampleIsOfCell` | `SoundChip` gives `Spec => []SampleOfCell` | and `SampleInv` |

*RunControl.* `TypeOK` is not inductive because a Normal-mode poll subtracts from the counter:
that it was positive is known from where the thread is. `SingleWorker` is not inductive because
starting a thread overwrites the pointer: the handlers' positions after a join must imply that it
is empty. `NoUseAfterFree` needs that `hw[m]` still holds when the worker uses `master` without
testing it again, which is what fails with a rescan. Each invariant is proved relative to the ones
before it; two frame lemmas carry most of the work: a step of a worker keeps it alive (`Stays`)
and, without a rescan, keeps its use of the boards sound (`Careful`).
With rescans and exceptions the invariant is conditional on the history variable of `MCRunControl`:
a start establishes it anew whatever came before (`StartAnew`), because no thread exists there, a
board is connected and every board belongs to the current `DRS` object.

*Readout.* The mapping reads the slots between `nR` and `nW` off the memory, so the invariant says
that these hold whole events, that they are never more than the capacity, that only the slot at
`nW` is being filled, and that what the main thread has read of the slot at `nR` is what is there:
a full buffer is the one case where the two slots would be the same, and there the loop does not
write. `Commit` is then the abstract `Record`, the last copy of the main thread `Deliver`, and
every other step leaves the mapped queue unchanged (`QueueSame` and the lemmas on sub-sequences).

*Events.* `All`, what was delivered followed by what is in the buffer, only grows, by the commit of
the item (`AllStep`). `Fresh` says that a board that has stopped since its `StartDomino()` in this
iteration holds a newer trigger than anything recorded of it; this covers the software trigger,
which counts as a trigger of its own. `Together` splits on the master: if it had stopped when the
iteration began, no trigger comes before all boards run, and the one that comes then is the last
until the transfer.

*Snapshot.* Whatever a power failure may leave as the live file, in any of the directory states not
yet on the disk, is complete, not the inode the front end is writing, and wholly synced unless its
`fsync()` failed; after a power failure that last condition is all that is left. The code's order
makes it so: the fsync comes before the rename, and the `.tmp` name is removed, never the live one.
`ReadsAreWhole` and `LiveIsDurable` carry the condition in their statements. Versions in the
sequence of directory states only rise, which gives `LiveMovesForward`.

*TriggerRates.* `PrevNotAhead` needs that the count the worker is about to store is not ahead
either, and between load and store it may be older than one the main thread has reset, never
newer. `RatesAreExact` adds, for each position of the worker, how far the windows already
published reach.

*Settings.* The properties speak of the main thread at rest. Between, the steps still to be done
make up for what is missing: `Settling` says that a slot in use has a matching directory or an
`info` step to come, with a `fill` before it where there is no directory, and an unused one no
directory or a `drop` step. `ScanFindsAll` rests on two facts: no board is on the bus twice, and
while nothing is plugged the boards found are the first ones of the bus, in its order. That the
scan gets to the end of the bus, or to the board that was refused (`Reached`), needs that there are
finitely many (`IsFiniteSet(Board)`).

*Usb.* What lies in endpoint 8 of a trusted board belongs to the thread in the critical section;
that the section is exclusive is the first half of the invariant, and that nobody accesses a board
before all are opened makes the drain of the constructor sound. For the refinement, a write takes
effect when the board obeys its command and a read when its answer is taken: `JInv` adds that the
shared buffer holds what the thread in the section put there, that the command under way is that
thread's, and that what it has seen is still what the board holds. A late answer, a reset or a kill
is a stutter or an access that failed, which the register file allows.

*BoardConfig.* The two threads interleave at the steps of a setter, so the argument is a big-step
one: `Leads(q, s, e)` says that the steps `q`, undisturbed, take the control word from `s` to `e`.
For each of the calls a lemma (`FitsInputRange` to `FitsEnableAcal`) says that from any word in
which the earlier calls' bits are right, its steps lead to one in which its own are right too:
this is where the shared bits and the order of the calls matter. The invariant then says, for a
thread in the middle of `apply_board_config()` that nothing has disturbed, that what is left of its
present call leads to a word in line with all calls so far (`Underway`); a step of the thread
shortens the trace, a step of the other makes the hypothesis false or, in a run, cannot touch a
register. `Lone` says that an undisturbed thread is alone, `RunPulses` that the readout loop only
starts and triggers, and `Calm` that after an undisturbed configuration every word a pulse goes
through is in line, and its bit is gone at its end.

*Calibration.* A program is long (`Swept`, `Cycled`: it depends on the number of measurements), so
its accesses are found by place: `VoltPlaces` and `TimingPlaces` say which access is at each
position for each board type, and the invariants are conjunctions of ranges of positions.
`Configuration`: what `save` noted is what the restoring accesses still have to write.
`Transfers`: between the two reads and the burn of `WriteEEPROM()`, the RAM and the caller's buffer
are copies of the page but for the words the caller changed, or the preview has torn them; this is
said word by word, because where the header is rewritten the RAM must still hold the fetched cell
widths (`Copied`) for the half of them that is not written.
`Stored`: headers are written with or after their tables. `Remembering`: memory follows the pages
read at a start and the tables written since. `NoEmptyWidths`: nowhere does a board hold all-zero
cell widths with a frequency set, even where the preview has overwritten a page.

*Waveform.* The difference of the sums stays within half a unit because each remainder is carried
to the next cell. A quotient of non-linear arithmetic is at its heart (`Division`,
`QuotientInRange`). `EInv` says what each step of a capture leaves to the next. Sums around the
ring of cells are proved by induction from the least number of a set. The marker needs both
roundings, of the delay to ticks and of the edge to a cell, and the difference between the period
of the time axis and the one asked for, which is a term of the bound. The voltages need what the
two calibrations measure: over the stop cells, a cell is at every position of the readout once
(`MeanOverStops`), so `MeasurePrimary` finds its offset and the mean of what the readout adds, and
`MeasureSecondary` the rest (`PrimaryIs`, `SecondaryIs`). `SampleBack` follows one voltage through
the ADC and back, and `CellOfShifted` says where it is in the arrays.

`SampleIsOfCell` has a hypothesis on the chip, `SoundChip`, as the statement is about numbers: no
stuck cells; offsets, gains and pattern such that the calibration's sweeps stay within the ADC's
range and its plausibility checks hold; the readout adds less than the range of a sample; and the
signal is a whole number of counts. The chip of `MCWaveform` is one, but for the captures with
stuck cells.

Only model-checked: liveness (`HandlersFinish`, `RecordedIsDelivered`, `CalibrationEnds`,
`RefreshServed`, `PageCatchesUp`), which is out of the prover's reach; and how the samples around
stuck cells are interpolated, the part of `SampleOfCell` that `SoundChip`
leaves out: the error there depends on how many cells are stuck, and the bound of `Error` is that of
the run's patterns.

## 7. What is not modelled

- The USB 1 and VME branches of the transport, and boards other than the DRS4 evaluation boards of
  types 5, 7, 8 and 9: this front end does not drive them.
- `ResponseCalibration`: for boards before the DRS4.
- `do_calibrate_all` and the other functions for all boards at once, `connect_all` and
  `disconnect` on a scanned bus: nothing calls them to effect.
- How long an EEPROM transfer or a readout takes: the models assume the code's counts are long
  enough, section 2. A power failure in the middle of a burn.
- The analysis of slopes and zero crossings in the timing calibration: floating-point fits; its
  outcome is nondeterministic in `Calibration`, its result a constant in `Waveform`.
- `midas::odb` exceptions in the middle of a configuration, and a second board in `BoardConfig`.
- The double-length mode of `GetWave()`, which the front end never enables; sampling rates below 0.1
  or above 6 GHz, which `SetFrequency()` rejects, in `Waveform`.
- Hardware scalers in `update_trigger_rates`: copied from the board to the ODB.
- `fill_midas_banks`' branch for a corrupt event: no state reaches it, as only `readout_loop`
  writes events and their headers are always in range.
- The averager (declared, not used), MXML, `strlcpy`, crash handler; drawing on the web page, its
  run control and display settings; ROOT output of the decoder; notebook, Makefile.

## 8. Plan

What would add most next: a bound of `Error` for any number of stuck cells, and the interpolation
proved with it; two boards in
`BoardConfig`, of which the preview compares one; `Calibration` refined by a page protocol whose
transfers may outlast their polls, if the firmware's timing becomes known.
