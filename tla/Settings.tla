------------------------------ MODULE Settings ------------------------------
(***************************************************************************)
(* The boards' settings in the ODB, from both sides.                       *)
(*                                                                         *)
(* The front end (drs_frontend_class.cxx) owns the directories Board0,     *)
(* Board1, ...: init() and the Refresh watch enumerate the USB bus, which  *)
(* gives every board found a slot, fill in the missing settings of the     *)
(* slot, write into it which board it holds and, on a rescan, delete the   *)
(* directories that no longer have one.  Boards come and go on the bus,    *)
(* the front end may be killed between any two of these steps.             *)
(*                                                                         *)
(* The web page (drs4.html) polls the settings of slot 0 and writes those  *)
(* the operator changes; other clients change them too.  Requests and      *)
(* replies cross in any order.  A board's settings are one value here: the *)
(* page compares and writes each key alone.                                *)
(***************************************************************************)
EXTENDS Integers, Sequences, SequencesExt, FiniteSets

CONSTANTS
    Board,      \* the boards there are
    Serial,     \* Serial[b], Type[b]: what its registers say
    Type,
    Slots,      \* DRS4_MAX_BOARDS
    Level,      \* the values a setting can have
    Default,    \* the one of create_board_defaults()
    Request,    \* the requests of loadSettings() the page can have under way
    Paste,      \* and those of saveSetting()
    MaxEvents   \* bound: boards plugged or refused, answers lost, kills, requests, edits

ASSUME SettingsAssumption ==
    /\ IsFiniteSet(Board) /\ DOMAIN Serial = Board /\ DOMAIN Type = Board
    /\ Slots \in Nat \ {0} /\ MaxEvents \in Nat
    /\ Default \in Level /\ "absent" \notin Level

VARIABLES
    bus,       \* the boards attached, in the order libusb lists them
    found,     \* the boards of m_drs, as the library knows them
    num,       \* m_num_boards
    slot,      \* m_boards[0] to m_boards[num - 1], as a sequence
    todo,      \* what the main thread has still to do of init() or rescan_boards()
    running,   \* the front end runs, watches the ODB
    watching,
    odb,       \* odb[i]: the directory Board<i>, if there is one
    refresh,   \* Refresh in the ODB
    notified,  \* notifications of Refresh not yet handled
    known,     \* the page's _currentOdbValues
    shown,     \* what the page's control shows
    loading,   \* _loadingSettings
    load,      \* load[r]: a request of loadSettings() and its answer
    save,      \* save[p]: a request of saveSetting() and its answer
    left,      \* bound: how many of these events there may still be
    asked,     \* history: Refresh was set, no scan has begun since
    quiet,     \* history: the bus has not changed since the scan began
    refused,   \* history: the place on the bus where a board ended the scan, or 0
    tidied,    \* history: the last scan was a rescan
    edited     \* history: the operator has used the control

busVars == <<bus, found, num, slot>>
feVars == <<todo, running, watching>>
odbVars == <<odb, refresh, notified>>
pageVars == <<known, shown, loading, load, save>>
histVars == <<asked, quiet, refused, tidied, edited>>
vars == <<busVars, feVars, odbVars, pageVars, left, histVars>>

-----------------------------------------------------------------------------
Absent == "absent"
None == "none"
Idle == "idle"
Sent == "sent"
Index == 0..Slots - 1
NoDirectory == [serial |-> 0, type |-> 0, level |-> Absent]
Present(i) == odb[i].level # Absent

(* ReadSerialNumber() for boards whose type register is empty.              *)
TypeOfSerial(number) ==
    CASE number \in 2000..4999 -> 6
      [] number >= 1000 /\ number \notin 2000..4999 -> 4
      [] number \in 100..999   -> 3
      [] number \in 1..99      -> 2
      [] OTHER                 -> 3

(* What ReadSerialNumber() finds of board b when the answers to some of its *)
(* reads do not come in time: Read() then leaves zeros, and nobody looks at *)
(* its result.                                                              *)
Identity(b, lost) ==
    LET number == IF "serial" \in lost THEN 0 ELSE Serial[b]
    IN  IF "magic" \in lost THEN [board |-> b, serial |-> 0, type |-> 0]
        ELSE [board |-> b, serial |-> number,
              type |-> IF "type" \in lost THEN TypeOfSerial(number) ELSE Type[b]]

Held == {found[k].board : k \in 1..Len(found)}

(* The value the page reads from a slot, and the one its control gets.      *)
Value(i) == odb[i].level
Rendered(v) == IF v = Absent THEN Default ELSE v

Steps(op, n) == [k \in 1..n |-> <<op, k - 1>>]
(* init() after the scan: setup_odb_structure(), read_board_info() for each *)
(* board, setup_watches().                                                  *)
InitSteps(n) == Steps("fill", n) \o Steps("info", n) \o <<<<"watch", 0>>>>

(* Mutated form: read_board_info() only where the directory is new.         *)
RescanStepsNewOnly(n) ==
    [k \in 1..(Slots - n) |-> <<"drop", n + k - 1>>]
      \o FlattenSeq([k \in 1..n |-> IF Present(k - 1) THEN << >>
                                    ELSE <<<<"fill", k - 1>>, <<"info", k - 1>>>>])

(* rescan_boards() after the scan: the slots without a board go, the others *)
(* get what they miss and which board they hold.                            *)
RescanSteps(n) ==
    [k \in 1..(Slots - n) |-> <<"drop", n + k - 1>>]
      \o [k \in 1..(2 * n) |-> <<IF k % 2 = 1 THEN "fill" ELSE "info", (k - 1) \div 2>>]

Doing(op) == /\ running
             /\ todo # << >>
             /\ Head(todo)[1] = op
AtRest == running /\ todo = << >>

Use(n) == /\ n <= left
          /\ left' = left - n

-----------------------------------------------------------------------------
(* The main thread.                                                         *)

(* init() begins with scan_boards().                                        *)
Start ==
    /\ ~running
    /\ running' = TRUE
    /\ todo' = <<<<"close", 0>>, <<"open", 0>>, <<"adopt", 0>>>>
    /\ UNCHANGED <<busVars, watching, odbVars, pageVars, left, histVars>>

(* Mutated form: Refresh is cleared when the boards have been scanned.      *)
RescanCallsResetLast == <<<<"close", 0>>, <<"open", 0>>, <<"adopt", 0>>, <<"reset", 0>>>>

(* What the watch of Refresh does, up to the end of scan_boards().          *)
RescanCalls == <<<<"reset", 0>>, <<"close", 0>>, <<"open", 0>>, <<"adopt", 0>>>>

Callback ==
    /\ AtRest /\ notified > 0
    /\ notified' = notified - 1
    /\ todo' = IF refresh THEN RescanCalls ELSE << >>
    /\ UNCHANGED <<busVars, running, watching, odb, refresh, pageVars, left, histVars>>

Reset ==
    /\ Doing("reset")
    /\ refresh' = FALSE
    /\ todo' = Tail(todo)
    /\ UNCHANGED <<busVars, running, watching, odb, notified, pageVars, left, histVars>>

(* delete m_drs: the boards are closed.  What the bus is asked for from now *)
(* on is the new scan.                                                      *)
Close ==
    /\ Doing("close")
    /\ found' = << >> /\ num' = 0 /\ slot' = << >>
    /\ quiet' = TRUE /\ refused' = 0 /\ asked' = FALSE /\ tidied' = watching
    /\ todo' = Tail(todo)
    /\ UNCHANGED <<bus, running, watching, odbVars, pageVars, left, edited>>

(* One index of the loop of DRS::DRS(): the device at this place of the bus *)
(* is opened and identified.  The loop ends where no board is added: there  *)
(* is no device, or one this process has opened already; or musb_open()     *)
(* fails for a board that is there, which another process may hold, or what *)
(* musb_get_device() answers is not what it should be and it is closed      *)
(* again.                                                                   *)
Open ==
    /\ Doing("open")
    /\ LET index == Len(found) + 1
           device == IF index <= Len(bus) THEN bus[index] \notin Held ELSE FALSE
       IN  \/ /\ device
              /\ \E lost \in SUBSET {"magic", "type", "serial"} :
                   /\ Use(Cardinality(lost))
                   /\ found' = Append(found, Identity(bus[index], lost))
              /\ UNCHANGED <<todo, refused>>
           \/ /\ device /\ Use(1)
              /\ refused' = index
              /\ todo' = Tail(todo)
              /\ UNCHANGED found
           \/ /\ ~device
              /\ todo' = Tail(todo)
              /\ UNCHANGED <<found, left, refused>>
    /\ UNCHANGED <<bus, num, slot, running, watching, odbVars, pageVars, asked, quiet, tidied, edited>>

(* Mutated form: the last slot is left empty.                               *)
AdoptFewer ==
    /\ Doing("adopt")
    /\ num' = IF Len(found) < Slots THEN Len(found) ELSE Slots - 1
    /\ slot' = SubSeq(found, 1, num')
    /\ todo' = (IF watching THEN RescanSteps(num') ELSE InitSteps(num')) \o Tail(todo)
    /\ UNCHANGED <<bus, found, running, watching, odbVars, pageVars, left, histVars>>

(* The rest of scan_boards(): the first boards found get the slots.  Then   *)
(* init() or rescan_boards() goes on.                                       *)
Adopt ==
    /\ Doing("adopt")
    /\ num' = IF Len(found) > Slots THEN Slots ELSE Len(found)
    /\ slot' = SubSeq(found, 1, num')
    /\ todo' = (IF watching THEN RescanSteps(num') ELSE InitSteps(num')) \o Tail(todo)
    /\ UNCHANGED <<bus, found, running, watching, odbVars, pageVars, left, histVars>>

(* Mutated form: the directory is made to match the defaults.               *)
FillOverwrites ==
    /\ Doing("fill")
    /\ odb' = [odb EXCEPT ![Head(todo)[2]] = [serial |-> 0, type |-> 0, level |-> Default]]
    /\ todo' = Tail(todo)
    /\ UNCHANGED <<busVars, running, watching, refresh, notified, pageVars, left, histVars>>

(* create_board_defaults(): the keys that are missing are added.            *)
Fill ==
    /\ Doing("fill")
    /\ LET i == Head(todo)[2]
       IN  odb' = IF Present(i) THEN odb
                  ELSE [odb EXCEPT ![i] = [serial |-> 0, type |-> 0, level |-> Default]]
    /\ todo' = Tail(todo)
    /\ UNCHANGED <<busVars, running, watching, refresh, notified, pageVars, left, histVars>>

(* read_board_info()                                                        *)
Info ==
    /\ Doing("info")
    /\ LET i == Head(todo)[2]
       IN  odb' = IF i < num /\ Present(i)
                  THEN [odb EXCEPT ![i] = [serial |-> slot[i + 1].serial,
                                           type |-> slot[i + 1].type, level |-> @.level]]
                  ELSE odb
    /\ todo' = Tail(todo)
    /\ UNCHANGED <<busVars, running, watching, refresh, notified, pageVars, left, histVars>>

(* rescan_boards() deletes the directory of a slot that has no board.       *)
Drop ==
    /\ Doing("drop")
    /\ odb' = [odb EXCEPT ![Head(todo)[2]] = NoDirectory]
    /\ todo' = Tail(todo)
    /\ UNCHANGED <<busVars, running, watching, refresh, notified, pageVars, left, histVars>>

(* setup_watches()                                                          *)
Watch ==
    /\ Doing("watch")
    /\ watching' = TRUE
    /\ todo' = Tail(todo)
    /\ UNCHANGED <<busVars, running, odbVars, pageVars, left, histVars>>

Main == Start \/ Callback \/ Reset \/ Close \/ Open \/ Adopt \/ Fill \/ Info \/ Drop \/ Watch

-----------------------------------------------------------------------------
(* What happens to them.                                                    *)

(* A board is connected or removed.  A board that a scan has opened is not  *)
(* connected again before that scan has ended.                              *)
Plug ==
    /\ Use(1)
    /\ \/ \E b \in Board \ ToSet(bus), k \in 1..(Len(bus) + 1) :
            /\ Doing("open") => b \notin Held
            /\ bus' = InsertAt(bus, k, b)
       \/ \E k \in 1..Len(bus) : bus' = RemoveAt(bus, k)
    /\ quiet' = FALSE
    /\ UNCHANGED <<found, num, slot, feVars, odbVars, pageVars, asked, refused, tidied, edited>>

(* The process is killed; its connection to the ODB and its boards go.      *)
Kill ==
    /\ running /\ Use(1)
    /\ running' = FALSE /\ watching' = FALSE /\ todo' = << >>
    /\ notified' = 0 /\ asked' = FALSE
    /\ found' = << >> /\ num' = 0 /\ slot' = << >>
    /\ UNCHANGED <<bus, odb, refresh, pageVars, quiet, refused, tidied, edited>>

(* A client of the ODB sets Refresh; who watches it is notified.            *)
Ask ==
    /\ Use(1)
    /\ refresh' = TRUE
    /\ IF watching THEN notified' = notified + 1 /\ asked' = TRUE
       ELSE UNCHANGED <<notified, asked>>
    /\ UNCHANGED <<busVars, feVars, odb, pageVars, quiet, refused, tidied, edited>>

(* Another client than the page changes a setting.                          *)
OtherEdit(i, v) ==
    /\ Present(i) /\ odb[i].level # v /\ Use(1)
    /\ odb' = [odb EXCEPT ![i].level = v]
    /\ UNCHANGED <<busVars, feVars, refresh, notified, pageVars, histVars>>

-----------------------------------------------------------------------------
(* The page.                                                                *)

(* setInterval(loadSettings, 2000)                                          *)
Poll ==
    /\ \E r \in Request : load[r] = Idle /\ load' = [load EXCEPT ![r] = Sent]
    /\ UNCHANGED <<busVars, feVars, odbVars, known, shown, loading, save, left, histVars>>

(* The server answers db_get_values.                                        *)
ServeLoad(r) ==
    /\ load[r] = Sent
    /\ load' = [load EXCEPT ![r] = Value(0)]
    /\ UNCHANGED <<busVars, feVars, odbVars, known, shown, loading, save, left, histVars>>

(* Mutated form: an answer without values is ignored.                       *)
LoadReplyOfPresent(r) ==
    /\ load[r] \notin {Idle, Sent}
    /\ load' = [load EXCEPT ![r] = Idle]
    /\ IF load[r] \notin {known, Absent}
       THEN known' = load[r] /\ shown' = Rendered(load[r]) /\ loading' = TRUE
       ELSE UNCHANGED <<known, shown, loading>>
    /\ UNCHANGED <<busVars, feVars, odbVars, save, left, histVars>>

(* The answer arrives: if it is not what the page has taken for the ODB's   *)
(* values so far, the control is set.                                       *)
LoadReply(r) ==
    /\ load[r] \notin {Idle, Sent}
    /\ load' = [load EXCEPT ![r] = Idle]
    /\ IF load[r] # known
       THEN known' = load[r] /\ shown' = Rendered(load[r]) /\ loading' = TRUE
       ELSE UNCHANGED <<known, shown, loading>>
    /\ UNCHANGED <<busVars, feVars, odbVars, save, left, histVars>>

(* The request or its answer is lost.                                       *)
LoadFails(r) ==
    /\ load[r] # Idle /\ Use(1)
    /\ load' = [load EXCEPT ![r] = Idle]
    /\ UNCHANGED <<busVars, feVars, odbVars, known, shown, loading, save, histVars>>

(* The timer set when the control was set.                                  *)
LoadingEnds ==
    /\ loading /\ loading' = FALSE
    /\ UNCHANGED <<busVars, feVars, odbVars, known, shown, load, save, left, histVars>>

(* The operator uses the control: saveSetting(), which does nothing while   *)
(* the page is loading.                                                     *)
Edit(v) ==
    /\ v # shown /\ Use(1)
    /\ shown' = v /\ edited' = TRUE
    /\ IF loading THEN UNCHANGED save
       ELSE \E p \in Paste : /\ save[p].status = Idle
                             /\ save' = [save EXCEPT ![p] = [value |-> v, status |-> Sent]]
    /\ UNCHANGED <<busVars, feVars, odbVars, known, loading, load, asked, quiet, refused, tidied>>

(* The server answers db_paste: it writes a key that exists.                *)
ServePaste(p) ==
    /\ save[p].status = Sent
    /\ odb' = IF Present(0) THEN [odb EXCEPT ![0].level = save[p].value] ELSE odb
    /\ save' = [save EXCEPT ![p].status = IF Present(0) THEN "saved" ELSE "failed"]
    /\ UNCHANGED <<busVars, feVars, refresh, notified, known, shown, loading, load, left, histVars>>

SaveReply(p) ==
    /\ save[p].status \notin {Idle, Sent}
    /\ known' = IF save[p].status = "saved" THEN save[p].value ELSE known
    /\ save' = [save EXCEPT ![p] = [value |-> Default, status |-> Idle]]
    /\ UNCHANGED <<busVars, feVars, odbVars, shown, loading, load, left, histVars>>

Page == \/ Poll \/ LoadingEnds
        \/ \E r \in Request : ServeLoad(r) \/ LoadReply(r) \/ LoadFails(r)
        \/ \E p \in Paste : ServePaste(p) \/ SaveReply(p)
        \/ \E v \in Level : Edit(v)

Init ==
    /\ bus \in SetToAllKPermutations(Board)
    /\ found = << >> /\ num = 0 /\ slot = << >>
    /\ todo = << >> /\ running = FALSE /\ watching = FALSE
    /\ odb = [i \in Index |-> NoDirectory] /\ refresh = FALSE /\ notified = 0
    /\ known = None /\ shown = Default /\ loading = FALSE
    /\ load = [r \in Request |-> Idle] /\ save = [p \in Paste |-> [value |-> Default, status |-> Idle]]
    /\ left = MaxEvents
    /\ asked = FALSE /\ quiet = TRUE /\ refused = 0 /\ tidied = FALSE /\ edited = FALSE

Next == \/ Main \/ Plug \/ Kill \/ Ask \/ Page
        \/ \E i \in Index, v \in Level : OtherEdit(i, v)

(* The main thread goes on, the page polls, and every request that is not   *)
(* lost is answered some time.                                              *)
Spec == /\ Init /\ [][Next]_vars
        /\ WF_vars(Main)
        /\ WF_vars(Poll) /\ WF_vars(LoadingEnds)
        /\ \A r \in Request : WF_vars(ServeLoad(r)) /\ WF_vars(LoadReply(r))
        /\ \A p \in Paste : WF_vars(ServePaste(p)) /\ WF_vars(SaveReply(p))

-----------------------------------------------------------------------------
(* How far the last scan got: to the end of the bus, or to a board it could *)
(* not open.                                                                *)
Reached == IF refused = 0 THEN Len(bus) ELSE refused - 1

(* scan_boards() gives the boards that are attached, and stay attached, the *)
(* slots in the order of the bus and as far as there are slots, whether     *)
(* they can be identified or not: all of them, or, when one cannot be       *)
(* opened, all those before it.                                             *)
ScanFindsAll ==
    AtRest /\ quiet => /\ num = (IF Reached > Slots THEN Slots ELSE Reached)
                       /\ \A k \in 1..num : slot[k].board = bus[k]

(* What the comment of rescan_boards() says of every rescan: "it must not   *)
(* reset the operator's per-board settings.  Drop only slots that no longer *)
(* have a board".  A board that cannot be opened ends the scan: its slot    *)
(* and those of the boards behind it are dropped although all are attached. *)
DropsOnlyDetached ==
    [][quiet => \A i \in Index : Present(i) /\ ~Present(i)' => i >= Len(bus)]_vars

(* After init() or rescan_boards() the directory of every slot in use says  *)
(* which board it holds, as read_board_info() reads it, whatever was        *)
(* attached and written before; after rescan_boards() the slots that hold   *)
(* no board have no directory.                                              *)
InventoryMatches ==
    AtRest => /\ \A i \in 0..num - 1 : /\ Present(i)
                                      /\ odb[i].serial = slot[i + 1].serial
                                      /\ odb[i].type = slot[i + 1].type
              /\ tidied => \A i \in num..Slots - 1 : ~Present(i)

(* "A rescan [...] must not reset the operator's per-board settings. Drop   *)
(* only slots that no longer have a board" (rescan_boards()), and they      *)
(* "must survive a frontend restart" (init()): the setting of a slot        *)
(* changes only when somebody writes it, and its directory goes only when   *)
(* the last scan found no board for it.                                     *)
OperatorSettingsKept ==
    [][\A i \in Index : Present(i) =>
          \/ Value(i)' = Value(i)
          \/ \E v \in Level : OtherEdit(i, v)
          \/ i = 0 /\ \E p \in Paste : ServePaste(p)
          \/ Value(i)' = Absent /\ i >= num]_vars

(* Every request for a rescan made while the front end watches is followed  *)
(* by a scan, although the watch clears Refresh, further requests arrive    *)
(* meanwhile, and the notifications are handled later.                      *)
RefreshServed == asked ~> ~asked

(* The page ends up with the ODB's value, whatever was lost or overtaken on *)
(* the way, and shows it unless the operator has used the control himself.  *)
PageCatchesUp ==
    <>[](known = Value(0) /\ (~edited => shown = Rendered(Value(0))))
=============================================================================
