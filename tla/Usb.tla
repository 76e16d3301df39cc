-------------------------------- MODULE Usb ---------------------------------
(***************************************************************************)
(* DRSBoard::Read() and Write() over USB 2 (DRS.cpp), for all the boards   *)
(* and threads of the front end.  An access is a few calls of musb: a      *)
(* command goes into endpoint 4 of the board, which executes what it finds *)
(* there in order, and the answer of a read waits in endpoint 8.  One      *)
(* mutex, s_drsMutex, keeps the accesses to all boards apart, and with     *)
(* them the use of the one usb2_buffer.                                    *)
(*                                                                         *)
(* A read gives up after a second.  Its answer may still come, and is then *)
(* taken for that of the next read; only the constructor of DRS empties    *)
(* endpoint 8.  The destructor of a board destroys the mutex, which is     *)
(* static and never initialised again: what glibc does with a destroyed    *)
(* mutex is to refuse the lock, and nobody looks at the result.            *)
(***************************************************************************)
EXTENDS Naturals, Sequences, FiniteSetsExt

CONSTANTS
    Thread, Board,
    Control, Status,  \* registers the program writes, and those the hardware changes
    Value,
    Zero,             \* what a register holds after a reset, and what
                      \*   Read() puts where no answer comes
    None,
    Depth,            \* bound: commands endpoint 4 holds before musb_write() waits
    MaxLate           \* bound: accesses that fail, kills and resets

Reg == Control \cup Status

ASSUME UsbAssumption ==
    /\ Zero \in Value /\ None \notin Value \cup Thread \cup Board \cup Reg
    /\ {"free", "destroyed"} \cap Thread = {}
    /\ Control \cap Status = {} /\ MaxLate \in Nat /\ Depth \in Nat \ {0}

VARIABLES
    mutex,     \* s_drsMutex: who holds it
    buffer,    \* usb2_buffer: the register and the value in it
    acc,       \* acc[t]: the access of thread t
    cmd,       \* cmd[b]: endpoint 4
    reply,     \* reply[b]: endpoint 8
    regs,      \* regs[b][r]
    opened,    \* the boards the scan of this process has drained and opened
    late,      \* history: the boards an access to which has failed since
    left       \* bound

vars == <<mutex, buffer, acc, cmd, reply, regs, opened, late, left>>

Free == "free"
Destroyed == "destroyed"
NoAccess == [pc |-> "idle", op |-> None, board |-> None, reg |-> None, val |-> None,
             seen |-> None]
Called(op, b, r, v) ==
    [pc |-> "lock", op |-> op, board |-> b, reg |-> r, val |-> v, seen |-> None]

Apart == mutex # Destroyed
Trusted == opened \ late
At(t, pc) == acc[t].pc = pc
Go(t, pc) == acc' = [acc EXCEPT ![t].pc = pc]
GoWith(t, pc, v) == acc' = [acc EXCEPT ![t] = [@ EXCEPT !.pc = pc, !.seen = v]]

TypeOK ==
    /\ mutex \in {Free, Destroyed} \cup Thread
    /\ buffer \in [reg : Reg \cup {None}, val : Value \cup {None}]
    /\ \A t \in Thread :
         /\ acc[t].pc \in {"idle", "lock", "address", "data", "send", "wait", "unlock"}
         /\ ~At(t, "idle") => acc[t].board \in opened
         /\ acc[t].seen \in Value \cup {None}
    /\ \A b \in Board : \A k \in 1..Len(reply[b]) : reply[b][k] \in Value
    /\ regs \in [Board -> [Reg -> Value]]
    /\ opened \subseteq Board /\ late \subseteq Board
    /\ left \in 0..MaxLate

-----------------------------------------------------------------------------
(* Read() or Write() is called; every board has been opened before.         *)
Call(t) ==
    /\ At(t, "idle") /\ opened = Board
    /\ \E b \in Board :
         \/ \E r \in Reg : acc' = [acc EXCEPT ![t] = Called("read", b, r, None)]
         \/ \E r \in Control, v \in Value :
              acc' = [acc EXCEPT ![t] = Called("write", b, r, v)]
    /\ UNCHANGED <<mutex, buffer, cmd, reply, regs, opened, late, left>>

(* pthread_mutex_lock().  A mutex that was destroyed stops nobody.          *)
Lock(t) ==
    /\ At(t, "lock") /\ mutex \in {Free, Destroyed}
    /\ mutex' = IF Apart THEN t ELSE mutex
    /\ Go(t, IF acc[t].op = "read" THEN "send" ELSE "address")
    /\ UNCHANGED <<buffer, cmd, reply, regs, opened, late, left>>

(* Write() fills usb2_buffer, address before data.                          *)
Address(t) ==
    /\ At(t, "address") /\ buffer' = [buffer EXCEPT !.reg = acc[t].reg]
    /\ Go(t, "data")
    /\ UNCHANGED <<mutex, cmd, reply, regs, opened, late, left>>
Data(t) ==
    /\ At(t, "data") /\ buffer' = [buffer EXCEPT !.val = acc[t].val]
    /\ Go(t, "send")
    /\ UNCHANGED <<mutex, cmd, reply, regs, opened, late, left>>

Enqueue(b, c) == /\ Len(cmd[b]) < Depth
                 /\ cmd' = [cmd EXCEPT ![b] = Append(@, c)]

(* musb_write() to endpoint 4: a write is then done; if it fails a message  *)
(* is printed, and nothing was sent.  What is left in usb2_buffer is not    *)
(* used again.                                                              *)
SendWrite(t) ==
    /\ At(t, "send") /\ acc[t].op = "write"
    /\ \/ Enqueue(acc[t].board, [op |-> "write", reg |-> buffer.reg, val |-> buffer.val])
          /\ UNCHANGED <<late, left>>
       \/ left > 0 /\ left' = left - 1 /\ late' = late \cup {acc[t].board} /\ UNCHANGED cmd
    /\ Go(t, "unlock")
    /\ buffer' = [reg |-> None, val |-> None]
    /\ UNCHANGED <<mutex, reply, regs, opened>>

(* Mutated form: the mutex is given back while the board works.             *)
SendReadUnlocks(t) ==
    /\ At(t, "send") /\ acc[t].op = "read"
    /\ Enqueue(acc[t].board, [op |-> "read", reg |-> acc[t].reg, val |-> None])
    /\ mutex' = IF Apart THEN Free ELSE mutex
    /\ Go(t, "wait")
    /\ UNCHANGED <<buffer, reply, regs, opened, late, left>>

(* A read's command is put together on the stack.                           *)
SendRead(t) ==
    /\ At(t, "send") /\ acc[t].op = "read"
    /\ Enqueue(acc[t].board, [op |-> "read", reg |-> acc[t].reg, val |-> None])
    /\ Go(t, "wait")
    /\ UNCHANGED <<mutex, buffer, reply, regs, opened, late, left>>

(* musb_read() from endpoint 8 gets the first answer there is, ...          *)
Receive(t) ==
    LET b == acc[t].board
    IN  /\ At(t, "wait") /\ reply[b] # << >>
        /\ reply' = [reply EXCEPT ![b] = Tail(@)]
        /\ GoWith(t, "unlock", Head(reply[b]))
        /\ UNCHANGED <<mutex, buffer, cmd, regs, opened, late, left>>

(* ... or none within USB_TIMEOUT: the caller gets the zeros of the memset. *)
TimeOut(t) ==
    /\ At(t, "wait") /\ left > 0
    /\ left' = left - 1 /\ late' = late \cup {acc[t].board}
    /\ GoWith(t, "unlock", None)
    /\ UNCHANGED <<mutex, buffer, cmd, reply, regs, opened>>

Unlock(t) ==
    /\ At(t, "unlock")
    /\ mutex' = IF Apart THEN Free ELSE mutex
    /\ acc' = [acc EXCEPT ![t] = NoAccess]
    /\ UNCHANGED <<buffer, cmd, reply, regs, opened, late, left>>

-----------------------------------------------------------------------------
(* The board executes a command.  What a read finds is remembered for the   *)
(* thread that waits for it.                                                *)
Execute(b) ==
    /\ cmd[b] # << >>
    /\ cmd' = [cmd EXCEPT ![b] = Tail(@)]
    /\ LET c == Head(cmd[b])
       IN  IF c.op = "write"
           THEN /\ regs' = IF c.reg # None /\ c.val # None THEN [regs EXCEPT ![b][c.reg] = c.val]
                           ELSE regs
                /\ UNCHANGED <<acc, reply>>
           ELSE /\ reply' = [reply EXCEPT ![b] = Append(@, regs[b][c.reg])]
                /\ acc' = [t \in Thread |->
                     IF At(t, "wait") /\ acc[t].board = b /\ b \in Trusted
                     THEN [acc[t] EXCEPT !.seen = regs[b][c.reg]] ELSE acc[t]]
                /\ UNCHANGED regs
    /\ UNCHANGED <<mutex, buffer, opened, late, left>>

(* The hardware changes a status register.                                  *)
Change(b) ==
    /\ \E r \in Status : \E v \in Value \ {regs[b][r]} : regs' = [regs EXCEPT ![b][r] = v]
    /\ UNCHANGED <<mutex, buffer, acc, cmd, reply, opened, late, left>>

(* InitFPGA() resets the FPGA through endpoint 1, without the mutex: what   *)
(* was under way is lost.                                                   *)
InitFPGA(b) ==
    /\ opened = Board /\ left > 0
    /\ left' = left - 1
    /\ cmd' = [cmd EXCEPT ![b] = << >>]
    /\ regs' = [regs EXCEPT ![b] = [r \in Reg |-> Zero]]
    /\ UNCHANGED <<mutex, buffer, acc, reply, opened, late>>

(* Mutated form: endpoint 8 is read once.                                   *)
OpenReadsOnce(b) ==
    /\ b \notin opened /\ cmd[b] = << >>
    /\ reply' = [reply EXCEPT ![b] = IF @ = << >> THEN @ ELSE Tail(@)]
    /\ opened' = opened \cup {b} /\ late' = late \ {b}
    /\ UNCHANGED <<mutex, buffer, acc, cmd, regs, left>>

(* The constructor of DRS opens a board: it reads endpoint 8 until nothing  *)
(* comes for a second.  By then the board has executed what was under way.  *)
Open(b) ==
    /\ b \notin opened /\ cmd[b] = << >>
    /\ reply' = [reply EXCEPT ![b] = << >>]
    /\ opened' = opened \cup {b} /\ late' = late \ {b}
    /\ UNCHANGED <<mutex, buffer, acc, cmd, regs, left>>

(* rescan_boards(), while no access is under way: the boards are closed.    *)
(* No failures are counted after it.                                        *)
Close ==
    /\ opened = Board /\ left > 0
    /\ \A t \in Thread : At(t, "idle")
    /\ left' = 0
    /\ opened' = {} /\ mutex' = Destroyed
    /\ UNCHANGED <<buffer, acc, cmd, reply, regs, late>>

(* The process is killed and started again; the boards keep their state.    *)
Kill ==
    /\ opened # {} /\ left > 0
    /\ left' = left - 1
    /\ acc' = [t \in Thread |-> NoAccess]
    /\ mutex' = Free /\ buffer' = [reg |-> None, val |-> None]
    /\ opened' = {} /\ late' = {}
    /\ UNCHANGED <<cmd, reply, regs>>

Init ==
    /\ mutex = Free /\ buffer = [reg |-> None, val |-> None]
    /\ acc = [t \in Thread |-> NoAccess]
    /\ cmd = [b \in Board |-> << >>]
    /\ reply \in [Board -> {<< >>} \cup {<<v>> : v \in Value}]   \* "erratic write" at power-up
    /\ regs = [b \in Board |-> [r \in Reg |-> Zero]]
    /\ opened = {} /\ late = {} /\ left = MaxLate

Next == \/ \E t \in Thread : \/ Call(t) \/ Lock(t) \/ Address(t) \/ Data(t) \/ SendWrite(t)
                             \/ SendRead(t) \/ Receive(t) \/ TimeOut(t) \/ Unlock(t)
        \/ \E b \in Board : Execute(b) \/ Change(b) \/ InitFPGA(b) \/ Open(b)
        \/ Close \/ Kill

Spec == Init /\ [][Next]_vars

-----------------------------------------------------------------------------
Critical == {"address", "data", "send", "wait", "unlock"}

(* s_drsMutex keeps the accesses of all threads to all boards apart.        *)
MutualExclusion ==
    Apart => \A t \in Thread : acc[t].pc \in Critical => mutex = t

(* What lies in endpoint 8 of a board no access has failed for is the one   *)
(* answer a thread is waiting for at this board, and no other command is    *)
(* under way: so that musb_read() may take the first thing it gets.         *)
AnswersAwaited ==
    Apart => \A b \in Trusted : reply[b] # << >> =>
        /\ cmd[b] = << >>
        /\ \E t \in Thread : /\ At(t, "wait") /\ acc[t].board = b
                             /\ reply[b] = <<acc[t].seen>>

(* The writes to register r on their way to board b, and the registers as   *)
(* they will be when the board has executed what is on its way.             *)
Pending(b, r) ==
    {k \in 1..Len(cmd[b]) : cmd[b][k].op = "write" /\ cmd[b][k].reg = r /\ cmd[b][k].val # None}
Effective(b) ==
    [r \in Reg |-> IF Pending(b, r) = {} THEN regs[b][r] ELSE cmd[b][Max(Pending(b, r))].val]

Registers == [b \in Board |-> Effective(b)]

(* How far an access is for its caller: done when it has had its effect, or *)
(* when its answer is certain.                                              *)
View(t) ==
    [pc |-> IF At(t, "idle") THEN "idle"
            ELSE IF At(t, "unlock") \/ acc[t].seen # None THEN "done" ELSE "called",
     op |-> acc[t].op, board |-> acc[t].board, reg |-> acc[t].reg, val |-> acc[t].val,
     answer |-> acc[t].seen]
Views == [t \in Thread |-> View(t)]

Reliable == IF Apart THEN Trusted ELSE {}

Promise == INSTANCE RegisterFile WITH
    Initial <- [r \in Reg |-> Zero],
    regs <- Registers, access <- Views, trusted <- Reliable, apart <- Apart

(* What CtrlReg, BoardConfig and Calibration rely on: as long as the mutex  *)
(* is there, every Read() and Write() is one atomic access to the register  *)
(* of its own board, whichever threads and boards are at work; answers are  *)
(* those asked for unless an access to the board has failed before; and a   *)
(* new process finds the boards in order, wherever the last one was killed. *)
ImplementsRegisterFile == Promise!Spec
=============================================================================
