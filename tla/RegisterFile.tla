---------------------------- MODULE RegisterFile ----------------------------
(***************************************************************************)
(* What DRSBoard::Read() and Write() promise to the rest of the program,   *)
(* and what the other modules take for granted when a register access is   *)
(* one step: an access has its effect, or takes its value, at one moment   *)
(* between its call and its return, and never another access's.            *)
(*                                                                         *)
(* The promise about the answer ends for a board with the first access to  *)
(* it that fails, until it is opened anew by the next process; and it ends *)
(* altogether when the accesses are no longer kept apart.                  *)
(***************************************************************************)
CONSTANTS Thread, Board, Reg, Value, Initial, None

VARIABLES
    regs,      \* regs[b][r]: what register r of board b holds
    access,    \* access[t]: what thread t is doing
    trusted,   \* the boards whose answers are those asked for
    apart      \* accesses are kept apart

vars == <<regs, access, trusted, apart>>

NoAccess == [pc |-> "idle", op |-> None, board |-> None, reg |-> None, val |-> None,
             answer |-> None]

Init == /\ regs \in [Board -> [Reg -> Value]]
        /\ access = [t \in Thread |-> NoAccess]
        /\ trusted = {}
        /\ apart = TRUE

Called == [pc : {"called"}, op : {"read", "write"}, board : Board, reg : Reg,
           val : Value \cup {None}, answer : {None}]

Call(t) ==
    /\ access[t].pc = "idle"
    /\ access'[t] \in Called
    /\ access' = [access EXCEPT ![t] = access'[t]]
    /\ UNCHANGED <<regs, trusted, apart>>

Done(t, answer) ==
    access' = [access EXCEPT ![t].pc = "done", ![t].answer = answer]

Write(t) ==
    LET a == access[t]
    IN  /\ a.pc = "called" /\ a.op = "write"
        /\ regs' = [regs EXCEPT ![a.board][a.reg] = a.val]
        /\ Done(t, None)
        /\ UNCHANGED <<trusted, apart>>

Read(t) ==
    LET a == access[t]
    IN  /\ a.pc = "called" /\ a.op = "read" /\ a.board \in trusted
        /\ Done(t, regs[a.board][a.reg])
        /\ UNCHANGED <<regs, trusted, apart>>

(* An access fails: it has no effect, and the board's answers are no longer *)
(* to be relied on.                                                         *)
Fail(t) ==
    /\ access[t].pc \in {"called", "done"}
    /\ Done(t, None)
    /\ trusted' = trusted \ {access[t].board}
    /\ UNCHANGED <<regs, apart>>

(* From a board that is not trusted any answer may come.                    *)
Misread(t) ==
    /\ access[t].pc = "called" /\ access[t].op = "read"
    /\ access[t].board \notin trusted
    /\ \E v \in Value : Done(t, v)
    /\ UNCHANGED <<regs, trusted, apart>>

Return(t) ==
    /\ access[t].pc = "done"
    /\ access' = [access EXCEPT ![t] = NoAccess]
    /\ UNCHANGED <<regs, trusted, apart>>

(* The hardware changes a register itself, or is reset.                     *)
Change(b, r) ==
    /\ \E v \in Value : regs' = [regs EXCEPT ![b][r] = v]
    /\ UNCHANGED <<access, trusted, apart>>
Reset(b) ==
    /\ regs' = [regs EXCEPT ![b] = Initial]
    /\ UNCHANGED <<access, trusted, apart>>

Open(b) ==
    /\ trusted' = trusted \cup {b}
    /\ UNCHANGED <<regs, access, apart>>

(* A new process.                                                           *)
Restart ==
    /\ access' = [t \in Thread |-> NoAccess]
    /\ trusted' = {} /\ apart' = TRUE
    /\ UNCHANGED regs

(* Nothing is promised any more.                                            *)
FallTogether == ~apart'

Next == \/ FallTogether
        \/ \E t \in Thread : Return(t) \/ Call(t) \/ Write(t) \/ Read(t) \/ Fail(t) \/ Misread(t)
        \/ \E b \in Board : Open(b) \/ Reset(b) \/ \E r \in Reg : Change(b, r)
        \/ Restart

Spec == Init /\ [][Next]_vars
=============================================================================
