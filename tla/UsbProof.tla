------------------------------ MODULE UsbProof ------------------------------
(***************************************************************************)
(* Proofs about Usb for any number of threads and boards, any registers    *)
(* and any depth of endpoint 4: the accesses exclude one another, the      *)
(* answers in endpoint 8 are awaited, and Usb implements RegisterFile.     *)
(*                                                                         *)
(* An answer that lies in endpoint 8 was a read in endpoint 4 before, so   *)
(* AnswersAwaited is not inductive alone: Asked says the same of the reads *)
(* that are still under way.  Both rest on the mutual exclusion, for a     *)
(* thread that sends a command must know that nobody else is waiting.      *)
(* The refinement needs besides whose the buffer, the read under way and   *)
(* the answer are (Filled, Fetched).                                       *)
(***************************************************************************)
EXTENDS Usb, SequenceTheorems, WellFoundedInduction, TLAPS

Command == [op : {"read", "write"}, reg : Reg \cup {None}, val : Value \cup {None}]
Access == [pc : {"idle", "lock", "address", "data", "send", "wait", "unlock"},
           op : {"read", "write", None}, board : Board \cup {None},
           reg : Reg \cup {None}, val : Value \cup {None}, seen : Value \cup {None}]

Types ==
    /\ mutex \in {Free, Destroyed} \cup Thread
    /\ buffer \in [reg : Reg \cup {None}, val : Value \cup {None}]
    /\ acc \in [Thread -> Access]
    /\ \A t \in Thread : acc[t].pc # "idle" => /\ acc[t].board \in Board
                                               /\ acc[t].reg \in Reg
                                               /\ acc[t].op \in {"read", "write"}
    /\ cmd \in [Board -> Seq(Command)]
    /\ \A b \in Board : \A k \in 1..Len(cmd[b]) : cmd[b][k].op = "read" => cmd[b][k].reg \in Reg
    /\ reply \in [Board -> Seq(Value)]
    /\ regs \in [Board -> [Reg -> Value]]
    /\ opened \subseteq Board /\ late \subseteq Board
    /\ left \in 0..MaxLate

(* Only a process that has opened all its boards accesses them.             *)
OpenedFirst == opened # Board => \A t \in Thread : acc[t].pc = "idle"

Awaits(t, b) == acc[t].pc = "wait" /\ acc[t].board = b

(* A read under way to a board is the last command there, there is no       *)
(* answer yet, and a thread waits for it.                                   *)
Asked(b) ==
    \A k \in 1..Len(cmd[b]) : cmd[b][k].op = "read" =>
        /\ k = Len(cmd[b]) /\ reply[b] = << >>
        /\ \E t \in Thread : Awaits(t, b)

Answered(b) ==
    reply[b] # << >> => /\ cmd[b] = << >>
                        /\ \E t \in Thread : Awaits(t, b) /\ reply[b] = <<acc[t].seen>>

Awaited == Apart => \A b \in Trusted : Asked(b) /\ Answered(b)

IInv == Types /\ OpenedFirst /\ MutualExclusion /\ Awaited

(* What a thread knows of its own access.                                   *)
Proper(a) ==
    /\ a.pc = "idle" => a = NoAccess
    /\ a.pc \in {"lock", "address", "data", "send"} => a.seen = None
    /\ a.pc \in {"address", "data"} => a.op = "write"
    /\ a.pc = "wait" => a.op = "read"
    /\ a.pc # "idle" /\ a.op = "write" => a.val \in Value /\ a.seen = None
ProperAll == \A t \in Thread : Proper(acc[t])

(* usb2_buffer belongs to the thread that fills it, ...                     *)
Filled == Apart => \A t \in Thread :
    /\ acc[t].pc = "data" => buffer.reg = acc[t].reg
    /\ acc[t].pc = "send" /\ acc[t].op = "write" =>
         buffer = [reg |-> acc[t].reg, val |-> acc[t].val]

(* ... the read under way is the one the waiting thread has sent, and what  *)
(* has been read is still on its way to this thread.                        *)
Fetched == Apart => \A t \in Thread : acc[t].pc = "wait" =>
    /\ acc[t].board \in Trusted => \A k \in 1..Len(cmd[acc[t].board]) :
         cmd[acc[t].board][k].op = "read" => cmd[acc[t].board][k].reg = acc[t].reg
    /\ acc[t].seen # None => acc[t].board \in Trusted /\ reply[acc[t].board] # << >>

JInv == IInv /\ ProperAll /\ Filled /\ Fetched

-----------------------------------------------------------------------------
LEMMA TypesInit == Init => Types
  <1> SUFFICES ASSUME Init PROVE Types
    OBVIOUS
  <1>1. acc \in [Thread -> Access] /\ \A t \in Thread : acc[t].pc = "idle"
    BY DEF Init, NoAccess, Access
  <1>2. cmd \in [Board -> Seq(Command)] /\ \A b \in Board : Len(cmd[b]) = 0
    BY DEF Init
  <1>3. reply \in [Board -> Seq(Value)]
    <2>1. \A v \in Value : <<v>> \in Seq(Value)
      OBVIOUS
    <2>2. \A b \in Board : reply[b] = << >> \/ \E v \in Value : reply[b] = <<v>>
      BY DEF Init
    <2>3. ASSUME NEW b \in Board PROVE reply[b] \in Seq(Value)
      <3>1. CASE reply[b] = << >>
        BY <3>1
      <3>2. CASE \E v \in Value : reply[b] = <<v>>
        <4>1. PICK v \in Value : reply[b] = <<v>>
          BY <3>2
        <4> QED
          BY <2>1, <4>1, Zenon
      <3> QED
        BY <2>2, <3>1, <3>2
    <2>4. reply = [b \in Board |-> reply[b]]
      BY DEF Init
    <2> QED
      BY <2>3, <2>4
  <1>4. regs \in [Board -> [Reg -> Value]]
    BY UsbAssumption DEF Init
  <1> QED
    BY <1>1, <1>2, <1>3, <1>4, UsbAssumption DEF Init, Types, Free

LEMMA TypesAcc ==
  ASSUME Types, NEW t \in Thread, NEW a \in Access,
         a.pc # "idle" => a.board \in Board /\ a.reg \in Reg /\ a.op \in {"read", "write"},
         acc' = [acc EXCEPT ![t] = a]
  PROVE  acc' \in [Thread -> Access] /\ \A u \in Thread : acc'[u].pc # "idle" =>
          acc'[u].board \in Board /\ acc'[u].reg \in Reg /\ acc'[u].op \in {"read", "write"}
  BY DEF Types

LEMMA TypesCall == ASSUME Types, NEW t \in Thread, Call(t) PROVE Types'
  <1>1. \E a \in Access : /\ a.board \in Board /\ a.reg \in Reg /\ a.op \in {"read", "write"}
                          /\ acc' = [acc EXCEPT ![t] = a]
    <2>1. PICK b \in Board :
            \/ \E r \in Reg : acc' = [acc EXCEPT ![t] = Called("read", b, r, None)]
            \/ \E r \in Control, v \in Value :
                 acc' = [acc EXCEPT ![t] = Called("write", b, r, v)]
      BY DEF Call
    <2>2. \A r \in Reg : /\ Called("read", b, r, None) \in Access
                         /\ Called("read", b, r, None).board = b
                         /\ Called("read", b, r, None).reg = r
                         /\ Called("read", b, r, None).op = "read"
      BY DEF Access, Called
    <2>3. \A r \in Control, v \in Value :
            /\ Called("write", b, r, v) \in Access
            /\ Called("write", b, r, v).board = b
            /\ Called("write", b, r, v).reg = r /\ r \in Reg
            /\ Called("write", b, r, v).op = "write"
      BY DEF Access, Called, Reg
    <2> QED
      BY <2>1, <2>2, <2>3
  <1>2. acc' \in [Thread -> Access] /\ \A u \in Thread : acc'[u].pc # "idle" =>
          acc'[u].board \in Board /\ acc'[u].reg \in Reg /\ acc'[u].op \in {"read", "write"}
    BY <1>1, TypesAcc
  <1> QED
    BY <1>2 DEF Call, Types

LEMMA TypesGo ==
  ASSUME Types, NEW t \in Thread, acc[t].pc # "idle",
         NEW pc \in {"idle", "lock", "address", "data", "send", "wait", "unlock"}, Go(t, pc)
  PROVE  acc' \in [Thread -> Access] /\ \A u \in Thread : acc'[u].pc # "idle" =>
          acc'[u].board \in Board /\ acc'[u].reg \in Reg /\ acc'[u].op \in {"read", "write"}
  <1> DEFINE a == [acc[t] EXCEPT !.pc = pc]
  <1>1. acc[t] \in Access
    BY DEF Types
  <1>2. a \in Access /\ a.board = acc[t].board /\ a.reg = acc[t].reg /\ a.op = acc[t].op
    BY <1>1 DEF Access
  <1>3. acc' = [acc EXCEPT ![t] = a]
    BY DEF Go
  <1> HIDE DEF a
  <1> QED
    BY <1>2, <1>3, TypesAcc DEF Types

LEMMA TypesGoWith ==
  ASSUME Types, NEW t \in Thread, acc[t].pc # "idle",
         NEW v \in Value \cup {None}, GoWith(t, "unlock", v)
  PROVE  acc' \in [Thread -> Access] /\ \A u \in Thread : acc'[u].pc # "idle" =>
          acc'[u].board \in Board /\ acc'[u].reg \in Reg /\ acc'[u].op \in {"read", "write"}
  <1> DEFINE a == [acc[t] EXCEPT !.pc = "unlock", !.seen = v]
  <1>1. acc[t] \in Access
    BY DEF Types
  <1>2. a \in Access /\ a.board = acc[t].board /\ a.reg = acc[t].reg /\ a.op = acc[t].op
    BY <1>1 DEF Access
  <1>3. acc' = [acc EXCEPT ![t] = a]
    BY DEF GoWith
  <1> HIDE DEF a
  <1> QED
    BY <1>2, <1>3, TypesAcc DEF Types

LEMMA TypesEnqueue ==
  ASSUME Types, NEW b \in Board, NEW c \in Command, Enqueue(b, c),
         c.op = "read" => c.reg \in Reg
  PROVE  /\ cmd' \in [Board -> Seq(Command)]
         /\ \A d \in Board : \A k \in 1..Len(cmd'[d]) :
              cmd'[d][k].op = "read" => cmd'[d][k].reg \in Reg
  BY DEF Types, Enqueue

LEMMA TypesRegs ==
  ASSUME Types, NEW b \in Board, NEW r \in Reg, NEW v \in Value,
         regs' = [regs EXCEPT ![b][r] = v]
  PROVE  regs' \in [Board -> [Reg -> Value]]
  <1> DEFINE f == [regs[b] EXCEPT ![r] = v]
  <1>1. f \in [Reg -> Value]
    BY DEF Types
  <1>2. regs' = [regs EXCEPT ![b] = f]
    OBVIOUS
  <1> HIDE DEF f
  <1> QED
    BY <1>1, <1>2 DEF Types

LEMMA TypesStep == ASSUME Types, [Next]_vars PROVE Types'
  <1>1. ASSUME NEW t \in Thread, Call(t) PROVE Types'
    BY <1>1, TypesCall
  <1>2. ASSUME NEW t \in Thread, Lock(t) PROVE Types'
    <2>1. acc[t].pc # "idle" /\ (Go(t, "send") \/ Go(t, "address"))
      BY <1>2 DEF Lock, At
    <2>2. mutex' \in {Free, Destroyed} \cup Thread
      BY <1>2 DEF Lock, Types
    <2> QED
      BY <1>2, <2>1, <2>2, TypesGo DEF Lock, Types
  <1>3. ASSUME NEW t \in Thread, Address(t) PROVE Types'
    <2>1. acc[t].pc # "idle" /\ Go(t, "data")
      BY <1>3 DEF Address, At
    <2>2. buffer' \in [reg : Reg \cup {None}, val : Value \cup {None}]
      BY <1>3, <2>1 DEF Address, Types
    <2> QED
      BY <1>3, <2>1, <2>2, TypesGo DEF Address, Types
  <1>4. ASSUME NEW t \in Thread, Data(t) PROVE Types'
    <2>1. acc[t].pc # "idle" /\ Go(t, "send")
      BY <1>4 DEF Data, At
    <2>2. buffer' \in [reg : Reg \cup {None}, val : Value \cup {None}]
      BY <1>4, <2>1 DEF Data, Types, Access
    <2> QED
      BY <1>4, <2>1, <2>2, TypesGo DEF Data, Types
  <1>5. ASSUME NEW t \in Thread, SendWrite(t) PROVE Types'
    <2>1. acc[t].pc # "idle" /\ Go(t, "unlock") /\ acc[t].board \in Board
      BY <1>5 DEF SendWrite, At, Types
    <2>2. buffer' \in [reg : Reg \cup {None}, val : Value \cup {None}]
      BY <1>5 DEF SendWrite
    <2>3. CASE /\ Enqueue(acc[t].board, [op |-> "write", reg |-> buffer.reg, val |-> buffer.val])
               /\ UNCHANGED <<late, left>>
      <3>1. [op |-> "write", reg |-> buffer.reg, val |-> buffer.val] \in Command
        BY DEF Types, Command
      <3>2. /\ cmd' \in [Board -> Seq(Command)]
            /\ \A d \in Board : \A k \in 1..Len(cmd'[d]) :
                 cmd'[d][k].op = "read" => cmd'[d][k].reg \in Reg
        BY <2>1, <2>3, <3>1, TypesEnqueue
      <3> QED
        BY <1>5, <2>1, <2>2, <2>3, <3>2, TypesGo DEF SendWrite, Types
    <2>4. CASE left > 0 /\ left' = left - 1 /\ late' = late \cup {acc[t].board} /\ UNCHANGED cmd
      <3>1. left' \in 0..MaxLate
        BY <2>4, UsbAssumption DEF Types
      <3> QED
        BY <1>5, <2>1, <2>2, <2>4, <3>1, TypesGo DEF SendWrite, Types
    <2> QED
      BY <1>5, <2>3, <2>4 DEF SendWrite
  <1>6. ASSUME NEW t \in Thread, SendRead(t) PROVE Types'
    <2>1. acc[t].pc # "idle" /\ Go(t, "wait") /\ acc[t].board \in Board /\ acc[t].reg \in Reg
      BY <1>6 DEF SendRead, At, Types
    <2>2. [op |-> "read", reg |-> acc[t].reg, val |-> None] \in Command
      BY <2>1 DEF Command
    <2>3. /\ cmd' \in [Board -> Seq(Command)]
          /\ \A d \in Board : \A k \in 1..Len(cmd'[d]) :
               cmd'[d][k].op = "read" => cmd'[d][k].reg \in Reg
      BY <1>6, <2>1, <2>2, TypesEnqueue DEF SendRead
    <2> QED
      BY <1>6, <2>1, <2>3, TypesGo DEF SendRead, Types
  <1>7. ASSUME NEW t \in Thread, Receive(t) PROVE Types'
    <2> DEFINE b == acc[t].board
    <2>1. acc[t].pc # "idle" /\ b \in Board /\ reply[b] \in Seq(Value) /\ reply[b] # << >>
      BY <1>7 DEF Receive, At, Types
    <2>2. Head(reply[b]) \in Value /\ Tail(reply[b]) \in Seq(Value)
      BY <2>1
    <2>3. reply' \in [Board -> Seq(Value)]
      BY <1>7, <2>2 DEF Receive, Types
    <2>4. GoWith(t, "unlock", Head(reply[b]))
      BY <1>7 DEF Receive
    <2>5. acc' \in [Thread -> Access] /\ \A u \in Thread : acc'[u].pc # "idle" =>
            acc'[u].board \in Board /\ acc'[u].reg \in Reg /\ acc'[u].op \in {"read", "write"}
      BY <2>1, <2>2, <2>4, TypesGoWith
    <2> QED
      BY <1>7, <2>3, <2>5 DEF Receive, Types
  <1>8. ASSUME NEW t \in Thread, TimeOut(t) PROVE Types'
    <2>1. acc[t].pc # "idle" /\ acc[t].board \in Board /\ GoWith(t, "unlock", None)
      BY <1>8 DEF TimeOut, At, Types
    <2>2. left' \in 0..MaxLate
      BY <1>8, UsbAssumption DEF TimeOut, Types
    <2> QED
      BY <1>8, <2>1, <2>2, TypesGoWith DEF TimeOut, Types
  <1>9. ASSUME NEW t \in Thread, Unlock(t) PROVE Types'
    <2>1. NoAccess \in Access
      BY DEF NoAccess, Access
    <2>2. acc' \in [Thread -> Access] /\ \A u \in Thread : acc'[u].pc # "idle" =>
            acc'[u].board \in Board /\ acc'[u].reg \in Reg /\ acc'[u].op \in {"read", "write"}
      BY <1>9, <2>1 DEF Unlock, Types, NoAccess
    <2> QED
      BY <1>9, <2>2 DEF Unlock, Types
  <1>10. ASSUME NEW b \in Board, Execute(b) PROVE Types'
    <2> DEFINE c == Head(cmd[b])
    <2>1. cmd[b] \in Seq(Command) /\ cmd[b] # << >>
      BY <1>10 DEF Execute, Types
    <2>2. c \in Command /\ c = cmd[b][1] /\ 1 \in 1..Len(cmd[b]) /\ Tail(cmd[b]) \in Seq(Command)
      BY <2>1
    <2>3. \A k \in 1..Len(Tail(cmd[b])) : Tail(cmd[b])[k] = cmd[b][k + 1] /\ k + 1 \in 1..Len(cmd[b])
      BY <2>1
    <2>4. cmd' = [cmd EXCEPT ![b] = Tail(cmd[b])]
      BY <1>10 DEF Execute
    <2>5. /\ cmd' \in [Board -> Seq(Command)]
          /\ \A d \in Board : \A k \in 1..Len(cmd'[d]) :
               cmd'[d][k].op = "read" => cmd'[d][k].reg \in Reg
      BY <2>2, <2>3, <2>4 DEF Types
    <2>6. CASE c.op = "write"
      <3>1. regs' = regs \/ /\ c.reg # None /\ c.val # None
                            /\ regs' = [regs EXCEPT ![b][c.reg] = c.val]
        BY <1>10, <2>6 DEF Execute
      <3>2. c.reg # None => c.reg \in Reg
        BY <2>2 DEF Command
      <3>3. c.val # None => c.val \in Value
        BY <2>2 DEF Command
      <3>4. regs' \in [Board -> [Reg -> Value]]
        BY <3>1, <3>2, <3>3, TypesRegs DEF Types
      <3> QED
        BY <1>10, <2>5, <2>6, <3>4 DEF Execute, Types
    <2>7. CASE c.op # "write"
      <3>1. c.reg \in Reg
        BY <2>2, <2>7 DEF Types, Command
      <3>2. regs[b][c.reg] \in Value
        BY <3>1 DEF Types
      <3>3. reply' = [reply EXCEPT ![b] = Append(@, regs[b][c.reg])]
        BY <1>10, <2>7 DEF Execute
      <3>4. reply' \in [Board -> Seq(Value)]
        BY <3>2, <3>3 DEF Types
      <3>5. acc' = [t \in Thread |->
                     IF At(t, "wait") /\ acc[t].board = b /\ b \in Trusted
                     THEN [acc[t] EXCEPT !.seen = regs[b][c.reg]] ELSE acc[t]]
        BY <1>10, <2>7 DEF Execute
      <3>6. acc' \in [Thread -> Access] /\ \A u \in Thread : acc'[u].pc # "idle" =>
              acc'[u].board \in Board /\ acc'[u].reg \in Reg /\ acc'[u].op \in {"read", "write"}
        <4> DEFINE a(u) == [acc[u] EXCEPT !.seen = regs[b][c.reg]]
        <4>1. \A u \in Thread : acc[u] \in Access
          BY DEF Types
        <4>2. \A u \in Thread : a(u) \in Access /\ a(u).pc = acc[u].pc /\ a(u).reg = acc[u].reg
                                /\ a(u).board = acc[u].board /\ a(u).op = acc[u].op
          BY <3>2, <4>1 DEF Access
        <4>3. \A u \in Thread : acc'[u] = a(u) \/ acc'[u] = acc[u]
          BY <3>5
        <4>4. acc' = [u \in Thread |-> acc'[u]]
          BY <3>5
        <4> HIDE DEF a
        <4>5. \A u \in Thread : /\ acc'[u] \in Access
                                /\ acc'[u].pc = acc[u].pc /\ acc'[u].reg = acc[u].reg
                                /\ acc'[u].board = acc[u].board /\ acc'[u].op = acc[u].op
          BY <4>1, <4>2, <4>3
        <4>6. acc' \in [Thread -> Access]
          BY <4>4, <4>5
        <4> QED
          BY <4>5, <4>6 DEF Types
      <3> QED
        BY <1>10, <2>5, <2>7, <3>4, <3>6 DEF Execute, Types
    <2> QED
      BY <2>6, <2>7
  <1>11. ASSUME NEW b \in Board, Change(b) PROVE Types'
    <2>1. PICK r \in Reg, v \in Value : regs' = [regs EXCEPT ![b][r] = v]
      BY <1>11 DEF Change, Reg
    <2>2. regs' \in [Board -> [Reg -> Value]]
      BY <2>1, TypesRegs
    <2> QED
      BY <1>11, <2>2 DEF Change, Types
  <1>12. ASSUME NEW b \in Board, InitFPGA(b) PROVE Types'
    <2>1. cmd' \in [Board -> Seq(Command)] /\ \A d \in Board : cmd'[d] = cmd[d] \/ Len(cmd'[d]) = 0
      BY <1>12 DEF InitFPGA, Types
    <2>2. regs' \in [Board -> [Reg -> Value]]
      BY <1>12, UsbAssumption DEF InitFPGA, Types
    <2>3. left' \in 0..MaxLate
      BY <1>12, UsbAssumption DEF InitFPGA, Types
    <2> QED
      BY <1>12, <2>1, <2>2, <2>3 DEF InitFPGA, Types
  <1>13. ASSUME NEW b \in Board, Open(b) PROVE Types'
    BY <1>13 DEF Open, Types
  <1>14. ASSUME Close PROVE Types'
    BY <1>14, UsbAssumption DEF Close, Types
  <1>15. ASSUME Kill PROVE Types'
    <2>1. acc' \in [Thread -> Access] /\ \A u \in Thread : acc'[u].pc = "idle"
      BY <1>15 DEF Kill, NoAccess, Access
    <2>2. left' \in 0..MaxLate
      BY <1>15, UsbAssumption DEF Kill, Types
    <2> QED
      BY <1>15, <2>1, <2>2 DEF Kill, Types
  <1>16. ASSUME UNCHANGED vars PROVE Types'
    BY <1>16 DEF vars, Types
  <1> QED
    BY <1>1, <1>2, <1>3, <1>4, <1>5, <1>6, <1>7, <1>8, <1>9, <1>10, <1>11, <1>12, <1>13,
       <1>14, <1>15, <1>16 DEF Next

-----------------------------------------------------------------------------
LEMMA GoPc ==
  ASSUME Types, NEW t \in Thread,
         NEW pc \in {"idle", "lock", "address", "data", "send", "wait", "unlock"}, Go(t, pc)
  PROVE  /\ acc'[t].pc = pc /\ acc'[t].board = acc[t].board
         /\ \A u \in Thread \ {t} : acc'[u] = acc[u]
  <1>1. acc[t] \in Access
    BY DEF Types
  <1>2. [acc[t] EXCEPT !.pc = pc].pc = pc /\ [acc[t] EXCEPT !.pc = pc].board = acc[t].board
    BY <1>1 DEF Access
  <1>3. acc' = [acc EXCEPT ![t] = [acc[t] EXCEPT !.pc = pc]]
    BY DEF Go
  <1> QED
    BY <1>2, <1>3 DEF Types

LEMMA GoWithPc ==
  ASSUME Types, NEW t \in Thread, NEW v, GoWith(t, "unlock", v)
  PROVE  acc'[t].pc = "unlock" /\ \A u \in Thread \ {t} : acc'[u] = acc[u]
  <1>1. acc[t] \in Access
    BY DEF Types
  <1>2. [acc[t] EXCEPT !.pc = "unlock", !.seen = v].pc = "unlock"
    BY <1>1 DEF Access
  <1>3. acc' = [acc EXCEPT ![t] = [acc[t] EXCEPT !.pc = "unlock", !.seen = v]]
    BY DEF GoWith
  <1> QED
    BY <1>2, <1>3 DEF Types

LEMMA CallPc ==
  ASSUME Types, NEW t \in Thread, Call(t)
  PROVE  acc'[t].pc = "lock" /\ \A u \in Thread \ {t} : acc'[u] = acc[u]
  <1>1. \A b, r, v : Called("read", b, r, v).pc = "lock" /\ Called("write", b, r, v).pc = "lock"
    BY DEF Called
  <1>2. \E a : a.pc = "lock" /\ acc' = [acc EXCEPT ![t] = a]
    BY <1>1 DEF Call
  <1> QED
    BY <1>2 DEF Types

LEMMA UnlockPc ==
  ASSUME Types, NEW t \in Thread, Unlock(t)
  PROVE  acc'[t].pc = "idle" /\ \A u \in Thread \ {t} : acc'[u] = acc[u]
  BY DEF Types, Unlock, NoAccess

LEMMA ExecutePc ==
  ASSUME Types, NEW b \in Board, Execute(b)
  PROVE  \A u \in Thread : acc'[u].pc = acc[u].pc /\ acc'[u].board = acc[u].board
  <1>1. CASE acc' = acc
    BY <1>1
  <1>2. CASE Head(cmd[b]).op # "write"
    <2> DEFINE v == regs[b][Head(cmd[b]).reg]
               a(u) == [acc[u] EXCEPT !.seen = v]
    <2>1. \A u \in Thread : acc[u] \in Access
      BY DEF Types
    <2>2. \A u \in Thread : a(u).pc = acc[u].pc /\ a(u).board = acc[u].board
      BY <2>1 DEF Access
    <2>3. \A u \in Thread : acc'[u] = a(u) \/ acc'[u] = acc[u]
      BY <1>2 DEF Execute
    <2> HIDE DEF a
    <2> QED
      BY <2>2, <2>3
  <1> QED
    BY <1>1, <1>2 DEF Execute

(* Only an idle thread has no board.                                        *)
LEMMA OpenedFirstStep == ASSUME Types, OpenedFirst, [Next]_vars PROVE OpenedFirst'
  <1>1. ASSUME NEW t \in Thread, Call(t) PROVE OpenedFirst'
    BY <1>1 DEF Call, OpenedFirst
  <1>2. ASSUME NEW t \in Thread,
               Lock(t) \/ Address(t) \/ Data(t) \/ SendWrite(t) \/ SendRead(t) \/ Receive(t)
                 \/ TimeOut(t) \/ Unlock(t)
        PROVE  OpenedFirst'
    <2>1. acc[t].pc # "idle" /\ opened' = opened
      BY <1>2 DEF At, Lock, Address, Data, SendWrite, SendRead, Receive, TimeOut, Unlock
    <2> QED
      BY <2>1 DEF OpenedFirst
  <1>3. ASSUME NEW b \in Board, Execute(b) PROVE OpenedFirst'
    <2>1. opened' = opened
      BY <1>3 DEF Execute
    <2> QED
      BY <1>3, <2>1, ExecutePc DEF OpenedFirst
  <1>4. ASSUME NEW b \in Board, Change(b) \/ InitFPGA(b) PROVE OpenedFirst'
    BY <1>4 DEF Change, InitFPGA, OpenedFirst
  <1>5. ASSUME NEW b \in Board, Open(b) PROVE OpenedFirst'
    BY <1>5 DEF Open, OpenedFirst
  <1>6. ASSUME Close PROVE OpenedFirst'
    BY <1>6 DEF Close, OpenedFirst, At
  <1>7. ASSUME Kill PROVE OpenedFirst'
    BY <1>7 DEF Kill, OpenedFirst, NoAccess
  <1>8. ASSUME UNCHANGED vars PROVE OpenedFirst'
    BY <1>8 DEF vars, OpenedFirst
  <1> QED
    BY <1>1, <1>2, <1>3, <1>4, <1>5, <1>6, <1>7, <1>8 DEF Next

LEMMA ExclusionStep ==
  ASSUME Types, OpenedFirst, MutualExclusion, [Next]_vars PROVE MutualExclusion'
  <1> USE DEF MutualExclusion, Apart, Critical, At
  <1>1. ASSUME NEW t \in Thread, Call(t) PROVE MutualExclusion'
    <2>1. mutex' = mutex
      BY <1>1 DEF Call
    <2> QED
      BY <1>1, <2>1, CallPc
  <1>2. ASSUME NEW t \in Thread, Lock(t) PROVE MutualExclusion'
    <2>1. mutex = Free => \A u \in Thread : acc[u].pc \notin Critical
      BY UsbAssumption DEF Free, Destroyed
    <2>2. \A u \in Thread \ {t} : acc'[u] = acc[u]
      <3>1. Go(t, "send") \/ Go(t, "address")
        BY <1>2 DEF Lock
      <3> QED
        BY <3>1, GoPc
    <2> QED
      BY <1>2, <2>1, <2>2 DEF Lock
  <1>3. ASSUME NEW t \in Thread, Address(t) \/ Data(t) \/ SendWrite(t) \/ SendRead(t)
        PROVE  MutualExclusion'
    <2>1. mutex' = mutex /\ acc[t].pc \in Critical
      BY <1>3 DEF Address, Data, SendWrite, SendRead
    <2>2. Go(t, "data") \/ Go(t, "send") \/ Go(t, "unlock") \/ Go(t, "wait")
      BY <1>3 DEF Address, Data, SendWrite, SendRead
    <2>3. \A u \in Thread \ {t} : acc'[u] = acc[u]
      BY <2>2, GoPc
    <2> QED
      BY <2>1, <2>3
  <1>4. ASSUME NEW t \in Thread, Receive(t) \/ TimeOut(t) PROVE MutualExclusion'
    <2>1. mutex' = mutex /\ acc[t].pc \in Critical
      BY <1>4 DEF Receive, TimeOut
    <2>2. \E v : GoWith(t, "unlock", v)
      BY <1>4 DEF Receive, TimeOut
    <2>3. \A u \in Thread \ {t} : acc'[u] = acc[u]
      BY <2>2, GoWithPc
    <2> QED
      BY <2>1, <2>3
  <1>5. ASSUME NEW t \in Thread, Unlock(t) PROVE MutualExclusion'
    <2>1. /\ acc'[t].pc = "idle" /\ \A u \in Thread \ {t} : acc'[u] = acc[u]
      BY <1>5, UnlockPc
    <2>2. mutex # Destroyed => mutex = t /\ \A u \in Thread \ {t} : acc[u].pc \notin Critical
      BY <1>5 DEF Unlock
    <2> QED
      BY <1>5, <2>1, <2>2 DEF Unlock
  <1>6. ASSUME NEW b \in Board, Execute(b) PROVE MutualExclusion'
    <2>1. mutex' = mutex
      BY <1>6 DEF Execute
    <2> QED
      BY <1>6, <2>1, ExecutePc
  <1>7. ASSUME NEW b \in Board, Change(b) \/ InitFPGA(b) \/ Open(b) PROVE MutualExclusion'
    BY <1>7 DEF Change, InitFPGA, Open
  <1>8. ASSUME Close PROVE MutualExclusion'
    BY <1>8 DEF Close
  <1>9. ASSUME Kill PROVE MutualExclusion'
    BY <1>9 DEF Kill, NoAccess
  <1>10. ASSUME UNCHANGED vars PROVE MutualExclusion'
    BY <1>10 DEF vars
  <1> QED
    BY <1>1, <1>2, <1>3, <1>4, <1>5, <1>6, <1>7, <1>8, <1>9, <1>10 DEF Next

-----------------------------------------------------------------------------
(* While a thread is inside an access, a board at which it does not wait    *)
(* has no read under way and no answer left.                                *)
LEMMA NobodyElse ==
  ASSUME MutualExclusion, Awaited, Apart, NEW t \in Thread, acc[t].pc \in Critical,
         NEW b \in Trusted, ~Awaits(t, b)
  PROVE  reply[b] = << >> /\ \A k \in 1..Len(cmd[b]) : cmd[b][k].op # "read"
  <1>1. \A u \in Thread : ~Awaits(u, b)
    <2>1. \A u \in Thread \ {t} : acc[u].pc # "wait"
      BY DEF MutualExclusion, Critical
    <2> QED
      BY <2>1 DEF Awaits
  <1> QED
    BY <1>1 DEF Awaited, Asked, Answered

(* Where nothing is under way nothing has to be awaited.                    *)
LEMMA Quiet ==
  ASSUME NEW b, reply'[b] = << >>, \A k \in 1..Len(cmd'[b]) : cmd'[b][k].op # "read"
  PROVE  Asked(b)' /\ Answered(b)'
  BY DEF Asked, Answered

(* A step that leaves a board alone, and whoever waits for it.              *)
LEMMA Untouched ==
  ASSUME NEW b \in Trusted, Asked(b), Answered(b), reply'[b] = reply[b], cmd'[b] = cmd[b],
         \A u \in Thread : Awaits(u, b) => Awaits(u, b)' /\ acc'[u].seen = acc[u].seen
  PROVE  Asked(b)' /\ Answered(b)'
  BY DEF Asked, Answered

LEMMA AwaitedStep ==
  ASSUME Types, OpenedFirst, MutualExclusion, Awaited, [Next]_vars PROVE Awaited'
  <1> SUFFICES ASSUME Apart', NEW b \in Trusted' PROVE Asked(b)' /\ Answered(b)'
    BY DEF Awaited
  <1>1. ASSUME NEW t \in Thread, Call(t) PROVE Asked(b)' /\ Answered(b)'
    <2>1. /\ mutex' = mutex /\ opened' = opened /\ late' = late
          /\ reply' = reply /\ cmd' = cmd /\ acc[t].pc = "idle"
      BY <1>1 DEF Call, At
    <2>2. Apart /\ b \in Trusted
      BY <2>1 DEF Apart, Trusted
    <2>3. \A u \in Thread : Awaits(u, b) => Awaits(u, b)' /\ acc'[u].seen = acc[u].seen
      BY <1>1, <2>1, CallPc DEF Awaits
    <2> QED
      BY <2>1, <2>2, <2>3, Untouched DEF Awaited
  <1>2. ASSUME NEW t \in Thread, Lock(t) \/ Address(t) \/ Data(t)
        PROVE  Asked(b)' /\ Answered(b)'
    <2>1. /\ opened' = opened /\ late' = late /\ reply' = reply /\ cmd' = cmd
          /\ acc[t].pc # "wait"
      BY <1>2 DEF Lock, Address, Data, At
    <2>2. Apart /\ b \in Trusted
      BY <1>2, <2>1 DEF Lock, Address, Data, Apart, Trusted
    <2>3. \A u \in Thread \ {t} : acc'[u] = acc[u]
      <3>1. Go(t, "send") \/ Go(t, "address") \/ Go(t, "data")
        BY <1>2 DEF Lock, Address, Data
      <3> QED
        BY <3>1, GoPc
    <2>4. \A u \in Thread : Awaits(u, b) => Awaits(u, b)' /\ acc'[u].seen = acc[u].seen
      BY <2>1, <2>3 DEF Awaits
    <2> QED
      BY <2>1, <2>2, <2>4, Untouched DEF Awaited
  <1>3. ASSUME NEW t \in Thread, SendWrite(t) PROVE Asked(b)' /\ Answered(b)'
    <2> DEFINE w == [op |-> "write", reg |-> buffer.reg, val |-> buffer.val]
    <2>1. /\ mutex' = mutex /\ opened' = opened /\ late \subseteq late' /\ reply' = reply
          /\ acc[t].pc = "send"
      BY <1>3 DEF SendWrite, At
    <2>2. Apart /\ b \in Trusted /\ b \in Board
      BY <2>1 DEF Apart, Trusted, Types
    <2>3. reply[b] = << >> /\ \A k \in 1..Len(cmd[b]) : cmd[b][k].op # "read"
      BY <2>1, <2>2, NobodyElse DEF Critical, Awaits
    <2>4. \/ cmd' = cmd
          \/ Enqueue(acc[t].board, w)
      BY <1>3 DEF SendWrite
    <2>5. \A k \in 1..Len(cmd'[b]) : cmd'[b][k].op # "read"
      <3>1. CASE cmd'[b] = cmd[b]
        BY <2>3, <3>1
      <3>2. CASE cmd'[b] = Append(cmd[b], w)
        <4>1. cmd[b] \in Seq(Command)
          BY <2>2 DEF Types
        <4>2. \A k \in 1..Len(cmd'[b]) :
                \/ k \in 1..Len(cmd[b]) /\ cmd'[b][k] = cmd[b][k]
                \/ cmd'[b][k] = w
          BY <3>2, <4>1
        <4> QED
          BY <2>3, <4>2
      <3>3. cmd'[b] = cmd[b] \/ cmd'[b] = Append(cmd[b], w)
        <4>1. cmd' = cmd \/ cmd' = [cmd EXCEPT ![acc[t].board] = Append(@, w)]
          BY <2>4 DEF Enqueue
        <4>2. cmd = [x \in Board |-> cmd[x]]
          BY DEF Types
        <4> HIDE DEF w
        <4> QED
          BY <4>1, <4>2, <2>2
      <3> QED
        BY <3>1, <3>2, <3>3
    <2> QED
      BY <2>1, <2>3, <2>5, Quiet
  <1>4. ASSUME NEW t \in Thread, SendRead(t) PROVE Asked(b)' /\ Answered(b)'
    <2> DEFINE c == [op |-> "read", reg |-> acc[t].reg, val |-> None]
    <2>1. /\ mutex' = mutex /\ opened' = opened /\ late' = late /\ reply' = reply
          /\ acc[t].pc = "send" /\ acc[t].board \in Board
      BY <1>4 DEF SendRead, At, Types
    <2>2. Apart /\ b \in Trusted /\ b \in Board
      BY <2>1 DEF Apart, Trusted, Types
    <2>3. reply[b] = << >> /\ \A k \in 1..Len(cmd[b]) : cmd[b][k].op # "read"
      BY <2>1, <2>2, NobodyElse DEF Critical, Awaits
    <2>4. cmd' = [cmd EXCEPT ![acc[t].board] = Append(@, c)]
      BY <1>4 DEF SendRead, Enqueue
    <2>5. CASE b # acc[t].board
      <3>1. cmd'[b] = cmd[b]
        BY <2>2, <2>4, <2>5 DEF Types
      <3> QED
        BY <2>1, <2>3, <3>1, Quiet
    <2>6. CASE b = acc[t].board
      <3>1. cmd[b] \in Seq(Command) /\ cmd'[b] = Append(cmd[b], c)
        BY <2>2, <2>4, <2>6 DEF Types
      <3>2. \A k \in 1..Len(cmd'[b]) : k = Len(cmd'[b]) \/ cmd'[b][k].op # "read"
        <4>1. \A k \in 1..Len(cmd'[b]) :
                k = Len(cmd'[b]) \/ (k \in 1..Len(cmd[b]) /\ cmd'[b][k] = cmd[b][k])
          BY <3>1
        <4> QED
          BY <2>3, <4>1
      <3>3. Awaits(t, b)'
        <4>1. Go(t, "wait")
          BY <1>4 DEF SendRead
        <4> QED
          BY <2>6, <4>1, GoPc DEF Awaits
      <3> QED
        BY <2>1, <2>3, <3>2, <3>3 DEF Asked, Answered
    <2> QED
      BY <2>5, <2>6
  <1>5. ASSUME NEW t \in Thread, Receive(t) PROVE Asked(b)' /\ Answered(b)'
    <2>1. /\ mutex' = mutex /\ opened' = opened /\ late' = late /\ cmd' = cmd
          /\ acc[t].pc = "wait" /\ acc[t].board \in Board
          /\ reply[acc[t].board] # << >>
          /\ reply' = [reply EXCEPT ![acc[t].board] = Tail(@)]
      BY <1>5 DEF Receive, At, Types
    <2>2. Apart /\ b \in Trusted /\ b \in Board
      BY <2>1 DEF Apart, Trusted, Types
    <2>3. CASE b = acc[t].board
      <3>1. cmd[b] = << >> /\ \E u \in Thread : reply[b] = <<acc[u].seen>>
        BY <2>1, <2>2, <2>3 DEF Awaited, Answered
      <3>2. reply'[b] = << >> /\ cmd'[b] = << >>
        BY <2>1, <2>2, <2>3, <3>1 DEF Types
      <3> QED
        BY <3>2, Quiet
    <2>4. CASE b # acc[t].board
      <3>1. reply'[b] = reply[b]
        BY <2>1, <2>2, <2>4 DEF Types
      <3>2. reply[b] = << >> /\ \A k \in 1..Len(cmd[b]) : cmd[b][k].op # "read"
        BY <2>1, <2>2, <2>4, NobodyElse DEF Critical, Awaits
      <3> QED
        BY <2>1, <3>1, <3>2, Quiet
    <2> QED
      BY <2>3, <2>4
  <1>6. ASSUME NEW t \in Thread, TimeOut(t) PROVE Asked(b)' /\ Answered(b)'
    <2>1. /\ mutex' = mutex /\ opened' = opened /\ late' = late \cup {acc[t].board}
          /\ cmd' = cmd /\ reply' = reply /\ acc[t].pc = "wait"
      BY <1>6 DEF TimeOut, At
    <2>2. Apart /\ b \in Trusted /\ b # acc[t].board
      BY <2>1 DEF Apart, Trusted
    <2>3. reply[b] = << >> /\ \A k \in 1..Len(cmd[b]) : cmd[b][k].op # "read"
      BY <2>1, <2>2, NobodyElse DEF Critical, Awaits
    <2> QED
      BY <2>1, <2>3, Quiet
  <1>7. ASSUME NEW t \in Thread, Unlock(t) PROVE Asked(b)' /\ Answered(b)'
    <2>1. /\ opened' = opened /\ late' = late /\ reply' = reply /\ cmd' = cmd
          /\ acc[t].pc # "wait"
      BY <1>7 DEF Unlock, At
    <2>2. Apart /\ b \in Trusted
      BY <1>7, <2>1 DEF Unlock, Apart, Trusted
    <2>3. \A u \in Thread : Awaits(u, b) => Awaits(u, b)' /\ acc'[u].seen = acc[u].seen
      BY <1>7, <2>1, UnlockPc DEF Awaits
    <2> QED
      BY <2>1, <2>2, <2>3, Untouched DEF Awaited
  <1>8. ASSUME NEW d \in Board, Execute(d) PROVE Asked(b)' /\ Answered(b)'
    <2>1. /\ mutex' = mutex /\ opened' = opened /\ late' = late
          /\ cmd[d] # << >> /\ cmd' = [cmd EXCEPT ![d] = Tail(@)]
      BY <1>8 DEF Execute
    <2>2. Apart /\ b \in Trusted /\ b \in Board
      BY <2>1 DEF Apart, Trusted, Types
    <2>3. Asked(b) /\ Answered(b)
      BY <2>2 DEF Awaited
    <2>4. CASE b # d
      <3>1. cmd'[b] = cmd[b] /\ reply'[b] = reply[b]
        BY <1>8, <2>2, <2>4 DEF Execute, Types
      <3>2. \A u \in Thread : acc[u].board = b => acc'[u] = acc[u]
        BY <1>8, <2>4 DEF Execute
      <3>3. \A u \in Thread : Awaits(u, b) => Awaits(u, b)' /\ acc'[u].seen = acc[u].seen
        BY <3>2 DEF Awaits
      <3> QED
        BY <2>2, <2>3, <3>1, <3>3, Untouched
    <2>5. CASE b = d
      <3>1. /\ cmd[b] \in Seq(Command) /\ cmd[b] # << >> /\ cmd'[b] = Tail(cmd[b])
            /\ Head(cmd[b]) = cmd[b][1] /\ 1 \in 1..Len(cmd[b])
        BY <2>1, <2>2, <2>5 DEF Types
      <3>2. \A k \in 1..Len(cmd'[b]) : /\ k + 1 \in 1..Len(cmd[b]) /\ cmd'[b][k] = cmd[b][k + 1]
                                       /\ Len(cmd'[b]) + 1 = Len(cmd[b])
        BY <3>1
      <3>3. reply[b] = << >>
        BY <2>3, <3>1 DEF Answered
      <3>4. CASE cmd[b][1].op = "write"
        <4>1. reply' = reply /\ acc' = acc
          BY <1>8, <2>5, <3>1, <3>4 DEF Execute
        <4>2. Asked(b)'
          <5> SUFFICES ASSUME NEW k \in 1..Len(cmd'[b]), cmd'[b][k].op = "read"
                       PROVE  /\ k = Len(cmd'[b]) /\ reply'[b] = << >>
                              /\ \E u \in Thread : Awaits(u, b)'
            BY DEF Asked
          <5>1. k + 1 = Len(cmd[b]) /\ \E u \in Thread : Awaits(u, b)
            BY <2>3, <3>2 DEF Asked
          <5>2. k = Len(cmd'[b])
            BY <3>1, <3>2, <5>1
          <5>3. \E u \in Thread : Awaits(u, b)'
            BY <4>1, <5>1 DEF Awaits
          <5> QED
            BY <3>3, <4>1, <5>2, <5>3
        <4> QED
          BY <3>3, <4>1, <4>2 DEF Answered
      <3>5. CASE cmd[b][1].op # "write"
        <4> DEFINE v == regs[b][Head(cmd[b]).reg]
        <4>1. cmd[b][1].op = "read"
          <5>1. cmd[b][1] \in Command
            BY <3>1
          <5> QED
            BY <3>5, <5>1 DEF Command
        <4>2. Len(cmd[b]) = 1 /\ \E u \in Thread : Awaits(u, b)
          BY <2>3, <3>1, <4>1 DEF Asked
        <4>3. cmd'[b] = << >> /\ Len(cmd'[b]) = 0
          <5>1. Tail(cmd[b]) \in Seq(Command) /\ Len(Tail(cmd[b])) = 0
            BY <3>1, <4>2
          <5> QED
            BY <3>1, <5>1, EmptySeq
        <4>4. reply'[b] = <<v>>
          BY <1>8, <2>2, <2>5, <3>1, <3>3, <3>5 DEF Execute, Types
        <4>5. \A u \in Thread : Awaits(u, b) => acc'[u] = [acc[u] EXCEPT !.seen = v]
          BY <1>8, <2>2, <2>5, <3>1, <3>5 DEF Execute, Awaits, At
        <4>6. PICK u \in Thread : Awaits(u, b)
          BY <4>2
        <4>7. acc[u] \in Access
          BY DEF Types
        <4>8. Awaits(u, b)' /\ acc'[u].seen = v
          BY <1>8, <4>5, <4>6, <4>7, ExecutePc DEF Awaits, Access
        <4> QED
          BY <4>3, <4>4, <4>8 DEF Asked, Answered
      <3> QED
        BY <3>4, <3>5
    <2> QED
      BY <2>4, <2>5
  <1>9. ASSUME NEW d \in Board, Change(d) PROVE Asked(b)' /\ Answered(b)'
    BY <1>9 DEF Change, Awaited, Apart, Trusted, Asked, Answered, Awaits
  <1>10. ASSUME NEW d \in Board, InitFPGA(d) PROVE Asked(b)' /\ Answered(b)'
    <2>1. /\ Apart /\ b \in Trusted /\ b \in Board
          /\ reply' = reply /\ acc' = acc /\ cmd' = [cmd EXCEPT ![d] = << >>]
      BY <1>10 DEF InitFPGA, Apart, Trusted, Types
    <2>2. Asked(b) /\ Answered(b)
      BY <2>1 DEF Awaited
    <2>3. CASE b = d
      <3>1. cmd'[b] = << >> /\ Len(cmd'[b]) = 0
        BY <2>1, <2>3 DEF Types
      <3> QED
        BY <2>1, <2>2, <3>1 DEF Asked, Answered, Awaits
    <2>4. CASE b # d
      <3>1. cmd'[b] = cmd[b]
        BY <2>1, <2>4 DEF Types
      <3> QED
        BY <2>1, <2>2, <3>1, Untouched DEF Awaits
    <2> QED
      BY <2>3, <2>4
  <1>11. ASSUME NEW d \in Board, Open(d) PROVE Asked(b)' /\ Answered(b)'
    <2>1. /\ Apart /\ cmd' = cmd /\ acc' = acc /\ b \in Board
          /\ reply' = [reply EXCEPT ![d] = << >>] /\ cmd[d] = << >>
      BY <1>11 DEF Open, Apart, Trusted, Types
    <2>2. CASE b = d
      <3>1. cmd'[b] = << >> /\ Len(cmd'[b]) = 0 /\ reply'[b] = << >>
        BY <2>1, <2>2 DEF Types
      <3> QED
        BY <3>1, Quiet
    <2>3. CASE b # d
      <3>1. b \in Trusted /\ reply'[b] = reply[b]
        BY <1>11, <2>1, <2>3 DEF Open, Trusted, Types
      <3> QED
        BY <2>1, <3>1, Untouched DEF Awaited, Awaits
    <2> QED
      BY <2>2, <2>3
  <1>12. ASSUME Close PROVE FALSE
    BY <1>12 DEF Close, Apart
  <1>13. ASSUME Kill PROVE FALSE
    BY <1>13 DEF Kill, Trusted
  <1>14. ASSUME UNCHANGED vars PROVE Asked(b)' /\ Answered(b)'
    BY <1>14 DEF vars, Awaited, Apart, Trusted, Asked, Answered, Awaits
  <1> QED
    BY <1>1, <1>2, <1>3, <1>4, <1>5, <1>6, <1>7, <1>8, <1>9, <1>10, <1>11, <1>12, <1>13,
       <1>14 DEF Next

-----------------------------------------------------------------------------
LEMMA Invariant == Spec => []IInv
  <1>1. Init => IInv
    <2> SUFFICES ASSUME Init PROVE IInv
      OBVIOUS
    <2>1. OpenedFirst /\ MutualExclusion
      BY DEF Init, OpenedFirst, MutualExclusion, Critical, NoAccess
    <2>2. Awaited
      BY DEF Init, Awaited, Trusted
    <2> QED
      BY <2>1, <2>2, TypesInit DEF IInv
  <1>2. IInv /\ [Next]_vars => IInv'
    BY TypesStep, OpenedFirstStep, ExclusionStep, AwaitedStep DEF IInv
  <1> QED
    BY <1>1, <1>2, PTL DEF Spec

(* Whatever fails, is killed or reset: the mutex and the buffer have their  *)
(* types, only boards that have been opened are accessed, and the answers   *)
(* are values of registers.                                                 *)
THEOREM TypeCorrect == Spec => []TypeOK
  <1>1. IInv => TypeOK
    <2> SUFFICES ASSUME IInv PROVE TypeOK
      OBVIOUS
    <2>1. \A t \in Thread : acc[t].pc # "idle" => acc[t].board \in opened
      BY DEF IInv, Types, OpenedFirst
    <2>2. \A b \in Board : \A k \in 1..Len(reply[b]) : reply[b][k] \in Value
      BY DEF IInv, Types
    <2>3. \A t \in Thread : /\ acc[t].seen \in Value \cup {None}
                            /\ acc[t].pc \in {"idle", "lock", "address", "data", "send", "wait",
                                              "unlock"}
      BY DEF IInv, Types, Access
    <2> QED
      BY <2>1, <2>2, <2>3 DEF IInv, Types, TypeOK, At
  <1> QED
    BY <1>1, Invariant, PTL

(* However many threads read and write however many boards, one of them is  *)
(* between pthread_mutex_lock() and pthread_mutex_unlock(), as long as no   *)
(* board has been deleted.                                                  *)
THEOREM AccessesExclude == Spec => []MutualExclusion
  <1>1. IInv => MutualExclusion
    BY DEF IInv
  <1> QED
    BY <1>1, Invariant, PTL

(* As long as the accesses to a board have not failed, the next answer      *)
(* musb_read() finds is that to the one read under way, whatever the other  *)
(* threads and boards do, and although InitFPGA() resets boards and the     *)
(* process may be killed in the middle of an access.                        *)
THEOREM AnswersAreAwaited == Spec => []AnswersAwaited
  <1>1. IInv => AnswersAwaited
    BY DEF IInv, Awaited, Answered, Awaits, AnswersAwaited, At
  <1> QED
    BY <1>1, Invariant, PTL

-----------------------------------------------------------------------------
(* What Go and GoWith leave alone.                                          *)
LEMMA GoAcc ==
  ASSUME Types, NEW t \in Thread, NEW pc, Go(t, pc)
  PROVE  /\ acc'[t].pc = pc /\ acc'[t].op = acc[t].op /\ acc'[t].board = acc[t].board
         /\ acc'[t].reg = acc[t].reg /\ acc'[t].val = acc[t].val /\ acc'[t].seen = acc[t].seen
         /\ \A u \in Thread \ {t} : acc'[u] = acc[u]
  <1> DEFINE a == [acc[t] EXCEPT !.pc = pc]
  <1>1. acc[t] \in Access
    BY DEF Types
  <1>2. /\ a.pc = pc /\ a.op = acc[t].op /\ a.board = acc[t].board
        /\ a.reg = acc[t].reg /\ a.val = acc[t].val /\ a.seen = acc[t].seen
    BY <1>1 DEF Access
  <1>3. acc' = [acc EXCEPT ![t] = a]
    BY DEF Go
  <1> HIDE DEF a
  <1> QED
    BY <1>2, <1>3 DEF Types

LEMMA GoWithAcc ==
  ASSUME Types, NEW t \in Thread, NEW pc, NEW v, GoWith(t, pc, v)
  PROVE  /\ acc'[t].pc = pc /\ acc'[t].op = acc[t].op /\ acc'[t].board = acc[t].board
         /\ acc'[t].reg = acc[t].reg /\ acc'[t].val = acc[t].val /\ acc'[t].seen = v
         /\ \A u \in Thread \ {t} : acc'[u] = acc[u]
  <1> DEFINE a == [acc[t] EXCEPT !.pc = pc, !.seen = v]
  <1>1. acc[t] \in Access
    BY DEF Types
  <1>2. /\ a.pc = pc /\ a.op = acc[t].op /\ a.board = acc[t].board
        /\ a.reg = acc[t].reg /\ a.val = acc[t].val /\ a.seen = v
    BY <1>1 DEF Access
  <1>3. acc' = [acc EXCEPT ![t] = a]
    BY DEF GoWith
  <1> HIDE DEF a
  <1> QED
    BY <1>2, <1>3 DEF Types

(* A board executes a read for the one thread that waits for it.            *)
LEMMA ExecuteAcc ==
  ASSUME Types, NEW b \in Board, Execute(b), NEW u \in Thread
  PROVE  /\ acc'[u].pc = acc[u].pc /\ acc'[u].op = acc[u].op /\ acc'[u].board = acc[u].board
         /\ acc'[u].reg = acc[u].reg /\ acc'[u].val = acc[u].val
         /\ \/ acc'[u] = acc[u]
            \/ /\ Awaits(u, b) /\ b \in Trusted /\ Head(cmd[b]).op # "write"
               /\ acc'[u].seen = regs[b][Head(cmd[b]).reg]
               /\ reply' = [reply EXCEPT ![b] = Append(@, regs[b][Head(cmd[b]).reg])]
  <1>1. CASE acc' = acc
    BY <1>1
  <1>2. CASE Head(cmd[b]).op # "write"
    <2> DEFINE v == regs[b][Head(cmd[b]).reg]
               a == [acc[u] EXCEPT !.seen = v]
    <2>1. acc[u] \in Access
      BY DEF Types
    <2>2. /\ a.pc = acc[u].pc /\ a.op = acc[u].op /\ a.board = acc[u].board
          /\ a.reg = acc[u].reg /\ a.val = acc[u].val /\ a.seen = v
      BY <2>1 DEF Access
    <2>3. acc'[u] = acc[u] \/ (acc'[u] = a /\ Awaits(u, b) /\ b \in Trusted)
      BY <1>2 DEF Execute, Awaits, At
    <2>4. reply' = [reply EXCEPT ![b] = Append(@, v)]
      BY <1>2 DEF Execute
    <2> HIDE DEF a
    <2> QED
      BY <1>2, <2>2, <2>3, <2>4
  <1> QED
    BY <1>1, <1>2 DEF Execute

LEMMA ProperStep ==
  ASSUME Types, ProperAll, [Next]_vars PROVE ProperAll'
  <1> SUFFICES ASSUME NEW u \in Thread PROVE Proper(acc'[u])
    BY DEF ProperAll, Proper
  <1>1. Proper(acc[u]) /\ None \notin Value
    BY UsbAssumption DEF ProperAll
  <1>2. CASE acc'[u] = acc[u]
    BY <1>1, <1>2
  <1>3. ASSUME NEW t \in Thread, Call(t) PROVE Proper(acc'[u])
    <2>1. CASE u = t
      <3>1. acc'[t] \in {Called("read", b, r, None) : b \in Board, r \in Reg}
                        \cup {Called("write", b, r, v) : b \in Board, r \in Control, v \in Value}
        BY <1>3 DEF Call, Types
      <3> QED
        BY <2>1, <3>1 DEF Called, Proper
    <2> QED
      BY <1>2, <1>3, <2>1, CallPc
  <1>4. ASSUME NEW t \in Thread,
               Lock(t) \/ Address(t) \/ Data(t) \/ SendWrite(t) \/ SendRead(t)
        PROVE  Proper(acc'[u])
    <2>1. PICK pc : Go(t, pc) /\ \/ pc = "send" /\ acc[t].pc = "lock" /\ acc[t].op = "read"
                                 \/ pc = "address" /\ acc[t].pc = "lock" /\ acc[t].op # "read"
                                 \/ pc = "data" /\ acc[t].pc = "address"
                                 \/ pc = "send" /\ acc[t].pc = "data"
                                 \/ pc = "unlock" /\ acc[t].pc = "send"
                                 \/ pc = "wait" /\ acc[t].pc = "send" /\ acc[t].op = "read"
      BY <1>4 DEF Lock, Address, Data, SendWrite, SendRead, At
    <2>2. acc[t].pc # "idle" => acc[t].op \in {"read", "write"}
      BY DEF Types
    <2>3. CASE u = t
      BY <1>1, <2>1, <2>2, <2>3, GoAcc DEF Proper
    <2> QED
      BY <1>2, <2>1, <2>3, GoAcc
  <1>5. ASSUME NEW t \in Thread, Receive(t) \/ TimeOut(t) PROVE Proper(acc'[u])
    <2>1. acc[t].pc = "wait" /\ \E v : GoWith(t, "unlock", v)
      BY <1>5 DEF Receive, TimeOut, At
    <2>2. CASE u = t
      BY <1>1, <2>1, <2>2, GoWithAcc DEF Proper
    <2> QED
      BY <1>2, <2>1, <2>2, GoWithAcc
  <1>6. ASSUME NEW t \in Thread, Unlock(t) PROVE Proper(acc'[u])
    <2>1. acc'[t] = NoAccess
      BY <1>6 DEF Unlock, Types
    <2>2. Proper(NoAccess)
      BY UsbAssumption DEF Proper, NoAccess
    <2> QED
      BY <1>2, <1>6, <2>1, <2>2, UnlockPc
  <1>7. ASSUME NEW b \in Board, Execute(b) PROVE Proper(acc'[u])
    BY <1>1, <1>2, <1>7, ExecuteAcc DEF Proper, Awaits
  <1>8. CASE \E b \in Board : Change(b) \/ InitFPGA(b) \/ Open(b)
    BY <1>2, <1>8 DEF Change, InitFPGA, Open
  <1>9. CASE Close
    BY <1>2, <1>9 DEF Close
  <1>10. CASE Kill
    BY <1>10, UsbAssumption DEF Kill, Proper, NoAccess
  <1>11. CASE UNCHANGED vars
    BY <1>2, <1>11 DEF vars
  <1> QED
    BY <1>3, <1>4, <1>5, <1>6, <1>7, <1>8, <1>9, <1>10, <1>11 DEF Next

(* Nobody but the holder of the mutex touches usb2_buffer.                  *)
LEMMA FilledStep ==
  ASSUME Types, OpenedFirst, MutualExclusion, ProperAll, Filled, [Next]_vars PROVE Filled'
  <1> SUFFICES ASSUME Apart', NEW u \in Thread
      PROVE /\ acc'[u].pc = "data" => buffer'.reg = acc'[u].reg
            /\ acc'[u].pc = "send" /\ acc'[u].op = "write" =>
                 buffer' = [reg |-> acc'[u].reg, val |-> acc'[u].val]
    BY DEF Filled
  <1> DEFINE Same == /\ acc'[u].pc = acc[u].pc /\ acc'[u].reg = acc[u].reg
                     /\ acc'[u].op = acc[u].op /\ acc'[u].val = acc[u].val
  <1>1. CASE Apart /\ Same /\ buffer' = buffer
    BY <1>1 DEF Filled
  <1>2. CASE acc'[u].pc \notin {"data", "send"}
    BY <1>2
  <1>3. ASSUME NEW t \in Thread, Call(t) PROVE Apart /\ (acc'[u].pc = "lock" \/ Same) /\ buffer' = buffer
    <2>1. Apart /\ buffer' = buffer
      BY <1>3 DEF Call, Apart
    <2>2. acc'[t].pc = "lock"
      <3>1. acc'[t] \in {Called("read", b, r, None) : b \in Board, r \in Reg}
                        \cup {Called("write", b, r, v) : b \in Board, r \in Control, v \in Value}
        BY <1>3 DEF Call, Types
      <3> QED
        BY <3>1 DEF Called
    <2> QED
      BY <1>3, <2>1, <2>2, CallPc
  <1>4. ASSUME NEW t \in Thread,
               Lock(t) \/ Address(t) \/ Data(t) \/ SendWrite(t) \/ SendRead(t)
        PROVE  /\ acc'[u].pc = "data" => buffer'.reg = acc'[u].reg
               /\ acc'[u].pc = "send" /\ acc'[u].op = "write" =>
                    buffer' = [reg |-> acc'[u].reg, val |-> acc'[u].val]
    <2>1. Apart
      BY <1>4 DEF Lock, Address, Data, SendWrite, SendRead, Apart
    <2>2. /\ \E pc : Go(t, pc)
          /\ acc[t].pc \in {"lock", "address", "data", "send"}
          /\ Proper(acc[t])
      BY <1>4 DEF Lock, Address, Data, SendWrite, SendRead, ProperAll, At
    <2>3. CASE u # t
      <3>1. acc'[u] = acc[u]
        BY <2>2, <2>3, GoAcc
      <3>2. CASE acc[t].pc = "lock"
        BY <1>1, <1>4, <2>1, <3>1, <3>2 DEF Lock, Address, Data, SendWrite, SendRead, At
      <3>3. CASE acc[t].pc # "lock"
        BY <1>2, <2>1, <2>2, <2>3, <3>1, <3>3 DEF MutualExclusion, Critical
      <3> QED
        BY <3>2, <3>3
    <2>4. CASE u = t
      <3>1. ASSUME Lock(t) PROVE acc'[u].pc = "address" \/ (acc'[u].pc = "send" /\ acc'[u].op = "read")
        <4>1. \/ Go(t, "address")
              \/ Go(t, "send") /\ acc[t].op = "read"
          BY <3>1 DEF Lock
        <4> QED
          BY <2>4, <4>1, GoAcc
      <3>2. CASE Address(t)
        <4>1. Go(t, "data") /\ buffer'.reg = acc[t].reg
          BY <3>2 DEF Address, Types
        <4> QED
          BY <2>4, <4>1, GoAcc
      <3>3. CASE Data(t)
        <4>1. Go(t, "send") /\ buffer' = [buffer EXCEPT !.val = acc[t].val] /\ buffer.reg = acc[t].reg
          BY <2>1, <3>3 DEF Data, Filled, At
        <4>2. buffer' = [reg |-> acc[t].reg, val |-> acc[t].val]
          BY <4>1 DEF Types
        <4> QED
          BY <2>4, <4>1, <4>2, GoAcc
      <3>4. CASE SendWrite(t) \/ SendRead(t)
        <4>1. Go(t, "unlock") \/ Go(t, "wait")
          BY <3>4 DEF SendWrite, SendRead
        <4> QED
          BY <2>4, <4>1, GoAcc
      <3> QED
        BY <1>4, <3>1, <3>2, <3>3, <3>4
    <2> QED
      BY <2>3, <2>4
  <1>5. ASSUME NEW t \in Thread, Receive(t) \/ TimeOut(t)
        PROVE Apart /\ (acc'[u].pc = "unlock" \/ Same) /\ buffer' = buffer
    <2>1. Apart /\ buffer' = buffer /\ \E v : GoWith(t, "unlock", v)
      BY <1>5 DEF Receive, TimeOut, Apart
    <2> QED
      BY <2>1, GoWithAcc
  <1>6. ASSUME NEW t \in Thread, Unlock(t) PROVE Apart /\ (acc'[u].pc = "idle" \/ Same) /\ buffer' = buffer
    <2>1. Apart /\ buffer' = buffer
      BY <1>6 DEF Unlock, Apart
    <2> QED
      BY <1>6, <2>1, UnlockPc
  <1>7. ASSUME NEW b \in Board, Execute(b) PROVE Apart /\ Same /\ buffer' = buffer
    <2>1. Apart /\ buffer' = buffer
      BY <1>7 DEF Execute, Apart
    <2> QED
      BY <1>7, <2>1, ExecuteAcc
  <1>8. CASE \E b \in Board : Change(b) \/ InitFPGA(b) \/ Open(b)
    BY <1>1, <1>8 DEF Change, InitFPGA, Open, Apart
  <1>9. CASE Close
    BY <1>9 DEF Close, Apart
  <1>10. CASE Kill
    BY <1>2, <1>10 DEF Kill, NoAccess
  <1>11. CASE UNCHANGED vars
    BY <1>1, <1>11 DEF vars, Apart
  <1> QED
    BY <1>1, <1>2, <1>3, <1>4, <1>5, <1>6, <1>7, <1>8, <1>9, <1>10, <1>11 DEF Next

(* The reads under way and the answers are those of the thread that waits.  *)
LEMMA FetchedStep ==
  ASSUME IInv, ProperAll, Fetched, [Next]_vars PROVE Fetched'
  <1> SUFFICES ASSUME Apart', NEW u \in Thread, acc'[u].pc = "wait"
      PROVE /\ acc'[u].board \in Trusted' => \A k \in 1..Len(cmd'[acc'[u].board]) :
                 cmd'[acc'[u].board][k].op = "read" => cmd'[acc'[u].board][k].reg = acc'[u].reg
            /\ acc'[u].seen # None => acc'[u].board \in Trusted' /\ reply'[acc'[u].board] # << >>
    BY DEF Fetched
  <1> DEFINE d == acc[u].board
             Reads(c) == \A k \in 1..Len(c) : c[k].op = "read" => c[k].reg = acc[u].reg
             Goal == /\ d \in Trusted' => Reads(cmd'[d])
                     /\ acc'[u].seen # None => d \in Trusted' /\ reply'[d] # << >>
             Same == acc'[u].board = d /\ acc'[u].reg = acc[u].reg
  <1>a. Types /\ OpenedFirst /\ MutualExclusion /\ Awaited
    BY DEF IInv
  <1>b. Same /\ Goal =>
            /\ acc'[u].board \in Trusted' => \A k \in 1..Len(cmd'[acc'[u].board]) :
                 cmd'[acc'[u].board][k].op = "read" => cmd'[acc'[u].board][k].reg = acc'[u].reg
            /\ acc'[u].seen # None => acc'[u].board \in Trusted' /\ reply'[acc'[u].board] # << >>
    OBVIOUS
  <1> SUFFICES Same /\ Goal
    BY <1>b
  <1>c. ASSUME Apart, acc[u].pc = "wait"
        PROVE  /\ d \in Board
               /\ d \in Trusted => Reads(cmd[d])
               /\ acc[u].seen # None => d \in Trusted /\ reply[d] # << >>
               /\ \A t \in Thread : acc[t].pc \in Critical => t = u
    BY <1>a, <1>c DEF Fetched, MutualExclusion, Critical, Types
  <1>d. ASSUME Apart, acc'[u] = acc[u], reply' = reply, cmd' = cmd, Trusted' = Trusted
        PROVE  Same /\ Goal
    BY <1>c, <1>d
  <1>1. ASSUME NEW t \in Thread, Call(t) PROVE Same /\ Goal
    <2>1. Apart /\ reply' = reply /\ cmd' = cmd /\ Trusted' = Trusted
      BY <1>1 DEF Call, Apart, Trusted
    <2>2. acc'[u] = acc[u]
      BY <1>1, <1>a, CallPc
    <2> QED
      BY <1>d, <2>1, <2>2
  <1>2. ASSUME NEW t \in Thread, Lock(t) \/ Address(t) \/ Data(t) PROVE Same /\ Goal
    <2>1. Apart /\ reply' = reply /\ cmd' = cmd /\ Trusted' = Trusted
      BY <1>2 DEF Lock, Address, Data, Apart, Trusted
    <2>2. Go(t, "address") \/ Go(t, "data") \/ Go(t, "send")
      BY <1>2 DEF Lock, Address, Data
    <2>3. acc'[u] = acc[u]
      BY <1>a, <2>2, GoAcc
    <2> QED
      BY <1>d, <2>1, <2>3
  <1>3. ASSUME NEW t \in Thread, SendWrite(t) PROVE FALSE
    <2>1. Apart /\ Go(t, "unlock") /\ acc[t].pc = "send"
      BY <1>3 DEF SendWrite, Apart, At
    <2>2. u # t /\ acc'[u] = acc[u]
      BY <1>a, <2>1, GoAcc
    <2> QED
      BY <1>c, <2>1, <2>2 DEF Critical
  <1>4. ASSUME NEW t \in Thread, SendRead(t) PROVE Same /\ Goal
    <2> DEFINE c == [op |-> "read", reg |-> acc[t].reg, val |-> None]
    <2>1. /\ Apart /\ Go(t, "wait") /\ acc[t].pc = "send" /\ reply' = reply
          /\ Trusted' = Trusted /\ acc[t].board \in Board
          /\ cmd' = [cmd EXCEPT ![acc[t].board] = Append(@, c)]
      BY <1>4, <1>a DEF SendRead, Enqueue, Apart, Trusted, At, Types
    <2>2. u = t
      <3>1. u # t => acc'[u] = acc[u]
        BY <1>a, <2>1, GoAcc
      <3> QED
        BY <1>c, <2>1, <3>1 DEF Critical
    <2>3. acc'[u].seen = acc[u].seen /\ Same
      BY <1>a, <2>1, <2>2, GoAcc
    <2>4. acc[u].seen = None
      BY <2>1, <2>2 DEF ProperAll, Proper
    <2>5. ASSUME d \in Trusted PROVE Reads(cmd'[d])
      <3>1. ~Awaits(t, d) /\ acc[t].pc \in Critical
        BY <2>1 DEF Awaits, Critical
      <3>2. \A k \in 1..Len(cmd[d]) : cmd[d][k].op # "read"
        BY <1>a, <2>1, <2>5, <3>1, NobodyElse
      <3>3. cmd[d] \in Seq(Command) /\ cmd'[d] = Append(cmd[d], c)
        BY <1>a, <2>1, <2>2 DEF Types
      <3>4. \A k \in 1..Len(cmd'[d]) :
              cmd'[d][k] = c \/ (k \in 1..Len(cmd[d]) /\ cmd'[d][k] = cmd[d][k])
        BY <3>3
      <3> QED
        BY <2>2, <3>2, <3>4
    <2> QED
      BY <2>1, <2>3, <2>4, <2>5
  <1>5. ASSUME NEW t \in Thread, Receive(t) \/ TimeOut(t) PROVE FALSE
    <2>1. Apart /\ acc[t].pc = "wait" /\ \E v : GoWith(t, "unlock", v)
      BY <1>5 DEF Receive, TimeOut, Apart, At
    <2>2. u # t /\ acc'[u] = acc[u]
      BY <1>a, <2>1, GoWithAcc
    <2> QED
      BY <1>c, <2>1, <2>2 DEF Critical
  <1>6. ASSUME NEW t \in Thread, Unlock(t) PROVE Same /\ Goal
    <2>1. Apart /\ reply' = reply /\ cmd' = cmd /\ Trusted' = Trusted
      BY <1>6 DEF Unlock, Apart, Trusted
    <2>2. acc'[u] = acc[u]
      BY <1>6, <1>a, UnlockPc
    <2> QED
      BY <1>d, <2>1, <2>2
  <1>7. ASSUME NEW b \in Board, Execute(b) PROVE Same /\ Goal
    <2>1. /\ Apart /\ Trusted' = Trusted /\ cmd[b] # << >>
          /\ cmd' = [cmd EXCEPT ![b] = Tail(@)]
      BY <1>7 DEF Execute, Apart, Trusted
    <2>2. Same /\ acc[u].pc = "wait"
      BY <1>7, <1>a, ExecuteAcc
    <2>3. ASSUME d \in Trusted PROVE Reads(cmd'[d])
      <3>1. CASE d # b
        <4>1. cmd'[d] = cmd[d]
          BY <1>a, <1>c, <2>1, <2>2, <3>1 DEF Types
        <4> QED
          BY <1>c, <2>1, <2>2, <2>3, <4>1
      <3>2. CASE d = b
        <4>1. cmd[d] \in Seq(Command) /\ cmd[d] # << >> /\ cmd'[d] = Tail(cmd[d])
          BY <1>a, <2>1, <3>2 DEF Types
        <4> HIDE DEF d
        <4>2. \A k \in 1..Len(cmd'[d]) : k + 1 \in 1..Len(cmd[d]) /\ cmd'[d][k] = cmd[d][k + 1]
          BY <4>1
        <4> USE DEF d
        <4> QED
          BY <1>c, <2>1, <2>2, <2>3, <4>2
      <3> QED
        BY <3>1, <3>2
    <2>4. ASSUME acc'[u].seen # None PROVE d \in Trusted /\ reply'[d] # << >>
      <3>1. CASE acc'[u] = acc[u]
        <4>1. d \in Trusted /\ reply[d] # << >> /\ d \in Board
          BY <1>c, <2>1, <2>2, <2>4, <3>1
        <4>2. cmd[d] = << >>
          BY <1>a, <2>1, <4>1 DEF Awaited, Answered
        <4>3. reply'[d] = reply[d]
          BY <1>7, <1>a, <2>1, <4>1, <4>2 DEF Execute, Types
        <4> QED
          BY <4>1, <4>3
      <3>2. CASE acc'[u] # acc[u]
        <4> DEFINE v == regs[b][Head(cmd[b]).reg]
        <4>1. /\ Awaits(u, b) /\ b \in Trusted
              /\ reply' = [reply EXCEPT ![b] = Append(@, v)]
          BY <1>7, <1>a, <3>2, ExecuteAcc
        <4>2. d = b /\ reply[b] \in Seq(Value) /\ reply'[b] = Append(reply[b], v)
          BY <1>a, <4>1 DEF Awaits, Types
        <4>3. reply'[b] # << >>
          BY <4>2
        <4> QED
          BY <4>1, <4>2, <4>3
      <3> QED
        BY <3>1, <3>2
    <2> QED
      BY <2>1, <2>2, <2>3, <2>4
  <1>8. ASSUME NEW b \in Board, Change(b) PROVE Same /\ Goal
    <2>1. Apart /\ acc' = acc /\ reply' = reply /\ cmd' = cmd /\ Trusted' = Trusted
      BY <1>8 DEF Change, Apart, Trusted
    <2> QED
      BY <1>d, <2>1
  <1>9. ASSUME NEW b \in Board, InitFPGA(b) PROVE Same /\ Goal
    <2>1. /\ Apart /\ acc' = acc /\ reply' = reply /\ Trusted' = Trusted
          /\ cmd' = [cmd EXCEPT ![b] = << >>]
      BY <1>9 DEF InitFPGA, Apart, Trusted
    <2>2. cmd'[d] = cmd[d] \/ cmd'[d] = << >>
      BY <1>a, <1>c, <2>1 DEF Types
    <2> QED
      BY <1>c, <2>1, <2>2
  <1>10. ASSUME NEW b \in Board, Open(b) PROVE FALSE
    BY <1>a, <1>10 DEF Open, OpenedFirst
  <1>11. CASE Close
    BY <1>11 DEF Close, Apart
  <1>12. CASE Kill
    BY <1>12 DEF Kill, NoAccess
  <1>13. CASE UNCHANGED vars
    <2>1. Apart /\ acc' = acc /\ reply' = reply /\ cmd' = cmd /\ Trusted' = Trusted
      BY <1>13 DEF vars, Apart, Trusted
    <2> QED
      BY <1>d, <2>1
  <1> QED
    BY <1>1, <1>2, <1>3, <1>4, <1>5, <1>6, <1>7, <1>8, <1>9, <1>10, <1>11, <1>12, <1>13
    DEF Next

LEMMA Attribution == Spec => []JInv
  <1>1. Init => ProperAll /\ Filled /\ Fetched
    BY UsbAssumption DEF Init, ProperAll, Filled, Fetched, Proper, NoAccess
  <1>2. JInv /\ [Next]_vars => (ProperAll /\ Filled /\ Fetched)'
    BY ProperStep, FilledStep, FetchedStep DEF JInv, IInv
  <1>3. JInv <=> IInv /\ ProperAll /\ Filled /\ Fetched
    BY DEF JInv
  <1>4. ASSUME IInv, ProperAll /\ Filled /\ Fetched, [Next]_vars
        PROVE  (ProperAll /\ Filled /\ Fetched)'
    BY <1>2, <1>3, <1>4
  <1> QED
    BY <1>1, <1>3, <1>4, Invariant, PTL DEF Spec

-----------------------------------------------------------------------------
(* Every nonempty set of natural numbers has a least element, and every     *)
(* nonempty set of positions of a sequence a greatest one.                  *)
LEMMA Least ==
  ASSUME NEW T, T \subseteq Nat, T # {}
  PROVE  \E n \in T : \A m \in T : n <= m
  <1>1. PICK R : IsWellFoundedOn(R, Nat) /\ \A x, y \in Nat : x < y => <<x, y>> \in R
    <2>1. \A x, y \in Nat : x < y => <<x, y>> \in OpToRel(<, Nat)
      BY DEF OpToRel
    <2> QED
      BY <2>1, NatLessThanWellFounded
  <1>2. PICK x \in T : \A y \in T : ~(<<y, x>> \in R)
    BY <1>1, WFMin
  <1>3. \A y \in T : ~(y < x)
    BY <1>1, <1>2
  <1> QED
    BY <1>3

LEMMA Greatest ==
  ASSUME NEW n \in Nat, NEW S, S \subseteq 1..n, S # {}
  PROVE  Max(S) \in S /\ \A k \in S : k <= Max(S)
  <1> DEFINE T == {m \in 0..n : n - m \in S}
  <1>1. \A k \in S : k \in 1..n /\ n - k \in 0..n /\ n - (n - k) = k
    OBVIOUS
  <1>2. ASSUME NEW k \in S PROVE n - k \in T
    <2>1. n - (n - k) \in S
      BY <1>1, Zenon
    <2> QED
      BY <1>1, <2>1
  <1>3. T \subseteq Nat
    OBVIOUS
  <1>4. PICK m \in T : \A l \in T : m <= l
    <2> HIDE DEF T
    <2> QED
      BY <1>2, <1>3, Least
  <1>5. n - m \in S /\ m \in 0..n
    OBVIOUS
  <1>6. ASSUME NEW l \in S PROVE l <= n - m
    <2>1. m <= n - l
      BY <1>2, <1>4
    <2> QED
      BY <1>1, <1>5, <2>1
  <1> QED
    BY <1>5, <1>6 DEF Max

-----------------------------------------------------------------------------
(* What a queue of commands makes of the registers of a board.              *)
Writes(cs, r) == {k \in 1..Len(cs) : cs[k].op = "write" /\ cs[k].reg = r /\ cs[k].val # None}
After(rs, cs) ==
    [r \in Reg |-> IF Writes(cs, r) = {} THEN rs[r] ELSE cs[Max(Writes(cs, r))].val]

LEMMA EffectiveIsAfter == \A b : Effective(b) = After(regs[b], cmd[b])
  BY DEF Effective, Pending, After, Writes

(* The last write to a register decides.                                    *)
LEMMA LastWrite ==
  ASSUME NEW cs \in Seq(Command), NEW r \in Reg, NEW rs
  PROVE  /\ Writes(cs, r) = {} => After(rs, cs)[r] = rs[r]
         /\ \A k \in Writes(cs, r) :
              (\A l \in Writes(cs, r) : l <= k) => After(rs, cs)[r] = cs[k].val
         /\ Writes(cs, r) # {} => \E k \in Writes(cs, r) : \A l \in Writes(cs, r) : l <= k
  <1> DEFINE S == Writes(cs, r)
  <1>1. S \subseteq 1..Len(cs) /\ Len(cs) \in Nat
    BY DEF Writes
  <1>2. S # {} => Max(S) \in S /\ \A k \in S : k <= Max(S)
    BY <1>1, Greatest
  <1>3. After(rs, cs)[r] = IF S = {} THEN rs[r] ELSE cs[Max(S)].val
    BY DEF After
  <1>4. ASSUME NEW k \in S, \A l \in S : l <= k PROVE Max(S) = k
    BY <1>1, <1>2, <1>4
  <1> HIDE DEF S
  <1> QED
    BY <1>2, <1>3, <1>4 DEF S

LEMMA AfterType ==
  ASSUME NEW cs \in Seq(Command), NEW rs \in [Reg -> Value]
  PROVE  After(rs, cs) \in [Reg -> Value]
  <1>1. ASSUME NEW r \in Reg PROVE After(rs, cs)[r] \in Value
    <2>1. CASE Writes(cs, r) = {}
      BY <2>1, LastWrite
    <2>2. CASE Writes(cs, r) # {}
      <3>1. PICK k \in Writes(cs, r) : After(rs, cs)[r] = cs[k].val
        BY <2>2, LastWrite
      <3>2. k \in 1..Len(cs) /\ cs[k].val # None
        BY DEF Writes
      <3>3. cs[k] \in Command
        BY <3>2
      <3> QED
        BY <3>1, <3>2, <3>3 DEF Command
    <2> QED
      BY <2>1, <2>2
  <1> QED
    BY <1>1 DEF After

(* A write that joins the queue takes effect at once, a read never.         *)
LEMMA AfterAppend ==
  ASSUME NEW cs \in Seq(Command), NEW rs, NEW c \in Command
  PROVE  /\ c.op = "write" /\ c.reg \in Reg /\ c.val # None =>
              After(rs, Append(cs, c)) = [After(rs, cs) EXCEPT ![c.reg] = c.val]
         /\ c.op # "write" => After(rs, Append(cs, c)) = After(rs, cs)
  <1> DEFINE ds == Append(cs, c)
             Hits(r) == c.op = "write" /\ c.reg = r /\ c.val # None
  <1>1. /\ ds \in Seq(Command) /\ Len(ds) = Len(cs) + 1 /\ Len(cs) \in Nat
        /\ ds[Len(cs) + 1] = c /\ \A k \in 1..Len(cs) : ds[k] = cs[k]
    OBVIOUS
  <1> HIDE DEF ds
  <1>2. ASSUME NEW r \in Reg PROVE After(rs, ds)[r] = IF Hits(r) THEN c.val ELSE After(rs, cs)[r]
    <2>1. CASE Hits(r)
      <3>1. /\ Len(cs) + 1 \in Writes(ds, r)
            /\ \A l \in Writes(ds, r) : l <= Len(cs) + 1
        BY <1>1, <2>1 DEF Writes
      <3> QED
        BY <1>1, <2>1, <3>1, LastWrite
    <2>2. CASE ~Hits(r)
      <3>1. Writes(ds, r) = Writes(cs, r)
        BY <1>1, <2>2 DEF Writes
      <3>2. CASE Writes(cs, r) = {}
        BY <1>1, <2>2, <3>1, <3>2, LastWrite
      <3>3. CASE Writes(cs, r) # {}
        <4>1. PICK k \in Writes(cs, r) : \A l \in Writes(cs, r) : l <= k
          BY <3>3, LastWrite
        <4>2. After(rs, cs)[r] = cs[k].val /\ After(rs, ds)[r] = ds[k].val
          BY <1>1, <3>1, <4>1, LastWrite
        <4>3. ds[k] = cs[k]
          BY <1>1 DEF Writes
        <4> QED
          BY <2>2, <4>2, <4>3
      <3> QED
        BY <3>2, <3>3
    <2> QED
      BY <2>1, <2>2
  <1>3. /\ After(rs, ds) = [r \in Reg |-> After(rs, ds)[r]]
        /\ After(rs, cs) = [r \in Reg |-> After(rs, cs)[r]]
    BY DEF After
  <1> QED
    BY <1>2, <1>3 DEF ds

(* The board may execute what is in front without anybody noticing.         *)
LEMMA AfterTail ==
  ASSUME NEW cs \in Seq(Command), cs # << >>, NEW rs \in [Reg -> Value], NEW rs2,
         cs[1].op = "write" =>
           rs2 = IF cs[1].reg # None /\ cs[1].val # None
                 THEN [rs EXCEPT ![cs[1].reg] = cs[1].val] ELSE rs,
         cs[1].op # "write" => rs2 = rs
  PROVE  After(rs2, Tail(cs)) = After(rs, cs)
  <1> DEFINE ds == Tail(cs)
  <1>1. /\ ds \in Seq(Command) /\ Len(ds) = Len(cs) - 1 /\ Len(cs) \in Nat /\ Len(cs) >= 1
        /\ \A k \in 1..Len(ds) : ds[k] = cs[k + 1]
    OBVIOUS
  <1>x. cs[1] \in Command
    BY <1>1
  <1> HIDE DEF ds
  <1>2. ASSUME NEW r \in Reg PROVE After(rs2, ds)[r] = After(rs, cs)[r]
    <2>0. r # None /\ (cs[1].op = "write" => rs2[r] =
            IF cs[1].reg = r /\ cs[1].val # None THEN cs[1].val ELSE rs[r])
      BY UsbAssumption
    <2>1. \A k \in 1..Len(ds) : k \in Writes(ds, r) <=> k + 1 \in Writes(cs, r)
      BY <1>1 DEF Writes
    <2>2. CASE Writes(ds, r) # {}
      <3>1. PICK k \in Writes(ds, r) : \A l \in Writes(ds, r) : l <= k
        BY <1>1, <2>2, LastWrite
      <3>2. k \in 1..Len(ds) /\ k + 1 \in Writes(cs, r)
        BY <2>1 DEF Writes
      <3>3. ASSUME NEW l \in Writes(cs, r) PROVE l <= k + 1
        <4>1. l \in 1..Len(cs) /\ (l = 1 \/ l - 1 \in 1..Len(ds))
          BY <1>1 DEF Writes
        <4>2. l # 1 => l - 1 \in Writes(ds, r)
          BY <2>1, <4>1
        <4> QED
          BY <3>1, <3>2, <4>1, <4>2
      <3>4. After(rs, cs)[r] = cs[k + 1].val
        BY <3>2, <3>3, LastWrite
      <3>5. After(rs2, ds)[r] = ds[k].val
        BY <1>1, <3>1, LastWrite
      <3> QED
        BY <1>1, <3>2, <3>4, <3>5
    <2>3. CASE Writes(ds, r) = {}
      <3>1. After(rs2, ds)[r] = rs2[r]
        BY <1>1, <2>3, LastWrite
      <3>2. \A l \in Writes(cs, r) : l = 1
        <4>1. \A l \in Writes(cs, r) : l \in 1..Len(cs) /\ (l = 1 \/ l - 1 \in 1..Len(ds))
          BY <1>1 DEF Writes
        <4> QED
          BY <2>1, <2>3, <4>1
      <3>3. CASE 1 \in Writes(cs, r)
        <4>1. After(rs, cs)[r] = cs[1].val
          BY <3>2, <3>3, LastWrite
        <4>2. cs[1].op = "write" /\ cs[1].reg = r /\ cs[1].val # None
          BY <3>3 DEF Writes
        <4> QED
          BY <2>0, <3>1, <4>1, <4>2
      <3>4. CASE 1 \notin Writes(cs, r)
        <4>1. Writes(cs, r) = {}
          BY <3>2, <3>4
        <4>2. ~(cs[1].op = "write" /\ cs[1].reg = r /\ cs[1].val # None)
          BY <1>1, <3>4 DEF Writes
        <4>3. rs2[r] = rs[r]
          BY <2>0, <4>2
        <4> QED
          BY <3>1, <4>1, <4>3, LastWrite
      <3> QED
        BY <3>3, <3>4
    <2> QED
      BY <2>2, <2>3
  <1>3. After(rs2, ds) = [r \in Reg |-> After(rs2, ds)[r]] /\ After(rs, cs) = [r \in Reg |-> After(rs, cs)[r]]
    BY DEF After
  <1> QED
    BY <1>2, <1>3 DEF ds

-----------------------------------------------------------------------------
(* The refinement, step by step.                                            *)
LEMMA ViewsStep ==
  ASSUME NEW t \in Thread, \A u \in Thread \ {t} : acc'[u] = acc[u]
  PROVE  Views' = [Views EXCEPT ![t] = View(t)']
  <1>1. \A u \in Thread \ {t} : View(u)' = View(u)
    BY DEF View, At
  <1> QED
    BY <1>1 DEF Views

LEMMA ViewsStay ==
  ASSUME \A u \in Thread : View(u)' = View(u) PROVE Views' = Views
  BY DEF Views

LEMMA RegistersStay ==
  ASSUME UNCHANGED <<regs, cmd>> PROVE Registers' = Registers
  BY EffectiveIsAfter DEF Registers, Effective, Pending

LEMMA Quietly ==
  ASSUME Registers' = Registers, Views' = Views, Reliable' = Reliable, Apart' = Apart
  PROVE  UNCHANGED Promise!vars
  BY DEF Promise!vars

LEMMA ReliableStay ==
  ASSUME UNCHANGED <<mutex, opened, late>> PROVE Reliable' = Reliable /\ Apart' = Apart
  BY DEF Reliable, Apart, Trusted

LEMMA CallPromised ==
  ASSUME Types, ProperAll, NEW t \in Thread, Call(t) PROVE Promise!Call(t)
  <1>1. Registers' = Registers /\ Reliable' = Reliable /\ Apart' = Apart
    BY RegistersStay, ReliableStay DEF Call
  <1>2. acc[t].pc = "idle" /\ \A u \in Thread \ {t} : acc'[u] = acc[u]
    BY CallPc DEF Call, At
  <1>3. Views[t].pc = "idle"
    BY <1>2 DEF Views, View, At, ProperAll, Proper, NoAccess
  <1>4. Views' = [Views EXCEPT ![t] = View(t)'] /\ Views'[t] = View(t)'
    BY <1>2, ViewsStep DEF Views
  <1>5. View(t)' \in Promise!Called
    <2>1. acc'[t] \in {Called("read", b, r, None) : b \in Board, r \in Reg}
                      \cup {Called("write", b, r, v) : b \in Board, r \in Control, v \in Value}
      BY DEF Call, Types
    <2>2. /\ acc'[t].pc = "lock" /\ acc'[t].op \in {"read", "write"} /\ acc'[t].board \in Board
          /\ acc'[t].reg \in Reg /\ acc'[t].val \in Value \cup {None} /\ acc'[t].seen = None
      BY <2>1 DEF Called, Reg
    <2> QED
      BY <2>2 DEF View, At, Promise!Called
  <1> QED
    BY <1>1, <1>3, <1>4, <1>5 DEF Promise!Call

(* Until the command is sent nothing has happened.                          *)
LEMMA BeforeSending ==
  ASSUME JInv, NEW t \in Thread, Lock(t) \/ Address(t) \/ Data(t) \/ SendRead(t), Apart, Apart'
  PROVE  UNCHANGED Promise!vars
  <1>1. Types /\ Proper(acc[t])
    BY DEF JInv, IInv, ProperAll
  <1>2. Reliable' = Reliable
    BY DEF Lock, Address, Data, SendRead, Reliable, Trusted
  <1>3. Registers' = Registers
    <2>1. CASE Lock(t) \/ Address(t) \/ Data(t)
      BY <2>1, RegistersStay DEF Lock, Address, Data
    <2>2. CASE SendRead(t)
      <3> DEFINE c == [op |-> "read", reg |-> acc[t].reg, val |-> None]
      <3>1. regs' = regs /\ cmd' = [cmd EXCEPT ![acc[t].board] = Append(@, c)]
        BY <2>2 DEF SendRead, Enqueue
      <3>2. c \in Command
        BY <1>1, <2>2 DEF SendRead, At, Types, Command
      <3>3. c.op # "write"
        OBVIOUS
      <3> HIDE DEF c
      <3>4. ASSUME NEW b \in Board PROVE Effective(b)' = Effective(b)
        <4>1. cmd[b] \in Seq(Command) /\ (cmd'[b] = cmd[b] \/ cmd'[b] = Append(cmd[b], c))
          BY <1>1, <3>1 DEF Types
        <4>2. After(regs[b], cmd'[b]) = After(regs[b], cmd[b])
          BY <3>2, <3>3, <4>1, AfterAppend
        <4>3. Effective(b)' = After(regs'[b], cmd'[b])
          BY DEF Effective, Pending, After, Writes
        <4> QED
          BY <3>1, <4>2, <4>3, EffectiveIsAfter
      <3> QED
        BY <3>4 DEF Registers
    <2> QED
      BY <2>1, <2>2
  <1>4. Views' = Views
    <2>1. PICK pc \in {"address", "data", "send", "wait"} : Go(t, pc)
      BY DEF Lock, Address, Data, SendRead
    <2>2. acc[t].pc \in {"lock", "address", "data", "send"} /\ acc[t].seen = None
      BY <1>1 DEF Lock, Address, Data, SendRead, At, Proper
    <2>3. View(t)' = View(t)
      BY <1>1, <2>1, <2>2, GoAcc DEF View, At
    <2>4. \A u \in Thread \ {t} : View(u)' = View(u)
      BY <1>1, <2>1, GoAcc DEF View, At
    <2> QED
      BY <2>3, <2>4, ViewsStay
  <1> QED
    BY <1>2, <1>3, <1>4, Quietly

(* An access is done, with an answer.                                       *)
LEMMA AnswerGiven ==
  ASSUME NEW t, NEW a
  PROVE  [View(t) EXCEPT !.pc = "done", !.answer = a]
         = [pc |-> "done", op |-> acc[t].op, board |-> acc[t].board, reg |-> acc[t].reg,
            val |-> acc[t].val, answer |-> a]
  <1> DEFINE w == View(t)
             x == [w EXCEPT !.pc = "done", !.answer = a]
  <1>1. PICK p : w = [pc |-> p, op |-> acc[t].op, board |-> acc[t].board, reg |-> acc[t].reg,
                      val |-> acc[t].val, answer |-> acc[t].seen]
    BY Zenon DEF View
  <1> HIDE DEF w
  <1>2. w \in [pc : {p}, op : {acc[t].op}, board : {acc[t].board}, reg : {acc[t].reg},
               val : {acc[t].val}, answer : {acc[t].seen}]
    BY <1>1
  <1>3. x \in [pc : {"done"}, op : {acc[t].op}, board : {acc[t].board}, reg : {acc[t].reg},
               val : {acc[t].val}, answer : {a}]
    BY <1>2
  <1> HIDE DEF x
  <1>4. x = [pc |-> "done", op |-> acc[t].op, board |-> acc[t].board, reg |-> acc[t].reg,
             val |-> acc[t].val, answer |-> a]
    BY <1>3
  <1> QED
    BY <1>4 DEF x, w

LEMMA DoneWith ==
  ASSUME NEW t \in Thread, NEW a, acc'[t].pc = "unlock", acc'[t].seen = a,
         acc'[t].op = acc[t].op, acc'[t].board = acc[t].board,
         acc'[t].reg = acc[t].reg, acc'[t].val = acc[t].val,
         \A u \in Thread \ {t} : acc'[u] = acc[u]
  PROVE  Promise!Done(t, a)
  <1>1. Views' = [Views EXCEPT ![t] = View(t)'] /\ Views[t] = View(t)
    BY ViewsStep DEF Views
  <1>2. View(t)' = [pc |-> "done", op |-> acc[t].op, board |-> acc[t].board,
                    reg |-> acc[t].reg, val |-> acc[t].val, answer |-> a]
    BY DEF View, At
  <1>3. [View(t) EXCEPT !.pc = "done", !.answer = a] = View(t)'
    BY <1>2, AnswerGiven, Zenon
  <1> QED
    BY <1>1, <1>3 DEF Promise!Done, Views

LEMMA FailPromised ==
  ASSUME JInv, NEW t \in Thread, Apart, Apart', acc[t].pc \in {"send", "wait"},
         regs' = regs, cmd' = cmd, opened' = opened, late' = late \cup {acc[t].board},
         acc'[t].pc = "unlock", acc'[t].seen = None,
         acc'[t].op = acc[t].op, acc'[t].board = acc[t].board,
         acc'[t].reg = acc[t].reg, acc'[t].val = acc[t].val,
         \A u \in Thread \ {t} : acc'[u] = acc[u]
  PROVE  Promise!Fail(t)
  <1>1. Registers' = Registers
    BY RegistersStay
  <1>2. Views[t].pc \in {"called", "done"} /\ Views[t].board = acc[t].board
    BY DEF Views, View, At
  <1>3. Reliable' = Reliable \ {Views[t].board} /\ Apart' = Apart
    BY <1>2 DEF Reliable, Trusted
  <1>4. Promise!Done(t, None)
    BY DoneWith
  <1> QED
    BY <1>1, <1>2, <1>3, <1>4 DEF Promise!Fail

(* musb_write() of a write is the moment it has its effect, or fails.       *)
LEMMA SendWritePromised ==
  ASSUME JInv, NEW t \in Thread, SendWrite(t), Apart, Apart'
  PROVE  Promise!Write(t) \/ Promise!Fail(t)
  <1>1. Types /\ Proper(acc[t]) /\ Filled
    BY DEF JInv, IInv, ProperAll
  <1>2. /\ acc[t].pc = "send" /\ acc[t].op = "write" /\ acc[t].seen = None /\ acc[t].val \in Value
        /\ acc[t].board \in Board /\ acc[t].reg \in Reg /\ Go(t, "unlock")
        /\ regs' = regs /\ opened' = opened
    BY <1>1 DEF SendWrite, At, Proper, Types
  <1>3. CASE /\ Enqueue(acc[t].board, [op |-> "write", reg |-> buffer.reg, val |-> buffer.val])
             /\ UNCHANGED <<late, left>>
    <2> DEFINE c == [op |-> "write", reg |-> acc[t].reg, val |-> acc[t].val]
    <2>1. [op |-> "write", reg |-> buffer.reg, val |-> buffer.val] = c
      BY <1>1, <1>2 DEF Filled
    <2>2. cmd' = [cmd EXCEPT ![acc[t].board] = Append(@, c)]
      BY <1>3, <2>1 DEF Enqueue
    <2>3. /\ c \in Command /\ c.op = "write" /\ c.reg = acc[t].reg /\ c.val = acc[t].val
          /\ c.reg \in Reg /\ c.val # None
      BY <1>2, UsbAssumption DEF Command
    <2> HIDE DEF c
    <2>4. Registers' = [Registers EXCEPT ![acc[t].board][acc[t].reg] = acc[t].val]
      <3>1. ASSUME NEW b \in Board
            PROVE  Effective(b)' = IF b = acc[t].board
                                   THEN [Effective(b) EXCEPT ![acc[t].reg] = acc[t].val]
                                   ELSE Effective(b)
        <4>1. /\ cmd[b] \in Seq(Command)
              /\ cmd'[b] = IF b = acc[t].board THEN Append(cmd[b], c) ELSE cmd[b]
          BY <1>1, <2>2 DEF Types
        <4>2. Effective(b)' = After(regs'[b], cmd'[b]) /\ Effective(b) = After(regs[b], cmd[b])
          BY DEF Effective, Pending, After, Writes
        <4>3. After(regs[b], Append(cmd[b], c)) = [After(regs[b], cmd[b]) EXCEPT ![acc[t].reg] = acc[t].val]
          BY <2>3, <4>1, AfterAppend
        <4> QED
          BY <1>2, <4>1, <4>2, <4>3
      <3> QED
        BY <3>1 DEF Registers
    <2>5. Reliable' = Reliable /\ Apart' = Apart
      BY <1>2, <1>3 DEF Reliable, Trusted
    <2>6. Promise!Done(t, None)
      BY <1>1, <1>2, GoAcc, DoneWith
    <2>7. /\ Views[t].pc = "called" /\ Views[t].op = "write" /\ Views[t].board = acc[t].board
          /\ Views[t].reg = acc[t].reg /\ Views[t].val = acc[t].val
      BY <1>2 DEF Views, View, At
    <2> QED
      BY <2>4, <2>5, <2>6, <2>7 DEF Promise!Write
  <1>4. CASE left > 0 /\ left' = left - 1 /\ late' = late \cup {acc[t].board} /\ UNCHANGED cmd
    BY <1>1, <1>2, <1>4, GoAcc, FailPromised
  <1> QED
    BY <1>3, <1>4 DEF SendWrite

(* musb_read() hands over the answer that was certain, or from a board that *)
(* is not trusted some answer.                                              *)
LEMMA ReceivePromised ==
  ASSUME JInv, NEW t \in Thread, Receive(t), Apart, Apart'
  PROVE  Promise!Misread(t) \/ UNCHANGED Promise!vars
  <1> DEFINE b == acc[t].board
             v == Head(reply[b])
  <1>1. Types /\ Proper(acc[t]) /\ MutualExclusion /\ Awaited /\ Fetched
    BY DEF JInv, IInv, ProperAll
  <1>2. /\ acc[t].pc = "wait" /\ acc[t].op = "read" /\ b \in Board /\ reply[b] # << >>
        /\ GoWith(t, "unlock", v)
        /\ UNCHANGED <<mutex, cmd, regs, opened, late>>
    BY <1>1 DEF Receive, At, Proper, Types
  <1>3. v \in Value /\ v # None
    <2>1. reply[b] \in Seq(Value)
      BY <1>1, <1>2 DEF Types
    <2> QED
      BY <1>2, <2>1, UsbAssumption
  <1>4. Registers' = Registers /\ Reliable' = Reliable /\ Apart' = Apart
    BY <1>2, RegistersStay, ReliableStay
  <1>5. CASE b \in Trusted
    <2>1. reply[b] = <<acc[t].seen>>
      <3>1. PICK u \in Thread : Awaits(u, b) /\ reply[b] = <<acc[u].seen>>
        BY <1>1, <1>2, <1>5 DEF Awaited, Answered
      <3>2. u = t
        BY <1>1, <1>2, <3>1 DEF MutualExclusion, Critical, Awaits
      <3> QED
        BY <3>1, <3>2
    <2>2. v = acc[t].seen
      BY <2>1
    <2>3. View(t)' = View(t)
      BY <1>1, <1>2, <1>3, <2>2, GoWithAcc DEF View, At
    <2>4. \A u \in Thread \ {t} : View(u)' = View(u)
      BY <1>1, <1>2, GoWithAcc DEF View, At
    <2> QED
      BY <1>4, <2>3, <2>4, ViewsStay, Quietly
  <1>6. CASE b \notin Trusted
    <2>1. acc[t].seen = None
      BY <1>1, <1>2, <1>6 DEF Fetched
    <2> HIDE DEF v
    <2>2. Promise!Done(t, v)
      BY <1>1, <1>2, GoWithAcc, DoneWith
    <2>3. /\ Views[t].pc = "called" /\ Views[t].op = "read" /\ Views[t].board = b
          /\ b \notin Reliable
      BY <1>2, <1>6, <2>1 DEF Views, View, At, Reliable
    <2> QED
      BY <1>3, <1>4, <2>2, <2>3 DEF Promise!Misread
  <1> QED
    BY <1>5, <1>6

LEMMA TimeOutPromised ==
  ASSUME JInv, NEW t \in Thread, TimeOut(t), Apart, Apart' PROVE Promise!Fail(t)
  <1>1. Types /\ acc[t].pc = "wait" /\ GoWith(t, "unlock", None)
    BY DEF JInv, IInv, TimeOut, At
  <1>2. regs' = regs /\ cmd' = cmd /\ opened' = opened /\ late' = late \cup {acc[t].board}
    BY DEF TimeOut
  <1> QED
    BY <1>1, <1>2, GoWithAcc, FailPromised

LEMMA UnlockPromised ==
  ASSUME Types, NEW t \in Thread, Unlock(t), Apart, Apart' PROVE Promise!Return(t)
  <1>1. Registers' = Registers /\ Reliable' = Reliable
    BY RegistersStay DEF Unlock, Reliable, Trusted
  <1>2. Views[t].pc = "done"
    BY DEF Views, View, Unlock, At
  <1>3. acc'[t] = NoAccess
    BY DEF Unlock, Types
  <1>4. View(t)' = Promise!NoAccess
    BY <1>3 DEF View, At, NoAccess, Promise!NoAccess
  <1>5. Views' = [Views EXCEPT ![t] = Promise!NoAccess]
    BY <1>4, UnlockPc, ViewsStep
  <1> QED
    BY <1>1, <1>2, <1>5 DEF Promise!Return

(* The moment of a read is the one at which the board executes it; a write  *)
(* has had its effect before.                                               *)
LEMMA ExecutePromised ==
  ASSUME JInv, NEW b \in Board, Execute(b), Apart, Apart'
  PROVE  (\E t \in Thread : Promise!Read(t)) \/ UNCHANGED Promise!vars
  <1> DEFINE c == cmd[b][1]
             v == regs[b][c.reg]
  <1>1. /\ Types /\ ProperAll /\ MutualExclusion /\ Awaited /\ Fetched
        /\ UNCHANGED <<mutex, opened, late>>
    BY DEF JInv, IInv, Execute
  <1>2. /\ cmd[b] \in Seq(Command) /\ cmd[b] # << >> /\ Head(cmd[b]) = c
        /\ cmd' = [cmd EXCEPT ![b] = Tail(@)]
    BY <1>1 DEF Execute, Types
  <1>3. c \in Command /\ 1 \in 1..Len(cmd[b])
    BY <1>2
  <1>4. Registers' = Registers
    <2>1. ASSUME NEW d \in Board PROVE Effective(d)' = Effective(d)
      <3>1. /\ Effective(d)' = After(regs'[d], cmd'[d]) /\ Effective(d) = After(regs[d], cmd[d])
            /\ regs[b] \in [Reg -> Value]
        BY <1>1 DEF Effective, Pending, After, Writes, Types
      <3>2. CASE d # b
        <4>1. cmd'[d] = cmd[d] /\ regs'[d] = regs[d]
          BY <1>1, <1>2, <3>2 DEF Execute, Types
        <4> QED
          BY <3>1, <4>1
      <3>3. CASE d = b
        <4>1. cmd'[b] = Tail(cmd[b])
          BY <1>1, <1>2 DEF Types
        <4>2. c.op # "write" => regs'[b] = regs[b]
          BY <1>2 DEF Execute
        <4>3. c.op = "write" =>
                regs'[b] = IF c.reg # None /\ c.val # None THEN [regs[b] EXCEPT ![c.reg] = c.val] ELSE regs[b]
          BY <1>1, <1>2 DEF Execute, Types
        <4> QED
          BY <1>2, <3>1, <3>3, <4>1, <4>2, <4>3, AfterTail
      <3> QED
        BY <3>2, <3>3
    <2> QED
      BY <2>1 DEF Registers
  <1>5. CASE acc' = acc
    BY <1>1, <1>4, <1>5, ReliableStay, Quietly DEF Views, View, At
  <1>6. CASE acc' # acc
    <2>1. PICK t \in Thread : acc'[t] # acc[t]
      <3>1. c.op # "write"
        BY <1>2, <1>6 DEF Execute
      <3>2. acc' = [u \in Thread |-> acc'[u]]
        BY <1>2, <3>1 DEF Execute
      <3>3. acc = [u \in Thread |-> acc[u]]
        BY <1>1 DEF Types
      <3> QED
        BY <1>6, <3>2, <3>3
    <2>2. /\ Awaits(t, b) /\ b \in Trusted /\ c.op # "write"
          /\ acc'[t].seen = v
          /\ acc'[t].pc = acc[t].pc /\ acc'[t].op = acc[t].op /\ acc'[t].board = acc[t].board
          /\ acc'[t].reg = acc[t].reg /\ acc'[t].val = acc[t].val
      BY <1>1, <1>2, <2>1, ExecuteAcc
    <2>3. c.op = "read" /\ Len(cmd[b]) = 1 /\ reply[b] = << >>
      BY <1>1, <1>3, <2>2 DEF Command, Awaited, Asked
    <2>4. c.reg = acc[t].reg /\ acc[t].seen = None /\ acc[t].op = "read" /\ acc[t].reg \in Reg
      BY <1>1, <1>3, <2>2, <2>3 DEF Fetched, Awaits, ProperAll, Proper, Types
    <2>5. v \in Value /\ v # None
      BY <1>1, <2>4, UsbAssumption DEF Types
    <2>6. \A u \in Thread \ {t} : acc'[u] = acc[u]
      <3>1. \A u \in Thread \ {t} : ~Awaits(u, b)
        BY <1>1, <2>2 DEF MutualExclusion, Critical, Awaits
      <3> QED
        BY <1>1, <3>1, ExecuteAcc
    <2>7. Registers[b][acc[t].reg] = v
      <3>1. Writes(cmd[b], acc[t].reg) = {}
        BY <2>3 DEF Writes
      <3>2. After(regs[b], cmd[b])[acc[t].reg] = regs[b][acc[t].reg]
        BY <1>2, <2>4, <3>1, LastWrite
      <3> QED
        BY <2>4, <3>2, EffectiveIsAfter DEF Registers
    <2> HIDE DEF v
    <2>8. Views' = [Views EXCEPT ![t] = View(t)'] /\ Views[t] = View(t)
      BY <2>6, ViewsStep DEF Views
    <2>9. View(t)' = [pc |-> "done", op |-> acc[t].op, board |-> acc[t].board,
                      reg |-> acc[t].reg, val |-> acc[t].val, answer |-> v]
      BY <2>2, <2>5 DEF View, At, Awaits
    <2>10. [View(t) EXCEPT !.pc = "done", !.answer = v] = View(t)'
      BY <2>9, AnswerGiven, Zenon
    <2>11. Promise!Done(t, v)
      BY <2>8, <2>10 DEF Promise!Done, Views
    <2>12. /\ Views[t].pc = "called" /\ Views[t].op = "read" /\ Views[t].board = b
           /\ Views[t].reg = acc[t].reg /\ b \in Reliable
      BY <2>2, <2>4, <2>8 DEF View, At, Awaits, Reliable
    <2> QED
      BY <1>1, <1>4, <2>7, <2>11, <2>12, ReliableStay DEF Promise!Read
  <1> QED
    BY <1>5, <1>6

LEMMA ChangePromised ==
  ASSUME Types, NEW b \in Board, Change(b)
  PROVE  (\E r \in Reg : Promise!Change(b, r)) \/ UNCHANGED Promise!vars
  <1>1. PICK r \in Reg, v \in Value : regs' = [regs EXCEPT ![b][r] = v]
    BY DEF Change, Reg
  <1>2. /\ cmd' = cmd /\ Views' = Views /\ Reliable' = Reliable /\ Apart' = Apart
        /\ regs[b] \in [Reg -> Value] /\ cmd[b] \in Seq(Command)
    BY ReliableStay DEF Change, Views, View, At, Types
  <1>3. /\ regs' = [regs EXCEPT ![b] = [regs[b] EXCEPT ![r] = v]]
        /\ \A d \in Board \ {b} : regs'[d] = regs[d]
        /\ regs'[b] = [regs[b] EXCEPT ![r] = v]
    BY <1>1 DEF Types
  <1>4. \A d \in Board : /\ Effective(d)' = After(regs'[d], cmd[d])
                         /\ Effective(d) = After(regs[d], cmd[d])
    BY <1>2 DEF Effective, Pending, After, Writes
  <1>5. CASE Writes(cmd[b], r) = {}
    <2>1. After(regs'[b], cmd[b]) = [After(regs[b], cmd[b]) EXCEPT ![r] = v]
      BY <1>2, <1>3, <1>5 DEF After
    <2>2. \A d \in Board : Effective(d)' = IF d = b THEN [Effective(d) EXCEPT ![r] = v] ELSE Effective(d)
      BY <1>3, <1>4, <2>1
    <2>3. Registers' = [Registers EXCEPT ![b][r] = v]
      BY <2>2 DEF Registers
    <2> QED
      BY <1>2, <2>3 DEF Promise!Change
  <1>6. CASE Writes(cmd[b], r) # {}
    <2>1. After(regs'[b], cmd[b]) = After(regs[b], cmd[b])
      BY <1>2, <1>3, <1>6 DEF After
    <2>2. Registers' = Registers
      BY <1>3, <1>4, <2>1 DEF Registers
    <2> QED
      BY <1>2, <2>2, Quietly
  <1> QED
    BY <1>5, <1>6

LEMMA ResetPromised ==
  ASSUME Types, NEW b \in Board, InitFPGA(b) PROVE Promise!Reset(b)
  <1>1. Views' = Views /\ Reliable' = Reliable /\ Apart' = Apart
    BY ReliableStay DEF InitFPGA, Views, View, At
  <1>2. \A d \in Board : Effective(d)' = IF d = b THEN [r \in Reg |-> Zero] ELSE Effective(d)
    <2>1. /\ cmd' = [cmd EXCEPT ![b] = << >>] /\ regs' = [regs EXCEPT ![b] = [r \in Reg |-> Zero]]
      BY DEF InitFPGA
    <2>2. \A d \in Board \ {b} : cmd'[d] = cmd[d] /\ regs'[d] = regs[d]
      BY <2>1 DEF Types
    <2>3. cmd'[b] = << >> /\ regs'[b] = [r \in Reg |-> Zero]
      BY <2>1 DEF Types
    <2>4. \A r \in Reg : Writes(cmd'[b], r) = {}
      BY <2>3 DEF Writes
    <2>5. \A d \in Board : /\ Effective(d)' = After(regs'[d], cmd'[d])
                           /\ Effective(d) = After(regs[d], cmd[d])
      BY DEF Effective, Pending, After, Writes
    <2>6. After(regs'[b], cmd'[b]) = [r \in Reg |-> Zero]
      BY <2>3, <2>4 DEF After
    <2> QED
      BY <2>2, <2>5, <2>6
  <1>3. Registers' = [Registers EXCEPT ![b] = [r \in Reg |-> Zero]]
    BY <1>2 DEF Registers
  <1> QED
    BY <1>1, <1>3 DEF Promise!Reset

LEMMA PromisedInit == Init => Promise!Init
  <1> SUFFICES ASSUME Init PROVE Promise!Init
    OBVIOUS
  <1>1. Types
    BY TypesInit
  <1>2. Registers \in [Board -> [Reg -> Value]]
    <2>1. \A b \in Board : Effective(b) \in [Reg -> Value]
      BY <1>1, EffectiveIsAfter, AfterType DEF Types
    <2> QED
      BY <2>1 DEF Registers
  <1>3. Views = [t \in Thread |-> Promise!NoAccess]
    BY DEF Init, Views, View, At, NoAccess, Promise!NoAccess
  <1>4. Reliable = {} /\ Apart = TRUE
    BY UsbAssumption DEF Init, Reliable, Apart, Trusted, Free, Destroyed
  <1> QED
    BY <1>2, <1>3, <1>4 DEF Promise!Init

LEMMA PromisedStep ==
  ASSUME JInv, [Next]_vars PROVE Promise!Next \/ UNCHANGED Promise!vars
  <1>1. Types /\ ProperAll
    BY DEF JInv, IInv
  <1>2. CASE ~Apart'
    BY <1>2 DEF Promise!Next, Promise!FallTogether
  <1>3. CASE Kill
    <2>1. Registers' = Registers
      BY <1>3, RegistersStay DEF Kill
    <2>2. Views' = [t \in Thread |-> Promise!NoAccess]
      BY <1>3 DEF Kill, Views, View, At, NoAccess, Promise!NoAccess
    <2>3. Reliable' = {} /\ Apart' = TRUE
      BY <1>3, UsbAssumption DEF Kill, Reliable, Apart, Trusted, Free, Destroyed
    <2> QED
      BY <2>1, <2>2, <2>3 DEF Promise!Next, Promise!Restart
  <1>4. CASE Apart' /\ ~Kill
    <2>1. Apart
      BY <1>4 DEF Next, vars, Call, Lock, Address, Data, SendWrite, SendRead, Receive, TimeOut,
         Unlock, Execute, Change, InitFPGA, Open, Close, Apart
    <2>2. ASSUME NEW t \in Thread, Call(t) PROVE Promise!Call(t)
      BY <1>1, <2>2, CallPromised
    <2>3. ASSUME NEW t \in Thread, Lock(t) \/ Address(t) \/ Data(t) \/ SendRead(t)
          PROVE  UNCHANGED Promise!vars
      BY <1>4, <2>1, <2>3, BeforeSending
    <2>4. ASSUME NEW t \in Thread, SendWrite(t) PROVE Promise!Write(t) \/ Promise!Fail(t)
      BY <1>4, <2>1, <2>4, SendWritePromised
    <2>5. ASSUME NEW t \in Thread, Receive(t) PROVE Promise!Misread(t) \/ UNCHANGED Promise!vars
      BY <1>4, <2>1, <2>5, ReceivePromised
    <2>6. ASSUME NEW t \in Thread, TimeOut(t) PROVE Promise!Fail(t)
      BY <1>4, <2>1, <2>6, TimeOutPromised
    <2>7. ASSUME NEW t \in Thread, Unlock(t) PROVE Promise!Return(t)
      BY <1>1, <1>4, <2>1, <2>7, UnlockPromised
    <2>8. ASSUME NEW b \in Board, Execute(b)
          PROVE  (\E t \in Thread : Promise!Read(t)) \/ UNCHANGED Promise!vars
      BY <1>4, <2>1, <2>8, ExecutePromised
    <2>9. ASSUME NEW b \in Board, Change(b)
          PROVE  (\E r \in Reg : Promise!Change(b, r)) \/ UNCHANGED Promise!vars
      BY <1>1, <2>9, ChangePromised
    <2>10. ASSUME NEW b \in Board, InitFPGA(b) PROVE Promise!Reset(b)
      BY <1>1, <2>10, ResetPromised
    <2>11. ASSUME NEW b \in Board, Open(b) PROVE Promise!Open(b)
      <3>1. Registers' = Registers /\ Views' = Views
        BY <2>11, RegistersStay DEF Open, Views, View, At
      <3>2. Reliable' = Reliable \cup {b} /\ Apart' = Apart
        BY <1>4, <2>1, <2>11 DEF Open, Reliable, Trusted, Apart
      <3> QED
        BY <3>1, <3>2 DEF Promise!Open
    <2>12. ASSUME Close PROVE FALSE
      BY <1>4, <2>12 DEF Close, Apart
    <2>13. ASSUME UNCHANGED vars PROVE UNCHANGED Promise!vars
      <3>1. Registers' = Registers /\ Views' = Views /\ Reliable' = Reliable /\ Apart' = Apart
        BY <2>13, RegistersStay, ReliableStay DEF vars, Views, View, At
      <3> QED
        BY <3>1, Quietly
    <2>14. \A t \in Thread : Promise!Call(t) \/ Promise!Write(t) \/ Promise!Read(t) \/ Promise!Fail(t)
                               \/ Promise!Misread(t) \/ Promise!Return(t) => Promise!Next
      BY DEF Promise!Next
    <2>15. \A b \in Board : Promise!Open(b) \/ Promise!Reset(b)
                              \/ (\E r \in Reg : Promise!Change(b, r)) => Promise!Next
      BY DEF Promise!Next
    <2> QED
      BY <1>4, <2>2, <2>3, <2>4, <2>5, <2>6, <2>7, <2>8, <2>9, <2>10, <2>11, <2>12, <2>13, <2>14,
         <2>15, Zenon DEF Next
  <1> QED
    BY <1>2, <1>3, <1>4

(* The accesses over USB implement the register file the other modules work *)
(* with, for any number of threads and boards, whatever the depth of the    *)
(* endpoints: every Read() and Write() is one atomic access to a register   *)
(* of its own board as long as the mutex is there.                          *)
THEOREM UsbImplementsRegisterFile == Spec => ImplementsRegisterFile
  <1> QED
    BY PromisedInit, PromisedStep, Attribution, PTL DEF Spec, ImplementsRegisterFile, Promise!Spec
=============================================================================
