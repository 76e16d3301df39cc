-------------------------- MODULE BoardConfigProof --------------------------
(***************************************************************************)
(* Theorems about BoardConfig, for every type of board, all settings and   *)
(* any number of changes and runs.                                         *)
(***************************************************************************)
EXTENDS BoardConfig, TLAPS

-----------------------------------------------------------------------------
(* Sequences of steps and of calls.                                         *)
Sequence(q) == \E S : q \in Seq(S)

LEMMA EmptySequence == Sequence(<< >>) /\ Len(<< >>) = 0
<1>1. << >> \in Seq({})
  OBVIOUS
<1> QED
  BY <1>1 DEF Sequence

LEMMA OneSequence ==
    ASSUME NEW x PROVE Sequence(<<x>>) /\ Len(<<x>>) = 1 /\ <<x>>[1] = x
<1>1. <<x>> \in Seq({x})
  OBVIOUS
<1> QED
  BY <1>1 DEF Sequence

LEMMA TailSequence ==
    ASSUME NEW q, Sequence(q), q # << >>
    PROVE  /\ Sequence(Tail(q)) /\ Len(q) \in Nat \ {0} /\ Len(Tail(q)) = Len(q) - 1
           /\ Head(q) = q[1] /\ \A k \in 1 .. Len(q) - 1 : Tail(q)[k] = q[k + 1]
<1>1. PICK S : q \in Seq(S)
  BY DEF Sequence
<1>2. Tail(q) \in Seq(S) /\ Len(q) \in Nat \ {0} /\ Len(Tail(q)) = Len(q) - 1 /\ Head(q) = q[1]
  BY <1>1
<1>3. \A k \in 1 .. Len(q) - 1 : Tail(q)[k] = q[k + 1]
  BY <1>1
<1> QED
  BY <1>2, <1>3 DEF Sequence

LEMMA ConcatSequence ==
    ASSUME NEW q, NEW r, Sequence(q), Sequence(r)
    PROVE  /\ Sequence(q \o r) /\ Len(q) \in Nat /\ Len(r) \in Nat
           /\ Len(q \o r) = Len(q) + Len(r)
           /\ \A k \in 1 .. Len(q) : (q \o r)[k] = q[k]
           /\ \A k \in 1 .. Len(r) : (q \o r)[Len(q) + k] = r[k]
<1>1. PICK S : q \in Seq(S)
  BY DEF Sequence
<1>2. PICK T : r \in Seq(T)
  BY DEF Sequence
<1>3. q \in Seq(S \cup T) /\ r \in Seq(S \cup T)
  BY <1>1, <1>2
<1>4. /\ q \o r \in Seq(S \cup T) /\ Len(q) \in Nat /\ Len(r) \in Nat
      /\ Len(q \o r) = Len(q) + Len(r)
  BY <1>3
<1>5. \A k \in 1 .. Len(q) + Len(r) :
          (q \o r)[k] = IF k <= Len(q) THEN q[k] ELSE r[k - Len(q)]
  BY <1>3
<1>6. \A k \in 1 .. Len(q) : (q \o r)[k] = q[k]
  BY <1>4, <1>5
<1>7. \A k \in 1 .. Len(r) : (q \o r)[Len(q) + k] = r[k]
  BY <1>4, <1>5
<1> QED
  BY <1>4, <1>6, <1>7 DEF Sequence

LEMMA LengthOf ==
    ASSUME NEW q, Sequence(q) PROVE Len(q) \in Nat /\ (Len(q) = 0 <=> q = << >>)
  BY DEF Sequence

-----------------------------------------------------------------------------
(* What the steps of a call do to the control word: Runs(q, s, tr) says     *)
(* that tr is what a thread that nobody disturbs goes through from s on.    *)
Do(x, s) ==
    [bits |-> IF x.op = "store" THEN (s.load \ x.clear) \cup x.set ELSE s.bits,
     ctrl |-> IF x.op = "send" THEN s.bits ELSE s.ctrl,
     load |-> IF x.op = "load" THEN s.bits ELSE {}]

Runs(q, s, tr) == tr[0] = s /\ \A k \in 1 .. Len(q) : tr[k] = Do(q[k], tr[k - 1])

Leads(q, s, e) == \E tr : Runs(q, s, tr) /\ tr[Len(q)] = e

LEMMA RunsNothing ==
    ASSUME NEW s PROVE \E tr : Runs(<< >>, s, tr) /\ tr[0] = s
<1>1. Runs(<< >>, s, [k \in {0} |-> s])
  BY DEF Runs
<1> QED
  BY <1>1

LEMMA RunsStep ==
    ASSUME NEW q, NEW s, NEW tr, Sequence(q), q # << >>, Runs(q, s, tr)
    PROVE  \E rest : /\ Runs(Tail(q), Do(Head(q), s), rest)
                     /\ \A k \in 0 .. Len(Tail(q)) : rest[k] = tr[k + 1]
                     /\ Len(Tail(q)) \in Nat /\ Len(q) = Len(Tail(q)) + 1
<1> DEFINE n == Len(q) - 1
           rest == [k \in 0 .. n |-> tr[k + 1]]
<1>1. /\ Sequence(Tail(q)) /\ Len(q) \in Nat \ {0} /\ Len(Tail(q)) = n
      /\ Head(q) = q[1] /\ \A k \in 1 .. n : Tail(q)[k] = q[k + 1]
  BY TailSequence
<1>2. n \in Nat /\ Len(q) = n + 1
  BY <1>1
<1>3. rest[0] = Do(Head(q), s)
  <2>1. tr[1] = Do(q[1], tr[0])
    BY <1>2 DEF Runs
  <2> QED
    BY <1>1, <1>2, <2>1 DEF Runs
<1>4. ASSUME NEW k \in 1 .. n PROVE rest[k] = Do(Tail(q)[k], rest[k - 1])
  <2>1. k + 1 \in 1 .. Len(q) /\ k \in 0 .. n /\ k - 1 \in 0 .. n /\ (k + 1) - 1 = k /\ (k - 1) + 1 = k
    BY <1>2
  <2>2. tr[k + 1] = Do(q[k + 1], tr[k])
    BY <2>1 DEF Runs
  <2> QED
    BY <1>1, <2>1, <2>2
<1>5. \A k \in 0 .. n : rest[k] = tr[k + 1]
  OBVIOUS
<1> HIDE DEF rest
<1>6. Runs(Tail(q), Do(Head(q), s), rest)
  BY <1>1, <1>3, <1>4 DEF Runs
<1> QED
  BY <1>1, <1>2, <1>5, <1>6

LEMMA LeadsNothing ==
    ASSUME NEW s PROVE Leads(<< >>, s, s)
  BY RunsNothing, EmptySequence DEF Leads

LEMMA LeadsOne ==
    ASSUME NEW x, NEW s PROVE Leads(<<x>>, s, Do(x, s))
<1> DEFINE tr == [k \in 0 .. 1 |-> IF k = 0 THEN s ELSE Do(x, s)]
<1>1. tr[0] = s /\ tr[1] = Do(x, s)
  OBVIOUS
<1> HIDE DEF tr
<1>2. Len(<<x>>) = 1 /\ <<x>>[1] = x
  BY OneSequence
<1>3. \A k \in 1 .. 1 : tr[k] = Do(<<x>>[k], tr[k - 1])
  BY <1>1, <1>2
<1>4. Runs(<<x>>, s, tr)
  BY <1>1, <1>2, <1>3 DEF Runs
<1> QED
  BY <1>1, <1>2, <1>4 DEF Leads

LEMMA LeadsOn ==
    ASSUME NEW q, NEW r, NEW s, NEW m, NEW e, Sequence(q), Sequence(r),
           Leads(q, s, m), Leads(r, m, e)
    PROVE  Leads(q \o r, s, e)
<1>1. PICK t1 : Runs(q, s, t1) /\ t1[Len(q)] = m
  BY DEF Leads
<1>2. PICK t2 : Runs(r, m, t2) /\ t2[Len(r)] = e
  BY DEF Leads
<1> DEFINE n == Len(q)
           l == Len(r)
           tr == [k \in 0 .. n + l |-> IF k <= n THEN t1[k] ELSE t2[k - n]]
<1>3. /\ n \in Nat /\ l \in Nat /\ Len(q \o r) = n + l
      /\ \A k \in 1 .. n : (q \o r)[k] = q[k]
      /\ \A k \in 1 .. l : (q \o r)[n + k] = r[k]
  BY ConcatSequence
<1>4. \A k \in 0 .. n : tr[k] = t1[k]
  BY <1>3
<1>5. \A k \in 0 .. l : tr[n + k] = t2[k]
  <2> SUFFICES ASSUME NEW k \in 0 .. l PROVE tr[n + k] = t2[k]
    OBVIOUS
  <2>1. CASE k = 0
    BY <1>1, <1>2, <1>3, <2>1 DEF Runs
  <2>2. CASE k # 0
    <3>1. n + k \in 0 .. n + l /\ ~(n + k <= n) /\ (n + k) - n = k
      BY <1>3, <2>2
    <3> QED
      BY <3>1
  <2> QED
    BY <2>1, <2>2
<1> HIDE DEF tr
<1>6. ASSUME NEW k \in 1 .. n + l PROVE tr[k] = Do((q \o r)[k], tr[k - 1])
  <2>1. CASE k <= n
    <3>1. k \in 1 .. n /\ k \in 0 .. n /\ k - 1 \in 0 .. n
      BY <1>3, <2>1
    <3> QED
      BY <1>1, <1>3, <1>4, <3>1 DEF Runs
  <2>2. CASE ~(k <= n)
    <3>1. PICK j \in 1 .. l : k = n + j
      <4>1. k - n \in 1 .. l /\ k = n + (k - n)
        BY <1>3, <2>2
      <4> QED
        BY <4>1
    <3>2. j \in 0 .. l /\ j - 1 \in 0 .. l /\ k - 1 = n + (j - 1)
      BY <1>3, <3>1
    <3>3. tr[k] = t2[j] /\ tr[k - 1] = t2[j - 1] /\ (q \o r)[k] = r[j]
      BY <1>3, <1>5, <3>1, <3>2
    <3> QED
      BY <1>2, <3>3 DEF Runs
  <2> QED
    BY <2>1, <2>2
<1>7. tr[0] = s /\ tr[n + l] = e
  BY <1>1, <1>2, <1>3, <1>4, <1>5 DEF Runs
<1> QED
  BY <1>3, <1>6, <1>7 DEF Runs, Leads

-----------------------------------------------------------------------------
(* The setters, each from any state of the control word.                    *)
Word(b, c, l) == [bits |-> b, ctrl |-> c, load |-> l]

LEMMA LeadsTwice ==
    ASSUME NEW x, NEW y, NEW s
    PROVE  Sequence(<<x, y>>) /\ Len(<<x, y>>) = 2 /\ Leads(<<x, y>>, s, Do(y, Do(x, s)))
<1> DEFINE q == <<x, y>>
           m == Do(x, s)
           e == Do(y, m)
           tr == [k \in 0 .. 2 |-> CASE k = 0 -> s [] k = 1 -> m [] k = 2 -> e]
<1>1. q \in Seq({x, y}) /\ Len(q) = 2 /\ q[1] = x /\ q[2] = y
  OBVIOUS
<1>2. tr[0] = s /\ tr[1] = m /\ tr[2] = e
  OBVIOUS
<1> HIDE DEF tr, q
<1>3. \A k \in 1 .. 2 : tr[k] = Do(q[k], tr[k - 1])
  <2> SUFFICES ASSUME NEW k \in 1 .. 2 PROVE tr[k] = Do(q[k], tr[k - 1])
    OBVIOUS
  <2>1. k = 1 \/ k = 2
    OBVIOUS
  <2> QED
    BY <1>1, <1>2, <2>1
<1>4. Runs(q, s, tr)
  BY <1>1, <1>2, <1>3 DEF Runs
<1>5. Sequence(q) /\ Leads(q, s, e)
  BY <1>1, <1>2, <1>4 DEF Sequence, Leads
<1> QED
  BY <1>1, <1>5 DEF q

LEMMA LeadsUpdate ==
    ASSUME NEW set, NEW clear, NEW s
    PROVE  /\ Sequence(Update(set, clear))
           /\ Leads(Update(set, clear), s, Word((s.bits \ clear) \cup set, s.ctrl, {}))
<1>1. Do(Store(set, clear), Do(Load, s)) = Word((s.bits \ clear) \cup set, s.ctrl, {})
  BY DEF Do, Load, Store, Word
<1> QED
  BY <1>1, LeadsTwice DEF Update

LEMMA LeadsSend ==
    ASSUME NEW s PROVE Sequence(<<Send>>) /\ Leads(<<Send>>, s, Word(s.bits, s.bits, {}))
<1>1. Do(Send, s) = Word(s.bits, s.bits, {})
  BY DEF Do, Send, Word
<1> QED
  BY <1>1, LeadsOne, OneSequence

LEMMA LeadsPut ==
    ASSUME NEW r, NEW v, NEW s
    PROVE  Sequence(<<Put(r, v)>>) /\ Leads(<<Put(r, v)>>, s, Word(s.bits, s.ctrl, {}))
<1>1. Do(Put(r, v), s) = Word(s.bits, s.ctrl, {})
  BY DEF Do, Put, Word
<1> QED
  BY <1>1, LeadsOne, OneSequence

LEMMA AppendConcat ==
    ASSUME NEW q, NEW x, Sequence(q) PROVE Append(q, x) = q \o <<x>>
<1>1. PICK S : q \in Seq(S)
  BY DEF Sequence
<1>2. q \in Seq(S \cup {x}) /\ x \in S \cup {x}
  BY <1>1
<1> QED
  BY <1>2

Assigned(w, bit, flag) == IF flag THEN w \cup {bit} ELSE w \ {bit}

LEMMA LeadsAssign ==
    ASSUME NEW bit, NEW flag, NEW s
    PROVE  /\ Sequence(Assign(bit, flag))
           /\ Leads(Assign(bit, flag), s, Word(Assigned(s.bits, bit, flag), s.ctrl, {}))
<1>1. CASE flag
  <2>1. Assign(bit, flag) = Update({bit}, {}) /\ (s.bits \ {}) \cup {bit} = Assigned(s.bits, bit, flag)
    BY <1>1 DEF Assign, Assigned
  <2> QED
    BY <2>1, LeadsUpdate
<1>2. CASE ~flag
  <2>1. Assign(bit, flag) = Update({}, {bit}) /\ (s.bits \ {bit}) \cup {} = Assigned(s.bits, bit, flag)
    BY <1>2 DEF Assign, Assigned
  <2> QED
    BY <2>1, LeadsUpdate
<1> QED
  BY <1>1, <1>2

(* A store that is sent.                                                    *)
LEMMA LeadsSent ==
    ASSUME NEW q, NEW s, NEW w, NEW c, NEW l, Sequence(q), Leads(q, s, Word(w, c, l))
    PROVE  Sequence(Append(q, Send)) /\ Leads(Append(q, Send), s, Word(w, w, {}))
<1>1. Append(q, Send) = q \o <<Send>>
  BY AppendConcat
<1>2. Sequence(<<Send>>) /\ Leads(<<Send>>, Word(w, c, l), Word(w, w, {}))
  BY LeadsSend DEF Word
<1> QED
  BY <1>1, <1>2, LeadsOn, ConcatSequence

LEMMA LeadsSwitch ==
    ASSUME NEW bit, NEW flag, NEW s
    PROVE  /\ Sequence(Switch(bit, flag))
           /\ Leads(Switch(bit, flag), s,
                    Word(Assigned(s.bits, bit, flag), Assigned(s.bits, bit, flag), {}))
  BY LeadsAssign, LeadsSent DEF Switch

LEMMA LeadsPulse ==
    ASSUME NEW bit, NEW s
    PROVE  /\ Sequence(Pulse(bit))
           /\ Leads(Pulse(bit), s, Word(s.bits \ {bit}, s.bits \cup {bit}, {}))
<1> DEFINE m == Word(s.bits \cup {bit}, s.bits \cup {bit}, {})
<1>1. Sequence(Switch(bit, TRUE)) /\ Leads(Switch(bit, TRUE), s, m)
  BY LeadsSwitch DEF Assigned
<1>2. /\ Sequence(Update({}, {bit}))
      /\ Leads(Update({}, {bit}), m, Word((m.bits \ {bit}) \cup {}, m.ctrl, {}))
  BY LeadsUpdate
<1>3. Word((m.bits \ {bit}) \cup {}, m.ctrl, {}) = Word(s.bits \ {bit}, s.bits \cup {bit}, {})
  BY DEF Word
<1> QED
  BY <1>1, <1>2, <1>3, LeadsOn, ConcatSequence DEF Pulse

-----------------------------------------------------------------------------
(* What the steps of a call may be: Sets bounds the bits they set, and a    *)
(* call writes another register, if any, first.                             *)
Sets(q, u) == \A k \in 1 .. Len(q) : q[k].op = "store" => q[k].set \subseteq u
NoPut(q) == \A k \in 1 .. Len(q) : q[k].op # "put"
PutFirst(q) == \A k \in 1 .. Len(q) : q[k].op = "put" => k = 1

Steady(q, u) == Sequence(q) /\ Sets(q, u) /\ NoPut(q)
Written(q, u) == Sequence(q) /\ Sets(q, u) /\ PutFirst(q)

LEMMA IndexOf ==
    ASSUME NEW q, NEW r, Sequence(q), Sequence(r), NEW k \in 1 .. Len(q \o r)
    PROVE  \/ k \in 1 .. Len(q) /\ (q \o r)[k] = q[k]
           \/ \E j \in 1 .. Len(r) : k = Len(q) + j /\ (q \o r)[k] = r[j]
<1>1. /\ Len(q) \in Nat /\ Len(r) \in Nat /\ Len(q \o r) = Len(q) + Len(r)
      /\ \A i \in 1 .. Len(q) : (q \o r)[i] = q[i]
      /\ \A i \in 1 .. Len(r) : (q \o r)[Len(q) + i] = r[i]
  BY ConcatSequence
<1>2. CASE k <= Len(q)
  BY <1>1, <1>2
<1>3. CASE ~(k <= Len(q))
  <2>1. k - Len(q) \in 1 .. Len(r) /\ k = Len(q) + (k - Len(q))
    BY <1>1, <1>3
  <2> QED
    BY <1>1, <2>1
<1> QED
  BY <1>2, <1>3

LEMMA SetsOn ==
    ASSUME NEW q, NEW r, NEW u, Sequence(q), Sequence(r), Sets(q, u), Sets(r, u)
    PROVE  Sequence(q \o r) /\ Sets(q \o r, u)
<1>1. ASSUME NEW k \in 1 .. Len(q \o r), (q \o r)[k].op = "store"
      PROVE  (q \o r)[k].set \subseteq u
  BY <1>1, IndexOf DEF Sets
<1> QED
  BY <1>1, ConcatSequence DEF Sets

LEMMA SteadyOn ==
    ASSUME NEW q, NEW r, NEW u, Steady(q, u), Steady(r, u)
    PROVE  Steady(q \o r, u)
<1>1. ASSUME NEW k \in 1 .. Len(q \o r) PROVE (q \o r)[k].op # "put"
  BY IndexOf DEF Steady, NoPut
<1> QED
  BY <1>1, SetsOn DEF Steady, NoPut

LEMMA SteadyNothing ==
    ASSUME NEW u PROVE Steady(<< >>, u)
  BY EmptySequence DEF Steady, Sets, NoPut

LEMMA SteadyOne ==
    ASSUME NEW x, NEW u, x.op # "put", x.op = "store" => x.set \subseteq u
    PROVE  Steady(<<x>>, u)
<1>1. Sequence(<<x>>) /\ Len(<<x>>) = 1 /\ <<x>>[1] = x
  BY OneSequence
<1>2. \A k \in 1 .. Len(<<x>>) : <<x>>[k] = x
  BY <1>1
<1> QED
  BY <1>1, <1>2 DEF Steady, Sets, NoPut

LEMMA WrittenPut ==
    ASSUME NEW r, NEW v, NEW u, NEW q, Steady(q, u)
    PROVE  /\ Written(<<Put(r, v)>> \o q, u)
           /\ <<Put(r, v)>> \o q # << >> /\ Head(<<Put(r, v)>> \o q) = Put(r, v)
<1> DEFINE p == <<Put(r, v)>>
<1>1. Sequence(p) /\ Len(p) = 1 /\ p[1] = Put(r, v)
  BY OneSequence
<1> HIDE DEF p
<1>6. Sequence(p) /\ Sequence(q)
  BY <1>1 DEF Steady
<1>7. /\ Sequence(p \o q) /\ Len(q) \in Nat /\ Len(p \o q) = Len(p) + Len(q)
      /\ \A k \in 1 .. Len(p) : (p \o q)[k] = p[k]
  BY ONLY <1>6, ConcatSequence
<1>2. /\ Sequence(p \o q) /\ Len(q) \in Nat /\ Len(p \o q) = 1 + Len(q)
      /\ (p \o q)[1] = p[1]
  BY ONLY <1>1, <1>7
<1>3. p \o q # << >>
  BY <1>2, EmptySequence
<1>4. Head(p \o q) = Put(r, v)
  BY <1>1, <1>2, <1>3, TailSequence
<1>5. ASSUME NEW k \in 1 .. Len(p \o q)
      PROVE  /\ (p \o q)[k].op = "store" => (p \o q)[k].set \subseteq u
             /\ (p \o q)[k].op = "put" => k = 1
  <2>1. CASE k \in 1 .. Len(p) /\ (p \o q)[k] = p[k]
    BY <1>1, <2>1 DEF Put
  <2>2. CASE \E j \in 1 .. Len(q) : k = Len(p) + j /\ (p \o q)[k] = q[j]
    BY <2>2 DEF Steady, Sets, NoPut
  <2>3. \/ k \in 1 .. Len(p) /\ (p \o q)[k] = p[k]
        \/ \E j \in 1 .. Len(q) : k = Len(p) + j /\ (p \o q)[k] = q[j]
    BY ONLY <1>6, IndexOf
  <2> QED
    BY <2>1, <2>2, <2>3
<1> QED
  BY <1>2, <1>3, <1>4, <1>5 DEF Written, Sets, PutFirst, p

LEMMA WrittenSteady ==
    ASSUME NEW q, NEW u, Steady(q, u) PROVE Written(q, u)
  BY DEF Steady, Written, NoPut, PutFirst

LEMMA SteadyUpdate ==
    ASSUME NEW set, NEW clear, NEW u, set \subseteq u
    PROVE  Steady(Update(set, clear), u)
<1> DEFINE q == <<Load, Store(set, clear)>>
<1>1. Sequence(q) /\ Len(q) = 2
  BY LeadsTwice
<1>2. q[1] = Load /\ q[2] = Store(set, clear)
  OBVIOUS
<1> HIDE DEF q
<1>3. ASSUME NEW k \in 1 .. Len(q) PROVE q[k].op # "put" /\ (q[k].op = "store" => q[k].set \subseteq u)
  <2>1. k = 1 \/ k = 2
    BY <1>1
  <2> QED
    BY <1>2, <2>1 DEF Load, Store
<1>4. Steady(q, u)
  BY <1>1, <1>3 DEF Steady, Sets, NoPut
<1> QED
  BY <1>4 DEF q, Update

LEMMA SteadySent ==
    ASSUME NEW q, NEW u, Steady(q, u) PROVE Steady(Append(q, Send), u)
<1>1. Append(q, Send) = q \o <<Send>>
  BY AppendConcat DEF Steady
<1>2. Steady(<<Send>>, u)
  BY SteadyOne DEF Send
<1> QED
  BY <1>1, <1>2, SteadyOn

LEMMA SteadyAssign ==
    ASSUME NEW bit, NEW flag, NEW u, flag => bit \in u
    PROVE  Steady(Assign(bit, flag), u) /\ Steady(Switch(bit, flag), u)
<1>1. Steady(Assign(bit, flag), u)
  <2>1. CASE flag
    <3>1. Steady(Update({bit}, {}), u)
      BY <2>1, SteadyUpdate
    <3> QED
      BY <2>1, <3>1 DEF Assign
  <2>2. CASE ~flag
    <3>1. Steady(Update({}, {bit}), u)
      BY SteadyUpdate
    <3> QED
      BY <2>2, <3>1 DEF Assign
  <2> QED
    BY <2>1, <2>2
<1> QED
  BY <1>1, SteadySent DEF Switch

LEMMA SteadyPulse ==
    ASSUME NEW bit, NEW u, bit \in u PROVE Steady(Pulse(bit), u)
<1>1. Steady(Switch(bit, TRUE), u)
  BY SteadyAssign
<1>2. Steady(Update({}, {bit}), u)
  BY SteadyUpdate
<1> QED
  BY <1>1, <1>2, SteadyOn DEF Pulse

-----------------------------------------------------------------------------
(* What is in line with the settings before the n-th call.                  *)
Used ==
    {START_TRIG, SOFT_TRIG, TCAL_EN, TRANSP_MODE, ENABLE_TRIGGER1, READOUT_MODE, NEG_TRIGGER,
     ACAL_EN, DACTIVE, ENABLE_TRIGGER2}
      \cup IF type \in {5, 7} THEN {TR_SOURCE1, TR_SOURCE2} ELSE {}

WordFollows(n, w) ==
    /\ n > 4 => (TRANSP_MODE \in w <=> (newFw /\ odb["TranspMode"]))
    /\ n > 5 => (DACTIVE \in w <=> odb["DominoActive"])
    /\ (n > 6 /\ type = 9) => (NEG_TRIGGER \in w <=> odb["TriggerPolarity"] = "FALLING")
    /\ n > 7 => (READOUT_MODE \in w <=> odb["ReadoutMode"] = "FROM_STOP")
    /\ n > 8 => (TCAL_EN \in w <=> odb["EnableTcal"])
    /\ n > 9 => /\ ENABLE_TRIGGER1 \in w <=> type \in {8, 9}
                /\ ENABLE_TRIGGER2 \in w <=> type \in {5, 7}
    /\ (n > 10 /\ type \in {5, 7}) => /\ TR_SOURCE1 \in w <=> 0 \in SourceMask(odb)
                                      /\ TR_SOURCE2 \in w <=> 1 \in SourceMask(odb)
    /\ n > 15 => ACAL_EN \notin w

Rate == odb["Sampling Rate"]

Clean(n, w) == (n > 11 /\ InRange(Rate)) => w \cap Trigs = {}

Held(n, s) == WordFollows(n, s.bits) /\ WordFollows(n, s.ctrl) /\ Clean(n, s.bits)

Registered(n, rg) ==
    /\ n > 2 => rg["range"] = odb["InputRange"]
    /\ (n > 10 /\ type \in {8, 9}) => rg["trigger"] = SourceMask(odb)
    /\ (n > 11 /\ InRange(Rate)) => rg["frequency"] = Rate
    /\ n > 13 => rg["delay"] = <<Rate, odb["TriggerDelayNs"]>>
    /\ (n > 14 /\ type \in {8, 9}) => rg["levels"] = odb["TriggerLevel"]

(* The registers when the call a thread is in has done its write.           *)
RegAfter(q, rg) ==
    IF q # << >> /\ Head(q).op = "put" THEN [rg EXCEPT ![Head(q).reg] = Head(q).val] ELSE rg

(* The steps q of the n-th call do their part.                              *)
FitsWord(n, q) ==
    \A s : (s.bits \subseteq Used /\ Held(n, s)) => \E e : Leads(q, s, e) /\ Held(n + 1, e)

FitsRegister(n, q) ==
    \A rg : (DOMAIN rg = Register /\ Registered(n, rg)) => Registered(n + 1, RegAfter(q, rg))

LEMMA SteadyRegister ==
    ASSUME NEW q, NEW u, Steady(q, u), NEW rg PROVE RegAfter(q, rg) = rg
<1>1. CASE q = << >>
  BY <1>1 DEF RegAfter
<1>2. CASE q # << >>
  <2>1. Len(q) \in Nat \ {0} /\ Head(q) = q[1]
    BY <1>2, TailSequence DEF Steady
  <2>2. 1 \in 1 .. Len(q)
    BY <2>1
  <2> QED
    BY <2>1, <2>2 DEF RegAfter, Steady, NoPut
<1> QED
  BY <1>1, <1>2

(* The calls that only assign a bit.                                        *)
LEMMA FitsSwitch ==
    ASSUME NEW n \in 2 .. 15, NEW bit, NEW flag, flag => bit \in Used,
           \A w : WordFollows(n, w) => WordFollows(n + 1, Assigned(w, bit, flag)),
           \A w : Clean(n, w) => Clean(n + 1, Assigned(w, bit, flag)),
           \A rg : Registered(n, rg) => Registered(n + 1, rg)
    PROVE  LET q == Switch(bit, flag) IN Written(q, Used) /\ FitsWord(n, q) /\ FitsRegister(n, q)
<1> DEFINE q == Switch(bit, flag)
<1>1. Steady(q, Used)
  BY SteadyAssign
<1>2. ASSUME NEW s, Held(n, s) PROVE \E e : Leads(q, s, e) /\ Held(n + 1, e)
  <2> DEFINE w == Assigned(s.bits, bit, flag)
             e == Word(w, w, {})
  <2>1. Leads(q, s, e)
    BY LeadsSwitch
  <2>2. WordFollows(n + 1, w) /\ Clean(n + 1, w)
    BY <1>2 DEF Held
  <2>3. e.bits = w /\ e.ctrl = w
    BY DEF Word
  <2>4. Held(n + 1, e)
    BY ONLY <2>2, <2>3 DEF Held
  <2> QED
    BY <2>1, <2>4
<1> HIDE DEF q
<1>3. \A rg : RegAfter(q, rg) = rg
  BY <1>1, SteadyRegister
<1>4. Written(q, Used) /\ FitsWord(n, q) /\ FitsRegister(n, q)
  BY <1>1, <1>2, <1>3, WrittenSteady DEF FitsWord, FitsRegister
<1> QED
  BY <1>4 DEF q

(* The calls that only write another register.                              *)
LEMMA FitsPut ==
    ASSUME NEW n \in 2 .. 15, NEW r \in Register, NEW v,
           \A w : WordFollows(n, w) => WordFollows(n + 1, w),
           \A w : Clean(n, w) => Clean(n + 1, w),
           \A rg : DOMAIN rg = Register /\ Registered(n, rg)
                      => Registered(n + 1, [rg EXCEPT ![r] = v])
    PROVE  LET q == <<Put(r, v)>> IN Written(q, Used) /\ FitsWord(n, q) /\ FitsRegister(n, q)
<1> DEFINE q == <<Put(r, v)>>
<1>1. q = q \o << >>
  OBVIOUS
<1>2. Written(q, Used) /\ q # << >> /\ Head(q) = Put(r, v)
  BY <1>1, WrittenPut, SteadyNothing
<1>3. ASSUME NEW s, Held(n, s) PROVE \E e : Leads(q, s, e) /\ Held(n + 1, e)
  <2> DEFINE e == Word(s.bits, s.ctrl, {})
  <2>1. Leads(q, s, e)
    BY LeadsPut
  <2>2. e.bits = s.bits /\ e.ctrl = s.ctrl
    BY DEF Word
  <2>3. Held(n + 1, e)
    BY <1>3, <2>2 DEF Held
  <2> QED
    BY <2>1, <2>3
<1> HIDE DEF q
<1>4. \A rg : RegAfter(q, rg) = [rg EXCEPT ![r] = v]
  <2>1. Head(q).op = "put" /\ Head(q).reg = r /\ Head(q).val = v
    BY <1>2 DEF Put
  <2> QED
    BY <1>2, <2>1, Zenon DEF RegAfter
<1>5. Written(q, Used) /\ FitsWord(n, q) /\ FitsRegister(n, q)
  BY <1>2, <1>3, <1>4 DEF FitsWord, FitsRegister
<1> QED
  BY <1>5 DEF q

LEMMA FitsNothing ==
    ASSUME NEW n \in 2 .. 15,
           \A w : WordFollows(n, w) => WordFollows(n + 1, w),
           \A w : Clean(n, w) => Clean(n + 1, w),
           \A rg : Registered(n, rg) => Registered(n + 1, rg)
    PROVE  Written(<< >>, Used) /\ FitsWord(n, << >>) /\ FitsRegister(n, << >>)
<1>1. Steady(<< >>, Used)
  BY SteadyNothing
<1>2. ASSUME NEW s, Held(n, s) PROVE \E e : Leads(<< >>, s, e) /\ Held(n + 1, e)
  BY <1>2, LeadsNothing DEF Held
<1>3. \A rg : RegAfter(<< >>, rg) = rg
  BY <1>1, SteadyRegister
<1> QED
  BY <1>1, <1>2, <1>3, WrittenSteady DEF FitsWord, FitsRegister

-----------------------------------------------------------------------------
(* The calls of apply_board_config(), one after the other.                  *)
Fits(n, q) == Written(q, Used) /\ FitsWord(n, q) /\ FitsRegister(n, q)

LEMMA FitsInputRange == Fits(2, SetInputRange(odb["InputRange"]))
<1>1. /\ \A w : WordFollows(2, w) => WordFollows(2 + 1, w)
      /\ \A w : Clean(2, w) => Clean(2 + 1, w)
  BY DEF WordFollows, Clean
<1>2. \A rg : DOMAIN rg = Register /\ Registered(2, rg)
                 => Registered(2 + 1, [rg EXCEPT !["range"] = odb["InputRange"]])
  BY DEF Registered, Register
<1>3. "range" \in Register /\ 2 \in 2 .. 15
  BY DEF Register
<1> QED
  BY <1>1, <1>2, <1>3, FitsPut DEF Fits, SetInputRange

LEMMA FitsDecimation == Fits(3, SetDecimation(FALSE))
<1>1. \A w : WordFollows(3, w) => WordFollows(3 + 1, Assigned(w, DECIMATION, FALSE))
  BY DEF WordFollows
<1>2. \A w : Clean(3, w) => Clean(3 + 1, Assigned(w, DECIMATION, FALSE))
  BY DEF Clean
<1>3. \A rg : Registered(3, rg) => Registered(3 + 1, rg)
  BY DEF Registered
<1>4. 3 \in 2 .. 15
  OBVIOUS
<1> QED
  BY <1>1, <1>2, <1>3, <1>4, FitsSwitch DEF Fits, SetDecimation

LEMMA FitsTranspMode == Fits(4, SetTranspMode(newFw /\ odb["TranspMode"]))
<1> DEFINE flag == newFw /\ odb["TranspMode"]
<1>1. \A w : WordFollows(4, w) => WordFollows(4 + 1, Assigned(w, TRANSP_MODE, flag))
  BY DEF WordFollows, Assigned, TRANSP_MODE
<1>2. \A w : Clean(4, w) => Clean(4 + 1, Assigned(w, TRANSP_MODE, flag))
  BY DEF Clean
<1>3. \A rg : Registered(4, rg) => Registered(4 + 1, rg)
  BY DEF Registered
<1>4. 4 \in 2 .. 15 /\ TRANSP_MODE \in Used
  BY DEF Used
<1> HIDE DEF flag
<1>5. Fits(4, SetTranspMode(flag))
  BY <1>1, <1>2, <1>3, <1>4, FitsSwitch DEF Fits, SetTranspMode
<1> QED
  BY <1>5 DEF flag

LEMMA FitsDominoActive == Fits(5, SetDominoActive(odb["DominoActive"]))
<1> DEFINE flag == odb["DominoActive"]
<1>1. \A w : WordFollows(5, w) => WordFollows(5 + 1, Assigned(w, DACTIVE, flag))
  BY DEF WordFollows, Assigned, DACTIVE, TRANSP_MODE
<1>2. \A w : Clean(5, w) => Clean(5 + 1, Assigned(w, DACTIVE, flag))
  BY DEF Clean
<1>3. \A rg : Registered(5, rg) => Registered(5 + 1, rg)
  BY DEF Registered
<1>4. 5 \in 2 .. 15 /\ DACTIVE \in Used
  BY DEF Used
<1> HIDE DEF flag
<1>5. Fits(5, SetDominoActive(flag))
  BY <1>1, <1>2, <1>3, <1>4, FitsSwitch DEF Fits, SetDominoActive
<1> QED
  BY <1>5 DEF flag

LEMMA FitsTriggerPolarity == Fits(6, SetTriggerPolarity(odb["TriggerPolarity"] = "FALLING"))
<1> DEFINE flag == odb["TriggerPolarity"] = "FALLING"
<1>1. \A w : WordFollows(6, w) => WordFollows(6 + 1, Assigned(w, NEG_TRIGGER, flag))
  BY DEF WordFollows, Assigned, NEG_TRIGGER, DACTIVE, TRANSP_MODE
<1>2. \A w : Clean(6, w) => Clean(6 + 1, Assigned(w, NEG_TRIGGER, flag))
  BY DEF Clean
<1>3. \A rg : Registered(6, rg) => Registered(6 + 1, rg)
  BY DEF Registered
<1>4. 6 \in 2 .. 15 /\ NEG_TRIGGER \in Used
  BY DEF Used
<1> HIDE DEF flag
<1>5. Fits(6, SetTriggerPolarity(flag))
  BY <1>1, <1>2, <1>3, <1>4, FitsSwitch DEF Fits, SetTriggerPolarity
<1> QED
  BY <1>5 DEF flag

LEMMA FitsReadoutMode == Fits(7, SetReadoutMode(odb["ReadoutMode"] = "FROM_STOP"))
<1> DEFINE flag == odb["ReadoutMode"] = "FROM_STOP"
<1>1. \A w : WordFollows(7, w) => WordFollows(7 + 1, Assigned(w, READOUT_MODE, flag))
  BY DEF WordFollows, Assigned, READOUT_MODE, NEG_TRIGGER, DACTIVE, TRANSP_MODE
<1>2. \A w : Clean(7, w) => Clean(7 + 1, Assigned(w, READOUT_MODE, flag))
  BY DEF Clean
<1>3. \A rg : Registered(7, rg) => Registered(7 + 1, rg)
  BY DEF Registered
<1>4. 7 \in 2 .. 15 /\ READOUT_MODE \in Used
  BY DEF Used
<1> HIDE DEF flag
<1>5. Fits(7, SetReadoutMode(flag))
  BY <1>1, <1>2, <1>3, <1>4, FitsSwitch DEF Fits, SetReadoutMode
<1> QED
  BY <1>5 DEF flag

(* The calls that send more than one assignment at a time.                  *)
LEMMA FitsSent ==
    ASSUME NEW n \in 2 .. 10, NEW q, Steady(q, Used),
           \A s : Held(n, s) => \E w : Leads(q, s, Word(w, w, {})) /\ WordFollows(n + 1, w),
           \A rg : Registered(n, rg) => Registered(n + 1, rg)
    PROVE  Fits(n, q)
<1>1. ASSUME NEW s, Held(n, s) PROVE \E e : Leads(q, s, e) /\ Held(n + 1, e)
  <2>1. PICK w : Leads(q, s, Word(w, w, {})) /\ WordFollows(n + 1, w)
    BY <1>1
  <2>2. Held(n + 1, Word(w, w, {}))
    BY <2>1 DEF Held, Word, Clean
  <2> QED
    BY <2>1, <2>2
<1>2. \A rg : RegAfter(q, rg) = rg
  BY SteadyRegister
<1> QED
  BY <1>1, <1>2, WrittenSteady DEF Fits, FitsWord, FitsRegister

(* The clock comes through the calibration switches on type 9; on the       *)
(* others the polarity's bit is cleared.                                    *)
LEMMA FitsEnableTcal == ASSUME type \in EvaluationBoard PROVE Fits(8, EnableTcal(type, odb["EnableTcal"], FALSE))
<1> DEFINE flag == odb["EnableTcal"]
<1> USE DEF TCAL_EN, TCAL_SOURCE, ACAL_EN, READOUT_MODE, NEG_TRIGGER, DACTIVE, TRANSP_MODE
<1>1. 8 \in 2 .. 10 /\ (\A rg : Registered(8, rg) => Registered(8 + 1, rg))
  BY DEF Registered
<1>2. TCAL_EN \in Used /\ ACAL_EN \in Used
  BY DEF Used
<1>3. CASE type = 9
  <2> DEFINE set == IF flag THEN {TCAL_EN, ACAL_EN} ELSE {}
             clear == IF flag THEN {} ELSE {TCAL_EN, ACAL_EN}
             u == Update(set, clear)
             q == Append(u, Send)
  <2>1. EnableTcal(type, flag, FALSE) = q
    BY <1>3 DEF EnableTcal
  <2>2. set \subseteq Used
    BY <1>2
  <2>3. Steady(u, Used)
    BY <2>2, SteadyUpdate
  <2>4. Steady(q, Used)
    BY <2>3, SteadySent
  <2>5. ASSUME NEW s, Held(8, s) PROVE \E w : Leads(q, s, Word(w, w, {})) /\ WordFollows(8 + 1, w)
    <3> DEFINE w == (s.bits \ clear) \cup set
    <3>1. Leads(u, s, Word(w, s.ctrl, {}))
      BY LeadsUpdate
    <3>2. Sequence(u)
      BY <2>3 DEF Steady
    <3>3. Leads(q, s, Word(w, w, {}))
      BY <3>1, <3>2, LeadsSent
    <3>4. WordFollows(8 + 1, w)
      BY <2>5, <1>3 DEF Held, WordFollows
    <3> QED
      BY <3>3, <3>4
  <2> HIDE DEF q
  <2>6. Fits(8, q)
    BY <1>1, <2>4, <2>5, FitsSent
  <2> QED
    BY <2>1, <2>6
<1>4. CASE type # 9
  <2> DEFINE set == IF flag THEN {TCAL_EN} ELSE {}
             clear == IF flag THEN {} ELSE {TCAL_EN, TCAL_SOURCE}
             u == Update(set, clear)
             v == Switch(NEG_TRIGGER, FALSE)
             q == u \o v
  <2>1. EnableTcal(type, flag, FALSE) = q
    BY <1>4 DEF EnableTcal
  <2>2. set \subseteq Used
    BY <1>2
  <2>7. Steady(u, Used)
    BY <2>2, SteadyUpdate
  <2>8. Steady(v, Used)
    BY SteadyAssign
  <2>3. Steady(u, Used) /\ Steady(v, Used)
    BY <2>7, <2>8
  <2>4. Steady(q, Used)
    BY <2>3, SteadyOn
  <2>5. ASSUME NEW s, Held(8, s) PROVE \E w : Leads(q, s, Word(w, w, {})) /\ WordFollows(8 + 1, w)
    <3> DEFINE m == Word((s.bits \ clear) \cup set, s.ctrl, {})
               w == Assigned(m.bits, NEG_TRIGGER, FALSE)
    <3>1. Leads(u, s, m)
      BY LeadsUpdate
    <3>2. Leads(v, m, Word(w, w, {}))
      BY LeadsSwitch
    <3>3. Sequence(u) /\ Sequence(v)
      BY <2>3 DEF Steady
    <3>4. m.bits = (s.bits \ clear) \cup set
      BY DEF Word
    <3> HIDE DEF m, u, v
    <3>5. Leads(q, s, Word(w, w, {}))
      BY <3>1, <3>2, <3>3, LeadsOn
    <3>6. w = ((s.bits \ clear) \cup set) \ {NEG_TRIGGER}
      BY <3>4 DEF Assigned
    <3>7. WordFollows(8 + 1, w)
      <4>1. WordFollows(8, s.bits)
        BY <2>5 DEF Held
      <4>2. \A b : b # TCAL_SOURCE /\ b # NEG_TRIGGER /\ b # TCAL_EN => (b \in w <=> b \in s.bits)
        BY <3>6
      <4>3. TCAL_EN \in w <=> flag
        <5>1. CASE flag
          <6>1. TCAL_EN \in set
            BY <5>1
          <6>2. TCAL_EN # NEG_TRIGGER
            OBVIOUS
          <6>3. TCAL_EN \in w
            BY <3>6, <6>1, <6>2
          <6> QED
            BY <5>1, <6>3
        <5>2. CASE ~flag
          <6>1. TCAL_EN \in clear /\ TCAL_EN \notin set
            BY <5>2
          <6> QED
            BY <3>6, <5>2, <6>1
        <5> QED
          BY <5>1, <5>2
      <4> HIDE DEF w
      <4> QED
        BY ONLY <1>4, <4>1, <4>2, <4>3 DEF WordFollows, TCAL_EN, TCAL_SOURCE, READOUT_MODE,
              NEG_TRIGGER, DACTIVE, TRANSP_MODE
    <3> QED
      BY <3>5, <3>7
  <2> HIDE DEF q
  <2>6. Fits(8, q)
    BY <1>1, <2>4, <2>5, FitsSent
  <2> QED
    BY <2>1, <2>6
<1> QED
  BY <1>3, <1>4

(* Two assignments, of which the second is sent.                            *)
LEMMA LeadsPair ==
    ASSUME NEW b1, NEW f1, NEW b2, NEW f2, NEW s, f1 => b1 \in Used, f2 => b2 \in Used
    PROVE  LET q == Assign(b1, f1) \o Switch(b2, f2)
               w == Assigned(Assigned(s.bits, b1, f1), b2, f2)
           IN  Steady(q, Used) /\ Leads(q, s, Word(w, w, {}))
<1> DEFINE u == Assign(b1, f1)
           v == Switch(b2, f2)
           m == Word(Assigned(s.bits, b1, f1), s.ctrl, {})
           w == Assigned(m.bits, b2, f2)
<1>1. Steady(u, Used) /\ Steady(v, Used)
  BY SteadyAssign
<1>2. Steady(u \o v, Used)
  BY <1>1, SteadyOn
<1>3. Leads(u, s, m) /\ Leads(v, m, Word(w, w, {}))
  BY LeadsAssign, LeadsSwitch
<1>4. Sequence(u) /\ Sequence(v)
  BY <1>1 DEF Steady
<1>5. m.bits = Assigned(s.bits, b1, f1)
  BY DEF Word
<1> HIDE DEF m, u, v
<1>6. Leads(u \o v, s, Word(w, w, {}))
  BY <1>3, <1>4, LeadsOn
<1> QED
  BY <1>2, <1>5, <1>6 DEF u, v

LEMMA FitsEnableTrigger ==
    ASSUME type \in EvaluationBoard
    PROVE  Fits(9, EnableTrigger(type \in {8, 9}, type \notin {8, 9}))
<1> DEFINE f1 == type \in {8, 9}
           f2 == type \notin {8, 9}
           q == Assign(ENABLE_TRIGGER1, f1) \o Switch(ENABLE_TRIGGER2, f2)
<1>1. 9 \in 2 .. 10 /\ (\A rg : Registered(9, rg) => Registered(9 + 1, rg))
  BY DEF Registered
<1>2. ENABLE_TRIGGER1 \in Used /\ ENABLE_TRIGGER2 \in Used
  BY DEF Used
<1>3. ASSUME NEW s, Held(9, s)
      PROVE  Steady(q, Used) /\ \E w : Leads(q, s, Word(w, w, {})) /\ WordFollows(9 + 1, w)
  <2> DEFINE w == Assigned(Assigned(s.bits, ENABLE_TRIGGER1, f1), ENABLE_TRIGGER2, f2)
  <2>1. Steady(q, Used) /\ Leads(q, s, Word(w, w, {}))
    BY <1>2, LeadsPair
  <2>2. WordFollows(9 + 1, w)
    BY <1>3 DEF Held, WordFollows, Assigned, EvaluationBoard, TCAL_EN, READOUT_MODE, NEG_TRIGGER,
                DACTIVE, TRANSP_MODE, ENABLE_TRIGGER1, ENABLE_TRIGGER2
  <2> QED
    BY <2>1, <2>2
<1>4. Steady(q, Used)
  BY <1>2, LeadsPair
<1>5. EnableTrigger(f1, f2) = q
  BY DEF EnableTrigger
<1> HIDE DEF q
<1>6. Fits(9, q)
  BY <1>1, <1>3, <1>4, FitsSent
<1> QED
  BY <1>5, <1>6

LEMMA FitsTriggerSource ==
    ASSUME type \in EvaluationBoard PROVE Fits(10, SetTriggerSource(type, SourceMask(odb)))
<1> DEFINE mask == SourceMask(odb)
<1>1. CASE type \in {5, 7}
  <2> DEFINE q == Assign(TR_SOURCE1, 0 \in mask) \o Switch(TR_SOURCE2, 1 \in mask)
  <2>1. 10 \in 2 .. 10 /\ (\A rg : Registered(10, rg) => Registered(10 + 1, rg))
    BY <1>1 DEF Registered
  <2>2. TR_SOURCE1 \in Used /\ TR_SOURCE2 \in Used
    BY <1>1 DEF Used
  <2>3. ASSUME NEW s, Held(10, s)
        PROVE  \E w : Leads(q, s, Word(w, w, {})) /\ WordFollows(10 + 1, w)
    <3> DEFINE w == Assigned(Assigned(s.bits, TR_SOURCE1, 0 \in mask), TR_SOURCE2, 1 \in mask)
    <3>1. Leads(q, s, Word(w, w, {}))
      BY <2>2, LeadsPair
    <3> HIDE DEF mask
    <3>2. w = Assigned(Assigned(s.bits, TR_SOURCE1, 0 \in mask), TR_SOURCE2, 1 \in mask)
      OBVIOUS
    <3>3. WordFollows(10 + 1, w)
      <4>1. WordFollows(10, s.bits)
        BY <2>3 DEF Held
      <4> QED
        BY <1>1, <4>1 DEF WordFollows, Assigned, TCAL_EN, READOUT_MODE, NEG_TRIGGER, mask,
              DACTIVE, TRANSP_MODE, ENABLE_TRIGGER1, ENABLE_TRIGGER2, TR_SOURCE1, TR_SOURCE2
    <3> QED
      BY <3>1, <3>3
  <2>4. Steady(q, Used)
    BY <2>2, LeadsPair
  <2>5. SetTriggerSource(type, mask) = q
    BY <1>1 DEF SetTriggerSource
  <2> HIDE DEF q
  <2>6. Fits(10, q)
    BY <2>1, <2>3, <2>4, FitsSent
  <2> QED
    BY <2>5, <2>6
<1>2. CASE type \notin {5, 7}
  <2>1. /\ \A w : WordFollows(10, w) => WordFollows(10 + 1, w)
        /\ \A w : Clean(10, w) => Clean(10 + 1, w)
    BY <1>2 DEF WordFollows, Clean
  <2>2. \A rg : DOMAIN rg = Register /\ Registered(10, rg)
                   => Registered(10 + 1, [rg EXCEPT !["trigger"] = mask])
    BY DEF Registered, Register
  <2>3. "trigger" \in Register /\ 10 \in 2 .. 15
    BY DEF Register
  <2>4. SetTriggerSource(type, mask) = <<Put("trigger", mask)>>
    BY <1>2 DEF SetTriggerSource
  <2> HIDE DEF mask
  <2> QED
    BY <2>1, <2>2, <2>3, <2>4, FitsPut DEF Fits, mask
<1> QED
  BY <1>1, <1>2

LEMMA WrittenOn ==
    ASSUME NEW q, NEW r, NEW u, Written(q, u), q # << >>, Steady(r, u)
    PROVE  Written(q \o r, u) /\ q \o r # << >> /\ Head(q \o r) = Head(q)
<1>1. Sequence(q) /\ Sequence(r)
  BY DEF Written, Steady
<1>2. /\ Sequence(q \o r) /\ Len(q) \in Nat /\ Len(r) \in Nat
      /\ Len(q \o r) = Len(q) + Len(r)
      /\ \A k \in 1 .. Len(q) : (q \o r)[k] = q[k]
  BY ONLY <1>1, ConcatSequence
<1>3. Len(q) \in Nat \ {0} /\ Head(q) = q[1]
  BY <1>1, TailSequence
<1>4. q \o r # << >>
  BY <1>2, <1>3, EmptySequence
<1>5. Head(q \o r) = (q \o r)[1]
  BY <1>2, <1>4, TailSequence
<1>6. ASSUME NEW k \in 1 .. Len(q \o r)
      PROVE  /\ (q \o r)[k].op = "store" => (q \o r)[k].set \subseteq u
             /\ (q \o r)[k].op = "put" => k = 1
  <2>1. CASE k \in 1 .. Len(q) /\ (q \o r)[k] = q[k]
    BY <2>1 DEF Written, Sets, PutFirst
  <2>2. CASE \E j \in 1 .. Len(r) : k = Len(q) + j /\ (q \o r)[k] = r[j]
    BY <2>2 DEF Steady, Sets, NoPut
  <2>3. \/ k \in 1 .. Len(q) /\ (q \o r)[k] = q[k]
        \/ \E j \in 1 .. Len(r) : k = Len(q) + j /\ (q \o r)[k] = r[j]
    BY ONLY <1>1, IndexOf
  <2> QED
    BY <2>1, <2>2, <2>3
<1> QED
  BY <1>2, <1>3, <1>4, <1>5, <1>6 DEF Written, Sets, PutFirst

(* SetFrequency() starts and triggers the board: of the bits it pulses none *)
(* is left, whatever a race left before.                                    *)
LEMMA FitsFrequency == Fits(11, SetFrequency(Rate, InRange(Rate)))
<1>1. CASE ~InRange(Rate)
  <2>1. /\ \A w : WordFollows(11, w) => WordFollows(11 + 1, w)
        /\ \A w : Clean(11, w) => Clean(11 + 1, w)
        /\ \A rg : Registered(11, rg) => Registered(11 + 1, rg)
    BY <1>1 DEF WordFollows, Clean, Registered
  <2>2. SetFrequency(Rate, InRange(Rate)) = << >> /\ 11 \in 2 .. 15
    BY <1>1 DEF SetFrequency
  <2> QED
    BY <2>1, <2>2, FitsNothing DEF Fits
<1>2. CASE InRange(Rate)
  <2> DEFINE p == <<Put("frequency", Rate)>>
             a == p \o StartDomino
             q == a \o SoftTrigger
  <2>1. SetFrequency(Rate, InRange(Rate)) = q
    BY <1>2 DEF SetFrequency
  <2>2. Steady(StartDomino, Used) /\ Steady(SoftTrigger, Used)
    <3>1. START_TRIG \in Used /\ SOFT_TRIG \in Used
      BY DEF Used
    <3> QED
      BY <3>1, SteadyPulse DEF StartDomino, SoftTrigger
  <2>3. Written(a, Used) /\ a # << >> /\ Head(a) = Put("frequency", Rate)
    BY <2>2, WrittenPut
  <2>4. Written(q, Used) /\ q # << >> /\ Head(q) = Put("frequency", Rate)
    <3> HIDE DEF a
    <3> QED
      BY <2>2, <2>3, WrittenOn
  <2>5. FitsRegister(11, q)
    <3>1. \A rg : RegAfter(q, rg) = [rg EXCEPT !["frequency"] = Rate]
      <4>1. /\ Head(q).op = "put" /\ Head(q).reg = "frequency" /\ Head(q).val = Rate
            /\ q # << >>
        BY <2>4 DEF Put
      <4> HIDE DEF q
      <4> QED
        BY <4>1, Zenon DEF RegAfter
    <3> HIDE DEF q
    <3>2. \A rg : DOMAIN rg = Register /\ Registered(11, rg)
                     => Registered(11 + 1, [rg EXCEPT !["frequency"] = Rate])
      BY DEF Registered, Register
    <3> QED
      BY <3>1, <3>2 DEF FitsRegister
  <2>6. ASSUME NEW s, s.bits \subseteq Used, Held(11, s)
        PROVE  \E e : Leads(q, s, e) /\ Held(11 + 1, e)
    <3> DEFINE m == Word(s.bits, s.ctrl, {})
               n == Word(m.bits \ {START_TRIG}, m.bits \cup {START_TRIG}, {})
               e == Word(n.bits \ {SOFT_TRIG}, n.bits \cup {SOFT_TRIG}, {})
    <3>1. /\ m.bits = s.bits /\ n.bits = s.bits \ {START_TRIG}
          /\ e.bits = (s.bits \ {START_TRIG}) \ {SOFT_TRIG}
          /\ e.ctrl = (s.bits \ {START_TRIG}) \cup {SOFT_TRIG}
      BY DEF Word
    <3>2. Sequence(p) /\ Leads(p, s, m)
      BY LeadsPut
    <3>3. Sequence(StartDomino) /\ Leads(StartDomino, m, n)
      BY LeadsPulse DEF StartDomino
    <3>4. Sequence(SoftTrigger) /\ Leads(SoftTrigger, n, e)
      BY LeadsPulse DEF SoftTrigger
    <3> HIDE DEF m, n, e, p
    <3>5. Sequence(a) /\ Leads(a, s, n)
      BY <3>2, <3>3, LeadsOn, ConcatSequence
    <3> HIDE DEF a
    <3>6. Leads(q, s, e)
      BY <3>4, <3>5, LeadsOn
    <3>7. WordFollows(11, s.bits)
      BY <2>6 DEF Held
    <3>8. WordFollows(11 + 1, e.bits) /\ WordFollows(11 + 1, e.ctrl)
      <4>1. \A b : b # START_TRIG /\ b # SOFT_TRIG
                     => (b \in e.bits <=> b \in s.bits) /\ (b \in e.ctrl <=> b \in s.bits)
        BY <3>1
      <4> QED
        BY ONLY <3>7, <4>1 DEF WordFollows, TCAL_EN, READOUT_MODE, NEG_TRIGGER, DACTIVE,
              TRANSP_MODE, ENABLE_TRIGGER1, ENABLE_TRIGGER2, TR_SOURCE1, TR_SOURCE2, ACAL_EN,
              START_TRIG, SOFT_TRIG
    <3>9. e.bits \cap Trigs = {}
      <4>1. REINIT_TRIG \notin Used /\ EEPROM_READ_TRIG \notin Used
        BY DEF Used, REINIT_TRIG, EEPROM_READ_TRIG, START_TRIG, SOFT_TRIG, TCAL_EN, READOUT_MODE,
              NEG_TRIGGER, DACTIVE, TRANSP_MODE, ENABLE_TRIGGER1, ENABLE_TRIGGER2, TR_SOURCE1,
              TR_SOURCE2, ACAL_EN
      <4> QED
        BY <2>6, <3>1, <4>1 DEF Trigs
    <3> QED
      BY <3>6, <3>8, <3>9 DEF Held, Clean
  <2> HIDE DEF q
  <2>7. FitsWord(11, q)
    BY <2>6 DEF FitsWord
  <2> QED
    BY <2>1, <2>4, <2>5, <2>7 DEF Fits
<1> QED
  BY <1>1, <1>2

LEMMA FitsDominoMode == Fits(12, SetDominoMode(1))
<1>1. /\ \A w : WordFollows(12, w) => WordFollows(12 + 1, w)
      /\ \A w : Clean(12, w) => Clean(12 + 1, w)
  BY DEF WordFollows, Clean
<1>2. \A rg : DOMAIN rg = Register /\ Registered(12, rg)
                 => Registered(12 + 1, [rg EXCEPT !["dominoMode"] = 1])
  BY DEF Registered, Register
<1>3. "dominoMode" \in Register /\ 12 \in 2 .. 15
  BY DEF Register
<1> QED
  BY <1>1, <1>2, <1>3, FitsPut DEF Fits, SetDominoMode

LEMMA FitsTriggerDelay == Fits(13, SetTriggerDelay(<<Rate, odb["TriggerDelayNs"]>>))
<1> DEFINE v == <<Rate, odb["TriggerDelayNs"]>>
<1>1. /\ \A w : WordFollows(13, w) => WordFollows(13 + 1, w)
      /\ \A w : Clean(13, w) => Clean(13 + 1, w)
  BY DEF WordFollows, Clean
<1>2. \A rg : DOMAIN rg = Register /\ Registered(13, rg)
                 => Registered(13 + 1, [rg EXCEPT !["delay"] = v])
  BY DEF Registered, Register
<1>3. "delay" \in Register /\ 13 \in 2 .. 15
  BY DEF Register
<1> HIDE DEF v
<1>4. Fits(13, SetTriggerDelay(v))
  BY <1>1, <1>2, <1>3, FitsPut DEF Fits, SetTriggerDelay
<1> QED
  BY <1>4 DEF v

(* The bits and the other registers of the delay do not depend on it.       *)
LEMMA WrittenTriggerDelay ==
    ASSUME NEW v PROVE Written(SetTriggerDelay(v), Used) /\ FitsWord(13, SetTriggerDelay(v))
<1> DEFINE q == <<Put("delay", v)>>
<1>1. q = q \o << >>
  OBVIOUS
<1>2. Written(q, Used)
  BY <1>1, WrittenPut, SteadyNothing
<1>3. ASSUME NEW s, Held(13, s) PROVE \E e : Leads(q, s, e) /\ Held(13 + 1, e)
  <2> DEFINE e == Word(s.bits, s.ctrl, {})
  <2>1. Leads(q, s, e)
    BY LeadsPut
  <2>2. e.bits = s.bits /\ e.ctrl = s.ctrl
    BY DEF Word
  <2>3. Held(13 + 1, e)
    BY <1>3, <2>2 DEF Held, WordFollows, Clean
  <2> QED
    BY <2>1, <2>3
<1> QED
  BY <1>2, <1>3 DEF SetTriggerDelay, FitsWord

LEMMA FitsTriggerLevels ==
    ASSUME type \in EvaluationBoard
    PROVE  Fits(14, SetIndividualTriggerLevels(type, odb["TriggerLevel"]))
<1>1. /\ \A w : WordFollows(14, w) => WordFollows(14 + 1, w)
      /\ \A w : Clean(14, w) => Clean(14 + 1, w)
  BY DEF WordFollows, Clean
<1>2. 14 \in 2 .. 15
  OBVIOUS
<1>3. CASE type \in {8, 9}
  <2>1. \A rg : DOMAIN rg = Register /\ Registered(14, rg)
                   => Registered(14 + 1, [rg EXCEPT !["levels"] = odb["TriggerLevel"]])
    BY DEF Registered, Register
  <2>2. "levels" \in Register
    BY DEF Register
  <2> QED
    BY <1>1, <1>2, <1>3, <2>1, <2>2, FitsPut DEF Fits, SetIndividualTriggerLevels
<1>4. CASE type \notin {8, 9}
  <2>1. \A rg : Registered(14, rg) => Registered(14 + 1, rg)
    BY <1>4 DEF Registered
  <2>2. SetIndividualTriggerLevels(type, odb["TriggerLevel"]) = << >>
    BY <1>4 DEF SetIndividualTriggerLevels
  <2> QED
    BY <1>1, <1>2, <2>1, <2>2, FitsNothing DEF Fits
<1> QED
  BY <1>3, <1>4

LEMMA FitsEnableAcal == Fits(15, EnableAcalOff(type))
<1> DEFINE v == IF type = 5 THEN "zero" ELSE "common"
           p == <<Put("calib", v)>>
           a == Switch(ACAL_EN, FALSE)
           q == p \o a
<1>1. Steady(a, Used)
  BY SteadyAssign
<1>2. Written(q, Used) /\ q # << >> /\ Head(q) = Put("calib", v)
  <2> HIDE DEF v, a
  <2> QED
    BY <1>1, WrittenPut
<1>3. FitsRegister(15, q)
  <2>1. \A rg : RegAfter(q, rg) = [rg EXCEPT !["calib"] = v]
    <3>1. /\ Head(q).op = "put" /\ Head(q).reg = "calib" /\ Head(q).val = v
          /\ q # << >>
      BY <1>2 DEF Put
    <3> HIDE DEF q, v
    <3> QED
      BY <3>1, Zenon DEF RegAfter
  <2> HIDE DEF q, v
  <2>2. \A rg : DOMAIN rg = Register /\ Registered(15, rg)
                   => Registered(15 + 1, [rg EXCEPT !["calib"] = v])
    BY DEF Registered, Register
  <2> QED
    BY <2>1, <2>2 DEF FitsRegister
<1>4. ASSUME NEW s, Held(15, s) PROVE \E e : Leads(q, s, e) /\ Held(15 + 1, e)
  <2> DEFINE m == Word(s.bits, s.ctrl, {})
             w == Assigned(m.bits, ACAL_EN, FALSE)
             e == Word(w, w, {})
  <2>1. w = s.bits \ {ACAL_EN} /\ e.bits = w /\ e.ctrl = w
    BY DEF Word, Assigned
  <2>2. Sequence(p) /\ Leads(p, s, m)
    BY LeadsPut
  <2>3. Sequence(a) /\ Leads(a, m, e)
    BY LeadsSwitch
  <2> HIDE DEF p, a, m, e, w
  <2>4. Leads(q, s, e)
    BY <2>2, <2>3, LeadsOn
  <2>5. WordFollows(15, s.bits) /\ Clean(15, s.bits)
    BY <1>4 DEF Held
  <2>6. WordFollows(15 + 1, w) /\ Clean(15 + 1, w)
    BY <2>1, <2>5 DEF WordFollows, Clean, TCAL_EN, READOUT_MODE, NEG_TRIGGER, DACTIVE,
          TRANSP_MODE, ENABLE_TRIGGER1, ENABLE_TRIGGER2, TR_SOURCE1, TR_SOURCE2, ACAL_EN
  <2>7. Held(15 + 1, e)
    BY <2>1, <2>6 DEF Held
  <2> QED
    BY <2>4, <2>7
<1>5. EnableAcalOff(type) = q
  BY DEF EnableAcalOff
<1> HIDE DEF q
<1> QED
  BY <1>2, <1>3, <1>4, <1>5 DEF Fits, FitsWord

LEMMA ApplyCallsAre ==
    /\ ApplyCalls[1] = "begin" /\ ApplyCalls[2] = "SetInputRange"
    /\ ApplyCalls[3] = "SetDecimation" /\ ApplyCalls[4] = "SetTranspMode"
    /\ ApplyCalls[5] = "SetDominoActive" /\ ApplyCalls[6] = "SetTriggerPolarity"
    /\ ApplyCalls[7] = "SetReadoutMode" /\ ApplyCalls[8] = "EnableTcal"
    /\ ApplyCalls[9] = "EnableTrigger" /\ ApplyCalls[10] = "SetTriggerSource"
    /\ ApplyCalls[11] = "SetFrequency" /\ ApplyCalls[12] = "SetDominoMode"
    /\ ApplyCalls[13] = "SetTriggerDelayNs" /\ ApplyCalls[14] = "SetIndividualTriggerLevel"
    /\ ApplyCalls[15] = "EnableAcal" /\ ApplyCalls[16] = "end"
    /\ Len(ApplyCalls) = 16 /\ Sequence(ApplyCalls)
<1>1. /\ Len(ApplyCalls) = 16
      /\ ApplyCalls \in
           Seq({"begin", "SetInputRange", "SetDecimation", "SetTranspMode", "SetDominoActive",
                "SetTriggerPolarity", "SetReadoutMode", "EnableTcal", "EnableTrigger",
                "SetTriggerSource", "SetFrequency", "SetDominoMode", "SetTriggerDelayNs",
                "SetIndividualTriggerLevel", "EnableAcal", "end"})
  BY DEF ApplyCalls
<1> QED
  BY <1>1 DEF ApplyCalls, Sequence

(* Each call does its part: the delay with the frequency it is given.       *)
LEMMA CallFits ==
    ASSUME type \in EvaluationBoard, NEW n \in 2 .. 15, NEW freq
    PROVE  LET q == Steps(ApplyCalls[n], odb, freq)
           IN  /\ Written(q, Used) /\ FitsWord(n, q)
               /\ (n > 11 => freq = Rate) => FitsRegister(n, q)
<1>0. n \in {2, 3, 4, 5, 6, 7, 8, 9, 10, 11, 12, 13, 14, 15}
  OBVIOUS
<1> USE ApplyCallsAre DEF Steps, Fits
<1>1. CASE n = 2
  BY <1>1, FitsInputRange
<1>2. CASE n = 3
  BY <1>2, FitsDecimation
<1>3. CASE n = 4
  BY <1>3, FitsTranspMode
<1>4. CASE n = 5
  BY <1>4, FitsDominoActive
<1>5. CASE n = 6
  BY <1>5, FitsTriggerPolarity
<1>6. CASE n = 7
  BY <1>6, FitsReadoutMode
<1>7. CASE n = 8
  BY <1>7, FitsEnableTcal
<1>8. CASE n = 9
  BY <1>8, FitsEnableTrigger
<1>9. CASE n = 10
  BY <1>9, FitsTriggerSource
<1>10. CASE n = 11
  BY <1>10, FitsFrequency DEF Rate
<1>11. CASE n = 12
  BY <1>11, FitsDominoMode
<1>12. CASE n = 13
  BY <1>12, FitsTriggerDelay, WrittenTriggerDelay
<1>13. CASE n = 14
  BY <1>13, FitsTriggerLevels
<1>14. CASE n = 15
  BY <1>14, FitsEnableAcal
<1> QED
  BY ONLY <1>0, <1>1, <1>2, <1>3, <1>4, <1>5, <1>6, <1>7, <1>8, <1>9, <1>10, <1>11, <1>12,
          <1>13, <1>14

-----------------------------------------------------------------------------
(* Init() of the board, whose pulses leave no bit behind.                   *)
Brings(q) ==
    /\ Sequence(q)
    /\ \A s : s.bits \subseteq Used => \E e : Leads(q, s, e) /\ e.bits \subseteq Used

LEMMA BringsOn == ASSUME NEW q, NEW r, Brings(q), Brings(r) PROVE Brings(q \o r)
<1>1. ASSUME NEW s, s.bits \subseteq Used
      PROVE  \E e : Leads(q \o r, s, e) /\ e.bits \subseteq Used
  <2>1. PICK m : Leads(q, s, m) /\ m.bits \subseteq Used
    BY <1>1 DEF Brings
  <2>2. PICK e : Leads(r, m, e) /\ e.bits \subseteq Used
    BY <2>1 DEF Brings
  <2> QED
    BY <2>1, <2>2, LeadsOn DEF Brings
<1> QED
  BY <1>1, ConcatSequence DEF Brings

LEMMA BringsTo ==
    ASSUME NEW q, Sequence(q),
           \A s : s.bits \subseteq Used => \E w, c : w \subseteq Used /\ Leads(q, s, Word(w, c, {}))
    PROVE  Brings(q)
<1>1. ASSUME NEW s, s.bits \subseteq Used
      PROVE  \E e : Leads(q, s, e) /\ e.bits \subseteq Used
  <2>1. PICK w, c : w \subseteq Used /\ Leads(q, s, Word(w, c, {}))
    BY <1>1
  <2>2. Word(w, c, {}).bits = w
    BY DEF Word
  <2> QED
    BY <2>1, <2>2
<1> QED
  BY <1>1 DEF Brings

LEMMA BringsPut == ASSUME NEW r, NEW v PROVE Brings(<<Put(r, v)>>)
<1>1. \A s : Leads(<<Put(r, v)>>, s, Word(s.bits, s.ctrl, {})) /\ Sequence(<<Put(r, v)>>)
  BY LeadsPut
<1> QED
  BY <1>1, BringsTo

LEMMA BringsUpdate ==
    ASSUME NEW set, NEW clear, set \subseteq Used PROVE Brings(Update(set, clear))
<1>1. \A s : /\ Leads(Update(set, clear), s, Word((s.bits \ clear) \cup set, s.ctrl, {}))
             /\ Sequence(Update(set, clear))
             /\ s.bits \subseteq Used => (s.bits \ clear) \cup set \subseteq Used
  BY LeadsUpdate
<1> QED
  BY <1>1, BringsTo

LEMMA BringsSend == Brings(<<Send>>)
<1>1. \A s : Leads(<<Send>>, s, Word(s.bits, s.bits, {})) /\ Sequence(<<Send>>)
  BY LeadsSend
<1> QED
  BY <1>1, BringsTo

LEMMA BringsAssign ==
    ASSUME NEW bit, NEW flag, flag => bit \in Used
    PROVE  Brings(Assign(bit, flag)) /\ Brings(Switch(bit, flag))
<1>1. Brings(Assign(bit, flag))
  <2>1. CASE flag
    BY <2>1, BringsUpdate DEF Assign
  <2>2. CASE ~flag
    BY <2>2, BringsUpdate DEF Assign
  <2> QED
    BY <2>1, <2>2
<1>2. Switch(bit, flag) = Assign(bit, flag) \o <<Send>>
  BY <1>1, AppendConcat DEF Switch, Brings
<1> QED
  BY <1>1, <1>2, BringsOn, BringsSend

LEMMA BringsPulse == ASSUME NEW bit PROVE Brings(Pulse(bit))
<1>1. \A s : /\ Leads(Pulse(bit), s, Word(s.bits \ {bit}, s.bits \cup {bit}, {}))
             /\ Sequence(Pulse(bit))
             /\ s.bits \subseteq Used => s.bits \ {bit} \subseteq Used
  BY LeadsPulse
<1> QED
  BY <1>1, BringsTo

LEMMA BringsNothing == Brings(<< >>)
  BY LeadsNothing, EmptySequence DEF Brings

LEMMA BoardInitBrings ==
    ASSUME type \in EvaluationBoard, NEW f, NEW r, NEW s, s.bits \subseteq Used
    PROVE  /\ Sequence(BoardInit(type, f, r))
           /\ \E e : /\ Leads(BoardInit(type, f, r), s, e)
                     /\ e.bits \subseteq Used /\ e.ctrl \subseteq Used \cup Trigs /\ e.load = {}
<1> USE BringsOn, BringsPulse
<1>1. Brings(Reinit) /\ Brings(StartDomino) /\ Brings(SoftTrigger)
  BY DEF Reinit, StartDomino, SoftTrigger
<1>2. Brings(<<Put("calib", "common")>>) /\ \A v : Brings(SetInputRange(v))
  BY BringsPut DEF SetInputRange
<1>3. Brings(SetTriggerDelay("none")) /\ Brings(SetDominoMode(1))
  BY BringsPut DEF SetTriggerDelay, SetDominoMode
<1>4. Brings(ReadCalibration)
  <2>1. \A p : Brings(ReadEEPROM(p))
    BY BringsPut DEF ReadEEPROM
  <2> QED
    BY <2>1 DEF ReadCalibration
<1>5. Brings(SetReadoutMode(TRUE)) /\ Brings(SetDominoActive(TRUE))
  <2>1. READOUT_MODE \in Used /\ DACTIVE \in Used
    BY DEF Used
  <2> QED
    BY <2>1, BringsAssign DEF SetReadoutMode, SetDominoActive
<1>6. \A b : Brings(Assign(b, FALSE)) /\ Brings(Switch(b, FALSE))
  BY BringsAssign
<1>7. Brings(EnableTrigger(FALSE, FALSE))
  BY <1>6 DEF EnableTrigger
<1>8. Brings(SetTriggerSource(type, {}))
  <2>1. \A b : Brings(Assign(b, 0 \in {})) /\ Brings(Switch(b, 1 \in {}))
    BY BringsAssign
  <2> QED
    BY <2>1, BringsPut DEF SetTriggerSource
<1>9. Brings(SetFrequency(f, TRUE))
  BY <1>1, BringsPut DEF SetFrequency
<1>10. Brings(SelectClockSource(type, FALSE))
  BY <1>6, BringsNothing DEF SelectClockSource
<1>11. Brings(EnableAcalOff(type))
  <2>1. \A v : Brings(<<Put("calib", v)>>)
    BY BringsPut
  <2> QED
    BY <1>6, <2>1 DEF EnableAcalOff
<1>12. Brings(EnableTcal(type, FALSE, FALSE))
  <2>1. \A c : Brings(Update({}, c))
    BY BringsUpdate
  <2>2. ASSUME NEW c PROVE Brings(Append(Update({}, c), Send))
    <3>1. Append(Update({}, c), Send) = Update({}, c) \o <<Send>>
      BY <2>1, AppendConcat DEF Brings
    <3> QED
      BY <2>1, <3>1, BringsSend
  <2> QED
    BY <1>6, <2>1, <2>2 DEF EnableTcal
<1> DEFINE a == Reinit \o <<Put("calib", "common")>> \o SetInputRange("default")
                  \o ReadCalibration \o SetDominoMode(1) \o SetReadoutMode(TRUE)
                  \o EnableTrigger(FALSE, FALSE)
           b == a \o SetTriggerSource(type, {}) \o SetTriggerDelay("none") \o SetDominoActive(TRUE)
                  \o SetFrequency(f, TRUE) \o SetInputRange(r)
           c == b \o SelectClockSource(type, FALSE) \o EnableAcalOff(type)
                  \o EnableTcal(type, FALSE, FALSE)
<1>13. BoardInit(type, f, r) = c \o Reinit
  BY DEF BoardInit
<1>14. Brings(a)
  BY <1>1, <1>2, <1>3, <1>4, <1>5, <1>7
<1> HIDE DEF a
<1>15. Brings(b)
  BY <1>14, <1>8, <1>3, <1>5, <1>9, <1>2
<1> HIDE DEF b
<1>16. Brings(c)
  BY <1>15, <1>10, <1>11, <1>12
<1> HIDE DEF c
<1>17. PICK m : Leads(c, s, m) /\ m.bits \subseteq Used
  BY <1>16 DEF Brings
<1> DEFINE e == Word(m.bits \ {REINIT_TRIG}, m.bits \cup {REINIT_TRIG}, {})
<1>18. Leads(Reinit, m, e) /\ Sequence(Reinit) /\ Sequence(c)
  BY <1>16, LeadsPulse DEF Reinit, Brings
<1>19. /\ e.bits = m.bits \ {REINIT_TRIG} /\ e.ctrl = m.bits \cup {REINIT_TRIG} /\ e.load = {}
  BY DEF Word
<1>20. e.bits \subseteq Used /\ e.ctrl \subseteq Used \cup Trigs
  BY <1>17, <1>19 DEF Trigs
<1> HIDE DEF e
<1>21. Leads(c \o Reinit, s, e) /\ Sequence(c \o Reinit)
  BY <1>17, <1>18, LeadsOn, ConcatSequence
<1> QED
  BY <1>13, <1>19, <1>20, <1>21

-----------------------------------------------------------------------------
(* The state, and what the actions do to it.                                *)
Record == {"calls", "todo", "bits", "freq"}

Types ==
    /\ type \in EvaluationBoard /\ watched \in Nat /\ DOMAIN reg = Register
    /\ DOMAIN th = Thread
    /\ \A t \in Thread : /\ DOMAIN th[t] = Record
                         /\ Sequence(th[t].calls) /\ Sequence(th[t].todo)
    /\ alone \subseteq Thread

Now(t) == Word(bits, ctrl, th[t].bits)

Others(t) == \A u \in Thread \ {t} : th'[u] = th[u]

LEMMA RunEffect ==
    ASSUME Types, NEW t \in Thread, NEW c, Run(t, c)
    PROVE  /\ DOMAIN th' = Thread /\ DOMAIN th'[t] = Record /\ Others(t)
           /\ th'[t].calls = c /\ th'[t].todo = th[t].todo
           /\ th'[t].bits = th[t].bits /\ th'[t].freq = th[t].freq
<1>1. th' = [th EXCEPT ![t] = [th[t] EXCEPT !.calls = c]]
  BY DEF Run
<1>2. DOMAIN th = Thread /\ DOMAIN th[t] = Record
  BY DEF Types
<1>3. th'[t] = [th[t] EXCEPT !.calls = c] /\ DOMAIN th' = Thread /\ Others(t)
  BY <1>1, <1>2 DEF Others
<1> QED
  BY <1>2, <1>3 DEF Record

FreqOf(call, freq) ==
    CASE call = "SetFrequency" -> odb["Sampling Rate"]
      [] call = "end"          -> "unset"
      [] OTHER                 -> freq

LEMMA CallEffect ==
    ASSUME Types, NEW t \in Thread, Call(t)
    PROVE  LET call == Head(th[t].calls)
               freq == FreqOf(call, th[t].freq)
           IN  /\ th[t].todo = << >> /\ th[t].calls # << >>
               /\ DOMAIN th' = Thread /\ DOMAIN th'[t] = Record /\ Others(t)
               /\ th'[t].calls = Tail(th[t].calls) /\ th'[t].todo = Steps(call, odb, freq)
               /\ th'[t].bits = th[t].bits /\ th'[t].freq = freq
               /\ UNCHANGED <<boardVars, odb, watched, hwVars, mpc, wpc, prev, active, inEnd>>
<1> DEFINE call == Head(th[t].calls)
           freq == FreqOf(call, th[t].freq)
           r1 == [th[t] EXCEPT !.calls = Tail(th[t].calls)]
           r2 == [r1 EXCEPT !.freq = freq]
           r3 == [r2 EXCEPT !.todo = Steps(call, odb, freq)]
<1>1. /\ th[t].todo = << >> /\ th[t].calls # << >>
      /\ th' = [th EXCEPT ![t].calls = Tail(th[t].calls), ![t].freq = freq,
                          ![t].todo = Steps(call, odb, freq)]
      /\ UNCHANGED <<boardVars, odb, watched, hwVars, mpc, wpc, prev, active, inEnd>>
  BY DEF Call, FreqOf
<1>2. DOMAIN th = Thread /\ DOMAIN th[t] = Record
  BY DEF Types
<1> HIDE DEF freq, call
<1>3. th'[t] = r3 /\ DOMAIN th' = Thread /\ Others(t)
  BY <1>1, <1>2 DEF Others
<1>4. /\ DOMAIN r3 = Record /\ r3.calls = Tail(th[t].calls) /\ r3.freq = freq
      /\ r3.todo = Steps(call, odb, freq) /\ r3.bits = th[t].bits
  BY <1>2 DEF Record
<1> QED
  BY <1>1, <1>3, <1>4 DEF freq, call

LEMMA StepEffect ==
    ASSUME Types, NEW t \in Thread, Step(t)
    PROVE  LET s == Head(th[t].todo)
           IN  /\ th[t].todo # << >>
               /\ DOMAIN th' = Thread /\ DOMAIN th'[t] = Record /\ Others(t)
               /\ th'[t].calls = th[t].calls /\ th'[t].todo = Tail(th[t].todo)
               /\ th'[t].freq = th[t].freq
               /\ Now(t)' = Do(s, Now(t))
               /\ reg' = IF s.op = "put" THEN [reg EXCEPT ![s.reg] = s.val] ELSE reg
               /\ alone' = alone \cap {t}
               /\ settled' = (settled /\ \A u \in Thread \ {t} : th[u].todo = << >>)
               /\ UNCHANGED <<boardVars, odb, watched, mpc, wpc, prev, active, inEnd, followed>>
<1> DEFINE s == Head(th[t].todo)
           loaded == IF s.op = "load" THEN bits ELSE {}
           r1 == [th[t] EXCEPT !.todo = Tail(th[t].todo)]
           r2 == [r1 EXCEPT !.bits = loaded]
<1>1. /\ th[t].todo # << >>
      /\ th' = [th EXCEPT ![t].todo = Tail(th[t].todo), ![t].bits = loaded]
      /\ bits' = (IF s.op = "store" THEN (th[t].bits \ s.clear) \cup s.set ELSE bits)
      /\ ctrl' = (IF s.op = "send" THEN bits ELSE ctrl)
      /\ reg' = (IF s.op = "put" THEN [reg EXCEPT ![s.reg] = s.val] ELSE reg)
      /\ alone' = alone \cap {t}
      /\ settled' = (settled /\ \A u \in Thread \ {t} : th[u].todo = << >>)
      /\ UNCHANGED <<boardVars, odb, watched, mpc, wpc, prev, active, inEnd, followed>>
  BY DEF Step
<1>2. DOMAIN th = Thread /\ DOMAIN th[t] = Record
  BY DEF Types
<1> HIDE DEF s, loaded
<1>3. th'[t] = r2 /\ DOMAIN th' = Thread /\ Others(t)
  BY <1>1, <1>2 DEF Others
<1>4. /\ DOMAIN r2 = Record /\ r2.calls = th[t].calls /\ r2.freq = th[t].freq
      /\ r2.todo = Tail(th[t].todo) /\ r2.bits = loaded
  BY <1>2 DEF Record
<1>5. th'[t].bits = loaded
  BY <1>3, <1>4
<1>6. Now(t)' = Word(bits', ctrl', loaded)
  BY <1>5 DEF Now, Word
<1>7. Word(bits', ctrl', loaded) = Do(s, Now(t))
  BY <1>1 DEF Word, Now, Do, loaded
<1> QED
  BY <1>1, <1>3, <1>4, <1>6, <1>7 DEF s

-----------------------------------------------------------------------------
(* Where a thread is: From(n, c) says that c is what is left of an          *)
(* apply_board_config() before its n-th call, and of its caller.            *)
Pulse1 == {"StartDomino", "SoftTrigger"}

Pulses(c) == \A k \in 1 .. Len(c) : c[k] \in Pulse1

From(n, c) ==
    /\ Len(c) >= 17 - n /\ \A k \in 1 .. 17 - n : c[k] = ApplyCalls[n - 1 + k]
    /\ \A k \in 18 - n .. Len(c) : c[k] \in Pulse1

Outside(c) == Pulses(c) \/ From(1, c)

LEMMA PulsesOn ==
    ASSUME NEW c, Sequence(c), Pulses(c), c # << >>
    PROVE  Head(c) \in Pulse1 /\ Pulses(Tail(c)) /\ Sequence(Tail(c))
<1>1. /\ Sequence(Tail(c)) /\ Len(c) \in Nat \ {0} /\ Len(Tail(c)) = Len(c) - 1
      /\ Head(c) = c[1] /\ \A k \in 1 .. Len(c) - 1 : Tail(c)[k] = c[k + 1]
  BY TailSequence
<1>2. ASSUME NEW k \in 1 .. Len(Tail(c)) PROVE Tail(c)[k] \in Pulse1
  <2>1. k \in 1 .. Len(c) - 1 /\ k + 1 \in 1 .. Len(c)
    BY <1>1
  <2> QED
    BY <1>1, <2>1 DEF Pulses
<1>3. 1 \in 1 .. Len(c)
  BY <1>1
<1> QED
  BY <1>1, <1>2, <1>3 DEF Pulses

LEMMA PulseLists ==
    /\ Sequence(<< >>) /\ Pulses(<< >>)
    /\ Sequence(<<"StartDomino">>) /\ Pulses(<<"StartDomino">>)
    /\ Sequence(<<"SoftTrigger">>) /\ Pulses(<<"SoftTrigger">>)
    /\ Sequence(<<"StartDomino", "SoftTrigger">>) /\ Pulses(<<"StartDomino", "SoftTrigger">>)
<1>1. \A x : Sequence(<<x>>) /\ Len(<<x>>) = 1 /\ <<x>>[1] = x
  BY OneSequence
<1>2. \A x \in Pulse1 : \A k \in 1 .. Len(<<x>>) : <<x>>[k] \in Pulse1
  BY <1>1
<1>3. \A x, y : Sequence(<<x, y>>) /\ Len(<<x, y>>) = 2
  BY LeadsTwice
<1>4. \A x, y \in Pulse1 : \A k \in 1 .. 2 : <<x, y>>[k] \in Pulse1
  OBVIOUS
<1> QED
  BY <1>1, <1>2, <1>3, <1>4, EmptySequence DEF Pulses, Pulse1

LEMMA ApplyFrom ==
    /\ From(1, ApplyCalls) /\ From(1, Append(ApplyCalls, "StartDomino"))
    /\ Sequence(ApplyCalls) /\ Sequence(Append(ApplyCalls, "StartDomino"))
<1> DEFINE one == <<"StartDomino">>
           all == ApplyCalls \o one
<1>1. Len(ApplyCalls) = 16 /\ Sequence(ApplyCalls)
  BY ApplyCallsAre
<1>2. From(1, ApplyCalls)
  BY <1>1 DEF From
<1>3. Sequence(one) /\ Len(one) = 1 /\ one[1] = "StartDomino"
  BY OneSequence
<1>4. Append(ApplyCalls, "StartDomino") = all
  BY <1>1, AppendConcat
<1> HIDE DEF one
<1>8. Sequence(ApplyCalls) /\ Sequence(one)
  BY <1>1, <1>3
<1>5. /\ Sequence(all) /\ Len(all) = Len(ApplyCalls) + Len(one)
      /\ \A k \in 1 .. Len(ApplyCalls) : all[k] = ApplyCalls[k]
      /\ \A k \in 1 .. Len(one) : all[Len(ApplyCalls) + k] = one[k]
  BY ONLY <1>8, ConcatSequence
<1> HIDE DEF all
<1>6. /\ Len(all) = 17 /\ \A k \in 1 .. 16 : all[k] = ApplyCalls[k]
      /\ all[17] = "StartDomino"
  <2>1. 1 \in 1 .. Len(one) /\ Len(ApplyCalls) + 1 = 17
    BY <1>1, <1>3
  <2> QED
    BY <1>1, <1>3, <1>5, <2>1
<1>7. From(1, all)
  BY <1>6 DEF From, Pulse1
<1> QED
  BY <1>1, <1>2, <1>4, <1>5, <1>7

(* A call of apply_board_config() is left for the next one.                 *)
LEMMA FromOn ==
    ASSUME NEW c, Sequence(c), NEW n \in 1 .. 16, From(n, c)
    PROVE  /\ c # << >> /\ Head(c) = ApplyCalls[n] /\ ~Pulses(c) /\ Sequence(Tail(c))
           /\ n < 16 => From(n + 1, Tail(c))
           /\ n = 16 => Pulses(Tail(c))
<1>1. c # << >>
  BY EmptySequence DEF From
<1>2. /\ Sequence(Tail(c)) /\ Len(c) \in Nat \ {0} /\ Len(Tail(c)) = Len(c) - 1
      /\ Head(c) = c[1] /\ \A k \in 1 .. Len(c) - 1 : Tail(c)[k] = c[k + 1]
  BY <1>1, TailSequence
<1>3. Head(c) = ApplyCalls[n]
  <2>1. 1 \in 1 .. 17 - n /\ n - 1 + 1 = n
    OBVIOUS
  <2> QED
    BY <1>2, <2>1 DEF From
<1>4. Head(c) \notin Pulse1
  <2>1. n \in {1, 2, 3, 4, 5, 6, 7, 8, 9, 10, 11, 12, 13, 14, 15, 16}
    OBVIOUS
  <2> QED
    BY <1>3, <2>1, ApplyCallsAre DEF Pulse1
<1>5. ~Pulses(c)
  BY <1>1, <1>4, PulsesOn
<1>6. ASSUME n < 16 PROVE From(n + 1, Tail(c))
  <2>1. Len(Tail(c)) >= 17 - (n + 1)
    BY <1>2 DEF From
  <2>2. ASSUME NEW k \in 1 .. 17 - (n + 1) PROVE Tail(c)[k] = ApplyCalls[(n + 1) - 1 + k]
    <3>1. k + 1 \in 1 .. 17 - n /\ k \in 1 .. Len(c) - 1 /\ n - 1 + (k + 1) = (n + 1) - 1 + k
      BY <1>2 DEF From
    <3> QED
      BY <1>2, <3>1 DEF From
  <2>3. ASSUME NEW k \in 18 - (n + 1) .. Len(Tail(c)) PROVE Tail(c)[k] \in Pulse1
    <3>1. k + 1 \in 18 - n .. Len(c) /\ k \in 1 .. Len(c) - 1
      BY <1>2, <1>6
    <3> QED
      BY <1>2, <3>1 DEF From
  <2> QED
    BY <2>1, <2>2, <2>3 DEF From
<1>7. ASSUME n = 16 PROVE Pulses(Tail(c))
  <2> SUFFICES ASSUME NEW k \in 1 .. Len(Tail(c)) PROVE Tail(c)[k] \in Pulse1
    BY DEF Pulses
  <2>1. k + 1 \in 18 - n .. Len(c) /\ k \in 1 .. Len(c) - 1
    BY <1>2, <1>7
  <2> QED
    BY <1>2, <2>1 DEF From
<1> QED
  BY <1>1, <1>2, <1>3, <1>5, <1>6, <1>7

-----------------------------------------------------------------------------
(* The inductive invariant.  First, which thread is idle when.              *)
InRun == wpc \in {"readout", "wait"}

Control ==
    /\ mpc \in {"idle", "beginJoin", "endJoin"} => ~Busy("main")
    /\ wpc \in {"none", "done"} => ~Busy("worker")
    /\ (InRun \/ mpc = "beginJoin") => active
    /\ mpc = "begin" => ~active
    /\ mpc \in {"begin", "beginJoin"} => ~followed /\ ~InRun

(* init() leaves a board whose control word has none but the bits of the    *)
(* setters, and a thread never holds or writes any other.                   *)
Starting ==
    mpc = "init" =>
        /\ wpc = "none" /\ alone = {} /\ ~settled /\ ~followed
        /\ th["main"].calls = << >> /\ th["worker"].bits = {}
        /\ \E e : /\ Leads(th["main"].todo, Now("main"), e)
                  /\ e.bits \subseteq Used /\ e.ctrl \subseteq Used \cup Trigs /\ e.load = {}

Bounded ==
    mpc # "init" =>
        /\ bits \subseteq Used /\ ctrl \subseteq Used \cup Trigs
        /\ \A t \in Thread : th[t].bits \subseteq Used /\ Sets(th[t].todo, Used)

(* A thread in the middle of apply_board_config(): what its earlier calls   *)
(* brought in line is so when its present call is done.  The registers are  *)
(* not disturbed by the readout loop either, which only pulses.             *)
Undisturbed(t) == t \in alone \/ (t = "main" /\ InRun /\ watched = 0)

Underway(t, n) ==
    /\ PutFirst(th[t].todo)
    /\ Undisturbed(t) => /\ n > 11 => th[t].freq = Rate
                         /\ Registered(n, RegAfter(th[t].todo, reg))
    /\ t \in alone => \E e : Leads(th[t].todo, Now(t), e) /\ Held(n, e)

Places ==
    \A t \in Thread : \/ Outside(th[t].calls)
                      \/ \E n \in 2 .. 16 : From(n, th[t].calls) /\ Underway(t, n)

Lone ==
    \A t \in alone : \A u \in Thread \ {t} : th[u].todo = << >> /\ Outside(th[u].calls)

RunPulses == InRun => Pulses(th["worker"].calls) /\ NoPut(th["worker"].todo)

RunFollows ==
    (followed /\ InRun /\ watched = 0 /\ Pulses(th["main"].calls)) =>
        Registered(16, reg) /\ NoPut(th["main"].todo)

(* After an apply_board_config() that nothing disturbed there are pulses    *)
(* only, which change no other bit and leave none of their own behind.      *)
Calm(t) ==
    \E tr : /\ Runs(th[t].todo, Now(t), tr)
            /\ \A k \in 0 .. Len(th[t].todo) : /\ WordFollows(16, tr[k].bits)
                                               /\ WordFollows(16, tr[k].ctrl)
            /\ Clean(16, tr[Len(th[t].todo)].bits)

InEffect ==
    settled =>
        /\ Registered(16, reg) /\ WordFollows(16, bits) /\ WordFollows(16, ctrl)
        /\ \A t \in Thread : /\ Outside(th[t].calls) /\ NoPut(th[t].todo)
                             /\ (\A u \in Thread \ {t} : th[u].todo = << >>) => Calm(t)

IInv ==
    /\ Types /\ Control /\ Starting /\ Bounded /\ Places /\ Lone /\ RunPulses /\ RunFollows
    /\ InEffect

LEMMA InitIInv == Init => IInv
<1> SUFFICES ASSUME Init PROVE IInv
  OBVIOUS
<1>1. type \in EvaluationBoard
  BY ConfigAssumption DEF Init
<1> DEFINE q == BoardInit(type, "calibrated", "calibrated")
           s == Word({}, {}, {})
<1>2. s.bits = {}
  BY DEF Word
<1> HIDE DEF s
<1>3. /\ Sequence(q)
      /\ \E e : /\ Leads(q, s, e)
                /\ e.bits \subseteq Used /\ e.ctrl \subseteq Used \cup Trigs /\ e.load = {}
  BY <1>1, <1>2, BoardInitBrings
<1> HIDE DEF q
<1>4. /\ DOMAIN th = Thread /\ DOMAIN th["main"] = Record /\ DOMAIN th["worker"] = Record
      /\ th["main"].calls = << >> /\ th["main"].todo = q /\ th["main"].bits = {}
      /\ th["worker"].calls = << >> /\ th["worker"].todo = << >> /\ th["worker"].bits = {}
  BY DEF Init, Thread, Record, q
<1>5. Types
  BY <1>1, <1>3, <1>4, EmptySequence DEF Init, Types, Thread
<1>6. Now("main") = s
  BY <1>4 DEF Init, Now, s
<1>7. Control
  BY <1>4 DEF Init, Control, Busy, InRun
<1>8. Starting
  BY <1>3, <1>4, <1>6 DEF Init, Starting
<1>9. Bounded /\ Lone /\ RunPulses /\ RunFollows /\ InEffect
  BY DEF Init, Bounded, Lone, RunPulses, RunFollows, InEffect, InRun
<1>10. Places
  BY <1>4, PulseLists DEF Places, Outside, Thread
<1> QED
  BY <1>5, <1>7, <1>8, <1>9, <1>10 DEF IInv

-----------------------------------------------------------------------------
(* The operator's changes.                                                  *)
LEMMA ChangeIInv == ASSUME IInv, Change PROVE IInv'
<1>1. /\ UNCHANGED <<type, newFw, bits, ctrl, reg, th, mpc, wpc, active, followed>>
      /\ alone' = {} /\ ~settled' /\ watched' = watched + 1
  BY DEF Change, boardVars, hwVars
<1>2. Used' = Used /\ (\A t : Now(t)' = Now(t)) /\ (\A t : Busy(t)' = Busy(t)) /\ InRun' = InRun
  BY <1>1 DEF Used, Now, Busy, InRun
<1>3. watched' # 0 /\ watched' \in Nat
  BY <1>1 DEF IInv, Types
<1>4. Types'
  BY <1>1, <1>3 DEF IInv, Types
<1>5. Control'
  BY <1>1, <1>2 DEF IInv, Control
<1>6. Starting' /\ Bounded'
  BY <1>1, <1>2 DEF IInv, Starting, Bounded
<1>7. Places'
  BY <1>1, <1>3 DEF IInv, Places, Underway, Undisturbed
<1>8. Lone' /\ RunFollows' /\ InEffect'
  BY <1>1, <1>3 DEF Lone, RunFollows, InEffect
<1>9. RunPulses'
  BY <1>1, <1>2 DEF IInv, RunPulses
<1> QED
  BY <1>4, <1>5, <1>6, <1>7, <1>8, <1>9 DEF IInv

-----------------------------------------------------------------------------
(* What a thread that is idle may be given to do.                           *)
Begins(t) == \E c : Sequence(c) /\ Outside(c) /\ ~Busy(t) /\ Run(t, c)

Same == UNCHANGED <<boardVars, odb, hwVars, alone, settled>>

(* The main thread's run of apply_board_config() and the readout loop.      *)
Turns ==
    /\ followed' => followed
    /\ (InRun' /\ watched' = 0) => \/ InRun /\ watched = 0 /\ th'["main"] = th["main"]
                                   \/ From(1, th'["main"].calls)
                                   \/ ~followed /\ ~Busy("main") /\ th' = th

LEMMA BeginsEffect ==
    ASSUME Types, NEW t \in Thread, Begins(t)
    PROVE  /\ Others(t) /\ DOMAIN th' = Thread /\ DOMAIN th'[t] = Record
           /\ th[t].calls = << >> /\ th[t].todo = << >>
           /\ Sequence(th'[t].calls) /\ Outside(th'[t].calls)
           /\ th'[t].todo = << >> /\ th'[t].bits = th[t].bits /\ th'[t].freq = th[t].freq
<1>1. PICK c : Sequence(c) /\ Outside(c) /\ ~Busy(t) /\ Run(t, c)
  BY DEF Begins
<1>2. th[t].calls = << >> /\ th[t].todo = << >>
  BY <1>1 DEF Busy
<1>3. /\ DOMAIN th' = Thread /\ DOMAIN th'[t] = Record /\ Others(t)
      /\ th'[t].calls = c /\ th'[t].todo = th[t].todo
      /\ th'[t].bits = th[t].bits /\ th'[t].freq = th[t].freq
  BY <1>1, RunEffect
<1> QED
  BY <1>1, <1>2, <1>3

LEMMA MainTurns ==
    ASSUME Types, Control, Starting, RunPulses, MainStep
    PROVE  /\ Same /\ watched' \in Nat /\ mpc' # "init" /\ (mpc = "init" => ~Busy("main"))
           /\ th' = th \/ (\E t \in Thread : Begins(t))
           /\ Turns /\ Control' /\ RunPulses'
<1> USE ApplyFrom DEF Same, boardVars, hwVars, boundVars, histVars
<1>0. "main" \in Thread /\ "worker" \in Thread /\ "main" # "worker"
  BY DEF Thread
<1>1. CASE Boot
  <2>1. /\ UNCHANGED <<type, newFw, may, odb, watched, bits, ctrl, reg, active, alone, settled,
                       followed>>
        /\ mpc = "init" /\ mpc' = "idle" /\ wpc' = "first" /\ ~Busy("main")
        /\ Run("worker", ApplyCalls)
    BY <1>1 DEF Boot
  <2>2. wpc = "none" /\ ~Busy("worker")
    BY <2>1 DEF Starting, Control
  <2>3. Begins("worker")
    BY <2>1, <2>2 DEF Begins, Outside
  <2>4. Others("worker")
    BY <2>3, <1>0, BeginsEffect
  <2>5. Busy("main")' = Busy("main")
    BY <2>4, <1>0 DEF Others, Busy
  <2> QED
    BY <1>0, <2>1, <2>3, <2>5 DEF Turns, Control, RunPulses, InRun, Types
<1>2. CASE Watch
  <2>1. /\ UNCHANGED <<type, newFw, may, odb, wpc, bits, ctrl, reg, active, alone, settled,
                       followed>>
        /\ mpc = "idle" /\ mpc' = "watch" /\ watched > 0 /\ watched' = watched - 1
        /\ Run("main", ApplyCalls)
    BY <1>2 DEF Watch
  <2>2. ~Busy("main")
    BY <2>1 DEF Control
  <2>3. Begins("main")
    BY <2>1, <2>2 DEF Begins, Outside
  <2>4. Others("main") /\ th'["main"].calls = ApplyCalls
    BY <2>1, <1>0, RunEffect
  <2>5. th'["worker"] = th["worker"] /\ Busy("worker")' = Busy("worker")
    BY <2>4, <1>0 DEF Others, Busy
  <2>6. watched' \in Nat
    BY <2>1 DEF Types
  <2> QED
    BY <1>0, <2>1, <2>3, <2>4, <2>5, <2>6 DEF Turns, Control, RunPulses, InRun
<1>3. CASE WatchEnd
  <2>1. /\ UNCHANGED <<type, newFw, may, odb, watched, wpc, bits, ctrl, reg, th, active, alone,
                       settled, followed>>
        /\ mpc = "watch" /\ mpc' = "idle" /\ ~Busy("main")
    BY <1>3 DEF WatchEnd
  <2>2. \A t : Busy(t)' = Busy(t)
    BY <2>1 DEF Busy
  <2> QED
    BY <2>1, <2>2 DEF Turns, Control, RunPulses, InRun, Types
<1>4. CASE BeginOfRun
  <2> DEFINE c == Append(ApplyCalls, "StartDomino")
  <2>1. /\ UNCHANGED <<type, newFw, may, odb, watched, wpc, bits, ctrl, reg, active, alone,
                       settled>>
        /\ mpc = "idle" /\ mpc' = "begin" /\ ~active /\ ~followed' /\ Run("main", c)
    BY <1>4 DEF BeginOfRun
  <2> HIDE DEF c
  <2>2. ~Busy("main") /\ Sequence(c) /\ From(1, c)
    BY <2>1 DEF Control, c
  <2>3. Begins("main")
    BY <2>1, <2>2 DEF Begins, Outside
  <2>4. Others("main") /\ th'["main"].calls = c
    BY <2>1, <1>0, RunEffect
  <2>5. th'["worker"] = th["worker"] /\ Busy("worker")' = Busy("worker")
    BY <2>4, <1>0 DEF Others, Busy
  <2>6. ~InRun /\ ~InRun'
    BY <2>1 DEF Control, InRun
  <2> QED
    BY <1>0, <2>1, <2>3, <2>5, <2>6 DEF Turns, Control, RunPulses, Types
<1>5. CASE BeginActive
  <2>1. /\ UNCHANGED <<type, newFw, may, odb, watched, wpc, bits, ctrl, reg, th, alone,
                       settled, followed>>
        /\ mpc = "begin" /\ mpc' = "beginJoin" /\ ~Busy("main") /\ active'
    BY <1>5 DEF BeginActive
  <2>2. \A t : Busy(t)' = Busy(t)
    BY <2>1 DEF Busy
  <2> QED
    BY <2>1, <2>2 DEF Turns, Control, RunPulses, InRun, Types
<1>6. CASE BeginJoin
  <2>1. /\ UNCHANGED <<type, newFw, may, odb, watched, bits, ctrl, reg, th, active, alone,
                       settled, followed>>
        /\ mpc = "beginJoin" /\ mpc' = "idle" /\ wpc = "done" /\ wpc' = "readout"
    BY <1>6 DEF BeginJoin
  <2>2. \A t : Busy(t)' = Busy(t)
    BY <2>1 DEF Busy
  <2>3. ~followed /\ ~Busy("main") /\ ~Busy("worker")
    BY <2>1 DEF Control
  <2>4. th["worker"].calls = << >> /\ th["worker"].todo = << >>
    BY <2>3 DEF Busy
  <2>5. Pulses(th["worker"].calls) /\ NoPut(th["worker"].todo)
    BY <2>4, PulseLists, EmptySequence DEF NoPut
  <2>6. active
    BY <2>1 DEF Control
  <2> QED
    BY <2>1, <2>2, <2>3, <2>5, <2>6 DEF Turns, Control, RunPulses, InRun, Types
<1>7. CASE EndOfRun
  <2>1. /\ UNCHANGED <<type, newFw, may, odb, watched, wpc, bits, ctrl, reg, th, active, alone,
                       settled, followed>>
        /\ mpc = "idle" /\ mpc' = "endJoin"
    BY <1>7 DEF EndOfRun
  <2>2. \A t : Busy(t)' = Busy(t)
    BY <2>1 DEF Busy
  <2> QED
    BY <2>1, <2>2 DEF Turns, Control, RunPulses, InRun, Types
<1>8. CASE EndJoin
  <2>1. /\ UNCHANGED <<type, newFw, may, odb, watched, bits, ctrl, reg, alone, settled,
                       followed>>
        /\ mpc = "endJoin" /\ mpc' = "idle" /\ wpc = "done" /\ wpc' = "first"
        /\ Run("worker", ApplyCalls)
    BY <1>8 DEF EndJoin
  <2>2. ~Busy("worker")
    BY <2>1 DEF Control
  <2>3. Begins("worker")
    BY <2>1, <2>2 DEF Begins, Outside
  <2>4. Others("worker")
    BY <2>3, <1>0, BeginsEffect
  <2>5. Busy("main")' = Busy("main")
    BY <2>4, <1>0 DEF Others, Busy
  <2> QED
    BY <1>0, <2>1, <2>3, <2>5 DEF Turns, Control, RunPulses, InRun, Types
<1> QED
  BY <1>1, <1>2, <1>3, <1>4, <1>5, <1>6, <1>7, <1>8 DEF MainStep
LEMMA WorkerTurns ==
    ASSUME Types, Control, Starting, RunPulses, WorkerStep
    PROVE  /\ Same /\ watched' = watched /\ mpc' = mpc /\ mpc # "init"
           /\ th' = th \/ Begins("worker")
           /\ Turns /\ Control' /\ RunPulses'
<1> USE ApplyFrom, PulseLists DEF Same, boardVars, hwVars, boundVars, histVars
<1>0. "main" \in Thread /\ "worker" \in Thread /\ "main" # "worker"
  BY DEF Thread
<1>1. /\ UNCHANGED <<type, newFw, may, odb, watched, bits, ctrl, reg, mpc, active, alone,
                     settled, followed>>
      /\ wpc \in {"first", "loop", "capture", "readout", "wait"} /\ ~Busy("worker")
      /\ InRun' => InRun
      /\ wpc' # "none"
      /\ \/ th' = th
         \/ wpc' # "done" /\ \E c : Sequence(c) /\ Outside(c) /\ (InRun' => Pulses(c)) /\ Run("worker", c)
  <2>1. CASE PreviewFirst \/ PreviewEnd
    BY <2>1 DEF PreviewFirst, PreviewEnd, InRun
  <2>2. CASE PreviewCompare
    BY <2>2 DEF PreviewCompare, InRun, Outside
  <2>3. CASE PreviewCapture
    BY <2>3 DEF PreviewCapture, InRun, Outside
  <2>4. CASE Readout \/ ReadoutWait
    BY <2>4 DEF Readout, ReadoutWait, InRun, Outside
  <2> QED
    BY <2>1, <2>2, <2>3, <2>4 DEF WorkerStep
<1>2. mpc # "init"
  BY <1>1 DEF Starting
<1>3. th' = th \/ Begins("worker")
  BY <1>1 DEF Begins
<1>4. th'["main"] = th["main"] /\ (Busy("main"))' = Busy("main")
  <2>1. CASE th' = th
    BY <2>1 DEF Busy
  <2>2. CASE Begins("worker")
    <3>1. Others("worker")
      BY <2>2, <1>0, BeginsEffect
    <3> QED
      BY <3>1, <1>0 DEF Others, Busy
  <2> QED
    BY <1>3, <2>1, <2>2
<1>5. Turns
  BY <1>1, <1>4 DEF Turns
<1>6. wpc' = "done" => ~(Busy("worker"))'
  BY <1>1 DEF Busy
<1>7. Control'
  BY <1>1, <1>4, <1>6 DEF Control, InRun
<1>8. RunPulses'
  <2>1. CASE th' = th
    BY <1>1, <2>1 DEF RunPulses
  <2>2. CASE th' # th
    <3>1. PICK c : Sequence(c) /\ (InRun' => Pulses(c)) /\ Run("worker", c)
      BY <1>1, <2>2
    <3>2. th'["worker"].calls = c /\ th'["worker"].todo = th["worker"].todo
      BY <3>1, <1>0, RunEffect
    <3>3. th["worker"].todo = << >>
      BY <1>1 DEF Busy
    <3> QED
      BY <3>1, <3>2, <3>3, EmptySequence DEF RunPulses, NoPut
  <2> QED
    BY <2>1, <2>2
<1> QED
  BY <1>1, <1>2, <1>3, <1>5, <1>7, <1>8

-----------------------------------------------------------------------------
(* A step of a thread's own code: it gets something to do, or goes on.      *)
LEMMA SameSettings ==
    ASSUME UNCHANGED <<type, newFw, odb>>
    PROVE  /\ Used' = Used /\ Rate' = Rate
           /\ \A n, w : (WordFollows(n, w))' = WordFollows(n, w) /\ (Clean(n, w))' = Clean(n, w)
           /\ \A n, s : (Held(n, s))' = Held(n, s)
           /\ \A n, rg : (Registered(n, rg))' = Registered(n, rg)
<1>1. Used' = Used
  BY DEF Used
<1>2. Rate' = Rate
  BY DEF Rate
<1>3. ASSUME NEW n, NEW w PROVE (WordFollows(n, w))' = WordFollows(n, w)
  BY DEF WordFollows
<1>4. ASSUME NEW n, NEW w PROVE (Clean(n, w))' = Clean(n, w)
  BY <1>2 DEF Clean
<1>5. ASSUME NEW n, NEW s PROVE (Held(n, s))' = Held(n, s)
  BY <1>3, <1>4 DEF Held
<1>6. ASSUME NEW n, NEW rg PROVE (Registered(n, rg))' = Registered(n, rg)
  BY <1>2 DEF Registered
<1> QED
  BY <1>1, <1>2, <1>3, <1>4, <1>5, <1>6

LEMMA TurnIInv ==
    ASSUME IInv, Same, watched' \in Nat, mpc' # "init", mpc = "init" => ~Busy("main"),
           th' = th \/ (\E t \in Thread : Begins(t)), Turns, Control', RunPulses'
    PROVE  IInv'
<1> USE DEF IInv
<1>0. "main" \in Thread /\ "worker" \in Thread /\ Thread = {"main", "worker"}
  BY DEF Thread
<1>1. UNCHANGED <<type, newFw, odb, bits, ctrl, reg, alone, settled>>
  BY DEF Same, boardVars, hwVars
<1>2. /\ Used' = Used /\ Rate' = Rate
      /\ \A n, w : (WordFollows(n, w))' = WordFollows(n, w) /\ (Clean(n, w))' = Clean(n, w)
      /\ \A n, s : (Held(n, s))' = Held(n, s)
      /\ \A n, rg : (Registered(n, rg))' = Registered(n, rg)
  BY <1>1, SameSettings
<1>3. DOMAIN th' = Thread
  BY BeginsEffect DEF Types
<1>4. ASSUME NEW t \in Thread
      PROVE  /\ DOMAIN th'[t] = Record /\ Sequence(th'[t].calls) /\ Sequence(th'[t].todo)
             /\ th'[t].todo = th[t].todo /\ th'[t].bits = th[t].bits /\ th'[t].freq = th[t].freq
             /\ \/ th'[t] = th[t]
                \/ th[t].calls = << >> /\ Outside(th'[t].calls)
  <2>1. CASE th' = th
    BY <2>1 DEF Types
  <2>2. ASSUME NEW u \in Thread, Begins(u)
        PROVE  /\ DOMAIN th'[t] = Record /\ Sequence(th'[t].calls) /\ Sequence(th'[t].todo)
               /\ th'[t].todo = th[t].todo /\ th'[t].bits = th[t].bits /\ th'[t].freq = th[t].freq
               /\ \/ th'[t] = th[t]
                  \/ th[t].calls = << >> /\ Outside(th'[t].calls)
    <3>1. /\ Others(u) /\ DOMAIN th'[u] = Record
          /\ th[u].calls = << >> /\ th[u].todo = << >>
          /\ Sequence(th'[u].calls) /\ Outside(th'[u].calls)
          /\ th'[u].todo = << >> /\ th'[u].bits = th[u].bits /\ th'[u].freq = th[u].freq
      BY <2>2, BeginsEffect
    <3>2. CASE t = u
      BY <3>1, <3>2, EmptySequence
    <3>3. CASE t # u
      BY <3>1, <3>3 DEF Others, Types
    <3> QED
      BY <3>2, <3>3
  <2> QED
    BY <2>1, <2>2
<1>5. ASSUME NEW t \in Thread PROVE Now(t)' = Now(t)
  BY <1>1, <1>4 DEF Now
<1>6. ASSUME NEW t \in Thread, Outside(th[t].calls) PROVE Outside(th'[t].calls)
  BY <1>4, <1>6
<1>7. Types'
  BY <1>1, <1>3, <1>4 DEF Types
<1>8. Starting'
  BY DEF Starting
<1>9. Bounded'
  <2>1. /\ bits \subseteq Used /\ ctrl \subseteq Used \cup Trigs
        /\ \A t \in Thread : th[t].bits \subseteq Used /\ Sets(th[t].todo, Used)
    <3>1. CASE mpc # "init"
      BY <3>1 DEF Bounded
    <3>2. CASE mpc = "init"
      <4>1. /\ th["main"].todo = << >> /\ th["worker"].todo = << >> /\ th["worker"].bits = {}
        BY <3>2 DEF Starting, Control, Busy
      <4>2. PICK e : /\ Leads(<< >>, Now("main"), e)
                     /\ e.bits \subseteq Used /\ e.ctrl \subseteq Used \cup Trigs /\ e.load = {}
        BY <3>2, <4>1 DEF Starting
      <4>3. e = Now("main")
        BY <4>2, EmptySequence DEF Leads, Runs
      <4>4. bits \subseteq Used /\ ctrl \subseteq Used \cup Trigs /\ th["main"].bits = {}
        BY <4>2, <4>3 DEF Now, Word
      <4>5. Sets(<< >>, Used)
        BY EmptySequence DEF Sets
      <4> QED
        BY <1>0, <4>1, <4>4, <4>5
    <3> QED
      BY <3>1, <3>2
  <2> QED
    BY <1>1, <1>2, <1>4, <2>1 DEF Bounded, Sets
<1>10. Places'
  <2> SUFFICES ASSUME NEW t \in Thread
               PROVE  \/ Outside(th'[t].calls)
                      \/ \E n \in 2 .. 16 : From(n, th'[t].calls) /\ (Underway(t, n))'
    BY DEF Places
  <2>1. CASE th'[t] # th[t] \/ Outside(th[t].calls)
    BY <1>4, <2>1
  <2>2. CASE th'[t] = th[t] /\ ~Outside(th[t].calls)
    <3>1. PICK n \in 2 .. 16 : From(n, th[t].calls) /\ Underway(t, n)
      BY <2>2 DEF Places
    <3>2. Undisturbed(t)' => Undisturbed(t)
      <4>1. ASSUME t = "main", ~Busy("main") PROVE FALSE
        BY <2>2, <4>1, PulseLists DEF Busy, Outside
      <4>2. ASSUME t = "main", From(1, th'["main"].calls) PROVE FALSE
        BY <2>2, <4>2 DEF Outside
      <4>3. ASSUME t = "main", InRun', watched' = 0 PROVE InRun /\ watched = 0
        BY <4>1, <4>2, <4>3 DEF Turns
      <4> QED
        BY <1>1, <4>3 DEF Undisturbed
    <3>3. (Underway(t, n))'
      BY <1>1, <1>2, <1>4, <1>5, <3>1, <3>2 DEF Underway
    <3> QED
      BY <2>2, <3>1, <3>3
  <2> QED
    BY <2>1, <2>2
<1>11. Lone'
  BY <1>1, <1>4, <1>6 DEF Lone, Types
<1>12. RunFollows'
  <2> SUFFICES ASSUME followed', InRun', watched' = 0, Pulses(th'["main"].calls)
               PROVE  Registered(16, reg)' /\ NoPut(th'["main"].todo)
    BY DEF RunFollows
  <2>1. ~From(1, th'["main"].calls)
    BY <1>0, <1>4, FromOn
  <2>2. followed /\ InRun /\ watched = 0 /\ th'["main"] = th["main"]
    BY <2>1 DEF Turns
  <2> QED
    BY <1>1, <1>2, <2>2 DEF RunFollows
<1>13. InEffect'
  <2>1. \A t \in Thread : (Calm(t))' = Calm(t)
    BY <1>2, <1>4, <1>5 DEF Calm
  <2> QED
    BY <1>1, <1>2, <1>4, <1>6, <2>1 DEF InEffect
<1> QED
  BY <1>7, <1>8, <1>9, <1>10, <1>11, <1>12, <1>13

-----------------------------------------------------------------------------
(* What a pulse goes through: its own bit, and no other, changes.           *)
LEMMA PulseSteps ==
    ASSUME NEW bit
    PROVE  LET q == Pulse(bit)
           IN  /\ Len(q) = 5 /\ q[1] = Load /\ q[2] = Store({bit}, {}) /\ q[3] = Send
               /\ q[4] = Load /\ q[5] = Store({}, {bit})
<1> DEFINE a == <<Load, Store({bit}, {})>>
           b == <<Send>>
           c == <<Load, Store({}, {bit})>>
           ab == a \o b
           q == ab \o c
<1>1. /\ Sequence(a) /\ Len(a) = 2 /\ Sequence(b) /\ Len(b) = 1 /\ Sequence(c) /\ Len(c) = 2
      /\ b[1] = Send
  BY LeadsTwice, OneSequence
<1>2. a[1] = Load /\ a[2] = Store({bit}, {}) /\ c[1] = Load /\ c[2] = Store({}, {bit})
  OBVIOUS
<1> HIDE DEF a, b, c
<1>3. Assign(bit, TRUE) = a /\ Switch(bit, TRUE) = ab /\ Pulse(bit) = q
  <2>1. Assign(bit, TRUE) = a
    BY DEF Assign, Update, a
  <2>2. Append(a, Send) = ab
    BY <1>1, AppendConcat DEF b
  <2> QED
    BY <2>1, <2>2 DEF Switch, Pulse, Update, c
<1>4. Sequence(a) /\ Sequence(b)
  BY <1>1
<1>5. /\ Sequence(ab) /\ Len(ab) = Len(a) + Len(b)
      /\ \A k \in 1 .. Len(a) : ab[k] = a[k]
      /\ \A k \in 1 .. Len(b) : ab[Len(a) + k] = b[k]
  BY ONLY <1>4, ConcatSequence
<1> HIDE DEF ab
<1>6. Len(ab) = 3 /\ ab[1] = Load /\ ab[2] = Store({bit}, {}) /\ ab[3] = Send
  <2>1. 1 \in 1 .. Len(a) /\ 2 \in 1 .. Len(a) /\ 1 \in 1 .. Len(b) /\ Len(a) + 1 = 3
    BY <1>1
  <2> QED
    BY <1>1, <1>2, <1>5, <2>1
<1>7. Sequence(ab) /\ Sequence(c)
  BY <1>1, <1>5
<1>8. /\ Len(q) = Len(ab) + Len(c)
      /\ \A k \in 1 .. Len(ab) : q[k] = ab[k]
      /\ \A k \in 1 .. Len(c) : q[Len(ab) + k] = c[k]
  BY ONLY <1>7, ConcatSequence
<1> HIDE DEF q
<1>9. /\ Len(q) = 5 /\ q[1] = Load /\ q[2] = Store({bit}, {}) /\ q[3] = Send
      /\ q[4] = Load /\ q[5] = Store({}, {bit})
  <2>1. /\ 1 \in 1 .. Len(ab) /\ 2 \in 1 .. Len(ab) /\ 3 \in 1 .. Len(ab)
        /\ 1 \in 1 .. Len(c) /\ 2 \in 1 .. Len(c) /\ Len(ab) + 1 = 4 /\ Len(ab) + 2 = 5
    BY <1>1, <1>6
  <2> QED
    BY <1>1, <1>2, <1>6, <1>8, <2>1
<1> QED
  BY <1>3, <1>9

LEMMA TrigsApart ==
    ASSUME NEW bit \in Trigs, NEW w, WordFollows(16, w)
    PROVE  WordFollows(16, w \cup {bit}) /\ WordFollows(16, w \ {bit})
<1>1. \A b \in {TRANSP_MODE, DACTIVE, NEG_TRIGGER, READOUT_MODE, TCAL_EN, ENABLE_TRIGGER1,
                ENABLE_TRIGGER2, TR_SOURCE1, TR_SOURCE2, ACAL_EN} : b # bit
  BY DEF Trigs, START_TRIG, REINIT_TRIG, SOFT_TRIG, EEPROM_READ_TRIG, TRANSP_MODE, DACTIVE,
         NEG_TRIGGER, READOUT_MODE, TCAL_EN, ENABLE_TRIGGER1, ENABLE_TRIGGER2, TR_SOURCE1,
         TR_SOURCE2, ACAL_EN
<1>2. \A b \in {TRANSP_MODE, DACTIVE, NEG_TRIGGER, READOUT_MODE, TCAL_EN, ENABLE_TRIGGER1,
                ENABLE_TRIGGER2, TR_SOURCE1, TR_SOURCE2, ACAL_EN} :
          (b \in w \cup {bit} <=> b \in w) /\ (b \in w \ {bit} <=> b \in w)
  BY <1>1
<1> QED
  BY <1>2 DEF WordFollows

LEMMA PulseTrace ==
    ASSUME NEW bit \in Trigs, NEW s, WordFollows(16, s.bits), WordFollows(16, s.ctrl),
           Clean(16, s.bits)
    PROVE  \E tr : /\ Runs(Pulse(bit), s, tr)
                   /\ \A k \in 0 .. Len(Pulse(bit)) : /\ WordFollows(16, tr[k].bits)
                                                      /\ WordFollows(16, tr[k].ctrl)
                   /\ Clean(16, tr[Len(Pulse(bit))].bits)
<1> DEFINE q == Pulse(bit)
           w == s.bits \cup {bit}
           s1 == Do(Load, s)
           s2 == Do(Store({bit}, {}), s1)
           s3 == Do(Send, s2)
           s4 == Do(Load, s3)
           s5 == Do(Store({}, {bit}), s4)
           tr == [k \in 0 .. 5 |-> CASE k = 0 -> s [] k = 1 -> s1 [] k = 2 -> s2
                                     [] k = 3 -> s3 [] k = 4 -> s4 [] k = 5 -> s5]
<1>1. /\ Len(q) = 5 /\ q[1] = Load /\ q[2] = Store({bit}, {}) /\ q[3] = Send
      /\ q[4] = Load /\ q[5] = Store({}, {bit})
  BY PulseSteps
<1>2. s1.bits = s.bits /\ s1.ctrl = s.ctrl /\ s1.load = s.bits
  BY DEF Do, Load
<1>3. s2.bits = w /\ s2.ctrl = s.ctrl
  BY <1>2 DEF Do, Store
<1>4. s3.bits = w /\ s3.ctrl = w
  BY <1>3 DEF Do, Send
<1>5. s4.bits = w /\ s4.ctrl = w /\ s4.load = w
  BY <1>4 DEF Do, Load
<1>6. s5.bits = w \ {bit} /\ s5.ctrl = w
  BY <1>5 DEF Do, Store
<1>7. WordFollows(16, w) /\ WordFollows(16, w \ {bit})
  BY TrigsApart
<1>8. Clean(16, w \ {bit})
  BY DEF Clean
<1>9. tr[0] = s /\ tr[1] = s1 /\ tr[2] = s2 /\ tr[3] = s3 /\ tr[4] = s4 /\ tr[5] = s5
  OBVIOUS
<1> HIDE DEF q, w, s1, s2, s3, s4, s5, tr
<1>10. \A k \in 1 .. 5 : tr[k] = Do(q[k], tr[k - 1])
  <2> SUFFICES ASSUME NEW k \in 1 .. 5 PROVE tr[k] = Do(q[k], tr[k - 1])
    OBVIOUS
  <2>1. k \in {1, 2, 3, 4, 5} /\ 1 - 1 = 0 /\ 2 - 1 = 1 /\ 3 - 1 = 2 /\ 4 - 1 = 3 /\ 5 - 1 = 4
    OBVIOUS
  <2> QED
    BY <1>1, <1>9, <2>1 DEF s1, s2, s3, s4, s5
<1>11. \A k \in 0 .. 5 : WordFollows(16, tr[k].bits) /\ WordFollows(16, tr[k].ctrl)
  <2> SUFFICES ASSUME NEW k \in 0 .. 5
               PROVE  WordFollows(16, tr[k].bits) /\ WordFollows(16, tr[k].ctrl)
    OBVIOUS
  <2>1. k \in {0, 1, 2, 3, 4, 5}
    OBVIOUS
  <2> QED
    BY <1>2, <1>3, <1>4, <1>5, <1>6, <1>7, <1>9, <2>1
<1>12. Runs(q, s, tr)
  BY <1>1, <1>9, <1>10 DEF Runs
<1>13. Clean(16, tr[5].bits)
  BY <1>6, <1>8, <1>9
<1> QED
  BY <1>1, <1>11, <1>12, <1>13 DEF q

LEMMA PulseCall ==
    ASSUME NEW call \in Pulse1, NEW freq
    PROVE  \E bit \in Trigs : Steps(call, odb, freq) = Pulse(bit) /\ Steady(Pulse(bit), Used)
<1>1. START_TRIG \in Trigs /\ SOFT_TRIG \in Trigs /\ START_TRIG \in Used /\ SOFT_TRIG \in Used
  BY DEF Trigs, Used
<1>2. \/ Steps(call, odb, freq) = Pulse(START_TRIG)
      \/ Steps(call, odb, freq) = Pulse(SOFT_TRIG)
  BY DEF Pulse1, Steps, StartDomino, SoftTrigger
<1> QED
  BY <1>1, <1>2, SteadyPulse

-----------------------------------------------------------------------------
(* A call begins.                                                           *)
LEMMA NoSteps ==
    ASSUME NEW s
    PROVE  /\ \A e : Leads(<< >>, s, e) <=> e = s
           /\ \A rg : RegAfter(<< >>, rg) = rg
           /\ Sequence(<< >>) /\ NoPut(<< >>) /\ PutFirst(<< >>) /\ \A u : Sets(<< >>, u)
<1>1. \A e : Leads(<< >>, s, e) => e = s
  BY EmptySequence DEF Leads, Runs
<1>2. Leads(<< >>, s, s)
  BY LeadsNothing
<1>3. Sequence(<< >>) /\ NoPut(<< >>) /\ PutFirst(<< >>) /\ \A u : Sets(<< >>, u)
  BY EmptySequence DEF NoPut, PutFirst, Sets
<1> QED
  BY <1>1, <1>2, <1>3 DEF RegAfter

LEMMA CallNames ==
    /\ ApplyCalls[1] = "begin" /\ ApplyCalls[16] = "end" /\ ApplyCalls[11] = "SetFrequency"
    /\ \A n \in 2 .. 15 : ApplyCalls[n] \notin {"begin", "end"}
    /\ \A n \in 2 .. 15 : n # 11 => ApplyCalls[n] # "SetFrequency"
    /\ \A x \in Pulse1 : x \notin {"begin", "end"}
<1>1. ASSUME NEW n \in 2 .. 15
      PROVE  ApplyCalls[n] \notin {"begin", "end"} /\ (n # 11 => ApplyCalls[n] # "SetFrequency")
  <2>1. n \in {2, 3, 4, 5, 6, 7, 8, 9, 10, 11, 12, 13, 14, 15}
    OBVIOUS
  <2> QED
    BY <2>1, ApplyCallsAre
<1> QED
  BY <1>1, ApplyCallsAre DEF Pulse1

(* Where the thread is, and where the call takes it.                        *)
LEMMA CallPlace ==
    ASSUME IInv, NEW t \in Thread, Call(t)
    PROVE  LET c == th[t].calls
               q == th'[t].todo
           IN  \/ /\ Pulses(c) /\ Head(c) \in Pulse1 /\ Pulses(Tail(c))
                  /\ \E bit \in Trigs : q = Pulse(bit) /\ Steady(Pulse(bit), Used)
               \/ From(1, c) /\ Head(c) = "begin" /\ From(2, Tail(c)) /\ q = << >>
               \/ \E n \in 2 .. 15 :
                      /\ From(n, c) /\ Underway(t, n) /\ Head(c) = ApplyCalls[n]
                      /\ From(n + 1, Tail(c)) /\ q = Steps(ApplyCalls[n], odb, th'[t].freq)
               \/ /\ From(16, c) /\ Underway(t, 16) /\ Head(c) = "end" /\ Pulses(Tail(c))
                  /\ q = << >>
<1> DEFINE c == th[t].calls
           f == FreqOf(Head(c), th[t].freq)
<1>1. /\ c # << >> /\ th'[t].todo = Steps(Head(c), odb, f) /\ th'[t].freq = f
      /\ Sequence(c)
  BY CallEffect DEF IInv, Types
<1> HIDE DEF c, f
<1>2. CASE Pulses(c)
  BY <1>1, <1>2, PulsesOn, PulseCall DEF c
<1>3. CASE From(1, c)
  <2>1. Head(c) = "begin" /\ From(1 + 1, Tail(c))
    BY <1>1, <1>3, FromOn, CallNames
  <2>2. th'[t].todo = << >>
    BY <1>1, <2>1 DEF Steps
  <2> QED
    BY <1>3, <2>1, <2>2 DEF c
<1>4. ASSUME NEW n \in 2 .. 16, From(n, c), Underway(t, n)
      PROVE  \/ \E m \in 2 .. 15 :
                    /\ From(m, c) /\ Underway(t, m) /\ Head(c) = ApplyCalls[m]
                    /\ From(m + 1, Tail(c))
                    /\ th'[t].todo = Steps(ApplyCalls[m], odb, th'[t].freq)
             \/ /\ From(16, c) /\ Underway(t, 16) /\ Head(c) = "end" /\ Pulses(Tail(c))
                /\ th'[t].todo = << >>
  <2>1. /\ Head(c) = ApplyCalls[n] /\ (n < 16 => From(n + 1, Tail(c)))
        /\ n = 16 => Pulses(Tail(c))
    BY <1>1, <1>4, FromOn
  <2>2. CASE n < 16
    BY <1>1, <1>4, <2>1, <2>2
  <2>3. CASE n = 16
    <3>1. Head(c) = "end"
      BY <2>1, <2>3, CallNames
    <3>2. th'[t].todo = << >>
      BY <1>1, <3>1 DEF Steps
    <3> QED
      BY <1>4, <2>1, <2>3, <3>1, <3>2
  <2> QED
    BY <2>2, <2>3
<1>5. \/ Pulses(c) \/ From(1, c) \/ \E n \in 2 .. 16 : From(n, c) /\ Underway(t, n)
  BY DEF IInv, Places, Outside, c
<1> QED
  BY <1>2, <1>3, <1>4, <1>5 DEF c

LEMMA CallHistory ==
    ASSUME NEW t \in Thread, Call(t)
    PROVE  LET call == Head(th[t].calls)
           IN  /\ alone' \subseteq {t}
               /\ call # "begin" => alone' = alone \cap {t}
               /\ (call = "begin" /\ alone' # {}) => \A u \in Thread \ {t} : ~Busy(u)
               /\ call = "begin" => ~settled'
               /\ call = "end" => settled' = (t \in alone)
               /\ call \notin {"begin", "end"} => settled' = settled
               /\ (call # "end" \/ t # "main") => (followed' => followed)
               /\ followed' => followed \/ InRun
<1> DEFINE call == Head(th[t].calls)
<1>1. /\ alone' = (CASE call = "begin" -> IF \E u \in Thread \ {t} : Busy(u) THEN {} ELSE {t}
                     [] OTHER          -> alone \cap {t})
      /\ settled' = (CASE call = "begin" -> FALSE
                       [] call = "end"   -> t \in alone
                       [] OTHER          -> settled)
      /\ followed' = (followed \/ (call = "end" /\ t = "main" /\ wpc \in {"readout", "wait"}))
  BY DEF Call
<1> HIDE DEF call
<1>2. alone' \subseteq {t} /\ (call # "begin" => alone' = alone \cap {t})
  BY <1>1
<1>3. (call = "begin" /\ alone' # {}) => \A u \in Thread \ {t} : ~Busy(u)
  BY <1>1
<1>4. (call = "begin" => ~settled') /\ (call \notin {"begin", "end"} => settled' = settled)
  BY <1>1
<1>5. call = "end" => settled' = (t \in alone)
  BY <1>1
<1>6. ((call # "end" \/ t # "main") => (followed' => followed)) /\ (followed' => followed \/ InRun)
  BY <1>1 DEF InRun
<1> QED
  BY <1>2, <1>3, <1>4, <1>5, <1>6 DEF call

LEMMA CallIInv == ASSUME IInv, NEW t \in Thread, Call(t) PROVE IInv'
<1> DEFINE c == th[t].calls
           call == Head(c)
           q == th'[t].todo
<1>1. /\ th[t].todo = << >> /\ c # << >> /\ DOMAIN th' = Thread /\ DOMAIN th'[t] = Record
      /\ Others(t) /\ th'[t].calls = Tail(c) /\ q = Steps(call, odb, th'[t].freq)
      /\ th'[t].bits = th[t].bits /\ th'[t].freq = FreqOf(call, th[t].freq)
      /\ UNCHANGED <<type, newFw, odb, watched, bits, ctrl, reg, mpc, wpc, active>>
  BY CallEffect DEF IInv, boardVars, hwVars
<1>2. /\ alone' \subseteq {t}
      /\ call # "begin" => alone' = alone \cap {t}
      /\ (call = "begin" /\ alone' # {}) => \A u \in Thread \ {t} : ~Busy(u)
      /\ call = "begin" => ~settled'
      /\ call = "end" => settled' = (t \in alone)
      /\ call \notin {"begin", "end"} => settled' = settled
      /\ (call # "end" \/ t # "main") => (followed' => followed)
      /\ followed' => followed \/ InRun
  BY CallHistory
<1>3. \/ /\ Pulses(c) /\ call \in Pulse1 /\ Pulses(Tail(c))
         /\ \E bit \in Trigs : q = Pulse(bit) /\ Steady(Pulse(bit), Used)
      \/ From(1, c) /\ call = "begin" /\ From(2, Tail(c)) /\ q = << >>
      \/ \E n \in 2 .. 15 :
             /\ From(n, c) /\ Underway(t, n) /\ call = ApplyCalls[n]
             /\ From(n + 1, Tail(c)) /\ q = Steps(ApplyCalls[n], odb, th'[t].freq)
      \/ /\ From(16, c) /\ Underway(t, 16) /\ call = "end" /\ Pulses(Tail(c))
         /\ q = << >>
  BY CallPlace
<1>4. "main" \in Thread /\ "worker" \in Thread /\ Thread = {"main", "worker"}
  BY DEF Thread
<1>5. /\ type \in EvaluationBoard /\ DOMAIN reg = Register /\ Sequence(c) /\ Sequence(Tail(c))
  BY <1>1, TailSequence DEF IInv, Types
<1>6. /\ Used' = Used /\ Rate' = Rate
      /\ \A n, w : (WordFollows(n, w))' = WordFollows(n, w) /\ (Clean(n, w))' = Clean(n, w)
      /\ \A n, s : (Held(n, s))' = Held(n, s)
      /\ \A n, rg : (Registered(n, rg))' = Registered(n, rg)
  BY <1>1, SameSettings
<1>7. ASSUME NEW u \in Thread PROVE Now(u)' = Now(u) /\ (u # t => th'[u] = th[u])
  BY <1>1 DEF Now, Others
<1>8. mpc # "init"
  <2>1. ASSUME mpc = "init" PROVE th["main"].calls = << >> /\ th["worker"].calls = << >>
    BY <2>1 DEF IInv, Starting, Control, Busy
  <2> QED
    BY <1>1, <1>4, <2>1
<1>9. bits \subseteq Used
  BY <1>8 DEF IInv, Bounded
<1> HIDE DEF c, call, q
<1>10. Written(q, Used)
  <2>1. Written(<< >>, Used)
    BY SteadyNothing, WrittenSteady
  <2>2. ASSUME NEW bit, q = Pulse(bit), Steady(Pulse(bit), Used) PROVE Written(q, Used)
    BY <2>2, WrittenSteady
  <2>3. ASSUME NEW n \in 2 .. 15, q = Steps(ApplyCalls[n], odb, th'[t].freq) PROVE Written(q, Used)
    BY <1>5, <2>3, CallFits
  <2> QED
    BY <1>3, <2>1, <2>2, <2>3
<1>11. Types'
  BY <1>1, <1>2, <1>5, <1>7, <1>10 DEF IInv, Types, Written, c, q
<1>12. Control'
  <2>1. Busy(t)
    BY <1>1 DEF Busy, c
  <2>2. \A u \in Thread : u # t => (Busy(u))' = Busy(u)
    BY <1>7 DEF Busy
  <2>3. InRun' = InRun
    BY <1>1 DEF InRun
  <2> QED
    BY <1>1, <1>2, <1>4, <2>1, <2>2, <2>3 DEF IInv, Control
<1>13. Starting'
  BY <1>1, <1>8 DEF Starting
<1>14. Bounded'
  <2>1. Sets(q, Used)
    BY <1>10 DEF Written
  <2>2. ASSUME NEW u \in Thread PROVE th'[u].bits \subseteq Used /\ Sets(th'[u].todo, Used)
    <3>1. th[u].bits \subseteq Used /\ Sets(th[u].todo, Used)
      BY <1>8 DEF IInv, Bounded
    <3> QED
      BY <1>1, <1>7, <2>1, <3>1 DEF q
  <2>3. bits \subseteq Used /\ ctrl \subseteq Used \cup Trigs
    BY <1>8 DEF IInv, Bounded
  <2> QED
    BY <1>1, <1>6, <2>2, <2>3 DEF Bounded, Sets
<1>15. Lone'
  <2> SUFFICES ASSUME t \in alone', NEW u \in Thread \ {t}
               PROVE  th'[u].todo = << >> /\ Outside(th'[u].calls)
    BY <1>2 DEF Lone
  <2>1. CASE call = "begin"
    <3>1. th[u].calls = << >> /\ th[u].todo = << >>
      BY <1>2, <2>1 DEF Busy
    <3> QED
      BY <1>7, <3>1, PulseLists DEF Outside
  <2>2. CASE call # "begin"
    BY <1>2, <1>7, <2>2 DEF IInv, Lone
  <2> QED
    BY <2>1, <2>2
<1>16. RunPulses'
  <2>1. ASSUME t = "worker", InRun PROVE Pulses(Tail(c)) /\ NoPut(q)
    <3>1. Pulses(c)
      BY <2>1 DEF IInv, RunPulses, c
    <3>2. \A n \in 1 .. 16 : ~From(n, c)
      BY <1>5, <3>1, FromOn
    <3> QED
      BY <1>3, <3>2 DEF Steady
  <2>2. InRun' = InRun
    BY <1>1 DEF InRun
  <2> QED
    BY <1>1, <1>4, <1>7, <2>1, <2>2 DEF IInv, RunPulses, c, q
<1>17. \A n \in 2 .. 16 : From(n, c) => ~Outside(c)
  <2> SUFFICES ASSUME NEW n \in 2 .. 16, From(n, c), From(1, c) PROVE FALSE
    BY <1>5, FromOn DEF Outside
  <2>1. Head(c) = ApplyCalls[n] /\ Head(c) = ApplyCalls[1]
    BY <1>5, FromOn
  <2>2. ApplyCalls[n] # "begin"
    BY CallNames
  <2> QED
    BY <2>1, <2>2, CallNames
(* What is true of the state of the word before the call.                   *)
<1>18. ASSUME NEW n, Underway(t, n)
       PROVE  /\ Undisturbed(t) => Registered(n, reg) /\ (n > 11 => th[t].freq = Rate)
              /\ t \in alone => Held(n, Now(t))
  <2>1. /\ Undisturbed(t) => Registered(n, RegAfter(<< >>, reg)) /\ (n > 11 => th[t].freq = Rate)
        /\ t \in alone => \E e : Leads(<< >>, Now(t), e) /\ Held(n, e)
    BY <1>1, <1>18 DEF Underway
  <2> QED
    BY <2>1, NoSteps
<1>19. Places'
  <2> SUFFICES ASSUME NEW u \in Thread
               PROVE  \/ Outside(th'[u].calls)
                      \/ \E n \in 2 .. 16 : From(n, th'[u].calls) /\ (Underway(u, n))'
    BY DEF Places
  <2>1. CASE u # t
    <3>1. u \notin alone' /\ InRun' = InRun /\ watched' = watched /\ reg' = reg
      BY <1>1, <1>2, <2>1 DEF InRun
    <3>2. \A n : Underway(u, n) => (Underway(u, n))'
      BY <1>6, <1>7, <2>1, <3>1 DEF Underway, Undisturbed
    <3> QED
      BY <1>7, <2>1, <3>2 DEF IInv, Places
  <2>2. CASE u = t
    <3>1. CASE Pulses(Tail(c))
      BY <1>1, <2>2, <3>1 DEF Outside
    <3>2. CASE From(2, Tail(c)) /\ q = << >>
      <4>1. Registered(2, RegAfter(q, reg')) /\ PutFirst(q)
        BY <3>2, NoSteps DEF Registered
      <4>2. Held(2, Now(t)) /\ Leads(q, Now(t), Now(t))
        BY <3>2, LeadsNothing DEF Held, WordFollows, Clean
      <4>3. (Underway(t, 2))'
        BY <1>6, <1>7, <4>1, <4>2 DEF Underway, q
      <4>4. 2 \in 2 .. 16 /\ th'[u].calls = Tail(c)
        BY <1>1, <2>2
      <4> QED
        BY <2>2, <3>2, <4>3, <4>4
    <3>3. ASSUME NEW n \in 2 .. 15, Underway(t, n), call = ApplyCalls[n],
                 From(n + 1, Tail(c)), q = Steps(ApplyCalls[n], odb, th'[t].freq)
          PROVE  Outside(th'[t].calls) \/ \E m \in 2 .. 16 : From(m, th'[t].calls) /\ (Underway(t, m))'
      <4> DEFINE f == th'[t].freq
      <4>1. /\ Written(q, Used) /\ FitsWord(n, q)
            /\ (n > 11 => f = Rate) => FitsRegister(n, q)
        BY <1>5, <3>3, CallFits
      <4>2. Undisturbed(t)' => Undisturbed(t)
        <5>1. call \notin {"begin", "end"}
          BY <3>3, CallNames
        <5> QED
          BY <1>1, <1>2, <5>1 DEF Undisturbed, InRun
      <4>3. f = IF n = 11 THEN Rate ELSE th[t].freq
        <5>1. call # "end" /\ (call = "SetFrequency" <=> n = 11)
          BY <3>3, CallNames
        <5> QED
          BY <1>1, <5>1 DEF FreqOf, Rate
      <4> HIDE DEF f
      <4>4. Undisturbed(t)' => /\ n + 1 > 11 => f = Rate
                               /\ Registered(n + 1, RegAfter(q, reg))
        <5>1. ASSUME Undisturbed(t) PROVE n + 1 > 11 => f = Rate
          BY <1>18, <3>3, <4>3, <5>1
        <5>2. ASSUME Undisturbed(t) PROVE Registered(n + 1, RegAfter(q, reg))
          <6>1. n > 11 => f = Rate
            BY <5>1, <5>2
          <6> QED
            BY <1>5, <1>18, <3>3, <4>1, <5>2, <6>1 DEF FitsRegister
        <5> QED
          BY <4>2, <5>1, <5>2
      <4>5. t \in alone' => \E e : Leads(q, Now(t), e) /\ Held(n + 1, e)
        <5>1. t \in alone' => t \in alone
          BY <1>2, <3>3, CallNames
        <5>2. Now(t).bits \subseteq Used
          BY <1>9 DEF Now, Word
        <5> QED
          BY <1>18, <3>3, <4>1, <5>1, <5>2 DEF FitsWord
      <4>6. (Underway(t, n + 1))'
        BY <1>1, <1>6, <1>7, <4>1, <4>4, <4>5 DEF Underway, Written, q, f
      <4>7. n + 1 \in 2 .. 16
        OBVIOUS
      <4> QED
        BY <1>1, <3>3, <4>6, <4>7
    <3> QED
      BY <1>3, <2>2, <3>1, <3>2, <3>3
  <2> QED
    BY <2>1, <2>2
<1>20. RunFollows'
  <2> SUFFICES ASSUME followed', InRun, watched = 0, Pulses(th'["main"].calls)
               PROVE  Registered(16, reg) /\ NoPut(th'["main"].todo)
    BY <1>1, <1>6 DEF RunFollows, InRun
  <2>1. CASE t # "main"
    BY <1>2, <1>4, <1>7, <2>1 DEF IInv, RunFollows
  <2>2. CASE t = "main"
    <3>1. Pulses(Tail(c))
      BY <1>1, <2>2
    <3>2. \A n \in 1 .. 16 : ~From(n, Tail(c))
      BY <1>5, <3>1, FromOn
    <3>3. \A n \in 2 .. 15 : n + 1 \in 1 .. 16
      OBVIOUS
    <3>4. CASE Pulses(c) /\ call \in Pulse1
      <4>1. followed
        BY <1>2, <3>4 DEF Pulse1
      <4>2. NoPut(q)
        <5>1. \A n \in 1 .. 16 : ~From(n, c)
          BY <1>5, <3>4, FromOn
        <5> QED
          BY <1>3, <5>1 DEF Steady
      <4> QED
        BY <2>2, <3>4, <4>1, <4>2 DEF IInv, RunFollows, c, q
    <3>5. CASE Underway(t, 16) /\ q = << >>
      BY <1>18, <2>2, <3>5, NoSteps DEF Undisturbed, q
    <3> QED
      BY <1>3, <3>2, <3>3, <3>4, <3>5
  <2> QED
    BY <2>1, <2>2
<1>21. InEffect'
  <2> SUFFICES ASSUME settled'
               PROVE  /\ Registered(16, reg) /\ WordFollows(16, bits) /\ WordFollows(16, ctrl)
                      /\ \A u \in Thread :
                            /\ Outside(th'[u].calls) /\ NoPut(th'[u].todo)
                            /\ (\A v \in Thread \ {u} : th'[v].todo = << >>) => (Calm(u))'
    BY <1>1, <1>6 DEF InEffect
  <2>1. CASE call = "end"
    <3>1. t \in alone /\ Underway(t, 16) /\ q = << >> /\ Pulses(Tail(c))
      <4>1. call \notin Pulse1 /\ call # "begin" /\ \A n \in 2 .. 15 : call # ApplyCalls[n]
        BY <2>1, CallNames
      <4> QED
        BY <1>2, <1>3, <2>1, <4>1
    <3>2. Registered(16, reg) /\ Held(16, Now(t))
      BY <1>18, <3>1 DEF Undisturbed
    <3>3. WordFollows(16, bits) /\ WordFollows(16, ctrl) /\ Clean(16, bits)
      BY <3>2 DEF Held, Now, Word
    <3>4. ASSUME NEW u \in Thread
          PROVE  Outside(th'[u].calls) /\ th'[u].todo = << >>
      <4>1. CASE u = t
        BY <1>1, <3>1, <4>1 DEF Outside, q
      <4>2. CASE u # t
        BY <1>7, <3>1, <4>2 DEF IInv, Lone
      <4> QED
        BY <4>1, <4>2
    <3>5. ASSUME NEW u \in Thread PROVE (Calm(u))'
      <4>1. PICK tr : Runs(<< >>, Now(u), tr) /\ tr[0] = Now(u)
        BY RunsNothing
      <4>2. Now(u).bits = bits /\ Now(u).ctrl = ctrl
        BY DEF Now, Word
      <4> QED
        BY <1>6, <1>7, <3>3, <3>4, <4>1, <4>2, EmptySequence DEF Calm
    <3> QED
      BY <3>2, <3>3, <3>4, <3>5, NoSteps
  <2>2. CASE call # "end"
    <3>1. call # "begin" /\ settled
      BY <1>2, <2>2
    <3>2. /\ Registered(16, reg) /\ WordFollows(16, bits) /\ WordFollows(16, ctrl)
          /\ \A u \in Thread : /\ Outside(th[u].calls) /\ NoPut(th[u].todo)
                               /\ (\A v \in Thread \ {u} : th[v].todo = << >>) => Calm(u)
      BY <3>1 DEF IInv, InEffect
    <3>3. PICK bit \in Trigs : q = Pulse(bit) /\ Steady(Pulse(bit), Used) /\ Pulses(Tail(c))
      BY <1>3, <1>17, <3>1, <3>2, <2>2 DEF c
    <3>4. ASSUME NEW u \in Thread PROVE Outside(th'[u].calls) /\ NoPut(th'[u].todo)
      <4>1. CASE u = t
        BY <1>1, <3>3, <4>1 DEF Outside, Steady, q
      <4>2. CASE u # t
        BY <1>7, <3>2, <4>2
      <4> QED
        BY <4>1, <4>2
    <3>5. ASSUME NEW u \in Thread, \A v \in Thread \ {u} : th'[v].todo = << >> PROVE (Calm(u))'
      <4>1. \A v \in Thread \ {u} : th[v].todo = << >>
        BY <1>1, <1>7, <3>5
      <4>2. Calm(u)
        BY <3>2, <4>1
      <4>3. CASE u # t
        BY <1>6, <1>7, <4>2, <4>3 DEF Calm
      <4>4. CASE u = t
        <5>1. Now(t).bits = bits /\ Now(t).ctrl = ctrl
          BY DEF Now, Word
        <5>2. Clean(16, bits)
          <6>1. PICK tr : Runs(<< >>, Now(t), tr) /\ Clean(16, tr[0].bits)
            BY <1>1, <4>2, <4>4, EmptySequence DEF Calm
          <6> QED
            BY <5>1, <6>1 DEF Runs
        <5>3. \E tr : /\ Runs(q, Now(t), tr)
                      /\ \A k \in 0 .. Len(q) : /\ WordFollows(16, tr[k].bits)
                                                /\ WordFollows(16, tr[k].ctrl)
                      /\ Clean(16, tr[Len(q)].bits)
          BY <3>2, <3>3, <5>1, <5>2, PulseTrace
        <5> QED
          BY <1>6, <1>7, <4>4, <5>3 DEF Calm, q
      <4> QED
        BY <4>3, <4>4
    <3> QED
      BY <3>2, <3>4, <3>5
  <2> QED
    BY <2>1, <2>2
<1> QED
  BY <1>11, <1>12, <1>13, <1>14, <1>15, <1>16, <1>19, <1>20, <1>21 DEF IInv

-----------------------------------------------------------------------------
(* A step of a call.                                                        *)
LEMMA StepsTail ==
    ASSUME NEW q, Sequence(q), q # << >>
    PROVE  /\ Sequence(Tail(q))
           /\ NoPut(q) => NoPut(Tail(q)) /\ Head(q).op # "put"
           /\ PutFirst(q) => NoPut(Tail(q)) /\ PutFirst(Tail(q))
           /\ \A u : Sets(q, u) => /\ Sets(Tail(q), u)
                                   /\ Head(q).op = "store" => Head(q).set \subseteq u
           /\ \A s, e : Leads(q, s, e) => Leads(Tail(q), Do(Head(q), s), e)
<1>1. /\ Sequence(Tail(q)) /\ Len(q) \in Nat \ {0} /\ Len(Tail(q)) = Len(q) - 1
      /\ Head(q) = q[1] /\ \A k \in 1 .. Len(q) - 1 : Tail(q)[k] = q[k + 1]
  BY TailSequence
<1>2. 1 \in 1 .. Len(q)
  BY <1>1
<1>3. ASSUME NEW k \in 1 .. Len(Tail(q))
      PROVE  k + 1 \in 1 .. Len(q) /\ k + 1 # 1 /\ Tail(q)[k] = q[k + 1]
  BY <1>1
<1>4. NoPut(q) => NoPut(Tail(q)) /\ Head(q).op # "put"
  BY <1>1, <1>2, <1>3 DEF NoPut
<1>5. PutFirst(q) => NoPut(Tail(q)) /\ PutFirst(Tail(q))
  BY <1>3 DEF NoPut, PutFirst
<1>6. ASSUME NEW u, Sets(q, u)
      PROVE  Sets(Tail(q), u) /\ (Head(q).op = "store" => Head(q).set \subseteq u)
  <2>1. Sets(Tail(q), u)
    BY <1>3, <1>6 DEF Sets
  <2> QED
    BY <1>1, <1>2, <1>6, <2>1 DEF Sets
<1>7. ASSUME NEW s, NEW e, Leads(q, s, e) PROVE Leads(Tail(q), Do(Head(q), s), e)
  <2>1. PICK tr : Runs(q, s, tr) /\ tr[Len(q)] = e
    BY <1>7 DEF Leads
  <2>2. PICK rest : /\ Runs(Tail(q), Do(Head(q), s), rest)
                    /\ \A k \in 0 .. Len(Tail(q)) : rest[k] = tr[k + 1]
                    /\ Len(Tail(q)) \in Nat /\ Len(q) = Len(Tail(q)) + 1
    BY <2>1, RunsStep
  <2>3. rest[Len(Tail(q))] = e
    BY <2>1, <2>2
  <2> QED
    BY <2>2, <2>3 DEF Leads
<1> QED
  BY <1>1, <1>4, <1>5, <1>6, <1>7

LEMMA NoPutRegister == ASSUME NEW q, Sequence(q), NoPut(q), NEW rg PROVE RegAfter(q, rg) = rg
<1>1. CASE q = << >>
  BY <1>1 DEF RegAfter
<1>2. CASE q # << >>
  BY <1>2, StepsTail DEF RegAfter
<1> QED
  BY <1>1, <1>2

LEMMA StepIInv == ASSUME IInv, NEW t \in Thread, Step(t) PROVE IInv'
<1> DEFINE q == th[t].todo
           x == Head(q)
<1>1. /\ q # << >> /\ DOMAIN th' = Thread /\ DOMAIN th'[t] = Record /\ Others(t)
      /\ th'[t].calls = th[t].calls /\ th'[t].todo = Tail(q) /\ th'[t].freq = th[t].freq
      /\ Now(t)' = Do(x, Now(t))
      /\ reg' = IF x.op = "put" THEN [reg EXCEPT ![x.reg] = x.val] ELSE reg
      /\ alone' = alone \cap {t}
      /\ settled' = (settled /\ \A u \in Thread \ {t} : th[u].todo = << >>)
      /\ UNCHANGED <<type, newFw, odb, watched, mpc, wpc, active, followed>>
  BY StepEffect DEF IInv, boardVars
<1>2. /\ type \in EvaluationBoard /\ DOMAIN reg = Register /\ Sequence(q) /\ watched \in Nat
      /\ alone \subseteq Thread
  BY DEF IInv, Types
<1> HIDE DEF q, x
<1>3. /\ Sequence(Tail(q))
      /\ NoPut(q) => NoPut(Tail(q)) /\ x.op # "put"
      /\ PutFirst(q) => NoPut(Tail(q)) /\ PutFirst(Tail(q))
      /\ \A u : Sets(q, u) => /\ Sets(Tail(q), u)
                              /\ x.op = "store" => x.set \subseteq u
      /\ \A s, e : Leads(q, s, e) => Leads(Tail(q), Do(x, s), e)
  BY <1>1, <1>2, StepsTail DEF x
<1>4. "main" \in Thread /\ "worker" \in Thread /\ Thread = {"main", "worker"}
  BY DEF Thread
<1>5. ASSUME NEW u \in Thread, u # t PROVE th'[u] = th[u]
  BY <1>1, <1>5 DEF Others
<1>6. /\ Used' = Used /\ Rate' = Rate
      /\ \A n, w : (WordFollows(n, w))' = WordFollows(n, w) /\ (Clean(n, w))' = Clean(n, w)
      /\ \A n, s : (Held(n, s))' = Held(n, s)
      /\ \A n, rg : (Registered(n, rg))' = Registered(n, rg)
  BY <1>1, SameSettings
<1>7. /\ Now(t).bits = bits /\ Now(t).ctrl = ctrl /\ Now(t).load = th[t].bits
      /\ Now(t)'.bits = bits' /\ Now(t)'.ctrl = ctrl' /\ Now(t)'.load = th'[t].bits
  BY DEF Now, Word
<1>8. /\ bits' = (IF x.op = "store" THEN (th[t].bits \ x.clear) \cup x.set ELSE bits)
      /\ ctrl' = (IF x.op = "send" THEN bits ELSE ctrl)
      /\ th'[t].bits = (IF x.op = "load" THEN bits ELSE {})
  BY <1>1, <1>7 DEF Do
<1>9. InRun' = InRun
  BY <1>1 DEF InRun
<1>10. (t = "worker" /\ InRun) => NoPut(q) /\ reg' = reg
  BY <1>1, <1>3 DEF IInv, RunPulses, q
<1>11. Types'
  BY <1>1, <1>2, <1>3, <1>5 DEF IInv, Types
<1>12. Control'
  <2>1. \A u \in Thread : (Busy(u))' => Busy(u)
    BY <1>1, <1>5 DEF Busy, q
  <2> QED
    BY <1>1, <1>4, <1>9, <2>1 DEF IInv, Control
<1>13. Starting'
  <2> SUFFICES ASSUME mpc = "init"
               PROVE  /\ th'["main"].calls = << >> /\ th'["worker"].bits = {}
                      /\ ~settled' /\ alone' = {}
                      /\ \E e : /\ Leads(th'["main"].todo, Now("main")', e)
                                /\ e.bits \subseteq Used /\ e.ctrl \subseteq Used \cup Trigs
                                /\ e.load = {}
    BY <1>1, <1>6 DEF IInv, Starting
  <2>1. t = "main"
    BY <1>1, <1>4 DEF IInv, Starting, Control, Busy, q
  <2>2. PICK e : /\ Leads(th["main"].todo, Now("main"), e)
                 /\ e.bits \subseteq Used /\ e.ctrl \subseteq Used \cup Trigs /\ e.load = {}
    BY DEF IInv, Starting
  <2>3. Leads(th'["main"].todo, Now("main")', e)
    BY <1>1, <1>3, <2>1, <2>2 DEF q
  <2>4. /\ th'["main"].calls = << >> /\ th'["worker"].bits = {}
        /\ ~settled' /\ alone' = {}
    BY <1>1, <1>4, <1>5, <2>1 DEF IInv, Starting
  <2> QED
    BY <2>2, <2>3, <2>4
<1>14. Bounded'
  <2> SUFFICES ASSUME mpc # "init"
               PROVE  /\ bits' \subseteq Used /\ ctrl' \subseteq Used \cup Trigs
                      /\ \A u \in Thread : th'[u].bits \subseteq Used /\ Sets(th'[u].todo, Used)
    BY <1>1, <1>6 DEF Bounded, Sets
  <2>1. /\ bits \subseteq Used /\ ctrl \subseteq Used \cup Trigs
        /\ \A u \in Thread : th[u].bits \subseteq Used /\ Sets(th[u].todo, Used)
    BY DEF IInv, Bounded
  <2>2. Sets(q, Used) /\ th[t].bits \subseteq Used
    BY <2>1 DEF q
  <2>3. bits' \subseteq Used /\ ctrl' \subseteq Used \cup Trigs /\ th'[t].bits \subseteq Used
    BY <1>3, <1>8, <2>1, <2>2
  <2>4. Sets(th'[t].todo, Used)
    BY <1>1, <1>3, <2>2
  <2> QED
    BY <1>5, <2>1, <2>3, <2>4
<1>15. Places'
  <2> SUFFICES ASSUME NEW u \in Thread, NEW n \in 2 .. 16, From(n, th[u].calls), Underway(u, n)
               PROVE  (Underway(u, n))'
    <3>1. \A u \in Thread : th'[u].calls = th[u].calls
      BY <1>1, <1>5
    <3> QED
      BY <3>1 DEF IInv, Places
  <2>1. Undisturbed(u)' => Undisturbed(u)
    BY <1>1, <1>9 DEF Undisturbed
  <2>2. CASE u = t
    <3>1. PutFirst(q)
      BY <2>2 DEF Underway, q
    <3>2. RegAfter(Tail(q), reg') = RegAfter(q, reg)
      <4>1. RegAfter(q, reg) = reg'
        BY <1>1 DEF RegAfter, x
      <4>2. RegAfter(Tail(q), reg') = reg'
        BY <1>3, <3>1, NoPutRegister
      <4> QED
        BY <4>1, <4>2
    <3>3. Undisturbed(t)' => /\ n > 11 => th'[t].freq = Rate
                             /\ Registered(n, RegAfter(th'[t].todo, reg'))
      BY <1>1, <2>1, <2>2, <3>2 DEF Underway, q
    <3>4. t \in alone' => \E e : Leads(th'[t].todo, Now(t)', e) /\ Held(n, e)
      BY <1>1, <1>3, <2>2 DEF Underway, q
    <3> QED
      BY <1>1, <1>3, <1>6, <2>2, <3>1, <3>3, <3>4 DEF Underway
  <2>3. CASE u # t
    <3>1. u \notin alone'
      BY <1>1, <2>3
    <3>2. Undisturbed(u)' => reg' = reg
      BY <1>4, <1>9, <1>10, <2>3, <3>1 DEF Undisturbed
    <3> QED
      BY <1>5, <1>6, <2>1, <2>3, <3>1, <3>2 DEF Underway
  <2> QED
    BY <2>2, <2>3
<1>16. Lone'
  BY <1>1, <1>5 DEF IInv, Lone
<1>17. RunPulses'
  BY <1>1, <1>3, <1>4, <1>5, <1>9 DEF IInv, RunPulses, q
<1>18. RunFollows'
  <2> SUFFICES ASSUME followed, InRun, watched = 0, Pulses(th'["main"].calls)
               PROVE  Registered(16, reg') /\ NoPut(th'["main"].todo)
    BY <1>1, <1>6, <1>9 DEF RunFollows
  <2>1. th'["main"].calls = th["main"].calls
    BY <1>1, <1>4, <1>5
  <2>2. Registered(16, reg) /\ NoPut(th["main"].todo)
    BY <2>1 DEF IInv, RunFollows
  <2>3. reg' = reg
    BY <1>1, <1>3, <1>4, <1>10, <2>2 DEF q
  <2> QED
    BY <1>1, <1>3, <1>4, <1>5, <2>2, <2>3 DEF q
<1>19. InEffect'
  <2> SUFFICES ASSUME settled'
               PROVE  /\ Registered(16, reg') /\ WordFollows(16, bits') /\ WordFollows(16, ctrl')
                      /\ \A u \in Thread :
                            /\ Outside(th'[u].calls) /\ NoPut(th'[u].todo)
                            /\ (\A v \in Thread \ {u} : th'[v].todo = << >>) => (Calm(u))'
    BY <1>6 DEF InEffect
  <2>1. settled /\ \A u \in Thread \ {t} : th[u].todo = << >>
    BY <1>1
  <2>2. /\ Registered(16, reg) /\ Calm(t)
        /\ \A u \in Thread : Outside(th[u].calls) /\ NoPut(th[u].todo)
    BY <2>1 DEF IInv, InEffect
  <2>3. PICK tr : /\ Runs(q, Now(t), tr)
                  /\ \A k \in 0 .. Len(q) : /\ WordFollows(16, tr[k].bits)
                                            /\ WordFollows(16, tr[k].ctrl)
                  /\ Clean(16, tr[Len(q)].bits)
    BY <2>2 DEF Calm, q
  <2>4. PICK rest : /\ Runs(Tail(q), Do(x, Now(t)), rest)
                    /\ \A k \in 0 .. Len(Tail(q)) : rest[k] = tr[k + 1]
                    /\ Len(Tail(q)) \in Nat /\ Len(q) = Len(Tail(q)) + 1
    BY <1>1, <1>2, <2>3, RunsStep DEF x
  <2>5. \A k \in 0 .. Len(Tail(q)) : WordFollows(16, rest[k].bits) /\ WordFollows(16, rest[k].ctrl)
    <3>1. \A k \in 0 .. Len(Tail(q)) : k + 1 \in 0 .. Len(q)
      BY <2>4
    <3> QED
      BY <2>3, <2>4, <3>1
  <2>6. Clean(16, rest[Len(Tail(q))].bits)
    <3>1. rest[Len(Tail(q))] = tr[Len(q)]
      BY <2>4
    <3> QED
      BY <2>3, <3>1
  <2>7. rest[0] = Now(t)'
    BY <1>1, <2>4 DEF Runs
  <2>8. WordFollows(16, bits') /\ WordFollows(16, ctrl')
    <3>1. 0 \in 0 .. Len(Tail(q))
      BY <2>4
    <3> QED
      BY <1>7, <2>5, <2>7, <3>1
  <2>9. (Calm(t))'
    BY <1>1, <1>6, <2>4, <2>5, <2>6 DEF Calm
  <2>10. Registered(16, reg')
    BY <1>1, <1>3, <2>2 DEF q
  <2>11. ASSUME NEW u \in Thread
         PROVE  /\ Outside(th'[u].calls) /\ NoPut(th'[u].todo)
                /\ (\A v \in Thread \ {u} : th'[v].todo = << >>) => (Calm(u))'
    <3>1. CASE u = t
      BY <1>1, <1>3, <2>2, <2>9, <3>1 DEF q
    <3>2. CASE u # t
      <4>1. Outside(th'[u].calls) /\ th'[u].todo = << >>
        BY <1>5, <2>1, <2>2, <3>2
      <4>2. ASSUME \A v \in Thread \ {u} : th'[v].todo = << >> PROVE (Calm(u))'
        <5>1. Tail(q) = << >>
          BY <1>1, <3>2, <4>2
        <5>2. Clean(16, bits')
          BY <1>7, <2>6, <2>7, <5>1, EmptySequence
        <5>3. Now(u)'.bits = bits' /\ Now(u)'.ctrl = ctrl'
          BY DEF Now, Word
        <5>4. PICK one : Runs(<< >>, Now(u)', one) /\ one[0] = Now(u)'
          BY RunsNothing
        <5> QED
          BY <1>6, <2>8, <4>1, <5>2, <5>3, <5>4, EmptySequence DEF Calm
      <4> QED
        BY <4>1, <4>2, NoSteps
    <3> QED
      BY <3>1, <3>2
  <2> QED
    BY <2>8, <2>10, <2>11
<1> QED
  BY <1>11, <1>12, <1>13, <1>14, <1>15, <1>16, <1>17, <1>18, <1>19 DEF IInv

-----------------------------------------------------------------------------
LEMMA StutterIInv == ASSUME IInv, UNCHANGED vars PROVE IInv'
<1>1. /\ UNCHANGED <<type, newFw, odb, watched, bits, ctrl, reg, th, mpc, wpc, active,
                     alone, settled, followed>>
  BY DEF vars, boardVars, hwVars, histVars
<1>2. /\ Used' = Used /\ Rate' = Rate
      /\ \A n, w : (WordFollows(n, w))' = WordFollows(n, w) /\ (Clean(n, w))' = Clean(n, w)
      /\ \A n, s : (Held(n, s))' = Held(n, s)
      /\ \A n, rg : (Registered(n, rg))' = Registered(n, rg)
  BY <1>1, SameSettings
<1>3. (\A t : Now(t)' = Now(t)) /\ (\A t : Busy(t)' = Busy(t)) /\ InRun' = InRun
  BY <1>1 DEF Now, Busy, InRun
<1>4. Types' /\ Control'
  BY <1>1, <1>3 DEF IInv, Types, Control
<1>5. Starting' /\ Bounded'
  BY <1>1, <1>2, <1>3 DEF IInv, Starting, Bounded
<1>6. Places'
  BY <1>1, <1>2, <1>3 DEF IInv, Places, Underway, Undisturbed
<1>7. Lone' /\ RunPulses' /\ RunFollows'
  BY <1>1, <1>2, <1>3 DEF IInv, Lone, RunPulses, RunFollows
<1>8. InEffect'
  BY <1>1, <1>2, <1>3 DEF IInv, InEffect, Calm
<1> QED
  BY <1>4, <1>5, <1>6, <1>7, <1>8 DEF IInv

LEMMA NextIInv == IInv /\ [Next]_vars => IInv'
<1> SUFFICES ASSUME IInv, [Next]_vars PROVE IInv'
  OBVIOUS
<1>1. CASE Change
  BY <1>1, ChangeIInv
<1>2. CASE MainStep
  BY <1>2, MainTurns, TurnIInv DEF IInv
<1>3. CASE WorkerStep
  <2>1. /\ Same /\ watched' = watched /\ mpc' = mpc /\ mpc # "init"
        /\ th' = th \/ Begins("worker")
        /\ Turns /\ Control' /\ RunPulses'
    BY <1>3, WorkerTurns DEF IInv
  <2>2. watched' \in Nat /\ "worker" \in Thread
    BY <2>1 DEF IInv, Types, Thread
  <2> QED
    BY <2>1, <2>2, TurnIInv
<1>4. CASE \E t \in Thread : Call(t) \/ Step(t)
  BY <1>4, CallIInv, StepIInv
<1>5. CASE UNCHANGED vars
  BY <1>5, StutterIInv
<1> QED
  BY <1>1, <1>2, <1>3, <1>4, <1>5 DEF Next

(* What is proved inductive: where each thread is in apply_board_config()   *)
(* and what its calls so far have brought in line.                          *)
THEOREM Underlying == Spec => []IInv
  BY InitIInv, NextIInv, PTL DEF Spec

-----------------------------------------------------------------------------
(* The word the settings ask for is the one the calls bring about, but for  *)
(* the switch that the last of them opens.                                  *)
LEMMA WantedButSwitch ==
    ASSUME type \in EvaluationBoard, NEW w, w \subseteq Used \cup Trigs, WordFollows(16, w)
    PROVE  /\ w \ ({NEG_TRIGGER, TCAL_SOURCE} \cup Trigs) = Wanted \ {ACAL_EN}
           /\ ~ClockSwitched => ACAL_EN \notin Wanted
<1> DEFINE v == w \ ({NEG_TRIGGER, TCAL_SOURCE} \cup Trigs)
           all == {TCAL_EN, TRANSP_MODE, ENABLE_TRIGGER1, READOUT_MODE, ACAL_EN, DACTIVE,
                   ENABLE_TRIGGER2, TR_SOURCE1, TR_SOURCE2}
           source == SourceMask(odb)
<1> HIDE DEF source
<1> USE DEF NEG_TRIGGER, TCAL_SOURCE, Trigs, START_TRIG, REINIT_TRIG, SOFT_TRIG,
            EEPROM_READ_TRIG, TCAL_EN, TRANSP_MODE, ENABLE_TRIGGER1, READOUT_MODE, ACAL_EN,
            DACTIVE, ENABLE_TRIGGER2, TR_SOURCE1, TR_SOURCE2
<1>1. v \subseteq all /\ (type \in {8, 9} => TR_SOURCE1 \notin v /\ TR_SOURCE2 \notin v)
  BY DEF Used
<1>2. \A b \in all : b \in v <=> b \in w
  OBVIOUS
<1>3. /\ TRANSP_MODE \in w <=> (newFw /\ odb["TranspMode"])
      /\ DACTIVE \in w <=> odb["DominoActive"]
      /\ READOUT_MODE \in w <=> odb["ReadoutMode"] = "FROM_STOP"
      /\ TCAL_EN \in w <=> odb["EnableTcal"]
      /\ ENABLE_TRIGGER1 \in w <=> type \in {8, 9}
      /\ ENABLE_TRIGGER2 \in w <=> type \in {5, 7}
      /\ type \in {5, 7} => /\ TR_SOURCE1 \in w <=> 0 \in source
                            /\ TR_SOURCE2 \in w <=> 1 \in source
      /\ ACAL_EN \notin w
  BY DEF WordFollows, source
<1> DEFINE Flag(bit, on) == IF on THEN {bit} ELSE {}
           f0 == Flag(ACAL_EN, ClockSwitched)
           f1 == Flag(TRANSP_MODE, newFw /\ odb["TranspMode"])
           f2 == Flag(DACTIVE, odb["DominoActive"])
           f3 == Flag(READOUT_MODE, odb["ReadoutMode"] = "FROM_STOP")
           f4 == Flag(TCAL_EN, odb["EnableTcal"])
           f5 == Flag(TR_SOURCE1, 0 \in source)
           f6 == Flag(TR_SOURCE2, 1 \in source)
           f7 == IF type \in {8, 9} THEN {ENABLE_TRIGGER1} ELSE {ENABLE_TRIGGER2} \cup f5 \cup f6
<1>4. Wanted = f0 \cup f1 \cup f2 \cup f3 \cup f4 \cup f7
  BY DEF Wanted, source
<1>0. f0 \subseteq {ACAL_EN} /\ (~ClockSwitched => f0 = {})
  OBVIOUS
<1>5. /\ \A b : b \in f1 <=> b = TRANSP_MODE /\ TRANSP_MODE \in w
      /\ \A b : b \in f2 <=> b = DACTIVE /\ DACTIVE \in w
      /\ \A b : b \in f3 <=> b = READOUT_MODE /\ READOUT_MODE \in w
      /\ \A b : b \in f4 <=> b = TCAL_EN /\ TCAL_EN \in w
  BY <1>3
<1>6. \A b : b \in f7 <=> \/ b = ENABLE_TRIGGER1 /\ type \in {8, 9}
                          \/ b = ENABLE_TRIGGER2 /\ type \in {5, 7}
                          \/ b = TR_SOURCE1 /\ type \in {5, 7} /\ TR_SOURCE1 \in w
                          \/ b = TR_SOURCE2 /\ type \in {5, 7} /\ TR_SOURCE2 \in w
  <2>1. CASE type \in {8, 9}
    BY <2>1
  <2>2. CASE type \in {5, 7}
    BY <1>3, <2>2
  <2> QED
    BY <2>1, <2>2 DEF EvaluationBoard
<1> HIDE DEF v, f0, f1, f2, f3, f4, f7
<1>7. ASSUME NEW b PROVE b \in v <=> b \in f1 \cup f2 \cup f3 \cup f4 \cup f7
  <2>1. ASSUME b \in v PROVE b \in f1 \cup f2 \cup f3 \cup f4 \cup f7
    <3>1. b \in all /\ b \in w
      BY <1>1, <1>2, <2>1
    <3>2. (b = TR_SOURCE1 \/ b = TR_SOURCE2) => type \in {5, 7}
      BY <1>1, <2>1 DEF EvaluationBoard
    <3> QED
      BY <1>3, <1>5, <1>6, <3>1, <3>2
  <2>2. ASSUME b \in f1 \cup f2 \cup f3 \cup f4 \cup f7 PROVE b \in v
    <3>1. b \in all /\ b \in w
      BY <1>3, <1>5, <1>6, <2>2
    <3> QED
      BY <1>2, <3>1
  <2> QED
    BY <2>1, <2>2
<1>8. ACAL_EN \notin f1 \cup f2 \cup f3 \cup f4 \cup f7
  BY <1>5, <1>6
<1> HIDE DEF NEG_TRIGGER, TCAL_SOURCE, Trigs, ACAL_EN
<1>9. v = Wanted \ {ACAL_EN} /\ (~ClockSwitched => ACAL_EN \notin Wanted)
  BY <1>0, <1>4, <1>7, <1>8
<1> QED
  BY <1>9 DEF v

LEMMA WantedWord ==
    ASSUME type \in EvaluationBoard, NEW w, w \subseteq Used \cup Trigs, WordFollows(16, w)
    PROVE  w \ Apart = Wanted \ Apart
<1> DEFINE others == {NEG_TRIGGER, TCAL_SOURCE} \cup Trigs
<1>1. w \ others = Wanted \ {ACAL_EN} /\ (~ClockSwitched => ACAL_EN \notin Wanted)
  BY WantedButSwitch
<1>2. Apart = others \cup IF ClockSwitched THEN {ACAL_EN} ELSE {}
  BY DEF Apart
<1> HIDE DEF others
<1>3. CASE ClockSwitched
  BY <1>1, <1>2, <1>3
<1>4. CASE ~ClockSwitched
  BY <1>1, <1>2, <1>4
<1> QED
  BY <1>3, <1>4

LEMMA RegistersAre == Registered(16, reg) => RegistersFollow
<1> SUFFICES ASSUME Registered(16, reg) PROVE RegistersFollow
  OBVIOUS
<1>1. 16 > 2 /\ 16 > 10 /\ 16 > 11 /\ 16 > 13 /\ 16 > 14
  OBVIOUS
<1>2. /\ reg["range"] = odb["InputRange"]
      /\ type \in {8, 9} => reg["trigger"] = SourceMask(odb)
      /\ InRange(Rate) => reg["frequency"] = Rate
      /\ reg["delay"] = <<Rate, odb["TriggerDelayNs"]>>
      /\ type \in {8, 9} => reg["levels"] = odb["TriggerLevel"]
  BY <1>1, Zenon DEF Registered
<1> QED
  BY <1>2, Zenon DEF RegistersFollow, Rate

(* An apply_board_config() that neither the other thread nor a change of    *)
(* the settings disturbs leaves the board as the settings ask: all          *)
(* registers, and the control word as fCtrlBits and as sent, the switch of  *)
(* the calibration clock on type 9 excepted; the pulses of later captures   *)
(* keep it so, and their bits are gone when nobody is busy.                 *)
THEOREM ConfigurationComplete == Spec => []ConfigurationInEffect
<1>1. IInv => ConfigurationInEffect
  <2> SUFFICES ASSUME IInv, settled PROVE ConfigurationInEffect
    BY DEF ConfigurationInEffect
  <2>1. /\ Registered(16, reg) /\ WordFollows(16, bits) /\ WordFollows(16, ctrl)
        /\ \A t \in Thread : (\A u \in Thread \ {t} : th[u].todo = << >>) => Calm(t)
    BY DEF IInv, InEffect
  <2>2. type \in EvaluationBoard /\ bits \subseteq Used /\ ctrl \subseteq Used \cup Trigs
    BY DEF IInv, Types, Starting, Bounded
  <2>3. RegistersFollow
    BY <2>1, RegistersAre
  <2>4. bits \ Apart = Wanted \ Apart /\ ctrl \ Apart = Wanted \ Apart
    BY <2>1, <2>2, WantedWord
  <2>5. type = 9 => (NEG_TRIGGER \in ctrl <=> odb["TriggerPolarity"] = "FALLING")
    BY <2>1 DEF WordFollows
  <2>6. ASSUME InRange(odb["Sampling Rate"]), \A t \in Thread : ~Busy(t)
        PROVE  bits \cap Trigs = {}
    <3>1. \A t \in Thread : th[t].todo = << >>
      BY <2>6 DEF Busy
    <3>2. Calm("main") /\ th["main"].todo = << >>
      BY <2>1, <3>1 DEF Thread
    <3>3. PICK tr : Runs(<< >>, Now("main"), tr) /\ Clean(16, tr[0].bits)
      BY <3>2, EmptySequence DEF Calm
    <3>4. tr[0].bits = bits
      BY <3>3 DEF Runs, Now, Word
    <3> QED
      <4>1. 16 > 11
        OBVIOUS
      <4>2. InRange(Rate)
        BY <2>6, Zenon DEF Rate
      <4> QED
        BY <3>3, <3>4, <4>1, <4>2, Zenon DEF Clean
  <2> QED
    BY <2>3, <2>4, <2>5, <2>6 DEF ConfigurationInEffect
<1> QED
  BY <1>1, Underlying, PTL

(* During a run, once a watch has ended and no change waits for another, the *)
(* registers are those the settings ask for: nothing older is written after *)
(* it, whatever the readout loop does meanwhile.                            *)
THEOREM RunFollowed == Spec => []RunFollowsSettings
<1>1. IInv => RunFollowsSettings
  <2> SUFFICES ASSUME IInv, followed, InRun, watched = 0, ~Busy("main") PROVE RegistersFollow
    BY DEF RunFollowsSettings, InRun
  <2>1. Pulses(th["main"].calls)
    BY PulseLists DEF Busy
  <2> QED
    BY <2>1, RegistersAre DEF IInv, RunFollows
<1> QED
  BY <1>1, Underlying, PTL
=============================================================================
