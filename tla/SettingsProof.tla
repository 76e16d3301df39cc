---------------------------- MODULE SettingsProof ----------------------------
(***************************************************************************)
(* Proofs about Settings for any boards, any number of slots and any number *)
(* of requests: the operator's settings are kept, init() and                *)
(* rescan_boards() leave the directories as the boards are, and a scan      *)
(* misses no board before one that cannot be opened.                        *)
(*                                                                          *)
(* The properties speak of the main thread at rest.  The invariant says     *)
(* what is still missing before that: the steps of init() or                *)
(* rescan_boards() the thread has yet to do make up for it.                 *)
(***************************************************************************)
EXTENDS Settings, SequenceTheorems, FiniteSetTheorems, TLAPS

Pending(op, i) == \E k \in 1..Len(todo) : todo[k] = <<op, i>>

Matches(i) == /\ Present(i)
              /\ odb[i].serial = slot[i + 1].serial
              /\ odb[i].type = slot[i + 1].type

Records ==
    /\ odb = [i \in Index |-> odb[i]]
    /\ \A i \in Index : odb[i] = [serial |-> odb[i].serial, type |-> odb[i].type,
                                  level |-> odb[i].level]
    /\ \E S : found \in Seq(S)
    /\ num \in 0..Slots

(* The boards are being scanned.  Whether this is a rescan is decided when  *)
(* the old ones are closed.                                                 *)
Scanning ==
    \/ todo = RescanCalls
    \/ todo = <<<<"close", 0>>, <<"open", 0>>, <<"adopt", 0>>>>
    \/ todo = <<<<"open", 0>>, <<"adopt", 0>>>> /\ tidied = watching
    \/ todo = <<<<"adopt", 0>>>> /\ tidied = watching

Step(op) == IF op = "drop" THEN num..Slots - 1 ELSE IF op = "watch" THEN {0} ELSE 0..num - 1

(* The directories are being brought up to date.                            *)
Settling ==
    /\ todo \in Seq({"fill", "info", "watch", "drop"} \X Index)
    /\ \A k \in 1..Len(todo) : todo[k][2] \in Step(todo[k][1])
    /\ \A i \in 0..num - 1 : Pending("info", i) \/ Matches(i)
    /\ \A i \in Index : \A k \in 1..Len(todo) : todo[k] = <<"info", i>> =>
         Present(i) \/ \E j \in 1..k - 1 : todo[j] = <<"fill", i>>
    /\ tidied => \A i \in num..Slots - 1 : ~Present(i) \/ Pending("drop", i)

Saves == save \in [Paste -> [value : Level, status : {Idle, Sent, "saved", "failed"}]]

IInv == Records /\ (running => Scanning \/ Settling)

-----------------------------------------------------------------------------
(* Where a step sits in what is left when the head has been done.           *)
LEMMA TailSteps ==
  ASSUME NEW S, todo \in Seq(S), todo # << >>
  PROVE  /\ Tail(todo) \in Seq(S)
         /\ Len(Tail(todo)) = Len(todo) - 1
         /\ \A k \in 1..Len(Tail(todo)) : k + 1 \in 1..Len(todo) /\ Tail(todo)[k] = todo[k + 1]
         /\ Head(todo) = todo[1]
  OBVIOUS

LEMMA PendingTail ==
  ASSUME NEW S, todo \in Seq(S), todo # << >>, todo' = Tail(todo), NEW op, NEW i,
         Pending(op, i), Head(todo) # <<op, i>>
  PROVE  Pending(op, i)'
  <1>1. PICK k \in 1..Len(todo) : todo[k] = <<op, i>>
    BY DEF Pending
  <1>2. k # 1 /\ k - 1 \in 1..Len(Tail(todo)) /\ Tail(todo)[k - 1] = todo[k]
    BY <1>1, TailSteps
  <1> QED
    BY <1>1, <1>2 DEF Pending

(* A step of init() or rescan_boards() is done, and what it was for is so.  *)
LEMMA SettlingTail ==
  ASSUME Records, Settling, todo # << >>, todo' = Tail(todo),
         num' = num, slot' = slot, tidied' = tidied,
         NEW op, NEW n, Head(todo) = <<op, n>>,
         \A i \in Index : Present(i) => Present(i)' \/ (op = "drop" /\ i = n),
         \A i \in Index : Present(i)' => Present(i) \/ (op = "fill" /\ i = n),
         \A i \in 0..num - 1 : Matches(i) => Matches(i)',
         op = "fill" => Present(n)',
         op = "info" => Matches(n)',
         op = "drop" => ~Present(n)'
  PROVE  Settling'
  <1> DEFINE S == {"fill", "info", "watch", "drop"} \X Index
  <1>1. todo \in Seq(S) /\ num \in 0..Slots
    BY DEF Settling, Records
  <1>2. /\ todo' \in Seq(S) /\ Len(todo') = Len(todo) - 1
        /\ \A k \in 1..Len(todo') : k + 1 \in 1..Len(todo) /\ todo'[k] = todo[k + 1]
        /\ Head(todo) = todo[1] /\ 1 \in 1..Len(todo)
    BY <1>1, TailSteps
  <1>3. n \in Step(op) /\ op \in {"fill", "info", "watch", "drop"} /\ n \in Index
    BY <1>1, <1>2 DEF Settling
  <1>4. (\A k \in 1..Len(todo) : todo[k][2] \in Step(todo[k][1]))'
    BY <1>2 DEF Settling, Step
  <1>5. ASSUME NEW i \in 0..num - 1 PROVE Pending("info", i)' \/ Matches(i)'
    <2>1. CASE Matches(i)
      BY <2>1
    <2>2. CASE Pending("info", i)
      BY <1>1, <2>2, PendingTail
    <2> QED
      BY <2>1, <2>2 DEF Settling
  <1>6. ASSUME NEW i \in Index, NEW k \in 1..Len(todo'), todo'[k] = <<"info", i>>
        PROVE  Present(i)' \/ \E j \in 1..k - 1 : todo'[j] = <<"fill", i>>
    <2>1. k + 1 \in 1..Len(todo) /\ todo'[k] = todo[k + 1]
      BY <1>2
    <2>2. i \in 0..num - 1
      <3>1. todo[k + 1][1] = "info" /\ todo[k + 1][2] = i
        BY <1>6, <2>1
      <3> QED
        BY <2>1, <3>1 DEF Settling, Step
    <2>3. op = "drop" => i # n
      BY <1>1, <1>3, <2>2 DEF Step
    <2>4. CASE Present(i)
      BY <2>3, <2>4
    <2>5. CASE \E j \in 1..k : todo[j] = <<"fill", i>>
      <3>1. PICK j \in 1..k : todo[j] = <<"fill", i>>
        BY <2>5
      <3>2. CASE j = 1
        BY <1>2, <3>1, <3>2
      <3>3. CASE j # 1
        <4>1. j - 1 \in 1..k - 1 /\ todo'[j - 1] = todo[j]
          BY <1>2, <2>1, <3>1, <3>3
        <4> QED
          BY <3>1, <4>1
      <3> QED
        BY <3>2, <3>3
    <2>6. Present(i) \/ \E j \in 1..(k + 1) - 1 : todo[j] = <<"fill", i>>
      BY <1>6, <2>1 DEF Settling
    <2> QED
      BY <2>4, <2>5, <2>6
  <1>7. ASSUME tidied, NEW i \in num..Slots - 1 PROVE ~Present(i)' \/ Pending("drop", i)'
    <2>1. i \in Index
      BY <1>1 DEF Index
    <2>2. op = "fill" => i # n
      BY <1>1, <1>3 DEF Step
    <2>3. CASE ~Present(i)
      BY <2>1, <2>2, <2>3
    <2>4. CASE Pending("drop", i)
      BY <1>1, <2>4, PendingTail
    <2> QED
      BY <1>7, <2>3, <2>4 DEF Settling
  <1> QED
    BY <1>2, <1>4, <1>5, <1>6, <1>7 DEF Settling

-----------------------------------------------------------------------------
(* What init() and rescan_boards() are left with when n boards were found.  *)
Steps4 == {"fill", "info", "watch", "drop"} \X Index

LEMMA InitStepsAre ==
  ASSUME NEW n \in 0..Slots
  PROVE  /\ InitSteps(n) \in Seq(Steps4) /\ Len(InitSteps(n)) = 2 * n + 1
         /\ \A i \in 0..n - 1 : /\ InitSteps(n)[i + 1] = <<"fill", i>>
                                /\ InitSteps(n)[n + i + 1] = <<"info", i>>
         /\ InitSteps(n)[2 * n + 1] = <<"watch", 0>>
         /\ \A k \in 1..Len(InitSteps(n)) :
              \/ \E i \in 0..n - 1 :
                   \/ InitSteps(n)[k] = <<"fill", i>>
                   \/ /\ InitSteps(n)[k] = <<"info", i>>
                      /\ \E j \in 1..k - 1 : InitSteps(n)[j] = <<"fill", i>>
              \/ InitSteps(n)[k] = <<"watch", 0>>
  <1> DEFINE f == Steps("fill", n)
             g == Steps("info", n)
             w == <<<<"watch", 0>>>>
  <1>1. n \in Nat /\ 0 \in Index /\ \A k \in 1..n : k - 1 \in Index
    BY SettingsAssumption DEF Index
  <1>2. /\ f \in Seq(Steps4) /\ Len(f) = n /\ \A k \in 1..n : f[k] = <<"fill", k - 1>>
    BY <1>1 DEF Steps, Steps4
  <1>3. /\ g \in Seq(Steps4) /\ Len(g) = n /\ \A k \in 1..n : g[k] = <<"info", k - 1>>
    BY <1>1 DEF Steps, Steps4
  <1>4. w \in Seq(Steps4) /\ Len(w) = 1 /\ w[1] = <<"watch", 0>>
    BY <1>1 DEF Steps4
  <1>5. InitSteps(n) = (f \o g) \o w
    BY DEF InitSteps
  <1> HIDE DEF f, g, w
  <1>6. /\ f \o g \in Seq(Steps4) /\ Len(f \o g) = 2 * n
        /\ \A k \in 1..n : (f \o g)[k] = f[k] /\ (f \o g)[n + k] = g[k]
    <2>1. /\ f \o g \in Seq(Steps4) /\ Len(f \o g) = n + n
          /\ \A k \in 1..n : (f \o g)[k] = f[k] /\ (f \o g)[n + k] = g[k]
      <3>1. /\ f \o g \in Seq(Steps4) /\ Len(f \o g) = Len(f) + Len(g)
            /\ \A k \in 1..Len(f) : (f \o g)[k] = f[k]
            /\ \A k \in 1..Len(g) : (f \o g)[Len(f) + k] = g[k]
        <4>1. f \in Seq(Steps4) /\ g \in Seq(Steps4)
          BY <1>2, <1>3
        <4> QED
          BY <4>1
      <3> QED
        BY <1>1, <1>2, <1>3, <3>1
    <2> QED
      BY <1>1, <2>1
  <1>7. /\ InitSteps(n) \in Seq(Steps4) /\ Len(InitSteps(n)) = 2 * n + 1
        /\ \A k \in 1..2 * n : InitSteps(n)[k] = (f \o g)[k]
        /\ InitSteps(n)[2 * n + 1] = w[1]
    <2> DEFINE h == f \o g
    <2>1. h \in Seq(Steps4) /\ Len(h) = 2 * n
      BY <1>6
    <2>2. InitSteps(n) = h \o w
      BY <1>5
    <2> HIDE DEF h
    <2>3. /\ h \o w \in Seq(Steps4) /\ Len(h \o w) = Len(h) + Len(w)
          /\ \A k \in 1..Len(h) : (h \o w)[k] = h[k]
          /\ \A k \in 1..Len(w) : (h \o w)[Len(h) + k] = w[k]
      <3>1. h \in Seq(Steps4) /\ w \in Seq(Steps4)
        BY <1>4, <2>1
      <3> QED
        BY <3>1
    <2>4. /\ InitSteps(n) \in Seq(Steps4) /\ Len(InitSteps(n)) = 2 * n + 1
          /\ \A k \in 1..2 * n : InitSteps(n)[k] = h[k]
          /\ InitSteps(n)[2 * n + 1] = w[1]
      BY <1>4, <2>1, <2>2, <2>3
    <2> QED
      BY <2>4 DEF h
  <1>8. ASSUME NEW i \in 0..n - 1
        PROVE  /\ InitSteps(n)[i + 1] = <<"fill", i>>
               /\ InitSteps(n)[n + i + 1] = <<"info", i>>
    <2>1. i + 1 \in 1..n /\ i + 1 \in 1..2 * n /\ n + (i + 1) \in 1..2 * n
          /\ n + i + 1 = n + (i + 1) /\ (i + 1) - 1 = i
      BY <1>1
    <2>2. f[i + 1] = <<"fill", i>> /\ g[i + 1] = <<"info", i>>
      BY <1>2, <1>3, <2>1
    <2> QED
      BY <1>6, <1>7, <2>1, <2>2
  <1>9. ASSUME NEW k \in 1..Len(InitSteps(n)), InitSteps(n)[k] # <<"watch", 0>>
        PROVE  \E i \in 0..n - 1 :
                 \/ InitSteps(n)[k] = <<"fill", i>>
                 \/ /\ InitSteps(n)[k] = <<"info", i>>
                    /\ \E j \in 1..k - 1 : InitSteps(n)[j] = <<"fill", i>>
    <2>1. k \in 1..2 * n
      BY <1>1, <1>4, <1>7, <1>9
    <2>2. CASE k <= n
      <3>1. k - 1 \in 0..n - 1 /\ (k - 1) + 1 = k
        BY <1>1, <2>1, <2>2
      <3> QED
        BY <1>8, <3>1
    <2>3. CASE k > n
      <3> DEFINE i == k - n - 1
      <3>1. i \in 0..n - 1 /\ n + i + 1 = k /\ i + 1 \in 1..k - 1
        BY <1>1, <2>1, <2>3
      <3> HIDE DEF i
      <3> QED
        BY <1>8, <3>1
    <2>4. k <= n \/ k > n
      BY <1>1, <2>1
    <2> QED
      BY <2>2, <2>3, <2>4, Zenon
  <1> QED
    BY <1>4, <1>7, <1>8, <1>9

LEMMA RescanStepsAre ==
  ASSUME NEW n \in 0..Slots
  PROVE  /\ RescanSteps(n) \in Seq(Steps4) /\ Len(RescanSteps(n)) = (Slots - n) + 2 * n
         /\ \A i \in n..Slots - 1 : RescanSteps(n)[i - n + 1] = <<"drop", i>>
         /\ \A i \in 0..n - 1 : /\ RescanSteps(n)[(Slots - n) + 2 * i + 1] = <<"fill", i>>
                                /\ RescanSteps(n)[(Slots - n) + 2 * i + 2] = <<"info", i>>
         /\ \A k \in 1..Len(RescanSteps(n)) :
              \/ \E i \in n..Slots - 1 : RescanSteps(n)[k] = <<"drop", i>>
              \/ \E i \in 0..n - 1 :
                   \/ RescanSteps(n)[k] = <<"fill", i>>
                   \/ /\ RescanSteps(n)[k] = <<"info", i>>
                      /\ \E j \in 1..k - 1 : RescanSteps(n)[j] = <<"fill", i>>
  <1> DEFINE d == [k \in 1..(Slots - n) |-> <<"drop", n + k - 1>>]
             f == [k \in 1..(2 * n) |-> <<IF k % 2 = 1 THEN "fill" ELSE "info", (k - 1) \div 2>>]
  <1>1. n \in Nat /\ Slots \in Nat /\ Slots - n \in Nat /\ 2 * n \in Nat
    BY SettingsAssumption
  <1>2. /\ d \in Seq(Steps4) /\ Len(d) = Slots - n
        /\ \A k \in 1..(Slots - n) : d[k] = <<"drop", n + k - 1>>
    BY <1>1 DEF Steps4, Index
  <1>3. \A k \in 1..(2 * n) : (k - 1) \div 2 \in Index
    BY <1>1 DEF Index
  <1>4. /\ f \in Seq(Steps4) /\ Len(f) = 2 * n
        /\ \A k \in 1..(2 * n) :
             f[k] = <<IF k % 2 = 1 THEN "fill" ELSE "info", (k - 1) \div 2>>
    BY <1>1, <1>3 DEF Steps4
  <1>5. RescanSteps(n) = d \o f
    BY DEF RescanSteps
  <1> HIDE DEF d, f
  <1>6. /\ RescanSteps(n) \in Seq(Steps4) /\ Len(RescanSteps(n)) = (Slots - n) + 2 * n
        /\ \A k \in 1..(Slots - n) : RescanSteps(n)[k] = d[k]
        /\ \A k \in 1..(2 * n) : RescanSteps(n)[(Slots - n) + k] = f[k]
    <2>1. /\ d \o f \in Seq(Steps4) /\ Len(d \o f) = Len(d) + Len(f)
          /\ \A k \in 1..Len(d) : (d \o f)[k] = d[k]
          /\ \A k \in 1..Len(f) : (d \o f)[Len(d) + k] = f[k]
      <3>1. d \in Seq(Steps4) /\ f \in Seq(Steps4)
        BY <1>2, <1>4
      <3> QED
        BY <3>1
    <2> QED
      BY <1>2, <1>4, <1>5, <2>1
  <1>7. ASSUME NEW i \in n..Slots - 1 PROVE RescanSteps(n)[i - n + 1] = <<"drop", i>>
    <2>1. i - n + 1 \in 1..(Slots - n) /\ n + (i - n + 1) - 1 = i
      BY <1>1
    <2> QED
      BY <1>2, <1>6, <2>1
  <1>8. ASSUME NEW i \in 0..n - 1
        PROVE  /\ RescanSteps(n)[(Slots - n) + 2 * i + 1] = <<"fill", i>>
               /\ RescanSteps(n)[(Slots - n) + 2 * i + 2] = <<"info", i>>
    <2>1. /\ 2 * i + 1 \in 1..(2 * n) /\ 2 * i + 2 \in 1..(2 * n)
          /\ (2 * i + 1) % 2 = 1 /\ (2 * i + 2) % 2 = 0
          /\ ((2 * i + 1) - 1) \div 2 = i /\ ((2 * i + 2) - 1) \div 2 = i
          /\ (Slots - n) + 2 * i + 1 = (Slots - n) + (2 * i + 1)
          /\ (Slots - n) + 2 * i + 2 = (Slots - n) + (2 * i + 2)
      BY <1>1
    <2> DEFINE j == 2 * i + 1
               h == 2 * i + 2
    <2>2. /\ f[j] = <<IF j % 2 = 1 THEN "fill" ELSE "info", (j - 1) \div 2>>
          /\ f[h] = <<IF h % 2 = 1 THEN "fill" ELSE "info", (h - 1) \div 2>>
      <3>1. j \in 1..(2 * n) /\ h \in 1..(2 * n)
        BY <2>1
      <3> HIDE DEF j, h
      <3> QED
        BY <1>4, <3>1
    <2>3. f[j] = <<"fill", i>> /\ f[h] = <<"info", i>>
      BY <2>1, <2>2
    <2> QED
      BY <1>6, <2>1, <2>3
  <1>9. ASSUME NEW k \in 1..Len(RescanSteps(n))
        PROVE  \/ \E i \in n..Slots - 1 : RescanSteps(n)[k] = <<"drop", i>>
               \/ \E i \in 0..n - 1 :
                    \/ RescanSteps(n)[k] = <<"fill", i>>
                    \/ /\ RescanSteps(n)[k] = <<"info", i>>
                       /\ \E j \in 1..k - 1 : RescanSteps(n)[j] = <<"fill", i>>
    <2>1. CASE k <= Slots - n
      <3> DEFINE i == k + n - 1
      <3>1. i \in n..Slots - 1 /\ i - n + 1 = k
        BY <1>1, <1>6, <2>1
      <3> HIDE DEF i
      <3> QED
        BY <1>7, <3>1
    <2>2. CASE k > Slots - n
      <3> DEFINE i == (k - (Slots - n) - 1) \div 2
      <3>1. /\ i \in 0..n - 1
            /\ k = (Slots - n) + 2 * i + 1 \/ k = (Slots - n) + 2 * i + 2
        <4>1. k \in 1..(Slots - n) + 2 * n
          BY <1>6
        <4> QED
          BY <1>1, <2>2, <4>1
      <3> HIDE DEF i
      <3>2. CASE k = (Slots - n) + 2 * i + 1
        BY <1>8, <3>1, <3>2
      <3>3. CASE k = (Slots - n) + 2 * i + 2
        <4>1. (Slots - n) + 2 * i + 1 \in 1..k - 1
          BY <1>1, <3>1, <3>3
        <4> QED
          BY <1>8, <3>1, <3>3, <4>1
      <3> QED
        BY <3>1, <3>2, <3>3
    <2>3. k <= Slots - n \/ k > Slots - n
      BY <1>1, <1>6
    <2> QED
      BY <2>1, <2>2, <2>3, Zenon
  <1> QED
    BY <1>6, <1>7, <1>8, <1>9

(* The scan has ended: everything is still to be done.                      *)
LEMMA AdoptSettles ==
  ASSUME Records, Adopt, todo = <<<<"adopt", 0>>>>, tidied = watching
  PROVE  num' \in 0..Slots /\ Settling'
  <1> DEFINE n == num'
  <1>1. n \in 0..Slots
    <2>1. Len(found) \in Nat
      BY DEF Records
    <2> QED
      BY <2>1, SettingsAssumption DEF Adopt
  <1>2. tidied' = tidied
    BY DEF Adopt, histVars
  <1>3. Tail(todo) = << >>
    OBVIOUS
  <1> HIDE DEF n
  <1>4. CASE watching
    <2> DEFINE X == RescanSteps(n)
    <2>1. /\ X \in Seq(Steps4)
          /\ \A i \in n..Slots - 1 : \E k \in 1..Len(X) : X[k] = <<"drop", i>>
          /\ \A i \in 0..n - 1 : \E k \in 1..Len(X) : X[k] = <<"info", i>>
          /\ \A k \in 1..Len(X) :
              \/ \E i \in n..Slots - 1 : X[k] = <<"drop", i>>
              \/ \E i \in 0..n - 1 :
                   \/ X[k] = <<"fill", i>>
                   \/ X[k] = <<"info", i>> /\ \E j \in 1..k - 1 : X[j] = <<"fill", i>>
      <3>1. \A i \in n..Slots - 1 : i - n + 1 \in 1..(Slots - n) + 2 * n
        BY <1>1, SettingsAssumption
      <3>2. \A i \in 0..n - 1 : (Slots - n) + 2 * i + 2 \in 1..(Slots - n) + 2 * n
        BY <1>1, SettingsAssumption
      <3> QED
        BY <1>1, <3>1, <3>2, RescanStepsAre
    <2>2. todo' = X \o << >>
      BY <1>3, <1>4 DEF Adopt, n
    <2> HIDE DEF X
    <2>3. todo' = X
      BY <2>1, <2>2
    <2>4. (\A i \in Index : \A k \in 1..Len(todo) : todo[k] = <<"info", i>> =>
            Present(i) \/ \E j \in 1..k - 1 : todo[j] = <<"fill", i>>)'
      <3> SUFFICES ASSUME NEW i \in Index, NEW k \in 1..Len(X), X[k] = <<"info", i>>
                   PROVE  \E j \in 1..k - 1 : X[j] = <<"fill", i>>
        BY <2>3
      <3>1. /\ \A h : <<"info", i>> # <<"drop", h>> /\ <<"info", i>> # <<"fill", h>>
            /\ \A h : <<"info", i>> = <<"info", h>> => h = i
        OBVIOUS
      <3>2. \E h \in 0..n - 1 :
              X[k] = <<"info", h>> /\ \E j \in 1..k - 1 : X[j] = <<"fill", h>>
        <4>1. \/ \E h \in n..Slots - 1 : X[k] = <<"drop", h>>
              \/ \E h \in 0..n - 1 :
                   \/ X[k] = <<"fill", h>>
                   \/ X[k] = <<"info", h>> /\ \E j \in 1..k - 1 : X[j] = <<"fill", h>>
          BY <2>1
        <4> QED
          BY <3>1, <4>1, Zenon
      <3> QED
        BY <3>1, <3>2, Zenon
    <2>5. (\A k \in 1..Len(todo) : todo[k][2] \in Step(todo[k][1]))'
      <3>1. \A k \in 1..Len(X) : \/ (X[k][1] = "drop" /\ X[k][2] \in n..Slots - 1)
                                 \/ (X[k][1] \in {"fill", "info"} /\ X[k][2] \in 0..n - 1)
        BY <2>1
      <3> QED
        BY <2>3, <3>1 DEF Step, n
    <2> QED
      BY <1>1, <2>1, <2>3, <2>4, <2>5 DEF Settling, Pending, Steps4, n
  <1>5. CASE ~watching
    <2> DEFINE X == InitSteps(n)
    <2>1. /\ X \in Seq(Steps4)
          /\ \A i \in 0..n - 1 : \E k \in 1..Len(X) : X[k] = <<"info", i>>
          /\ \A k \in 1..Len(X) :
              \/ \E i \in 0..n - 1 :
                   \/ X[k] = <<"fill", i>>
                   \/ X[k] = <<"info", i>> /\ \E j \in 1..k - 1 : X[j] = <<"fill", i>>
              \/ X[k] = <<"watch", 0>>
      <3>1. \A i \in 0..n - 1 : n + i + 1 \in 1..2 * n + 1
        BY <1>1, SettingsAssumption
      <3> QED
        BY <1>1, <3>1, InitStepsAre
    <2>2. todo' = X \o << >>
      BY <1>3, <1>5 DEF Adopt, n
    <2> HIDE DEF X
    <2>3. todo' = X
      BY <2>1, <2>2
    <2>4. (\A i \in Index : \A k \in 1..Len(todo) : todo[k] = <<"info", i>> =>
            Present(i) \/ \E j \in 1..k - 1 : todo[j] = <<"fill", i>>)'
      <3> SUFFICES ASSUME NEW i \in Index, NEW k \in 1..Len(X), X[k] = <<"info", i>>
                   PROVE  \E j \in 1..k - 1 : X[j] = <<"fill", i>>
        BY <2>3
      <3>1. /\ \A h : <<"info", i>> # <<"watch", h>> /\ <<"info", i>> # <<"fill", h>>
            /\ \A h : <<"info", i>> = <<"info", h>> => h = i
        OBVIOUS
      <3> QED
        BY <2>1, <3>1
    <2>5. (\A k \in 1..Len(todo) : todo[k][2] \in Step(todo[k][1]))'
      <3>1. \A k \in 1..Len(X) : \/ (X[k][1] = "watch" /\ X[k][2] = 0)
                                 \/ (X[k][1] \in {"fill", "info"} /\ X[k][2] \in 0..n - 1)
        BY <2>1
      <3> QED
        BY <2>3, <3>1 DEF Step, n
    <2> QED
      BY <1>1, <1>2, <1>5, <2>1, <2>3, <2>4, <2>5 DEF Settling, Pending, Steps4, n
  <1> QED
    BY <1>1, <1>4, <1>5 DEF n

-----------------------------------------------------------------------------
(* A directory keeps the form of a directory.                               *)
LEMMA RecordsKept ==
  ASSUME Records, NEW i \in Index, NEW d, d = [serial |-> d.serial, type |-> d.type, level |-> d.level],
         odb' = [odb EXCEPT ![i] = d]
  PROVE  /\ odb' = [j \in Index |-> odb'[j]]
         /\ \A j \in Index : odb'[j] = [serial |-> odb'[j].serial, type |-> odb'[j].type,
                                      level |-> odb'[j].level]
         /\ odb'[i] = d /\ \A j \in Index \ {i} : odb'[j] = odb[j]
  BY DEF Records

(* A value is written into a directory that exists.                         *)
LEMMA LevelWritten ==
  ASSUME IInv, NEW i \in Index, Present(i), NEW v \in Level, odb' = [odb EXCEPT ![i].level = v],
         UNCHANGED <<found, num, slot, todo, running, watching, tidied>>
  PROVE  IInv'
  <1> DEFINE d == [odb[i] EXCEPT !.level = v]
  <1>1. odb[i] = [serial |-> odb[i].serial, type |-> odb[i].type, level |-> odb[i].level]
    BY DEF IInv, Records
  <1>2. d = [serial |-> odb[i].serial, type |-> odb[i].type, level |-> v]
    BY <1>1
  <1>3. odb' = [odb EXCEPT ![i] = d]
    OBVIOUS
  <1> HIDE DEF d
  <1>4. /\ Records' /\ odb'[i] = d /\ \A j \in Index \ {i} : odb'[j] = odb[j]
    <2>1. d = [serial |-> d.serial, type |-> d.type, level |-> d.level]
      BY <1>2
    <2> QED
      BY <1>3, <2>1, RecordsKept DEF IInv, Records
  <1>5. v # Absent
    BY SettingsAssumption DEF Absent
  <1>6. \A j \in Index : (Present(j) <=> Present(j)') /\ odb'[j].serial = odb[j].serial
                        /\ odb'[j].type = odb[j].type
    BY <1>2, <1>4, <1>5 DEF Present
  <1>7. Settling => Settling'
    <2>1. 0..num - 1 \subseteq Index /\ num..Slots - 1 \subseteq Index
      BY SettingsAssumption DEF IInv, Records, Index
    <2>2. \A j \in 0..num - 1 : Matches(j) => Matches(j)'
      BY <1>6, <2>1 DEF Matches
    <2> QED
      BY <1>6, <2>1, <2>2 DEF Settling, Pending, Step
  <1>8. Scanning => Scanning'
    BY DEF Scanning
  <1> QED
    BY <1>4, <1>7, <1>8 DEF IInv

(* Nothing of what the invariant speaks of changes.                         *)
LEMMA Unchanged ==
  ASSUME IInv, UNCHANGED <<found, num, slot, todo, running, watching, odb, tidied>>
  PROVE  IInv'
  BY DEF IInv, Records, Scanning, Settling, Pending, Matches, Present, Step

LEMMA DoingScans ==
  ASSUME IInv, NEW op \in {"reset", "close", "open", "adopt"}, Doing(op) PROVE Scanning
  <1>1. ASSUME Settling PROVE FALSE
    <2>1. Head(todo) \in {"fill", "info", "watch", "drop"} \X Index
      BY <1>1 DEF Settling, Doing
    <2> QED
      BY <2>1 DEF Doing
  <1> QED
    BY <1>1 DEF IInv, Doing

LEMMA DoingSettles ==
  ASSUME IInv, NEW op \in {"fill", "info", "watch", "drop"}, Doing(op)
  PROVE  /\ Settling /\ todo # << >> /\ Head(todo)[2] \in Index
         /\ Head(todo) = <<op, Head(todo)[2]>> /\ Head(todo)[2] \in Step(op)
         /\ op = "info" => Present(Head(todo)[2])
  <1>1. ~Scanning
    BY DEF Scanning, RescanCalls, Doing
  <1>2. Settling /\ todo # << >> /\ Head(todo)[1] = op
    BY <1>1 DEF IInv, Doing
  <1>3. /\ Head(todo) \in {"fill", "info", "watch", "drop"} \X Index /\ Head(todo) = todo[1]
        /\ 1 \in 1..Len(todo)
    BY <1>2 DEF Settling
  <1>4. Head(todo) = <<op, Head(todo)[2]>> /\ Head(todo)[2] \in Index
    BY <1>2, <1>3
  <1>5. Head(todo)[2] \in Step(op)
    BY <1>2, <1>3 DEF Settling
  <1>6. op = "info" => Present(Head(todo)[2])
    <2>1. \A j \in 1..1 - 1 : FALSE
      OBVIOUS
    <2> QED
      BY <1>2, <1>3, <1>4, <2>1 DEF Settling
  <1> QED
    BY <1>2, <1>4, <1>5, <1>6

LEMMA FillStep == ASSUME IInv, Fill PROVE IInv'
  <1>0. PICK i \in Index : i = Head(todo)[2]
    BY DoingSettles DEF Fill
  <1>1. /\ Settling /\ todo # << >> /\ Head(todo) = <<"fill", i>> /\ i \in Index
        /\ todo' = Tail(todo)
        /\ num' = num /\ slot' = slot /\ tidied' = tidied /\ running /\ running' = running
        /\ found' = found
    BY <1>0, DoingSettles DEF Fill, Doing, busVars, histVars
  <1>2. CASE Present(i)
    <2>1. odb' = odb
      BY <1>0, <1>2 DEF Fill
    <2>2. Settling'
      BY <1>1, <1>2, <2>1, SettlingTail DEF IInv, Present, Matches
    <2> QED
      BY <1>1, <2>1, <2>2 DEF IInv, Records
  <1>3. CASE ~Present(i)
    <2> DEFINE d == [serial |-> 0, type |-> 0, level |-> Default]
    <2>1. odb' = [odb EXCEPT ![i] = d]
      BY <1>0, <1>3 DEF Fill
    <2>2. /\ Records' /\ odb'[i] = d /\ \A j \in Index \ {i} : odb'[j] = odb[j]
      BY <1>1, <2>1, RecordsKept DEF IInv, Records
    <2>3. Default # Absent
      BY SettingsAssumption DEF Absent
    <2>4. Present(i)' /\ \A j \in Index \ {i} : Present(j) <=> Present(j)'
      BY <2>2, <2>3 DEF Present
    <2>5. \A j \in 0..num - 1 : Matches(j) => Matches(j)'
      <3>1. 0..num - 1 \subseteq Index
        BY SettingsAssumption DEF IInv, Records, Index
      <3> QED
        BY <1>1, <1>3, <2>2, <2>4, <3>1 DEF Matches
    <2>6. Settling'
      BY <1>1, <2>4, <2>5, SettlingTail DEF IInv
    <2> QED
      BY <2>2, <2>6 DEF IInv
  <1> QED
    BY <1>2, <1>3

LEMMA InfoStep == ASSUME IInv, Info PROVE IInv'
  <1>0. PICK i \in Index : i = Head(todo)[2]
    BY DoingSettles DEF Info
  <1> DEFINE d == [serial |-> slot[i + 1].serial, type |-> slot[i + 1].type, level |-> odb[i].level]
  <1>1. /\ Settling /\ todo # << >> /\ Head(todo) = <<"info", i>> /\ i \in Index
        /\ i \in 0..num - 1 /\ Present(i) /\ todo' = Tail(todo)
        /\ num' = num /\ slot' = slot /\ tidied' = tidied /\ running /\ running' = running
        /\ found' = found
    BY <1>0, DoingSettles DEF Info, Doing, busVars, histVars, Step
  <1>2. i < num
    BY <1>1 DEF IInv, Records
  <1>3. odb' = [odb EXCEPT ![i] = d]
    BY <1>0, <1>1, <1>2 DEF Info
  <1>4. /\ Records' /\ odb'[i] = d /\ \A j \in Index \ {i} : odb'[j] = odb[j]
    BY <1>1, <1>3, RecordsKept DEF IInv, Records
  <1>5. /\ \A j \in Index : Present(j) <=> Present(j)'
        /\ Matches(i)'
    BY <1>1, <1>4 DEF Present, Matches
  <1>6. \A j \in 0..num - 1 : Matches(j) => Matches(j)'
    <2>1. 0..num - 1 \subseteq Index
      BY SettingsAssumption DEF IInv, Records, Index
    <2> QED
      BY <1>1, <1>4, <1>5, <2>1 DEF Matches
  <1>7. Settling'
    BY <1>1, <1>5, <1>6, SettlingTail DEF IInv
  <1> QED
    BY <1>4, <1>7 DEF IInv

LEMMA DropStep == ASSUME IInv, Drop PROVE IInv'
  <1>0. PICK i \in Index : i = Head(todo)[2]
    BY DoingSettles DEF Drop
  <1>1. /\ Settling /\ todo # << >> /\ Head(todo) = <<"drop", i>> /\ i \in Index
        /\ i \in num..Slots - 1 /\ todo' = Tail(todo)
        /\ num' = num /\ slot' = slot /\ tidied' = tidied /\ running /\ running' = running
        /\ found' = found /\ odb' = [odb EXCEPT ![i] = NoDirectory]
    BY <1>0, DoingSettles DEF Drop, Doing, busVars, histVars, Step
  <1>2. /\ Records' /\ odb'[i] = NoDirectory /\ \A j \in Index \ {i} : odb'[j] = odb[j]
    BY <1>1, RecordsKept DEF IInv, Records, NoDirectory
  <1>3. ~Present(i)' /\ \A j \in Index \ {i} : Present(j) <=> Present(j)'
    BY <1>2 DEF Present, NoDirectory
  <1>4. \A j \in 0..num - 1 : Matches(j) => Matches(j)'
    <2>1. 0..num - 1 \subseteq Index /\ \A j \in 0..num - 1 : j # i
      BY <1>1, SettingsAssumption DEF IInv, Records, Index
    <2> QED
      BY <1>1, <1>2, <1>3, <2>1 DEF Matches
  <1>5. Settling'
    BY <1>1, <1>3, <1>4, SettlingTail DEF IInv
  <1> QED
    BY <1>2, <1>5 DEF IInv

LEMMA WatchStep == ASSUME IInv, Watch PROVE IInv'
  <1>0. PICK i \in Index : i = Head(todo)[2]
    BY DoingSettles DEF Watch
  <1>1. /\ Settling /\ todo # << >> /\ Head(todo) = <<"watch", i>> /\ i \in Index
        /\ todo' = Tail(todo) /\ odb' = odb
        /\ num' = num /\ slot' = slot /\ tidied' = tidied /\ running /\ running' = running
        /\ found' = found
    BY <1>0, DoingSettles DEF Watch, Doing, busVars, histVars, odbVars
  <1>2. /\ \A j \in Index : Present(j) <=> Present(j)'
        /\ \A j \in 0..num - 1 : Matches(j) => Matches(j)'
    BY <1>1 DEF Present, Matches
  <1>3. Settling'
    BY <1>1, <1>2, SettlingTail DEF IInv
  <1> QED
    BY <1>1, <1>3 DEF IInv, Records

LEMMA MainStep == ASSUME IInv, Main PROVE IInv'
  <1>1. ASSUME Start PROVE IInv'
    BY <1>1 DEF Start, busVars, odbVars, IInv, Records, Scanning
  <1>2. ASSUME Callback PROVE IInv'
    <2>1. /\ odb' = odb /\ found' = found /\ num' = num /\ slot' = slot /\ tidied' = tidied
          /\ running' = running /\ watching' = watching /\ todo = << >>
          /\ todo' = RescanCalls \/ todo' = << >>
      BY <1>2 DEF Callback, AtRest, busVars, histVars
    <2>2. CASE todo' = RescanCalls
      BY <2>1, <2>2 DEF IInv, Records, Scanning
    <2>3. CASE todo' = << >>
      BY <2>1, <2>3, Unchanged
    <2> QED
      BY <2>1, <2>2, <2>3
  <1>3. ASSUME Reset PROVE IInv'
    <2>1. Scanning /\ todo # << >> /\ Head(todo)[1] = "reset"
      BY <1>3, DoingScans DEF Reset, Doing
    <2>2. todo = RescanCalls
      BY <2>1 DEF Scanning
    <2>3. todo' = <<<<"close", 0>>, <<"open", 0>>, <<"adopt", 0>>>>
      BY <1>3, <2>2 DEF Reset, RescanCalls
    <2> QED
      BY <1>3, <2>3 DEF Reset, busVars, histVars, IInv, Records, Scanning
  <1>4. ASSUME Close PROVE IInv'
    <2>1. Scanning /\ todo # << >> /\ Head(todo)[1] = "close"
      BY <1>4, DoingScans DEF Close, Doing
    <2>2. todo = <<<<"close", 0>>, <<"open", 0>>, <<"adopt", 0>>>>
      BY <2>1 DEF Scanning, RescanCalls
    <2>3. todo' = <<<<"open", 0>>, <<"adopt", 0>>>> /\ tidied' = watching'
      BY <1>4, <2>2 DEF Close
    <2>4. found' \in Seq({}) /\ num' \in 0..Slots
      BY <1>4, SettingsAssumption DEF Close
    <2> QED
      BY <1>4, <2>3, <2>4 DEF Close, odbVars, IInv, Records, Scanning
  <1>5. ASSUME Open PROVE IInv'
    <2>1. Scanning /\ todo # << >> /\ Head(todo)[1] = "open"
      BY <1>5, DoingScans DEF Open, Doing
    <2>2. todo = <<<<"open", 0>>, <<"adopt", 0>>>> /\ tidied = watching
      BY <2>1 DEF Scanning, RescanCalls
    <2>3. todo' = todo \/ todo' = <<<<"adopt", 0>>>>
      BY <1>5, <2>2 DEF Open
    <2>4. \E S : found' \in Seq(S)
      <3>1. found' = found \/ \E x : found' = Append(found, x)
        BY <1>5 DEF Open
      <3>2. PICK S : found \in Seq(S)
        BY DEF IInv, Records
      <3>3. ASSUME NEW x, found' = Append(found, x) PROVE found' \in Seq(S \cup {x})
        <4>1. found \in Seq(S \cup {x})
          BY <3>2
        <4> QED
          BY <3>3, <4>1
      <3> QED
        BY <3>1, <3>2, <3>3
    <2> QED
      BY <1>5, <2>2, <2>3, <2>4 DEF Open, odbVars, histVars, IInv, Records, Scanning
  <1>6. ASSUME Adopt PROVE IInv'
    <2>1. Scanning /\ todo # << >> /\ Head(todo)[1] = "adopt"
      BY <1>6, DoingScans DEF Adopt, Doing
    <2>2. todo = <<<<"adopt", 0>>>> /\ tidied = watching
      BY <2>1 DEF Scanning, RescanCalls
    <2>3. num' \in 0..Slots /\ Settling'
      BY <1>6, <2>2, AdoptSettles DEF IInv
    <2> QED
      BY <1>6, <2>3 DEF Adopt, odbVars, IInv, Records
  <1> QED
    BY <1>1, <1>2, <1>3, <1>4, <1>5, <1>6, FillStep, InfoStep, DropStep, WatchStep DEF Main

LEMMA PageStep == ASSUME IInv, Saves, Page PROVE IInv'
  <1>1. ASSUME NEW p \in Paste, ServePaste(p) PROVE IInv'
    <2>1. UNCHANGED <<found, num, slot, todo, running, watching, tidied>>
      BY <1>1 DEF ServePaste, busVars, feVars, histVars
    <2>2. CASE Present(0)
      <3>1. 0 \in Index /\ save[p].value \in Level
        BY SettingsAssumption DEF Index, Saves
      <3>2. odb' = [odb EXCEPT ![0].level = save[p].value]
        BY <1>1, <2>2 DEF ServePaste
      <3> QED
        BY <2>1, <2>2, <3>1, <3>2, LevelWritten
    <2>3. CASE ~Present(0)
      BY <1>1, <2>1, <2>3, Unchanged DEF ServePaste
    <2> QED
      BY <2>2, <2>3
  <1>2. ASSUME Page, \A p \in Paste : ~ServePaste(p) PROVE IInv'
    <2>1. UNCHANGED <<found, num, slot, todo, running, watching, odb, tidied>>
      BY <1>2 DEF Page, Poll, LoadingEnds, ServeLoad, LoadReply, LoadFails, SaveReply, Edit,
                  busVars, feVars, odbVars, histVars
    <2> QED
      BY <2>1, Unchanged
  <1> QED
    BY <1>1, <1>2

LEMMA OtherStep ==
  ASSUME IInv, Plug \/ Kill \/ Ask \/ UNCHANGED vars \/ \E i \in Index, v \in Level : OtherEdit(i, v)
  PROVE  IInv'
  <1>1. ASSUME Plug \/ Ask \/ UNCHANGED vars PROVE IInv'
    <2>1. UNCHANGED <<found, num, slot, todo, running, watching, odb, tidied>>
      BY <1>1 DEF Plug, Ask, vars, busVars, feVars, odbVars, histVars
    <2> QED
      BY <2>1, Unchanged
  <1>2. ASSUME Kill PROVE IInv'
    <2>1. running' = FALSE /\ odb' = odb /\ found' \in Seq({}) /\ num' \in 0..Slots
      BY <1>2, SettingsAssumption DEF Kill
    <2> QED
      BY <2>1 DEF IInv, Records
  <1>3. ASSUME NEW i \in Index, NEW v \in Level, OtherEdit(i, v) PROVE IInv'
    BY <1>3, LevelWritten DEF OtherEdit, busVars, feVars, histVars
  <1> QED
    BY <1>1, <1>2, <1>3

LEMMA SavesStep == ASSUME Saves, [Next]_vars PROVE Saves'
  <1>1. ASSUME NEW v \in Level, Edit(v) PROVE Saves'
    BY <1>1 DEF Edit, Saves, Sent
  <1>2. ASSUME NEW p \in Paste, ServePaste(p) PROVE Saves'
    <2> DEFINE a == [save[p] EXCEPT !.status = IF Present(0) THEN "saved" ELSE "failed"]
    <2>1. a \in [value : Level, status : {Idle, Sent, "saved", "failed"}]
      BY DEF Saves
    <2>2. save' = [save EXCEPT ![p] = a]
      BY <1>2 DEF ServePaste
    <2> HIDE DEF a
    <2> QED
      BY <2>1, <2>2 DEF Saves
  <1>3. ASSUME NEW p \in Paste, SaveReply(p) PROVE Saves'
    BY <1>3, SettingsAssumption DEF SaveReply, Saves, Idle
  <1>4. ASSUME save' = save PROVE Saves'
    BY <1>4 DEF Saves
  <1>5. ASSUME Main \/ Plug \/ Kill \/ Ask \/ UNCHANGED vars
                 \/ \E i \in Index, v \in Level : OtherEdit(i, v)
        PROVE  save' = save
    BY <1>5 DEF Main, Start, Callback, Reset, Close, Open, Adopt, Fill, Info, Drop, Watch, Plug, Kill,
                Ask, OtherEdit, vars, pageVars
  <1>6. ASSUME Page, \A p \in Paste : ~ServePaste(p) /\ ~SaveReply(p), \A v \in Level : ~Edit(v)
        PROVE  save' = save
    BY <1>6 DEF Page, Poll, LoadingEnds, ServeLoad, LoadReply, LoadFails, pageVars
  <1> QED
    BY <1>1, <1>2, <1>3, <1>4, <1>5, <1>6, Zenon DEF Next

LEMMA NextStep == ASSUME IInv, Saves, [Next]_vars PROVE IInv' /\ Saves'
  BY MainStep, PageStep, OtherStep, SavesStep, Zenon DEF Next

LEMMA Invariant == Spec => [](IInv /\ Saves)
  <1>1. Init => IInv /\ Saves
    <2> SUFFICES ASSUME Init PROVE IInv /\ Saves
      OBVIOUS
    <2>1. Records
      <3>1. found \in Seq({}) /\ num \in 0..Slots
        BY SettingsAssumption DEF Init
      <3> QED
        BY <3>1 DEF Init, Records, NoDirectory
    <2>2. Saves
      BY SettingsAssumption DEF Init, Saves
    <2> QED
      BY <2>1, <2>2 DEF Init, IInv
  <1>2. IInv /\ Saves /\ [Next]_vars => (IInv /\ Saves)'
    BY NextStep
  <1> QED
    BY <1>1, <1>2, PTL DEF Spec

-----------------------------------------------------------------------------
(* However many boards come and go and whenever the front end is killed:    *)
(* when init() or rescan_boards() has ended, the directories of the slots   *)
(* in use say which boards they hold, and after a rescan the others have    *)
(* none.                                                                    *)
THEOREM DirectoriesMatch == Spec => []InventoryMatches
  <1>1. IInv => InventoryMatches
    <2> SUFFICES ASSUME IInv, AtRest PROVE InventoryMatches
      BY DEF InventoryMatches
    <2>1. Settling /\ todo = << >>
      BY DEF IInv, AtRest, Scanning, RescanCalls
    <2>2. ASSUME NEW i \in 0..num - 1 PROVE Matches(i)
      BY <2>1 DEF Settling, Pending
    <2>3. ASSUME tidied, NEW i \in num..Slots - 1 PROVE ~Present(i)
      BY <2>1, <2>3 DEF Settling, Pending
    <2> QED
      BY <2>2, <2>3 DEF InventoryMatches, Matches
  <1> QED
    BY <1>1, Invariant, PTL

(* No step of init() or of a rescan, and no restart, changes a setting that *)
(* is there; only a rescan deletes one, where it found no board.            *)
THEOREM SettingsAreKept == Spec => OperatorSettingsKept
  <1> DEFINE Kept(i) == \/ Value(i)' = Value(i)
                        \/ \E v \in Level : OtherEdit(i, v)
                        \/ i = 0 /\ \E p \in Paste : ServePaste(p)
                        \/ Value(i)' = Absent /\ i >= num
  <1>1. ASSUME IInv, Next, NEW i \in Index, Present(i) PROVE Kept(i)
    <2>1. CASE odb' = odb
      BY <2>1 DEF Value
    <2>2. ASSUME Fill PROVE Kept(i)
      <3>1. PICK n \in Index : n = Head(todo)[2]
        BY <1>1, <2>2, DoingSettles DEF Fill
      <3>2. odb'[i] = odb[i]
        BY <1>1, <2>2, <3>1 DEF Fill, IInv, Records
      <3> QED
        BY <3>2 DEF Value
    <2>3. ASSUME Info PROVE Kept(i)
      <3>1. PICK n \in Index : n = Head(todo)[2]
        BY <1>1, <2>3, DoingSettles DEF Info
      <3>2. Value(i)' = Value(i)
        BY <1>1, <2>3, <3>1 DEF Info, IInv, Records, Value
      <3> QED
        BY <3>2
    <2>4. ASSUME Drop PROVE Kept(i)
      <3>1. PICK n \in Index : n = Head(todo)[2] /\ n >= num
        BY <1>1, <2>4, DoingSettles DEF Drop, Step, IInv, Records
      <3>2. odb' = [odb EXCEPT ![n] = NoDirectory]
        BY <2>4, <3>1 DEF Drop
      <3> QED
        BY <1>1, <3>1, <3>2 DEF IInv, Records, Value, NoDirectory
    <2>5. ASSUME NEW n \in Index, NEW v \in Level, OtherEdit(n, v) PROVE Kept(i)
      <3>1. CASE n = i
        BY <2>5, <3>1
      <3>2. CASE n # i
        BY <1>1, <2>5, <3>2 DEF OtherEdit, Value, IInv, Records
      <3> QED
        BY <3>1, <3>2
    <2>6. ASSUME NEW p \in Paste, ServePaste(p) PROVE Kept(i)
      <3>1. CASE i = 0
        BY <2>6, <3>1
      <3>2. CASE i # 0
        BY <1>1, <2>6, <3>2 DEF ServePaste, Value, IInv, Records
      <3> QED
        BY <3>1, <3>2
    <2>7. \/ odb' = odb \/ Fill \/ Info \/ Drop
          \/ \E n \in Index, v \in Level : OtherEdit(n, v)
          \/ \E p \in Paste : ServePaste(p)
      BY <1>1 DEF Next, Main, Start, Callback, Reset, Close, Open, Adopt, Watch, Plug, Kill, Ask, Page,
                  Poll, LoadingEnds, ServeLoad, LoadReply, LoadFails, Edit, SaveReply, odbVars
    <2> HIDE DEF Kept
    <2> QED
      BY <2>1, <2>2, <2>3, <2>4, <2>5, <2>6, <2>7, Zenon
  <1>2. IInv /\ [Next]_vars => [\A i \in Index : Present(i) => Kept(i)]_vars
    BY <1>1
  <1> QED
    BY <1>2, Invariant, PTL DEF Spec, OperatorSettingsKept
-----------------------------------------------------------------------------
(* The scan.                                                                *)

(* A board is on the bus once.                                              *)
OnBus == /\ bus \in Seq(Board)
         /\ \A j, k \in 1..Len(bus) : bus[j] = bus[k] => j = k

Aligned == /\ Len(found) <= Len(bus)
           /\ \A k \in 1..Len(found) : found[k].board = bus[k]

Slotted == /\ num = (IF Reached > Slots THEN Slots ELSE Reached)
           /\ \A k \in 1..num : slot[k].board = bus[k]

(* While nothing is plugged, the boards found so far are the first of the   *)
(* bus, as many as the scan has reached when the loop has ended, and then   *)
(* they get the slots.                                                      *)
Scan ==
    /\ OnBus
    /\ running /\ quiet =>
         /\ Doing("open") => Aligned /\ refused = 0
         /\ Doing("adopt") => Aligned /\ Len(found) = Reached
         /\ (\A op \in {"reset", "close", "open", "adopt"} : ~Doing(op)) => Slotted

LEMMA Inserted ==
  ASSUME NEW s \in Seq(Board), NEW i \in 1..(Len(s) + 1), NEW b \in Board
  PROVE  /\ InsertAt(s, i, b) \in Seq(Board) /\ Len(InsertAt(s, i, b)) = Len(s) + 1
         /\ \A k \in 1..Len(s) + 1 :
              InsertAt(s, i, b)[k] = IF k < i THEN s[k] ELSE IF k = i THEN b ELSE s[k - 1]
  <1> DEFINE x == SubSeq(s, 1, i - 1)
             y == <<b>>
             z == SubSeq(s, i, Len(s))
             w == x \o y
             n == Len(s)
             m == i - 1
             r == n - i + 1
  <1>1. /\ x \in Seq(Board) /\ Len(x) = i - 1 /\ \A k \in 1..i - 1 : x[k] = s[k]
        /\ z \in Seq(Board) /\ Len(z) = Len(s) - i + 1
        /\ \A k \in 1..Len(s) - i + 1 : z[k] = s[i + k - 1]
    BY SubSeqProperties
  <1>2. InsertAt(s, i, b) = w \o z
    BY DEF InsertAt
  <1>3. y \in Seq(Board) /\ Len(y) = 1 /\ y[1] = b
    OBVIOUS
  <1>4. /\ n \in Nat /\ m \in Nat /\ i \in Nat /\ r \in Nat /\ i \in 1..n + 1
        /\ m + 1 = i /\ i + r = n + 1 /\ Len(x) = m /\ Len(z) = r
    BY <1>1
  <1> HIDE DEF x, y, z, n, w, m, r
  <1>5. /\ w \in Seq(Board) /\ Len(w) = m + 1
        /\ \A k \in 1..m + 1 : w[k] = IF k <= m THEN x[k] ELSE y[k - m]
    <2>1. 1 \in Nat /\ w = x \o y
      BY DEF w
    <2>2. /\ x \o y \in Seq(Board) /\ Len(x \o y) = Len(x) + Len(y)
          /\ \A k \in 1..Len(x) + Len(y) :
               (x \o y)[k] = IF k <= Len(x) THEN x[k] ELSE y[k - Len(x)]
      BY <1>1, <1>3, ConcatProperties
    <2> QED
      BY <1>3, <1>4, <2>1, <2>2
  <1>6. Len(w) = i
    BY <1>4, <1>5
  <1>7. /\ w \o z \in Seq(Board) /\ Len(w \o z) = i + r
        /\ \A k \in 1..i + r : (w \o z)[k] = IF k <= i THEN w[k] ELSE z[k - i]
    <2>1. /\ w \o z \in Seq(Board) /\ Len(w \o z) = Len(w) + Len(z)
          /\ \A k \in 1..Len(w) + Len(z) :
               (w \o z)[k] = IF k <= Len(w) THEN w[k] ELSE z[k - Len(w)]
      BY <1>1, <1>5, ConcatProperties
    <2> QED
      BY <1>4, <1>6, <2>1
  <1>8. ASSUME NEW k \in 1..n + 1
        PROVE  (w \o z)[k] = IF k < i THEN s[k] ELSE IF k = i THEN b ELSE s[k - 1]
    <2>1. CASE k < i
      BY <1>1, <1>4, <1>5, <1>6, <1>7, <2>1
    <2>2. CASE k = i
      <3>1. k - m = 1 /\ ~(k <= m) /\ k <= i
        BY <1>4, <2>2
      <3> QED
        BY <1>3, <1>4, <1>5, <1>6, <1>7, <2>2, <3>1
    <2>3. CASE k > i
      <3>1. k - i \in 1..n - i + 1 /\ i + (k - i) - 1 = k - 1 /\ ~(k <= i)
        BY <1>4, <2>3
      <3>2. (w \o z)[k] = z[k - i]
        BY <1>4, <1>7, <3>1
      <3>3. z[k - i] = s[k - 1]
        BY <1>1, <3>1 DEF n
      <3>4. ~(k < i) /\ k # i
        BY <1>4, <2>3
      <3> QED
        BY <3>2, <3>3, <3>4
    <2>4. k < i \/ k = i \/ k > i
      BY <1>4
    <2> QED
      BY <2>1, <2>2, <2>3, <2>4
  <1>9. Len(w \o z) = n + 1
    BY <1>4, <1>7
  <1> QED
    BY <1>2, <1>7, <1>8, <1>9 DEF n

LEMMA Removed ==
  ASSUME NEW s \in Seq(Board), NEW i \in 1..Len(s)
  PROVE  /\ RemoveAt(s, i) \in Seq(Board) /\ Len(RemoveAt(s, i)) = Len(s) - 1
         /\ \A k \in 1..Len(s) - 1 : RemoveAt(s, i)[k] = IF k < i THEN s[k] ELSE s[k + 1]
  <1> DEFINE x == SubSeq(s, 1, i - 1)
             z == SubSeq(s, i + 1, Len(s))
             n == Len(s)
             m == i - 1
             r == n - i
  <1>1. /\ x \in Seq(Board) /\ Len(x) = i - 1 /\ \A k \in 1..i - 1 : x[k] = s[k]
        /\ z \in Seq(Board) /\ Len(z) = Len(s) - i
        /\ \A k \in 1..Len(s) - i : z[k] = s[i + k]
    BY SubSeqProperties
  <1>2. RemoveAt(s, i) = x \o z
    BY DEF RemoveAt
  <1>3. /\ n \in Nat /\ m \in Nat /\ r \in Nat /\ i \in 1..n
        /\ m + 1 = i /\ m + r = n - 1 /\ i + r = n /\ Len(x) = m /\ Len(z) = r
    BY <1>1
  <1> HIDE DEF x, z, n, m, r
  <1>4. /\ x \o z \in Seq(Board) /\ Len(x \o z) = m + r
        /\ \A k \in 1..m + r : (x \o z)[k] = IF k <= m THEN x[k] ELSE z[k - m]
    <2>1. /\ x \o z \in Seq(Board) /\ Len(x \o z) = Len(x) + Len(z)
          /\ \A k \in 1..Len(x) + Len(z) :
               (x \o z)[k] = IF k <= Len(x) THEN x[k] ELSE z[k - Len(x)]
      BY <1>1, ConcatProperties
    <2> QED
      BY <1>3, <2>1
  <1>5. ASSUME NEW k \in 1..n - 1 PROVE (x \o z)[k] = IF k < i THEN s[k] ELSE s[k + 1]
    <2>1. CASE k < i
      BY <1>1, <1>3, <1>4, <2>1
    <2>2. CASE k >= i
      <3>1. k - m \in 1..n - i /\ i + (k - m) = k + 1 /\ ~(k <= m)
        BY <1>3, <2>2
      <3>2. (x \o z)[k] = z[k - m]
        BY <1>3, <1>4, <3>1
      <3>3. z[k - m] = s[k + 1]
        BY <1>1, <3>1 DEF n
      <3> QED
        BY <1>3, <2>2, <3>1, <3>2, <3>3
    <2>3. k < i \/ k >= i
      BY <1>3
    <2> QED
      BY <2>1, <2>2, <2>3
  <1> QED
    BY <1>2, <1>3, <1>4, <1>5 DEF n

LEMMA BusInit == Init => OnBus
  <1> SUFFICES ASSUME Init PROVE OnBus
    OBVIOUS
  <1>1. PICK S \in SUBSET Board : bus \in SetToSeqs(S)
    BY DEF Init, SetToAllKPermutations
  <1>2. Cardinality(S) \in Nat
    BY SettingsAssumption, FS_Subset, FS_CardinalityType
  <1>3. bus \in [1..Cardinality(S) -> S] /\ \A j, k \in 1..Cardinality(S) : bus[j] = bus[k] => j = k
    BY <1>1 DEF SetToSeqs, IsInjective
  <1>4. bus \in Seq(Board) /\ Len(bus) = Cardinality(S)
    BY <1>2, <1>3
  <1> QED
    BY <1>3, <1>4 DEF OnBus

LEMMA BusPlug == ASSUME OnBus, Plug PROVE OnBus'
  <1>1. ASSUME NEW b \in Board \ ToSet(bus), NEW i \in 1..(Len(bus) + 1), bus' = InsertAt(bus, i, b)
        PROVE  OnBus'
    <2>1. bus \in Seq(Board) /\ b \in Board /\ i \in 1..(Len(bus) + 1) /\ bus' = InsertAt(bus, i, b)
      BY <1>1 DEF OnBus
    <2>2. /\ InsertAt(bus, i, b) \in Seq(Board) /\ Len(InsertAt(bus, i, b)) = Len(bus) + 1
         /\ \A k \in 1..Len(bus) + 1 :
              InsertAt(bus, i, b)[k] = IF k < i THEN bus[k] ELSE IF k = i THEN b ELSE bus[k - 1]
      BY <2>1, Inserted, Zenon
    <2>3. /\ bus' \in Seq(Board) /\ Len(bus') = Len(bus) + 1
          /\ \A k \in 1..Len(bus) + 1 :
               bus'[k] = IF k < i THEN bus[k] ELSE IF k = i THEN b ELSE bus[k - 1]
      BY <2>1, <2>2
    <2>4. \A k \in 1..Len(bus) : bus[k] # b
      BY DEF ToSet
    <2>5. ASSUME NEW j \in 1..Len(bus) + 1, NEW k \in 1..Len(bus) + 1, bus'[j] = bus'[k]
          PROVE  j = k
      <3> DEFINE at(q) == IF q < i THEN q ELSE q - 1
      <3>1. \A q \in 1..Len(bus) + 1 : q = i \/ (at(q) \in 1..Len(bus) /\ bus'[q] = bus[at(q)])
        BY <2>3 DEF OnBus
      <3>2. CASE j = i \/ k = i
        BY <2>3, <2>4, <2>5, <3>1, <3>2
      <3>3. CASE j # i /\ k # i
        <4>1. at(j) = at(k)
          BY <2>5, <3>1, <3>3 DEF OnBus
        <4> QED
          BY <3>3, <4>1
      <3> QED
        BY <3>2, <3>3
    <2> QED
      BY <2>3, <2>5 DEF OnBus
  <1>2. ASSUME NEW i \in 1..Len(bus), bus' = RemoveAt(bus, i) PROVE OnBus'
    <2>1. /\ bus' \in Seq(Board) /\ Len(bus') = Len(bus) - 1
          /\ \A k \in 1..Len(bus) - 1 : bus'[k] = IF k < i THEN bus[k] ELSE bus[k + 1]
      BY <1>2, Removed DEF OnBus
    <2>2. ASSUME NEW j \in 1..Len(bus'), NEW k \in 1..Len(bus'), bus'[j] = bus'[k] PROVE j = k
      BY <2>1, <2>2 DEF OnBus
    <2> QED
      BY <2>1, <2>2 DEF OnBus
  <1> QED
    BY <1>1, <1>2 DEF Plug

ScanOps == {"reset", "close", "open", "adopt"}

(* Nothing of what Scan speaks of changes.                                  *)
LEMMA ScanUnchanged ==
  ASSUME Scan, UNCHANGED <<bus, found, num, slot, todo, running, quiet, refused>>
  PROVE  Scan'
  BY DEF Scan, OnBus, Aligned, Slotted, Reached, Doing

LEMMA ScanOpen == ASSUME IInv, Scan, Open PROVE Scan'
  <1>1. todo = <<<<"open", 0>>, <<"adopt", 0>>>>
    <2>1. Scanning /\ Head(todo)[1] = "open"
      BY DoingScans DEF Open, Doing
    <2> QED
      BY <2>1 DEF Scanning, RescanCalls
  <1>2. UNCHANGED <<bus, num, slot, running, quiet>> /\ OnBus /\ OnBus' /\ running
    BY DEF Open, Doing, Scan, OnBus
  <1>3. CASE ~quiet
    BY <1>2, <1>3 DEF Scan
  <1>4. CASE quiet
    <2>1. Aligned /\ refused = 0
      BY <1>2, <1>4 DEF Scan, Open
    <2>2. \E S : found \in Seq(S)
      BY DEF IInv, Records
    <2>3. Len(found) \in Nat /\ Len(bus) \in Nat
      BY <1>2, <2>2 DEF OnBus
    <2> DEFINE index == Len(found) + 1
    <2>4. CASE /\ index <= Len(bus) /\ bus[index] \notin Held
               /\ todo' = todo /\ refused' = refused
               /\ \E lost \in SUBSET {"magic", "type", "serial"} :
                    found' = Append(found, Identity(bus[index], lost))
      <3>1. PICK lost \in SUBSET {"magic", "type", "serial"} :
              found' = Append(found, Identity(bus[index], lost))
        BY <2>4
      <3>2. todo' = todo /\ refused' = 0
        BY <2>1, <2>4
      <3>3. PICK e : e = Identity(bus[index], lost)
        OBVIOUS
      <3>4. e.board = bus[index]
        BY <3>3 DEF Identity
      <3>5. /\ Len(found') = Len(found) + 1 /\ found'[Len(found) + 1] = e
            /\ \A k \in 1..Len(found) : found'[k] = found[k]
        BY <2>2, <3>1, <3>3
      <3>6. Aligned'
        BY <1>2, <2>1, <2>3, <2>4, <3>4, <3>5 DEF Aligned
      <3>7. Doing("open")' /\ ~Doing("adopt")'
        BY <1>1, <1>2, <3>2 DEF Doing
      <3> QED
        BY <1>2, <3>2, <3>6, <3>7 DEF Scan
    <2>6. CASE /\ index <= Len(bus) /\ todo' = Tail(todo)
               /\ refused' = index /\ found' = found
      <3>1. todo' = <<<<"adopt", 0>>>>
        BY <1>1, <2>6
      <3>2. refused' # 0 /\ refused' - 1 = Len(found)
        BY <2>3, <2>6
      <3>3. Aligned' /\ Len(found') = Reached'
        BY <1>2, <2>1, <2>6, <3>2 DEF Aligned, Reached
      <3>4. Doing("adopt")' /\ ~Doing("open")'
        BY <1>2, <3>1 DEF Doing
      <3> QED
        BY <1>2, <3>3, <3>4 DEF Scan
    <2>5. CASE /\ ~(index <= Len(bus) /\ bus[index] \notin Held)
               /\ found' = found /\ todo' = Tail(todo) /\ refused' = refused
      <3>1. found' = found /\ todo' = Tail(todo)
        BY <2>5
      <3>2. todo' = <<<<"adopt", 0>>>>
        BY <1>1, <3>1
      <3>3. Len(found) = Len(bus)
        <4> SUFFICES ASSUME index <= Len(bus) PROVE FALSE
          BY <2>1, <2>3 DEF Aligned
        <4>1. PICK k \in 1..Len(found) : found[k].board = bus[index]
          BY <2>5 DEF Held
        <4>2. bus[k] = bus[index] /\ k \in 1..Len(bus) /\ index \in 1..Len(bus)
          BY <2>1, <2>3, <4>1 DEF Aligned
        <4>3. k = index
          BY <1>2, <4>2 DEF OnBus
        <4> QED
          BY <2>3, <4>3
      <3>4. Aligned' /\ Len(found') = Reached'
        BY <1>2, <2>1, <2>5, <3>1, <3>3 DEF Aligned, Reached
      <3>5. Doing("adopt")' /\ ~Doing("open")'
        BY <1>2, <3>2 DEF Doing
      <3> QED
        BY <1>2, <3>4, <3>5 DEF Scan
    <2> HIDE DEF index
    <2>7. \/ /\ index <= Len(bus) /\ bus[index] \notin Held
             /\ todo' = todo /\ refused' = refused
             /\ \E lost \in SUBSET {"magic", "type", "serial"} :
                  found' = Append(found, Identity(bus[index], lost))
          \/ /\ index <= Len(bus) /\ todo' = Tail(todo)
             /\ refused' = index /\ found' = found
          \/ /\ ~(index <= Len(bus) /\ bus[index] \notin Held)
             /\ found' = found /\ todo' = Tail(todo) /\ refused' = refused
      BY DEF Open, index
    <2> QED
      BY <2>4, <2>5, <2>6, <2>7
  <1> QED
    BY <1>3, <1>4

LEMMA ScanAdopt == ASSUME IInv, IInv', Scan, Adopt PROVE Scan'
  <1>1. /\ todo = <<<<"adopt", 0>>>> /\ tidied = watching
    <2>1. Scanning /\ Head(todo)[1] = "adopt"
      BY DoingScans DEF Adopt, Doing
    <2> QED
      BY <2>1 DEF Scanning, RescanCalls
  <1>2. /\ UNCHANGED <<bus, found, running, quiet, refused>> /\ OnBus /\ OnBus' /\ running
        /\ num' = IF Len(found) > Slots THEN Slots ELSE Len(found)
        /\ slot' = SubSeq(found, 1, num')
    BY DEF Adopt, Doing, histVars, Scan, OnBus
  <1>3. Settling'
    BY <1>1, AdoptSettles DEF IInv
  <1>4. \A op \in ScanOps : ~Doing(op)'
    <2>1. todo' \in Seq({"fill", "info", "watch", "drop"} \X Index)
      BY <1>3 DEF Settling
    <2>2. todo' # << >> => Head(todo') \in {"fill", "info", "watch", "drop"} \X Index
      BY <2>1
    <2> QED
      BY <2>2 DEF Doing, ScanOps
  <1>5. CASE ~quiet
    BY <1>2, <1>5 DEF Scan
  <1>6. CASE quiet
    <2>1. Aligned /\ Len(found) = Reached
      BY <1>2, <1>6 DEF Scan, Adopt
    <2>2. PICK S : found \in Seq(S)
      BY DEF IInv, Records
    <2>3. num' \in 0..Len(found) /\ Slots \in Nat
      BY <1>2, <2>2, SettingsAssumption
    <2>4. \A k \in 1..num' : slot'[k] = found[k]
      BY <1>2, <2>2, <2>3, SubSeqProperties
    <2>5. Slotted'
      BY <1>2, <2>1, <2>3, <2>4 DEF Slotted, Aligned, Reached
    <2> QED
      BY <1>2, <1>4, <2>5 DEF Scan, ScanOps
  <1> QED
    BY <1>5, <1>6

(* The steps after the scan leave its result alone.                         *)
LEMMA ScanSettled ==
  ASSUME IInv, Scan, NEW op \in {"fill", "info", "watch", "drop"}, Doing(op), todo' = Tail(todo),
         UNCHANGED <<bus, found, num, slot, running, quiet, refused>>
  PROVE  Scan'
  <1>1. Settling /\ todo # << >> /\ running
    BY DoingSettles DEF Doing
  <1>2. todo \in Seq({"fill", "info", "watch", "drop"} \X Index)
    BY <1>1 DEF Settling
  <1>3. todo' \in Seq({"fill", "info", "watch", "drop"} \X Index)
    BY <1>1, <1>2
  <1>4. todo' # << >> => Head(todo') \in {"fill", "info", "watch", "drop"} \X Index
    BY <1>3
  <1>5. \A o \in ScanOps : ~Doing(o)' /\ ~Doing(o)
    BY <1>4 DEF Doing, ScanOps
  <1>6. quiet => Slotted
    BY <1>1, <1>5 DEF Scan, ScanOps
  <1> QED
    BY <1>5, <1>6 DEF Scan, ScanOps, OnBus, Slotted, Reached

LEMMA ScanStep == ASSUME IInv, IInv', Scan, [Next]_vars PROVE Scan'
  <1>1. CASE Start
    <2>1. todo' = <<<<"close", 0>>, <<"open", 0>>, <<"adopt", 0>>>> /\ running' /\ bus' = bus
      BY <1>1 DEF Start, busVars
    <2>2. Doing("close")' /\ ~Doing("open")' /\ ~Doing("adopt")'
      BY <2>1 DEF Doing
    <2> QED
      BY <2>1, <2>2 DEF Scan, OnBus
  <1>2. CASE Callback
    <2>1. /\ UNCHANGED <<bus, found, num, slot, running, quiet, refused>>
          /\ todo = << >> /\ running
          /\ todo' = RescanCalls \/ todo' = << >>
      BY <1>2 DEF Callback, AtRest, busVars, histVars
    <2>2. CASE todo' = << >>
      BY <2>1, <2>2, ScanUnchanged
    <2>3. CASE todo' = RescanCalls
      <3>1. Doing("reset")' /\ ~Doing("open")' /\ ~Doing("adopt")'
        BY <2>1, <2>3 DEF Doing, RescanCalls
      <3> QED
        BY <2>1, <3>1 DEF Scan, OnBus
    <2> QED
      BY <2>1, <2>2, <2>3
  <1>3. CASE Reset
    <2>1. Scanning /\ todo # << >> /\ Head(todo)[1] = "reset"
      BY <1>3, DoingScans DEF Reset, Doing
    <2>2. todo = RescanCalls
      BY <2>1 DEF Scanning
    <2>3. /\ todo' = <<<<"close", 0>>, <<"open", 0>>, <<"adopt", 0>>>>
          /\ running' = running /\ running /\ bus' = bus
      BY <1>3, <2>2 DEF Reset, RescanCalls, Doing, busVars
    <2>4. Doing("close")' /\ ~Doing("open")' /\ ~Doing("adopt")'
      BY <2>3 DEF Doing
    <2> QED
      BY <2>3, <2>4 DEF Scan, OnBus
  <1>4. CASE Close
    <2>1. Scanning /\ todo # << >> /\ Head(todo)[1] = "close"
      BY <1>4, DoingScans DEF Close, Doing
    <2>2. todo = <<<<"close", 0>>, <<"open", 0>>, <<"adopt", 0>>>>
      BY <2>1 DEF Scanning, RescanCalls
    <2>3. /\ todo' = <<<<"open", 0>>, <<"adopt", 0>>>> /\ found' = << >>
          /\ running' = running /\ running /\ bus' = bus /\ refused' = 0
      BY <1>4, <2>2 DEF Close, Doing
    <2>4. Doing("open")' /\ ~Doing("adopt")'
      BY <2>3 DEF Doing
    <2>5. Aligned' /\ OnBus'
      BY <2>3 DEF Scan, OnBus, Aligned
    <2> QED
      BY <2>3, <2>4, <2>5 DEF Scan
  <1>5. CASE Open \/ Adopt
    BY <1>5, ScanOpen, ScanAdopt
  <1>6. CASE Fill \/ Info \/ Drop \/ Watch
    <2>1. /\ todo' = Tail(todo) /\ UNCHANGED <<bus, found, num, slot, running, quiet, refused>>
          /\ \E op \in {"fill", "info", "watch", "drop"} : Doing(op)
      BY <1>6 DEF Fill, Info, Drop, Watch, busVars, histVars
    <2> QED
      BY <2>1, ScanSettled
  <1>7. CASE Plug
    <2>1. quiet' = FALSE /\ OnBus'
      BY <1>7, BusPlug DEF Plug, Scan
    <2> QED
      BY <2>1 DEF Scan
  <1>8. CASE Kill
    BY <1>8 DEF Kill, Scan, OnBus
  <1>9. CASE Ask \/ Page \/ (\E i \in Index, v \in Level : OtherEdit(i, v)) \/ UNCHANGED vars
    <2>1. UNCHANGED <<bus, found, num, slot, todo, running, quiet, refused>>
      BY <1>9 DEF Ask, Page, Poll, LoadingEnds, ServeLoad, LoadReply, LoadFails, ServePaste, SaveReply,
                  Edit, OtherEdit, vars, busVars, feVars, histVars
    <2> QED
      BY <2>1, ScanUnchanged
  <1> QED
    BY <1>1, <1>2, <1>3, <1>4, <1>5, <1>6, <1>7, <1>8, <1>9, Zenon DEF Next, Main

(* Wherever boards are plugged and unplugged and whatever answers are lost, *)
(* a scan during which the bus is quiet gives the boards attached the slots *)
(* in the order of the bus and as far as there are slots: every board, or,  *)
(* when one cannot be opened or identified as one, every board before it.   *)
THEOREM EveryBoardIsFound == Spec => []ScanFindsAll
  <1>1. Init => Scan
    BY BusInit DEF Init, Scan
  <1>2. Scan => ScanFindsAll
    BY DEF Scan, ScanFindsAll, AtRest, Doing, Slotted
  <1>3. IInv /\ IInv' /\ Scan /\ [Next]_vars => Scan'
    BY ScanStep
  <1> QED
    BY <1>1, <1>2, <1>3, Invariant, PTL DEF Spec
=============================================================================
