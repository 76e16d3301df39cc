--------------------------- MODULE WaveformProof ----------------------------
(***************************************************************************)
(* From the calibration of the cell widths to the decoded event, for every *)
(* number of cells and channels, every unit of the EEPROM, every delay     *)
(* line and every capture that CaptureAssumption admits:                   *)
(*   - what a type 9 board stores, and loads at its next start, keeps the  *)
(*     period that was measured (RoundingInv and StoreInv say how far the  *)
(*     loop of CalibrateTiming() has come and what the sums are by then);  *)
(*   - the times of the samples, the reference cell, the T marker and the  *)
(*     decoder (EInv says what each step leaves to the next);              *)
(*   - the voltages of the samples, for every chip that SoundChip admits   *)
(*     (SampleInv, on top of EInv).                                        *)
(* Sums around the ring of cells are proved by induction, from the least   *)
(* number in a set (Induct).                                               *)
(***************************************************************************)
EXTENDS Waveform, SequenceTheorems, WellFoundedInduction, TLAPS

-----------------------------------------------------------------------------
(* Quotient and remainder.                                                  *)
LEMMA Division ==
    ASSUME NEW x \in Int, NEW u \in Nat \ {0}
    PROVE  /\ x \div u \in Int
           /\ u * (x \div u) <= x
           /\ x < u * (x \div u) + u
           /\ x % u \in 0 .. u - 1
           /\ x = u * (x \div u) + (x % u)
  BY SMT

LEMMA Monotone ==
    ASSUME NEW u \in Nat \ {0}, NEW a \in Int, NEW b \in Int, a < b
    PROVE  u * a + u <= u * b
  BY SMT
LEMMA Remainder ==
    ASSUME NEW u \in Nat \ {0}, NEW x \in Int, NEW q \in Int, NEW r \in 0 .. u - 1, x = u * q + r
    PROVE  x \div u = q /\ x % u = r
<1> DEFINE p == x \div u
<1>1. p \in Int /\ u * p <= x /\ x < u * p + u /\ x = u * p + (x % u) /\ x % u \in 0 .. u - 1
  BY Division
<1> HIDE DEF p
<1>2. u * p \in Int /\ u * q \in Int
  BY <1>1
<1>3. ~(p < q)
  BY <1>1, <1>2, Monotone
<1>4. ~(q < p)
  BY <1>1, <1>2, Monotone
<1>5. p = q
  BY <1>1, <1>3, <1>4
<1> QED
  BY <1>1, <1>2, <1>5 DEF p

-----------------------------------------------------------------------------
(* Induction: what holds of 0, and with n of n + 1, holds of every n.       *)
LEMMA Least ==
    ASSUME NEW T, T \subseteq Nat, T # {}
    PROVE  \E n \in T : \A m \in T : n <= m
<1>1. PICK R : IsWellFoundedOn(R, Nat) /\ \A x, y \in Nat : x < y => <<x, y>> \in R
  <2>1. \A x, y \in Nat : x < y => <<x, y>> \in OpToRel(<, Nat)
    BY DEF OpToRel
  <2> QED
    BY <2>1, NatLessThanWellFounded
<1>2. PICK x \in T : \A y \in T : ~(<<y, x>> \in R)
  BY <1>1, WFMin
<1>3. \A y \in T : ~(y < x)
  BY <1>1, <1>2
<1> QED
  BY <1>3

LEMMA Induct ==
    ASSUME NEW S, S \subseteq Nat, 0 \in S, \A n \in S : n + 1 \in S
    PROVE  \A n \in Nat : n \in S
<1> SUFFICES ASSUME NEW n \in Nat, n \notin S PROVE FALSE
  OBVIOUS
<1>1. PICK m \in Nat \ S : \A l \in Nat \ S : m <= l
  BY Least
<1>2. m # 0 /\ m - 1 \in Nat /\ ~(m <= m - 1)
  BY <1>1
<1>3. m - 1 \in S
  BY <1>1, <1>2
<1> QED
  BY <1>1, <1>2, <1>3

-----------------------------------------------------------------------------
(* The local function of Around.                                            *)
PartialSums(s, f, first, n) ==
    s = [k \in 0 .. n |-> IF k = 0 THEN 0 ELSE s[k - 1] + f[(first + k - 1) % N]]

LEMMA SumsExist ==
    ASSUME NEW f, NEW first, NEW n \in Nat
    PROVE  \E s : PartialSums(s, f, first, n)
<1> SUFFICES ASSUME ~ \E s : PartialSums(s, f, first, n) PROVE FALSE
  OBVIOUS
<1> DEFINE T == {m \in Nat : ~ \E s : PartialSums(s, f, first, m)}
<1>1. T \subseteq Nat /\ T # {}
  OBVIOUS
<1> HIDE DEF T
<1>2. PICK m \in T : \A l \in T : m <= l
  BY <1>1, Least
<1> USE DEF T
<1>3. m # 0
  <2>1. PartialSums([k \in 0 .. 0 |-> 0], f, first, 0)
    BY DEF PartialSums
  <2> QED
    BY <2>1
<1>4. PICK s : PartialSums(s, f, first, m - 1)
  BY <1>2, <1>3
<1> DEFINE t == [k \in 0 .. m |-> IF k < m THEN s[k] ELSE s[m - 1] + f[(first + m - 1) % N]]
<1>5. \A k \in 0 .. m - 1 : t[k] = s[k]
  BY <1>3
<1>6. t[m] = t[m - 1] + f[(first + m - 1) % N]
  <2>1. m \in 0 .. m /\ m - 1 \in 0 .. m - 1 /\ ~(m < m)
    BY <1>3
  <2>2. t[m] = s[m - 1] + f[(first + m - 1) % N]
    BY <2>1, Zenon
  <2>3. t[m - 1] = s[m - 1]
    BY <1>5, <2>1, Zenon
  <2> QED
    BY <2>2, <2>3
<1>7. \A k \in 0 .. m - 1 : s[k] = IF k = 0 THEN 0 ELSE s[k - 1] + f[(first + k - 1) % N]
  BY <1>4 DEF PartialSums
<1>8. \A k \in 0 .. m : t[k] = IF k = 0 THEN 0 ELSE t[k - 1] + f[(first + k - 1) % N]
  <2> TAKE k \in 0 .. m
  <2>1. CASE k = m
    BY <1>3, <1>6, <2>1
  <2>2. CASE k # m
    <3>1. k \in 0 .. m - 1 /\ (k # 0 => k - 1 \in 0 .. m - 1)
      BY <2>2
    <3> QED
      BY <1>5, <1>7, <3>1
  <2> QED
    BY <2>1, <2>2
<1>9. PartialSums(t, f, first, m)
  BY <1>8 DEF PartialSums
<1> QED
  BY <1>9

LEMMA SumsAgree ==
    ASSUME NEW f, NEW first, NEW n \in Nat, NEW m \in Nat, n <= m,
           NEW s, PartialSums(s, f, first, n), NEW t, PartialSums(t, f, first, m)
    PROVE  \A k \in 0 .. n : s[k] = t[k]
<1> SUFFICES ASSUME NEW k \in 0 .. n, s[k] # t[k] PROVE FALSE
  OBVIOUS
<1> DEFINE T == {l \in 0 .. n : s[l] # t[l]}
<1>1. T \subseteq Nat /\ T # {}
  OBVIOUS
<1> HIDE DEF T
<1>2. PICK l \in T : \A j \in T : l <= j
  BY <1>1, Least
<1> USE DEF T
<1>3. /\ s[l] = IF l = 0 THEN 0 ELSE s[l - 1] + f[(first + l - 1) % N]
      /\ t[l] = IF l = 0 THEN 0 ELSE t[l - 1] + f[(first + l - 1) % N]
  BY DEF PartialSums
<1>4. l # 0
  BY <1>3
<1>5. l - 1 \in 0 .. n /\ l - 1 \notin T
  BY <1>2, <1>4
<1> QED
  BY <1>3, <1>4, <1>5

LEMMA AroundIs ==
    ASSUME NEW f, NEW first, NEW n \in Nat, NEW s, PartialSums(s, f, first, n)
    PROVE  Around(f, first, n) = s[n]
<1> DEFINE c == CHOOSE u : PartialSums(u, f, first, n)
<1>1. PartialSums(c, f, first, n)
  BY Zenon
<1>2. Around(f, first, n) = c[n]
  BY DEF Around, PartialSums
<1> HIDE DEF c
<1> QED
  BY <1>1, <1>2, SumsAgree

(* The sum of no cells, and of one more.                                    *)
LEMMA AroundStep ==
    ASSUME NEW f, NEW first \in Int, NEW n \in Nat
    PROVE  /\ Around(f, first, 0) = 0
           /\ Around(f, first, n + 1) = Around(f, first, n) + f[(first + n) % N]
<1>1. PICK s : PartialSums(s, f, first, 0)
  BY SumsExist
<1>2. Around(f, first, 0) = 0
  <2>1. 0 \in 0 .. 0
    OBVIOUS
  <2>2. s[0] = 0
    BY <1>1, <2>1 DEF PartialSums
  <2>3. Around(f, first, 0) = s[0]
    BY <1>1, AroundIs
  <2> QED
    BY <2>2, <2>3
<1>3. PICK t : PartialSums(t, f, first, n)
  BY SumsExist
<1>4. PICK u : PartialSums(u, f, first, n + 1)
  BY SumsExist
<1>5. Around(f, first, n) = t[n] /\ Around(f, first, n + 1) = u[n + 1]
  BY <1>3, <1>4, AroundIs
<1>6. t[n] = u[n]
  BY <1>3, <1>4, SumsAgree
<1>7. u[n + 1] = u[n] + f[(first + (n + 1) - 1) % N]
  BY <1>4 DEF PartialSums
<1>8. first + (n + 1) - 1 = first + n
  OBVIOUS
<1> QED
  BY <1>2, <1>5, <1>6, <1>7, <1>8

LEMMA InCell == ASSUME NEW x \in Int PROVE x % N \in Cell
  BY SizeAssumption DEF Cell

LEMMA Turn ==
    ASSUME NEW x \in Int
    PROVE  (x + N) % N = x % N /\ (x \in Cell => x % N = x)
<1>1. N \in Nat \ {0} /\ N \in Int
  BY SizeAssumption
<1> DEFINE q == x \div N
           r == x % N
<1>2. q \in Int /\ r \in 0 .. N - 1 /\ x = N * q + r
  BY <1>1, Division
<1> HIDE DEF q, r
<1>3. x + N = N * (q + 1) + r /\ q + 1 \in Int
  BY <1>1, <1>2
<1>4. (x + N) % N = r
  BY <1>1, <1>2, <1>3, Remainder
<1>5. ASSUME x \in Cell PROVE x % N = x
  BY <1>1, <1>5, Remainder DEF Cell
<1> QED
  BY <1>4, <1>5 DEF r

LEMMA AroundSame ==
    ASSUME NEW f, NEW g, NEW a \in Int, NEW b \in Int, NEW n \in Nat,
           \A k \in 0 .. n - 1 : f[(a + k) % N] = g[(b + k) % N]
    PROVE  Around(f, a, n) = Around(g, b, n)
<1> DEFINE S == {m \in Nat : m <= n => Around(f, a, m) = Around(g, b, m)}
<1>1. 0 \in S
  BY AroundStep
<1>2. ASSUME NEW m \in S PROVE m + 1 \in S
  <2>1. CASE m + 1 <= n
    <3>1. m \in 0 .. n - 1 /\ Around(f, a, m) = Around(g, b, m)
      BY <2>1
    <3> QED
      BY <3>1, AroundStep
  <2> QED
    BY <2>1
<1>3. n \in S
  <2>1. S \subseteq Nat
    OBVIOUS
  <2> HIDE DEF S
  <2> QED
    BY <1>1, <1>2, <2>1, Induct
<1> QED
  BY <1>3

LEMMA AroundInt ==
    ASSUME NEW f \in [Cell -> Int], NEW a \in Int, NEW n \in Nat
    PROVE  Around(f, a, n) \in Int
<1> DEFINE S == {m \in Nat : Around(f, a, m) \in Int}
<1>1. 0 \in S
  BY AroundStep
<1>2. ASSUME NEW m \in S PROVE m + 1 \in S
  <2>1. f[(a + m) % N] \in Int
    BY InCell
  <2> QED
    BY <2>1, AroundStep
<1>3. n \in S
  <2>1. S \subseteq Nat
    OBVIOUS
  <2> HIDE DEF S
  <2> QED
    BY <1>1, <1>2, <2>1, Induct
<1> QED
  BY <1>3

LEMMA AroundSplit ==
    ASSUME NEW f \in [Cell -> Int], NEW a \in Int, NEW m \in Nat, NEW n \in Nat
    PROVE  Around(f, a, m + n) = Around(f, a, m) + Around(f, a + m, n)
<1> DEFINE S == {l \in Nat : Around(f, a, m + l) = Around(f, a, m) + Around(f, a + m, l)}
<1>1. 0 \in S
  <2>1. Around(f, a, m + 0) = Around(f, a, m) /\ Around(f, a + m, 0) = 0
    BY AroundStep
  <2> QED
    BY <2>1, AroundInt
<1>2. ASSUME NEW l \in S PROVE l + 1 \in S
  <2>1. Around(f, a, (m + l) + 1) = Around(f, a, m + l) + f[(a + (m + l)) % N]
    BY AroundStep
  <2>2. Around(f, a + m, l + 1) = Around(f, a + m, l) + f[((a + m) + l) % N]
    BY AroundStep
  <2>3. a + (m + l) = (a + m) + l /\ (m + l) + 1 = m + (l + 1)
    OBVIOUS
  <2>4. f[(a + (m + l)) % N] \in Int /\ Around(f, a, m) \in Int /\ Around(f, a + m, l) \in Int
    BY InCell, AroundInt
  <2> QED
    BY <2>1, <2>2, <2>3, <2>4
<1>3. n \in S
  <2>1. S \subseteq Nat
    OBVIOUS
  <2> HIDE DEF S
  <2> QED
    BY <1>1, <1>2, <2>1, Induct
<1> QED
  BY <1>3

LEMMA AroundTurn ==
    ASSUME NEW f, NEW a \in Int, NEW n \in Nat
    PROVE  Around(f, a + N, n) = Around(f, a, n)
<1>1. ASSUME NEW k \in 0 .. n - 1 PROVE (a + N + k) % N = (a + k) % N
  <2>1. a + N + k = (a + k) + N
    BY SizeAssumption
  <2> QED
    BY <2>1, Turn
<1>2. a + N \in Int
  BY SizeAssumption
<1>3. \A k \in 0 .. n - 1 : f[(a + N + k) % N] = f[(a + k) % N]
  BY <1>1
<1> QED
  BY <1>2, <1>3, AroundSame

(* A sum of cell widths that stays above another.                           *)
LEMMA AroundAbove ==
    ASSUME NEW f \in [Cell -> Int], NEW g \in [Cell -> Int], NEW h \in Nat,
           \A k \in Cell : g[k] >= f[k] - h, NEW n \in Nat
    PROVE  Around(g, 0, n) >= Around(f, 0, n) - n * h
<1> DEFINE S == {m \in Nat : Around(g, 0, m) >= Around(f, 0, m) - m * h}
<1>1. 0 \in S
  BY AroundStep
<1>2. ASSUME NEW m \in S PROVE m + 1 \in S
  <2>1. /\ Around(g, 0, m + 1) = Around(g, 0, m) + g[m % N]
        /\ Around(f, 0, m + 1) = Around(f, 0, m) + f[m % N]
    BY AroundStep
  <2>2. m % N \in Cell /\ Around(g, 0, m) \in Int /\ Around(f, 0, m) \in Int
    BY InCell, AroundInt
  <2>3. (m + 1) * h = m * h + h
    OBVIOUS
  <2> QED
    BY <2>1, <2>2, <2>3
<1>3. n \in S
  <2>1. S \subseteq Nat
    OBVIOUS
  <2> HIDE DEF S
  <2> QED
    BY <1>1, <1>2, <2>1, Induct
<1> QED
  BY <1>3

-----------------------------------------------------------------------------
(* What is known between two cells: where the loop is, and that the sums    *)
(* so far agree.                                                            *)
RoundingInv ==
    /\ cap \in Captures
    /\ row \in Row /\ cell \in Cell
    /\ tTrue \in Int /\ tRounded \in Int
    /\ -Half <= tTrue - tRounded /\ tTrue - tRounded <= Half - 1

-----------------------------------------------------------------------------
(* A number between 0 and n * u, exclusive, has a quotient between 0 and    *)
(* n - 1.                                                                   *)
LEMMA QuotientInRange ==
    ASSUME NEW u \in Nat \ {0}, NEW n \in Nat, NEW x \in Int, 0 <= x, x < u * n
    PROVE  x \div u \in 0 .. n - 1
<1> DEFINE q == x \div u
<1>1. q \in Int /\ u * q <= x /\ x < u * q + u
  BY Division
<1> HIDE DEF q
<1>2. q >= 0
  <2> SUFFICES ASSUME q < 0 PROVE FALSE
    BY <1>1
  <2>1. u * q + u <= u * 0
    BY <1>1, Monotone
  <2> QED
    BY <1>1, <2>1
<1>3. q < n
  <2> SUFFICES ASSUME n <= q PROVE FALSE
    BY <1>1
  <2>1. u * n <= u * q
    <3>1. CASE n = q
      BY <3>1, <1>1
    <3>2. CASE n < q
      BY <3>2, <1>1, Monotone
    <3> QED
      BY <3>1, <3>2, <1>1
  <2> QED
    BY <1>1, <2>1
<1> QED
  BY <1>1, <1>2, <1>3 DEF q

(* The word for a width fits: neither the smallest nor the largest width of *)
(* the format leaves its range, whatever the words before it left over.  So *)
(* it is not cut to 16 bits.                                                *)
LEMMA WordFits ==
    ASSUME NEW w \in Int, w >= -Shift * Unit, w <= (Word - Shift - 1) * Unit,
           NEW d \in Int, -Half <= d, d <= Half - 1
    PROVE  Rounded(d + w) = (d + w + Shift * Unit + Half) \div Unit
<1> DEFINE x == d + w + Shift * Unit + Half
<1>1. /\ Unit \in Nat \ {0} /\ Half \in Nat \ {0} /\ Shift \in Nat /\ Word \in Nat \ {0}
      /\ Unit = Half + Half
  BY RoundingAssumption DEF Unit
<1> DEFINE s == Shift * Unit
           t == (Word - Shift - 1) * Unit
<1>2. s \in Int /\ t \in Int /\ -Shift * Unit = -s
  BY <1>1
<1>3. s + t + Unit = Unit * Word
  BY <1>1
<1>4. w >= -s /\ w <= t
  BY <1>2
<1> HIDE DEF s, t
<1>5. x \in Int /\ 0 <= x /\ x < Unit * Word
  <2>1. x = d + w + s + Half
    BY DEF s
  <2> QED
    BY <2>1, <1>1, <1>2, <1>3, <1>4
<1> HIDE DEF x
<1>6. x \div Unit \in 0 .. Word - 1
  BY <1>1, <1>5, QuotientInRange
<1>7. (x \div Unit) % Word = x \div Unit
  BY <1>1, <1>6
<1> QED
  BY <1>7 DEF Rounded, x

(* One cell: what is left over afterwards is again at most half a unit.     *)
LEMMA RoundingStep ==
    ASSUME RoundingInv, StoreCell
    PROVE  RoundingInv'
<1> DEFINE w == cap.widths[row][cell]
           d == tTrue - tRounded
           word == Rounded(Remaining(w))
<1>1. /\ w \in Int /\ w >= -Shift * Unit /\ w <= (Word - Shift - 1) * Unit
  BY CaptureAssumption DEF RoundingInv, StoreCell
<1>2. d \in Int /\ -Half <= d /\ d <= Half - 1
  BY DEF RoundingInv
<1>3. /\ Unit \in Nat \ {0} /\ Half \in Nat \ {0} /\ Shift \in Nat
      /\ Unit = Half + Half
  BY RoundingAssumption DEF Unit
<1>4. Remaining(w) = d + w
  BY <1>1 DEF Remaining, RoundingInv
<1> DEFINE x == d + w + Shift * Unit + Half
<1>5. word = x \div Unit
  BY <1>1, <1>2, <1>4, WordFits
<1>6. tTrue' = tTrue + w /\ tRounded' = tRounded + (word - Shift) * Unit
  BY DEF StoreCell
<1> HIDE DEF word, w
<1>7. /\ x \in Int /\ word \in Int
      /\ Unit * word <= x /\ x < Unit * word + Unit
  <2>1. x \in Int
    BY <1>1, <1>2, <1>3
  <2> HIDE DEF x
  <2> QED
    BY <2>1, <1>3, <1>5, Division
<1>8. (word - Shift) * Unit = Unit * word - Shift * Unit
  BY <1>3, <1>7
<1> DEFINE p == Unit * word
           s == Shift * Unit
<1>9. p \in Int /\ s \in Int
  BY <1>3, <1>7
<1> HIDE DEF p, s
<1>10. /\ tTrue' \in Int /\ tRounded' \in Int
       /\ tTrue' - tRounded' = x - p - Half
  <2>1. tRounded' = tRounded + p - s
    BY <1>6, <1>8 DEF p, s, RoundingInv
  <2>2. x = tTrue - tRounded + w + s + Half
    BY DEF s
  <2> QED
    BY <1>1, <1>3, <1>6, <1>9, <2>1, <2>2 DEF RoundingInv
<1>11. -Half <= tTrue' - tRounded' /\ tTrue' - tRounded' <= Half - 1
  <2> HIDE DEF x
  <2>1. p <= x /\ x < p + Unit
    BY <1>7 DEF p
  <2>2. x - p - Half >= -Half /\ x - p - Half <= Half - 1
    BY <1>3, <1>7, <1>9, <2>1
  <2> QED
    BY <1>10, <2>2
<1>12. cap' = cap /\ row' \in Row /\ cell' \in Cell
  BY SizeAssumption DEF StoreCell, RoundingInv, Cell
<1> QED
  BY <1>10, <1>11, <1>12 DEF RoundingInv

(* The next row starts with nothing left over, and no other action touches  *)
(* the sums.                                                                *)
LEMMA RoundingPreserved == RoundingInv /\ [Next]_vars => RoundingInv'
<1> SUFFICES ASSUME RoundingInv, [Next]_vars
             PROVE  RoundingInv'
  OBVIOUS
<1> USE DEF RoundingInv
<1>1. CASE StoreCell
  BY <1>1, RoundingStep
<1>2. CASE StoreRow
  <2>1. cap' = cap /\ 0 \in Cell /\ Half - 1 >= 0 /\ -Half <= 0
    BY <1>2, SizeAssumption, RoundingAssumption DEF StoreRow, Cell
  <2>2. CASE row + 2 \in Row
    BY <1>2, <2>1, <2>2 DEF StoreRow
  <2>3. CASE row + 2 \notin Row
    BY <1>2, <2>1, <2>3 DEF StoreRow
  <2> QED
    BY <2>2, <2>3
<1>3. CASE MeasurePrimary
  BY <1>3 DEF MeasurePrimary, storeVars
<1>4. CASE MeasureSecondary
  BY <1>4 DEF MeasureSecondary, storeVars
<1>5. CASE StoreOneRow
  BY <1>5 DEF StoreOneRow
<1>6. CASE LoadTiming
  BY <1>6 DEF LoadTiming, storeVars
<1>7. CASE SetTriggerDelayNs
  BY <1>7 DEF SetTriggerDelayNs, storeVars
<1>8. CASE Sweep
  BY <1>8 DEF Sweep, storeVars
<1>9. CASE TransferWaves
  BY <1>9 DEF TransferWaves, storeVars
<1>10. CASE Waves
  BY <1>10 DEF Waves, storeVars
<1>11. CASE Order
  BY <1>11 DEF Order, storeVars
<1>12. CASE Mark
  BY <1>12 DEF Mark, storeVars
<1>13. CASE Commit
  BY <1>13 DEF Commit, storeVars
<1>14. CASE Decode
  BY <1>14 DEF Decode, storeVars
<1>15. CASE UNCHANGED vars
  BY <1>15 DEF vars, storeVars
<1> QED
  BY <1>1, <1>2, <1>3, <1>4, <1>5, <1>6, <1>7, <1>8, <1>9, <1>10, <1>11, <1>12, <1>13,
     <1>14, <1>15, Zenon DEF Next

(* The widths stored so far add up to the widths measured, to half a unit   *)
(* of the EEPROM, however many cells there are (CalibrateTiming(), type 9). *)
THEOREM RoundingDoesNotAddUp == Spec => []RoundingBounded
<1>1. Init => RoundingInv
  BY SizeAssumption, RoundingAssumption DEF Init, RoundingInv, Row, Channel, Cell
<1>2. RoundingInv => RoundingBounded
  BY RoundingAssumption DEF RoundingInv, RoundingBounded
<1> QED
  BY <1>1, <1>2, RoundingPreserved, PTL DEF Spec

-----------------------------------------------------------------------------
(* From the measurement to the widths that are loaded.                      *)
Loading == {"volt", "second", "store", "row", "load"}
Sweeping == {"sweep", "transfer", "waves", "order", "mark", "event", "decode", "done"}

StoreTypes ==
    /\ pc \in Loading \cup {"configure"} \cup Sweeping
    /\ page \in [Row -> [Cell -> 0 .. Word - 1]]
    /\ cellDT \in [Row -> [Cell -> Int]]

(* The widths of row r as they will be loaded, and that they have the sum   *)
(* of those measured.                                                       *)
Stored(r) == [k \in Cell |-> (page[r][k] - Shift) * Unit]
Near(x, y) == -Half <= x - y /\ x - y <= Half
Kept(r) == Near(Around(cap.widths[r], 0, N), Around(Stored(r), 0, N))

StoreInv ==
    /\ pc \in {"volt", "second"} => row = 0 /\ cell = 0
    /\ pc = "row" => cap.type = 9
    /\ cap.type = 9 =>
         /\ pc \in {"volt", "second", "store"} =>
              /\ tTrue = Around(cap.widths[row], 0, cell)
              /\ tRounded = Around(Stored(row), 0, cell)
         /\ pc = "row" =>
              /\ tTrue = Around(cap.widths[row], 0, N)
              /\ tRounded = Around(Stored(row), 0, N)
         /\ pc \in {"volt", "second", "store", "row"} => \A r \in Row : r < row => Kept(r)
         /\ pc = "load" /\ cap.timing # "none" => \A r \in Row : Kept(r)
    /\ cap.type # 9 /\ cap.timing = "valid" /\ pc = "load" =>
         \A k \in Cell : page[0][k] * Unit >= cap.widths[0][k] - Half

LoadInv ==
    /\ pc = "configure" /\ cap.type = 9 /\ cap.timing # "none" =>
         \A r \in Row : Near(Around(cap.widths[r], 0, N), Around(cellDT[r], 0, N))
    /\ pc \notin Loading /\ Calibrated => Around(cellDT[0], 0, N) > 0

WInv == RoundingInv /\ StoreTypes /\ StoreInv /\ LoadInv

LEMMA Rows ==
    /\ 0 \in Row /\ Row \subseteq Nat
    /\ \A r, s \in Row : r < s + 2 => r < s \/ r = s
    /\ \A r, s \in Row : s + 2 \notin Row => r < s \/ r = s
<1>1. 0 \in Row /\ Row \subseteq Nat
  BY SizeAssumption DEF Row, Channel
<1>2. \A r \in Row : \E c \in Channel : r = 2 * c
  BY DEF Row
<1>3. \A r, s \in Row : r < s + 2 => r < s \/ r = s
  BY <1>2 DEF Channel
<1>4. ASSUME NEW r \in Row, NEW s \in Row, s + 2 \notin Row PROVE r < s \/ r = s
  <2>1. PICK c \in Channel, d \in Channel : r = 2 * c /\ s = 2 * d
    BY <1>2
  <2>2. d + 1 \notin Channel
    <3>1. s + 2 = 2 * (d + 1)
      BY <2>1 DEF Channel
    <3> QED
      BY <1>4, <3>1 DEF Row
  <2> QED
    BY <2>1, <2>2, SizeAssumption DEF Channel
<1> QED
  BY <1>1, <1>3, <1>4

LEMMA WidthsType ==
    ASSUME cap \in Captures, page \in [Row -> [Cell -> 0 .. Word - 1]], NEW r \in Row
    PROVE  /\ cap.widths[r] \in [Cell -> Int] /\ Stored(r) \in [Cell -> Int]
           /\ Around(cap.widths[r], 0, N) \in Int /\ Around(Stored(r), 0, N) \in Int
<1>1. cap.widths[r] \in [Cell -> Int]
  BY CaptureAssumption
<1>2. Stored(r) \in [Cell -> Int]
  <2>1. Unit \in Int /\ Shift \in Int /\ Word \in Int
    BY RoundingAssumption DEF Unit
  <2>2. \A k \in Cell : page[r][k] \in Int
    BY <2>1
  <2> QED
    BY <2>1, <2>2 DEF Stored
<1>3. N \in Nat /\ 0 \in Int
  BY SizeAssumption
<1> QED
  BY <1>1, <1>2, <1>3, AroundInt

(* A cell is stored: the sums grow by its width, measured and rounded.      *)
LEMMA CellStored ==
    ASSUME WInv, StoreCell PROVE StoreTypes' /\ StoreInv'
<1> DEFINE w == cap.widths[row][cell]
           word == Rounded(Remaining(w))
<1>1. /\ cap \in Captures /\ row \in Row /\ cell \in Cell /\ pc = "store" /\ cap.type = 9
      /\ page \in [Row -> [Cell -> 0 .. Word - 1]]
      /\ page' = [page EXCEPT ![row][cell] = word] /\ tTrue' = tTrue + w
      /\ tRounded' = tRounded + (word - Shift) * Unit
      /\ cap' = cap /\ cellDT' = cellDT
  BY DEF WInv, RoundingInv, StoreTypes, StoreCell
<1>2. word \in 0 .. Word - 1
  <2>1. w \in Int /\ Remaining(w) \in Int
    BY <1>1, CaptureAssumption DEF WInv, RoundingInv, Remaining
  <2>2. /\ Word \in Nat \ {0} /\ Unit \in Nat \ {0}
        /\ Remaining(w) + Shift * Unit + Half \in Int
    BY <2>1, RoundingAssumption DEF Unit
  <2> QED
    BY <2>2, Division DEF Rounded
<1> HIDE DEF word
<1>3. page' \in [Row -> [Cell -> 0 .. Word - 1]]
  <2> DEFINE g == [page[row] EXCEPT ![cell] = word]
  <2>1. g \in [Cell -> 0 .. Word - 1]
    BY <1>1, <1>2
  <2>2. page' = [page EXCEPT ![row] = g]
    BY <1>1
  <2> HIDE DEF g
  <2> QED
    BY <1>1, <2>1, <2>2
<1>4. StoreTypes'
  BY <1>1, <1>3 DEF WInv, StoreTypes, StoreCell, Loading
<1>5. \A r \in Row \ {row} : Stored(r)' = Stored(r)
  <2>1. \A r \in Row \ {row} : page'[r] = page[r]
    BY <1>1
  <2> QED
    BY <2>1 DEF Stored
<1> DEFINE f == cap.widths[row]
           g == Stored(row)
           h == [k \in Cell |-> (page'[row][k] - Shift) * Unit]
<1>6. /\ \A k \in Cell \ {cell} : h[k] = g[k]
      /\ h[cell] = (word - Shift) * Unit
  BY <1>1 DEF Stored
<1>7. cell \in Nat /\ cell < N /\ cell % N = cell /\ 0 \in Int /\ N \in Nat
  <2>1. cell \in Int /\ cell \in Nat /\ cell < N /\ N \in Nat
    BY <1>1, SizeAssumption DEF Cell
  <2>2. cell % N = cell
    BY <1>1, <2>1, Turn
  <2> QED
    BY <2>1, <2>2
<1>8. Around(h, 0, cell) = Around(g, 0, cell)
  <2>1. \A k \in 0 .. cell - 1 : h[(0 + k) % N] = g[(0 + k) % N]
    <3> TAKE k \in 0 .. cell - 1
    <3>1. k \in Cell \ {cell} /\ 0 + k = k
      BY <1>7 DEF Cell
    <3>2. k % N = k
      BY <3>1, Turn DEF Cell
    <3> QED
      BY <1>6, <3>1, <3>2
  <2> HIDE DEF g, h
  <2> QED
    BY <1>7, <2>1, AroundSame
<1>9. /\ tTrue = Around(f, 0, cell) /\ tRounded = Around(g, 0, cell)
  BY <1>1 DEF WInv, StoreInv
<1>10. /\ Around(f, 0, cell + 1) = Around(f, 0, cell) + f[(0 + cell) % N]
       /\ Around(h, 0, cell + 1) = Around(h, 0, cell) + h[(0 + cell) % N]
       /\ 0 + cell = cell
  <2> HIDE DEF f, h
  <2> QED
    BY <1>7, AroundStep
<1>11. tTrue' = Around(f, 0, cell + 1) /\ tRounded' = Around(h, 0, cell + 1)
  BY <1>1, <1>6, <1>7, <1>8, <1>9, <1>10
<1>12. \A r \in Row : r < row => Kept(r) /\ Kept(r)' = Kept(r)
  <2>1. \A r \in Row : r < row => r # row
    BY <1>1, Rows
  <2> QED
    BY <1>1, <1>5, <2>1 DEF WInv, StoreInv, Kept
<1>13. CASE cell < N - 1
  <2>1. cell' = cell + 1 /\ row' = row /\ pc' = "store"
    BY <1>1, <1>13 DEF StoreCell
  <2>2. Stored(row)' = h
    BY <2>1 DEF Stored
  <2> QED
    BY <1>1, <1>4, <1>11, <1>12, <2>1, <2>2 DEF StoreInv
<1>14. CASE ~(cell < N - 1)
  <2>1. row' = row /\ pc' = "row" /\ cell + 1 = N
    BY <1>1, <1>7, <1>14 DEF StoreCell
  <2>2. Stored(row)' = h
    BY <2>1 DEF Stored
  <2> QED
    BY <1>1, <1>4, <1>11, <1>12, <2>1, <2>2 DEF StoreInv
<1> QED
  BY <1>13, <1>14

LEMMA RowStored ==
    ASSUME WInv, StoreRow PROVE StoreTypes' /\ StoreInv'
<1>1. /\ cap' = cap /\ page' = page /\ cellDT' = cellDT /\ pc = "row"
      /\ cap \in Captures /\ row \in Row /\ page \in [Row -> [Cell -> 0 .. Word - 1]]
  BY DEF StoreRow, WInv, RoundingInv, StoreTypes
<1>2. StoreTypes'
  BY <1>1 DEF StoreRow, WInv, StoreTypes, Loading
<1>3. \A r : Stored(r)' = Stored(r) /\ Kept(r)' = Kept(r)
  BY <1>1 DEF Stored, Kept
<1>4. ASSUME cap.type = 9 PROVE Kept(row) /\ \A r \in Row : r < row => Kept(r)
  BY <1>1, <1>4, RoundingAssumption DEF WInv, RoundingInv, StoreInv, Kept, Near
<1>5. CASE row + 2 \in Row
  <2>1. row' = row + 2 /\ cell' = 0 /\ tTrue' = 0 /\ tRounded' = 0 /\ pc' = "store"
    BY <1>5 DEF StoreRow
  <2>2. Around(cap.widths[row'], 0, 0) = 0 /\ Around(Stored(row'), 0, 0) = 0
    BY AroundStep
  <2>3. cap.type = 9 => \A r \in Row : r < row' => Kept(r)
    BY <1>1, <1>4, <2>1, Rows
  <2>4. Stored(row)' = Stored(row')
    BY <1>1 DEF Stored
  <2> QED
    BY <1>1, <1>2, <1>3, <2>1, <2>2, <2>3, <2>4 DEF StoreInv
<1>6. CASE row + 2 \notin Row
  <2>1. pc' = "load"
    BY <1>6 DEF StoreRow
  <2>2. cap.type = 9 => \A r \in Row : Kept(r)
    BY <1>1, <1>4, <1>6, Rows
  <2>3. cap.type = 9
    BY <1>1 DEF WInv, StoreInv
  <2> QED
    BY <1>1, <1>2, <1>3, <2>1, <2>2, <2>3 DEF StoreInv
<1> QED
  BY <1>5, <1>6

(* The other types store the widths as they are, rounded.                   *)
LEMMA OneRowStored ==
    ASSUME WInv, StoreOneRow PROVE StoreTypes' /\ StoreInv'
<1> DEFINE word(k) == ((cap.widths[0][k] + Half) \div Unit) % Word
<1>1. /\ cap \in Captures /\ cap' = cap /\ cellDT' = cellDT /\ pc' = "load" /\ cap.type # 9
      /\ page \in [Row -> [Cell -> 0 .. Word - 1]] /\ 0 \in Row
      /\ page' = [page EXCEPT ![0] = [k \in Cell |-> word(k)]]
  BY Rows DEF StoreOneRow, WInv, RoundingInv, StoreTypes
<1>2. ASSUME NEW k \in Cell
      PROVE  word(k) \in 0 .. Word - 1 /\ word(k) * Unit >= cap.widths[0][k] - Half
  <2> DEFINE w == cap.widths[0][k]
             x == w + Half
             q == x \div Unit
  <2>1. /\ Unit \in Nat \ {0} /\ Half \in Nat \ {0} /\ Word \in Nat \ {0} /\ Unit = Half + Half
        /\ Shift \in Nat /\ Shift < Word
    BY RoundingAssumption DEF Unit
  <2>2. w \in Int /\ w >= 0 /\ w <= (Word - Shift - 1) * Unit
    BY <1>1, CaptureAssumption
  <2>3. x \in Int /\ 0 <= x /\ x < Unit * Word
    <3>1. (Word - Shift - 1) * Unit = Unit * Word - Unit * Shift - Unit
      BY <2>1
    <3>2. Unit * Shift >= 0 /\ Unit * Word \in Int /\ Unit * Shift \in Int
      BY <2>1
    <3> HIDE DEF w
    <3> QED
      BY <2>1, <2>2, <3>1, <3>2
  <2> HIDE DEF x
  <2>4. q \in 0 .. Word - 1
    BY <2>1, <2>3, QuotientInRange
  <2>5. Unit * q <= x /\ x < Unit * q + Unit /\ q \in Int
    BY <2>1, <2>3, Division
  <2> HIDE DEF q
  <2>6. q % Word = q
    BY <2>1, <2>4
  <2>7. word(k) = q
    BY <2>6 DEF q, x
  <2>8. q * Unit = Unit * q /\ Unit * q \in Int
    BY <2>1, <2>5
  <2>9. q * Unit >= w - Half
    <3> DEFINE p == Unit * q
    <3>1. p \in Int /\ x < p + Unit /\ q * Unit = p
      BY <2>5, <2>8
    <3> HIDE DEF p
    <3>2. x = w + Half
      BY DEF x
    <3> HIDE DEF w
    <3> QED
      BY <2>1, <2>2, <3>1, <3>2
  <2> QED
    BY <2>4, <2>7, <2>9
<1> HIDE DEF word
<1>3. page' \in [Row -> [Cell -> 0 .. Word - 1]]
  BY <1>1, <1>2
<1>4. \A k \in Cell : page'[0][k] = word(k)
  BY <1>1
<1>5. StoreTypes'
  BY <1>1, <1>3 DEF WInv, StoreTypes, Loading
<1>6. StoreInv'
  BY <1>1, <1>2, <1>4 DEF StoreInv
<1> QED
  BY <1>5, <1>6

LEMMA Scaled ==
    ASSUME NEW n \in Nat, NEW x \in Int, NEW y \in Int, x <= y
    PROVE  n * x <= n * y
  BY SMT

(* Rounding to the next whole number.                                       *)
LEMMA Rounding ==
    ASSUME NEW a \in Int, NEW b \in Nat \ {0}
    PROVE  /\ RoundDiv(a, b) \in Int
           /\ 2 * (b * RoundDiv(a, b)) <= 2 * a + b
           /\ 2 * a < 2 * (b * RoundDiv(a, b)) + b
<1> DEFINE x == 2 * a + b
           u == 2 * b
           q == x \div u
<1>1. x \in Int /\ u \in Nat \ {0}
  OBVIOUS
<1> HIDE DEF x, u
<1>2. q \in Int /\ u * q <= x /\ x < u * q + u
  BY <1>1, Division
<1> HIDE DEF q
<1>3. u * q = 2 * (b * q) /\ b * q \in Int
  BY <1>2 DEF u
<1>4. RoundDiv(a, b) = q
  BY DEF RoundDiv, q, x, u
<1> QED
  BY <1>2, <1>3, <1>4 DEF x, u

(* The nominal width is a number of ticks of the reference clock.           *)
LEMMA WidthType == ASSUME cap \in Captures PROVE Width \in Nat \ {0}
<1> DEFINE b == N * ClockCell
           a == cap.asked
           r == RoundDiv(a, b)
<1>1. b \in Nat \ {0} /\ a \in Nat /\ 2 * a >= b /\ ClockCell \in Nat \ {0}
  BY SizeAssumption, TriggerAssumption, CaptureAssumption
<1> HIDE DEF a, b
<1>2. r \in Int /\ 2 * a < 2 * (b * r) + b
  BY <1>1, Rounding
<1> HIDE DEF r
<1>3. ASSUME r <= 0 PROVE FALSE
  <2>1. b * r <= b * 0 /\ b * r \in Int
    BY <1>1, <1>2, <1>3, Scaled
  <2> QED
    BY <1>1, <1>2, <2>1
<1>4. r \in Nat \ {0}
  BY <1>2, <1>3
<1>5. Width = r * ClockCell
  BY DEF Width, r, a, b
<1> QED
  BY <1>1, <1>4, <1>5

(* What is loaded has the period that was measured, which is positive.      *)
LEMMA TimingLoaded ==
    ASSUME WInv, LoadTiming PROVE StoreTypes' /\ LoadInv'
<1>1. /\ cap \in Captures /\ cap' = cap /\ page' = page /\ pc = "load" /\ pc' = "configure"
      /\ cellDT' = Loaded /\ page \in [Row -> [Cell -> 0 .. Word - 1]]
      /\ 0 \in Row
  BY Rows DEF LoadTiming, WInv, RoundingInv, StoreTypes, storeVars
<1>2. /\ Unit \in Int /\ Shift \in Int /\ Word \in Int /\ Width \in Int /\ Half \in Nat \ {0}
      /\ N \in Nat \ {0}
  BY <1>1, RoundingAssumption, WidthType, SizeAssumption DEF Unit
<1>3. Loaded \in [Row -> [Cell -> Int]]
  <2>1. \A r \in Row : \A k \in Cell : page[r][k] \in Int
    BY <1>1, <1>2
  <2>2. \A r \in Row : \A k \in Cell :
          /\ Width \in Int /\ (page[r][k] - Shift) * Unit \in Int /\ page[0][k] * Unit \in Int
    BY <1>1, <1>2, <2>1
  <2> QED
    BY <2>2 DEF Loaded
<1>4. StoreTypes'
  BY <1>1, <1>3 DEF StoreTypes
<1>5. ASSUME cap.type = 9, cap.timing # "none", NEW r \in Row
      PROVE  Loaded[r] = Stored(r) /\ Kept(r)
  BY <1>1, <1>5 DEF Loaded, Stored, WInv, StoreInv
<1>6. ASSUME cap.timing = "valid" PROVE Around(Loaded[0], 0, N) > 0
  <2>1. Around(cap.widths[0], 0, N) > N * Half
    BY <1>1, <1>6, CaptureAssumption
  <2>2. N * Half \in Int /\ N * Half >= Half
    BY <1>2
  <2>3. /\ Around(cap.widths[0], 0, N) \in Int /\ cap.widths[0] \in [Cell -> Int]
        /\ Around(Stored(0), 0, N) \in Int
    BY <1>1, WidthsType
  <2>4. CASE cap.type = 9
    BY <1>1, <1>2, <1>5, <1>6, <2>1, <2>2, <2>3, <2>4 DEF Kept, Near
  <2>5. CASE cap.type # 9
    <3>1. \A k \in Cell : Loaded[0][k] = page[0][k] * Unit
      BY <1>1, <1>6, <2>5 DEF Loaded
    <3>2. \A k \in Cell : Loaded[0][k] >= cap.widths[0][k] - Half
      BY <1>1, <1>6, <2>5, <3>1 DEF WInv, StoreInv
    <3>3. Loaded[0] \in [Cell -> Int]
      BY <1>1, <1>3
    <3>4. Around(Loaded[0], 0, N) >= Around(cap.widths[0], 0, N) - N * Half
      BY <1>2, <2>3, <3>2, <3>3, AroundAbove
    <3>5. Around(Loaded[0], 0, N) \in Int
      BY <1>2, <3>3, AroundInt
    <3> QED
      BY <2>1, <2>2, <2>3, <3>4, <3>5
  <2> QED
    BY <2>4, <2>5
<1>7. LoadInv'
  BY <1>1, <1>5, <1>6 DEF LoadInv, Calibrated, Kept, Loading
<1> QED
  BY <1>4, <1>7

LEMMA WInvStep == WInv /\ [Next]_vars => WInv'
<1> SUFFICES ASSUME WInv, [Next]_vars PROVE WInv'
  OBVIOUS
<1>1. RoundingInv'
  BY RoundingPreserved DEF WInv
<1>2. CASE StoreCell
  <2>1. LoadInv'
    BY <1>2 DEF StoreCell, LoadInv, Loading
  <2> QED
    BY <1>1, <1>2, <2>1, CellStored DEF WInv
<1>3. CASE StoreRow
  <2>1. LoadInv'
    BY <1>3 DEF StoreRow, LoadInv, Loading
  <2> QED
    BY <1>1, <1>3, <2>1, RowStored DEF WInv
<1>4. CASE StoreOneRow
  <2>1. LoadInv'
    BY <1>4 DEF StoreOneRow, LoadInv, Loading
  <2> QED
    BY <1>1, <1>4, <2>1, OneRowStored DEF WInv
<1>5. CASE LoadTiming
  <2>1. StoreInv'
    BY <1>5 DEF LoadTiming, StoreInv
  <2> QED
    BY <1>1, <1>5, <2>1, TimingLoaded DEF WInv
<1>6. CASE MeasurePrimary
  <2>1. /\ UNCHANGED <<cap, page, row, cell, tTrue, tRounded, cellDT>>
        /\ pc = "volt" /\ pc' = "second"
    BY <1>6 DEF MeasurePrimary, storeVars
  <2>2. \A r : Stored(r)' = Stored(r) /\ Kept(r)' = Kept(r)
    BY <2>1 DEF Stored, Kept
  <2>3. Stored(row)' = Stored(row)
    BY <2>1 DEF Stored
  <2> QED
    BY <1>1, <2>1, <2>2, <2>3 DEF WInv, StoreTypes, StoreInv, LoadInv, Loading
<1>7. CASE MeasureSecondary
  <2>1. /\ UNCHANGED <<cap, page, row, cell, tTrue, tRounded, cellDT>>
        /\ pc = "second" /\ pc' = IF cap.timing = "none" THEN "load" ELSE "store"
    BY <1>7 DEF MeasureSecondary, storeVars
  <2>2. \A r : Stored(r)' = Stored(r) /\ Kept(r)' = Kept(r)
    BY <2>1 DEF Stored, Kept
  <2>3. Stored(row)' = Stored(row)
    BY <2>1 DEF Stored
  <2> QED
    BY <1>1, <2>1, <2>2, <2>3 DEF WInv, StoreTypes, StoreInv, LoadInv, Loading
<1>8. CASE \/ SetTriggerDelayNs \/ Sweep \/ TransferWaves \/ Waves \/ Order \/ Mark \/ Commit
           \/ Decode
  <2>1. /\ UNCHANGED <<cap, page, cellDT>>
        /\ pc \notin Loading /\ pc' \in Sweeping
    BY <1>8 DEF SetTriggerDelayNs, Sweep, TransferWaves, Waves, Order, Mark, Commit, Decode,
       storeVars, Loading, Sweeping
  <2>2. StoreTypes'
    BY <2>1 DEF WInv, StoreTypes
  <2>3. StoreInv'
    BY <2>1 DEF StoreInv, Sweeping
  <2>4. LoadInv'
    BY <2>1 DEF WInv, LoadInv, Calibrated, Sweeping
  <2> QED
    BY <1>1, <2>2, <2>3, <2>4 DEF WInv
<1>9. CASE UNCHANGED vars
  <2>1. UNCHANGED <<cap, pc, page, row, cell, tTrue, tRounded, cellDT>>
    BY <1>9 DEF vars, storeVars
  <2>2. \A r : Stored(r)' = Stored(r) /\ Kept(r)' = Kept(r)
    BY <2>1 DEF Stored, Kept
  <2>3. Stored(row)' = Stored(row)
    BY <2>1 DEF Stored
  <2> QED
    BY <1>1, <2>1, <2>2, <2>3 DEF WInv, StoreTypes, StoreInv, LoadInv, Calibrated
<1> QED
  BY <1>2, <1>3, <1>4, <1>5, <1>6, <1>7, <1>8, <1>9, Zenon DEF Next

LEMMA WInvInit == Init => WInv
<1> SUFFICES ASSUME Init PROVE WInv
  OBVIOUS
<1>1. /\ cap \in Captures /\ row = 0 /\ cell = 0 /\ tTrue = 0 /\ tRounded = 0
      /\ pc \in {"volt", "load", "store"} /\ (pc = "load" => cap.timing = "none")
      /\ page = [r \in Row |-> [k \in Cell |-> 0]] /\ cellDT = page
      /\ 0 \in Row /\ Row \subseteq Nat /\ 0 \in Cell
  BY Rows, SizeAssumption DEF Init, Cell
<1>2. RoundingInv
  BY <1>1, RoundingAssumption DEF RoundingInv
<1>3. StoreTypes
  <2>1. 0 \in 0 .. Word - 1
    BY RoundingAssumption
  <2> QED
    BY <1>1, <2>1 DEF StoreTypes, Loading
<1>4. StoreInv
  <2>1. Around(cap.widths[row], 0, 0) = 0 /\ Around(Stored(row), 0, 0) = 0
    BY AroundStep
  <2>2. \A r \in Row : ~(r < 0)
    BY <1>1
  <2> QED
    BY <1>1, <2>1, <2>2 DEF StoreInv
<1>5. LoadInv
  BY <1>1 DEF LoadInv, Loading
<1> QED
  BY <1>2, <1>3, <1>4, <1>5 DEF WInv

(* A board that is started again has the period of the chip that was        *)
(* measured, whatever the number of cells and the unit of the EEPROM: the   *)
(* rounding of a word is made up for by the next (type 9).                  *)
THEOREM PeriodIsKept == Spec => []PeriodKept
<1>1. WInv => PeriodKept
  <2> SUFFICES ASSUME WInv, pc = "configure", cap.type = 9, cap.timing # "none", NEW r \in Row
               PROVE  Abs(Around(cap.widths[r], 0, N) - Around(cellDT[r], 0, N)) <= Half
    BY DEF PeriodKept
  <2>1. Around(cap.widths[r], 0, N) \in Int /\ Around(cellDT[r], 0, N) \in Int
    <3>1. cellDT[r] \in [Cell -> Int] /\ N \in Nat
      BY SizeAssumption DEF WInv, StoreTypes
    <3> QED
      BY <3>1, AroundInt, WidthsType DEF WInv, RoundingInv, StoreTypes
  <2>2. Near(Around(cap.widths[r], 0, N), Around(cellDT[r], 0, N))
    BY DEF WInv, LoadInv
  <2> QED
    BY <2>1, <2>2, RoundingAssumption DEF Near, Abs
<1> QED
  BY <1>1, WInvInit, WInvStep, PTL DEF Spec

-----------------------------------------------------------------------------
(* From the chip to the decoder.                                            *)
Transferred == {"waves", "order", "mark", "event", "decode", "done"}

Shaped(arrays) == arrays = [ch \in Channel |-> [s \in Cell |-> arrays[ch][s]]]

ChipInv ==
    /\ ticks \in 0 .. MaxTicks /\ stopCell \in Cell /\ marker \in Cell
    /\ pc \in Sweeping => ticks = Clamp(RoundDiv(TrueDelay * Ns, Tick), 0, MaxTicks)
    /\ pc = "transfer" => /\ Trailer => ram[9 * N] = cap.stop
                          /\ ~Trailer => status.cell = cap.stop
    /\ pc \in Transferred => stopCell = cap.stop

EventInv ==
    /\ pc = "order" => time = [ch \in Channel |-> GetTime(2 * ch, cap.stop)]
    /\ Ordered => TimeOfCell /\ Shaped(time) /\ Shaped(wave)
    /\ Ordered /\ pc # "mark" => marker = TriggerCell
    /\ pc = "decode" => bank = Event(cap.format)

EInv == WInv /\ ChipInv /\ EventInv /\ DecodedAsWritten

LEMMA ClampRange ==
    ASSUME NEW x \in Int, NEW low \in Int, NEW high \in Int, low <= high
    PROVE  Clamp(x, low, high) \in low .. high
  BY DEF Clamp

LEMMA TotalPositive == WInv /\ pc \notin Loading => Total \in Nat \ {0}
<1> SUFFICES ASSUME WInv, pc \notin Loading PROVE Total \in Nat \ {0}
  OBVIOUS
<1>1. N \in Nat \ {0} /\ Width \in Nat \ {0} /\ N * Width \in Nat \ {0}
  BY SizeAssumption, WidthType DEF WInv, RoundingInv
<1>2. CASE Calibrated
  <2>1. cellDT[0] \in [Cell -> Int]
    BY Rows DEF WInv, StoreTypes
  <2>2. Around(cellDT[0], 0, N) \in Int
    BY <1>1, <2>1, AroundInt
  <2> QED
    BY <1>2, <2>2 DEF Total, WInv, LoadInv
<1> QED
  BY <1>1, <1>2 DEF Total

LEMMA TickPositive == ASSUME cap \in Captures PROVE Tick \in Nat \ {0}
<1>1. cap.newFw \in BOOLEAN
  BY CaptureAssumption
<1> QED
  BY <1>1, TriggerAssumption DEF Tick

LEMMA DelayType ==
    ASSUME cap \in Captures
    PROVE  UserDelay \in Nat /\ TrueDelay \in 0 .. MaxDelay /\ TrueDelay * Ns \in Nat
<1>1. cap.delay \in Int
  BY CaptureAssumption
<1>2. UserDelay \in Nat
  BY <1>1 DEF UserDelay
<1>3. /\ cap.asked \in Int /\ Ns \in Nat \ {0} /\ MaxDelay \in Nat
  BY CaptureAssumption, TriggerAssumption
<1> DEFINE p == cap.asked
           d == RoundDiv(p, Ns) - UserDelay
<1>4. d \in Int
  <2> HIDE DEF p
  <2>1. p \in Int
    BY <1>3 DEF p
  <2>2. RoundDiv(p, Ns) \in Int
    BY <1>3, <2>1, Rounding
  <2> QED
    BY <1>2, <2>2
<1>5. TrueDelay \in 0 .. MaxDelay
  <2> HIDE DEF d
  <2>1. 0 \in Int /\ MaxDelay \in Int /\ 0 <= MaxDelay
    BY <1>3
  <2>2. Clamp(d, 0, MaxDelay) \in 0 .. MaxDelay
    BY <1>4, <2>1, ClampRange
  <2> QED
    BY <2>2 DEF TrueDelay, d
<1> QED
  BY <1>2, <1>3, <1>5

LEMMA TicksType ==
    ASSUME cap \in Captures PROVE Clamp(RoundDiv(TrueDelay * Ns, Tick), 0, MaxTicks) \in 0 .. MaxTicks
<1> DEFINE p == TrueDelay * Ns
           x == RoundDiv(p, Tick)
<1>1. x \in Int
  <2>1. p \in Int /\ Tick \in Nat \ {0}
    BY DelayType, TickPositive
  <2> HIDE DEF p
  <2> QED
    BY <2>1, Rounding
<1>2. 0 \in Int /\ MaxTicks \in Int /\ 0 <= MaxTicks
  BY TriggerAssumption
<1> HIDE DEF x
<1>3. Clamp(x, 0, MaxTicks) \in 0 .. MaxTicks
  BY <1>1, <1>2, ClampRange
<1> QED
  BY <1>3 DEF x

LEMMA MarkerType == ASSUME WInv, pc \notin Loading PROVE TriggerCell \in Cell
<1> DEFINE p == UserDelay * Ns * N
           x == RoundDiv(p, Total)
<1>1. p \in Int /\ N - 1 \in Int /\ 0 \in Int /\ 0 <= N - 1
  BY DelayType, SizeAssumption, TriggerAssumption DEF WInv, RoundingInv
<1> HIDE DEF p
<1>2. x \in Int
  BY <1>1, TotalPositive, Rounding
<1> HIDE DEF x
<1>3. Clamp(x, 0, N - 1) \in 0 .. N - 1
  BY <1>1, <1>2, ClampRange
<1> QED
  BY <1>3 DEF TriggerCell, Cell, x, p

LEMMA ChipStep == WInv /\ ChipInv /\ [Next]_vars => ChipInv'
<1> SUFFICES ASSUME WInv, ChipInv, [Next]_vars PROVE ChipInv'
  OBVIOUS
<1>1. cap \in Captures /\ cap.stop \in Cell
  BY CaptureAssumption DEF WInv, RoundingInv
<1>2. CASE \/ MeasurePrimary \/ MeasureSecondary \/ StoreCell \/ StoreRow \/ StoreOneRow
           \/ LoadTiming
  <2>1. UNCHANGED <<ticks, stopCell, marker>> /\ pc' \in Loading \cup {"configure"}
    BY <1>2 DEF MeasurePrimary, MeasureSecondary, StoreCell, StoreRow, StoreOneRow, LoadTiming,
       transferVars, eventVars, Loading
  <2> QED
    BY <2>1 DEF ChipInv, Loading, Sweeping, Transferred
<1>3. CASE SetTriggerDelayNs
  <2>1. /\ ticks' = Clamp(RoundDiv(TrueDelay * Ns, Tick), 0, MaxTicks)
        /\ UNCHANGED <<cap, stopCell, marker>> /\ pc' = "sweep"
    BY <1>3 DEF SetTriggerDelayNs, transferVars, eventVars
  <2>2. TrueDelay' = TrueDelay /\ Tick' = Tick
    BY <2>1 DEF TrueDelay, UserDelay, Tick
  <2> QED
    BY <1>1, <2>1, <2>2, TicksType DEF ChipInv, Transferred
<1>4. CASE Sweep
  <2>1. /\ pc = "sweep" /\ pc' = "transfer" /\ UNCHANGED <<cap, ticks, stopCell, marker>>
        /\ status' = [cell |-> cap.stop, wsr |-> 256 * cap.wsr]
        /\ ram' = [a \in 0 .. 9 * N + 1 |->
                     IF a < 9 * N
                     THEN Samples(Signal, IF cap.mode = "stop" THEN cap.stop ELSE 0)[a]
                     ELSE IF ~Trailer THEN Rail ELSE IF a = 9 * N THEN cap.stop ELSE cap.wsr]
    BY <1>4 DEF Sweep, transferVars, eventVars
  <2>2. 9 * N \in 0 .. 9 * N + 1 /\ ~(9 * N < 9 * N)
    BY SizeAssumption
  <2>3. Trailer => ram'[9 * N] = cap.stop
    BY <2>1, <2>2
  <2>4. TrueDelay' = TrueDelay /\ Tick' = Tick /\ Trailer' = Trailer
    BY <2>1 DEF TrueDelay, UserDelay, Tick, Trailer
  <2> QED
    BY <2>1, <2>3, <2>4 DEF ChipInv, Sweeping, Transferred
<1>5. CASE TransferWaves
  <2>1. /\ pc = "transfer" /\ pc' = "waves" /\ UNCHANGED <<cap, ticks, marker>>
        /\ stopCell' = IF Trailer THEN ram[Requested - 2] ELSE status.cell
    BY <1>5 DEF TransferWaves, eventVars
  <2>2. Trailer => Requested - 2 = 9 * N
    BY SizeAssumption DEF Requested
  <2>3. stopCell' = cap.stop
    BY <2>1, <2>2 DEF ChipInv
  <2>4. TrueDelay' = TrueDelay /\ Tick' = Tick
    BY <2>1 DEF TrueDelay, UserDelay, Tick
  <2> QED
    BY <1>1, <2>1, <2>3, <2>4 DEF ChipInv, Sweeping
<1>6. CASE Mark
  <2>1. /\ pc = "mark" /\ pc' = "event" /\ UNCHANGED <<cap, ticks, stopCell>>
        /\ marker' = TriggerCell
    BY <1>6 DEF Mark, transferVars
  <2>2. TriggerCell \in Cell
    BY <2>1, MarkerType DEF Loading
  <2>3. TrueDelay' = TrueDelay /\ Tick' = Tick
    BY <2>1 DEF TrueDelay, UserDelay, Tick
  <2> QED
    BY <2>1, <2>2, <2>3 DEF ChipInv, Sweeping, Transferred
<1>7. CASE Waves \/ Order \/ Commit \/ Decode
  <2>1. /\ pc \in Transferred /\ pc' \in Transferred
        /\ UNCHANGED <<cap, ticks, stopCell, marker>>
    BY <1>7 DEF Waves, Order, Commit, Decode, Transferred, transferVars
  <2>2. TrueDelay' = TrueDelay /\ Tick' = Tick
    BY <2>1 DEF TrueDelay, UserDelay, Tick
  <2> QED
    BY <2>1, <2>2 DEF ChipInv, Sweeping, Transferred
<1>8. CASE UNCHANGED vars
  <2>1. UNCHANGED <<cap, pc, ticks, stopCell, marker, ram, status>>
    BY <1>8 DEF vars, chipVars, transferVars, eventVars
  <2>2. TrueDelay' = TrueDelay /\ Tick' = Tick /\ Trailer' = Trailer
    BY <2>1 DEF TrueDelay, UserDelay, Tick, Trailer
  <2> QED
    BY <2>1, <2>2 DEF ChipInv
<1> QED
  BY <1>2, <1>3, <1>4, <1>5, <1>6, <1>7, <1>8, Zenon DEF Next

(* The first columns of an event and its blocks, one for each channel.      *)
Header == <<0, marker, NCH, Total, 0, 0, UserDelay>> \o Scalers \o <<stopCell>>
Block(ch) == [k \in 1 .. ChannelSize |->
                IF k = 1 THEN ch
                ELSE IF k <= 1 + N THEN time[ch][k - 2] ELSE wave[ch][k - 2 - N]]

LEMMA HeaderWords ==
    /\ Header[2] = marker /\ Header[3] = NCH /\ Header[7] = UserDelay
    /\ Header[8 + NCH] = stopCell
<1> DEFINE a == <<0, marker, NCH, Total, 0, 0, UserDelay>>
           b == a \o Scalers
<1>1. /\ Scalers \in Seq(Int) /\ Len(Scalers) = NCH /\ NCH \in Nat \ {0}
  BY SizeAssumption
<1>2. /\ Len(a) = 7 /\ a[2] = marker /\ a[3] = NCH /\ a[7] = UserDelay
      /\ a \in Seq({0, marker, NCH, Total, UserDelay})
  OBVIOUS
<1> HIDE DEF a
<1>3. /\ Len(b) = 7 + NCH /\ \A k \in 1 .. 7 : b[k] = a[k]
      /\ b \in Seq({0, marker, NCH, Total, UserDelay} \cup Int)
  <2> DEFINE T == {0, marker, NCH, Total, UserDelay} \cup Int
  <2>1. a \in Seq(T) /\ Scalers \in Seq(T)
    BY <1>1, <1>2
  <2> HIDE DEF T
  <2>2. /\ b \in Seq(T) /\ Len(b) = Len(a) + Len(Scalers)
        /\ \A k \in 1 .. Len(a) + Len(Scalers) :
             b[k] = IF k <= Len(a) THEN a[k] ELSE Scalers[k - Len(a)]
    BY <2>1, ConcatProperties
  <2> HIDE DEF b
  <2> QED
    BY <1>1, <1>2, <2>2 DEF T
<1> HIDE DEF b
<1>4. Header = b \o <<stopCell>>
  BY DEF Header, a, b
<1>5. /\ \A k \in 1 .. 7 + NCH : Header[k] = b[k]
      /\ Header[8 + NCH] = stopCell
  <2>1. 7 + NCH + 1 = 8 + NCH
    BY <1>1
  <2> QED
    BY <1>1, <1>3, <1>4, <2>1
<1> QED
  BY <1>1, <1>2, <1>3, <1>5

LEMMA EventWords ==
    ASSUME NEW format \in {"current", "previous", "legacy"},
           NEW ev, ev = Event(format)
    PROVE  /\ ChannelSize \in Nat \ {0} /\ HeaderSize(format) \in Nat \ {0}
           /\ Len(ev) = HeaderSize(format) + NCH * ChannelSize
           /\ ev[2] = marker /\ ev[3] = NCH
           /\ format # "legacy" => ev[7] = UserDelay
           /\ format = "current" => ev[8 + NCH] = stopCell
           /\ \A ch \in Channel : \A s \in Cell :
                /\ ev[HeaderSize(format) + ch * ChannelSize + 2 + s] = time[ch][s]
                /\ ev[HeaderSize(format) + ch * ChannelSize + 2 + N + s] = wave[ch][s]
<1> DEFINE h == HeaderSize(format)
           u == ChannelSize
           L == h + NCH * u
<1>1. /\ N \in Nat \ {0} /\ NCH \in Nat \ {0} /\ u = 1 + 2 * N /\ u \in Nat \ {0}
      /\ h \in Nat /\ h >= 6
      /\ format # "legacy" => h >= 7
      /\ format = "current" => h = 8 + NCH
  BY SizeAssumption DEF HeaderSize, ChannelSize
<1>2. NCH * u \in Nat /\ L \in Nat /\ L >= h /\ L >= 6
  BY <1>1
<1>3. ev = [k \in 1 .. L |-> IF k - h - 1 < 0 THEN Header[k]
                             ELSE Block((k - h - 1) \div u)[((k - h - 1) % u) + 1]]
  BY DEF Event, Header, Block
<1> HIDE DEF h, u
<1>4. Len(ev) = L
  BY <1>2, <1>3
<1>5. \A k \in 1 .. h : ev[k] = Header[k]
  <2> TAKE k \in 1 .. h
  <2>1. k \in 1 .. L /\ k - h - 1 < 0
    BY <1>1, <1>2
  <2> QED
    BY <1>3, <2>1
<1>6. /\ ev[2] = marker /\ ev[3] = NCH
      /\ format # "legacy" => ev[7] = UserDelay
      /\ format = "current" => ev[8 + NCH] = stopCell
  BY <1>1, <1>5, HeaderWords
<1>7. ASSUME NEW ch \in Channel, NEW j \in 1 .. u - 1
      PROVE  ev[h + ch * u + 1 + j] = Block(ch)[j + 1]
  <2> DEFINE k == h + ch * u + 1 + j
             p == u * ch
  <2>1. ch \in Nat /\ ch < NCH /\ ch \in Int /\ j \in Int
    BY <1>1 DEF Channel
  <2>2. p + u <= u * NCH
    BY <1>1, <2>1, Monotone
  <2>3. p \in Nat /\ ch * u = p /\ u * NCH = NCH * u
    BY <1>1, <2>1
  <2> HIDE DEF p
  <2>4. k \in 1 .. L /\ k - h - 1 = p + j /\ p + j >= 0 /\ p + j \in Int
    BY <1>1, <1>2, <2>1, <2>2, <2>3
  <2>5. (p + j) \div u = ch /\ (p + j) % u = j
    <3>1. j \in 0 .. u - 1 /\ p + j = u * ch + j
      BY <1>1 DEF p
    <3> QED
      BY <1>1, <2>1, <2>4, <3>1, Remainder
  <2> HIDE DEF k
  <2>6. ev[k] = IF k - h - 1 < 0 THEN Header[k]
                ELSE Block((k - h - 1) \div u)[((k - h - 1) % u) + 1]
    BY <1>3, <2>4
  <2>7. ev[k] = Block((p + j) \div u)[((p + j) % u) + 1]
    BY <2>4, <2>6
  <2> QED
    BY <2>5, <2>7 DEF k
<1>8. ASSUME NEW ch \in Channel, NEW s \in Cell
      PROVE  /\ ev[h + ch * u + 2 + s] = time[ch][s]
             /\ ev[h + ch * u + 2 + N + s] = wave[ch][s]
  <2>1. /\ s \in Nat /\ s < N /\ ch * u \in Int
        /\ 1 + s \in 1 .. u - 1 /\ 1 + N + s \in 1 .. u - 1
        /\ h + ch * u + 2 + s = h + ch * u + 1 + (1 + s)
        /\ h + ch * u + 2 + N + s = h + ch * u + 1 + (1 + N + s)
    BY <1>1 DEF Cell, Channel
  <2>2. /\ ev[h + ch * u + 2 + s] = Block(ch)[(1 + s) + 1]
        /\ ev[h + ch * u + 2 + N + s] = Block(ch)[(1 + N + s) + 1]
    BY <1>7, <2>1
  <2>3. /\ (1 + s) + 1 \in 1 .. u /\ (1 + s) + 1 # 1 /\ (1 + s) + 1 <= 1 + N
        /\ ((1 + s) + 1) - 2 = s
        /\ (1 + N + s) + 1 \in 1 .. u /\ (1 + N + s) + 1 # 1 /\ ~((1 + N + s) + 1 <= 1 + N)
        /\ ((1 + N + s) + 1) - 2 - N = s
    BY <1>1, <2>1
  <2>4. \A k \in 1 .. u : Block(ch)[k] =
          IF k = 1 THEN ch ELSE IF k <= 1 + N THEN time[ch][k - 2] ELSE wave[ch][k - 2 - N]
    BY DEF Block, u
  <2>5. Block(ch)[(1 + s) + 1] = time[ch][((1 + s) + 1) - 2]
    BY <2>3, <2>4
  <2>6. Block(ch)[(1 + N + s) + 1] = wave[ch][((1 + N + s) + 1) - 2 - N]
    BY <2>3, <2>4
  <2> QED
    BY <2>2, <2>3, <2>5, <2>6
<1> QED
  BY <1>1, <1>4, <1>6, <1>8 DEF h, u

(* The length of a bank tells the format.                                   *)
LEMMA FormatDetected ==
    ASSUME NEW format \in {"current", "previous", "legacy"}
    PROVE  Detect(HeaderSize(format) + NCH * ChannelSize, NCH) = format
<1> DEFINE x == NCH * ChannelSize
<1>1. x \in Nat /\ NCH \in Nat \ {0}
  BY SizeAssumption DEF ChannelSize
<1> HIDE DEF x
<1>2. Detect(HeaderSize(format) + x, NCH) =
        IF HeaderSize(format) + x >= HeaderSize("current") + x THEN "current"
        ELSE IF HeaderSize(format) + x >= HeaderSize("previous") + x THEN "previous"
        ELSE IF HeaderSize(format) + x >= HeaderSize("legacy") + x THEN "legacy" ELSE "none"
  BY DEF Detect, x
<1>3. /\ HeaderSize("current") = 8 + NCH /\ HeaderSize("previous") = 7 + NCH
      /\ HeaderSize("legacy") = 6
  BY DEF HeaderSize
<1>4. Detect(HeaderSize(format) + x, NCH) = format
  BY <1>1, <1>2, <1>3
<1> QED
  BY <1>4 DEF x

LEMMA EventDecoded ==
    ASSUME EInv, Decode PROVE DecodedAsWritten'
<1>1. /\ pc = "decode" /\ bank = Event(cap.format)
      /\ cap.format \in {"current", "previous", "legacy"} /\ stopCell = cap.stop
      /\ UNCHANGED <<cap, wave, time, marker>>
      /\ Shaped(time) /\ Shaped(wave)
  BY CaptureAssumption DEF EInv, WInv, RoundingInv, EventInv, ChipInv, Decode, Ordered, Transferred
<1> DEFINE f == cap.format
           first(ch) == HeaderSize(f) + ch * ChannelSize
<1>2. /\ bank[2] = marker /\ bank[3] = NCH
      /\ f # "legacy" => bank[7] = UserDelay
      /\ f = "current" => bank[8 + NCH] = stopCell
      /\ \A ch \in Channel : \A s \in Cell :
           /\ bank[first(ch) + 2 + s] = time[ch][s]
           /\ bank[first(ch) + 2 + N + s] = wave[ch][s]
      /\ Len(bank) = HeaderSize(f) + NCH * ChannelSize
  BY <1>1, EventWords
<1>3. Detect(Len(bank), bank[3]) = f
  BY <1>1, <1>2, FormatDetected
<1>4. decoded' = [format |-> f, marker |-> bank[2],
                  delay |-> IF f = "legacy" THEN 0 ELSE bank[7],
                  stop |-> IF f = "current" THEN bank[8 + NCH] ELSE 0,
                  time |-> [ch \in 0 .. bank[3] - 1 |-> [s \in Cell |-> bank[first(ch) + 2 + s]]],
                  wave |-> [ch \in 0 .. bank[3] - 1 |-> [s \in Cell |-> bank[first(ch) + 2 + N + s]]]]
  BY <1>3 DEF Decode
<1>5. 0 .. bank[3] - 1 = Channel
  BY <1>2 DEF Channel
<1>6. /\ [ch \in Channel |-> [s \in Cell |-> bank[first(ch) + 2 + s]]] = time
      /\ [ch \in Channel |-> [s \in Cell |-> bank[first(ch) + 2 + N + s]]] = wave
  <2> HIDE DEF f, first
  <2> QED
    BY <1>1, <1>2 DEF Shaped
<1>7. decoded' = [format |-> f, marker |-> marker,
                  delay |-> IF f = "legacy" THEN 0 ELSE UserDelay,
                  stop |-> IF f = "current" THEN cap.stop ELSE 0,
                  time |-> time, wave |-> wave]
  <2>1. /\ (IF f = "legacy" THEN 0 ELSE bank[7]) = (IF f = "legacy" THEN 0 ELSE UserDelay)
        /\ (IF f = "current" THEN bank[8 + NCH] ELSE 0) = (IF f = "current" THEN cap.stop ELSE 0)
        /\ bank[2] = marker
    BY <1>1, <1>2
  <2> HIDE DEF f, first
  <2> QED
    BY <1>4, <1>5, <1>6, <2>1
<1>8. UserDelay' = UserDelay
  BY <1>1 DEF UserDelay
<1> QED
  BY <1>1, <1>7, <1>8 DEF DecodedAsWritten

-----------------------------------------------------------------------------
(* The time axis.                                                           *)
LEMMA RowType ==
    ASSUME WInv, NEW ch \in Channel
    PROVE  /\ 2 * ch \in Row /\ cellDT[2 * ch] \in [Cell -> Int] /\ cellDT[0] \in [Cell -> Int]
           /\ N \in Nat \ {0} /\ Width \in Nat \ {0}
  BY Rows, SizeAssumption, WidthType DEF Row, WInv, RoundingInv, StoreTypes

LEMMA CorrectionType ==
    ASSUME WInv, NEW ch \in Channel, NEW tc \in Cell
    PROVE  Correction(2 * ch, tc) \in Int
<1> DEFINE n == IF tc >= Reference THEN Reference + N - tc ELSE Reference - tc
           c == 2 * ch
<1>1. n \in Nat /\ tc \in Int
  BY SizeAssumption DEF Cell
<1> HIDE DEF n
<1>2. /\ cellDT[c] \in [Cell -> Int] /\ cellDT[0] \in [Cell -> Int]
  BY RowType
<1> HIDE DEF c
<1>3. Around(cellDT[0], tc, n) \in Int /\ Around(cellDT[c], tc, n) \in Int
  BY <1>1, <1>2, AroundInt
<1>4. Correction(c, tc) = IF c = 0 THEN 0 ELSE Around(cellDT[0], tc, n) - Around(cellDT[c], tc, n)
  BY DEF Correction, n
<1>5. Correction(c, tc) \in Int
  BY <1>3, <1>4
<1> QED
  BY <1>5 DEF c

(* Without a calibration the cells of the first turn are Width apart.       *)
LEMMA NominalTime ==
    ASSUME cap \in Captures, NEW tc \in Cell, NEW i \in Cell,
           NEW t, t = (((i + tc) % N) - tc) * Width
    PROVE  (IF t < 0 THEN t + N * Width ELSE t) = i * Width
<1>1. N \in Nat \ {0} /\ Width \in Nat \ {0} /\ tc \in 0 .. N - 1 /\ i \in 0 .. N - 1
  BY SizeAssumption, WidthType DEF Cell
<1>2. CASE i + tc < N
  <2>1. (i + tc) % N = i + tc
    <3>1. i + tc \in Int /\ i + tc \in Cell
      BY <1>1, <1>2 DEF Cell
    <3> QED
      BY <3>1, Turn
  <2>2. t = i * Width
    <3>1. ((i + tc) % N) - tc = i
      BY <1>1, <2>1
    <3> QED
      BY <3>1
  <2>3. i * Width >= 0
    BY <1>1
  <2> QED
    BY <2>2, <2>3
<1>3. CASE i + tc >= N
  <2>1. (i + tc) % N = i + tc - N
    <3> DEFINE x == i + tc - N
    <3>1. x \in Int /\ x \in Cell /\ x + N = i + tc
      BY <1>1, <1>3 DEF Cell
    <3> HIDE DEF x
    <3>2. (x + N) % N = x
      BY <3>1, Turn
    <3> QED
      BY <3>1, <3>2 DEF x
  <2>2. t = (i - N) * Width
    <3>1. ((i + tc) % N) - tc = i - N
      BY <1>1, <2>1
    <3> QED
      BY <3>1
  <2> DEFINE p == i * Width
             q == N * Width
  <2>3. p \in Int /\ q \in Int /\ t = p - q
    BY <1>1, <2>2
  <2>4. Width * i + Width <= Width * N
    BY <1>1, Monotone
  <2>5. p + Width <= q
    BY <1>1, <2>4
  <2> HIDE DEF p, q
  <2>6. (IF t < 0 THEN t + q ELSE t) = p
    BY <1>1, <2>3, <2>5
  <2> QED
    BY <2>6 DEF p, q
<1> QED
  BY <1>1, <1>2, <1>3

LEMMA TimeOf ==
    ASSUME WInv, NEW ch \in Channel, NEW tc \in Cell, NEW i \in Cell
    PROVE  GetTime(2 * ch, tc)[i] =
             IF Calibrated THEN Around(cellDT[2 * ch], tc, i) + Correction(2 * ch, tc)
             ELSE i * Width
<1>1. N \in Nat \ {0} /\ i \in 0 .. N - 1 /\ Width \in Nat
  BY SizeAssumption, WidthType DEF Cell, WInv, RoundingInv
<1> DEFINE t == (((i + tc) % N) - tc) * Width
<1>2. GetTime(2 * ch, tc)[i] =
        IF Calibrated THEN Rotated(2 * ch, tc, i) + Correction(2 * ch, tc)
        ELSE IF t < 0 THEN t + N * Width ELSE t
  <2> HIDE DEF Correction, Rotated, Calibrated
  <2> QED
    BY <1>1 DEF GetTime
<1>3. (IF t < 0 THEN t + N * Width ELSE t) = i * Width
  <2> HIDE DEF t
  <2> QED
    BY NominalTime DEF t, WInv, RoundingInv
<1>4. i * Width \in Int
  BY <1>1
<1> HIDE DEF t
<1> QED
  BY <1>1, <1>2, <1>3, <1>4 DEF Rotated

LEMMA TimesOrdered ==
    ASSUME WInv, ChipInv, EventInv, Order
    PROVE  TimeOfCell' /\ Shaped(time)' /\ Shaped(wave)'
<1>1. /\ pc = "order" /\ cap \in Captures /\ cap.stop \in Cell
      /\ time = [ch \in Channel |-> GetTime(2 * ch, cap.stop)]
      /\ UNCHANGED <<cap, cellDT>>
      /\ time' = [ch \in Channel |-> ChronologicalTime(time[ch])]
      /\ wave' = [ch \in Channel |-> ChronologicalWave(wave[ch])]
  BY CaptureAssumption DEF Order, WInv, RoundingInv, EventInv
<1>2. Total' = Total /\ Calibrated' = Calibrated /\ Width' = Width
  BY <1>1 DEF Total, Width, Calibrated
<1>3. N \in Nat \ {0} /\ Width \in Nat \ {0}
  BY <1>1, SizeAssumption, WidthType
<1> DEFINE stop == cap.stop
<1>4. ASSUME NEW ch \in Channel
      PROVE  /\ \A s \in 0 .. N - 2 :
                  time'[ch][s] = IF Calibrated THEN Around(cellDT[2 * ch], stop + 1, s)
                                 ELSE s * Width
             /\ time'[ch][N - 1] = Total
  <2> DEFINE t == time[ch]
             f == cellDT[2 * ch]
             d == Correction(2 * ch, stop)
  <2>1. time'[ch] = [s \in Cell |-> IF s < N - 1 THEN t[(s + 1) % N] - t[1] ELSE Total]
    BY <1>1 DEF ChronologicalTime
  <2>2. N - 1 \in Cell /\ ~(N - 1 < N - 1)
    BY <1>3 DEF Cell
  <2>3. time'[ch][N - 1] = Total
    BY <2>1, <2>2
  <2>4. f \in [Cell -> Int] /\ d \in Int /\ stop \in Int
    BY <1>1, RowType, CorrectionType DEF Cell
  <2>5. t = GetTime(2 * ch, stop)
    BY <1>1
  <2>6. \A i \in Cell : t[i] = IF Calibrated THEN Around(f, stop, i) + d ELSE i * Width
    BY <1>1, <2>5, TimeOf
  <2> HIDE DEF t, f, d
  <2>7. ASSUME NEW s \in 0 .. N - 2
        PROVE  time'[ch][s] = IF Calibrated THEN Around(f, stop + 1, s) ELSE s * Width
    <3>1. /\ s \in Nat /\ s \in Cell /\ s + 1 \in Cell /\ 1 \in Cell /\ s < N - 1
          /\ s + 1 \in Int
      BY <1>3 DEF Cell
    <3>2. (s + 1) % N = s + 1
      BY <3>1, Turn
    <3>3. time'[ch][s] = t[s + 1] - t[1]
      BY <2>1, <3>1, <3>2
    <3>4. CASE Calibrated
      <4>1. 1 + s = s + 1 /\ 1 \in Nat
        BY <3>1
      <4>2. Around(f, stop, s + 1) = Around(f, stop, 1) + Around(f, stop + 1, s)
        BY <2>4, <3>1, <4>1, AroundSplit
      <4>3. Around(f, stop, 1) \in Int /\ Around(f, stop + 1, s) \in Int
        BY <2>4, <3>1, AroundInt
      <4>4. t[s + 1] = Around(f, stop, s + 1) + d /\ t[1] = Around(f, stop, 1) + d
        BY <2>6, <3>1, <3>4
      <4> QED
        BY <2>4, <3>3, <3>4, <4>2, <4>3, <4>4
    <3>5. CASE ~Calibrated
      <4>1. t[s + 1] = (s + 1) * Width /\ t[1] = 1 * Width
        BY <2>6, <3>1, <3>5
      <4>2. (s + 1) * Width - 1 * Width = s * Width
        BY <1>3, <3>1
      <4> QED
        BY <3>3, <3>5, <4>1, <4>2
    <3> QED
      BY <3>4, <3>5
  <2> QED
    BY <2>3, <2>7 DEF f
<1>5. TimeOfCell'
  BY <1>1, <1>2, <1>4 DEF TimeOfCell
<1>6. Shaped(time)'
  BY <1>1 DEF Shaped, ChronologicalTime
<1>7. Shaped(wave)'
  <2>1. ASSUME NEW w PROVE ChronologicalWave(w) = [s \in Cell |-> ChronologicalWave(w)[s]]
    <3> DEFINE chrono == [s \in Cell |-> w[(s + 1) % N]]
               second == 2 * chrono[2] - chrono[3]
               first == 2 * second - chrono[2]
    <3>1. chrono = [s \in Cell |-> chrono[s]]
      OBVIOUS
    <3>2. ChronologicalWave(w) = [chrono EXCEPT ![1] = second, ![0] = first]
      BY DEF ChronologicalWave
    <3> HIDE DEF chrono, second, first
    <3> QED
      BY <3>1, <3>2
  <2> HIDE DEF ChronologicalWave
  <2> QED
    BY <1>1, <2>1 DEF Shaped
<1> QED
  BY <1>5, <1>6, <1>7

-----------------------------------------------------------------------------
(* The whole event.                                                         *)
LEMMA EventStep == EInv /\ [Next]_vars => EventInv' /\ DecodedAsWritten'
<1> SUFFICES ASSUME EInv, [Next]_vars PROVE EventInv' /\ DecodedAsWritten'
  OBVIOUS
<1>1. cap \in Captures
  BY DEF EInv, WInv, RoundingInv
<1>2. CASE \/ MeasurePrimary \/ MeasureSecondary \/ StoreCell \/ StoreRow \/ StoreOneRow
           \/ LoadTiming \/ SetTriggerDelayNs \/ Sweep \/ TransferWaves
  <2>1. pc' \in Loading \cup {"configure", "sweep", "transfer", "waves"}
    BY <1>2 DEF MeasurePrimary, MeasureSecondary, StoreCell, StoreRow, StoreOneRow, LoadTiming,
       SetTriggerDelayNs, Sweep, TransferWaves, Loading
  <2> QED
    BY <2>1 DEF EventInv, Ordered, DecodedAsWritten, Loading
<1>3. CASE Waves
  <2>1. /\ cap' = cap /\ cellDT' = cellDT /\ pc = "waves" /\ stopCell = cap.stop
        /\ pc' = "order"
        /\ time' = [ch \in Channel |-> GetTime(2 * ch, cap.stop)]
    BY <1>3 DEF Waves, EInv, ChipInv, Transferred
  <2>2. \A c, tc : GetTime(c, tc)' = GetTime(c, tc)
    BY <2>1 DEF GetTime, Width, Calibrated, Rotated, Correction
  <2>3. time' = [ch \in Channel |-> GetTime(2 * ch, cap.stop)']
    BY <2>1, <2>2
  <2> QED
    BY <1>1, <2>1, <2>3 DEF EventInv, Ordered, DecodedAsWritten
<1>4. CASE Order
  <2>1. pc = "order" /\ pc' = "mark" /\ cap' = cap
    BY <1>4 DEF Order
  <2>2. TimeOfCell' /\ Shaped(time)' /\ Shaped(wave)'
    BY <1>4, TimesOrdered DEF EInv
  <2> QED
    BY <2>1, <2>2 DEF EInv, EventInv, Ordered, DecodedAsWritten
<1>5. CASE Mark \/ Commit \/ Decode
  <2>1. /\ pc \in {"mark", "event", "decode"} /\ pc' \in {"event", "decode", "done"}
        /\ UNCHANGED <<cap, cellDT, time, wave, stopCell>>
        /\ Ordered /\ Ordered'
    BY <1>5 DEF Mark, Commit, Decode, transferVars, EInv, EventInv, Ordered
  <2>2. Total' = Total /\ Calibrated' = Calibrated /\ UserDelay' = UserDelay
    BY <2>1 DEF Total, Width, Calibrated, UserDelay
  <2>3. TimeOfCell' /\ Shaped(time)' /\ Shaped(wave)'
    BY <2>1, <2>2 DEF EInv, EventInv, TimeOfCell, Shaped, Width
  <2>4. TriggerCell' = TriggerCell
    BY <2>2 DEF TriggerCell
  <2>5. marker' = TriggerCell'
    BY <1>5, <2>1, <2>4 DEF Mark, Commit, Decode, EInv, EventInv
  <2>6. pc' = "decode" => bank' = Event(cap.format)'
    <3> SUFFICES ASSUME pc' = "decode" PROVE bank' = Event(cap.format)'
      OBVIOUS
    <3>1. bank' = Event(cap.format) /\ marker' = marker
      BY <1>5 DEF Mark, Commit, Decode
    <3> QED
      BY <2>1, <2>2, <3>1 DEF Event
  <2>7. DecodedAsWritten'
    <3>1. CASE Decode
      BY <3>1, EventDecoded
    <3>2. CASE Mark \/ Commit
      BY <3>2 DEF Mark, Commit, DecodedAsWritten
    <3> QED
      BY <1>5, <3>1, <3>2
  <2>8. EventInv'
    BY <2>1, <2>3, <2>5, <2>6 DEF EventInv
  <2> QED
    BY <2>7, <2>8
<1>6. CASE UNCHANGED vars
  <2>1. UNCHANGED <<cap, pc, cellDT, time, wave, stopCell, marker, bank, decoded>>
    BY <1>6 DEF vars, transferVars, eventVars
  <2>2. Total' = Total /\ Calibrated' = Calibrated /\ UserDelay' = UserDelay
    BY <2>1 DEF Total, Width, Calibrated, UserDelay
  <2>3. TimeOfCell' = TimeOfCell /\ Shaped(time)' = Shaped(time) /\ Shaped(wave)' = Shaped(wave)
        /\ Ordered' = Ordered /\ TriggerCell' = TriggerCell
        /\ Event(cap.format)' = Event(cap.format)
    BY <2>1, <2>2 DEF TimeOfCell, Shaped, Ordered, TriggerCell, Event, Width
  <2>4. \A c, tc : GetTime(c, tc)' = GetTime(c, tc)
    BY <2>1 DEF GetTime, Width, Calibrated, Rotated, Correction
  <2>5. DecodedAsWritten'
    BY <2>1, <2>2 DEF EInv, DecodedAsWritten
  <2>6. EventInv'
    BY <2>1, <2>3, <2>4 DEF EInv, EventInv
  <2> QED
    BY <2>5, <2>6
<1> QED
  BY <1>2, <1>3, <1>4, <1>5, <1>6, Zenon DEF Next

LEMMA EInvAlways == Spec => []EInv
<1>1. Init => EInv
  <2> SUFFICES ASSUME Init PROVE EInv
    OBVIOUS
  <2>1. /\ cap \in Captures /\ pc \in Loading /\ ticks = 0 /\ stopCell = 0 /\ marker = 0
    BY DEF Init, Loading
  <2>2. 0 \in Cell /\ 0 \in 0 .. MaxTicks
    BY SizeAssumption, TriggerAssumption DEF Cell
  <2>3. ChipInv
    BY <2>1, <2>2 DEF ChipInv, Loading, Sweeping, Transferred
  <2>4. EventInv /\ DecodedAsWritten
    BY <2>1 DEF EventInv, DecodedAsWritten, Loading, Ordered
  <2> QED
    BY <2>3, <2>4, WInvInit DEF EInv
<1>2. EInv /\ [Next]_vars => EInv'
  BY WInvStep, ChipStep, EventStep DEF EInv
<1> QED
  BY <1>1, <1>2, PTL DEF Spec

(* What is stored in the EEPROM, sent to the board or shown is in its       *)
(* range, whatever is measured: a word of the timing page has the width of  *)
(* the format, the delay line is never set beyond its end, and the marker   *)
(* is a sample of the event.                                                *)
THEOREM TypesKept == Spec => []TypeOK
<1>1. EInv => TypeOK
  BY DEF EInv, WInv, RoundingInv, StoreTypes, ChipInv, TypeOK
<1> QED
  BY <1>1, EInvAlways, PTL

(* The time of every sample of an event is the sum of the widths of the     *)
(* cells before it, from the oldest on, and the axis ends with the period:  *)
(* GetTime() and the front end's reordering agree, at every stop cell.      *)
THEOREM TimeIsOfCell == Spec => []TimeOfCell
<1>1. EInv => TimeOfCell
  BY DEF EInv, EventInv, TimeOfCell
<1> QED
  BY <1>1, EInvAlways, PTL

(* decode_drs4() returns the event that was written, in the format of today *)
(* and in the two before it, with any number of channels, cells and         *)
(* scalers.                                                                 *)
THEOREM BankIsDecoded == Spec => []DecodedAsWritten
<1>1. EInv => DecodedAsWritten
  BY DEF EInv
<1> QED
  BY <1>1, EInvAlways, PTL

(* All channels have the same time at the reference cell.                   *)
THEOREM ReferenceIsCommon == Spec => []ChannelsAgreeAtReference
<1>1. EInv => ChannelsAgreeAtReference
  <2> SUFFICES ASSUME EInv, pc = "order", Calibrated, cap.stop # Reference, NEW ch \in Channel,
                      NEW i, i = (Reference + N - cap.stop) % N
               PROVE  time[ch][i] = time[0][i]
    BY DEF ChannelsAgreeAtReference
  <2> DEFINE stop == cap.stop
             n == IF stop >= Reference THEN Reference + N - stop ELSE Reference - stop
  <2>1. /\ WInv /\ stop \in Cell /\ N \in Nat \ {0} /\ Reference \in Cell
        /\ time = [k \in Channel |-> GetTime(2 * k, stop)]
        /\ 0 \in Channel /\ ch \in Int
    BY CaptureAssumption, SizeAssumption DEF EInv, WInv, RoundingInv, EventInv, Channel
  <2>2. n = i /\ i \in Cell /\ i \in Nat
    <3>1. n \in Cell /\ n \in Int
      BY <2>1 DEF Cell
    <3>2. Reference + N - stop = n \/ Reference + N - stop = n + N
      BY <2>1 DEF Cell
    <3>3. n % N = n /\ (n + N) % N = n
      <4> HIDE DEF n
      <4> QED
        BY <3>1, Turn
    <3> QED
      BY <3>1, <3>2, <3>3 DEF Cell
  <2> HIDE DEF n
  <2>3. \A k \in Channel :
          GetTime(2 * k, stop)[i] = Around(cellDT[2 * k], stop, i) + Correction(2 * k, stop)
    <3> TAKE k \in Channel
    <3> QED
      BY <2>1, <2>2, TimeOf
  <2>4. \A k \in Channel : Correction(2 * k, stop) =
          IF 2 * k = 0 THEN 0 ELSE Around(cellDT[0], stop, i) - Around(cellDT[2 * k], stop, i)
    BY <2>2 DEF Correction, n
  <2>5. \A k \in Channel : Around(cellDT[2 * k], stop, i) \in Int
    <3> TAKE k \in Channel
    <3>1. cellDT[2 * k] \in [Cell -> Int] /\ stop \in Int
      BY <2>1, RowType DEF Cell
    <3> QED
      BY <2>2, <3>1, AroundInt
  <2>6. 2 * 0 = 0 /\ (2 * ch = 0 => ch = 0)
    BY <2>1
  <2>7. time[0][i] = Around(cellDT[0], stop, i)
    <3>1. time[0][i] = Around(cellDT[2 * 0], stop, i) + 0
      BY <2>1, <2>3, <2>4, <2>6
    <3>2. Around(cellDT[2 * 0], stop, i) \in Int
      BY <2>1, <2>5
    <3> QED
      BY <2>6, <3>1, <3>2
  <2>8. CASE ch # 0
    <3>1. time[ch][i] = Around(cellDT[2 * ch], stop, i)
                          + (Around(cellDT[0], stop, i) - Around(cellDT[2 * ch], stop, i))
      BY <2>1, <2>3, <2>4, <2>6, <2>8
    <3>2. Around(cellDT[2 * ch], stop, i) \in Int /\ Around(cellDT[0], stop, i) \in Int
      BY <2>1, <2>5, <2>6
    <3> QED
      BY <2>7, <3>1, <3>2
  <2> QED
    BY <2>8
<1> QED
  BY <1>1, EInvAlways, PTL

-----------------------------------------------------------------------------
(* The T marker.                                                            *)

(* A quotient that is rounded is not cut off where what is divided is       *)
(* within the limits.                                                       *)
LEMMA RoundedWithin ==
    ASSUME NEW u \in Nat \ {0}, NEW x \in Int, NEW q \in Int, NEW high \in Nat,
           2 * x - u <= 2 * (u * q), 2 * (u * q) <= 2 * x + u
    PROVE  /\ 2 * x < 2 * (u * q) + u /\ 0 <= x => 0 <= q
           /\ x <= u * high => q <= high
<1>1. ASSUME 2 * x < 2 * (u * q) + u, 0 <= x, q < 0 PROVE FALSE
  <2>1. u * q + u <= u * 0
    BY <1>1, Monotone
  <2>2. u * q \in Int
    OBVIOUS
  <2> QED
    BY <1>1, <2>1, <2>2
<1>2. ASSUME x <= u * high, high < q PROVE FALSE
  <2>1. u * high + u <= u * q
    BY <1>2, Monotone
  <2>2. u * q \in Int /\ u * high \in Int
    OBVIOUS
  <2> QED
    BY <1>2, <2>1, <2>2
<1> QED
  BY <1>1, <1>2

(* The delay of the trigger in reach of the delay line, in whole            *)
(* nanoseconds.                                                             *)
LEMMA DelayInReach ==
    ASSUME cap \in Captures, InReach, NEW needed, needed = cap.asked - UserDelay * Ns
    PROVE  /\ needed \in Int /\ TrueDelay * Ns \in Nat
           /\ 2 * needed - Ns <= 2 * (TrueDelay * Ns) /\ 2 * (TrueDelay * Ns) <= 2 * needed + Ns
<1> DEFINE P == cap.asked
           A == UserDelay * Ns
           r == RoundDiv(P, Ns)
           e == r - UserDelay
<1>1. /\ P \in Int /\ A \in Int /\ Ns \in Nat \ {0} /\ UserDelay \in Nat /\ MaxDelay \in Nat
      /\ needed = P - A /\ needed \in Int /\ TrueDelay * Ns \in Nat
  BY DelayType, CaptureAssumption, TriggerAssumption
<1>2. 0 <= needed /\ needed <= MaxDelay * Ns /\ MaxDelay * Ns = Ns * MaxDelay
  BY <1>1 DEF InReach
<1> HIDE DEF P
<1>3. r \in Int /\ 2 * (Ns * r) <= 2 * P + Ns /\ 2 * P < 2 * (Ns * r) + Ns
  BY <1>1, Rounding
<1>4. TrueDelay = Clamp(e, 0, MaxDelay)
  BY DEF TrueDelay, P
<1> HIDE DEF r
<1>5. Ns * e = Ns * r - A /\ Ns * r \in Int /\ Ns * e \in Int /\ e \in Int
  BY <1>1, <1>3
<1> HIDE DEF A, e
<1>6. 2 * (Ns * e) <= 2 * needed + Ns /\ 2 * needed < 2 * (Ns * e) + Ns
  BY <1>1, <1>3, <1>5
<1>7. 2 * needed - Ns <= 2 * (Ns * e)
  BY <1>1, <1>5, <1>6
<1>8. 0 <= e /\ e <= MaxDelay
  BY <1>1, <1>2, <1>5, <1>6, <1>7, RoundedWithin
<1>9. TrueDelay = e
  BY <1>1, <1>4, <1>5, <1>8 DEF Clamp
<1>10. TrueDelay * Ns = Ns * e
  BY <1>1, <1>5, <1>9
<1> QED
  BY <1>1, <1>6, <1>7, <1>10

(* The delay that the board gets, in steps of the delay line.               *)
LEMMA TicksInReach ==
    ASSUME cap \in Captures, InReach, ticks = Clamp(RoundDiv(TrueDelay * Ns, Tick), 0, MaxTicks),
           NEW needed, needed = cap.asked - UserDelay * Ns
    PROVE  /\ needed \in Int /\ ticks * Tick \in Nat
           /\ -(Ns + Tick) <= 2 * (ticks * Tick) - 2 * needed
           /\ 2 * (ticks * Tick) - 2 * needed <= Ns + Tick
<1> DEFINE g == TrueDelay * Ns
           K == Tick
           t == RoundDiv(g, K)
<1>1. /\ needed \in Int /\ g \in Nat /\ g \in Int /\ Ns \in Nat \ {0} /\ K \in Nat \ {0}
      /\ MaxTicks \in Nat
      /\ 2 * needed - Ns <= 2 * g /\ 2 * g <= 2 * needed + Ns
  BY DelayInReach, TickPositive, TriggerAssumption
<1>2. needed <= MaxTicks * K
  BY DEF InReach
<1> HIDE DEF g, K
<1>3. t \in Int /\ 2 * (K * t) <= 2 * g + K /\ 2 * g < 2 * (K * t) + K
  BY <1>1, Rounding
<1>4. ticks = Clamp(t, 0, MaxTicks)
  BY DEF t, g, K
<1> HIDE DEF t
<1>5. K * t \in Int /\ 2 * g - K <= 2 * (K * t)
  BY <1>1, <1>3
<1>6. 0 <= t
  BY <1>1, <1>3, <1>5, RoundedWithin
<1>7. CASE t <= MaxTicks
  <2>1. ticks = t
    BY <1>1, <1>3, <1>4, <1>6, <1>7 DEF Clamp
  <2>2. ticks * K = K * t /\ K * t \in Nat
    BY <1>1, <1>3, <1>6, <2>1
  <2> QED
    BY <1>1, <1>3, <1>5, <2>2 DEF K
<1>8. CASE MaxTicks < t
  <2>1. ticks = MaxTicks
    BY <1>1, <1>3, <1>4, <1>6, <1>8 DEF Clamp
  <2>2. K * MaxTicks + K <= K * t
    BY <1>1, <1>3, <1>8, Monotone
  <2>3. ticks * K = K * MaxTicks /\ K * MaxTicks \in Nat /\ MaxTicks * K = K * MaxTicks
    BY <1>1, <2>1
  <2> QED
    BY <1>1, <1>2, <1>3, <1>5, <2>2, <2>3 DEF K
<1> QED
  BY <1>1, <1>3, <1>7, <1>8

LEMMA MarkerAtEdgeOf ==
    ASSUME EInv, Ordered, pc # "mark", InReach
    PROVE  Abs(2 * marker * Total - 2 * N * (Total - ticks * Tick))
             <= 2 * Total + N * (Ns + Tick) + 2 * N * Abs(Total - cap.asked)
<1> DEFINE T == Total
           P == cap.asked
           A == UserDelay * Ns
           a == ticks * Tick
           B == Ns + Tick
           needed == P - A
           p == A * N
           q == RoundDiv(p, T)
           X == Abs(T - P)
           m == marker
<1>1. /\ cap \in Captures /\ pc \in Sweeping /\ pc \notin Loading /\ WInv
      /\ ticks = Clamp(RoundDiv(TrueDelay * Ns, Tick), 0, MaxTicks)
      /\ marker = TriggerCell
  BY DEF EInv, WInv, RoundingInv, Ordered, ChipInv, EventInv, Sweeping, Loading
<1>2. /\ T \in Nat \ {0} /\ P \in Int /\ A \in Nat /\ N \in Nat \ {0} /\ B \in Nat
      /\ N - 1 \in Nat
  <2>1. cap.asked \in Int
    BY <1>1, CaptureAssumption
  <2> QED
    BY <1>1, <2>1, TotalPositive, DelayType, TickPositive, SizeAssumption, TriggerAssumption
<1>3. a \in Nat /\ -B <= 2 * a - 2 * needed /\ 2 * a - 2 * needed <= B
  BY <1>1, TicksInReach
<1>4. p \in Nat /\ p \in Int
  BY <1>2
<1>5. m = Clamp(q, 0, N - 1)
  BY <1>1 DEF TriggerCell
<1> HIDE DEF T, P, A, a, B, m
<1>6. X \in Nat /\ T - P <= X /\ P - T <= X
  BY <1>2 DEF Abs
<1> HIDE DEF X
<1>7. q \in Int /\ 2 * (T * q) <= 2 * p + T /\ 2 * p < 2 * (T * q) + T
  <2> HIDE DEF p
  <2> QED
    BY <1>2, <1>4, Rounding
<1>8. /\ -(N * B) <= 2 * (N * a) - 2 * (N * P) + 2 * p
      /\ 2 * (N * a) - 2 * (N * P) + 2 * p <= N * B
      /\ N * T - N * P <= N * X /\ N * P - N * T <= N * X
      /\ N * a \in Nat /\ N * P \in Int /\ N * T \in Int /\ N * X \in Nat /\ N * B \in Nat
  <2>1. /\ N * (-B) <= N * (2 * a - 2 * needed) /\ N * (2 * a - 2 * needed) <= N * B
        /\ N * (T - P) <= N * X /\ N * (P - T) <= N * X
    BY <1>2, <1>3, <1>6, Scaled
  <2>2. /\ N * (-B) = -(N * B) /\ N * (T - P) = N * T - N * P /\ N * (P - T) = N * P - N * T
        /\ N * (2 * a - 2 * needed) = 2 * (N * a) - 2 * (N * P) + 2 * p
    BY <1>2, <1>3
  <2>3. /\ N * a \in Nat /\ N * P \in Int /\ N * T \in Int /\ N * X \in Nat /\ N * B \in Nat
    BY <1>2, <1>3, <1>6
  <2> QED
    BY <2>1, <2>2, <2>3
<1> HIDE DEF q, p, needed
<1>9. T * q \in Int /\ T * m \in Int /\ 0 <= q /\ m \in Int
  <2>1. T * q \in Int
    BY <1>2, <1>7
  <2>2. 0 <= q
    <3>1. 2 * p - T <= 2 * (T * q) /\ 0 \in Nat
      BY <1>2, <1>4, <1>7, <2>1
    <3> QED
      BY <1>2, <1>4, <1>7, <3>1, RoundedWithin
  <2>3. m \in Int
    BY <1>2, <1>5, <1>7 DEF Clamp
  <2> QED
    BY <1>2, <2>1, <2>2, <2>3
<1>10. /\ -(2 * T + N * B + 2 * (N * X)) <= 2 * (T * m) - 2 * (N * T) + 2 * (N * a)
       /\ 2 * (T * m) - 2 * (N * T) + 2 * (N * a) <= 2 * T + N * B + 2 * (N * X)
  <2>1. CASE q <= N - 1
    <3>1. m = q
      BY <1>2, <1>5, <1>7, <1>9, <2>1 DEF Clamp
    <3> DEFINE Tq == T * q
               nB == N * B
               nX == N * X
               nT == N * T
               na == N * a
               nP == N * P
    <3>2. /\ 2 * Tq <= 2 * p + T /\ 2 * p < 2 * Tq + T /\ Tq \in Int
          /\ -nB <= 2 * na - 2 * nP + 2 * p /\ 2 * na - 2 * nP + 2 * p <= nB
          /\ nT - nP <= nX /\ nP - nT <= nX
          /\ na \in Nat /\ nP \in Int /\ nT \in Int /\ nX \in Nat /\ nB \in Nat
      BY <1>7, <1>8, <1>9
    <3> HIDE DEF Tq, nB, nX, nT, na, nP
    <3>3. /\ -(2 * T + nB + 2 * nX) <= 2 * Tq - 2 * nT + 2 * na
          /\ 2 * Tq - 2 * nT + 2 * na <= 2 * T + nB + 2 * nX
      BY <1>2, <1>4, <3>2
    <3> QED
      BY <3>1, <3>3 DEF Tq, nB, nX, nT, na, nP
  <2>2. CASE N - 1 < q
    <3>1. m = N - 1
      BY <1>2, <1>5, <1>7, <1>9, <2>2 DEF Clamp
    <3> DEFINE Tq == T * q
               nB == N * B
               nX == N * X
               nT == N * T
               na == N * a
               nP == N * P
    <3>2. T * m = nT - T
      BY <1>2, <3>1
    <3>3. nT <= Tq
      <4>1. T * (N - 1) + T <= Tq
        BY <1>2, <1>7, <2>2, Monotone
      <4>2. T * (N - 1) + T = nT
        BY <1>2
      <4> QED
        BY <4>1, <4>2
    <3>4. /\ 2 * Tq <= 2 * p + T /\ Tq \in Int
          /\ -nB <= 2 * na - 2 * nP + 2 * p /\ 2 * na - 2 * nP + 2 * p <= nB
          /\ nT - nP <= nX /\ nP - nT <= nX
          /\ na \in Nat /\ nP \in Int /\ nT \in Int /\ nX \in Nat /\ nB \in Nat
      BY <1>7, <1>8, <1>9
    <3> HIDE DEF Tq, nB, nX, nT, na, nP
    <3>5. /\ -(2 * T + nB + 2 * nX) <= 2 * (nT - T) - 2 * nT + 2 * na
          /\ 2 * (nT - T) - 2 * nT + 2 * na <= 2 * T + nB + 2 * nX
      BY <1>2, <1>4, <3>3, <3>4
    <3> QED
      BY <3>2, <3>5 DEF nB, nX, nT, na
  <2> QED
    BY <1>2, <1>7, <2>1, <2>2
<1>11. 2 * m * T - 2 * N * (T - a) = 2 * (T * m) - 2 * (N * T) + 2 * (N * a)
  BY <1>2, <1>3, <1>9
<1>12. Abs(2 * m * T - 2 * N * (T - a)) <= 2 * T + N * B + 2 * (N * X)
  <2> DEFINE lhs == 2 * m * T - 2 * N * (T - a)
             rhs == 2 * T + N * B + 2 * (N * X)
  <2>1. lhs \in Int /\ rhs \in Int
    BY <1>2, <1>3, <1>6, <1>9
  <2>2. -rhs <= lhs /\ lhs <= rhs
    BY <1>10, <1>11
  <2> HIDE DEF lhs, rhs
  <2>3. Abs(lhs) <= rhs
    BY <2>1, <2>2 DEF Abs
  <2> QED
    BY <2>3 DEF lhs, rhs
<1>13. 2 * (N * X) = 2 * N * X
  BY <1>2, <1>6
<1> QED
  BY <1>12, <1>13 DEF T, P, a, B, X, m

(* The T marker is at the edge that the board triggers on, to one sample,   *)
(* the roundings of the delay and the difference of the frequencies, for    *)
(* every delay in reach, every delay line and every board.                  *)
THEOREM MarkerIsAtEdge == Spec => []MarkerAtEdge
<1>1. EInv => MarkerAtEdge
  BY MarkerAtEdgeOf DEF MarkerAtEdge
<1> QED
  BY <1>1, EInvAlways, PTL

-----------------------------------------------------------------------------
(* Averages.                                                                *)
LEMMA RoundDivShift ==
    ASSUME NEW x \in Int, NEW y \in Int
    PROVE  RoundDiv(y + N * x, N) = RoundDiv(y, N) + x
<1> DEFINE u == 2 * N
           a == 2 * y + N
           q == a \div u
           r == a % u
<1>1. N \in Nat \ {0} /\ u \in Nat \ {0} /\ a \in Int
  BY SizeAssumption
<1>2. q \in Int /\ r \in 0 .. u - 1 /\ a = u * q + r
  <2> HIDE DEF u, a
  <2> QED
    BY <1>1, Division
<1>3. 2 * (y + N * x) + N = u * (q + x) + r
  <2>1. u * (q + x) = u * q + u * x /\ u * x = 2 * (N * x) /\ N * x \in Int
    <3> HIDE DEF q
    <3> QED
      BY <1>1, <1>2
  <2> HIDE DEF q, r
  <2> QED
    BY <1>1, <1>2, <2>1
<1> HIDE DEF q, r
<1>4. (2 * (y + N * x) + N) \div u = q + x
  <2> DEFINE b == 2 * (y + N * x) + N
  <2>1. b \in Int /\ b = u * (q + x) + r /\ q + x \in Int
    BY <1>1, <1>2, <1>3
  <2> HIDE DEF b, u
  <2> QED
    BY <1>1, <1>2, <2>1, Remainder DEF b
<1> QED
  BY <1>4 DEF RoundDiv, q

LEMMA AroundShift ==
    ASSUME NEW f \in [Cell -> Int], NEW g \in [Cell -> Int], NEW x \in Int,
           \A k \in Cell : g[k] = f[k] + x, NEW n \in Nat
    PROVE  Around(g, 0, n) = Around(f, 0, n) + n * x
<1> DEFINE S == {m \in Nat : Around(g, 0, m) = Around(f, 0, m) + m * x}
<1>1. 0 \in S
  BY AroundStep
<1>2. ASSUME NEW m \in S PROVE m + 1 \in S
  <2>1. /\ Around(g, 0, m + 1) = Around(g, 0, m) + g[m % N]
        /\ Around(f, 0, m + 1) = Around(f, 0, m) + f[m % N]
    BY AroundStep
  <2>2. m % N \in Cell /\ Around(g, 0, m) \in Int /\ Around(f, 0, m) \in Int
    BY InCell, AroundInt
  <2>3. (m + 1) * x = m * x + x
    OBVIOUS
  <2>4. g[m % N] = f[m % N] + x /\ f[m % N] \in Int
    BY <2>2
  <2> QED
    BY <2>1, <2>2, <2>3, <2>4
<1>3. n \in S
  <2>1. S \subseteq Nat
    OBVIOUS
  <2> HIDE DEF S
  <2> QED
    BY <1>1, <1>2, <2>1, Induct
<1> QED
  BY <1>3

LEMMA MeanShift ==
    ASSUME NEW f \in [Cell -> Int], NEW g \in [Cell -> Int], NEW x \in Int,
           \A k \in Cell : g[k] = f[k] + x
    PROVE  Mean(f) \in Int /\ Mean(g) = Mean(f) + x
<1>1. N \in Nat \ {0}
  BY SizeAssumption
<1>2. Around(g, 0, N) = Around(f, 0, N) + N * x /\ Around(f, 0, N) \in Int
  BY <1>1, AroundShift, AroundInt
<1>3. RoundDiv(Around(f, 0, N), N) \in Int
  BY <1>1, <1>2, Rounding
<1> QED
  BY <1>2, <1>3, RoundDivShift DEF Mean

LEMMA AroundConstant ==
    ASSUME NEW x \in Int
    PROVE  /\ [k \in Cell |-> x] \in [Cell -> Int]
           /\ Around([k \in Cell |-> x], 0, N) = N * x
<1> DEFINE z == [k \in Cell |-> 0]
           g == [k \in Cell |-> x]
<1>1. N \in Nat \ {0}
  BY SizeAssumption
<1>2. z \in [Cell -> Int] /\ g \in [Cell -> Int] /\ \A k \in Cell : g[k] = z[k] + x
  OBVIOUS
<1>3. Around(z, 0, N) = 0
  <2> DEFINE S == {l \in Nat : Around(z, 0, l) = 0}
  <2>1. 0 \in S
    BY AroundStep
  <2>2. ASSUME NEW l \in S PROVE l + 1 \in S
    <3>1. Around(z, 0, l + 1) = Around(z, 0, l) + z[l % N]
      BY AroundStep
    <3>2. z[l % N] = 0
      BY InCell
    <3> QED
      BY <3>1, <3>2
  <2>3. S \subseteq Nat
    OBVIOUS
  <2> HIDE DEF S
  <2>4. N \in S
    BY <1>1, <2>1, <2>2, <2>3, Induct
  <2> QED
    BY <2>4 DEF S
<1> HIDE DEF z, g
<1>4. Around(g, 0, N) = Around(z, 0, N) + N * x
  BY <1>1, <1>2, AroundShift
<1>5. Around(g, 0, N) = N * x /\ g \in [Cell -> Int]
  BY <1>1, <1>2, <1>3, <1>4
<1> QED
  BY <1>5 DEF g

LEMMA MeanConstant ==
    ASSUME NEW x \in Int PROVE Mean([k \in Cell |-> x]) = x
<1>1. N \in Nat \ {0}
  BY SizeAssumption
<1>2. RoundDiv(0, N) = 0
  <2>1. 2 * 0 + N = 2 * N * 0 + N /\ N \in 0 .. 2 * N - 1 /\ 2 * N \in Nat \ {0}
    BY <1>1
  <2>2. (2 * 0 + N) \div (2 * N) = 0
    BY <2>1, Remainder
  <2> QED
    BY <2>2 DEF RoundDiv
<1>3. RoundDiv(0 + N * x, N) = x
  BY <1>2, RoundDivShift
<1>4. 0 + N * x = N * x
  BY <1>1
<1> QED
  BY <1>3, <1>4, AroundConstant DEF Mean

(* An average is not above all of its values, nor below them.               *)
LEMMA MeanBetween ==
    ASSUME NEW f \in [Cell -> Int]
    PROVE  /\ Mean(f) \in Int
           /\ \E i \in Cell : f[i] <= Mean(f)
           /\ \E i \in Cell : f[i] >= Mean(f)
<1> DEFINE s == Around(f, 0, N)
           m == Mean(f)
<1>1. N \in Nat \ {0} /\ s \in Int
  BY SizeAssumption, AroundInt
<1>2. m \in Int /\ 2 * (N * m) <= 2 * s + N /\ 2 * s < 2 * (N * m) + N
  <2> HIDE DEF s
  <2>1. m = RoundDiv(s, N)
    BY DEF Mean, s
  <2> QED
    BY <1>1, <2>1, Rounding
<1> HIDE DEF m, s
<1>3. ASSUME \A i \in Cell : ~(f[i] <= m) PROVE FALSE
  <2> DEFINE g == [k \in Cell |-> m + 1]
  <2>1. m + 1 \in Int /\ N * (m + 1) = N * m + N /\ N * m \in Int
    BY <1>1, <1>2
  <2>2. g \in [Cell -> Int] /\ Around(g, 0, N) = N * (m + 1)
    BY <2>1, AroundConstant
  <2>3. \A k \in Cell : f[k] >= g[k] - 0
    BY <1>2, <1>3
  <2> HIDE DEF g
  <2>4. s >= Around(g, 0, N) - N * 0
    BY <1>1, <2>2, <2>3, AroundAbove DEF s
  <2> QED
    BY <1>1, <1>2, <2>1, <2>2, <2>4
<1>4. ASSUME \A i \in Cell : ~(f[i] >= m) PROVE FALSE
  <2> DEFINE g == [k \in Cell |-> m - 1]
  <2>1. m - 1 \in Int /\ N * (m - 1) = N * m - N /\ N * m \in Int
    BY <1>1, <1>2
  <2>2. g \in [Cell -> Int] /\ Around(g, 0, N) = N * (m - 1)
    BY <2>1, AroundConstant
  <2>3. \A k \in Cell : g[k] >= f[k] - 0
    BY <1>2, <1>4
  <2> HIDE DEF g
  <2>4. Around(g, 0, N) >= s - N * 0
    BY <1>1, <2>2, <2>3, AroundAbove DEF s
  <2> QED
    BY <1>1, <1>2, <2>1, <2>2, <2>4
<1> QED
  BY <1>2, <1>3, <1>4 DEF m

(* A sum over all cells is the same wherever it begins.                     *)
LEMMA AroundFull ==
    ASSUME NEW f \in [Cell -> Int], NEW a \in Nat
    PROVE  Around(f, a, N) = Around(f, 0, N)
<1>1. N \in Nat \ {0} /\ a + N = N + a /\ 0 + a = a /\ 0 + N = N
  BY SizeAssumption
<1>2. Around(f, 0, a + N) = Around(f, 0, a) + Around(f, a, N)
  BY <1>1, AroundSplit
<1>3. Around(f, 0, N + a) = Around(f, 0, N) + Around(f, N, a)
  BY <1>1, AroundSplit
<1>4. Around(f, N, a) = Around(f, 0, a)
  BY <1>1, AroundTurn
<1>5. /\ Around(f, 0, a) \in Int /\ Around(f, a, N) \in Int /\ Around(f, 0, N) \in Int
  BY <1>1, AroundInt
<1> QED
  BY <1>1, <1>2, <1>3, <1>4, <1>5

(* A cell is at position (c - tc) of the sweep that stops at tc: over all   *)
(* stop cells it is at every position once.                                 *)
LEMMA MeanOverStops ==
    ASSUME NEW f \in [Cell -> Int], NEW c \in Cell
    PROVE  /\ [tc \in Cell |-> f[(c + N - tc) % N]] \in [Cell -> Int]
           /\ Mean([tc \in Cell |-> f[(c + N - tc) % N]]) = Mean(f)
<1> DEFINE g == [tc \in Cell |-> f[(c + N - tc) % N]]
<1>1. N \in Nat \ {0} /\ c \in 0 .. N - 1
  BY SizeAssumption DEF Cell
<1>2. \A tc \in Cell : (c + N - tc) % N \in Cell
  <2> TAKE tc \in Cell
  <2>1. c + N - tc \in Int
    BY <1>1 DEF Cell
  <2> QED
    BY <2>1, InCell
<1>3. g \in [Cell -> Int] /\ \A tc \in Cell : g[tc] = f[(c + N - tc) % N]
  BY <1>2
<1> HIDE DEF g
<1> DEFINE S == {n \in Nat : n <= N => Around(g, 0, n) = Around(f, c + N + 1 - n, n)}
<1>4. 0 \in S
  BY <1>1, AroundStep
<1>5. ASSUME NEW n \in S PROVE n + 1 \in S
  <2> SUFFICES ASSUME n + 1 <= N
               PROVE  Around(g, 0, n + 1) = Around(f, c + N + 1 - (n + 1), n + 1)
    OBVIOUS
  <2> DEFINE b == c + N - n
  <2>1. /\ n \in Cell /\ n \in Nat /\ n <= N /\ 0 + n = n /\ b \in Int
        /\ c + N + 1 - (n + 1) = b /\ c + N + 1 - n = b + 1 /\ b + 0 = b /\ 1 + n = n + 1
    BY <1>1 DEF Cell
  <2>2. Around(g, 0, n) = Around(f, b + 1, n)
    BY <2>1
  <2>3. Around(g, 0, n + 1) = Around(g, 0, n) + g[n]
    <3>1. n % N = n
      BY <2>1, Turn
    <3> QED
      BY <2>1, <3>1, AroundStep
  <2>4. g[n] = f[b % N] /\ b % N \in Cell
    BY <1>2, <1>3, <2>1
  <2> HIDE DEF b
  <2>5. Around(f, b, 1 + n) = Around(f, b, 1) + Around(f, b + 1, n)
    BY <2>1, AroundSplit
  <2>6. Around(f, b, 1) = f[b % N]
    <3>1. Around(f, b, 0) = 0 /\ Around(f, b, 0 + 1) = Around(f, b, 0) + f[(b + 0) % N]
      BY <2>1, AroundStep
    <3>2. f[b % N] \in Int /\ 0 + 1 = 1
      BY <2>4
    <3> QED
      BY <2>1, <3>1, <3>2
  <2>7. Around(f, b + 1, n) \in Int /\ f[b % N] \in Int
    <3>1. b + 1 \in Int
      BY <2>1
    <3>2. Around(f, b + 1, n) \in Int
      BY <2>1, <3>1, AroundInt
    <3>3. f[b % N] \in Int
      BY <2>4, Zenon
    <3> QED
      BY <3>2, <3>3
  <2> QED
    BY <2>1, <2>2, <2>3, <2>4, <2>5, <2>6, <2>7
<1>6. N \in S
  <2>1. S \subseteq Nat
    OBVIOUS
  <2> HIDE DEF S
  <2> QED
    BY <1>1, <1>4, <1>5, <2>1, Induct
<1>7. Around(g, 0, N) = Around(f, c + 1, N)
  <2>1. c + N + 1 - N = c + 1 /\ N <= N
    BY <1>1
  <2> QED
    BY <1>6, <2>1
<1>8. Around(f, c + 1, N) = Around(f, 0, N)
  BY <1>1, AroundFull
<1>9. Mean(g) = Mean(f)
  BY <1>7, <1>8 DEF Mean
<1> QED
  BY <1>3, <1>9 DEF g

-----------------------------------------------------------------------------
(* Division towards 0 stays between whole numbers.                          *)
LEMMA QuotientBetween ==
    ASSUME NEW b \in Nat \ {0}, NEW x \in Int, NEW low \in Int, NEW high \in Int,
           b * low <= x, x <= b * high
    PROVE  Quotient(x, b) \in low .. high
<1>1. CASE x < 0
  <2> DEFINE q == (-x) \div b
  <2>1. q \in Int /\ b * q <= -x /\ -x < b * q + b
    BY Division
  <2>2. Quotient(x, b) = -q
    BY <1>1 DEF Quotient
  <2> HIDE DEF q
  <2>3. b * (-q) = -(b * q) /\ b * q \in Int /\ -q \in Int
    BY <2>1
  <2>4. ~(-q < low)
    <3> SUFFICES ASSUME -q < low PROVE FALSE
      OBVIOUS
    <3>1. b * (-q) + b <= b * low
      BY <2>3, Monotone
    <3> QED
      BY <2>1, <2>3, <3>1
  <2>5. ~(high < -q)
    <3> SUFFICES ASSUME high < -q PROVE FALSE
      OBVIOUS
    <3>1. b * high + b <= b * (-q)
      BY <2>3, Monotone
    <3>2. b * high \in Int
      OBVIOUS
    <3> QED
      BY <2>1, <2>3, <3>1, <3>2
  <2> QED
    BY <2>1, <2>2, <2>4, <2>5
<1>2. CASE x >= 0
  <2> DEFINE q == x \div b
  <2>1. q \in Int /\ b * q <= x /\ x < b * q + b
    BY Division
  <2>2. Quotient(x, b) = q
    BY <1>2 DEF Quotient
  <2> HIDE DEF q
  <2>3. ~(q < low)
    <3> SUFFICES ASSUME q < low PROVE FALSE
      OBVIOUS
    <3>1. b * q + b <= b * low
      BY <2>1, Monotone
    <3>2. b * low \in Int /\ b * q \in Int
      BY <2>1
    <3> QED
      BY <2>1, <3>1, <3>2
  <2>4. ~(high < q)
    <3> SUFFICES ASSUME high < q PROVE FALSE
      OBVIOUS
    <3>1. b * high + b <= b * q
      BY <2>1, Monotone
    <3>2. b * high \in Int /\ b * q \in Int
      BY <2>1
    <3> QED
      BY <2>1, <3>1, <3>2
  <2> QED
    BY <2>1, <2>2, <2>3, <2>4
<1> QED
  BY <1>1, <1>2

-----------------------------------------------------------------------------
(* A chip without stuck cells, whose offsets and gains the calibration      *)
(* accepts.  Its sweeps stay within the range of the ADC; the readout adds  *)
(* less than the range of a sample; the signal is a whole number of counts, *)
(* and drives the ADC to its limits only where it is beyond the sample's.   *)
Counts(k, c, j) == Offset[k][c] + Pattern[k][j]

SoundChip ==
    /\ NCH <= 4 /\ Level \in Nat \ {0} /\ Dead \in Nat \ {0} /\ Zero \in Int /\ Rail \in Nat \ {0}
    /\ Low \in Int /\ High \in Int /\ Low <= High
    /\ \A c \in Captures : c.stuck = {}
    /\ \A k \in 0 .. 8 :
          /\ Signal[k] \in [Cell -> Int] /\ Offset[k] \in [Cell -> Int]
          /\ Gain[k] \in [Cell -> Nat \ {0}] /\ Pattern[k] \in [Cell -> Int]
    /\ \A k \in DataChannel : \A c, j \in Cell :
          /\ Pattern[k][c] - Pattern[k][j] <= High
          /\ 2 * Gain[k][c] >= Level /\ 10 * Gain[k][c] <= 11 * Level
          /\ Dead <= Counts(k, c, j) /\ Counts(k, c, j) + Gain[k][c] <= Rail
          /\ \E q \in Int : /\ Signal[k][c] * Gain[k][c] = Level * q
                            /\ Signal[k][c] < High => q + Counts(k, c, j) < Rail
                            /\ Signal[k][c] > Low => q + Counts(k, c, j) > 0

(* One sample, from the voltage v through the chip and back: q counts for   *)
(* it, gain g, offset o, and a from the readout, m on average.              *)
Converted(v, q, g, o, a, m, adc, w, r) ==
    /\ v \in Int /\ q \in Int /\ g \in Nat \ {0} /\ o \in Int /\ a \in Int /\ m \in Int
    /\ v * g = Level * q /\ 2 * g >= Level /\ o + m >= 0 /\ m - a <= High
    /\ v < High => q + (o + a) < Rail
    /\ v > Low => q + (o + a) > 0
    /\ adc = Clamp(q + o + a, 0, Rail)
    /\ w = Quotient((adc - (o + m)) * Level, g) - (a - m + Zero) + Zero
    /\ r = IF adc >= Rail \/ w > High THEN High ELSE IF adc <= 0 \/ w < Low THEN Low ELSE w

LEMMA SampleBack ==
    ASSUME SoundChip, NEW v, NEW q, NEW g, NEW o, NEW a, NEW m, NEW adc, NEW w, NEW r,
           Converted(v, q, g, o, a, m, adc, w, r)
    PROVE  /\ r \in Int /\ Limited(v) \in Int
           /\ Abs(r - Limited(v)) <= Abs(a - m)
           /\ g = Level => r = Limited(v)
<1> USE DEF Converted
<1>1. /\ Level \in Nat \ {0} /\ Rail \in Nat \ {0} /\ Zero \in Int
      /\ Low \in Int /\ High \in Int /\ Low <= High
  BY DEF SoundChip
<1> DEFINE d == a - m
<1>2. d \in Int /\ Abs(d) \in Nat /\ adc \in 0 .. Rail /\ Limited(v) \in Int
  BY <1>1 DEF Abs, Clamp, Limited
<1> DEFINE x == (adc - (o + m)) * Level
<1>3. x \in Int
  BY <1>1, <1>2
<1>4. CASE q + o + a >= Rail
  <2>1. adc = Rail /\ v >= High
    BY <1>1, <1>4 DEF Clamp
  <2>2. r = High /\ Limited(v) = High
    BY <1>1, <2>1 DEF Limited, Clamp
  <2> QED
    BY <1>1, <1>2, <2>2 DEF Abs
<1>5. CASE q + o + a <= 0 /\ q + o + a < Rail
  <2>1. adc = 0 /\ v <= Low
    BY <1>1, <1>5 DEF Clamp
  <2>2. x <= g * 0
    <3>1. 0 - (o + m) <= 0 /\ 0 - (o + m) \in Int
      OBVIOUS
    <3>2. Level * (0 - (o + m)) <= Level * 0
      BY <1>1, <3>1, Scaled
    <3> QED
      BY <1>1, <2>1, <3>2
  <2>3. Quotient(x, g) \in Int /\ Quotient(x, g) <= 0
    <3>1. g * x <= x
      <4>1. g - 1 \in Nat /\ x <= 0 /\ x \in Int
        BY <1>3, <2>2
      <4>2. (g - 1) * x <= (g - 1) * 0
        BY <4>1, Scaled
      <4>3. (g - 1) * x = g * x - x
        BY <4>1
      <4> QED
        BY <4>1, <4>2, <4>3
    <3> HIDE DEF x
    <3>2. Quotient(x, g) \in x .. 0
      BY <1>3, <2>2, <3>1, QuotientBetween
    <3> QED
      BY <3>2, <1>3
  <2> HIDE DEF x
  <2>4. w = Quotient(x, g) - d
    <3> HIDE DEF x
    <3>1. w = Quotient(x, g) - (a - m + Zero) + Zero
      BY DEF x
    <3> QED
      BY <1>1, <2>3, <3>1
  <2>5. w <= High /\ w \in Int
    BY <1>1, <2>3, <2>4
  <2>6. r = Low /\ Limited(v) = Low
    <3>1. adc <= 0 /\ ~(adc >= Rail) /\ ~(w > High)
      BY <1>1, <1>5, <2>1, <2>5
    <3>2. r = Low
      BY <3>1
    <3> QED
      BY <1>1, <2>1, <3>2 DEF Limited, Clamp
  <2> QED
    BY <1>1, <1>2, <2>6 DEF Abs
<1>6. CASE 0 < q + o + a /\ q + o + a < Rail
  <2>1. adc = q + o + a /\ adc > 0 /\ adc < Rail
    BY <1>1, <1>6 DEF Clamp
  <2>2. x = v * g + Level * d
    <3>1. adc - (o + m) = q + d
      BY <2>1
    <3>2. (q + d) * Level = Level * q + Level * d
      BY <1>1, <1>2
    <3> QED
      BY <3>1, <3>2
  <2> HIDE DEF x
  <2>3. w = Quotient(x, g) - d
    <3>1. Quotient(x, g) \in Int
      BY <1>3, Division DEF Quotient
    <3>2. w = Quotient(x, g) - (a - m + Zero) + Zero
      BY DEF x
    <3> QED
      BY <1>1, <3>1, <3>2
  <2>4. ASSUME g = Level PROVE Quotient(x, g) = v + d
    <3>1. x = g * (v + d)
      BY <1>1, <1>2, <2>2, <2>4
    <3>2. g * (v + d) <= x /\ x <= g * (v + d) /\ v + d \in Int
      BY <1>1, <1>2, <3>1
    <3> HIDE DEF d
    <3>3. Quotient(x, g) \in (v + d) .. (v + d)
      BY <1>3, <3>2, QuotientBetween
    <3> QED
      BY <3>2, <3>3
  <2>5. w \in Int /\ v - Abs(d) <= w /\ w <= v + Abs(d)
    <3>1. g * (v + 2 * d) = v * g + (2 * g) * d /\ g * v = v * g
      BY <1>2
    <3>2. CASE d >= 0
      <4>1. Level * d <= (2 * g) * d /\ 0 <= Level * d
        <5>1. d \in Nat /\ 2 * g \in Int
          BY <1>2, <3>2
        <5>2. d * Level <= d * (2 * g)
          BY <1>1, <5>1, Scaled
        <5> QED
          BY <1>1, <5>1, <5>2
      <4>2. g * v <= x /\ x <= g * (v + 2 * d) /\ v + 2 * d \in Int
        BY <1>1, <1>2, <2>2, <3>1, <4>1
      <4>3. Quotient(x, g) \in v .. (v + 2 * d)
        <5> HIDE DEF d
        <5> QED
          BY <1>3, <4>2, QuotientBetween
      <4>4. Abs(d) = d
        BY <1>2, <3>2 DEF Abs
      <4> QED
        BY <1>2, <2>3, <4>2, <4>3, <4>4
    <3>3. CASE d < 0
      <4>1. Level * d >= (2 * g) * d /\ 0 >= Level * d
        <5>1. -d \in Nat /\ 2 * g \in Int
          BY <1>2, <3>3
        <5>2. (-d) * Level <= (-d) * (2 * g)
          BY <1>1, <5>1, Scaled
        <5> QED
          BY <1>1, <1>2, <5>1, <5>2
      <4>2. g * (v + 2 * d) <= x /\ x <= g * v /\ v + 2 * d \in Int
        BY <1>1, <1>2, <2>2, <3>1, <4>1
      <4>3. Quotient(x, g) \in (v + 2 * d) .. v
        <5> HIDE DEF d
        <5> QED
          BY <1>3, <4>2, QuotientBetween
      <4>4. Abs(d) = -d
        BY <1>2, <3>3 DEF Abs
      <4> QED
        BY <1>2, <2>3, <4>2, <4>3, <4>4
    <3> QED
      BY <1>2, <3>2, <3>3
  <2>6. r = Limited(w) /\ r \in Int
    BY <1>1, <2>1, <2>5 DEF Limited, Clamp
  <2>7. Abs(r - Limited(v)) <= Abs(d)
    BY <1>1, <1>2, <2>5, <2>6 DEF Abs, Limited, Clamp
  <2>8. g = Level => r = Limited(v)
    BY <1>2, <2>3, <2>4, <2>6
  <2> QED
    BY <1>2, <2>6, <2>7, <2>8
<1>7. q + o + a \in Int
  OBVIOUS
<1> QED
  BY <1>1, <1>4, <1>5, <1>6, <1>7

-----------------------------------------------------------------------------
(* The samples of a sweep.                                                  *)
Digit(voltage, k, c, j) ==
    Clamp(Quotient(voltage[k][c] * Gain[k][c], Level) + Offset[k][c] + Pattern[k][j], 0, Rail)

LEMMA Sampled ==
    ASSUME SoundChip, cap \in Captures, NEW voltage, NEW k \in DataChannel,
           NEW stop \in Cell, NEW j \in Cell
    PROVE  /\ k * N + j \in 0 .. 9 * N - 1
           /\ Samples(voltage, stop)[k * N + j] = Digit(voltage, k, (stop + j) % N, j)
<1> DEFINE a == k * N + j
<1>1. N \in Nat \ {0} /\ k \in 0 .. 7 /\ j \in 0 .. N - 1 /\ k \in Int
  BY SizeAssumption DEF DataChannel, Cell
<1>2. a \in 0 .. 9 * N - 1 /\ a \in Int /\ a = N * k + j
  <2>1. N * k \in Int /\ N * k = k * N /\ 0 <= N * k
    BY <1>1
  <2>2. N * k <= N * 7
    BY <1>1, Scaled
  <2> QED
    BY <1>1, <2>1, <2>2
<1>3. a \div N = k /\ a % N = j
  <2> HIDE DEF a
  <2> QED
    BY <1>1, <1>2, Remainder
<1> HIDE DEF a
<1>4. cap.stuck = {}
  BY DEF SoundChip
<1>5. Samples(voltage, stop)[a] = Digit(voltage, k, (stop + j) % N, j)
  BY <1>2, <1>3, <1>4 DEF Samples, Digit
<1> QED
  BY <1>2, <1>5 DEF a

LEMMA Back ==
    ASSUME NEW c \in Cell, NEW tc \in Cell
    PROVE  (c + N - tc) % N \in Cell /\ (tc + ((c + N - tc) % N)) % N = c
<1> DEFINE x == c + N - tc
           r == x % N
           q == x \div N
<1>1. N \in Nat \ {0} /\ c \in 0 .. N - 1 /\ tc \in 0 .. N - 1 /\ x \in Int
  BY SizeAssumption DEF Cell
<1>2. q \in Int /\ r \in 0 .. N - 1 /\ x = N * q + r
  <2> HIDE DEF x
  <2> QED
    BY <1>1, Division
<1>3. r \in Cell
  BY <1>1, InCell
<1> HIDE DEF q, r
<1>4. tc + r = N * (1 - q) + c /\ 1 - q \in Int /\ tc + r \in Int
  BY <1>1, <1>2
<1>5. (tc + r) % N = c
  BY <1>1, <1>4, Remainder
<1> QED
  BY <1>3, <1>5 DEF r

LEMMA ChipTypes ==
    ASSUME SoundChip, NEW k \in DataChannel
    PROVE  /\ Signal[k] \in [Cell -> Int] /\ Offset[k] \in [Cell -> Int]
           /\ Gain[k] \in [Cell -> Nat \ {0}] /\ Pattern[k] \in [Cell -> Int]
           /\ Mean(Pattern[k]) \in Int
           /\ Level \in Nat \ {0} /\ Dead \in Nat \ {0} /\ Rail \in Nat \ {0} /\ Zero \in Int
<1>1. k \in 0 .. 8
  BY DEF DataChannel
<1>2. Pattern[k] \in [Cell -> Int]
  BY <1>1 DEF SoundChip
<1>3. Mean(Pattern[k]) \in Int
  BY <1>2, MeanBetween
<1> QED
  BY <1>1, <1>2, <1>3 DEF SoundChip

(* Offset and pattern of a cell: the average over the sweeps.               *)
LEMMA OffsetRange ==
    ASSUME SoundChip, NEW k \in DataChannel, NEW c \in Cell
    PROVE  Offset[k][c] + Mean(Pattern[k]) \in Int /\ Offset[k][c] + Mean(Pattern[k]) >= Dead
<1>1. PICK j \in Cell : Pattern[k][j] <= Mean(Pattern[k])
  BY ChipTypes, MeanBetween
<1>2. Dead <= Offset[k][c] + Pattern[k][j]
  BY DEF SoundChip, Counts
<1>3. /\ Offset[k][c] \in Int /\ Pattern[k][j] \in Int /\ Mean(Pattern[k]) \in Int /\ Dead \in Int
  BY ChipTypes
<1> QED
  BY <1>1, <1>2, <1>3

(* What the calibration measures at 0 V and at Level, of whose samples q is *)
(* the part that comes from the voltage.                                    *)
LEMMA Measured ==
    ASSUME SoundChip, cap \in Captures, NEW k \in DataChannel, NEW c \in Cell,
           NEW level \in {0, Level}
    PROVE  Mean([tc \in Cell |-> GetRawWave(Samples(Constant(level), tc), k, tc, TRUE)[c]])
             = Offset[k][c] + Mean(Pattern[k]) + IF level = 0 THEN 0 ELSE Gain[k][c]
<1> DEFINE q == IF level = 0 THEN 0 ELSE Gain[k][c]
           f == [tc \in Cell |-> Pattern[k][(c + N - tc) % N]]
           g == [tc \in Cell |-> GetRawWave(Samples(Constant(level), tc), k, tc, TRUE)[c]]
<1>1. /\ Offset[k] \in [Cell -> Int] /\ Gain[k] \in [Cell -> Nat \ {0}]
      /\ Pattern[k] \in [Cell -> Int] /\ Mean(Pattern[k]) \in Int
      /\ Level \in Nat \ {0} /\ Rail \in Nat \ {0} /\ Dead \in Nat \ {0}
  BY ChipTypes
<1>2. Offset[k][c] \in Int /\ Gain[k][c] \in Nat \ {0} /\ q \in Nat /\ q <= Gain[k][c]
  BY <1>1
<1>3. Quotient(level * Gain[k][c], Level) = q
  <2> DEFINE x == level * Gain[k][c]
  <2>1. x = Level * q /\ x \in Int /\ x <= x
    BY <1>1, <1>2
  <2>2. Level * q <= x /\ x <= Level * q
    BY <2>1
  <2> HIDE DEF x
  <2>3. Quotient(x, Level) \in q .. q
    <3>1. q \in Int /\ Level \in Nat \ {0} /\ x \in Int
      BY <1>1, <1>2, <2>1
    <3> HIDE DEF q
    <3> QED
      BY <3>1, <2>2, QuotientBetween, Zenon
  <2>4. Quotient(x, Level) = q
    BY <1>2, <2>3
  <2> QED
    BY <2>4 DEF x
<1>4. ASSUME NEW j \in Cell
      PROVE  Digit(Constant(level), k, c, j) = q + Offset[k][c] + Pattern[k][j]
  <2>1. Constant(level)[k][c] = level
    BY DEF Constant, DataChannel
  <2>2. 0 <= q + Offset[k][c] + Pattern[k][j] /\ q + Offset[k][c] + Pattern[k][j] <= Rail
    <3>1. /\ Dead <= Offset[k][c] + Pattern[k][j]
          /\ Offset[k][c] + Pattern[k][j] + Gain[k][c] <= Rail
      BY DEF SoundChip, Counts
    <3>2. Pattern[k][j] \in Int
      BY <1>1
    <3> HIDE DEF q
    <3> QED
      BY <1>1, <1>2, <3>1, <3>2
  <2>3. Pattern[k][j] \in Int
    BY <1>1
  <2>4. Digit(Constant(level), k, c, j) = Clamp(q + Offset[k][c] + Pattern[k][j], 0, Rail)
    BY <1>3, <2>1 DEF Digit
  <2> HIDE DEF q
  <2> QED
    BY <1>1, <1>2, <2>2, <2>3, <2>4 DEF Clamp
<1>5. ASSUME NEW tc \in Cell
      PROVE  GetRawWave(Samples(Constant(level), tc), k, tc, TRUE)[c]
               = Pattern[k][(c + N - tc) % N] + (q + Offset[k][c])
  <2> DEFINE j == (c + N - tc) % N
             s == Samples(Constant(level), tc)
  <2>1. j \in Cell /\ (tc + j) % N = c
    BY Back
  <2>2. GetRawWave(s, k, tc, TRUE)[c] = s[k * N + j]
    <3> HIDE DEF s
    <3> QED
      BY <2>1 DEF GetRawWave, DecodeWave
  <2> HIDE DEF j
  <2>3. s[k * N + j] = Digit(Constant(level), k, c, j)
    BY <2>1, Sampled
  <2>4. s[k * N + j] = Pattern[k][j] + (q + Offset[k][c])
    <3>1. Pattern[k][j] \in Int
      BY <1>1, <2>1
    <3> HIDE DEF q, s
    <3> QED
      BY <1>2, <1>4, <2>1, <2>3, <3>1
  <2> QED
    BY <2>2, <2>4 DEF j
<1>6. f \in [Cell -> Int] /\ Mean(f) = Mean(Pattern[k])
  BY <1>1, MeanOverStops
<1>7. \A tc \in Cell : g[tc] = f[tc] + (q + Offset[k][c])
  BY <1>5
<1>8. g \in [Cell -> Int] /\ q + Offset[k][c] \in Int
  <2>1. q + Offset[k][c] \in Int
    BY <1>2
  <2>2. \A tc \in Cell : g[tc] \in Int
    <3> HIDE DEF f, g, q
    <3> QED
      BY <1>6, <1>7, <2>1
  <2> HIDE DEF q
  <2> QED
    BY <2>1, <2>2
<1> HIDE DEF f, g
<1>9. Mean(g) = Mean(f) + (q + Offset[k][c])
  <2> HIDE DEF q
  <2> QED
    BY <1>6, <1>7, <1>8, MeanShift
<1>10. Mean(g) = Offset[k][c] + Mean(Pattern[k]) + q
  <2> HIDE DEF q
  <2> QED
    BY <1>1, <1>2, <1>6, <1>9
<1> QED
  BY <1>10 DEF g

OffsetOf(k) == [c \in Cell |-> Offset[k][c] + Mean(Pattern[k])]
Offset2Of(k) == [j \in Cell |-> Pattern[k][j] - Mean(Pattern[k]) + Zero]

(* The calibration finds the offsets and the gains ...                      *)
LEMMA PrimaryIs ==
    ASSUME SoundChip, cap \in Captures, NEW k \in DataChannel
    PROVE  Primary(k).offset = OffsetOf(k) /\ Primary(k).gain = Gain[k]
<1> DEFINE measured(level) ==
             [c \in Cell |->
                Mean([tc \in Cell |-> GetRawWave(Samples(Constant(level), tc), k, tc, TRUE)[c]])]
           offset == [c \in Cell |-> IF measured(0)[c] < Dead THEN 0 ELSE measured(0)[c]]
           gain(c) == measured(Level)[c] - offset[c]
<1>1. Primary(k) = [offset |-> offset,
                    gain |-> [c \in Cell |-> IF \/ offset[c] = 0
                                                \/ 2 * gain(c) < Level \/ 10 * gain(c) > 11 * Level
                                             THEN Level ELSE gain(c)]]
  BY DEF Primary, Averaged
<1>2. /\ Gain[k] \in [Cell -> Nat \ {0}] /\ Level \in Nat \ {0} /\ Dead \in Nat \ {0}
      /\ Gain[k] = [c \in Cell |-> Gain[k][c]]
  BY ChipTypes
<1>3. ASSUME NEW c \in Cell
      PROVE  /\ measured(0)[c] = OffsetOf(k)[c]
             /\ measured(Level)[c] = OffsetOf(k)[c] + Gain[k][c]
  <2>1. \A level : measured(level)[c] =
            Mean([tc \in Cell |-> GetRawWave(Samples(Constant(level), tc), k, tc, TRUE)[c]])
    OBVIOUS
  <2>2. /\ measured(0)[c] = Offset[k][c] + Mean(Pattern[k]) + 0
        /\ measured(Level)[c] = Offset[k][c] + Mean(Pattern[k]) + Gain[k][c]
    <3> HIDE DEF measured
    <3>1. measured(0)[c] = Offset[k][c] + Mean(Pattern[k]) + IF 0 = 0 THEN 0 ELSE Gain[k][c]
      BY <2>1, Measured
    <3>2. measured(Level)[c]
            = Offset[k][c] + Mean(Pattern[k]) + IF Level = 0 THEN 0 ELSE Gain[k][c]
      BY <2>1, Measured
    <3> QED
      BY <1>2, <3>1, <3>2
  <2>3. Offset[k][c] + Mean(Pattern[k]) \in Int
    BY OffsetRange
  <2> HIDE DEF measured
  <2> QED
    BY <2>2, <2>3 DEF OffsetOf
<1> HIDE DEF measured
<1>4. ASSUME NEW c \in Cell
      PROVE  offset[c] = OffsetOf(k)[c] /\ OffsetOf(k)[c] \in Int /\ OffsetOf(k)[c] # 0
  <2>1. OffsetOf(k)[c] \in Int /\ OffsetOf(k)[c] >= Dead
    BY OffsetRange DEF OffsetOf
  <2> QED
    BY <1>2, <1>3, <2>1
<1>5. offset = OffsetOf(k)
  BY <1>4 DEF OffsetOf
<1> HIDE DEF offset
<1>6. ASSUME NEW c \in Cell
      PROVE  /\ gain(c) = Gain[k][c]
             /\ ~(\/ offset[c] = 0 \/ 2 * gain(c) < Level \/ 10 * gain(c) > 11 * Level)
  <2>1. Gain[k][c] \in Nat /\ 2 * Gain[k][c] >= Level /\ 10 * Gain[k][c] <= 11 * Level
    BY <1>2 DEF SoundChip
  <2> QED
    BY <1>2, <1>3, <1>4, <2>1
<1> HIDE DEF gain
<1>7. [c \in Cell |-> IF \/ offset[c] = 0 \/ 2 * gain(c) < Level \/ 10 * gain(c) > 11 * Level
                      THEN Level ELSE gain(c)] = Gain[k]
  BY <1>2, <1>6
<1> QED
  BY <1>1, <1>5, <1>7

(* ... and then what the readout adds.                                      *)
LEMMA SecondaryIs ==
    ASSUME SoundChip, cap \in Captures, NEW k \in DataChannel
    PROVE  Secondary(k, OffsetOf(k)) = Offset2Of(k)
<1> DEFINE m == Mean(Pattern[k])
           d == [j \in Cell |-> Pattern[k][j] - m]
           sweep(tc) == LET r == Residual(k, OffsetOf(k), tc)
                            commonMode == Quotient(Around(r, 0, N), N)
                        IN  [j \in Cell |-> r[j] - commonMode + Zero]
<1>1. /\ Offset[k] \in [Cell -> Int] /\ Pattern[k] \in [Cell -> Int] /\ m \in Int
      /\ Level \in Nat \ {0} /\ Rail \in Nat \ {0} /\ Dead \in Nat \ {0} /\ Zero \in Int
      /\ Gain[k] \in [Cell -> Nat \ {0}] /\ N \in Nat \ {0}
  BY ChipTypes, SizeAssumption
<1>2. Secondary(k, OffsetOf(k)) = [j \in Cell |-> Mean([tc \in Cell |-> sweep(tc)[j]])]
  BY DEF Secondary, Averaged
<1>3. ASSUME NEW tc \in Cell PROVE Residual(k, OffsetOf(k), tc) = d
  <2> DEFINE s == Samples(Constant(0), tc)
  <2>1. Residual(k, OffsetOf(k), tc)
          = [j \in Cell |-> s[k * N + j] - OffsetOf(k)[(j + tc) % N]]
    <3> HIDE DEF s
    <3> QED
      BY DEF Residual, GetRawWave, DecodeWave, s
  <2>2. ASSUME NEW j \in Cell
        PROVE  s[k * N + j] - OffsetOf(k)[(j + tc) % N] = Pattern[k][j] - m
    <3> DEFINE c == (tc + j) % N
    <3>1. tc + j \in Int /\ tc + j = j + tc
      BY <1>1 DEF Cell
    <3>2. c \in Cell /\ c = (j + tc) % N
      BY <3>1, InCell
    <3>3. s[k * N + j] = Digit(Constant(0), k, c, j)
      BY Sampled
    <3> HIDE DEF c, s
    <3>4. Offset[k][c] \in Int /\ Pattern[k][j] \in Int /\ Gain[k][c] \in Nat
      BY <1>1, <3>2
    <3>5. Digit(Constant(0), k, c, j) = Offset[k][c] + Pattern[k][j]
      <4>1. Constant(0)[k][c] = 0
        BY <3>2 DEF Constant, DataChannel
      <4>2. 0 * Gain[k][c] = 0
        BY <3>4
      <4>3. Quotient(0, Level) = 0
        <5>1. Level * 0 <= 0 /\ 0 <= Level * 0
          BY <1>1
        <5>2. 0 \in Int /\ Level \in Nat \ {0}
          BY <1>1
        <5>3. Quotient(0, Level) \in 0 .. 0
          BY <5>1, <5>2, QuotientBetween, Zenon
        <5> QED
          BY <5>3
      <4>4. /\ Dead <= Offset[k][c] + Pattern[k][j]
            /\ Offset[k][c] + Pattern[k][j] + Gain[k][c] <= Rail
        BY <3>2 DEF SoundChip, Counts
      <4>5. Digit(Constant(0), k, c, j) = Clamp(0 + Offset[k][c] + Pattern[k][j], 0, Rail)
        BY <4>1, <4>2, <4>3 DEF Digit
      <4> QED
        BY <1>1, <3>4, <4>4, <4>5 DEF Clamp
    <3>6. OffsetOf(k)[c] = Offset[k][c] + m
      BY <3>2 DEF OffsetOf
    <3> HIDE DEF m
    <3> QED
      BY <1>1, <3>2, <3>3, <3>4, <3>5, <3>6
  <2> HIDE DEF s, m
  <2> QED
    BY <2>1, <2>2
<1>4. d \in [Cell -> Int] /\ \A j \in Cell : d[j] = Pattern[k][j] + (-m)
  BY <1>1
<1>5. Quotient(Around(d, 0, N), N) = 0
  <2> DEFINE s == Around(d, 0, N)
             p == Around(Pattern[k], 0, N)
  <2>1. p \in Int /\ s \in Int /\ s = p + N * (-m) /\ N * (-m) = -(N * m) /\ N * m \in Int
    <3>1. p \in Int /\ s \in Int
      <4> HIDE DEF d
      <4> QED
        BY <1>1, <1>4, AroundInt
    <3>2. -m \in Int
      BY <1>1
    <3>3. s = p + N * (-m)
      <4> DEFINE x == -m
      <4>1. N \in Nat /\ x \in Int /\ d \in [Cell -> Int] /\ Pattern[k] \in [Cell -> Int]
        BY <1>1, <1>4
      <4>2. \A j \in Cell : d[j] = Pattern[k][j] + x
        BY <1>4
      <4> HIDE DEF d, x
      <4>3. Around(d, 0, N) = Around(Pattern[k], 0, N) + N * x
        BY <4>1, <4>2, AroundShift
      <4> QED
        BY <4>3 DEF x
    <3> HIDE DEF m, d
    <3> QED
      BY <1>1, <3>1, <3>3
  <2>2. m = RoundDiv(p, N)
    BY DEF Mean
  <2> HIDE DEF p, s, m
  <2>3. 2 * (N * m) <= 2 * p + N /\ 2 * p < 2 * (N * m) + N
    BY <1>1, <2>1, <2>2, Rounding
  <2>4. -N < s /\ s < N
    BY <1>1, <2>1, <2>3
  <2>5. Quotient(s, N) = 0
    <3>1. CASE s < 0
      <4>1. -s = N * 0 + (-s) /\ -s \in 0 .. N - 1 /\ -s \in Int
        BY <1>1, <2>1, <2>4, <3>1
      <4>2. (-s) \div N = 0
        BY <1>1, <4>1, Remainder
      <4> QED
        BY <3>1, <4>2 DEF Quotient
    <3>2. CASE ~(s < 0)
      <4>1. s = N * 0 + s /\ s \in 0 .. N - 1 /\ s \in Int
        BY <1>1, <2>1, <2>4, <3>2
      <4>2. s \div N = 0
        BY ONLY <1>1, <4>1, 0 \in Int, Remainder
      <4> QED
        BY <3>2, <4>2 DEF Quotient
    <3> QED
      BY <3>1, <3>2
  <2> QED
    BY <2>5 DEF s
<1>6. ASSUME NEW tc \in Cell, NEW j \in Cell PROVE sweep(tc)[j] = Pattern[k][j] - m + Zero
  <2>1. sweep(tc) = [l \in Cell |-> d[l] - 0 + Zero]
    BY <1>3, <1>5
  <2>2. d[j] = Pattern[k][j] - m /\ Pattern[k][j] \in Int
    BY <1>1
  <2> HIDE DEF m, d, sweep
  <2> QED
    BY <1>1, <2>1, <2>2
<1> HIDE DEF sweep, d
<1>7. ASSUME NEW j \in Cell
      PROVE  Mean([tc \in Cell |-> sweep(tc)[j]]) = Pattern[k][j] - m + Zero
  <2> DEFINE x == Pattern[k][j] - m + Zero
  <2>1. x \in Int
    BY <1>1
  <2>2. [tc \in Cell |-> sweep(tc)[j]] = [tc \in Cell |-> x]
    BY <1>6
  <2> HIDE DEF x
  <2>3. Mean([tc \in Cell |-> x]) = x
    BY <2>1, MeanConstant
  <2> QED
    BY <2>2, <2>3 DEF x
<1> QED
  BY <1>2, <1>7 DEF Offset2Of

-----------------------------------------------------------------------------
(* Without a stuck cell nothing is interpolated.                            *)
LEMMA NothingStuck ==
    ASSUME NEW wf, NEW channel, NEW tc \in Cell, \A c \in Cell : volt.offset[channel][c] # 0
    PROVE  WithoutStuck(wf, channel, tc) = wf
<1> DEFINE Fix(w, j) ==
             IF volt.offset[channel][(j - 1 + tc) % N] = 0
             THEN [w EXCEPT ![j - 1] = Quotient(w[(j - 2 + N) % N] + w[j % N], 2)]
             ELSE w
           Fixed(u) == u = [j \in 0 .. N |-> IF j = 0 THEN wf ELSE Fix(u[j - 1], j)]
           c == CHOOSE u : Fixed(u)
<1>1. WithoutStuck(wf, channel, tc) = c[N]
  BY DEF WithoutStuck
<1>2. N \in Nat \ {0}
  BY SizeAssumption
<1>3. ASSUME NEW w, NEW j \in 1 .. N PROVE Fix(w, j) = w
  <2>1. j - 1 + tc \in Int
    BY DEF Cell
  <2>2. (j - 1 + tc) % N \in Cell
    BY <2>1, InCell
  <2> QED
    BY <2>2
<1>4. Fixed([j \in 0 .. N |-> wf])
  <2> DEFINE u == [j \in 0 .. N |-> wf]
  <2>1. ASSUME NEW j \in 0 .. N PROVE wf = IF j = 0 THEN wf ELSE Fix(u[j - 1], j)
    <3> HIDE DEF Fix
    <3>1. CASE j # 0
      <4>1. j \in 1 .. N /\ j - 1 \in 0 .. N
        BY <1>2, <3>1
      <4>2. u[j - 1] = wf
        BY <4>1
      <4> QED
        BY <1>3, <4>1, <4>2
    <3> QED
      BY <3>1
  <2> HIDE DEF Fix
  <2> QED
    BY <2>1
<1>5. Fixed(c)
  BY <1>4, Zenon
<1> HIDE DEF c
<1> DEFINE S == {j \in Nat : j <= N => c[j] = wf}
<1>6. \A j \in 0 .. N : c[j] = IF j = 0 THEN wf ELSE Fix(c[j - 1], j)
  <2> HIDE DEF Fix
  <2> QED
    BY <1>5
<1> HIDE DEF Fixed
<1>7. 0 \in S
  <2>1. 0 \in 0 .. N
    BY <1>2
  <2>2. c[0] = wf
    <3> HIDE DEF Fix
    <3> QED
      BY <1>6, <2>1
  <2> QED
    BY <2>2
<1>8. ASSUME NEW j \in S PROVE j + 1 \in S
  <2> SUFFICES ASSUME j + 1 <= N PROVE c[j + 1] = wf
    OBVIOUS
  <2> HIDE DEF Fix
  <2>1. j + 1 \in 0 .. N /\ j + 1 \in 1 .. N /\ j + 1 # 0 /\ j + 1 - 1 = j /\ c[j] = wf
    BY <1>2
  <2>2. c[j + 1] = Fix(c[j], j + 1)
    BY <1>6, <2>1
  <2> QED
    BY <1>3, <2>1, <2>2
<1>9. N \in S
  <2>1. S \subseteq Nat
    OBVIOUS
  <2> HIDE DEF S
  <2> QED
    BY <1>2, <1>7, <1>8, <2>1, Induct
<1> QED
  BY <1>1, <1>9

-----------------------------------------------------------------------------
(* The bound of an error, which exists because the pattern is bounded.      *)
LEMMA Spread ==
    ASSUME SoundChip, NEW k \in DataChannel, NEW c \in Cell
    PROVE  \E spread \in 0 .. Rail :
              /\ \E i, j \in Cell : spread = Pattern[k][i] - Pattern[k][j]
              /\ \A i, j \in Cell : spread >= Pattern[k][i] - Pattern[k][j]
<1>1. /\ Offset[k] \in [Cell -> Int] /\ Pattern[k] \in [Cell -> Int] /\ Rail \in Nat /\ Dead \in Nat
      /\ Gain[k] \in [Cell -> Nat \ {0}]
  BY ChipTypes
<1> DEFINE o == Offset[k][c]
           p(i) == Pattern[k][i]
<1>2. /\ o \in Int
      /\ \A i \in Cell : p(i) \in Int /\ o + p(i) \in Nat /\ Rail - o - p(i) \in Nat
  <2>1. o \in Int /\ Gain[k][c] \in Nat
    BY <1>1
  <2>2. ASSUME NEW i \in Cell PROVE p(i) \in Int /\ o + p(i) \in Nat /\ Rail - o - p(i) \in Nat
    <3>1. p(i) \in Int /\ Dead <= o + p(i) /\ o + p(i) + Gain[k][c] <= Rail
      BY <1>1 DEF SoundChip, Counts
    <3> HIDE DEF o, p
    <3> QED
      BY <1>1, <2>1, <3>1
  <2> QED
    BY <2>1, <2>2
<1> HIDE DEF o, p
<1>3. PICK low \in Cell : \A i \in Cell : p(low) <= p(i)
  <2> DEFINE T == {o + p(i) : i \in Cell}
  <2>1. T \subseteq Nat /\ T # {}
    BY <1>2
  <2>2. PICK n \in T : \A l \in T : n <= l
    BY <2>1, Least
  <2>3. PICK i \in Cell : n = o + p(i)
    BY <2>2
  <2>4. \A l \in Cell : o + p(i) <= o + p(l)
    BY <2>2, <2>3
  <2> QED
    BY <1>2, <2>4
<1>4. PICK high \in Cell : \A i \in Cell : p(i) <= p(high)
  <2> DEFINE T == {Rail - o - p(i) : i \in Cell}
  <2>1. T \subseteq Nat /\ T # {}
    BY <1>2
  <2>2. PICK n \in T : \A l \in T : n <= l
    BY <2>1, Least
  <2>3. PICK i \in Cell : n = Rail - o - p(i)
    BY <2>2
  <2>4. \A l \in Cell : Rail - o - p(i) <= Rail - o - p(l)
    BY <2>2, <2>3
  <2> QED
    BY <1>1, <1>2, <2>4
<1>5. /\ p(high) - p(low) \in 0 .. Rail
      /\ \A i, j \in Cell : p(high) - p(low) >= p(i) - p(j)
  <2>1. p(high) \in Int /\ p(low) \in Int /\ o + p(low) >= 0 /\ Rail - o - p(high) >= 0
    BY <1>2
  <2>2. p(high) - p(low) \in 0 .. Rail
    BY <1>1, <1>2, <1>3, <2>1
  <2>3. ASSUME NEW i \in Cell, NEW j \in Cell PROVE p(high) - p(low) >= p(i) - p(j)
    BY <1>2, <1>3, <1>4
  <2> QED
    BY <2>2, <2>3
<1> QED
  BY <1>5 DEF p

LEMMA ErrorBound ==
    ASSUME SoundChip, cap \in Captures, NEW k \in DataChannel, NEW c \in Cell, NEW j \in Cell
    PROVE  /\ Gain[k][c] = Level => Error(k, c) = 0
           /\ Gain[k][c] # Level => /\ Error(k, c) \in Nat
                                    /\ Abs(Pattern[k][j] - Mean(Pattern[k])) <= Error(k, c)
<1> DEFINE Bound(spread) == /\ \E i, l \in Cell : spread = Pattern[k][i] - Pattern[k][l]
                            /\ \A i, l \in Cell : spread >= Pattern[k][i] - Pattern[k][l]
           e == CHOOSE spread \in 0 .. Rail : Bound(spread)
<1>1. cap.stuck = {}
  BY DEF SoundChip
<1>2. Error(k, c) = IF Gain[k][c] = Level THEN 0 ELSE e
  BY <1>1 DEF Error
<1>3. e \in 0 .. Rail /\ Bound(e)
  <2>1. \E spread \in 0 .. Rail : Bound(spread)
    BY Spread
  <2> HIDE DEF Bound
  <2> QED
    BY <2>1
<1> HIDE DEF e
<1>4. e \in Nat /\ Pattern[k] \in [Cell -> Int] /\ Mean(Pattern[k]) \in Int
  BY <1>3, ChipTypes
<1>5. PICK i \in Cell : Pattern[k][i] <= Mean(Pattern[k])
  BY <1>4, MeanBetween
<1>6. PICK l \in Cell : Pattern[k][l] >= Mean(Pattern[k])
  BY <1>4, MeanBetween
<1>7. Pattern[k][i] \in Int /\ Pattern[k][j] \in Int /\ Pattern[k][l] \in Int
  BY <1>4
<1>8. e >= Pattern[k][j] - Pattern[k][i] /\ e >= Pattern[k][l] - Pattern[k][j]
  BY <1>3
<1>9. Abs(Pattern[k][j] - Mean(Pattern[k])) <= e
  BY <1>4, <1>5, <1>6, <1>7, <1>8 DEF Abs
<1> QED
  BY <1>2, <1>4, <1>9

-----------------------------------------------------------------------------
(* A calibrated waveform.                                                   *)
Primaries == \A k \in DataChannel : volt.offset[k] = OffsetOf(k) /\ volt.gain[k] = Gain[k]
Secondaries == \A k \in DataChannel : volt.offset2[k] = Offset2Of(k)

Holds(words) == \A a \in 0 .. 9 * N - 1 : words[a] = Samples(Signal, cap.stop)[a]

Fits(v, k, c) == Abs(v - Limited(Signal[k][c])) <= Error(k, c)

LEMMA SingleFits ==
    ASSUME SoundChip, cap \in Captures, cap.volt, Primaries, Secondaries, Holds(buffer),
           NEW k \in DataChannel, NEW j \in Cell
    PROVE  Fits(CalibrateWaveform(k, DecodeWave(buffer, k), cap.stop)[j], k, (cap.stop + j) % N)
<1> DEFINE tc == cap.stop
           adc == DecodeWave(buffer, k)
           c == (tc + j) % N
           wf == [i \in Cell |-> CellValue(k, adc, i, tc)]
           m == Mean(Pattern[k])
           o == Offset[k][c]
           a == Pattern[k][j]
           g == Gain[k][c]
           v == Signal[k][c]
<1>1. tc \in Cell
  BY CaptureAssumption
<1>2. tc + j = j + tc /\ tc + j \in Int
  BY <1>1, SizeAssumption DEF Cell
<1>3. c \in Cell /\ c = (j + tc) % N
  BY <1>2, InCell
<1>4. CalibrateWaveform(k, adc, tc)[j] = CellValue(k, adc, j, tc)
  <2>1. \A i \in Cell : volt.offset[k][i] # 0
    <3> TAKE i \in Cell
    <3>1. volt.offset[k][i] = Offset[k][i] + Mean(Pattern[k])
      BY DEF Primaries, OffsetOf
    <3>2. /\ Offset[k][i] + Mean(Pattern[k]) \in Int /\ Offset[k][i] + Mean(Pattern[k]) >= Dead
          /\ Dead \in Nat \ {0}
      BY OffsetRange, ChipTypes
    <3> QED
      BY <3>1, <3>2
  <2> HIDE DEF wf
  <2>2. WithoutStuck(wf, k, tc) = wf
    BY <1>1, <2>1, NothingStuck
  <2>3. CalibrateWaveform(k, adc, tc) = wf
    BY <2>2 DEF CalibrateWaveform, wf
  <2> QED
    BY <2>3 DEF wf
<1>5. adc[j] = Digit(Signal, k, c, j)
  <2>1. k * N + j \in 0 .. 9 * N - 1 /\ Samples(Signal, tc)[k * N + j] = Digit(Signal, k, c, j)
    BY <1>1, Sampled
  <2>2. adc[j] = buffer[k * N + j]
    BY DEF DecodeWave
  <2> QED
    BY <2>1, <2>2 DEF Holds
<1>6. /\ volt.offset[k][c] = o + m /\ volt.gain[k][c] = g /\ volt.offset2[k][j] = a - m + Zero
  <2>1. volt.offset[k] = OffsetOf(k) /\ volt.gain[k] = Gain[k] /\ volt.offset2[k] = Offset2Of(k)
    BY DEF Primaries, Secondaries
  <2> HIDE DEF c
  <2>2. OffsetOf(k)[c] = o + m /\ Offset2Of(k)[j] = a - m + Zero
    BY <1>3 DEF OffsetOf, Offset2Of
  <2> QED
    BY <2>1, <2>2
<1>7. /\ v \in Int /\ o \in Int /\ a \in Int /\ g \in Nat \ {0} /\ m \in Int
      /\ Level \in Nat \ {0} /\ Rail \in Nat \ {0} /\ Dead \in Nat \ {0} /\ Zero \in Int
  BY <1>3, ChipTypes
<1>8. PICK q \in Int : /\ v * g = Level * q
                       /\ v < High => q + (o + a) < Rail
                       /\ v > Low => q + (o + a) > 0
  BY <1>3 DEF SoundChip, Counts
<1>9. 2 * g >= Level /\ o + m >= 0 /\ m - a <= High
  <2>1. 2 * g >= Level
    BY <1>3 DEF SoundChip
  <2>2. o + m \in Int /\ o + m >= Dead
    BY <1>3, OffsetRange
  <2>3. PICK i \in Cell : Pattern[k][i] >= m
    BY ChipTypes, MeanBetween
  <2>4. Pattern[k][i] - a <= High /\ Pattern[k][i] \in Int /\ High \in Int
    BY ChipTypes DEF SoundChip
  <2> HIDE DEF m, a, o, g
  <2> QED
    BY <1>7, <2>1, <2>2, <2>3, <2>4
<1>10. adc[j] = Clamp(q + o + a, 0, Rail)
  <2> DEFINE x == v * g
  <2>1. x \in Int /\ Level * q <= x /\ x <= Level * q
    <3> HIDE DEF v, g
    <3> QED
      BY <1>7, <1>8
  <2> HIDE DEF x
  <2>2. Quotient(x, Level) \in q .. q
    BY <1>7, <2>1, QuotientBetween
  <2>3. Quotient(v * g, Level) = q
    BY <2>2 DEF x
  <2> QED
    BY <1>5, <2>3 DEF Digit
<1> DEFINE w == Quotient((adc[j] - (o + m)) * Level, g) - (a - m + Zero) + Zero
           r == CellValue(k, adc, j, tc)
<1>11. r = IF adc[j] >= Rail \/ w > High THEN High ELSE IF adc[j] <= 0 \/ w < Low THEN Low ELSE w
  <2> HIDE DEF adc, c, o, m, a, g
  <2> QED
    BY <1>3, <1>6 DEF CellValue
<1>12. /\ r \in Int /\ Limited(v) \in Int
       /\ Abs(r - Limited(v)) <= Abs(a - m)
       /\ g = Level => r = Limited(v)
  <2> DEFINE d == adc[j]
             z == w
  <2>1. d = Clamp(q + o + a, 0, Rail)
    BY <1>10
  <2>2. z = Quotient((d - (o + m)) * Level, g) - (a - m + Zero) + Zero
    OBVIOUS
  <2>3. r = IF d >= Rail \/ z > High THEN High ELSE IF d <= 0 \/ z < Low THEN Low ELSE z
    BY <1>11
  <2> HIDE DEF d, z, r, w, v, g, o, a, m
  <2>4. v \in Int /\ g \in Nat \ {0} /\ o \in Int /\ a \in Int /\ m \in Int
    BY <1>7
  <2>5. v * g = Level * q /\ 2 * g >= Level /\ o + m >= 0 /\ m - a <= High
    BY <1>8, <1>9
  <2>6. (v < High => q + (o + a) < Rail) /\ (v > Low => q + (o + a) > 0)
    BY <1>8
  <2>7. SoundChip /\ q \in Int
    OBVIOUS
  <2>8. Converted(v, q, g, o, a, m, d, z, r)
    BY ONLY <2>1, <2>2, <2>3, <2>4, <2>5, <2>6, <2>7, Zenon DEF Converted
  <2> QED
    BY <2>7, <2>8, SampleBack, Zenon
<1>13. Abs(r - Limited(v)) <= Error(k, c)
  <2>1. CASE g = Level
    <3>1. Error(k, c) = 0 /\ r = Limited(v)
      BY <1>3, <1>12, <2>1, ErrorBound
    <3>2. Abs(r - Limited(v)) = 0
      <4> HIDE DEF r, v
      <4> QED
        BY <1>12, <3>1 DEF Abs
    <3> QED
      BY <3>1, <3>2
  <2>2. CASE g # Level
    <3>1. Error(k, c) \in Nat /\ Abs(a - m) <= Error(k, c)
      BY <1>3, <2>2, ErrorBound
    <3>2. Abs(r - Limited(v)) \in Int /\ Abs(a - m) \in Int
      <4> HIDE DEF r, v, a, m
      <4> QED
        BY <1>7, <1>12 DEF Abs
    <3> HIDE DEF r, v, a, m
    <3> QED
      BY <1>12, <3>1, <3>2
  <2> QED
    BY <2>1, <2>2
<1> QED
  BY <1>4, <1>13 DEF Fits

-----------------------------------------------------------------------------
(* The waveforms of an event.                                               *)
LEMMA ChannelsRead ==
    ASSUME SoundChip, NEW ch \in Channel
    PROVE  2 * ch \in DataChannel /\ ch \in Int
  BY SizeAssumption DEF SoundChip, Channel, DataChannel

LEMMA CellOfShifted ==
    ASSUME NEW x \in Int, NEW y \in Int
    PROVE  (x + (y % N)) % N = (x + y) % N
<1>1. N \in Nat \ {0}
  BY SizeAssumption
<1> DEFINE p == y % N
           q == y \div N
<1>2. q \in Int /\ p \in 0 .. N - 1 /\ y = N * q + p
  BY <1>1, Division
<1> HIDE DEF p, q
<1> DEFINE z == x + p
           s == z % N
           t == z \div N
<1>3. z \in Int
  BY <1>1, <1>2
<1>4. t \in Int /\ s \in 0 .. N - 1 /\ z = N * t + s
  <2> HIDE DEF z
  <2> QED
    BY <1>1, <1>3, Division
<1> HIDE DEF s, t
<1>5. x + y = N * (t + q) + s /\ t + q \in Int /\ x + y \in Int
  <2>1. N * (t + q) = N * t + N * q /\ N * t \in Int /\ N * q \in Int
    BY <1>1, <1>2, <1>4
  <2> QED
    BY <1>1, <1>2, <1>4, <2>1
<1>6. (x + y) % N = s
  BY <1>1, <1>4, <1>5, Remainder
<1> QED
  BY <1>6 DEF s, z, p

(* What each step knows of the samples.                                     *)
SampleInv ==
    /\ cap.volt /\ pc # "volt" => Primaries
    /\ cap.volt /\ pc \notin {"volt", "second"} => Secondaries
    /\ pc = "transfer" /\ cap.mode = "stop" => Holds(ram)
    /\ pc = "waves" /\ cap.mode = "stop" => Holds(buffer)
    /\ pc = "order" /\ cap.volt /\ cap.mode = "stop" =>
         \A ch \in Channel : \A j \in Cell : Fits(wave[ch][j], 2 * ch, (cap.stop + j) % N)
    /\ SampleOfCell

LEMMA WavesFit ==
    ASSUME SoundChip, EInv, SampleInv, Waves, cap.volt, cap.mode = "stop",
           NEW ch \in Channel, NEW j \in Cell
    PROVE  Fits(wave'[ch][j], 2 * ch, (cap.stop + j) % N)
<1>1. /\ cap \in Captures /\ pc = "waves" /\ cap' = cap /\ volt' = volt /\ stopCell = cap.stop
      /\ wave' = [k \in Channel |-> GetWave(2 * k, stopCell)]
  BY DEF Waves, EInv, WInv, RoundingInv, ChipInv, Transferred
<1>2. Primaries /\ Secondaries /\ Holds(buffer)
  BY <1>1 DEF SampleInv
<1>3. wave'[ch] = CalibrateWaveform(2 * ch, DecodeWave(buffer, 2 * ch), cap.stop)
  BY <1>1 DEF GetWave
<1> QED
  BY <1>1, <1>2, <1>3, ChannelsRead, SingleFits

LEMMA OrderFits ==
    ASSUME SoundChip, EInv, SampleInv, Order
    PROVE  SampleOfCell'
<1> SUFFICES ASSUME cap.volt, cap.mode = "stop", NEW ch \in Channel, NEW s \in 2 .. N - 1
             PROVE  LET c == (cap.stop + 1 + s) % N
                    IN  c \in Cell /\ Fits(wave'[ch][s], 2 * ch, c)
  <2>1. cap' = cap
    BY DEF Order
  <2>2. (\A k, c : Error(k, c)' = Error(k, c)) /\ cap.stuck = {}
    <3>1. cap \in Captures
      BY DEF EInv, WInv, RoundingInv
    <3> QED
      BY <2>1, <3>1 DEF Error, SoundChip
  <2> QED
    BY <2>1, <2>2 DEF SampleOfCell, SamplesFit, Fits, Alone
<1>1. /\ N \in Nat \ {0} /\ s \in 0 .. N - 1 /\ s \in Cell /\ s # 0 /\ s # 1
      /\ cap.stop \in Int
  <2>1. cap \in Captures
    BY DEF EInv, WInv, RoundingInv
  <2> QED
    BY <2>1, CaptureAssumption, SizeAssumption DEF Cell
<1> DEFINE j == (s + 1) % N
<1>2. s + 1 \in Int /\ cap.stop + (s + 1) = cap.stop + 1 + s
  BY <1>1
<1>3. j \in Cell /\ (cap.stop + j) % N = (cap.stop + 1 + s) % N
  <2>1. (cap.stop + ((s + 1) % N)) % N = (cap.stop + (s + 1)) % N
    BY <1>1, <1>2, CellOfShifted
  <2> QED
    BY <1>2, <2>1, InCell
<1>4. (cap.stop + 1 + s) % N \in Cell
  <2>1. cap.stop + 1 + s \in Int
    BY <1>1
  <2> QED
    BY <2>1, InCell
<1>5. wave'[ch][s] = wave[ch][j]
  <2>1. wave'[ch] = ChronologicalWave(wave[ch])
    BY DEF Order
  <2> HIDE DEF j
  <2>2. ChronologicalWave(wave[ch])[s] = wave[ch][(s + 1) % N]
    BY <1>1 DEF ChronologicalWave
  <2> QED
    BY <2>1, <2>2 DEF j
<1> HIDE DEF j
<1>6. Fits(wave[ch][j], 2 * ch, (cap.stop + j) % N)
  BY <1>3 DEF SampleInv, Order
<1> QED
  BY <1>3, <1>4, <1>5, <1>6

LEMMA SampleStep ==
    ASSUME SoundChip
    PROVE  EInv /\ SampleInv /\ [Next]_vars => SampleInv'
<1> SUFFICES ASSUME EInv, SampleInv, [Next]_vars PROVE SampleInv'
  OBVIOUS
<1>1. cap \in Captures /\ cap.stop \in Cell /\ N \in Nat \ {0}
  BY CaptureAssumption, SizeAssumption DEF EInv, WInv, RoundingInv
<1>2. CASE MeasurePrimary
  <2>1. /\ pc' = "second" /\ cap' = cap
        /\ volt' = [offset |-> [k \in DataChannel |-> [l \in DataChannel |-> Primary(l)][k].offset],
                    gain |-> [k \in DataChannel |-> [l \in DataChannel |-> Primary(l)][k].gain],
                    offset2 |-> [k \in DataChannel |-> [j \in Cell |-> Zero]]]
    BY <1>2 DEF MeasurePrimary
  <2>2. ASSUME NEW k \in DataChannel
        PROVE  volt'.offset[k] = OffsetOf(k) /\ volt'.gain[k] = Gain[k]
    <3>1. volt'.offset[k] = Primary(k).offset /\ volt'.gain[k] = Primary(k).gain
      BY <2>1
    <3> QED
      BY <1>1, <3>1, PrimaryIs
  <2>3. Primaries'
    BY <2>2 DEF Primaries
  <2> QED
    BY <2>1, <2>3 DEF SampleInv, SampleOfCell, Ordered
<1>3. CASE MeasureSecondary
  <2>1. /\ pc = "second" /\ pc' \in {"load", "store"} /\ cap' = cap
        /\ volt' = [volt EXCEPT !.offset2 = [k \in DataChannel |-> Secondary(k, volt.offset[k])]]
    BY <1>3 DEF MeasureSecondary
  <2>2. cap.volt => Primaries
    BY <2>1 DEF SampleInv
  <2>3. \A k \in DataChannel : cap.volt => /\ volt'.offset[k] = OffsetOf(k) /\ volt'.gain[k] = Gain[k]
                                           /\ volt'.offset2[k] = Offset2Of(k)
    <3> SUFFICES ASSUME NEW k \in DataChannel, cap.volt
                 PROVE  /\ volt'.offset[k] = OffsetOf(k) /\ volt'.gain[k] = Gain[k]
                        /\ volt'.offset2[k] = Offset2Of(k)
      OBVIOUS
    <3>1. volt.offset[k] = OffsetOf(k) /\ volt.gain[k] = Gain[k]
      BY <2>2 DEF Primaries
    <3>2. Secondary(k, OffsetOf(k)) = Offset2Of(k)
      BY <1>1, SecondaryIs
    <3>3. volt'.offset2[k] = Secondary(k, volt.offset[k])
      BY <2>1
    <3>4. volt'.offset = volt.offset /\ volt'.gain = volt.gain
      BY <2>1
    <3> QED
      BY <3>1, <3>2, <3>3, <3>4
  <2>4. cap'.volt => Primaries' /\ Secondaries'
    BY <2>1, <2>3 DEF Primaries, Secondaries
  <2> QED
    BY <2>1, <2>4 DEF SampleInv, SampleOfCell, Ordered
<1>4. CASE StoreCell \/ StoreRow \/ StoreOneRow \/ LoadTiming \/ SetTriggerDelayNs
  <2>1. /\ pc \in {"store", "row", "load", "configure"}
        /\ pc' \in {"store", "row", "load", "configure", "sweep"}
        /\ cap' = cap /\ volt' = volt
    BY <1>4 DEF StoreCell, StoreRow, StoreOneRow, LoadTiming, SetTriggerDelayNs
  <2> QED
    BY <2>1 DEF SampleInv, SampleOfCell, Ordered, Primaries, Secondaries
<1>5. CASE Sweep
  <2>1. /\ pc = "sweep" /\ pc' = "transfer" /\ cap' = cap /\ volt' = volt
        /\ ram' = [a \in 0 .. 9 * N + 1 |->
                     IF a < 9 * N
                     THEN Samples(Signal, IF cap.mode = "stop" THEN cap.stop ELSE 0)[a]
                     ELSE IF ~Trailer THEN Rail ELSE IF a = 9 * N THEN cap.stop ELSE cap.wsr]
    BY <1>5 DEF Sweep
  <2>2. cap.mode = "stop" => Holds(ram)'
    <3> SUFFICES ASSUME cap.mode = "stop", NEW a \in 0 .. 9 * N - 1
                 PROVE  ram'[a] = Samples(Signal, cap.stop)[a]
      <4>1. \A x : Samples(Signal, x)' = Samples(Signal, x)
        BY <2>1 DEF Samples
      <4> QED
        BY <2>1, <4>1 DEF Holds
    <3>1. a \in 0 .. 9 * N + 1 /\ a < 9 * N
      BY <1>1
    <3> QED
      BY <2>1, <3>1
  <2> QED
    BY <2>1, <2>2 DEF SampleInv, SampleOfCell, Ordered, Primaries, Secondaries
<1>6. CASE TransferWaves
  <2>1. /\ pc = "transfer" /\ pc' = "waves" /\ cap' = cap /\ volt' = volt
        /\ buffer' = [a \in 0 .. Requested - 1 |-> ram[a]]
    BY <1>6 DEF TransferWaves
  <2>2. cap.mode = "stop" => Holds(buffer)'
    <3> SUFFICES ASSUME cap.mode = "stop", NEW a \in 0 .. 9 * N - 1
                 PROVE  buffer'[a] = Samples(Signal, cap.stop)[a]
      <4>1. \A x : Samples(Signal, x)' = Samples(Signal, x)
        BY <2>1 DEF Samples
      <4> QED
        BY <2>1, <4>1 DEF Holds
    <3>1. a \in 0 .. Requested - 1
      BY <1>1 DEF Requested
    <3>2. ram[a] = Samples(Signal, cap.stop)[a]
      BY <2>1 DEF SampleInv, Holds
    <3> QED
      BY <2>1, <3>1, <3>2
  <2> QED
    BY <2>1, <2>2 DEF SampleInv, SampleOfCell, Ordered, Primaries, Secondaries
<1>7. CASE Waves
  <2>1. /\ pc = "waves" /\ pc' = "order"
        /\ cap' = cap /\ volt' = volt
    BY <1>7 DEF Waves
  <2>2. Primaries' = Primaries /\ Secondaries' = Secondaries
    BY <2>1 DEF Primaries, Secondaries
  <2>3. SampleOfCell'
    BY <2>1 DEF SampleOfCell, Ordered
  <2>4. \A k, c : Error(k, c)' = Error(k, c)
    BY <2>1 DEF Error
  <2>5. cap.volt /\ cap.mode = "stop" =>
          \A ch \in Channel : \A j \in Cell : Fits(wave'[ch][j], 2 * ch, (cap.stop + j) % N)
    BY <1>7, WavesFit
  <2>6. (pc = "order" /\ cap.volt /\ cap.mode = "stop" =>
           \A ch \in Channel : \A j \in Cell : Fits(wave[ch][j], 2 * ch, (cap.stop + j) % N))'
    BY <2>1, <2>4, <2>5 DEF Fits
  <2> QED
    BY <2>1, <2>2, <2>3, <2>6 DEF SampleInv
<1>8. CASE Order
  <2>1. /\ pc = "order" /\ pc' = "mark" /\ cap' = cap /\ volt' = volt
    BY <1>8 DEF Order
  <2>2. SampleOfCell'
    BY <1>8, OrderFits
  <2> QED
    BY <2>1, <2>2 DEF SampleInv, Primaries, Secondaries
<1>9. CASE Mark \/ Commit \/ Decode
  <2>1. /\ pc \in {"mark", "event", "decode"} /\ pc' \in {"event", "decode", "done"}
        /\ cap' = cap /\ volt' = volt /\ wave' = wave
    BY <1>9 DEF Mark, Commit, Decode, EInv, EventInv
  <2>2. Ordered
    BY <2>1 DEF Ordered
  <2>3. SampleOfCell'
    BY <2>1, <2>2 DEF SampleInv, SampleOfCell, SamplesFit, Error, Alone
  <2> QED
    BY <2>1, <2>3 DEF SampleInv, Primaries, Secondaries
<1>10. CASE UNCHANGED vars
  <2>1. UNCHANGED <<cap, pc, volt, ram, buffer, wave>>
    BY <1>10 DEF vars, chipVars, transferVars, eventVars
  <2>2. \A x : Samples(Signal, x)' = Samples(Signal, x)
    BY <2>1 DEF Samples
  <2>3. Holds(ram)' = Holds(ram) /\ Holds(buffer)' = Holds(buffer)
    BY <2>1, <2>2 DEF Holds
  <2>4. SampleOfCell' = SampleOfCell
    BY <2>1 DEF SampleOfCell, SamplesFit, Ordered, Error, Alone
  <2> QED
    BY <2>1, <2>3, <2>4 DEF SampleInv, Primaries, Secondaries, Fits, Error
<1> QED
  BY <1>2, <1>3, <1>4, <1>5, <1>6, <1>7, <1>8, <1>9, <1>10, Zenon DEF Next

LEMMA SampleInvAlways == ASSUME SoundChip PROVE Spec => []SampleInv
<1>1. Init => SampleInv
  <2> SUFFICES ASSUME Init PROVE SampleInv
    OBVIOUS
  <2>1. cap \in Captures /\ (cap.volt => pc = "volt") /\ pc \in {"volt", "load", "store"}
    BY DEF Init
  <2> QED
    BY <2>1 DEF SampleInv, SampleOfCell, Ordered
<1>2. EInv /\ SampleInv /\ [Next]_vars => SampleInv'
  BY SampleStep
<1> QED
  BY <1>1, <1>2, EInvAlways, PTL DEF Spec

(* For every chip that SoundChip admits, any signal, stop cell and firmware *)
(* and any number of cells: a sample of an event that was read from the     *)
(* stop cell on is the voltage of the cell it came from, to the error of    *)
(* the gain.  Calibration, TransferWaves(), GetWave() and the front end's   *)
(* reordering agree on where a cell is.                                     *)
THEOREM SampleIsOfCell == ASSUME SoundChip PROVE Spec => []SampleOfCell
<1>1. SampleInv => SampleOfCell
  BY DEF SampleInv
<1> QED
  BY <1>1, SampleInvAlways, PTL
=============================================================================
