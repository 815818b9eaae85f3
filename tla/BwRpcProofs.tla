---------------------------- MODULE BwRpcProofs -----------------------------
(***************************************************************************)
(* Proofs about the Meter and about the bandwidth benchmark over gRPC and  *)
(* brpc, whose handlers share one.  The meter is not synchronised, so what *)
(* is proved of it is proved of one thread in it at a time: because there  *)
(* is one thread, or because one client waits for each of its answers.     *)
(***************************************************************************)
EXTENDS BwRpc, FiniteSetTheorems, WellFoundedInduction, TLAPS

(* No thread but t is in the meter.                                        *)
Alone(t) == \A u \in Threads : u # t => thread[u].pc = "idle"

(* What the call of thread t has still to add to the i-th word.            *)
Owed(t, i) ==
  IF thread[t].pc \in {"load", "store"} /\ thread[t].at <= i THEN thread[t].add ELSE 0

(* What the i-th word holds and no report has printed.                     *)
Held(t, i) == IF thread[t].pc = "clear" THEN 0 ELSE word[Words[i]]

SumIndices == 1..(Len(Words) - 1)

(* The meter with thread t in the middle of a call.                        *)
Middle(t) ==
  /\ Alone(t)
  /\ \A i \in SumIndices : printed[Words[i]] + Held(t, i) + Owed(t, i) = added[Words[i]]
  /\ thread[t].pc = "store" => thread[t].reg = word[Words[thread[t].at]]
  /\ covered = IF thread[t].pc \in {"clear", "stamp"} THEN thread[t].now ELSE tp

(* The meter with no thread in it.                                         *)
Settled ==
  /\ \A i \in SumIndices : printed[Words[i]] + word[Words[i]] = added[Words[i]]
  /\ covered = tp

SoloInv ==
  /\ Quiet => Settled
  /\ \A t \in Threads : thread[t].pc # "idle" => Middle(t)

ThreadType ==
  [pc : {"idle", "load", "store", "clock", "report", "clear", "stamp"},
   at : 1..Len(Words), reg : Nat, add : Amounts \cup {0}, now : 0..MaxTime]

(* MeterTypeOK without the width of cnt and sample, and with what it has   *)
(* no need to say: the words are not negative.                             *)
MeterTypes ==
  /\ word \in [{"bytes", "qps", "cnt"} -> Nat]
  /\ tp \in 0..MaxTime /\ clock \in 0..MaxTime
  /\ thread \in [Threads -> ThreadType]
  /\ calls \in 0..MaxCalls /\ since \in Nat
  /\ added \in [Sums -> Nat] /\ printed \in [Sums -> Nat] /\ covered \in Int

-----------------------------------------------------------------------------
(* Powers of two, and what RoundUpPower2 and the mask do with them.        *)

(* A set of natural numbers that is not empty has a least element.         *)
LEMMA LeastElement ==
  ASSUME NEW S \in SUBSET Nat, S # {}
  PROVE  \E x \in S : \A y \in S : x <= y
<1> DEFINE R == OpToRel(<, Nat)
<1>1. IsWellFoundedOn(R, Nat)
  BY NatLessThanWellFounded
<1>2. \A x, y \in Nat : y < x <=> <<y, x>> \in R
  BY DEF OpToRel
<1> HIDE DEF R
<1>3. PICK x \in S : \A y \in S : ~(<<y, x>> \in R)
  BY <1>1, WFMin
<1>4. \A y \in S : ~(y < x)
  BY <1>2, <1>3
<1> QED BY <1>4

(* Induction: a set that holds 0 and every successor holds every number.   *)
LEMMA Induct ==
  ASSUME NEW T, 0 \in T, \A n \in Nat : n \in T => n + 1 \in T
  PROVE  \A n \in Nat : n \in T
<1> SUFFICES ASSUME NEW n0 \in Nat, n0 \notin T PROVE FALSE
  OBVIOUS
<1> DEFINE Bad == {n \in Nat : n \notin T}
<1>1. Bad \in SUBSET Nat /\ Bad # {} /\ \A n \in Nat : n \in Bad <=> n \notin T
  OBVIOUS
<1> HIDE DEF Bad
<1>2. PICK m \in Bad : \A k \in Bad : m <= k
  BY <1>1, LeastElement
<1>3. m \in Nat /\ m # 0 /\ m \notin T
  BY <1>1, <1>2
<1>4. m - 1 \in Nat /\ m - 1 \notin Bad /\ (m - 1) + 1 = m
  BY <1>2, <1>3
<1> QED BY <1>1, <1>3, <1>4

(* Quotient and remainder.                                                 *)
LEMMA Division ==
  ASSUME NEW x \in Nat, NEW b \in Nat \ {0}
  PROVE  /\ x \div b \in Nat /\ x % b \in Nat /\ x % b < b
         /\ x = b * (x \div b) + (x % b)
OBVIOUS
LEMMA DivisionIs ==
  ASSUME NEW b \in Nat \ {0}, NEW q \in Nat, NEW r \in Nat, r < b
  PROVE  (b * q + r) % b = r /\ (b * q + r) \div b = q
OBVIOUS
LEMMA NextMultiple ==
  ASSUME NEW b \in Nat \ {0}, NEW p \in Nat, NEW q \in Nat, b * p < b * q
  PROVE  b * p + b <= b * q
<1>1. p < q
  BY Z3
<1> QED BY <1>1, Z3

LEMMA WidthFacts == IntBits \in Nat /\ IntBits >= 1 /\ SampleArgs \subseteq 0..(Pow2[IntBits - 1] - 1)
BY MeterAssumption

(* The recursion of Pow2 has a solution.                                   *)
LEMMA PowExists ==
  \E g : g = [n \in 0..IntBits |-> IF n = 0 THEN 1 ELSE 2 * g[n - 1]]
<1> DEFINE Step(g, n) == IF n = 0 THEN 1 ELSE 2 * g[n - 1]
           Upto(g, m) == \A n \in 0..IntBits : n <= m => g[n] = Step(g, n)
           T == {m \in Nat : \E g : Upto(g, m)}
<1>1. 0 \in T
  <2> DEFINE z == [n \in 0..IntBits |-> 1]
  <2>1. Upto(z, 0)
    OBVIOUS
  <2> HIDE DEF z, Upto
  <2> QED BY <2>1
<1>2. ASSUME NEW m \in Nat, m \in T PROVE m + 1 \in T
  <2>1. PICK g : Upto(g, m)
    BY <1>2
  <2> DEFINE h == [n \in 0..IntBits |-> IF n <= m THEN g[n] ELSE Step(g, n)]
  <2>2. ASSUME NEW n \in 0..IntBits, n <= m + 1 PROVE h[n] = Step(h, n)
    <3>1. h[n] = Step(g, n)
      BY <2>1
    <3>2. CASE n = 0
      BY <3>1, <3>2
    <3>3. CASE n # 0
      <4>1. n - 1 \in 0..IntBits /\ n - 1 <= m
        BY <2>2, <3>3, WidthFacts
      <4>2. h[n - 1] = g[n - 1]
        BY <4>1
      <4> QED BY <3>1, <3>3, <4>2
    <3> QED BY <3>2, <3>3
  <2>3. Upto(h, m + 1)
    BY <2>2
  <2> HIDE DEF h, Upto
  <2> QED BY <2>3
<1>3. IntBits \in T
  <2> HIDE DEF T
  <2> QED BY <1>1, <1>2, Induct, WidthFacts
<1>4. PICK g : Upto(g, IntBits)
  BY <1>3
<1>5. \A n \in 0..IntBits : g[n] = Step(g, n)
  BY <1>4
<1> DEFINE h == [n \in 0..IntBits |-> Step(g, n)]
<1>6. \A n \in 0..IntBits : h[n] = g[n]
  BY <1>5
<1>7. \A n \in 0..IntBits : Step(g, n) = Step(h, n)
  <2>1. \A n \in 0..IntBits : n # 0 => n - 1 \in 0..IntBits
    BY WidthFacts
  <2> QED BY <1>6, <2>1
<1>8. h = [n \in 0..IntBits |-> Step(h, n)]
  <2>1. h = [n \in 0..IntBits |-> Step(g, n)]
    OBVIOUS
  <2> HIDE DEF h, Step
  <2> QED BY <1>7, <2>1
<1> HIDE DEF h
<1> QED BY <1>8

LEMMA PowUnfolds ==
  \A n \in 0..IntBits : Pow2[n] = IF n = 0 THEN 1 ELSE 2 * Pow2[n - 1]
<1>1. PICK g : g = [n \in 0..IntBits |-> IF n = 0 THEN 1 ELSE 2 * g[n - 1]]
  BY PowExists
<1>2. Pow2 = [n \in 0..IntBits |-> IF n = 0 THEN 1 ELSE 2 * Pow2[n - 1]]
  BY <1>1 DEF Pow2
<1> QED BY <1>2, Zenon

(* What is used of powers of two.                                          *)
LEMMA PowFacts ==
  /\ Pow2[0] = 1
  /\ \A n \in 0..IntBits : Pow2[n] \in Nat /\ Pow2[n] > 0
  /\ \A n \in 0..(IntBits - 1) : Pow2[n + 1] = 2 * Pow2[n]
<1>1. Pow2[0] = 1
  BY PowUnfolds, WidthFacts
<1>2. ASSUME NEW n \in 0..(IntBits - 1) PROVE Pow2[n + 1] = 2 * Pow2[n]
  <2>1. n + 1 \in 0..IntBits /\ n + 1 # 0 /\ (n + 1) - 1 = n
    BY WidthFacts
  <2> QED BY <2>1, PowUnfolds
<1> DEFINE T == {n \in Nat : n <= IntBits => Pow2[n] \in Nat /\ Pow2[n] > 0}
<1>3. 0 \in T
  BY <1>1
<1>4. ASSUME NEW n \in Nat, n \in T PROVE n + 1 \in T
  <2>1. n + 1 <= IntBits => n \in 0..(IntBits - 1)
    BY WidthFacts
  <2> QED BY <1>2, <1>4, <2>1, WidthFacts
<1> HIDE DEF T
<1>5. \A n \in Nat : n \in T
  BY <1>3, <1>4, Induct
<1>6. \A n \in 0..IntBits : Pow2[n] \in Nat /\ Pow2[n] > 0
  BY <1>5, WidthFacts DEF T
<1> QED BY <1>1, <1>2, <1>6

(* A power of two divides the higher ones.                                 *)
LEMMA PowDivides ==
  ASSUME NEW i \in 0..IntBits, NEW m \in 0..IntBits, i <= m
  PROVE  \E k \in Nat : k > 0 /\ Pow2[m] = Pow2[i] * k
<1> DEFINE T == {d \in Nat : i + d <= IntBits => \E k \in Nat : k > 0 /\ Pow2[i + d] = Pow2[i] * k}
<1>1. 0 \in T
  <2>1. i + 0 = i /\ Pow2[i] = Pow2[i] * 1 /\ 1 \in Nat
    BY PowFacts, WidthFacts
  <2> QED BY <2>1
<1>2. ASSUME NEW d \in Nat, d \in T PROVE d + 1 \in T
  <2> SUFFICES ASSUME i + (d + 1) <= IntBits
               PROVE  \E k \in Nat : k > 0 /\ Pow2[i + (d + 1)] = Pow2[i] * k
    OBVIOUS
  <2>1. i + d \in 0..(IntBits - 1) /\ i + (d + 1) = (i + d) + 1
    BY WidthFacts
  <2>2. PICK k \in Nat : k > 0 /\ Pow2[i + d] = Pow2[i] * k
    BY <1>2, <2>1, WidthFacts
  <2>3. Pow2[i + (d + 1)] = 2 * (Pow2[i] * k)
    BY <2>1, <2>2, PowFacts
  <2>4. 2 * (Pow2[i] * k) = Pow2[i] * (2 * k)
    BY PowFacts, Z3
  <2> QED BY <2>2, <2>3, <2>4
<1> HIDE DEF T
<1>3. \A d \in Nat : d \in T
  BY <1>1, <1>2, Induct
<1>4. m - i \in Nat /\ i + (m - i) = m /\ m <= IntBits
  BY WidthFacts
<1> QED BY <1>3, <1>4 DEF T

LEMMA PowGrows ==
  ASSUME NEW i \in 0..IntBits, NEW m \in 0..IntBits
  PROVE  /\ i <= m => Pow2[i] <= Pow2[m]
         /\ i < m => 2 * Pow2[i] <= Pow2[m] /\ \E k \in Nat : Pow2[m] = (2 * Pow2[i]) * k
<1>1. ASSUME NEW b \in Nat, NEW p \in Nat, NEW k \in Nat, k > 0, p = b * k PROVE b <= p
  BY <1>1, Z3
<1>2. Pow2[i] \in Nat /\ Pow2[m] \in Nat
  BY PowFacts
<1>3. ASSUME i <= m PROVE Pow2[i] <= Pow2[m]
  BY <1>1, <1>2, <1>3, PowDivides
<1>4. ASSUME i < m PROVE 2 * Pow2[i] <= Pow2[m] /\ \E k \in Nat : Pow2[m] = (2 * Pow2[i]) * k
  <2>1. i \in 0..(IntBits - 1) /\ i + 1 \in 0..IntBits /\ i + 1 <= m
    BY <1>4, WidthFacts
  <2>2. PICK k \in Nat : k > 0 /\ Pow2[m] = Pow2[i + 1] * k
    BY <2>1, PowDivides
  <2>3. Pow2[i + 1] = 2 * Pow2[i] /\ Pow2[i + 1] \in Nat
    BY <2>1, PowFacts
  <2> QED BY <1>1, <1>2, <2>2, <2>3
<1> QED BY <1>3, <1>4

LEMMA RoundedFacts ==
  /\ IntBits - 1 \in 0..IntBits /\ Pow2[IntBits - 1] \in Nat \ {0}
  /\ Rounded \subseteq Nat \ {0}
<1>1. IntBits - 1 \in 0..IntBits
  BY WidthFacts
<1> QED BY <1>1, PowFacts DEF Rounded

(* Lowbit is the highest power of two that divides x.                      *)
LEMMA LowbitFacts ==
  ASSUME NEW x \in Rounded
  PROVE  \E i \in 0..IntBits : Lowbit(x) = Pow2[i] /\ x % Pow2[i] = 0 /\ x % (2 * Pow2[i]) # 0
<1> DEFINE Odd == {i \in 0..IntBits : x % (2 * Pow2[i]) # 0}
<1>1. x \in Nat /\ x > 0 /\ x <= Pow2[IntBits - 1]
  BY RoundedFacts DEF Rounded
<1>2. IntBits \in Odd
  <2>1. Pow2[IntBits] \in Nat /\ Pow2[IntBits - 1] <= Pow2[IntBits] /\ IntBits \in 0..IntBits
    BY RoundedFacts, PowGrows, PowFacts, WidthFacts
  <2>2. \A b \in Nat : b > x => x % b = x
    BY <1>1
  <2>3. 2 * Pow2[IntBits] \in Nat /\ 2 * Pow2[IntBits] > x
    BY <1>1, <2>1, RoundedFacts
  <2>4. x % (2 * Pow2[IntBits]) = x
    BY <2>2, <2>3
  <2> QED BY <1>1, <2>1, <2>4
<1>3. PICK i \in Odd : \A j \in Odd : i <= j
  <2>1. Odd \in SUBSET Nat /\ Odd # {}
    BY <1>2, WidthFacts
  <2> HIDE DEF Odd
  <2> QED BY <2>1, LeastElement
<1>4. i \in 0..IntBits /\ x % (2 * Pow2[i]) # 0
  BY <1>3
<1>5. x % Pow2[i] = 0
  <2>1. CASE i = 0
    <3>1. x % 1 = 0
      BY <1>1
    <3> QED BY <2>1, <3>1, PowFacts
  <2>2. CASE i # 0
    <3>1. i - 1 \in 0..(IntBits - 1) /\ i - 1 \in 0..IntBits /\ (i - 1) + 1 = i /\ ~(i <= i - 1)
      BY <1>4, <2>2, WidthFacts
    <3>2. i - 1 \notin Odd
      <4> HIDE DEF Odd
      <4> QED BY <1>3, <3>1
    <3>3. x % (2 * Pow2[i - 1]) = 0
      BY <3>1, <3>2
    <3>4. Pow2[i] = 2 * Pow2[i - 1]
      BY <3>1, PowFacts
    <3> QED BY <3>3, <3>4
  <2> QED BY <2>1, <2>2
<1> HIDE DEF Odd
<1> DEFINE Powers == {Pow2[j] : j \in 0..IntBits}
<1>6. \E b \in Powers : x % b = 0 /\ x % (2 * b) # 0
  BY <1>4, <1>5
<1>7. Lowbit(x) \in Powers /\ x % Lowbit(x) = 0 /\ x % (2 * Lowbit(x)) # 0
  BY <1>6 DEF Lowbit
<1> QED BY <1>7

(* One turn of the loop passes no power of two.                            *)
LEMMA NoPowerPassed ==
  ASSUME NEW x \in Rounded, x # Lowbit(x), NEW m \in 0..IntBits, x <= Pow2[m]
  PROVE  Lowbit(x) \in Nat /\ Lowbit(x) > 0 /\ x + Lowbit(x) <= Pow2[m]
<1>1. PICK i \in 0..IntBits : Lowbit(x) = Pow2[i] /\ x % Pow2[i] = 0 /\ x % (2 * Pow2[i]) # 0
  BY LowbitFacts
<1> DEFINE b == Pow2[i]
           p == Pow2[m]
<1>2. x \in Nat /\ x > 0 /\ b \in Nat \ {0} /\ p \in Nat
  BY RoundedFacts, PowFacts
<1>3. x % b = 0 /\ x % (2 * b) # 0 /\ x # b /\ x <= p
  BY <1>1
<1>4. p > b
  <2> HIDE DEF b, p
  <2>1. x < b => x % b = x
    BY <1>2
  <2> QED BY <1>2, <1>3, <2>1
<1>5. i < m
  <2>1. i <= m \/ m <= i
    BY WidthFacts
  <2>2. m <= i => p <= b
    BY PowGrows
  <2>3. i # m
    <3>1. i = m => p = b
      OBVIOUS
    <3> HIDE DEF b, p
    <3> QED BY <1>2, <1>4, <3>1
  <2> HIDE DEF b, p
  <2> QED BY <1>2, <1>4, <2>1, <2>2, <2>3, WidthFacts
<1>6. PICK k \in Nat : p = (2 * b) * k
  BY <1>5, PowGrows
<1> HIDE DEF b, p
<1>7. p # x
  <2>1. 2 * b \in Nat \ {0} /\ 0 \in Nat /\ 0 < 2 * b
    BY <1>2
  <2>2. ((2 * b) * k + 0) % (2 * b) = 0
    BY <2>1, DivisionIs
  <2>3. (2 * b) * k + 0 = p
    BY <1>2, <1>6
  <2>4. p % (2 * b) = 0
    BY <2>2, <2>3
  <2> QED BY <1>3, <2>4
<1>8. PICK q \in Nat : x = b * q
  <2>1. x \div b \in Nat /\ x = b * (x \div b) + (x % b)
    BY <1>2, Division
  <2>2. b * (x \div b) \in Nat
    BY <1>2, <2>1
  <2> QED BY <1>3, <2>1, <2>2
<1>9. b * q < b * (2 * k) /\ p = b * (2 * k)
  <2>1. b * (2 * k) = (2 * b) * k
    BY <1>2
  <2> QED BY <1>2, <1>3, <1>6, <1>7, <1>8, <2>1
<1>10. b * q + b <= b * (2 * k)
  <2>1. 2 * k \in Nat
    OBVIOUS
  <2> QED BY <1>2, <1>9, <2>1, NextMultiple
<1> QED BY <1>1, <1>2, <1>8, <1>9, <1>10 DEF b, p

LEMMA LoopStays ==
  ASSUME NEW x \in Rounded, x # Lowbit(x)
  PROVE  x + Lowbit(x) \in Rounded /\ x + Lowbit(x) > x
<1>1. IntBits - 1 \in 0..IntBits /\ x <= Pow2[IntBits - 1] /\ x \in Nat /\ x > 0
  BY RoundedFacts DEF Rounded
<1>2. Lowbit(x) \in Nat /\ Lowbit(x) > 0 /\ x + Lowbit(x) <= Pow2[IntBits - 1]
  BY <1>1, NoPowerPassed
<1> QED BY <1>1, <1>2, RoundedFacts DEF Rounded

(* Induction down from the highest number that is rounded.                 *)
LEMMA InductDown ==
  ASSUME NEW T, \A x \in Rounded : (\A y \in Rounded : y > x => y \in T) => x \in T
  PROVE  \A x \in Rounded : x \in T
<1> SUFFICES ASSUME NEW x0 \in Rounded, x0 \notin T PROVE FALSE
  OBVIOUS
<1> DEFINE H == Pow2[IntBits - 1]
           Bad == {n \in Nat : \E x \in Rounded : x \notin T /\ n = H - x}
<1>1. H \in Nat /\ \A x \in Rounded : H - x \in Nat
  BY RoundedFacts DEF Rounded
<1>2. Bad \in SUBSET Nat /\ Bad # {}
  BY <1>1
<1>3. PICK n \in Bad : \A k \in Bad : n <= k
  <2> HIDE DEF Bad
  <2> QED BY <1>2, LeastElement
<1>4. PICK x \in Rounded : x \notin T /\ n = H - x
  BY <1>3
<1>5. ASSUME NEW y \in Rounded, y > x, y \notin T PROVE FALSE
  <2>1. H - y \in Bad
    BY <1>1, <1>5
  <2>2. x \in Nat /\ y \in Nat /\ ~(H - x <= H - y)
    BY <1>1, <1>5, RoundedFacts
  <2> HIDE DEF Bad, H
  <2> QED BY <1>3, <1>4, <2>1, <2>2
<1> QED BY <1>4, <1>5

(* The recursion of RoundUpPower2 has a solution.                          *)
LEMMA RoundExists ==
  \E g : g = [x \in Rounded |-> IF x = Lowbit(x) THEN x ELSE g[x + Lowbit(x)]]
<1> DEFINE H == Pow2[IntBits - 1]
           Step(g, x) == IF x = Lowbit(x) THEN x ELSE g[x + Lowbit(x)]
           Upto(g, m) == \A x \in Rounded : H - x <= m => g[x] = Step(g, x)
           T == {m \in Nat : \E g : Upto(g, m)}
<1>1. H \in Nat /\ \A x \in Rounded : x \in Nat /\ x > 0 /\ x <= H
  BY RoundedFacts DEF Rounded
<1> HIDE DEF H
<1>2. 0 \in T
  <2> DEFINE z == [x \in Rounded |-> x]
  <2>1. ASSUME NEW x \in Rounded, H - x <= 0 PROVE z[x] = Step(z, x)
    <3>1. x = Lowbit(x)
      <4>1. x = H
        BY <1>1, <2>1
      <4>2. x # Lowbit(x) => x + Lowbit(x) \in Rounded /\ x + Lowbit(x) > x
        BY LoopStays
      <4>3. \A y \in Rounded : ~(y > x)
        BY <1>1, <4>1
      <4> QED BY <4>2, <4>3
    <3> QED BY <3>1
  <2>2. Upto(z, 0)
    BY <2>1
  <2> HIDE DEF z, Upto
  <2> QED BY <2>2
<1>3. ASSUME NEW m \in Nat, m \in T PROVE m + 1 \in T
  <2>1. PICK g : Upto(g, m)
    BY <1>3
  <2> DEFINE h == [x \in Rounded |-> IF H - x <= m THEN g[x] ELSE Step(g, x)]
  <2>2. ASSUME NEW x \in Rounded, H - x <= m + 1 PROVE h[x] = Step(h, x)
    <3>1. h[x] = Step(g, x)
      BY <2>1
    <3>2. CASE x = Lowbit(x)
      BY <3>1, <3>2
    <3>3. CASE x # Lowbit(x)
      <4>1. x + Lowbit(x) \in Rounded /\ x + Lowbit(x) > x
        BY <3>3, LoopStays
      <4>2. H - (x + Lowbit(x)) <= m
        <5>1. \A y \in Rounded : y > x => H - y <= m
          BY <1>1, <2>2
        <5> QED BY <4>1, <5>1
      <4>3. h[x + Lowbit(x)] = g[x + Lowbit(x)]
        BY <4>1, <4>2
      <4> QED BY <3>1, <3>3, <4>3
    <3> QED BY <3>2, <3>3
  <2>3. Upto(h, m + 1)
    BY <2>2
  <2> HIDE DEF h, Upto
  <2> QED BY <2>3
<1>4. H \in T
  <2> HIDE DEF T
  <2> QED BY <1>1, <1>2, <1>3, Induct
<1>5. PICK g : Upto(g, H)
  BY <1>4
<1>6. \A x \in Rounded : g[x] = Step(g, x)
  <2>1. \A x \in Rounded : H - x <= H
    BY <1>1
  <2> QED BY <1>5, <2>1
<1> DEFINE h == [x \in Rounded |-> Step(g, x)]
<1>7. \A x \in Rounded : h[x] = g[x]
  BY <1>6
<1>8. \A x \in Rounded : Step(g, x) = Step(h, x)
  <2>1. \A x \in Rounded : x # Lowbit(x) => x + Lowbit(x) \in Rounded
    BY LoopStays
  <2> QED BY <1>7, <2>1
<1>9. h = [x \in Rounded |-> Step(h, x)]
  <2>1. h = [x \in Rounded |-> Step(g, x)]
    OBVIOUS
  <2> HIDE DEF h, Step
  <2> QED BY <1>8, <2>1
<1> HIDE DEF h
<1> QED BY <1>9

LEMMA RoundUnfolds ==
  \A x \in Rounded :
    RoundUpPower2[x] = IF x = Lowbit(x) THEN x ELSE RoundUpPower2[x + Lowbit(x)]
<1>1. PICK g : g = [x \in Rounded |-> IF x = Lowbit(x) THEN x ELSE g[x + Lowbit(x)]]
  BY RoundExists
<1>2. RoundUpPower2 = [x \in Rounded |->
        IF x = Lowbit(x) THEN x ELSE RoundUpPower2[x + Lowbit(x)]]
  BY <1>1 DEF RoundUpPower2, Rounded
<1> QED BY <1>2, Zenon

(* RoundUpPower2 rounds up to the least power of two.                      *)
IsRoundUp(x, p) ==
  /\ \E n \in 0..IntBits : p = Pow2[n]
  /\ x <= p
  /\ \A m \in 0..IntBits : x <= Pow2[m] => p <= Pow2[m]

LEMMA RoundFacts == \A x \in Rounded : IsRoundUp(x, RoundUpPower2[x])
<1> DEFINE T == {x \in Rounded : IsRoundUp(x, RoundUpPower2[x])}
<1>1. ASSUME NEW x \in Rounded, \A y \in Rounded : y > x => y \in T PROVE x \in T
  <2>1. x \in Nat
    BY RoundedFacts
  <2>2. CASE x = Lowbit(x)
    <3>1. RoundUpPower2[x] = x
      BY <2>2, RoundUnfolds
    <3>2. \E n \in 0..IntBits : x = Pow2[n]
      BY <2>2, LowbitFacts
    <3> QED BY <2>1, <3>1, <3>2 DEF IsRoundUp
  <2>3. CASE x # Lowbit(x)
    <3> DEFINE y == x + Lowbit(x)
    <3>1. y \in Rounded /\ y > x
      BY <2>3, LoopStays
    <3>2. \A m \in 0..IntBits : x <= Pow2[m] => y <= Pow2[m]
      BY <2>3, NoPowerPassed
    <3>3. RoundUpPower2[x] = RoundUpPower2[y]
      BY <2>3, RoundUnfolds
    <3> HIDE DEF y
    <3>4. IsRoundUp(y, RoundUpPower2[y])
      BY <1>1, <3>1
    <3>5. y \in Nat /\ RoundUpPower2[y] \in Nat
      BY <3>1, <3>4, RoundedFacts, PowFacts DEF IsRoundUp
    <3>6. x <= RoundUpPower2[x]
      BY <2>1, <3>1, <3>3, <3>4, <3>5 DEF IsRoundUp
    <3> QED BY <3>2, <3>3, <3>4, <3>6 DEF IsRoundUp
  <2> QED BY <2>2, <2>3
<1> HIDE DEF T
<1>2. \A x \in Rounded : x \in T
  BY <1>1, InductDown
<1> QED BY <1>2 DEF T

(* What the constructor makes of an argument: 2^n - 1, and the least that  *)
(* is not below it.                                                        *)
LEMMA SampleFacts ==
  ASSUME NEW s \in SampleArgs, NEW a, a = SampleOf(s)
  PROVE  /\ a \in Ints
         /\ \E n \in 0..IntBits : a = Pow2[n] - 1
         /\ s <= a /\ a <= 2 * s
<1>1. a = RoundUpPower2[s + 1] - 1
  BY DEF SampleOf
<1>2. s \in Nat /\ s + 1 \in Rounded
  BY WidthFacts, RoundedFacts DEF Rounded
<1>3. IsRoundUp(s + 1, RoundUpPower2[s + 1])
  BY <1>2, RoundFacts
<1>4. PICK n \in 0..IntBits : RoundUpPower2[s + 1] = Pow2[n]
  BY <1>3 DEF IsRoundUp
<1>5. Pow2[n] \in Nat /\ Pow2[n] > 0 /\ Pow2[IntBits] \in Nat /\ Pow2[n] <= Pow2[IntBits]
  BY PowFacts, PowGrows, WidthFacts
<1>6. a = Pow2[n] - 1 /\ s + 1 <= Pow2[n]
  BY <1>1, <1>3, <1>4 DEF IsRoundUp
<1>7. a <= 2 * s
  <2>1. CASE n = 0
    BY <1>2, <1>6, <2>1, PowFacts
  <2>2. CASE n # 0
    <3>1. n - 1 \in 0..(IntBits - 1) /\ n - 1 \in 0..IntBits /\ (n - 1) + 1 = n
      BY <2>2, WidthFacts
    <3>2. Pow2[n] = 2 * Pow2[n - 1] /\ Pow2[n - 1] \in Nat /\ Pow2[n - 1] > 0
      BY <3>1, PowFacts
    <3>3. s + 1 <= Pow2[n - 1] => Pow2[n] <= Pow2[n - 1]
      BY <1>3, <1>4, <3>1 DEF IsRoundUp
    <3> QED BY <1>2, <1>6, <3>2, <3>3
  <2> QED BY <2>1, <2>2
<1>8. s <= a /\ a \in Ints
  BY <1>2, <1>5, <1>6 DEF Ints
<1> QED BY <1>6, <1>7, <1>8

(* All the low bits of x are set when its remainder is the highest.        *)
LEMMA LowBits ==
  ASSUME NEW x \in Nat, NEW n \in 0..IntBits
  PROVE  (\A i \in 0..(n - 1) : Bit(x, i)) <=> x % Pow2[n] = Pow2[n] - 1
<1> DEFINE All(m) == \A i \in 0..(m - 1) : Bit(x, i)
           T == {m \in Nat : m <= IntBits => (All(m) <=> x % Pow2[m] = Pow2[m] - 1)}
<1>1. 0 \in T
  <2>1. x % 1 = 0
    OBVIOUS
  <2> QED BY <2>1, PowFacts
<1>2. ASSUME NEW m \in Nat, m \in T PROVE m + 1 \in T
  <2> SUFFICES ASSUME m + 1 <= IntBits
               PROVE  All(m + 1) <=> x % Pow2[m + 1] = Pow2[m + 1] - 1
    OBVIOUS
  <2>1. m \in 0..(IntBits - 1) /\ m \in 0..IntBits
    BY WidthFacts
  <2> DEFINE b == Pow2[m]
             q == x \div b
             r == x % b
             h == q \div 2
             e == q % 2
  <2>2. b \in Nat \ {0} /\ Pow2[m + 1] = 2 * b
    BY <2>1, PowFacts
  <2>3. All(m) <=> r = b - 1
    BY <1>2, <2>1, WidthFacts
  <2>4. All(m + 1) <=> All(m) /\ e = 1
    <3>1. \A i \in 0..((m + 1) - 1) : i = m \/ i \in 0..(m - 1)
      OBVIOUS
    <3>2. m \in 0..((m + 1) - 1) /\ \A i \in 0..(m - 1) : i \in 0..((m + 1) - 1)
      OBVIOUS
    <3>3. Bit(x, m) <=> e = 1
      BY DEF Bit
    <3> QED BY <3>1, <3>2, <3>3
  <2> HIDE DEF b, All
  <2>5. q \in Nat /\ r \in Nat /\ r < b /\ x = b * q + r
    BY <2>2, Division
  <2> HIDE DEF q, r
  <2>6. h \in Nat /\ e \in {0, 1} /\ q = 2 * h + e
    BY <2>5
  <2> HIDE DEF h, e
  <2>7. x = (2 * b) * h + (b * e + r)
    BY <2>2, <2>5, <2>6
  <2>8. b * e + r \in Nat /\ b * e + r < 2 * b /\ 2 * b \in Nat \ {0}
    BY <2>2, <2>5, <2>6
  <2>9. x % (2 * b) = b * e + r
    BY <2>6, <2>7, <2>8, DivisionIs
  <2>10. b * e + r = 2 * b - 1 <=> e = 1 /\ r = b - 1
    BY <2>2, <2>5, <2>6
  <2> QED BY <2>2, <2>3, <2>4, <2>9, <2>10
<1> HIDE DEF T
<1>3. \A m \in Nat : m \in T
  BY <1>1, <1>2, Induct
<1>4. n \in Nat /\ n <= IntBits
  BY WidthFacts
<1> QED BY <1>3, <1>4 DEF T

(* (cnt & sample) == sample, for a sample of 2^n - 1: cnt is one short of  *)
(* a multiple of 2^n.                                                      *)
LEMMA SampledIs ==
  ASSUME NEW n \in 0..IntBits, sample = Pow2[n] - 1, NEW x \in Nat
  PROVE  Sampled(x) <=> x % Pow2[n] = Pow2[n] - 1
<1>1. Pow2[n] \in Nat /\ Pow2[n] > 0 /\ sample \in Nat
  BY PowFacts
<1>2. sample % Pow2[n] = Pow2[n] - 1
  BY <1>1
<1>3. \A i \in 0..(n - 1) : Bit(sample, i)
  BY <1>1, <1>2, LowBits
<1>4. ASSUME NEW i \in 0..(IntBits - 1), i \notin 0..(n - 1) PROVE ~Bit(sample, i)
  <2>1. i \in 0..IntBits /\ n <= i
    BY <1>4, WidthFacts
  <2>2. Pow2[i] \in Nat /\ sample < Pow2[i]
    BY <1>1, <2>1, PowFacts, PowGrows
  <2>3. sample \div Pow2[i] = 0
    BY <1>1, <2>2
  <2> QED BY <2>3 DEF Bit
<1>5. \A i \in 0..(n - 1) : i \in 0..(IntBits - 1)
  BY WidthFacts
<1>6. Sampled(x) <=> \A i \in 0..(n - 1) : Bit(x, i)
  BY <1>3, <1>4, <1>5 DEF Sampled
<1> QED BY <1>6, LowBits

(* ++cnt, across its wrap, seen modulo a power of two.                     *)
LEMMA WrapsEvenly ==
  ASSUME NEW n \in 0..IntBits, NEW x \in Nat
  PROVE  NextCnt(x) \in Nat /\ NextCnt(x) % Pow2[n] = (x + 1) % Pow2[n]
<1> DEFINE M == Pow2[n]
           W == Pow2[IntBits]
           y == x + 1
<1>1. M \in Nat \ {0} /\ W \in Nat \ {0} /\ y \in Nat
  BY PowFacts, WidthFacts
<1>2. PICK k \in Nat : W = M * k
  BY PowDivides, WidthFacts
<1> HIDE DEF M, W, y
<1> DEFINE r == y % W
           q == y \div W
           p == r \div M
           s == r % M
<1>3. q \in Nat /\ r \in Nat /\ y = W * q + r
  BY <1>1, Division
<1> HIDE DEF q, r
<1>4. p \in Nat /\ s \in Nat /\ s < M /\ r = M * p + s
  BY <1>1, <1>3, Division
<1> HIDE DEF p, s
<1>5. y = M * (k * q + p) + s /\ k * q + p \in Nat
  BY <1>1, <1>2, <1>3, <1>4
<1>6. y % M = s
  BY <1>1, <1>4, <1>5, DivisionIs
<1>7. NextCnt(x) = r
  BY DEF NextCnt, r, y, W
<1> QED BY <1>3, <1>6, <1>7 DEF s, y, M

-----------------------------------------------------------------------------
LEMMA MeterConstants ==
  /\ Amounts \subseteq Nat
  /\ Interval \in Nat /\ MaxCalls \in Nat /\ MaxTime \in Nat
BY MeterAssumption

LEMMA WordsFacts ==
  /\ Len(Words) \in {2, 3}
  /\ \A i \in 1..Len(Words) : Words[i] = "cnt" <=> i = Len(Words)
  /\ \A i \in 1..Len(Words) : Words[i] \in {"bytes", "qps", "cnt"}
  /\ \A i, j \in 1..Len(Words) : Words[i] = Words[j] => i = j
  /\ Words[1] = "bytes"
<1>1. CASE Qps
  BY <1>1 DEF Words
<1>2. CASE ~Qps
  BY <1>2 DEF Words
<1> QED BY <1>1, <1>2

LEMMA SumsFacts ==
  /\ SumIndices \subseteq 1..Len(Words) /\ Len(Words) \notin SumIndices
  /\ \A i \in SumIndices : Words[i] \in Sums
  /\ \A w \in Sums : \E i \in SumIndices : w = Words[i]
  /\ \A i \in 1..Len(Words) : i # Len(Words) => i \in SumIndices /\ i + 1 \in 1..Len(Words)
<1>1. CASE Qps
  BY <1>1 DEF Words, Sums, SumIndices
<1>2. CASE ~Qps
  BY <1>2 DEF Words, Sums, SumIndices
<1> QED BY <1>1, <1>2

LEMMA IdleType == Idle \in ThreadType /\ Idle.pc = "idle"
<1>1. 1 \in 1..Len(Words)
  BY WordsFacts
<1> QED BY <1>1, MeterConstants DEF Idle, ThreadType

(* A thread that is idle in the middle has left the meter settled.         *)
LEMMA MiddleIsSolo ==
  ASSUME NEW t \in Threads, MeterTypes, Middle(t)
  PROVE  SoloInv
<1>1. \A u \in Threads : thread[u].pc # "idle" => u = t
  BY DEF Middle, Alone
<1>2. ASSUME Quiet PROVE Settled
  <2>1. thread[t].pc = "idle"
    BY <1>2 DEF Quiet
  <2>2. \A i \in SumIndices : Owed(t, i) = 0 /\ Held(t, i) = word[Words[i]]
    BY <2>1 DEF Owed, Held
  <2>3. \A i \in SumIndices : printed[Words[i]] \in Nat /\ word[Words[i]] \in Nat
    BY SumsFacts, WordsFacts DEF MeterTypes
  <2> QED BY <2>1, <2>2, <2>3 DEF Middle, Settled
<1> QED BY <1>1, <1>2 DEF SoloInv

LEMMA MiddleIsSoloNext ==
  (\A t \in Threads : MeterTypes /\ Middle(t) => SoloInv)'
<1>1. \A t \in Threads : MeterTypes /\ Middle(t) => SoloInv
  BY MiddleIsSolo
<1> QED BY <1>1, PTL

LEMMA SoloIsMiddle ==
  ASSUME NEW t \in Threads, MeterTypes, SoloInv, thread[t].pc # "idle" \/ Quiet
  PROVE  Middle(t)
<1>1. CASE thread[t].pc # "idle"
  BY <1>1 DEF SoloInv
<1>2. CASE Quiet
  <2>1. thread[t].pc = "idle" /\ Alone(t) /\ Settled
    BY <1>2 DEF Quiet, Alone, SoloInv
  <2>2. \A i \in SumIndices : Owed(t, i) = 0 /\ Held(t, i) = word[Words[i]]
    BY <2>1 DEF Owed, Held
  <2>3. \A i \in SumIndices : printed[Words[i]] \in Nat /\ word[Words[i]] \in Nat
    BY SumsFacts, WordsFacts DEF MeterTypes
  <2> QED BY <2>1, <2>2, <2>3 DEF Middle, Settled
<1> QED BY <1>1, <1>2

(* A step of thread t leaves the other threads where they are.             *)
LEMMA OthersStay ==
  ASSUME NEW t \in Threads, NEW r, thread \in [Threads -> ThreadType], r \in ThreadType,
         thread' = [thread EXCEPT ![t] = r]
  PROVE  /\ thread' \in [Threads -> ThreadType] /\ thread'[t] = r
         /\ Alone(t) => Alone(t)'
BY DEF Alone

(* AddBytes or AddQps is called.                                           *)
LEMMA AddKeeps ==
  ASSUME MeterTypes, NEW t \in Threads, NEW a \in Amounts, Add(t, a)
  PROVE  /\ MeterTypes'
         /\ Middle(t) => Middle(t)'
<1>1. /\ UNCHANGED <<word, tp, sample, wanted, disable, clock, printed, covered, since>>
      /\ calls' \in 0..MaxCalls /\ thread[t].pc = "idle"
  BY MeterConstants DEF Add, MeterTypes
<1>2. CASE disable
  <2>1. UNCHANGED <<thread, added>>
    BY <1>2 DEF Add
  <2> QED BY <1>1, <2>1 DEF MeterTypes, Middle, Alone, Held, Owed
<1>3. CASE ~disable
  <2> DEFINE r == [Idle EXCEPT !.pc = "load", !.add = a]
  <2>1. /\ thread' = [thread EXCEPT ![t] = r]
        /\ added' = [w \in Sums |-> added[w] + a]
    BY <1>3 DEF Add
  <2>2. r \in ThreadType /\ r.pc = "load" /\ r.add = a /\ r.at = 1
    BY IdleType DEF Idle, ThreadType
  <2> HIDE DEF r
  <2>3. /\ thread' \in [Threads -> ThreadType] /\ thread'[t] = r
        /\ Alone(t) => Alone(t)'
    BY <2>1, <2>2, OthersStay DEF MeterTypes
  <2>4. a \in Nat
    BY MeterConstants
  <2>5. MeterTypes'
    BY <1>1, <2>1, <2>3, <2>4 DEF MeterTypes
  <2>6. ASSUME Middle(t), NEW i \in SumIndices
        PROVE  printed'[Words[i]] + Held(t, i)' + Owed(t, i)' = added'[Words[i]]
    <3>1. printed[Words[i]] \in Nat /\ word[Words[i]] \in Nat
      BY SumsFacts, WordsFacts DEF MeterTypes
    <3>2. printed[Words[i]] + Held(t, i) + Owed(t, i) = added[Words[i]]
      BY <2>6 DEF Middle
    <3>3. Held(t, i) = word[Words[i]] /\ Owed(t, i) = 0
      BY <1>1 DEF Held, Owed
    <3>4. Held(t, i)' = word[Words[i]] /\ Owed(t, i)' = a
      BY <1>1, <2>2, <2>3 DEF Held, Owed, SumIndices
    <3>5. added'[Words[i]] = added[Words[i]] + a
      BY <2>1, SumsFacts
    <3> QED BY <1>1, <2>4, <3>1, <3>2, <3>3, <3>4, <3>5
  <2>7. ASSUME Middle(t) PROVE Middle(t)'
    BY <1>1, <2>2, <2>3, <2>6, <2>7 DEF Middle
  <2> QED BY <2>5, <2>7
<1> QED BY <1>2, <1>3

LEMMA LoadKeeps ==
  ASSUME MeterTypes, NEW t \in Threads, Load(t)
  PROVE  MeterTypes' /\ (Middle(t) => Middle(t)')
<1> DEFINE r == [thread[t] EXCEPT !.pc = "store", !.reg = word[Words[thread[t].at]]]
<1>1. /\ UNCHANGED <<word, tp, sample, wanted, disable, clock, calls, added, printed, covered, since>>
      /\ thread[t].pc = "load" /\ thread[t] \in ThreadType
      /\ thread' = [thread EXCEPT ![t] = r]
  BY DEF Load, history, MeterTypes
<1>2. word[Words[thread[t].at]] \in Nat
  BY <1>1, WordsFacts DEF MeterTypes, ThreadType
<1>3. /\ r \in ThreadType /\ r.pc = "store" /\ r.add = thread[t].add /\ r.at = thread[t].at
      /\ r.reg = word[Words[thread[t].at]]
  BY <1>1, <1>2 DEF ThreadType
<1> HIDE DEF r
<1>4. /\ thread' \in [Threads -> ThreadType] /\ thread'[t] = r
      /\ Alone(t) => Alone(t)'
  BY <1>1, <1>3, OthersStay DEF MeterTypes
<1>5. MeterTypes'
  BY <1>1, <1>4 DEF MeterTypes
<1>6. \A i \in SumIndices : Held(t, i)' = Held(t, i) /\ Owed(t, i)' = Owed(t, i)
  BY <1>1, <1>3, <1>4 DEF Held, Owed
<1>7. ASSUME Middle(t) PROVE Middle(t)'
  BY <1>1, <1>3, <1>4, <1>6, <1>7 DEF Middle
<1> QED BY <1>5, <1>7

LEMMA CountWraps == \A x \in Nat : NextCnt(x) \in Nat /\ NextCnt(x) \in Ints
<1> DEFINE W == Pow2[IntBits]
<1>1. W \in Nat \ {0}
  BY PowFacts, WidthFacts
<1> HIDE DEF W
<1>2. \A x \in Nat : (x + 1) % W \in 0..(W - 1)
  BY <1>1
<1> QED BY <1>1, <1>2 DEF NextCnt, Ints, W

(* The store of a word that is not cnt pays what is owed to it.            *)
LEMMA StoreSumKeeps ==
  ASSUME MeterTypes, NEW t \in Threads, Store(t), Words[thread[t].at] # "cnt"
  PROVE  MeterTypes' /\ (Middle(t) => Middle(t)') /\ word'["cnt"] = word["cnt"]
<1> DEFINE n == thread[t].at
           v == thread[t].reg + thread[t].add
           r == [thread[t] EXCEPT !.pc = "load", !.at = n + 1]
<1>1. /\ UNCHANGED <<tp, sample, wanted, disable, clock, calls, added, printed, covered, since>>
      /\ thread[t].pc = "store" /\ thread[t] \in ThreadType
      /\ word' = [word EXCEPT ![Words[n]] = v]
      /\ thread' = [thread EXCEPT ![t] = r]
  <2>1. /\ UNCHANGED <<tp, sample, wanted, disable, clock, calls, added, printed, covered, since>>
        /\ thread[t].pc = "store" /\ word' = [word EXCEPT ![Words[n]] = v]
    BY DEF Store
  <2>2. thread[t] \in ThreadType
    BY DEF MeterTypes
  <2>3. thread' = [thread EXCEPT ![t] = r]
    BY DEF Store
  <2> QED BY <2>1, <2>2, <2>3
<1>2. /\ n \in SumIndices /\ n + 1 \in 1..Len(Words)
      /\ thread[t].reg \in Nat /\ thread[t].add \in Nat /\ v \in Nat
  <2>1. n \in 1..Len(Words) /\ thread[t].reg \in Nat /\ thread[t].add \in Nat
    BY <1>1, MeterConstants DEF ThreadType
  <2>2. n # Len(Words)
    BY <2>1, WordsFacts
  <2>3. v \in Nat
    BY <2>1
  <2> HIDE DEF n, v
  <2>4. n \in SumIndices /\ n + 1 \in 1..Len(Words)
    BY <2>1, <2>2, SumsFacts
  <2> QED BY <2>1, <2>3, <2>4
<1>3. r \in ThreadType /\ r.pc = "load" /\ r.add = thread[t].add /\ r.at = n + 1
  BY <1>1, <1>2 DEF ThreadType
<1> HIDE DEF r, n
<1>4. /\ thread' \in [Threads -> ThreadType] /\ thread'[t] = r
      /\ Alone(t) => Alone(t)'
  BY <1>1, <1>3, OthersStay DEF MeterTypes
<1>5. /\ word' \in [{"bytes", "qps", "cnt"} -> Nat] /\ word'[Words[n]] = v
      /\ \A i \in SumIndices : i # n => word'[Words[i]] = word[Words[i]]
      /\ word'["cnt"] = word["cnt"]
  <2>1. /\ word \in [{"bytes", "qps", "cnt"} -> Nat] /\ Words[n] # "cnt"
        /\ Words[n] \in {"bytes", "qps", "cnt"}
    BY <1>2, WordsFacts, SumsFacts DEF MeterTypes, n
  <2>2. \A i \in SumIndices : Words[i] \in {"bytes", "qps", "cnt"} /\ (i # n => Words[i] # Words[n])
    BY <1>2, WordsFacts, SumsFacts
  <2> HIDE DEF v
  <2> QED BY <1>1, <1>2, <2>1, <2>2
<1>6. MeterTypes'
  BY <1>1, <1>4, <1>5 DEF MeterTypes
<1>7. ASSUME Middle(t), NEW i \in SumIndices
      PROVE  printed'[Words[i]] + Held(t, i)' + Owed(t, i)' = added'[Words[i]]
  <2>1. printed[Words[i]] \in Nat /\ word[Words[i]] \in Nat /\ i \in Nat /\ n \in Nat
    <3>1. i \in Nat /\ n \in Nat
      BY <1>2, WordsFacts DEF SumIndices
    <3> QED BY <3>1, SumsFacts, WordsFacts DEF MeterTypes
  <2>2. printed[Words[i]] + Held(t, i) + Owed(t, i) = added[Words[i]]
    BY <1>7 DEF Middle
  <2>3. /\ Held(t, i) = word[Words[i]] /\ Held(t, i)' = word'[Words[i]]
        /\ Owed(t, i) = IF n <= i THEN thread[t].add ELSE 0
        /\ Owed(t, i)' = IF n + 1 <= i THEN thread[t].add ELSE 0
    BY <1>1, <1>3, <1>4 DEF Held, Owed, n
  <2>4. CASE i = n
    <3>1. v = word[Words[i]] + thread[t].add
      BY <1>1, <1>7, <2>4 DEF Middle, n
    <3>2. /\ Owed(t, i) = thread[t].add /\ Owed(t, i)' = 0
          /\ Held(t, i)' = word[Words[i]] + thread[t].add
      BY <1>5, <2>1, <2>3, <2>4, <3>1
    <3>3. \A p, w, d, s \in Nat : p + w + d = s => p + (w + d) + 0 = s
      OBVIOUS
    <3>4. printed[Words[i]] + word[Words[i]] + thread[t].add = added[Words[i]]
      BY <2>2, <2>3, <3>2
    <3>5. added[Words[i]] \in Nat
      BY SumsFacts DEF MeterTypes
    <3>6. printed'[Words[i]] = printed[Words[i]] /\ added'[Words[i]] = added[Words[i]]
      BY <1>1
    <3> HIDE DEF v
    <3> QED BY <1>2, <2>1, <3>2, <3>3, <3>4, <3>5, <3>6
  <2>5. CASE i # n
    <3>1. Owed(t, i)' = Owed(t, i) /\ Held(t, i)' = Held(t, i)
      BY <1>5, <2>1, <2>3, <2>5
    <3> QED BY <1>1, <2>2, <3>1
  <2> QED BY <2>4, <2>5
<1>8. ASSUME Middle(t) PROVE Middle(t)'
  BY <1>1, <1>3, <1>4, <1>7, <1>8 DEF Middle
<1> QED BY <1>5, <1>6, <1>8

(* Steps after the sums: what is still owed, nothing, stays so.            *)
LEMMA NothingOwed ==
  ASSUME NEW t \in Threads, thread[t].pc \notin {"load", "store"}
  PROVE  \A i \in SumIndices : Owed(t, i) = 0
BY DEF Owed

(* The store of cnt, and where it goes from there.                         *)
LEMMA StoreCntKeeps ==
  ASSUME MeterTypes, NEW t \in Threads, Store(t), Words[thread[t].at] = "cnt"
  PROVE  MeterTypes' /\ (Middle(t) => Middle(t)') /\ word'["cnt"] \in Ints
<1> DEFINE v == NextCnt(thread[t].reg)
           r == IF Sampled(v) THEN [thread[t] EXCEPT !.pc = "clock"] ELSE Idle
<1>1. /\ UNCHANGED <<tp, sample, wanted, disable, clock, calls, added, printed, covered>>
      /\ thread[t].pc = "store" /\ thread[t] \in ThreadType
      /\ word' = [word EXCEPT !["cnt"] = v]
      /\ thread' = [thread EXCEPT ![t] = r]
      /\ since' = since + 1
  BY DEF Store, MeterTypes
<1>2. /\ thread[t].at = Len(Words) /\ v \in Nat /\ v \in Ints
  BY <1>1, WordsFacts, CountWraps DEF ThreadType
<1>3. r \in ThreadType /\ r.pc \in {"clock", "idle"}
  BY <1>1, IdleType DEF ThreadType
<1> HIDE DEF r, v
<1>4. /\ thread' \in [Threads -> ThreadType] /\ thread'[t] = r
      /\ Alone(t) => Alone(t)'
  BY <1>1, <1>3, OthersStay DEF MeterTypes
<1>5. /\ word' \in [{"bytes", "qps", "cnt"} -> Nat] /\ word'["cnt"] \in Ints
      /\ \A i \in SumIndices : word'[Words[i]] = word[Words[i]]
  BY <1>1, <1>2, WordsFacts, SumsFacts DEF MeterTypes
<1>6. MeterTypes'
  BY <1>1, <1>4, <1>5 DEF MeterTypes
<1>7. \A i \in SumIndices : Held(t, i)' = Held(t, i) /\ Owed(t, i)' = Owed(t, i)
  <2> SUFFICES ASSUME NEW i \in SumIndices
               PROVE  Held(t, i)' = Held(t, i) /\ Owed(t, i)' = Owed(t, i)
    OBVIOUS
  <2>1. ~(thread[t].at <= i)
    BY <1>2, WordsFacts DEF SumIndices
  <2> QED BY <1>1, <1>3, <1>4, <1>5, <2>1 DEF Held, Owed
<1>8. ASSUME Middle(t) PROVE Middle(t)'
  BY <1>1, <1>3, <1>4, <1>7, <1>8 DEF Middle
<1> QED BY <1>5, <1>6, <1>8

LEMMA LookKeeps ==
  ASSUME MeterTypes, NEW t \in Threads, LookAtClock(t)
  PROVE  MeterTypes' /\ (Middle(t) => Middle(t)')
<1> DEFINE r == IF clock - tp >= Interval
                  THEN [thread[t] EXCEPT !.pc = "report", !.now = clock] ELSE Idle
<1>1. /\ UNCHANGED <<word, tp, sample, wanted, disable, clock, calls, added, printed, covered>>
      /\ thread[t].pc = "clock" /\ thread[t] \in ThreadType
      /\ thread' = [thread EXCEPT ![t] = r] /\ since' = 0
  BY DEF LookAtClock, MeterTypes
<1>2. r \in ThreadType /\ r.pc \in {"report", "idle"}
  BY <1>1, IdleType DEF ThreadType, MeterTypes
<1> HIDE DEF r
<1>3. /\ thread' \in [Threads -> ThreadType] /\ thread'[t] = r
      /\ Alone(t) => Alone(t)'
  BY <1>1, <1>2, OthersStay DEF MeterTypes
<1>4. MeterTypes'
  BY <1>1, <1>3 DEF MeterTypes
<1>5. \A i \in SumIndices : Held(t, i)' = Held(t, i) /\ Owed(t, i)' = Owed(t, i)
  BY <1>1, <1>2, <1>3 DEF Held, Owed
<1>6. ASSUME Middle(t) PROVE Middle(t)'
  BY <1>1, <1>2, <1>3, <1>5, <1>6 DEF Middle
<1> QED BY <1>4, <1>6

(* The report prints what is held: from here to the clear it is printed    *)
(* and still in the words.                                                 *)
LEMMA ReportKeeps ==
  ASSUME MeterTypes, NEW t \in Threads, Report(t)
  PROVE  MeterTypes' /\ (Middle(t) => Middle(t)')
<1> DEFINE r == [thread[t] EXCEPT !.pc = "clear"]
<1>1. /\ UNCHANGED <<word, tp, sample, wanted, disable, clock, calls, added, since>>
      /\ thread[t].pc = "report" /\ thread[t] \in ThreadType
      /\ thread' = [thread EXCEPT ![t] = r]
      /\ printed' = [w \in Sums |-> printed[w] + word[w]]
      /\ covered' = covered + (thread[t].now - tp)
  BY DEF Report, MeterTypes
<1>2. r \in ThreadType /\ r.pc = "clear" /\ r.now = thread[t].now /\ r.now \in Nat
  BY <1>1, MeterConstants DEF ThreadType
<1> HIDE DEF r
<1>3. /\ thread' \in [Threads -> ThreadType] /\ thread'[t] = r
      /\ Alone(t) => Alone(t)'
  BY <1>1, <1>2, OthersStay DEF MeterTypes
<1>4. \A w \in Sums : printed[w] \in Nat /\ word[w] \in Nat
  BY DEF MeterTypes, Sums
<1>5. printed' \in [Sums -> Nat] /\ covered' \in Int
  BY <1>1, <1>2, <1>4, MeterConstants DEF MeterTypes
<1>6. MeterTypes'
  BY <1>1, <1>3, <1>5 DEF MeterTypes
<1>7. ASSUME Middle(t), NEW i \in SumIndices
      PROVE  printed'[Words[i]] + Held(t, i)' + Owed(t, i)' = added'[Words[i]]
  <2>1. Words[i] \in Sums /\ printed[Words[i]] \in Nat /\ word[Words[i]] \in Nat
    BY <1>4, SumsFacts
  <2>2. printed[Words[i]] + Held(t, i) + Owed(t, i) = added[Words[i]]
    BY <1>7 DEF Middle
  <2>3. Held(t, i) = word[Words[i]] /\ Owed(t, i) = 0 /\ Held(t, i)' = 0 /\ Owed(t, i)' = 0
    BY <1>1, <1>2, <1>3 DEF Held, Owed
  <2>4. printed'[Words[i]] = printed[Words[i]] + word[Words[i]]
    BY <1>1, <2>1
  <2> QED BY <1>1, <2>1, <2>2, <2>3, <2>4
<1>8. ASSUME Middle(t) PROVE Middle(t)'
  <2>1. covered = tp /\ tp \in Nat
    BY <1>1, <1>8, MeterConstants DEF Middle, MeterTypes
  <2>2. covered' = r.now
    BY <1>1, <1>2, <2>1
  <2> QED BY <1>1, <1>2, <1>3, <1>7, <1>8, <2>2 DEF Middle
<1> QED BY <1>6, <1>8

LEMMA ClearKeeps ==
  ASSUME MeterTypes, NEW t \in Threads, Clear(t)
  PROVE  MeterTypes' /\ (Middle(t) => Middle(t)') /\ word'["cnt"] = word["cnt"]
<1> DEFINE r == [thread[t] EXCEPT !.pc = "stamp"]
<1>1. /\ UNCHANGED <<tp, sample, wanted, disable, clock, calls, added, printed, covered, since>>
      /\ thread[t].pc = "clear" /\ thread[t] \in ThreadType
      /\ thread' = [thread EXCEPT ![t] = r]
      /\ word' = [w \in {"bytes", "qps", "cnt"} |-> IF w \in Sums THEN 0 ELSE word[w]]
  BY DEF Clear, MeterTypes, history
<1>2. r \in ThreadType /\ r.pc = "stamp" /\ r.now = thread[t].now
  BY <1>1 DEF ThreadType
<1> HIDE DEF r
<1>3. /\ thread' \in [Threads -> ThreadType] /\ thread'[t] = r
      /\ Alone(t) => Alone(t)'
  BY <1>1, <1>2, OthersStay DEF MeterTypes
<1>4. /\ word' \in [{"bytes", "qps", "cnt"} -> Nat] /\ word'["cnt"] = word["cnt"]
      /\ \A i \in SumIndices : word'[Words[i]] = 0
  BY <1>1, WordsFacts, SumsFacts DEF MeterTypes, Sums
<1>5. MeterTypes'
  BY <1>1, <1>3, <1>4 DEF MeterTypes
<1>6. \A i \in SumIndices : Held(t, i) = 0 /\ Owed(t, i) = 0 /\ Held(t, i)' = 0 /\ Owed(t, i)' = 0
  BY <1>1, <1>2, <1>3, <1>4 DEF Held, Owed
<1>7. ASSUME Middle(t) PROVE Middle(t)'
  BY <1>1, <1>2, <1>3, <1>6, <1>7 DEF Middle
<1> QED BY <1>4, <1>5, <1>7

LEMMA StampKeeps ==
  ASSUME MeterTypes, NEW t \in Threads, Stamp(t)
  PROVE  MeterTypes' /\ (Middle(t) => Middle(t)')
<1>1. /\ UNCHANGED <<word, sample, wanted, disable, clock, calls, added, printed, covered, since>>
      /\ thread[t].pc = "stamp" /\ thread[t] \in ThreadType
      /\ thread' = [thread EXCEPT ![t] = Idle]
      /\ tp' = thread[t].now
  BY DEF Stamp, MeterTypes, history
<1>2. tp' \in 0..MaxTime
  BY <1>1 DEF ThreadType
<1>3. /\ thread' \in [Threads -> ThreadType] /\ thread'[t] = Idle
      /\ Alone(t) => Alone(t)'
  BY <1>1, IdleType, OthersStay DEF MeterTypes
<1>4. MeterTypes'
  BY <1>1, <1>2, <1>3 DEF MeterTypes
<1>5. \A i \in SumIndices : Held(t, i)' = Held(t, i) /\ Owed(t, i)' = Owed(t, i)
  BY <1>1, <1>3, IdleType DEF Held, Owed
<1>6. ASSUME Middle(t) PROVE Middle(t)'
  BY <1>1, <1>3, <1>5, <1>6, IdleType DEF Middle
<1> QED BY <1>4, <1>6

LEMMA TickKeeps ==
  ASSUME MeterTypes, Tick
  PROVE  MeterTypes' /\ (SoloInv => SoloInv')
<1>1. /\ clock' \in 0..MaxTime
      /\ UNCHANGED <<word, tp, sample, wanted, disable, thread, calls, added, printed, covered, since>>
  BY MeterConstants DEF Tick, MeterTypes, history
<1> QED BY <1>1 DEF MeterTypes, SoloInv, Quiet, Settled, Middle, Alone, Held, Owed

(* Every step of the call of a thread keeps the types; alone in the meter, *)
(* it keeps the balance.                                                   *)
LEMMA MeterStepKeeps ==
  ASSUME MeterTypes, NEW t \in Threads, MeterStep(t)
  PROVE  /\ MeterTypes'
         /\ SoloInv => SoloInv'
         /\ word["cnt"] \in Ints => word'["cnt"] \in Ints
         /\ thread[t].pc # "idle" /\ \A u \in Threads : u # t => thread'[u] = thread[u]
         /\ UNCHANGED <<sample, wanted, disable, clock, calls, added>>
<1>1. MeterTypes' /\ (Middle(t) => Middle(t)')
  BY LoadKeeps, StoreSumKeeps, StoreCntKeeps, LookKeeps, ReportKeeps, ClearKeeps, StampKeeps
     DEF MeterStep
<1>2. word["cnt"] \in Ints => word'["cnt"] \in Ints
  BY StoreSumKeeps, StoreCntKeeps, ClearKeeps
     DEF MeterStep, Load, LookAtClock, Report, Stamp
<1>3. thread[t].pc # "idle" /\ UNCHANGED <<sample, wanted, disable, clock, calls, added>>
  BY DEF MeterStep, Load, Store, LookAtClock, Report, Clear, Stamp, history
<1>4. \A u \in Threads : u # t => thread'[u] = thread[u]
  <2> SUFFICES ASSUME NEW u \in Threads, u # t PROVE thread'[u] = thread[u]
    OBVIOUS
  <2>1. thread \in [Threads -> ThreadType]
    BY DEF MeterTypes
  <2>2. CASE Load(t) \/ Report(t) \/ Clear(t) \/ Stamp(t)
    BY <2>1, <2>2 DEF Load, Report, Clear, Stamp
  <2>3. CASE Store(t)
    BY <2>1, <2>3 DEF Store
  <2>4. CASE LookAtClock(t)
    BY <2>1, <2>4 DEF LookAtClock
  <2> QED BY <2>2, <2>3, <2>4 DEF MeterStep
<1>5. SoloInv => SoloInv'
  BY <1>1, <1>3, SoloIsMiddle, MiddleIsSoloNext
<1> QED BY <1>1, <1>2, <1>3, <1>4, <1>5

-----------------------------------------------------------------------------
(* The types of the meter, with the widths.                                *)
WidthInv == MeterTypes /\ word["cnt"] \in Ints /\ sample \in Ints /\ wanted \in SampleArgs /\ disable \in BOOLEAN

LEMMA WidthGivesType == WidthInv => MeterTypeOK
BY DEF WidthInv, MeterTypes, MeterTypeOK, ThreadType

LEMMA MeterInitInv == ASSUME MeterInit PROVE WidthInv /\ SoloInv /\ Quiet
<1> DEFINE W == Pow2[IntBits]
<1>1. W \in Nat \ {0} /\ sample \in Ints /\ wanted \in SampleArgs /\ disable \in BOOLEAN
  BY PowFacts, WidthFacts, SampleFacts DEF MeterInit
<1> HIDE DEF W
<1>2. sample \in Nat /\ 0 \in Ints
  BY <1>1 DEF Ints, W
<1>3. since \in Nat
  <2>1. \A x \in Nat : 1 % (x + 1) \in Nat
    OBVIOUS
  <2> QED BY <1>2, <2>1 DEF MeterInit
<1>4. thread = [t \in Threads |-> Idle] /\ thread \in [Threads -> ThreadType]
  BY IdleType DEF MeterInit
<1>5. MeterTypes
  BY <1>3, <1>4, MeterConstants DEF MeterInit, MeterTypes, NoneMade
<1>6. WidthInv
  BY <1>1, <1>2, <1>5 DEF WidthInv, MeterInit
<1>7. Quiet
  BY <1>4, IdleType DEF Quiet
<1>8. Settled
  <2>1. \A i \in SumIndices : Words[i] \in Sums /\ Words[i] \in {"bytes", "qps", "cnt"}
    BY SumsFacts, WordsFacts
  <2> QED BY <2>1 DEF Settled, MeterInit, NoneMade
<1> QED BY <1>6, <1>7, <1>8 DEF SoloInv, Quiet

(* A meter keeps its types however many threads are in it.                 *)
LEMMA MeterNextWidth == ASSUME WidthInv, MeterNext PROVE WidthInv'
<1>1. MeterTypes
  BY DEF WidthInv
<1>2. CASE Tick
  <2>1. UNCHANGED <<word, sample, wanted, disable>>
    BY <1>2 DEF Tick
  <2> QED BY <1>1, <1>2, <2>1, TickKeeps DEF WidthInv
<1>3. ASSUME NEW t \in Threads, MeterStep(t) PROVE WidthInv'
  BY <1>1, <1>3, MeterStepKeeps DEF WidthInv
<1>4. ASSUME NEW t \in Threads, NEW a \in Amounts, Add(t, a) PROVE WidthInv'
  <2>1. UNCHANGED <<word, sample, wanted, disable>>
    BY <1>4 DEF Add
  <2> QED BY <1>1, <1>4, <2>1, AddKeeps DEF WidthInv
<1> QED BY <1>2, <1>3, <1>4 DEF MeterNext

(* The words, the clock and the threads of a meter keep their types, with  *)
(* any number of threads in it.                                            *)
THEOREM MeterTypesHold == MeterSpec => []MeterTypeOK
<1>1. MeterInit => WidthInv
  BY MeterInitInv
<1>2. WidthInv /\ UNCHANGED meter => WidthInv'
  <2> SUFFICES ASSUME WidthInv, UNCHANGED meter PROVE WidthInv'
    OBVIOUS
  <2>1. MeterTypes'
    BY DEF WidthInv, MeterTypes, meter
  <2> QED BY <2>1 DEF WidthInv, meter
<1>3. WidthInv /\ [MeterNext]_meter => WidthInv'
  BY <1>2, MeterNextWidth
<1> QED BY <1>1, <1>3, WidthGivesType, PTL DEF MeterSpec

(* One thread calls the meter.                                             *)
OneCaller == \E t \in Threads : Threads = {t}

(* The inductive invariant of a meter that one thread calls: between two   *)
(* of its calls the books balance, and within one the thread owes or holds *)
(* the difference.                                                         *)
THEOREM MeterInvariance == ASSUME OneCaller PROVE MeterSpec => [](WidthInv /\ SoloInv)
<1>1. MeterInit => WidthInv /\ SoloInv
  BY MeterInitInv
<1>2. ASSUME WidthInv, SoloInv, MeterNext PROVE SoloInv'
  <2>1. MeterTypes
    BY <1>2 DEF WidthInv
  <2>2. CASE Tick
    BY <1>2, <2>1, <2>2, TickKeeps
  <2>3. ASSUME NEW t \in Threads, MeterStep(t) PROVE SoloInv'
    BY <1>2, <2>1, <2>3, MeterStepKeeps
  <2>4. ASSUME NEW t \in Threads, NEW a \in Amounts, Add(t, a) PROVE SoloInv'
    <3>1. Quiet
      BY <2>4 DEF OneCaller, Quiet, Add
    <3>2. Middle(t)
      BY <1>2, <2>1, <3>1, SoloIsMiddle
    <3>3. MeterTypes' /\ Middle(t)'
      BY <2>1, <2>4, <3>2, AddKeeps
    <3> QED BY <3>3, MiddleIsSoloNext
  <2> QED BY <1>2, <2>2, <2>3, <2>4 DEF MeterNext
<1>3. WidthInv /\ SoloInv /\ UNCHANGED meter => WidthInv' /\ SoloInv'
  <2> SUFFICES ASSUME WidthInv, SoloInv, UNCHANGED meter PROVE WidthInv' /\ SoloInv'
    OBVIOUS
  <2>1. MeterTypes'
    BY DEF WidthInv, MeterTypes, meter
  <2>2. SoloInv'
    BY DEF SoloInv, Quiet, Settled, Middle, Alone, Held, Owed, meter
  <2> QED BY <2>1, <2>2 DEF WidthInv, meter
<1>4. WidthInv /\ SoloInv /\ [MeterNext]_meter => (WidthInv /\ SoloInv)'
  BY <1>2, <1>3, MeterNextWidth
<1> QED BY <1>1, <1>4, PTL DEF MeterSpec

(* A meter with one caller loses no byte and no call: between two calls,   *)
(* what was printed and what is still held is what was added.              *)
THEOREM NothingIsLost == ASSUME OneCaller PROVE MeterSpec => []Conserved
<1>1. WidthInv /\ SoloInv => Conserved
  <2> SUFFICES ASSUME SoloInv, Quiet, NEW w \in Sums PROVE printed[w] + word[w] = added[w]
    BY DEF Conserved
  <2>1. PICK i \in SumIndices : w = Words[i]
    BY SumsFacts
  <2> QED BY <2>1 DEF SoloInv, Settled
<1> QED BY <1>1, MeterInvariance, PTL

(* The reports of a meter with one caller divide by durations that tile    *)
(* the time up to the last report.                                         *)
THEOREM ReportsTileTime == ASSUME OneCaller PROVE MeterSpec => []ReportsTile
<1>1. WidthInv /\ SoloInv => ReportsTile
  BY DEF SoloInv, Settled, ReportsTile
<1> QED BY <1>1, MeterInvariance, PTL

(* The count of the calls since the last look at the clock follows cnt: it *)
(* is cnt + 1 modulo sample + 1, but for the thread that is about to look, *)
(* which has brought it to sample + 1.                                     *)
RegularInv ==
  /\ wanted \in SampleArgs /\ sample = SampleOf(wanted)
  /\ \A t \in Threads :
       IF thread[t].pc = "clock"
         THEN since = sample + 1 /\ word["cnt"] % (sample + 1) = sample
         ELSE since = (word["cnt"] + 1) % (sample + 1)

(* The remainder of a successor.                                           *)
LEMMA NextRemainder ==
  ASSUME NEW m \in Nat, NEW v \in Nat
  PROVE  (v + 1) % (m + 1) = IF v % (m + 1) = m THEN 0 ELSE (v % (m + 1)) + 1
<1> DEFINE d == m + 1
           q == v \div d
           r == v % d
<1>1. d \in Nat \ {0}
  OBVIOUS
<1> HIDE DEF d
<1>2. q \in Nat /\ r \in Nat /\ r < d /\ v = d * q + r
  BY <1>1, Division
<1> HIDE DEF q, r
<1>3. CASE r = m
  <2>1. v + 1 = d * (q + 1) + 0 /\ q + 1 \in Nat
    BY <1>1, <1>2, <1>3 DEF d
  <2>2. v + 1 \in Nat
    OBVIOUS
  <2>3. (v + 1) % d = 0
    BY <1>1, <2>1, <2>2, DivisionIs
  <2> QED BY <1>3, <2>3 DEF d, r
<1>4. CASE r # m
  <2>1. v + 1 = d * q + (r + 1) /\ r + 1 \in Nat /\ r + 1 < d
    BY <1>1, <1>2, <1>4 DEF d
  <2>2. v + 1 \in Nat
    OBVIOUS
  <2>3. (v + 1) % d = r + 1
    BY <1>1, <1>2, <2>1, <2>2, DivisionIs
  <2> QED BY <1>4, <2>3 DEF d, r
<1> QED BY <1>3, <1>4

(* ++cnt and its test: the call is the (sample + 1)-th since the last look *)
(* exactly when the mask says so, and across the wrap of cnt.              *)
LEMMA StoreCntRegular ==
  ASSUME WidthInv, RegularInv, NEW t \in Threads, Threads = {t}, Middle(t),
         Store(t), Words[thread[t].at] = "cnt"
  PROVE  RegularInv'
<1> DEFINE c == word["cnt"]
           v == NextCnt(c)
           r == IF Sampled(v) THEN [thread[t] EXCEPT !.pc = "clock"] ELSE Idle
<1>1. thread[t].pc = "store" /\ thread[t].reg = c /\ thread[t] \in ThreadType
  BY DEF Store, Middle, WidthInv, MeterTypes
<1>2. /\ word' = [word EXCEPT !["cnt"] = v] /\ thread' = [thread EXCEPT ![t] = r]
      /\ UNCHANGED <<sample, wanted>> /\ since' = since + 1
  BY <1>1 DEF Store
<1>3. c \in Nat /\ word'["cnt"] = v /\ thread'[t] = r
  BY <1>2 DEF WidthInv, MeterTypes
<1>4. r.pc = IF Sampled(v) THEN "clock" ELSE "idle"
  BY <1>1, IdleType DEF ThreadType
<1>5. PICK n \in 0..IntBits : sample = Pow2[n] - 1
  BY SampleFacts DEF RegularInv
<1>6. Pow2[n] \in Nat /\ Pow2[n] > 0 /\ sample \in Nat /\ Pow2[n] = sample + 1
  BY <1>5, PowFacts
<1> HIDE DEF r
<1>7. v \in Nat /\ v % (sample + 1) = (c + 1) % (sample + 1)
  BY <1>3, <1>6, WrapsEvenly
<1> HIDE DEF v
<1>8. Sampled(v) <=> v % (sample + 1) = sample
  BY <1>5, <1>6, <1>7, SampledIs
<1>9. since = v % (sample + 1)
  BY <1>1, <1>7 DEF RegularInv
<1>10. (v + 1) % (sample + 1) = IF v % (sample + 1) = sample THEN 0 ELSE (v % (sample + 1)) + 1
  BY <1>6, <1>7, NextRemainder
<1>11. IF thread'[t].pc = "clock"
         THEN since' = sample' + 1 /\ word'["cnt"] % (sample' + 1) = sample'
         ELSE since' = (word'["cnt"] + 1) % (sample' + 1)
  BY <1>2, <1>3, <1>4, <1>8, <1>9, <1>10
<1> QED BY <1>2, <1>11 DEF RegularInv

(* The look at the clock, and the steps that move neither cnt nor since.   *)
LEMMA StepRegular ==
  ASSUME WidthInv, SoloInv, RegularInv, NEW t \in Threads, Threads = {t}, MeterStep(t)
  PROVE  RegularInv'
<1>1. MeterTypes /\ thread \in [Threads -> ThreadType] /\ thread[t] \in ThreadType
  BY DEF WidthInv, MeterTypes
<1>2. Middle(t)
  BY <1>1, MeterStepKeeps DEF SoloInv
<1>3. CASE Store(t) /\ Words[thread[t].at] = "cnt"
  BY <1>2, <1>3, StoreCntRegular
<1>4. CASE LookAtClock(t)
  <2>1. /\ thread[t].pc = "clock" /\ thread'[t].pc # "clock"
        /\ UNCHANGED <<word, sample, wanted>> /\ since' = 0
    BY <1>1, <1>4, IdleType DEF LookAtClock, ThreadType
  <2>2. sample \in Nat /\ word["cnt"] \in Nat
    <3>1. Pow2[IntBits] \in Nat
      BY PowFacts, WidthFacts
    <3> QED BY <1>1, <3>1 DEF WidthInv, MeterTypes, Ints
  <2>3. (word["cnt"] + 1) % (sample + 1) = 0
    BY <2>1, <2>2, NextRemainder DEF RegularInv
  <2> QED BY <2>1, <2>3 DEF RegularInv
<1>5. CASE \/ Load(t) \/ Report(t) \/ Clear(t) \/ Stamp(t)
           \/ Store(t) /\ Words[thread[t].at] # "cnt"
  <2>1. word'["cnt"] = word["cnt"]
    BY <1>1, <1>5, ClearKeeps, StoreSumKeeps DEF Load, Report, Stamp
  <2>2. UNCHANGED <<sample, wanted, since>>
    BY <1>5 DEF Load, Report, Clear, Stamp, Store, history
  <2>3. thread[t].pc # "clock" /\ thread'[t].pc # "clock"
    <3>1. CASE Load(t) \/ Report(t) \/ Clear(t)
      BY <1>1, <3>1 DEF Load, Report, Clear, ThreadType
    <3>2. CASE Stamp(t)
      BY <1>1, <3>2, IdleType DEF Stamp
    <3>3. CASE Store(t) /\ Words[thread[t].at] # "cnt"
      BY <1>1, <3>3 DEF Store, ThreadType
    <3> QED BY <1>5, <3>1, <3>2, <3>3
  <2> QED BY <2>1, <2>2, <2>3 DEF RegularInv
<1> QED BY <1>3, <1>4, <1>5 DEF MeterStep

LEMMA RegularInit == ASSUME MeterInit PROVE RegularInv
<1>1. /\ wanted \in SampleArgs /\ sample = SampleOf(wanted)
      /\ since = 1 % (sample + 1) /\ word["cnt"] = 0
  BY DEF MeterInit
<1>2. \A t \in Threads : thread[t].pc # "clock"
  BY IdleType DEF MeterInit
<1> QED BY <1>1, <1>2 DEF RegularInv

LEMMA RegularNext ==
  ASSUME OneCaller, WidthInv, SoloInv, RegularInv, MeterNext
  PROVE  RegularInv'
<1>1. CASE Tick
  BY <1>1 DEF Tick, RegularInv, history
<1>2. ASSUME NEW t \in Threads, MeterStep(t) PROVE RegularInv'
  BY <1>2, StepRegular DEF OneCaller
<1>3. ASSUME NEW t \in Threads, NEW a \in Amounts, Add(t, a) PROVE RegularInv'
  <2>1. UNCHANGED <<word, sample, wanted, since>> /\ thread[t].pc # "clock" /\ Threads = {t}
    BY <1>3 DEF Add, OneCaller
  <2>2. thread'[t].pc # "clock"
    <3> DEFINE r == [Idle EXCEPT !.pc = "load", !.add = a]
    <3>1. r.pc = "load"
      BY DEF Idle
    <3> HIDE DEF r
    <3>2. thread' = thread \/ thread' = [thread EXCEPT ![t] = r]
      BY <1>3 DEF Add, r
    <3>3. thread \in [Threads -> ThreadType]
      BY DEF WidthInv, MeterTypes
    <3> QED BY <2>1, <3>1, <3>2, <3>3
  <2> QED BY <2>1, <2>2 DEF RegularInv
<1> QED BY <1>1, <1>2, <1>3 DEF MeterNext

(* What the invariant says of the clock and of the mask.                   *)
LEMMA RegularGivesSampling == ASSUME WidthInv, RegularInv PROVE Sampling
<1>1. sample \in Nat /\ word["cnt"] \in Nat
  <2>1. Pow2[IntBits] \in Nat
    BY PowFacts, WidthFacts
  <2> QED BY <2>1 DEF WidthInv, MeterTypes, Ints
<1>2. \A x, m \in Nat : x % (m + 1) <= m
  OBVIOUS
<1>3. (word["cnt"] + 1) % (sample + 1) <= sample
  BY <1>1, <1>2
<1>4. LooksRegularly
  BY <1>3 DEF LooksRegularly, RegularInv
<1>5. SampleIsMask
  BY SampleFacts DEF SampleIsMask, RegularInv
<1> QED BY <1>4, <1>5, WidthGivesType DEF Sampling

(* A meter with one caller looks at the clock at every (sample + 1)-th     *)
(* call exactly, whatever the width of cnt and however often it wraps, and *)
(* sample is what the constructor's loop must make of its argument: the    *)
(* least 2^n - 1 that is not below it.                                     *)
THEOREM ClockIsReadRegularly == ASSUME OneCaller PROVE MeterSpec => []Sampling
<1>1. MeterInit => RegularInv
  BY RegularInit
<1>2. WidthInv /\ SoloInv /\ RegularInv /\ [MeterNext]_meter => RegularInv'
  <2>1. RegularInv /\ UNCHANGED meter => RegularInv'
    BY DEF RegularInv, meter
  <2> QED BY <2>1, RegularNext
<1>3. WidthInv /\ RegularInv => Sampling
  BY RegularGivesSampling
<1> QED BY <1>1, <1>2, <1>3, MeterInvariance, PTL DEF MeterSpec

-----------------------------------------------------------------------------
(* Requests and calls, for the bandwidth benchmark.                        *)
AllRequests == Clients \X (1..(MaxPushes + 1)) \X (0..MaxRetry)
AllCalls == Clients \X (1..(MaxPushes + 1))

ClientTypes ==
  /\ lib \in Libraries /\ up \in BOOLEAN /\ upset \in BOOLEAN
  /\ client \in [Clients -> {"push", "wait", "done"}]
  /\ push \in [Clients -> 0..(MaxPushes + 1)]
  /\ retried \in [Clients -> 0..MaxRetry]
  /\ asked \in [Clients -> BOOLEAN]

RequestTypes ==
  /\ wire \subseteq AllRequests /\ answers \subseteq AllRequests
  /\ job \in [Threads -> AllRequests \cup {None}]
  /\ acks \subseteq AllCalls /\ served \subseteq AllCalls

(* A client makes its last call after the time, and only that one.         *)
PushInv(c) ==
  /\ client[c] = "push" => push[c] <= MaxPushes
  /\ client[c] = "wait" => push[c] >= 1 /\ (push[c] > MaxPushes => clock > Duration)

(* An answer comes from a handler that has returned.                       *)
AckInv == acks \subseteq served /\ \A r \in answers : CallOf(r) \in served

CallsInv ==
  /\ ClientTypes
  /\ RequestTypes
  /\ \A c \in Clients : PushInv(c)
  /\ AckInv

LEMMA RpcConstants ==
  /\ Duration \in Nat /\ MaxRetry \in Nat /\ MaxPushes \in Nat
  /\ Size \in Amounts /\ Size \in Nat
  /\ \A r \in AllRequests : r # None
BY BwRpcAssumption, MeterConstants DEF AllRequests

LEMMA RequestParts ==
  /\ \A c \in Clients, n \in 1..(MaxPushes + 1), k \in 0..MaxRetry :
       <<c, n, k>> \in AllRequests /\ <<c, n>> \in AllCalls
  /\ \A r \in AllRequests : CallOf(r) \in AllCalls
  /\ \A c, n, k : CallOf(<<c, n, k>>) = <<c, n>>
BY DEF AllRequests, AllCalls, CallOf

LEMMA CallsInitInv == ASSUME Init PROVE WidthInv /\ CallsInv
<1>1. ClientTypes
  <2>1. asked \in [Clients -> BOOLEAN] /\ up \in BOOLEAN /\ upset \in BOOLEAN
    BY DEF Init
  <2>2. 0 \in 0..(MaxPushes + 1) /\ 0 \in 0..MaxRetry
    BY RpcConstants
  <2> QED BY <2>1, <2>2 DEF Init, ClientTypes
<1>2. RequestTypes /\ AckInv
  BY DEF Init, RequestTypes, AckInv
<1>3. \A c \in Clients : PushInv(c)
  BY RpcConstants DEF Init, PushInv
<1> QED BY <1>1, <1>2, <1>3, MeterInitInv DEF CallsInv, Init

(* A step that leaves the clients and the calls alone.                     *)
LEMMA CallsStay ==
  ASSUME CallsInv, UNCHANGED calls_, clock' = clock \/ clock' = clock + 1, clock \in Nat
  PROVE  CallsInv'
<1>1. ClientTypes' /\ RequestTypes' /\ AckInv'
  BY DEF CallsInv, ClientTypes, RequestTypes, AckInv, calls_
<1>2. ASSUME NEW c \in Clients PROVE PushInv(c)'
  <2>1. clock > Duration => clock' > Duration
    BY RpcConstants
  <2> QED BY <2>1 DEF CallsInv, PushInv, calls_
<1> QED BY <1>1, <1>2 DEF CallsInv

(* A client returns from a call.                                           *)
LEMMA ReturnKeeps ==
  ASSUME ClientTypes, NEW c \in Clients, Return(c), PushInv(c), client[c] \in {"push", "wait"}
  PROVE  /\ client' \in [Clients -> {"push", "wait", "done"}]
         /\ client'[c] \in {"push", "done"}
         /\ client'[c] = "push" => push[c] <= MaxPushes
         /\ \A d \in Clients : d # c => client'[d] = client[d]
<1>1. /\ client' \in [Clients -> {"push", "wait", "done"}]
      /\ client'[c] = IF clock > Duration THEN "done" ELSE "push"
      /\ \A d \in Clients : d # c => client'[d] = client[d]
  BY DEF Return, ClientTypes
<1>2. push[c] \in Nat /\ MaxPushes \in Nat
  BY RpcConstants DEF ClientTypes
<1> QED BY <1>1, <1>2 DEF PushInv

LEMMA PushDataKeeps == ASSUME CallsInv, NEW c \in Clients, PushData(c) PROVE CallsInv'
<1>1. /\ ClientTypes /\ RequestTypes /\ AckInv /\ \A d \in Clients : PushInv(d)
      /\ client[c] = "push" /\ (push[c] < MaxPushes \/ clock > Duration)
      /\ push' = [push EXCEPT ![c] = push[c] + 1]
      /\ retried' = [retried EXCEPT ![c] = 0]
      /\ wire' = wire \cup {<<c, push[c] + 1, 0>>}
      /\ client' = [client EXCEPT ![c] = "wait"]
      /\ UNCHANGED <<lib, up, asked, job, answers, acks, served, upset>> /\ clock' = clock
  BY DEF CallsInv, PushData, meter
<1>2. push[c] \in 0..MaxPushes /\ push[c] + 1 \in 1..(MaxPushes + 1)
  BY <1>1, RpcConstants DEF PushInv, ClientTypes
<1>3. ClientTypes'
  <2>1. push' \in [Clients -> 0..(MaxPushes + 1)]
    BY <1>1, <1>2, RpcConstants DEF ClientTypes
  <2>2. retried' \in [Clients -> 0..MaxRetry]
    BY <1>1, RpcConstants DEF ClientTypes
  <2> QED BY <1>1, <2>1, <2>2 DEF ClientTypes
<1>4. RequestTypes' /\ AckInv'
  <2>1. <<c, push[c] + 1, 0>> \in AllRequests
    BY <1>2, RequestParts, RpcConstants
  <2> QED BY <1>1, <2>1 DEF RequestTypes, AckInv
<1>5. ASSUME NEW d \in Clients PROVE PushInv(d)'
  <2>1. CASE d = c
    <3>1. client'[c] = "wait" /\ push'[c] = push[c] + 1
      BY <1>1 DEF ClientTypes
    <3> QED BY <1>1, <1>2, <2>1, <3>1, RpcConstants DEF PushInv
  <2>2. CASE d # c
    BY <1>1, <2>2 DEF PushInv, ClientTypes
  <2> QED BY <2>1, <2>2
<1> QED BY <1>3, <1>4, <1>5 DEF CallsInv

(* A call that ends: refused, answered or given up.                        *)
LEMMA EndKeeps ==
  ASSUME CallsInv, NEW c \in Clients, Return(c), client[c] \in {"push", "wait"},
         UNCHANGED <<lib, up, push, retried, asked, job, served, clock>>,
         wire' \subseteq wire, answers' \subseteq answers, upset' \in BOOLEAN,
         \A a \in acks' : a \in acks \/ \E r \in answers : a = CallOf(r)
  PROVE  CallsInv'
<1>1. ClientTypes /\ RequestTypes /\ AckInv /\ \A d \in Clients : PushInv(d)
  BY DEF CallsInv
<1>2. /\ client' \in [Clients -> {"push", "wait", "done"}]
      /\ client'[c] \in {"push", "done"}
      /\ client'[c] = "push" => push[c] <= MaxPushes
      /\ \A d \in Clients : d # c => client'[d] = client[d]
  BY <1>1, ReturnKeeps
<1>3. ClientTypes'
  BY <1>1, <1>2 DEF ClientTypes
<1>4. RequestTypes' /\ AckInv'
  BY <1>1, RequestParts DEF RequestTypes, AckInv
<1>5. ASSUME NEW d \in Clients PROVE PushInv(d)'
  BY <1>1, <1>2 DEF PushInv
<1> QED BY <1>3, <1>4, <1>5 DEF CallsInv

LEMMA PushRefusedKeeps == ASSUME CallsInv, NEW c \in Clients, PushRefused(c) PROVE CallsInv'
<1>1. upset \in BOOLEAN
  BY DEF CallsInv, ClientTypes
<1> QED BY <1>1, EndKeeps DEF PushRefused, meter

LEMMA FailKeeps == ASSUME CallsInv, NEW c \in Clients, Fail(c) PROVE CallsInv'
BY EndKeeps DEF Fail, meter

LEMMA SucceedKeeps == ASSUME CallsInv, NEW c \in Clients, Succeed(c) PROVE CallsInv'
<1>1. upset \in BOOLEAN
  BY DEF CallsInv, ClientTypes
<1>2. /\ client[c] = "wait" /\ <<c, push[c], retried[c]>> \in answers
      /\ answers' = answers \ {<<c, push[c], retried[c]>>}
      /\ acks' = acks \cup {<<c, push[c]>>} /\ Return(c)
      /\ UNCHANGED <<lib, up, push, retried, asked, wire, job, served, upset, clock>>
  BY DEF Succeed, meter
<1>3. <<c, push[c]>> = CallOf(<<c, push[c], retried[c]>>)
  BY RequestParts
<1>4. \A a \in acks' : a \in acks \/ \E r \in answers : a = CallOf(r)
  BY <1>2, <1>3
<1> QED BY <1>1, <1>2, <1>4, EndKeeps

LEMMA RetryKeeps == ASSUME CallsInv, NEW c \in Clients, Retry(c) PROVE CallsInv'
<1>1. /\ ClientTypes /\ RequestTypes /\ AckInv /\ \A d \in Clients : PushInv(d)
      /\ client[c] = "wait" /\ retried[c] < MaxRetry
      /\ retried' = [retried EXCEPT ![c] = retried[c] + 1] /\ upset' = TRUE
      /\ wire' \subseteq wire \cup {<<c, push[c], retried[c] + 1>>}
      /\ UNCHANGED <<lib, up, client, push, asked, job, answers, acks, served>> /\ clock' = clock
  BY DEF CallsInv, Retry, MayRetry, meter
<1>2. retried[c] + 1 \in 0..MaxRetry /\ push[c] \in 1..(MaxPushes + 1)
  BY <1>1, RpcConstants DEF ClientTypes, PushInv
<1>3. <<c, push[c], retried[c] + 1>> \in AllRequests
  BY <1>2, RequestParts
<1>4. ClientTypes'
  BY <1>1, <1>2 DEF ClientTypes
<1>5. RequestTypes' /\ AckInv'
  BY <1>1, <1>3 DEF RequestTypes, AckInv
<1>6. \A d \in Clients : PushInv(d)'
  BY <1>1 DEF PushInv
<1> QED BY <1>4, <1>5, <1>6 DEF CallsInv

LEMMA AskKeeps == ASSUME CallsInv, NEW c \in Clients, AskToQuit(c) PROVE CallsInv'
<1>1. ClientTypes'
  BY DEF CallsInv, ClientTypes, AskToQuit
<1>2. RequestTypes' /\ AckInv' /\ \A d \in Clients : PushInv(d)'
  BY DEF CallsInv, RequestTypes, AckInv, PushInv, AskToQuit, meter
<1> QED BY <1>1, <1>2 DEF CallsInv

LEMMA StopKeeps == ASSUME CallsInv, StopServer PROVE CallsInv'
<1>1. ClientTypes'
  BY DEF CallsInv, ClientTypes, StopServer
<1>2. RequestTypes' /\ AckInv' /\ \A d \in Clients : PushInv(d)'
  BY DEF CallsInv, RequestTypes, AckInv, PushInv, StopServer, meter
<1> QED BY <1>1, <1>2 DEF CallsInv

LEMMA HandleKeeps == ASSUME CallsInv, NEW h \in Threads, Handle(h) PROVE CallsInv'
<1>1. PICK r \in wire : job' = [job EXCEPT ![h] = r] /\ wire' = wire \ {r}
  BY DEF Handle
<1>2. ClientTypes'
  BY DEF CallsInv, ClientTypes, Handle
<1>3. RequestTypes'
  BY <1>1 DEF CallsInv, RequestTypes, Handle
<1>4. AckInv' /\ \A d \in Clients : PushInv(d)'
  BY DEF CallsInv, AckInv, PushInv, Handle, Add
<1> QED BY <1>2, <1>3, <1>4 DEF CallsInv

LEMMA DoneKeeps == ASSUME CallsInv, NEW h \in Threads, Done(h) PROVE CallsInv'
<1>1. /\ job[h] # None /\ job' = [job EXCEPT ![h] = None]
      /\ answers' = answers \cup {job[h]}
      /\ served' = served \cup {CallOf(job[h])}
      /\ UNCHANGED <<lib, up, client, push, retried, asked, wire, acks, upset>> /\ clock' = clock
  BY DEF Done, meter
<1>2. ClientTypes'
  BY <1>1 DEF CallsInv, ClientTypes
<1>3. job[h] \in AllRequests /\ CallOf(job[h]) \in AllCalls
  BY <1>1, RequestParts DEF CallsInv, RequestTypes
<1>4. RequestTypes'
  BY <1>1, <1>3 DEF CallsInv, RequestTypes
<1>5. AckInv'
  BY <1>1 DEF CallsInv, AckInv
<1>6. \A d \in Clients : PushInv(d)'
  BY <1>1 DEF CallsInv, PushInv
<1> QED BY <1>2, <1>4, <1>5, <1>6 DEF CallsInv

LEMMA RpcNextInv == ASSUME WidthInv, CallsInv, Next PROVE WidthInv' /\ CallsInv'
<1>1. MeterTypes /\ clock \in Nat
  BY MeterConstants DEF WidthInv, MeterTypes
<1>2. UNCHANGED meter => WidthInv'
  <2> SUFFICES ASSUME UNCHANGED meter PROVE WidthInv'
    OBVIOUS
  <2>1. MeterTypes'
    BY <1>1 DEF MeterTypes, meter
  <2> QED BY <2>1 DEF WidthInv, meter
<1>3. ASSUME NEW h \in Threads, Handle(h) PROVE WidthInv' /\ CallsInv'
  <2>1. MeterNext
    BY <1>3, RpcConstants DEF Handle, MeterNext
  <2> QED BY <1>3, <2>1, MeterNextWidth, HandleKeeps
<1>4. ASSUME NEW h \in Threads, Meters(h) PROVE WidthInv' /\ CallsInv'
  <2>1. MeterNext /\ clock' = clock /\ UNCHANGED calls_
    BY <1>1, <1>4, MeterStepKeeps DEF Meters, MeterNext
  <2> QED BY <1>1, <2>1, MeterNextWidth, CallsStay
<1>5. CASE Tick /\ UNCHANGED calls_
  <2>1. MeterNext /\ clock' = clock + 1
    BY <1>5 DEF MeterNext, Tick
  <2> QED BY <1>1, <1>5, <2>1, MeterNextWidth, CallsStay
<1>6. ASSUME NEW h \in Threads, Done(h) PROVE WidthInv' /\ CallsInv'
  BY <1>2, <1>6, DoneKeeps DEF Done
<1>7. ASSUME NEW c \in Clients, Client(c) \/ Fail(c) \/ Retry(c) \/ AskToQuit(c)
      PROVE  WidthInv' /\ CallsInv'
  <2>1. UNCHANGED meter
    BY <1>7 DEF Client, PushData, PushRefused, Succeed, Fail, Retry, AskToQuit
  <2> QED BY <1>2, <1>7, <2>1, PushDataKeeps, PushRefusedKeeps, SucceedKeeps, FailKeeps,
             RetryKeeps, AskKeeps DEF Client
<1>8. CASE StopServer
  BY <1>2, <1>8, StopKeeps DEF StopServer
<1> QED BY <1>3, <1>4, <1>5, <1>6, <1>7, <1>8 DEF Next, Server

LEMMA RpcStutterInv == ASSUME WidthInv, CallsInv, UNCHANGED vars PROVE WidthInv' /\ CallsInv'
<1>1. UNCHANGED meter /\ UNCHANGED calls_ /\ clock' = clock /\ clock \in Nat
  BY MeterConstants DEF vars, WidthInv, MeterTypes, meter
<1>2. MeterTypes'
  BY <1>1 DEF WidthInv, MeterTypes, meter
<1> QED BY <1>1, <1>2, CallsStay DEF WidthInv, meter

(* The inductive invariant of clients, calls and handlers.                 *)
THEOREM RpcInvariance == Spec => [](WidthInv /\ CallsInv)
<1>1. Init => WidthInv /\ CallsInv
  BY CallsInitInv
<1>2. WidthInv /\ CallsInv /\ [Next]_vars => (WidthInv /\ CallsInv)'
  BY RpcNextInv, RpcStutterInv
<1> QED BY <1>1, <1>2, PTL DEF Spec

(* A call that BwClientApp counts as a success was served, whatever was    *)
(* lost, repeated or given up.                                             *)
THEOREM AcksAreServed == Spec => []CallsSound
<1>1. WidthInv /\ CallsInv => CallsSound
  <2> SUFFICES ASSUME WidthInv, CallsInv PROVE CallsSound
    OBVIOUS
  <2>1. MeterTypeOK
    BY WidthGivesType
  <2>2. TypeOK
    BY <2>1 DEF CallsInv, ClientTypes, RequestTypes, AllRequests, AllCalls, TypeOK
  <2> QED BY <2>2 DEF CallsSound, CallsInv, AckInv, AckedWasServed
<1> QED BY <1>1, RpcInvariance, PTL

-----------------------------------------------------------------------------
(* One client, no call of which was given up or sent again.                *)

(* Its one request is on the wire, with one handler, or answered, or was   *)
(* lost with the server.                                                   *)
OneWay(c) ==
  /\ wire \cup answers \subseteq {<<c, push[c], retried[c]>>}
  /\ client[c] # "wait" => wire = {} /\ answers = {} /\ \A h \in Threads : job[h] = None
  /\ wire # {} => answers = {} /\ \A h \in Threads : job[h] = None
  /\ answers # {} => \A h \in Threads : job[h] = None
  /\ \A h \in Threads : job[h] # None => job[h] = <<c, push[c], retried[c]>>
  /\ \A h, g \in Threads : job[h] # None /\ job[g] # None => h = g

(* A handler thread in the meter is in a handler.                          *)
Busy == \A h \in Threads : thread[h].pc # "idle" => job[h] # None

(* The current call has not been counted yet.                              *)
AckBound(c) ==
  /\ IsFiniteSet(acks)
  /\ \A n \in Nat : <<c, n>> \in acks => n <= push[c] /\ (client[c] = "wait" => n # push[c])

(* The calls that a handler has taken up.                                  *)
InHandler == IF \E h \in Threads : job[h] # None THEN 1 ELSE 0
TakenUp == Cardinality(acks) + (IF answers = {} THEN 0 ELSE 1) + InHandler

Tally == ~disable => added["bytes"] = Size * TakenUp

TurnInv(c) == OneWay(c) /\ Busy /\ AckBound(c) /\ Tally /\ SoloInv

LEMMA OneMoreOf == \A a, k \in Nat : a * (k + 1) = a * k + a
OBVIOUS

LEMMA TakenUpType ==
  ASSUME NEW c, AckBound(c)
  PROVE  /\ TakenUp \in Nat /\ Cardinality(acks) \in Nat
BY FS_CardinalityType DEF AckBound, TakenUp, InHandler

LEMMA TurnInit == ASSUME Init, NEW c, Clients = {c} PROVE TurnInv(c)
<1>1. OneWay(c) /\ InHandler = 0
  BY DEF Init, OneWay, InHandler
<1>2. Busy
  BY MeterInitInv DEF Init, Busy, Quiet
<1>3. AckBound(c) /\ Cardinality(acks) = 0
  BY FS_EmptySet DEF Init, AckBound
<1>4. added["bytes"] = 0 /\ TakenUp = 0
  BY <1>1, <1>3 DEF Init, MeterInit, NoneMade, Sums, TakenUp
<1>5. Tally
  BY <1>4, RpcConstants DEF Tally
<1> QED BY <1>1, <1>2, <1>3, <1>5, MeterInitInv DEF TurnInv, Init

(* Steps of the meter, of time, and of nothing.                            *)
LEMMA TurnMeterStep ==
  ASSUME NEW c, TurnInv(c), WidthInv, UNCHANGED calls_,
         (\E h \in Threads : MeterStep(h)) \/ Tick \/ UNCHANGED meter
  PROVE  TurnInv(c)'
<1>1. OneWay(c)' /\ AckBound(c)' /\ TakenUp' = TakenUp
  BY DEF TurnInv, OneWay, AckBound, TakenUp, InHandler, calls_
<1>2. MeterTypes
  BY DEF WidthInv
<1>3. ASSUME NEW h \in Threads, MeterStep(h) PROVE SoloInv' /\ Busy' /\ Tally'
  <2>1. /\ SoloInv' /\ thread[h].pc # "idle" /\ UNCHANGED <<disable, added>>
        /\ \A u \in Threads : u # h => thread'[u] = thread[u]
    BY <1>2, <1>3, MeterStepKeeps DEF TurnInv
  <2>2. Busy'
    BY <2>1 DEF TurnInv, Busy, calls_
  <2> QED BY <1>1, <2>1, <2>2 DEF TurnInv, Tally
<1>4. CASE Tick
  <2>1. UNCHANGED <<thread, disable, added>>
    BY <1>4 DEF Tick, history
  <2> QED BY <1>1, <1>2, <1>4, <2>1, TickKeeps DEF TurnInv, Busy, Tally, calls_
<1>5. CASE UNCHANGED meter
  <2>1. SoloInv'
    BY <1>5 DEF TurnInv, SoloInv, Quiet, Settled, Middle, Alone, Held, Owed, meter
  <2> QED BY <1>1, <1>5, <2>1 DEF TurnInv, Busy, Tally, meter, calls_
<1> QED BY <1>1, <1>3, <1>4, <1>5 DEF TurnInv

(* A step that leaves the meter alone.                                     *)
LEMMA MeterStays ==
  ASSUME SoloInv, UNCHANGED meter
  PROVE  SoloInv' /\ UNCHANGED <<thread, disable, added>>
<1>1. SoloInv'
  BY DEF SoloInv, Quiet, Settled, Middle, Alone, Held, Owed, meter
<1> QED BY <1>1 DEF meter

LEMMA TurnPush ==
  ASSUME NEW c, Clients = {c}, CallsInv, TurnInv(c), PushData(c) PROVE TurnInv(c)'
<1>1. /\ ClientTypes /\ client[c] = "push"
      /\ push' = [push EXCEPT ![c] = push[c] + 1]
      /\ retried' = [retried EXCEPT ![c] = 0]
      /\ wire' = wire \cup {<<c, push[c] + 1, 0>>}
      /\ client' = [client EXCEPT ![c] = "wait"]
      /\ UNCHANGED <<job, answers, acks>> /\ UNCHANGED meter
  BY DEF CallsInv, PushData
<1>2. /\ push'[c] = push[c] + 1 /\ retried'[c] = 0 /\ client'[c] = "wait" /\ push[c] \in Nat
  BY <1>1, RpcConstants DEF ClientTypes
<1>3. wire = {} /\ answers = {} /\ \A h \in Threads : job[h] = None
  BY <1>1 DEF TurnInv, OneWay
<1>4. OneWay(c)'
  BY <1>1, <1>2, <1>3 DEF OneWay
<1>5. AckBound(c)'
  BY <1>1, <1>2 DEF TurnInv, AckBound
<1>6. TakenUp' = TakenUp
  BY <1>1 DEF TakenUp, InHandler
<1>7. SoloInv' /\ UNCHANGED <<thread, disable, added>>
  BY <1>1, MeterStays DEF TurnInv
<1> QED BY <1>1, <1>4, <1>5, <1>6, <1>7 DEF TurnInv, Busy, Tally

LEMMA TurnRefused ==
  ASSUME NEW c, Clients = {c}, CallsInv, TurnInv(c), PushRefused(c) PROVE TurnInv(c)'
<1>1. /\ ClientTypes /\ client[c] = "push" /\ Return(c) /\ PushInv(c)
      /\ UNCHANGED <<push, retried, wire, job, answers, acks>> /\ UNCHANGED meter
  BY DEF CallsInv, PushRefused
<1>2. client'[c] # "wait"
  BY <1>1, ReturnKeeps
<1>3. OneWay(c)' /\ AckBound(c)'
  BY <1>1, <1>2 DEF TurnInv, OneWay, AckBound
<1>4. TakenUp' = TakenUp
  BY <1>1 DEF TakenUp, InHandler
<1>5. SoloInv' /\ UNCHANGED <<thread, disable, added>>
  BY <1>1, MeterStays DEF TurnInv
<1> QED BY <1>1, <1>3, <1>4, <1>5 DEF TurnInv, Busy, Tally

(* The answer is taken and counted: one for one.                           *)
LEMMA TurnSucceed ==
  ASSUME NEW c, Clients = {c}, CallsInv, TurnInv(c), Succeed(c) PROVE TurnInv(c)'
<1> DEFINE r == <<c, push[c], retried[c]>>
<1>1. /\ ClientTypes /\ client[c] = "wait" /\ Return(c) /\ PushInv(c)
      /\ r \in answers /\ answers' = answers \ {r}
      /\ acks' = acks \cup {<<c, push[c]>>}
      /\ UNCHANGED <<push, retried, wire, job>> /\ UNCHANGED meter
  BY DEF CallsInv, Succeed
<1>2. client'[c] # "wait" /\ push[c] \in Nat
  BY <1>1, ReturnKeeps, RpcConstants DEF ClientTypes
<1>3. wire = {} /\ answers = {r} /\ \A h \in Threads : job[h] = None
  BY <1>1 DEF TurnInv, OneWay
<1>4. answers' = {}
  BY <1>1, <1>3
<1>5. OneWay(c)'
  BY <1>1, <1>2, <1>3, <1>4 DEF OneWay
<1>6. /\ IsFiniteSet(acks') /\ <<c, push[c]>> \notin acks
      /\ Cardinality(acks') = Cardinality(acks) + 1
  BY <1>1, <1>2, FS_AddElement DEF TurnInv, AckBound
<1>7. AckBound(c)'
  <2>1. ASSUME NEW n \in Nat, <<c, n>> \in acks' PROVE n <= push'[c]
    BY <1>1, <1>2, <2>1 DEF TurnInv, AckBound
  <2> QED BY <1>2, <1>6, <2>1 DEF AckBound
<1>8. TakenUp' = TakenUp
  <2>1. Cardinality(acks) \in Nat
    BY TakenUpType DEF TurnInv
  <2>2. InHandler = 0 /\ InHandler' = 0
    BY <1>1, <1>3 DEF InHandler
  <2>3. TakenUp = Cardinality(acks) + 1 + 0
    BY <1>3, <2>2 DEF TakenUp
  <2>4. TakenUp' = Cardinality(acks) + 1 + 0 + 0
    BY <1>4, <1>6, <2>2 DEF TakenUp
  <2> QED BY <2>1, <2>3, <2>4
<1>9. SoloInv' /\ UNCHANGED <<thread, disable, added>>
  BY <1>1, MeterStays DEF TurnInv
<1> QED BY <1>1, <1>5, <1>7, <1>8, <1>9 DEF TurnInv, Busy, Tally

LEMMA TurnAskStop ==
  ASSUME NEW c, TurnInv(c), AskToQuit(c) \/ StopServer PROVE TurnInv(c)'
<1>1. /\ UNCHANGED <<client, push, retried, job, answers, acks>> /\ UNCHANGED meter
      /\ wire' \subseteq wire
  BY DEF AskToQuit, StopServer
<1>2. OneWay(c)' /\ AckBound(c)'
  BY <1>1 DEF TurnInv, OneWay, AckBound
<1>3. TakenUp' = TakenUp
  BY <1>1 DEF TakenUp, InHandler
<1>4. SoloInv' /\ UNCHANGED <<thread, disable, added>>
  BY <1>1, MeterStays DEF TurnInv
<1> QED BY <1>1, <1>2, <1>3, <1>4 DEF TurnInv, Busy, Tally

(* A handler takes up the request, and is alone in the meter.              *)
LEMMA TurnHandle ==
  ASSUME NEW c, Clients = {c}, WidthInv, CallsInv, TurnInv(c), NEW h \in Threads, Handle(h)
  PROVE  TurnInv(c)'
<1> DEFINE r == <<c, push[c], retried[c]>>
<1>1. /\ RequestTypes /\ MeterTypes /\ job[h] = None /\ Add(h, Size)
      /\ UNCHANGED <<client, push, retried, answers, acks>>
  BY DEF CallsInv, WidthInv, Handle
<1>2. r \in wire /\ job' = [job EXCEPT ![h] = r] /\ wire' = wire \ {r}
  BY DEF Handle, TurnInv, OneWay
<1>3. /\ answers = {} /\ wire' = {} /\ client[c] = "wait" /\ r # None
      /\ \A g \in Threads : job[g] = None
  BY <1>1, <1>2, RpcConstants DEF TurnInv, OneWay, RequestTypes
<1>4. \A g \in Threads : job'[g] = IF g = h THEN r ELSE None
  BY <1>1, <1>2, <1>3 DEF RequestTypes
<1>5. OneWay(c)' /\ AckBound(c)'
  BY <1>1, <1>3, <1>4 DEF TurnInv, OneWay, AckBound
<1>6. InHandler = 0 /\ InHandler' = 1
  BY <1>3, <1>4 DEF InHandler
<1>7. Quiet
  BY <1>3 DEF TurnInv, Busy, Quiet
<1>8. SoloInv'
  <2>1. Middle(h)
    BY <1>1, <1>7, SoloIsMiddle DEF TurnInv
  <2>2. MeterTypes' /\ Middle(h)'
    BY <1>1, <2>1, AddKeeps, RpcConstants
  <2> QED BY <2>2, MiddleIsSoloNext
<1>9. Busy'
  <2>1. \A g \in Threads : g # h => thread'[g].pc = "idle"
    BY <1>1, <1>7 DEF Add, Quiet, MeterTypes
  <2> QED BY <1>3, <1>4, <2>1 DEF Busy
<1>10. Tally'
  <2>1. CASE disable
    BY <1>1, <2>1 DEF Add, Tally
  <2>2. CASE ~disable
    <3>1. added'["bytes"] = added["bytes"] + Size
      BY <1>1, <2>2 DEF Add, Sums
    <3>2. TakenUp' = TakenUp + 1 /\ TakenUp \in Nat
      <4>1. Cardinality(acks) \in Nat /\ TakenUp \in Nat
        BY TakenUpType DEF TurnInv
      <4>2. TakenUp = Cardinality(acks) + 0 + 0 /\ TakenUp' = Cardinality(acks) + 0 + 1
        BY <1>1, <1>3, <1>6 DEF TakenUp
      <4> QED BY <4>1, <4>2
    <3>3. Size * (TakenUp + 1) = Size * TakenUp + Size
      BY <3>2, RpcConstants, OneMoreOf
    <3> QED BY <2>2, <3>1, <3>2, <3>3 DEF TurnInv, Tally
  <2> QED BY <2>1, <2>2
<1> QED BY <1>5, <1>8, <1>9, <1>10 DEF TurnInv

(* The handler returns: its call has moved to the answers.                 *)
LEMMA TurnDone ==
  ASSUME NEW c, Clients = {c}, CallsInv, TurnInv(c), NEW h \in Threads, Done(h)
  PROVE  TurnInv(c)'
<1> DEFINE r == <<c, push[c], retried[c]>>
<1>1. /\ RequestTypes /\ job[h] # None /\ thread[h].pc = "idle"
      /\ job' = [job EXCEPT ![h] = None] /\ answers' = answers \cup {job[h]}
      /\ UNCHANGED <<client, push, retried, wire, acks>> /\ UNCHANGED meter
  BY DEF CallsInv, Done
<1>2. /\ job[h] = r /\ wire = {} /\ answers = {} /\ client[c] = "wait"
      /\ \A g \in Threads : g # h => job[g] = None
  BY <1>1 DEF TurnInv, OneWay
<1>3. answers' = {r} /\ \A g \in Threads : job'[g] = None
  BY <1>1, <1>2 DEF RequestTypes
<1>4. OneWay(c)' /\ AckBound(c)'
  BY <1>1, <1>2, <1>3 DEF TurnInv, OneWay, AckBound
<1>5. TakenUp' = TakenUp
  <2>1. Cardinality(acks) \in Nat
    BY TakenUpType DEF TurnInv
  <2>2. InHandler = 1 /\ InHandler' = 0
    BY <1>1, <1>3 DEF InHandler
  <2>3. TakenUp = Cardinality(acks) + 0 + 1
    BY <1>2, <2>2 DEF TakenUp
  <2>4. TakenUp' = Cardinality(acks) + 1 + 0
    BY <1>1, <1>3, <2>2 DEF TakenUp
  <2> QED BY <2>1, <2>3, <2>4
<1>6. SoloInv' /\ UNCHANGED <<thread, disable, added>>
  BY <1>1, MeterStays DEF TurnInv
<1>7. Busy'
  BY <1>1, <1>2, <1>6 DEF TurnInv, Busy
<1> QED BY <1>4, <1>5, <1>6, <1>7 DEF TurnInv, Tally

LEMMA TurnNext ==
  ASSUME NEW c, Clients = {c}, WidthInv, CallsInv, upset \/ TurnInv(c), [Next]_vars
  PROVE  (upset \/ TurnInv(c))'
<1>1. ClientTypes
  BY DEF CallsInv
<1>2. CASE upset
  <2>1. upset'
    BY <1>2 DEF Next, Server, Client, Handle, Meters, Done, PushData, PushRefused, Succeed, Fail,
                Retry, AskToQuit, StopServer, vars, calls_
  <2> QED BY <2>1
<1>3. CASE TurnInv(c)
  <2>1. ASSUME NEW h \in Threads, Server(h) PROVE TurnInv(c)'
    BY <1>3, <2>1, TurnHandle, TurnDone, TurnMeterStep DEF Server, Meters
  <2>2. ASSUME NEW d \in Clients, Client(d) \/ AskToQuit(d) PROVE TurnInv(c)'
    BY <1>3, <2>2, TurnPush, TurnRefused, TurnSucceed, TurnAskStop DEF Client
  <2>3. ASSUME NEW d \in Clients, Fail(d) \/ Retry(d) PROVE upset'
    BY <2>3 DEF Fail, Retry
  <2>4. ASSUME StopServer PROVE TurnInv(c)'
    BY <1>3, <2>4, TurnAskStop
  <2>5. ASSUME Tick /\ UNCHANGED calls_ PROVE TurnInv(c)'
    BY <1>3, <2>5, TurnMeterStep
  <2>6. ASSUME UNCHANGED vars PROVE TurnInv(c)'
    BY <1>3, <2>6, TurnMeterStep DEF vars
  <2> QED BY <2>1, <2>2, <2>3, <2>4, <2>5, <2>6 DEF Next
<1> QED BY <1>2, <1>3

(* Whichever threads of the pool served its calls, the bytes the server    *)
(* metered are those of the calls of its one client that were answered.    *)
THEOREM MeterAgreesWithAcks == Spec => []MetersAgree
<1>1. ASSUME Cardinality(Clients) # 1 PROVE Spec => []MetersAgree
  <2>1. MetersAgree
    BY <1>1 DEF MetersAgree
  <2> QED BY <2>1, PTL
<1>2. ASSUME Cardinality(Clients) = 1 PROVE Spec => []MetersAgree
  <2>1. PICK c : Clients = {c}
    BY <1>2, BwRpcAssumption, FS_Singleton
  <2>2. Init => (upset \/ TurnInv(c))
    BY <2>1, TurnInit
  <2>3. WidthInv /\ CallsInv /\ (upset \/ TurnInv(c)) /\ [Next]_vars => (upset \/ TurnInv(c))'
    BY <2>1, TurnNext
  <2>4. WidthInv /\ CallsInv /\ (upset \/ TurnInv(c)) => MetersAgree
    <3> SUFFICES ASSUME CallsInv, TurnInv(c), ~disable, Quiet, \A h \in Threads : job[h] = None
                 PROVE  printed["bytes"] + word["bytes"]
                          = Size * (Cardinality(acks) + Cardinality(answers))
      BY DEF MetersAgree
    <3>1. InHandler = 0
      BY DEF InHandler
    <3>2. Cardinality(answers) = IF answers = {} THEN 0 ELSE 1
      <4>1. answers = {} \/ answers = {<<c, push[c], retried[c]>>}
        BY DEF TurnInv, OneWay
      <4> QED BY <4>1, FS_EmptySet, FS_Singleton
    <3>3. TakenUp = Cardinality(acks) + Cardinality(answers)
      <4>1. Cardinality(acks) \in Nat
        BY TakenUpType DEF TurnInv
      <4>2. Cardinality(answers) \in Nat
        BY <3>2
      <4>3. TakenUp = Cardinality(acks) + Cardinality(answers) + 0
        BY <3>1, <3>2 DEF TakenUp
      <4> QED BY <4>1, <4>2, <4>3
    <3>4. printed["bytes"] + word["bytes"] = added["bytes"]
      <4>1. 1 \in SumIndices /\ Words[1] = "bytes"
        BY WordsFacts, SumsFacts
      <4> QED BY <4>1 DEF TurnInv, SoloInv, Settled
    <3> QED BY <3>3, <3>4 DEF TurnInv, Tally
  <2> QED BY <2>2, <2>3, <2>4, RpcInvariance, PTL DEF Spec
<1> QED BY <1>1, <1>2

=============================================================================
