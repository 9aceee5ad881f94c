--------------------------- MODULE HeadersProofs ---------------------------
(***************************************************************************)
(* What is proved of Headers for every list of headers, every timeout and   *)
(* every change of the policy.                                              *)
(*                                                                          *)
(* The loop of microsToInterval divides an amount again and again; it is    *)
(* shown to have the amounts that dividing at once gives (AmountsAre), and  *)
(* what is lost of an interval is then a remainder. Timeouts are kept by    *)
(* InvT, metadata by Conveyed, which says what was sent in terms of what    *)
(* was asked.                                                               *)
(***************************************************************************)
EXTENDS Headers, WellFoundedInduction, NaturalsInduction, TLAPS

(* Division *)

(* Quotients are unique. *)
LEMMA QuotientIs ==
  ASSUME NEW a \in Nat, NEW d \in Nat \ {0}, NEW q \in Int, NEW r \in 0..(d - 1), a = d * q + r
  PROVE  a \div d = q /\ a % d = r
OBVIOUS

(* Quotient and remainder. *)
LEMMA DivFacts ==
  ASSUME NEW a \in Nat, NEW d \in Nat \ {0}
  PROVE  a \div d \in Nat /\ a % d \in 0..(d - 1) /\ a = d * (a \div d) + (a % d)
OBVIOUS

(* Dividing twice is dividing once by the product. *)
LEMMA DivDiv ==
  ASSUME NEW a \in Nat, NEW b \in Nat \ {0}, NEW c \in Nat \ {0}
  PROVE  (a \div b) \div c = a \div (b * c)
<1> DEFINE q == a \div b
           r == a % b
           p == q \div c
           t == q % c
<1>1. q \in Nat /\ r \in 0..(b - 1) /\ a = b * q + r
  BY DivFacts
<1>2. p \in Nat /\ t \in 0..(c - 1) /\ q = c * p + t
  BY <1>1, DivFacts
<1> HIDE DEF q, r, p, t
<1>3. a = (b * c) * p + (b * t + r)
  BY <1>1, <1>2
<1>4. b * t <= b * (c - 1)
  BY <1>2
<1>5. b * t + r \in 0..((b * c) - 1)
  BY <1>1, <1>2, <1>4
<1>6. b * c \in Nat \ {0}
  OBVIOUS
<1>7. a \div (b * c) = p
  <2> DEFINE d == b * c
             e == b * t + r
  <2>1. d \in Nat \ {0} /\ e \in 0..(d - 1) /\ a = d * p + e /\ p \in Int
    BY <1>2, <1>3, <1>5, <1>6
  <2> HIDE DEF d, e
  <2>2. a \div d = p
    BY <2>1, QuotientIs
  <2> QED
    BY <2>2 DEF d
<1> QED
  BY <1>7 DEF p, q

(* The more is divided, the larger the quotient. *)
LEMMA DivMonotone ==
  ASSUME NEW a \in Nat, NEW b \in Nat, a <= b, NEW d \in Nat \ {0}
  PROVE  a \div d <= b \div d
<1>1. /\ a \div d \in Nat /\ a % d \in 0..(d - 1) /\ a = d * (a \div d) + (a % d)
      /\ b \div d \in Nat /\ b % d \in 0..(d - 1) /\ b = d * (b \div d) + (b % d)
  BY DivFacts
<1>2. ASSUME NEW x \in Nat, NEW y \in Nat, x > y PROVE d * x >= d * y + d
  BY <1>2
<1> QED
  BY <1>1, <1>2

(* The larger the divisor, the smaller the quotient. *)
LEMMA DivByMore ==
  ASSUME NEW a \in Nat, NEW d \in Nat \ {0}, NEW e \in Nat, e >= d
  PROVE  a \div e <= a \div d
<1>1. /\ a \div d \in Nat /\ a % d \in 0..(d - 1) /\ a = d * (a \div d) + (a % d)
      /\ a \div e \in Nat /\ a % e \in 0..(e - 1) /\ a = e * (a \div e) + (a % e)
  <2>1. e \in Nat \ {0}
    OBVIOUS
  <2> QED
    BY <2>1, DivFacts
<1>2. e * (a \div e) >= d * (a \div e)
  BY <1>1
<1>3. ASSUME NEW x \in Nat, NEW y \in Nat, x > y PROVE d * x >= d * y + d
  BY <1>3
<1> QED
  BY <1>1, <1>2, <1>3

-----------------------------------------------------------------------------
(* Intervals *)

(* How the units are related. *)
LEMMA UnitFacts ==
  /\ Units = {1, 2, 3, 4, 5}
  /\ \A s \in Units : microsBySuffix[s] \in Nat \ {0}
  /\ microsBySuffix[u] = 1 /\ microsBySuffix[m] = Thousand
  /\ \A s \in Units : \A w \in s..H : microsBySuffix[w] >= microsBySuffix[s]
  /\ \A w \in 2..H : Ratio(w - 1) \in Nat \ {0}
                     /\ microsBySuffix[w] = microsBySuffix[w - 1] * Ratio(w - 1)
<1>1. Units = {1, 2, 3, 4, 5}
  BY DEF Units, u, H
<1> DEFINE a == Thousand
           b == a * a
           c == b * Sixty
           d == c * Sixty
<1>2. /\ microsBySuffix[1] = 1 /\ microsBySuffix[2] = a /\ microsBySuffix[3] = b
      /\ microsBySuffix[4] = c /\ microsBySuffix[5] = d
  BY <1>1 DEF microsBySuffix, u, m, S, M, H
<1>3. /\ a \in Nat \ {0} /\ b \in Nat \ {0} /\ c \in Nat \ {0} /\ d \in Nat \ {0}
      /\ 1 <= a /\ a <= b /\ b <= c /\ c <= d
  BY IntervalAssumption
<1>4. /\ Ratio(1) = Thousand /\ Ratio(2) = Thousand /\ Ratio(3) = Sixty /\ Ratio(4) = Sixty
  BY DEF Ratio, S
<1>5. \A w \in 2..5 : Ratio(w - 1) \in Nat \ {0}
                     /\ microsBySuffix[w] = microsBySuffix[w - 1] * Ratio(w - 1)
  <2>1. a = 1 * Thousand
    BY IntervalAssumption
  <2>2. /\ microsBySuffix[2] = microsBySuffix[1] * Ratio(1)
        /\ microsBySuffix[3] = microsBySuffix[2] * Ratio(2)
        /\ microsBySuffix[4] = microsBySuffix[3] * Ratio(3)
        /\ microsBySuffix[5] = microsBySuffix[4] * Ratio(4)
    BY <1>2, <1>4, <2>1
  <2>3. \A w \in 2..5 : w = 2 \/ w = 3 \/ w = 4 \/ w = 5
    OBVIOUS
  <2> QED
    BY <1>4, <2>2, <2>3, IntervalAssumption
<1> HIDE DEF a, b, c, d
<1>6. \A s \in Units : \A w \in s..5 : microsBySuffix[w] >= microsBySuffix[s]
  BY <1>1, <1>2, <1>3
<1> QED
  BY <1>1, <1>2, <1>3, <1>5, <1>6 DEF u, m, H, a

(* The amounts of the loop are those that dividing at once gives. *)
LEMMA AmountsAre ==
  ASSUME NEW micros \in Nat, NEW s \in Units
  PROVE  Amounts(micros, s) = [w \in s..H |-> micros \div microsBySuffix[w]]
<1> DEFINE Is(f) == f = [w \in s..H |-> IF w = s THEN micros \div microsBySuffix[s]
                                       ELSE f[w - 1] \div Ratio(w - 1)]
           g == [w \in s..H |-> micros \div microsBySuffix[w]]
           f == CHOOSE x : Is(x)
<1>1. ASSUME NEW w \in s..H, w # s
      PROVE  /\ w - 1 \in s..H /\ w \in 2..H
             /\ micros \div microsBySuffix[w] = (micros \div microsBySuffix[w - 1]) \div Ratio(w - 1)
  <2>1. /\ w - 1 \in s..H /\ w \in 2..H /\ w - 1 \in Units
    BY <1>1, UnitFacts DEF H
  <2>2. /\ microsBySuffix[w - 1] \in Nat \ {0} /\ Ratio(w - 1) \in Nat \ {0}
        /\ microsBySuffix[w] = microsBySuffix[w - 1] * Ratio(w - 1)
    BY <2>1, UnitFacts
  <2> QED
    BY <2>1, <2>2, DivDiv
<1>2. Is(g)
  BY <1>1
<1>3. Is(f)
  BY <1>2
<1>4. Amounts(micros, s) = f
  BY DEF Amounts
<1> HIDE DEF f
<1>5. \A w \in s..H : f[w] = IF w = s THEN micros \div microsBySuffix[s] ELSE f[w - 1] \div Ratio(w - 1)
  BY <1>3
<1>6. \A w \in s..H : w - 1 \in s..H /\ f[w - 1] = g[w - 1] => f[w] = g[w]
  BY <1>1, <1>5
<1>7. f[s] = g[s] /\ s \in s..H
  <2>1. s \in s..H
    BY DEF Units, u, H
  <2> QED
    BY <1>5, <2>1
<1>8. \A w \in s..H : f[w] = g[w]
  <2> DEFINE Same(w) == w \in s..H => f[w] = g[w]
  <2>1. \A w \in 1..4 : Same(w) => Same(w + 1)
    <3> SUFFICES ASSUME NEW w \in 1..4, Same(w), w + 1 \in s..H PROVE f[w + 1] = g[w + 1]
      OBVIOUS
    <3>1. CASE w \in s..H
      <4>1. (w + 1) - 1 = w
        OBVIOUS
      <4> QED
        BY <1>6, <3>1, <4>1
    <3>2. CASE w \notin s..H
      <4>1. w + 1 = s
        BY <3>2, UnitFacts DEF H
      <4> QED
        BY <1>7, <4>1
    <3> QED
      BY <3>1, <3>2
  <2>2. Same(1)
    <3>1. 1 \in s..H => s = 1
      BY UnitFacts DEF H
    <3> QED
      BY <1>7, <3>1
  <2> HIDE DEF Same
  <2>3. Same(1) /\ Same(1 + 1) /\ Same(2 + 1) /\ Same(3 + 1) /\ Same(4 + 1)
    BY <2>1, <2>2
  <2>4. \A w \in s..H : w \in {1, 1 + 1, 2 + 1, 3 + 1, 4 + 1}
    BY UnitFacts DEF H
  <2> QED
    BY <2>3, <2>4 DEF Same
<1>9. f = g
  BY <1>3, <1>8
<1> QED
  BY <1>4, <1>9

(* Units are numbers from 1 to 5. *)
LEMMA UnitsAre == Units = {1, 2, 3, 4, 5} /\ H = 5 /\ u = 1
  BY DEF Units, u, H

(* Sets of units have a least and a greatest one. *)
LEMMA LeastUnit ==
  ASSUME NEW T \in SUBSET Units, T # {}
  PROVE  /\ Min(T) \in T /\ \A w \in T : Min(T) <= w
         /\ Max(T) \in T /\ \A w \in T : Max(T) >= w
<1>1. T \subseteq {1, 2, 3, 4, 5}
  BY UnitsAre
<1>2. \E x \in T : \A y \in T : x <= y
  <2>1. CASE 1 \in T
    <3>1. \A y \in T : y \in {1, 2, 3, 4, 5}
      BY <1>1, <2>1
    <3>2. \A y \in T : 1 <= y
      BY <3>1
    <3> QED
      BY <2>1, <3>2
  <2>2. CASE 2 \in T /\ 1 \notin T
    <3>1. \A y \in T : y \in {2, 3, 4, 5}
      BY <1>1, <2>2
    <3>2. \A y \in T : 2 <= y
      BY <3>1
    <3> QED
      BY <2>2, <3>2
  <2>3. CASE 3 \in T /\ 1 \notin T /\ 2 \notin T
    <3>1. \A y \in T : y \in {3, 4, 5}
      BY <1>1, <2>3
    <3>2. \A y \in T : 3 <= y
      BY <3>1
    <3> QED
      BY <2>3, <3>2
  <2>4. CASE 4 \in T /\ 1 \notin T /\ 2 \notin T /\ 3 \notin T
    <3>1. \A y \in T : y \in {4, 5}
      BY <1>1, <2>4
    <3>2. \A y \in T : 4 <= y
      BY <3>1
    <3> QED
      BY <2>4, <3>2
  <2>5. CASE 5 \in T /\ 1 \notin T /\ 2 \notin T /\ 3 \notin T /\ 4 \notin T
    <3>1. \A y \in T : y \in {5}
      BY <1>1, <2>5
    <3>2. \A y \in T : 5 <= y
      BY <3>1
    <3> QED
      BY <2>5, <3>2
  <2> QED
    BY <1>1, <2>1, <2>2, <2>3, <2>4, <2>5
<1>3. \E x \in T : \A y \in T : x >= y
  <2>1. CASE 5 \in T
    <3>1. \A y \in T : y \in {1, 2, 3, 4, 5}
      BY <1>1, <2>1
    <3>2. \A y \in T : 5 >= y
      BY <3>1
    <3> QED
      BY <2>1, <3>2
  <2>2. CASE 4 \in T /\ 5 \notin T
    <3>1. \A y \in T : y \in {1, 2, 3, 4}
      BY <1>1, <2>2
    <3>2. \A y \in T : 4 >= y
      BY <3>1
    <3> QED
      BY <2>2, <3>2
  <2>3. CASE 3 \in T /\ 5 \notin T /\ 4 \notin T
    <3>1. \A y \in T : y \in {1, 2, 3}
      BY <1>1, <2>3
    <3>2. \A y \in T : 3 >= y
      BY <3>1
    <3> QED
      BY <2>3, <3>2
  <2>4. CASE 2 \in T /\ 5 \notin T /\ 4 \notin T /\ 3 \notin T
    <3>1. \A y \in T : y \in {1, 2}
      BY <1>1, <2>4
    <3>2. \A y \in T : 2 >= y
      BY <3>1
    <3> QED
      BY <2>4, <3>2
  <2>5. CASE 1 \in T /\ 5 \notin T /\ 4 \notin T /\ 3 \notin T /\ 2 \notin T
    <3>1. \A y \in T : y \in {1}
      BY <1>1, <2>5
    <3>2. \A y \in T : 1 >= y
      BY <3>1
    <3> QED
      BY <2>5, <3>2
  <2> QED
    BY <1>1, <2>1, <2>2, <2>3, <2>4, <2>5
<1> QED
  BY <1>2, <1>3 DEF Min, Max

(* The interval that is made of a number of microseconds, starting at unit s: *)
(* of the units from s to hours, the first with an amount that fits.          *)
LEMMA FittedFacts ==
  ASSUME NEW micros \in Nat, NEW s \in Units
  PROVE  \E w \in s..H :
           /\ w \in Units
           /\ Fitted(micros, s) = [amt |-> micros \div microsBySuffix[w], unit |-> w]
           /\ micros \div microsBySuffix[w] <= MaxInterval \/ w = H
           /\ \A v \in s..(w - 1) : micros \div microsBySuffix[v] > MaxInterval
<1> DEFINE amt == [v \in s..H |-> micros \div microsBySuffix[v]]
           T == {v \in s..H : amt[v] <= MaxInterval \/ v = H}
           w == Min(T)
<1>1. Fitted(micros, s) = [amt |-> amt[w], unit |-> w]
  BY AmountsAre DEF Fitted
<1>2. s \in Units /\ s..H \subseteq Units /\ H \in s..H
  BY UnitsAre
<1>3. T \in SUBSET Units /\ T # {}
  BY <1>2
<1>4. w \in T /\ \A v \in T : w <= v
  <2> HIDE DEF T
  <2> QED
    BY <1>3, LeastUnit
<1>5. w \in s..H /\ (amt[w] <= MaxInterval \/ w = H)
  BY <1>4
<1>6. ASSUME NEW v \in s..(w - 1) PROVE amt[v] > MaxInterval /\ v \in s..H
  <2>1. w \in s..5 /\ s \in 1..5 /\ H = 5
    BY <1>5, UnitsAre
  <2> HIDE DEF w
  <2>2. v \in s..H /\ ~(w <= v)
    BY <2>1
  <2>3. v \notin T
    BY <1>4, <2>2
  <2>4. microsBySuffix[v] \in Nat \ {0}
    BY <1>2, <2>2, UnitFacts
  <2>5. micros \div microsBySuffix[v] \in Nat
    BY <2>4, DivFacts
  <2>6. amt[v] \in Nat
    BY <2>2, <2>5
  <2> HIDE DEF amt
  <2> QED
    BY <2>2, <2>3, <2>6, IntervalAssumption
<1> HIDE DEF w
<1> QED
  BY <1>1, <1>2, <1>5, <1>6

(* Such an interval keeps what can be kept. *)
LEMMA FittedKeeps ==
  ASSUME NEW micros \in Nat, NEW s \in Units, micros % microsBySuffix[s] = 0,
         Fitted(micros, s).amt <= MaxInterval
  PROVE  Fitted(micros, s) \in Interval /\ Keeps(Fitted(micros, s), micros)
<1>1. PICK w \in s..H :
           /\ w \in Units
           /\ Fitted(micros, s) = [amt |-> micros \div microsBySuffix[w], unit |-> w]
           /\ \A v \in s..(w - 1) : micros \div microsBySuffix[v] > MaxInterval
  BY FittedFacts
<1> DEFINE d == microsBySuffix[w]
<1>2. d \in Nat \ {0}
  BY <1>1, UnitFacts
<1>3. micros \div d \in Nat /\ micros % d \in 0..(d - 1) /\ micros = d * (micros \div d) + (micros % d)
  BY <1>2, DivFacts
<1>4. micros - intervalToMicros(Fitted(micros, s)) = micros % d
  BY <1>1, <1>2, <1>3 DEF intervalToMicros
<1>5. Fitted(micros, s) \in Interval
  BY <1>1, <1>3, IntervalAssumption DEF Interval
<1>6. ASSUME micros % d > 0, NEW v \in u..(w - 1)
      PROVE  micros \div microsBySuffix[v] > MaxInterval
  <2>1. w # s /\ w \in s..5 /\ s \in 1..5 /\ v \in 1..(w - 1)
    BY <1>6, UnitsAre
  <2>2. CASE v \in s..(w - 1)
    BY <1>1, <2>2
  <2>3. CASE v < s
    <3>1. v \in Units /\ s \in v..H /\ s \in s..(w - 1)
      BY <2>1, <2>3, UnitsAre
    <3>2. /\ microsBySuffix[v] \in Nat \ {0} /\ microsBySuffix[s] \in Nat
          /\ microsBySuffix[s] \in Nat \ {0} /\ microsBySuffix[s] >= microsBySuffix[v]
      BY <3>1, UnitFacts
    <3>3. micros \div microsBySuffix[s] <= micros \div microsBySuffix[v]
      BY <3>2, DivByMore
    <3>4. micros \div microsBySuffix[s] > MaxInterval
      BY <1>1, <3>1
    <3>5. micros \div microsBySuffix[s] \in Nat /\ micros \div microsBySuffix[v] \in Nat
      BY <3>2, DivFacts
    <3> QED
      BY <3>3, <3>4, <3>5, IntervalAssumption
  <2> QED
    BY <2>1, <2>2, <2>3
<1>7. Fitted(micros, s).unit = w
  BY <1>1
<1> QED
  BY <1>2, <1>3, <1>4, <1>5, <1>6, <1>7 DEF Keeps

(* What microsToInterval (codec.js) gives for any number of microseconds is   *)
(* an interval that keeps what can be kept of it, and it throws only if not   *)
(* even hours fit.                                                            *)
THEOREM MicrosToInterval ==
  ASSUME NEW micros \in Nat
  PROVE  \/ microsToInterval(micros) \in Interval /\ Keeps(microsToInterval(micros), micros)
         \/ microsToInterval(micros) = RangeError /\ micros \div microsBySuffix[H] > MaxInterval
<1> DEFINE fits == {s \in Units : /\ micros % microsBySuffix[s] = 0
                                  /\ Fitted(micros, s).amt <= MaxInterval}
<1>1. microsToInterval(micros) = IF fits = {} THEN RangeError ELSE Fitted(micros, Max(fits))
  BY DEF microsToInterval
<1>2. CASE fits # {}
  <2>1. Max(fits) \in fits
    <3>1. fits \in SUBSET Units
      OBVIOUS
    <3> HIDE DEF fits
    <3> QED
      BY <1>2, <3>1, LeastUnit
  <2>2. /\ Max(fits) \in Units /\ micros % microsBySuffix[Max(fits)] = 0
        /\ Fitted(micros, Max(fits)).amt <= MaxInterval
    BY <2>1
  <2> HIDE DEF fits
  <2> QED
    BY <1>1, <1>2, <2>2, FittedKeeps
<1>3. CASE fits = {}
  <2>1. 1 \in Units /\ microsBySuffix[1] = 1 /\ 1 \notin fits
    BY <1>3, UnitFacts DEF u
  <2>2. micros % 1 = 0
    OBVIOUS
  <2>3. ~(Fitted(micros, 1).amt <= MaxInterval)
    BY <2>1, <2>2
  <2>4. PICK w \in 1..H :
           /\ w \in Units
           /\ Fitted(micros, 1) = [amt |-> micros \div microsBySuffix[w], unit |-> w]
           /\ micros \div microsBySuffix[w] <= MaxInterval \/ w = H
    BY <2>1, FittedFacts
  <2>5. w = H /\ ~(micros \div microsBySuffix[H] <= MaxInterval)
    BY <2>3, <2>4
  <2>6. H \in Units
    BY UnitsAre
  <2>7. microsBySuffix[H] \in Nat \ {0}
    BY <2>6, UnitFacts
  <2>8. micros \div microsBySuffix[H] \in Nat
    BY <2>7, DivFacts
  <2> QED
    BY <1>1, <1>3, <2>5, <2>8, IntervalAssumption
<1> QED
  BY <1>2, <1>3

-----------------------------------------------------------------------------
(* The timeouts of requests *)

LEMMA TimeoutTypes ==
  ASSUME NEW t \in Timeout
  PROVE  /\ t.kind \in {"date", "interval", "bad"} /\ t.lower \in BOOLEAN
         /\ t.kind = "date" => t.gap \in Int
         /\ t.kind = "interval" => t.interval \in Interval
BY DEF Timeout

(* An interval is kept by itself. *)
LEMMA IntervalMicros ==
  ASSUME NEW i \in Interval
  PROVE  /\ i # RangeError /\ intervalToMicros(i) \in Nat /\ Keeps(i, intervalToMicros(i))
<1>1. /\ i.unit \in Units /\ i.amt \in Nat /\ i.unit # 0
  BY UnitsAre, IntervalAssumption DEF Interval
<1>2. microsBySuffix[i.unit] \in Nat \ {0}
  BY <1>1, UnitFacts
<1>3. i # RangeError
  BY <1>1 DEF RangeError
<1>4. intervalToMicros(i) \in Nat
  BY <1>1, <1>2 DEF intervalToMicros
<1> QED
  BY <1>2, <1>3, <1>4 DEF Keeps

(* Whole milliseconds are whole eighths of one. *)
LEMMA WholeEighths ==
  ASSUME NEW n \in Nat, n % Thousand = 0
  PROVE  n % Grain = 0
<1> DEFINE k == Thousand \div Grain
           q == n \div Thousand
<1>1. k \in Nat /\ Thousand = Grain * k + (Thousand % Grain)
  BY DivFacts, IntervalAssumption, HeadersAssumption
<1>2. q \in Nat /\ n = Thousand * q + (n % Thousand)
  BY DivFacts, IntervalAssumption
<1> HIDE DEF k, q
<1>3. Grain \in Nat \ {0} /\ Thousand \in Nat \ {0} /\ Thousand = Grain * k /\ n = Thousand * q
  BY <1>1, <1>2, IntervalAssumption, HeadersAssumption
<1>4. n = Grain * (k * q) + 0 /\ k * q \in Int /\ 0 \in 0..(Grain - 1)
  BY <1>1, <1>2, <1>3
<1> QED
  BY <1>3, <1>4, QuotientIs

(* So many milliseconds, in microseconds. *)
LEMMA MillisAreWhole ==
  ASSUME NEW n \in Int
  PROVE  n * Thousand \in Int /\ (n * Thousand >= 0 => n * Thousand \in Nat /\ (n * Thousand) % Thousand = 0)
<1>1. Thousand \in Nat \ {0}
  BY IntervalAssumption
<1>2. n * Thousand \in Int /\ (n * Thousand >= 0 => n * Thousand \in Nat)
  BY <1>1
<1>3. ASSUME n * Thousand >= 0 PROVE (n * Thousand) % Thousand = 0
  <2>1. n * Thousand = Thousand * n + 0 /\ 0 \in 0..(Thousand - 1)
    BY <1>1
  <2> QED
    BY <1>1, <1>2, <1>3, <2>1, QuotientIs
<1> QED
  BY <1>2, <1>3

(* A deadline in the past leaves no time, which can be encoded. *)
LEMMA NoGap == /\ 0 % Grain = 0 /\ ~(0 \div microsBySuffix[H] > MaxInterval)
<1>1. /\ microsBySuffix[H] \in Nat \ {0} /\ Grain \in Nat \ {0} /\ MaxInterval \in Nat
  BY UnitFacts, UnitsAre, HeadersAssumption, IntervalAssumption
<1>2. \A d \in Nat \ {0} : 0 \div d = 0 /\ 0 % d = 0
  <2> SUFFICES ASSUME NEW d \in Nat \ {0} PROVE 0 \div d = 0 /\ 0 % d = 0
    OBVIOUS
  <2>1. 0 = d * 0 + 0 /\ 0 \in 0..(d - 1)
    OBVIOUS
  <2> QED
    BY <2>1, QuotientIs
<1>3. 0 % Grain = 0 /\ 0 \div microsBySuffix[H] = 0
  BY <1>1, <1>2
<1> QED
  BY <1>1, <1>3

(* A gap is encoded unless it is too long or in parts of a millisecond. *)
LEMMA EncodedGapFacts ==
  ASSUME NEW micros \in Int, NEW g, g = Gap(micros)
  PROVE  /\ g \in Nat
         /\ \/ EncodedGap(g) \in Interval /\ Keeps(EncodedGap(g), g)
            \/ EncodedGap(g) = RangeError /\ micros \in Nat
                 /\ (micros % Thousand # 0 \/ micros \div microsBySuffix[H] > MaxInterval)
<1>1. g \in Nat /\ (g = 0 \/ (g = micros /\ micros \in Nat))
  BY DEF Gap
<1>2. CASE g % Grain = 0
  <2>1. EncodedGap(g) = microsToInterval(g)
    BY <1>2 DEF EncodedGap
  <2>2. \/ microsToInterval(g) \in Interval /\ Keeps(microsToInterval(g), g)
        \/ microsToInterval(g) = RangeError /\ g \div microsBySuffix[H] > MaxInterval
    BY <1>1, MicrosToInterval
  <2> QED
    BY <1>1, <2>1, <2>2, NoGap
<1>3. CASE g % Grain # 0
  <2>1. EncodedGap(g) = RangeError
    BY <1>3 DEF EncodedGap
  <2>2. g = micros /\ micros \in Nat
    BY <1>1, <1>3, NoGap
  <2>3. micros % Thousand # 0
    BY <1>3, <2>2, WholeEighths
  <2> QED
    BY <1>1, <2>1, <2>2, <2>3
<1> QED
  BY <1>2, <1>3

(* What a request is to send, in microseconds. *)
Bounded(t, left) == IsGood(t) /\ t.lower /\ left # None /\ left * Thousand < Own(t)
Given(t, left) == Gap(IF Bounded(t, left) THEN left * Thousand ELSE Own(t))

(* What is sent for a good timeout keeps what was meant, and a good timeout  *)
(* is refused only for its own length.                                       *)
LEMMA ToSendFacts ==
  ASSUME NEW t \in Timeout, NEW left \in Int \cup {None}, IsGood(t)
  PROVE  /\ ~TimeoutThrows(t, left) => /\ ToSend(t, left) \in Interval
                                       /\ Keeps(ToSend(t, left), Given(t, left))
         /\ TimeoutThrows(t, left) /\ t.lower =>
              \/ Own(t) % Thousand # 0
              \/ Own(t) \div microsBySuffix[H] > MaxInterval
<1> DEFINE Fails == TimeoutThrows(t, left)
           send == ToSend(t, left)
<1>1. /\ t.kind \in {"date", "interval"} /\ t.lower \in BOOLEAN
      /\ t.kind = "date" => t.gap \in Int
      /\ t.kind = "interval" => t.interval \in Interval
  BY TimeoutTypes DEF IsGood
<1>2. Own(t) \in Int
  BY <1>1, MillisAreWhole, IntervalMicros DEF Own
<1>3. Fails <=> send = RangeError \/ (~t.lower /\ t.kind # "interval")
  BY DEF TimeoutThrows, IsGood
<1>4. CASE left # None /\ t.lower
  <2> DEFINE lim == left * Thousand
             r == resultDeadline(Own(t), left)
  <2>1. left \in Int /\ lim \in Int
    BY <1>4, MillisAreWhole
  <2>2. send = EncodedGap(Gap(r))
    BY <1>4 DEF ToSend
  <2>3. /\ r = (IF Bounded(t, left) THEN lim ELSE Own(t)) /\ r \in Int
        /\ r <= Own(t) /\ (r = lim \/ r = Own(t))
    BY <1>2, <1>4, <2>1 DEF resultDeadline, Bounded
  <2>4. Given(t, left) = Gap(r)
    BY <2>3 DEF Given
  <2> HIDE DEF r
  <2>5. \/ send \in Interval /\ Keeps(send, Gap(r))
        \/ send = RangeError /\ r \in Nat
             /\ (r % Thousand # 0 \/ r \div microsBySuffix[H] > MaxInterval)
    BY <2>2, <2>3, EncodedGapFacts
  <2>6. ASSUME r \in Nat, r % Thousand # 0 PROVE Own(t) % Thousand # 0
    BY <2>1, <2>3, <2>6, MillisAreWhole
  <2>7. ASSUME r \in Nat, r \div microsBySuffix[H] > MaxInterval
        PROVE  Own(t) \div microsBySuffix[H] > MaxInterval
    <3>1. Own(t) \in Nat /\ r <= Own(t) /\ microsBySuffix[H] \in Nat \ {0}
      BY <1>2, <2>3, <2>7, UnitFacts, UnitsAre
    <3>2. r \div microsBySuffix[H] <= Own(t) \div microsBySuffix[H]
      BY <2>7, <3>1, DivMonotone
    <3>3. /\ r \div microsBySuffix[H] \in Nat /\ Own(t) \div microsBySuffix[H] \in Nat
      BY <2>7, <3>1, DivFacts
    <3> QED
      BY <2>7, <3>2, <3>3, IntervalAssumption
  <2>8. send \in Interval => send # RangeError
    BY IntervalMicros
  <2> QED
    BY <1>3, <1>4, <2>4, <2>5, <2>6, <2>7, <2>8
<1>5. CASE ~(left # None /\ t.lower) /\ t.kind = "date"
  <2>1. send = EncodedGap(Gap(Own(t))) /\ Given(t, left) = Gap(Own(t))
    BY <1>5 DEF ToSend, Given, Bounded
  <2>2. \/ send \in Interval /\ Keeps(send, Gap(Own(t)))
        \/ send = RangeError
             /\ (Own(t) % Thousand # 0 \/ Own(t) \div microsBySuffix[H] > MaxInterval)
    BY <1>2, <2>1, EncodedGapFacts
  <2>3. send \in Interval => send # RangeError
    BY IntervalMicros
  <2> QED
    BY <1>1, <1>3, <2>1, <2>2, <2>3
<1>6. CASE ~(left # None /\ t.lower) /\ t.kind = "interval"
  <2>1. send = t.interval /\ Given(t, left) = Gap(intervalToMicros(t.interval)) /\ t.interval \in Interval
    BY <1>1, <1>6 DEF ToSend, Given, Bounded, Own
  <2>2. /\ t.interval # RangeError /\ intervalToMicros(t.interval) \in Nat
        /\ Keeps(t.interval, intervalToMicros(t.interval))
    BY <2>1, IntervalMicros
  <2>3. Given(t, left) = intervalToMicros(t.interval)
    BY <2>1, <2>2 DEF Gap
  <2> QED
    BY <1>3, <1>6, <2>1, <2>2, <2>3
<1> QED
  BY <1>1, <1>4, <1>5, <1>6

(* How far the variables are: the timer is set when the request arrives, the  *)
(* timeout when it is sent, what was asked when it is started.                *)
Stages ==
  /\ presetTimeout # None =>
       IsGood(presetTimeout) /\ presetTimeout.lower /\ ToSend(presetTimeout, None) # RangeError
  /\ phase \in {"new", "made", "updating"} => wireTimeout = None
  /\ phase \in {"new", "made", "updating", "sent", "thrown", "cancelled"} => timer = None
  /\ phase \in {"sent", "thrown", "received", "answered", "finished"} => asked \in Asked

InvT == TypeOK /\ Stages /\ TimeoutIsKept

LEMMA AskTypes ==
  ASSUME NEW a \in Asked
  PROVE  a.headers \in HeaderList /\ a.timeout \in Timeout \cup {None} /\ a.left \in Int \cup {None}
BY HeadersAssumption DEF Ask

(* A request is sent with the timeout it was asked for, or is refused for it. *)
LEMMA StartKeeps ==
  ASSUME InvT, NEW sec \in BOOLEAN, NEW a \in Asked, StartWith(sec, a), phase \in {"made", "updating"}
  PROVE  InvT'
<1> DEFINE t == a.timeout
<1>1. /\ wireTimeout = None /\ timer = None /\ timer' = None /\ policy' = policy /\ asked' = a /\ secure' = sec
      /\ answered' = answered /\ trailing' = trailing
      /\ plain' = plain /\ preset' = preset /\ presetTimeout' = presetTimeout
  BY DEF InvT, Stages, StartWith, response
<1>2. /\ policy \in Policies /\ answered \in Replies \cup {<<>>} /\ trailing \in Replies \cup {<<>>}
      /\ plain \in BOOLEAN /\ preset \in Seq(Presets) /\ presetTimeout \in PresetTimeouts \cup {None}
  BY DEF InvT, TypeOK
<1>3. t \in Timeout \cup {None} /\ a.left \in Int \cup {None}
  BY AskTypes
<1>4. CASE Send(sec, a)
  <2>1. /\ phase' = "sent" /\ ~TimeoutThrows(t, a.left)
        /\ wireTimeout' = IF Wanted(a) = None THEN None
                          ELSE ToSend(Wanted(a), IF IsGood(t) THEN a.left ELSE None)
    BY <1>4 DEF Send, Throws
  <2>2. IsGood(t) => t \in Timeout
    BY <1>3 DEF IsGood
  <2> DEFINE w == Wanted(a)
             gap == Gap(IF Bounded(t, a.left) THEN a.left * Thousand ELSE Own(w))
  <2> DEFINE Kept == /\ wireTimeout' \in Interval \cup {None}
                     /\ wireTimeout' # None => Keeps(wireTimeout', gap)
  <2>7. ASSUME IsGood(t) PROVE Kept
    <3>1. w = t /\ t # None
      BY <2>7 DEF Wanted, IsGood
    <3> HIDE DEF w
    <3>2. wireTimeout' = ToSend(t, a.left) /\ Given(t, a.left) = gap
      BY <2>1, <2>7, <3>1 DEF Given, w
    <3> QED
      BY <1>3, <2>1, <2>2, <2>7, <3>2, ToSendFacts
  <2>8. ASSUME ~IsGood(t) PROVE Kept
    <3>1. w = presetTimeout
      BY <2>8 DEF Wanted
    <3>2. gap = Gap(Own(w))
      BY <2>8 DEF Bounded
    <3> HIDE DEF w, gap
    <3>3. wireTimeout' = IF w = None THEN None ELSE ToSend(w, None)
      BY <2>1, <2>8 DEF w
    <3>4. ASSUME w # None PROVE Kept
      <4>1. w \in Timeout /\ IsGood(w) /\ ToSend(w, None) # RangeError /\ w.lower
        BY <1>2, <3>1, <3>4, HeadersAssumption DEF InvT, Stages
      <4>2. ~TimeoutThrows(w, None)
        BY <4>1 DEF TimeoutThrows
      <4>3. Given(w, None) = gap
        BY <3>2 DEF Given, Bounded
      <4> QED
        BY <3>3, <3>4, <4>1, <4>2, <4>3, ToSendFacts
    <3> QED
      BY <3>3, <3>4
  <2>3. /\ wireTimeout' \in Interval \cup {None}
        /\ wireTimeout' # None => Keeps(wireTimeout', gap)
    BY <2>7, <2>8
  <2> HIDE DEF w, gap
  <2>4. TypeOK'
    BY <1>1, <1>2, <2>1, <2>3 DEF TypeOK
  <2>5. Stages'
    BY <1>1, <2>1 DEF InvT, Stages, ToSend
  <2>6. TimeoutIsKept'
    BY <1>1, <2>1, <2>3 DEF TimeoutIsKept, Bounded, Wanted, w, gap
  <2> QED
    BY <2>4, <2>5, <2>6 DEF InvT
<1>5. CASE Throw(sec, a)
  <2>1. /\ phase' = "thrown" /\ wireTimeout' = None
        /\ Throws(sec, a) \/ (t # None /\ ~IsGood(t))
    BY <1>1, <1>5 DEF Throw
  <2>2. TypeOK'
    BY <1>1, <1>2, <2>1 DEF TypeOK
  <2>3. Stages'
    BY <1>1, <2>1 DEF InvT, Stages, ToSend
  <2>4. ASSUME IsGood(t), t.lower, \A i \in DOMAIN a.headers : ~Blocked(sec, a.headers[i].name)
        PROVE  Own(t) % Thousand # 0 \/ Own(t) \div microsBySuffix[H] > MaxInterval
    <3>1. TimeoutThrows(t, a.left)
      BY <2>1, <2>4 DEF Throws, PolicyThrows
    <3>2. t \in Timeout
      BY <1>3, <2>4 DEF IsGood
    <3> QED
      BY <1>3, <2>4, <3>1, <3>2, ToSendFacts
  <2>5. TimeoutIsKept'
    BY <1>1, <2>1, <2>4 DEF TimeoutIsKept, Blocked
  <2> QED
    BY <2>2, <2>3, <2>5 DEF InvT
<1> QED
  BY <1>4, <1>5 DEF StartWith

(* The timer is due at the whole millisecond before what was sent says. *)
LEMMA ReceiveKeeps ==
  ASSUME InvT, ReceiveRequest
  PROVE  InvT'
<1> DEFINE meant == intervalToMicros(wireTimeout)
           ms == meant \div Thousand
<1>1. /\ phase = "sent" /\ phase' = "received"
      /\ timer' = IF wireTimeout = None THEN None ELSE setTimeout(ms)
      /\ UNCHANGED <<policy, plain, secure, preset, presetTimeout, asked, wireTimeout, answered, trailing>>
  BY DEF ReceiveRequest, request, response
<1>2. ASSUME wireTimeout # None
      PROVE  /\ setTimeout(ms) \in Nat
             /\ meant - setTimeout(ms) * Thousand \in 0..(Thousand - 1) \/ ms > LongestDelay
  <2>1. wireTimeout \in Interval
    BY <1>2 DEF InvT, TypeOK
  <2>2. meant \in Nat /\ Thousand \in Nat \ {0}
    BY <2>1, IntervalMicros, IntervalAssumption
  <2> HIDE DEF meant
  <2>3. ms \in Nat /\ meant % Thousand \in 0..(Thousand - 1) /\ meant = Thousand * ms + (meant % Thousand)
    BY <2>2, DivFacts
  <2> HIDE DEF ms
  <2> QED
    BY <2>2, <2>3, HeadersAssumption DEF setTimeout
<1>3. TypeOK'
  BY <1>1, <1>2 DEF InvT, TypeOK
<1>4. Stages'
  BY <1>1 DEF InvT, Stages
<1>5. TimeoutIsKept'
  <2> HIDE DEF meant, ms
  <2>1. timer' # None => meant - timer' * Thousand \in 0..(Thousand - 1) \/ ms > LongestDelay
    BY <1>1, <1>2
  <2> QED
    BY <1>1, <2>1 DEF InvT, TimeoutIsKept, Wanted, meant, ms, Blocked
<1> QED
  BY <1>3, <1>4, <1>5 DEF InvT

(* Steps that leave the timeouts and what was asked alone, or change them     *)
(* before anything is sent.                                                   *)
LEMMA RestKeeps ==
  ASSUME InvT, UNCHANGED <<wireTimeout, timer>>, TypeOK',
         \/ UNCHANGED <<asked, presetTimeout>>
         \/ phase \in {"new", "made", "updating"} /\ phase' \in {"made", "updating"},
         presetTimeout' = presetTimeout \/
           (IsGood(presetTimeout') /\ presetTimeout'.lower /\ ToSend(presetTimeout', None) # RangeError),
         phase' = "thrown" => phase = "thrown" /\ secure' = secure,
         phase' \in {"new", "made", "updating"} => phase \in {"new", "made", "updating"},
         phase' \in {"new", "made", "updating", "sent", "thrown", "cancelled"} =>
           phase \in {"new", "made", "updating", "sent", "thrown", "cancelled"},
         phase' \in {"sent", "thrown", "received", "answered", "finished"} =>
           phase \in {"sent", "thrown", "received", "answered", "finished"}
  PROVE  InvT'
<1>1. Stages'
  BY DEF InvT, Stages, ToSend
<1>2. TimeoutIsKept'
  <2>1. CASE UNCHANGED <<asked, presetTimeout>>
    BY <2>1 DEF InvT, TimeoutIsKept, Wanted, Blocked
  <2>2. CASE phase \in {"new", "made", "updating"} /\ phase' \in {"made", "updating"}
    <3>1. wireTimeout' = None /\ timer' = None /\ phase' # "thrown"
      BY <2>2 DEF InvT, Stages
    <3> QED
      BY <3>1 DEF TimeoutIsKept
  <2> QED
    BY <2>1, <2>2
<1> QED
  BY <1>1, <1>2 DEF InvT

(* InvT is inductive. *)
LEMMA InvTInit == Init => InvT
<1> SUFFICES ASSUME Init PROVE InvT
  OBVIOUS
<1>0. <<>> \in Seq(Presets)
  OBVIOUS
<1>1. TypeOK
  BY <1>0 DEF Init, TypeOK, Policies
<1>2. Stages /\ TimeoutIsKept
  BY DEF Init, Stages, TimeoutIsKept
<1> QED
  BY <1>1, <1>2 DEF InvT

LEMMA InvTStep == InvT /\ [Next]_vars => InvT'
<1> SUFFICES ASSUME InvT, [Next]_vars PROVE InvT'
  OBVIOUS
<1> USE DEF request, response
<1>1. ASSUME NEW p \in Policies, Configure(p) PROVE InvT'
  <2>1. TypeOK'
    BY <1>1 DEF Configure, InvT, TypeOK
  <2> QED
    BY <1>1, <2>1, RestKeeps DEF Configure
<1>2. ASSUME NEW p \in BOOLEAN, NEW a \in Asked \cup {None}, Request(p, a) PROVE InvT'
  <2>1. TypeOK'
    BY <1>2 DEF Request, InvT, TypeOK
  <2> QED
    BY <1>2, <2>1, RestKeeps DEF Request
<1>3. CASE Start
  <2>1. phase = "made" /\ StartWith(~plain, asked) /\ (~plain) \in BOOLEAN /\ asked \in Asked
    BY <1>3 DEF Start, InvT, TypeOK
  <2> QED
    BY <2>1, StartKeeps
<1>10. CASE StartUpdate
  <2>1. TypeOK'
    BY <1>10 DEF StartUpdate, InvT, TypeOK
  <2> QED
    BY <1>10, <2>1, RestKeeps DEF StartUpdate
<1>11. ASSUME NEW h \in Presets, SetHeader(h) PROVE InvT'
  <2>1. preset' \in Seq(Presets)
    BY <1>11 DEF SetHeader, InvT, TypeOK
  <2>2. TypeOK'
    BY <1>11, <2>1 DEF SetHeader, InvT, TypeOK
  <2> QED
    BY <1>11, <2>2, RestKeeps DEF SetHeader
<1>12. ASSUME NEW t \in PresetTimeouts, SetTimeout(t) PROVE InvT'
  <2>1. TypeOK'
    BY <1>12 DEF SetTimeout, InvT, TypeOK
  <2>2. IsGood(t) /\ t.lower /\ ToSend(t, None) # RangeError /\ presetTimeout' = t
    BY <1>12, HeadersAssumption DEF SetTimeout
  <2> QED
    BY <1>12, <2>1, <2>2, RestKeeps DEF SetTimeout
<1>4. ASSUME NEW a \in Asked, HeadersUpdated(a) PROVE InvT'
  <2>1. phase = "updating" /\ StartWith(secure, a) /\ secure \in BOOLEAN
    BY <1>4 DEF HeadersUpdated, InvT, TypeOK
  <2> QED
    BY <2>1, StartKeeps
<1>5. CASE UpdateFailed
  <2>1. TypeOK'
    BY <1>5 DEF UpdateFailed, InvT, TypeOK
  <2> QED
    BY <1>5, <2>1, RestKeeps DEF UpdateFailed
<1>6. CASE ReceiveRequest
  BY <1>6, ReceiveKeeps
<1>7. ASSUME NEW hs \in Replies, Respond(hs) PROVE InvT'
  <2>1. TypeOK'
    BY <1>7 DEF Respond, InvT, TypeOK
  <2> QED
    BY <1>7, <2>1, RestKeeps DEF Respond
<1>8. ASSUME NEW hs \in Replies, Finish(hs) PROVE InvT'
  <2>1. TypeOK'
    BY <1>8 DEF Finish, InvT, TypeOK
  <2> QED
    BY <1>8, <2>1, RestKeeps DEF Finish
<1>9. CASE UNCHANGED vars
  <2>1. TypeOK'
    BY <1>9 DEF vars, InvT, TypeOK
  <2> QED
    BY <1>9, <2>1, RestKeeps DEF vars
<1> QED
  BY <1>1, <1>2, <1>3, <1>4, <1>5, <1>6, <1>7, <1>8, <1>9, <1>10, <1>11, <1>12 DEF Next

LEMMA InvTAlways == Spec => []InvT
<1> QED
  BY InvTInit, InvTStep, PTL DEF Spec

(* Whatever requests are asked to send, what _start puts on the wire as a     *)
(* timeout is an interval, and the delay of the server's timer a number.      *)
THEOREM TypeCorrect == Spec => []TypeOK
<1>1. InvT => TypeOK
  BY DEF InvT
<1> QED
  BY <1>1, InvTAlways, PTL

(* For every timeout, parent and scale of units: _start sends no timeout that *)
(* is longer than what was asked and than what is left to the parent, none    *)
(* shorter than microsToInterval must make it, refuses none that can be sent, *)
(* and the server's timer is due when the interval says.                      *)
THEOREM TimeoutsKept == Spec => []TimeoutIsKept
<1>1. InvT => TimeoutIsKept
  BY DEF InvT
<1> QED
  BY <1>1, InvTAlways, PTL

-----------------------------------------------------------------------------
(* Metadata *)

Less == {pair \in Nat \X Nat : pair[1] < pair[2]}

LEMMA LessWellFounded == IsWellFoundedOn(Less, Nat)
<1> QED
  BY NatLessThanWellFounded DEF OpToRel, Less

(* Of places in a list one is the last. *)
LEMMA LastPlace ==
  ASSUME NEW n \in Nat, NEW T \in SUBSET (1..n), T # {}
  PROVE  Max(T) \in T /\ \A w \in T : Max(T) >= w
<1> DEFINE back == {n - w : w \in T}
<1>0. \A w \in T : w \in 1..n
  OBVIOUS
<1>1. back \subseteq Nat /\ back # {}
  <2>1. \A w \in T : n - w \in Nat
    BY <1>0
  <2> QED
    BY <2>1
<1>2. PICK b \in back : \A c \in back : <<c, b>> \notin Less
  BY <1>1, LessWellFounded, WFMin
<1>3. PICK x \in T : b = n - x
  OBVIOUS
<1>4. ASSUME NEW w \in T PROVE x >= w
  <2>1. n - w \in back /\ n - w \in Nat /\ n - x \in Nat /\ w \in 1..n /\ x \in 1..n
    BY <1>0, <1>4
  <2>2. ~(n - w < n - x)
    BY <1>2, <1>3, <2>1 DEF Less
  <2> QED
    BY <2>1, <2>2
<1> QED
  BY <1>4 DEF Max

(* The headers hs of which those at K are left. *)
Part(hs, K) == [i \in K |-> hs[i]]

LEMMA HeaderTypes ==
  ASSUME NEW hs \in Seq(Header), NEW i \in DOMAIN hs
  PROVE  /\ hs[i].name \in Name /\ hs[i].name.bins \in Nat
         /\ hs[i].name = [base |-> hs[i].name.base, bins |-> hs[i].name.bins]
<1>1. hs[i] \in Header
  OBVIOUS
<1>2. hs[i].name \in Name
  BY <1>1 DEF Header
<1> QED
  BY <1>2 DEF Name

(* A header on the other side: under its own name, if nothing stands in its   *)
(* way, and always under one of its base.                                     *)
LEMMA ReceivedFacts ==
  ASSUME NEW hs \in Seq(Header), NEW i \in DOMAIN hs
  PROVE  LET w == removeBinValues(hs[i]) IN
         /\ w.name.base = hs[i].name.base /\ Received(w).name.base = hs[i].name.base
         /\ hs[i].name.bins = 0 \/ NeedsBase64(hs[i].value) => Received(w) = Meant(hs[i])
<1> DEFINE h == hs[i]
           w == removeBinValues(h)
<1>1. h.name.bins \in Nat /\ h.name = [base |-> h.name.base, bins |-> h.name.bins]
  BY HeaderTypes
<1> HIDE DEF h
<1>2. CASE NeedsBase64(h.value)
  <2>1. w = [name |-> Bin(h.name), value |-> h.value, base64 |-> TRUE]
    BY <1>2 DEF removeBinValues
  <2>2. /\ Bin(h.name) = [base |-> h.name.base, bins |-> h.name.bins + 1]
        /\ Bin(h.name).bins # 0
    BY <1>1 DEF Bin
  <2>3. [w.name EXCEPT !.bins = @ - 1] = h.name
    BY <1>1, <2>1, <2>2
  <2>4. Received(w) = [name |-> h.name, parts |-> h.value.parts, as |-> "bytes"]
    BY <2>1, <2>2, <2>3 DEF Received
  <2>5. Meant(h) = [name |-> h.name, parts |-> h.value.parts, as |-> "bytes"]
    BY <1>2 DEF Meant, NeedsBase64
  <2> QED
    BY <2>1, <2>2, <2>4, <2>5 DEF h
<1>3. CASE ~NeedsBase64(h.value)
  <2>1. w = [name |-> h.name, value |-> h.value, base64 |-> FALSE]
    BY <1>3 DEF removeBinValues
  <2>2. CASE h.name.bins = 0
    <3>1. Received(w) = [name |-> h.name, parts |-> h.value.parts, as |-> "string"]
      BY <2>1, <2>2 DEF Received
    <3>2. Meant(h) = [name |-> h.name, parts |-> h.value.parts, as |-> "string"]
      BY <1>3 DEF Meant, NeedsBase64
    <3> QED
      BY <2>1, <3>1, <3>2 DEF h
  <2>3. CASE h.name.bins # 0
    <3>1. Received(w).name = [h.name EXCEPT !.bins = @ - 1]
      BY <2>1, <2>3 DEF Received
    <3>2. Received(w).name.base = h.name.base
      BY <1>1, <3>1
    <3> QED
      BY <1>3, <2>1, <2>3, <3>2 DEF h
  <2> QED
    BY <2>2, <2>3
<1> QED
  BY <1>2, <1>3

(* What reaches the stream of these headers: each has the name of its place   *)
(* and is one of those with that name, and one alone of its base is itself.   *)
LEMMA EncodedFacts ==
  ASSUME NEW hs \in Seq(Header), NEW K \in SUBSET DOMAIN hs
  PROVE  LET sent == Encoded(Part(hs, K)) IN
         /\ DOMAIN sent \subseteq K
         /\ \A i \in DOMAIN sent : \E j \in K :
              sent[i] = removeBinValues(hs[j]) /\ sent[i].name = removeBinValues(hs[i]).name
         /\ \A k \in K : (\A j \in DOMAIN hs : hs[j].name.base = hs[k].name.base => j = k)
                           => k \in DOMAIN sent /\ sent[k] = removeBinValues(hs[k])
<1> DEFINE sub == Part(hs, K)
           noBins == [i \in DOMAIN sub |-> removeBinValues(sub[i])]
           same(i) == {j \in DOMAIN sub : noBins[j].name = noBins[i].name}
           first == {i \in DOMAIN sub : \A j \in same(i) : i <= j}
           sent == Encoded(sub)
<1>1. DOMAIN sub = K /\ \A i \in K : sub[i] = hs[i]
  BY DEF Part
<1>3. sent = [i \in first |-> noBins[Max(same(i))]]
  BY DEF Encoded
<1> HIDE DEF sub
<1>2. \A i \in K : noBins[i] = removeBinValues(hs[i])
  BY <1>1
<1> HIDE DEF noBins
<1>4. ASSUME NEW i \in K
      PROVE  i \in same(i) /\ Max(same(i)) \in same(i) /\ \A j \in same(i) : j \in Int
  <2>0. same(i) \subseteq K /\ K \subseteq 1..Len(hs)
    BY <1>1
  <2>1. PICK T \in SUBSET (1..Len(hs)) : T = same(i)
    <3> HIDE DEF same
    <3> QED
      BY <2>0
  <2>2. i \in T /\ Len(hs) \in Nat
    BY <1>1, <2>1
  <2>3. Max(T) \in T
    BY <2>2, LastPlace
  <2>4. \A j \in T : j \in Int
    OBVIOUS
  <2> QED
    BY <2>1, <2>2, <2>3, <2>4
<1>5. ASSUME NEW i \in first
      PROVE  \E j \in K : /\ sent[i] = removeBinValues(hs[j])
                          /\ sent[i].name = removeBinValues(hs[i]).name
  <2>1. i \in K /\ Max(same(i)) \in same(i)
    BY <1>1, <1>4
  <2>2. PICK j \in K : j = Max(same(i)) /\ noBins[j].name = noBins[i].name
    BY <1>1, <2>1
  <2>3. sent[i] = noBins[j]
    BY <1>3, <2>2
  <2> QED
    BY <1>2, <2>1, <2>2, <2>3
<1>6. ASSUME NEW k \in K, \A j \in DOMAIN hs : hs[j].name.base = hs[k].name.base => j = k
      PROVE  k \in first /\ sent[k] = removeBinValues(hs[k])
  <2>1. ASSUME NEW j \in same(k) PROVE j = k
    <3>1. j \in K /\ removeBinValues(hs[j]).name = removeBinValues(hs[k]).name
      BY <1>1, <1>2
    <3>2. /\ removeBinValues(hs[j]).name.base = hs[j].name.base
          /\ removeBinValues(hs[k]).name.base = hs[k].name.base
      BY <3>1, ReceivedFacts
    <3> QED
      BY <1>6, <3>1, <3>2
  <2>2. k \in same(k) /\ Max(same(k)) \in same(k) /\ k \in Int
    BY <1>4
  <2>3. k \in first /\ Max(same(k)) = k
    BY <1>1, <2>1, <2>2
  <2> QED
    BY <1>2, <1>3, <2>3
<1>7. DOMAIN sent = first /\ first \subseteq K
  BY <1>1, <1>3
<1> HIDE DEF first, same
<1> QED
  BY <1>5, <1>6, <1>7 DEF sub

(* A header that is left and undisturbed is metadata, and the only metadata   *)
(* under its name.                                                            *)
LEMMA UndisturbedArrives ==
  ASSUME NEW hs \in Seq(Header), NEW K \in SUBSET DOMAIN hs, NEW k \in K, NEW old,
         hs[k].name.base \notin Reserved,
         hs[k].name.bins = 0 \/ NeedsBase64(hs[k].value),
         \A j \in DOMAIN hs : hs[j].name.base = hs[k].name.base => j = k
  PROVE  LET new == Updated(old, Encoded(Part(hs, K))) IN
         /\ Meant(hs[k]) \in new
         /\ \A e \in new : e.name = hs[k].name => e = Meant(hs[k])
<1> DEFINE sent == Encoded(Part(hs, K))
           own == {i \in DOMAIN sent : ~isReserved(sent[i].name)}
           named(i) == Received(sent[i]).name
           last == {i \in own : \A j \in own : j > i => named(j) # named(i)}
<1>1. Updated(old, sent) =
        {e \in old : \A i \in own : named(i) # e.name} \cup {Received(sent[i]) : i \in last}
  BY DEF Updated
<1>2. /\ DOMAIN sent \subseteq K /\ k \in DOMAIN sent /\ sent[k] = removeBinValues(hs[k])
      /\ \A i \in DOMAIN sent : \E j \in K :
           sent[i] = removeBinValues(hs[j]) /\ sent[i].name = removeBinValues(hs[i]).name
  BY EncodedFacts
<1> HIDE DEF sent
<1>3. ASSUME NEW i \in DOMAIN sent
      PROVE  i \in DOMAIN hs /\ named(i).base = hs[i].name.base
  <2>1. PICK j \in K : /\ sent[i] = removeBinValues(hs[j])
                       /\ sent[i].name = removeBinValues(hs[i]).name
    BY <1>2
  <2>2. i \in DOMAIN hs /\ j \in DOMAIN hs
    BY <1>2
  <2>3. /\ sent[i].name.base = hs[i].name.base /\ sent[i].name.base = hs[j].name.base
        /\ named(i).base = hs[j].name.base
    BY <2>1, <2>2, ReceivedFacts
  <2> QED
    BY <2>2, <2>3
<1>4. Received(sent[k]) = Meant(hs[k]) /\ named(k) = hs[k].name /\ sent[k].name.base = hs[k].name.base
  <2>1. Received(sent[k]) = Meant(hs[k]) /\ sent[k].name.base = hs[k].name.base
    BY <1>2, ReceivedFacts
  <2> QED
    BY <2>1 DEF Meant
<1>5. k \in own
  BY <1>2, <1>4 DEF isReserved
<1>6. ASSUME NEW i \in own, named(i) = hs[k].name PROVE i = k
  BY <1>3, <1>6
<1>7. k \in last
  <2>1. ASSUME NEW j \in own, j > k PROVE named(j) # named(k)
    <3>1. j \in DOMAIN hs /\ k \in DOMAIN hs
      BY <1>3, <1>5
    <3>2. j \in Int /\ k \in Int
      BY <3>1
    <3>3. j # k
      BY <2>1, <3>2
    <3> QED
      BY <1>4, <1>6, <3>3
  <2> QED
    BY <1>5, <2>1
<1>8. Meant(hs[k]) \in Updated(old, sent)
  BY <1>1, <1>4, <1>7
<1>9. ASSUME NEW e \in Updated(old, sent), e.name = hs[k].name PROVE e = Meant(hs[k])
  <2>1. CASE e \in {x \in old : \A i \in own : named(i) # x.name}
    BY <1>4, <1>5, <1>9, <2>1
  <2>2. CASE e \in {Received(sent[i]) : i \in last}
    <3>1. PICK i \in last : e = Received(sent[i])
      BY <2>2
    <3>2. i \in own /\ named(i) = hs[k].name
      BY <1>9, <3>1
    <3> QED
      BY <1>4, <1>6, <3>1, <3>2
  <2> QED
    BY <1>1, <1>9, <2>1, <2>2
<1> QED
  BY <1>8, <1>9 DEF sent

(* Metadata stays if nothing that is sent later has its base. *)
LEMMA OthersStay ==
  ASSUME NEW hs \in Seq(Header), NEW old, NEW e \in old,
         \A j \in DOMAIN hs : hs[j].name.base # e.name.base
  PROVE  e \in Updated(old, Encoded(Part(hs, DOMAIN hs)))
<1> DEFINE sent == Encoded(Part(hs, DOMAIN hs))
<1>1. ASSUME NEW i \in DOMAIN sent PROVE Received(sent[i]).name # e.name
  <2>1. PICK j \in DOMAIN hs : sent[i] = removeBinValues(hs[j])
    BY EncodedFacts
  <2>2. Received(sent[i]).name.base = hs[j].name.base
    BY <2>1, ReceivedFacts
  <2> QED
    BY <2>1, <2>2
<1> HIDE DEF sent
<1> QED
  BY <1>1 DEF Updated, sent

(* What was sent is what was set but for what the policy of that time held    *)
(* back, and metadata is what this becomes; then the same of the response.    *)
Conveyed ==
  /\ preset \in Seq(Presets)
  /\ phase \in {"sent", "received", "answered", "finished"} =>
       /\ asked \in Asked
       /\ \E K \in SUBSET DOMAIN Listed(asked) :
            /\ \A i \in DOMAIN Listed(asked) \ K : Blocked(secure, Listed(asked)[i].name)
            /\ wire = Encoded(Part(Listed(asked), K))
  /\ phase \in {"received", "answered", "finished"} => metadata = Updated({}, wire)
  /\ phase \in {"answered", "finished"} => answered \in Replies
  /\ phase = "answered" => resMetadata = Updated({}, Encoded(answered))
  /\ phase = "finished" =>
       /\ trailing \in Replies
       /\ resMetadata = Updated(Updated({}, Encoded(answered)), Encoded(trailing))

LEMMA ConveyedInit == Init => Conveyed
BY DEF Init, Conveyed

(* A request is sent without what the policy holds back. *)
LEMMA StartConveys ==
  ASSUME Conveyed, NEW sec, NEW a \in Asked, StartWith(sec, a)
  PROVE  Conveyed'
<1>1. asked' = a /\ secure' = sec /\ preset' = preset
  BY DEF StartWith
<1>2. CASE Send(sec, a)
  <2> DEFINE hs == Listed(a)
             K == {i \in DOMAIN hs : i > Len(preset) => ~(Blocked(sec, hs[i].name) /\ policy = DROP)}
  <2>1. phase' = "sent" /\ wire' = Encoded(Allowed(sec, a))
    BY <1>2 DEF Send
  <2>2. Allowed(sec, a) = Part(hs, K)
    BY DEF Allowed, Part
  <2>3. K \in SUBSET DOMAIN hs /\ \A i \in DOMAIN hs \ K : Blocked(sec, hs[i].name)
    OBVIOUS
  <2>4. \E X \in SUBSET DOMAIN hs :
          /\ \A i \in DOMAIN hs \ X : Blocked(sec, hs[i].name)
          /\ wire' = Encoded(Part(hs, X))
    BY <2>1, <2>2, <2>3
  <2>5. Listed(asked)' = hs
    BY <1>1 DEF Listed
  <2> HIDE DEF hs
  <2> QED
    BY <1>1, <2>1, <2>4, <2>5 DEF Conveyed, Blocked
<1>3. CASE Throw(sec, a)
  BY <1>1, <1>3 DEF Throw, Conveyed
<1> QED
  BY <1>2, <1>3 DEF StartWith

LEMMA ConveyedStep == Conveyed /\ TypeOK /\ [Next]_vars => Conveyed'
<1> SUFFICES ASSUME Conveyed, TypeOK, [Next]_vars PROVE Conveyed'
  OBVIOUS
<1> USE DEF request, response
<1>1. CASE UNCHANGED <<phase, request, metadata, response>>
  BY <1>1 DEF Conveyed, Listed, Blocked
<1>2. ASSUME NEW p \in Policies, Configure(p) PROVE Conveyed'
  BY <1>1, <1>2 DEF Configure
<1>3. ASSUME NEW p \in BOOLEAN, NEW a \in Asked \cup {None}, Request(p, a) PROVE Conveyed'
  BY <1>3 DEF Request, Conveyed
<1>4. CASE Start
  <2>1. asked \in Asked /\ StartWith(~plain, asked)
    BY <1>4 DEF Start, TypeOK
  <2> QED
    BY <2>1, StartConveys
<1>5. ASSUME NEW a \in Asked, HeadersUpdated(a) PROVE Conveyed'
  BY <1>5, StartConveys DEF HeadersUpdated
<1>6. CASE UpdateFailed
  BY <1>6 DEF UpdateFailed, Conveyed
<1>7. CASE ReceiveRequest
  BY <1>7 DEF ReceiveRequest, Conveyed, Listed, Blocked
<1>8. ASSUME NEW hs \in Replies, Respond(hs) PROVE Conveyed'
  BY <1>8 DEF Respond, Conveyed, Listed, Blocked
<1>9. ASSUME NEW hs \in Replies, Finish(hs) PROVE Conveyed'
  BY <1>9 DEF Finish, Conveyed, Listed, Blocked
<1>10. CASE StartUpdate
  BY <1>10 DEF StartUpdate, Conveyed
<1>11. ASSUME NEW h \in Presets, SetHeader(h) PROVE Conveyed'
  <2>1. preset' \in Seq(Presets) /\ phase' \in {"made", "updating"}
    BY <1>11 DEF SetHeader, Conveyed
  <2> QED
    BY <2>1 DEF Conveyed
<1>12. ASSUME NEW t \in PresetTimeouts, SetTimeout(t) PROVE Conveyed'
  BY <1>12 DEF SetTimeout, Conveyed
<1> QED
  BY <1>1, <1>2, <1>3, <1>4, <1>5, <1>6, <1>7, <1>8, <1>9, <1>10, <1>11, <1>12 DEF Next, vars

(* What an undisturbed header is. *)
LEMMA UndisturbedIs ==
  ASSUME NEW hs, NEW others, NEW h \in Undisturbed(hs, others)
  PROVE  \E k \in DOMAIN hs :
           /\ h = hs[k]
           /\ hs[k].name.base \notin Reserved
           /\ hs[k].name.bins = 0 \/ NeedsBase64(hs[k].value)
           /\ \A j \in DOMAIN hs : hs[j].name.base = hs[k].name.base => j = k
           /\ \A j \in DOMAIN others : others[j].name.base # hs[k].name.base
BY DEF Undisturbed

(* A list is all of itself. *)
LEMMA AllOfIt ==
  ASSUME NEW hs \in Seq(Header)
  PROVE  Part(hs, DOMAIN hs) = hs
BY DEF Part

(* What is set of a request is a list of headers. *)
LEMMA ListedType ==
  ASSUME preset \in Seq(Presets), NEW a \in Asked
  PROVE  Listed(a) \in Seq(Header)
<1>1. preset \in Seq(Header)
  BY HeadersAssumption
<1>2. a.headers \in Seq(Header)
  BY AskTypes DEF HeaderList
<1> QED
  BY <1>1, <1>2 DEF Listed

LEMMA ConveyedArrives == Conveyed => MetadataArrives
<1> SUFFICES ASSUME Conveyed PROVE MetadataArrives
  OBVIOUS
<1>1. ASSUME phase \in {"received", "answered", "finished"},
             NEW h \in Undisturbed(Listed(asked), <<>>), ~Blocked(secure, h.name)
      PROVE  Meant(h) \in metadata
  <2> DEFINE hs == Listed(asked)
  <2>1. hs \in Seq(Header)
    BY <1>1, ListedType DEF Conveyed
  <2>2. PICK k \in DOMAIN hs :
           /\ h = hs[k]
           /\ hs[k].name.base \notin Reserved
           /\ hs[k].name.bins = 0 \/ NeedsBase64(hs[k].value)
           /\ \A j \in DOMAIN hs : hs[j].name.base = hs[k].name.base => j = k
    BY <1>1, UndisturbedIs
  <2>3. PICK K \in SUBSET DOMAIN hs :
           /\ \A i \in DOMAIN hs \ K : Blocked(secure, hs[i].name)
           /\ metadata = Updated({}, Encoded(Part(hs, K)))
    BY <1>1 DEF Conveyed
  <2>4. k \in K
    BY <1>1, <2>2, <2>3
  <2> HIDE DEF hs
  <2> QED
    BY <2>1, <2>2, <2>3, <2>4, UndisturbedArrives
<1>2. ASSUME phase = "finished"
      PROVE  /\ \A h \in Undisturbed(trailing, <<>>) :
                  /\ \A e \in resMetadata : e.name = h.name => e = Meant(h)
                  /\ Meant(h) \in resMetadata
             /\ \A h \in Undisturbed(answered, trailing) : Meant(h) \in resMetadata
  <2> DEFINE old == Updated({}, Encoded(answered))
  <2>1. /\ answered \in Seq(Header) /\ trailing \in Seq(Header)
        /\ resMetadata = Updated(old, Encoded(trailing))
    BY <1>2, HeadersAssumption DEF Conveyed, HeaderList
  <2> HIDE DEF old
  <2>2. ASSUME NEW h \in Undisturbed(trailing, <<>>)
        PROVE  /\ \A e \in resMetadata : e.name = h.name => e = Meant(h)
               /\ Meant(h) \in resMetadata
    <3>1. PICK k \in DOMAIN trailing :
           /\ h = trailing[k]
           /\ trailing[k].name.base \notin Reserved
           /\ trailing[k].name.bins = 0 \/ NeedsBase64(trailing[k].value)
           /\ \A j \in DOMAIN trailing : trailing[j].name.base = trailing[k].name.base => j = k
      BY <2>2, UndisturbedIs
    <3>2. DOMAIN trailing \in SUBSET DOMAIN trailing
      OBVIOUS
    <3>3. LET new == Updated(old, Encoded(Part(trailing, DOMAIN trailing))) IN
         /\ Meant(trailing[k]) \in new
         /\ \A e \in new : e.name = trailing[k].name => e = Meant(trailing[k])
      BY <2>1, <3>1, <3>2, UndisturbedArrives
    <3> QED
      BY <2>1, <3>1, <3>3, AllOfIt
  <2>3. ASSUME NEW h \in Undisturbed(answered, trailing) PROVE Meant(h) \in resMetadata
    <3>1. PICK k \in DOMAIN answered :
           /\ h = answered[k]
           /\ answered[k].name.base \notin Reserved
           /\ answered[k].name.bins = 0 \/ NeedsBase64(answered[k].value)
           /\ \A j \in DOMAIN answered : answered[j].name.base = answered[k].name.base => j = k
           /\ \A j \in DOMAIN trailing : trailing[j].name.base # answered[k].name.base
      BY <2>3, UndisturbedIs
    <3>2. DOMAIN answered \in SUBSET DOMAIN answered
      OBVIOUS
    <3>3. Meant(h) \in Updated({}, Encoded(Part(answered, DOMAIN answered)))
      BY <2>1, <3>1, <3>2, UndisturbedArrives
    <3>4. Meant(h) \in old
      BY <2>1, <3>3, AllOfIt DEF old
    <3>5. Meant(h).name.base = answered[k].name.base
      BY <3>1 DEF Meant
    <3>6. Meant(h) \in Updated(old, Encoded(Part(trailing, DOMAIN trailing)))
      BY <2>1, <3>1, <3>4, <3>5, OthersStay
    <3> QED
      BY <2>1, <3>6, AllOfIt
  <2> QED
    BY <2>2, <2>3
<1> QED
  BY <1>1, <1>2 DEF MetadataArrives

(* For all lists of headers and trailers: what removeBinValues encodes and    *)
(* _addMetadata decodes arrives under its own name, text as text and binary   *)
(* as bytes, a trailer in the place of a header of its name.                  *)
THEOREM MetadataConveyed == Spec => []MetadataArrives
<1>1. Spec => []Conveyed
  BY ConveyedInit, ConveyedStep, TypeCorrect, PTL DEF Spec
<1> QED
  BY <1>1, ConveyedArrives, PTL

-----------------------------------------------------------------------------
(* The policy for secure headers *)

(* An encoded name is a secure one only if it is the name of a header.       *)
LEMMA EncodedSecure ==
  ASSUME NEW hs \in Seq(Header), NEW K \in SUBSET DOMAIN hs, NEW i \in DOMAIN Encoded(Part(hs, K)),
         isKnownSecure(Encoded(Part(hs, K))[i].name)
  PROVE  \E j \in K : Encoded(Part(hs, K))[i].name = hs[j].name
<1>1. PICK j \in K : Encoded(Part(hs, K))[i] = removeBinValues(hs[j])
  BY EncodedFacts
<1>2. hs[j].name.bins \in Nat /\ hs[j].name \in Name
  BY HeaderTypes
<1>3. CASE NeedsBase64(hs[j].value)
  <2>1. Encoded(Part(hs, K))[i].name = Bin(hs[j].name)
    BY <1>1, <1>3 DEF removeBinValues
  <2>2. Bin(hs[j].name).bins = hs[j].name.bins + 1
    BY <1>2 DEF Bin, Name
  <2> QED
    BY <1>2, <2>1, <2>2 DEF isKnownSecure
<1>4. CASE ~NeedsBase64(hs[j].value)
  BY <1>1, <1>4 DEF removeBinValues
<1> QED
  BY <1>3, <1>4

(* What _start sends in the clear has a secure header only under a policy    *)
(* that neither fails nor drops it, or if the application set it.            *)
LEMMA SentSecure ==
  ASSUME TypeOK, NEW sec, NEW a \in Asked, ~PolicyThrows(sec, a.headers),
         NEW i \in DOMAIN Encoded(Allowed(sec, a)),
         Blocked(sec, Encoded(Allowed(sec, a))[i].name)
  PROVE  policy = WARN \/ \E k \in DOMAIN preset : preset[k].name = Encoded(Allowed(sec, a))[i].name
<1> DEFINE hs == Listed(a)
           K == {j \in DOMAIN hs : j > Len(preset) => ~(Blocked(sec, hs[j].name) /\ policy = DROP)}
<1>1. hs \in Seq(Header) /\ preset \in Seq(Header) /\ a.headers \in Seq(Header)
  BY ListedType, AskTypes, HeadersAssumption DEF TypeOK, HeaderList
<1>2. Allowed(sec, a) = Part(hs, K)
  BY DEF Allowed, Part
<1>3. K \in SUBSET DOMAIN hs
  OBVIOUS
<1>4. isKnownSecure(Encoded(Part(hs, K))[i].name)
  BY <1>2 DEF Blocked
<1>5. PICK j \in K : Encoded(Part(hs, K))[i].name = hs[j].name
  <2> HIDE DEF hs, K
  <2> QED
    BY <1>1, <1>2, <1>3, <1>4, EncodedSecure
<1>6. Blocked(sec, hs[j].name)
  BY <1>2, <1>5
<1>7. CASE j <= Len(preset)
  <2>1. j \in DOMAIN preset /\ hs[j] = preset[j]
    BY <1>1, <1>7 DEF Listed
  <2> QED
    BY <1>2, <1>5, <2>1
<1>8. CASE ~(j <= Len(preset))
  <2>1. j - Len(preset) \in DOMAIN a.headers /\ hs[j] = a.headers[j - Len(preset)] /\ j > Len(preset)
    BY <1>1, <1>8 DEF Listed
  <2>2. policy # DROP
    BY <1>6, <2>1
  <2>3. policy # FAIL
    BY <1>6, <2>1 DEF PolicyThrows
  <2> QED
    BY <2>2, <2>3 DEF TypeOK, Policies
<1> QED
  BY <1>7, <1>8

(* Whatever headers a request is given and whenever the policy changes, a    *)
(* secure header is sent in the clear only if the policy was to warn when it *)
(* was set, but for those set before the request was started.                *)
THEOREM SecretsKept == Spec => SecretOnlyWithWarning
<1> DEFINE Sent == wire' # wire =>
             \A i \in DOMAIN wire' :
               Blocked(secure', wire'[i].name) =>
                 policy = WARN \/ \E k \in DOMAIN preset : preset[k].name = wire'[i].name
           Put == preset' # preset /\ Blocked(secure, preset'[Len(preset')].name) => policy = WARN
<1>1. ASSUME TypeOK, [Next]_vars PROVE Sent /\ Put
  <2>1. CASE UNCHANGED <<wire, preset>>
    BY <2>1
  <2>2. ASSUME NEW a \in Asked, NEW sec, StartWith(sec, a) PROVE Sent /\ Put
    <3>1. secure' = sec /\ preset' = preset
      BY <2>2 DEF StartWith
    <3>2. CASE Throw(sec, a)
      BY <3>1, <3>2 DEF Throw
    <3>3. CASE Send(sec, a)
      <4>1. wire' = Encoded(Allowed(sec, a)) /\ ~PolicyThrows(sec, a.headers)
        BY <3>3 DEF Send, Throws
      <4> QED
        BY <1>1, <3>1, <4>1, SentSecure
    <3> QED
      BY <2>2, <3>2, <3>3 DEF StartWith
  <2>3. CASE Start
    <3>1. asked \in Asked /\ StartWith(~plain, asked)
      BY <1>1, <2>3 DEF Start, TypeOK
    <3> HIDE DEF Sent, Put
    <3> QED
      BY <3>1, <2>2
  <2>4. ASSUME NEW a \in Asked, HeadersUpdated(a) PROVE Sent /\ Put
    <3>1. StartWith(secure, a)
      BY <2>4 DEF HeadersUpdated
    <3> HIDE DEF Sent, Put
    <3> QED
      BY <3>1, <2>2
  <2>5. ASSUME NEW h \in Presets, SetHeader(h) PROVE Sent /\ Put
    <3>1. /\ wire' = wire /\ preset \in Seq(Presets) /\ preset' = Append(preset, h)
          /\ Blocked(secure, h.name) => policy = WARN
      BY <1>1, <2>5 DEF SetHeader, TypeOK
    <3>2. preset'[Len(preset')] = h
      BY <3>1
    <3> QED
      BY <3>1, <3>2
  <2>6. CASE \/ UNCHANGED vars \/ (\E p \in Policies : Configure(p))
             \/ (\E p \in BOOLEAN, a \in Asked \cup {None} : Request(p, a))
             \/ (\E t \in PresetTimeouts : SetTimeout(t))
             \/ StartUpdate \/ UpdateFailed \/ ReceiveRequest
             \/ (\E hs \in Replies : Respond(hs) \/ Finish(hs))
    BY <2>1, <2>6 DEF vars, request, Configure, Request, SetTimeout, StartUpdate, UpdateFailed,
       ReceiveRequest, Respond, Finish
  <2> HIDE DEF Sent, Put
  <2> QED
    BY <1>1, <2>3, <2>4, <2>5, <2>6 DEF Next
<1>2. TypeOK /\ [Next]_vars => [Sent /\ Put]_vars
  BY <1>1
<1> QED
  BY <1>2, TypeCorrect, PTL DEF Spec, SecretOnlyWithWarning
=============================================================================
