----------------------------- MODULE Intervals -----------------------------
(***************************************************************************)
(* The encoding of timeouts (lib/codec.js): an interval is an amount of at  *)
(* most eight digits and a unit. Units are numbered from the finest, 1 for  *)
(* microseconds, to 5 for hours.                                            *)
(***************************************************************************)
EXTENDS Integers, FiniteSetsExt

CONSTANTS
  Thousand,    \* 1000: of one unit in the next, up to seconds
  Sixty,       \* 60: from seconds on
  MaxInterval  \* 10^8 - 1

ASSUME IntervalAssumption ==
  /\ Thousand \in Nat \ {0} /\ Sixty \in Nat \ {0} /\ MaxInterval \in Nat \ {0}

u == 1
m == 2
S == 3
M == 4
H == 5
Units == u..H

microsBySuffix ==
  [s \in Units |->
     CASE s = u -> 1
       [] s = m -> Thousand
       [] s = S -> Thousand * Thousand
       [] s = M -> Thousand * Thousand * Sixty
       [] s = H -> Thousand * Thousand * Sixty * Sixty]

Interval == [amt : 0..MaxInterval, unit : Units]
RangeError == [amt |-> 0, unit |-> 0]

(* Faulty: seconds are taken for a thousandth of a minute. *)
RatioSeconds(s) == IF s = M THEN Sixty ELSE Thousand

(* How many of a unit make one of the next. *)
Ratio(s) == IF s < S THEN Thousand ELSE Sixty

(* The amounts the loop goes through, from unit s to hours. *)
Amounts(micros, s) ==
  LET amt[w \in s..H] ==
        IF w = s THEN micros \div microsBySuffix[s] ELSE amt[w - 1] \div Ratio(w - 1)
  IN amt

(* Faulty: without the loop. *)
Unfitted(micros, s) == [amt |-> micros \div microsBySuffix[s], unit |-> s]

(* Where the loop stops: at the first amount that fits, or at hours. *)
Fitted(micros, s) ==
  LET amt == Amounts(micros, s)
      w == Min({v \in s..H : amt[v] <= MaxInterval \/ v = H})
  IN [amt |-> amt[w], unit |-> w]

(* The units tried, the coarsest first, are those that divide the interval;  *)
(* the first whose amount fits in the end is taken.                          *)
microsToInterval(micros) ==
  LET fits == {s \in Units : /\ micros % microsBySuffix[s] = 0
                             /\ Fitted(micros, s).amt <= MaxInterval}
  IN IF fits = {} THEN RangeError ELSE Fitted(micros, Max(fits))

(* Nanoseconds, which are never sent by this library, are left out. *)
intervalToMicros(i) == microsBySuffix[i.unit] * i.amt

(* The encoding keeps what it can of an interval: it is never longer than    *)
(* what was meant, it is exact if any unit can be, and otherwise it is in    *)
(* the finest unit whose amount fits, and short by less than that unit.      *)
Keeps(i, micros) ==
  LET lost == micros - intervalToMicros(i) IN
  /\ lost >= 0
  /\ lost < microsBySuffix[i.unit]
  /\ lost > 0 => \A s \in u..(i.unit - 1) : micros \div microsBySuffix[s] > MaxInterval
=============================================================================
