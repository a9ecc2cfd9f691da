------------------------------- MODULE Ratios -------------------------------
(***************************************************************************)
(* Exact fractions, for what the client computes with double: prices and   *)
(* quantities are small enough there for rounding not to matter.  A        *)
(* fraction is in lowest terms, so equal numbers are equal values.         *)
(***************************************************************************)
EXTENDS Integers, FiniteSetsExt

Magnitude(i) == IF i < 0 THEN -i ELSE i

CommonFactor(n, d) == Max({f \in 1 .. d : n % f = 0 /\ d % f = 0})

Ratio(n, d) ==
  LET f == CommonFactor(n, d) IN [num |-> n \div f, den |-> d \div f]

Whole(n) == [num |-> n, den |-> 1]

Plus(r, s) == Ratio(r.num * s.den + s.num * r.den, r.den * s.den)

Times(r, n) == Ratio(r.num * n, r.den)

Over(r, n) == Ratio(r.num, r.den * n)

Minus(r, s) == Plus(r, Times(s, -1))

AtLeast(r, s) == r.num * s.den >= s.num * r.den
=============================================================================
