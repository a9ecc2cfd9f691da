------------------------------- MODULE Totals -------------------------------
(***************************************************************************)
(* Sums over sequences, as a recursive function, which can be reasoned     *)
(* about where a fold cannot.                                              *)
(***************************************************************************)
EXTENDS Integers, Sequences

Total(amounts) ==
  LET upTo[n \in 0 .. Len(amounts)] == IF n = 0 THEN 0 ELSE upTo[n - 1] + amounts[n]
  IN upTo[Len(amounts)]
=============================================================================
