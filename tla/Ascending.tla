------------------------------ MODULE Ascending ------------------------------
(***************************************************************************)
(* The order in which an array or a std::map is walked.                    *)
(***************************************************************************)
EXTENDS Integers, FiniteSets

(* The members of a finite set of numbers, smallest first.                 *)
Ascending(numbers) ==
  [i \in 1 .. Cardinality(numbers) |->
     CHOOSE n \in numbers : Cardinality({m \in numbers : m < n}) = i - 1]
=============================================================================
