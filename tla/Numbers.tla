------------------------------- MODULE Numbers -------------------------------
(***************************************************************************)
(* Running sums, and sets of numbers in order, written so that the provers  *)
(* can expand them: a fold takes an operator, and SortSeq has no definition *)
(* that they see.                                                           *)
(***************************************************************************)
EXTENDS Integers, FiniteSets

(* The sum of the first n of f.                                             *)
SumTo(f, n) == LET sum[j \in 0..n] == IF j = 0 THEN 0 ELSE sum[j - 1] + f[j]
               IN sum[n]

Below(S, x) == {y \in S : y < x}

(* The elements of S, the least first.                                      *)
Ascending(S) ==
    [i \in 1..Cardinality(S) |-> CHOOSE x \in S : Cardinality(Below(S, x)) = i - 1]
=============================================================================
