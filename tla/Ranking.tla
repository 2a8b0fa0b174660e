-------------------------------- MODULE Ranking --------------------------------
(***************************************************************************)
(* What a loop that skips some elements of a list leaves of it.            *)
(* Positions are counted where a fold would run through them, so that a    *)
(* proof can speak of the result without induction.                        *)
(***************************************************************************)
EXTENDS Integers, FiniteSets

\* The n-th smallest of a finite set of numbers.
Nth(S, n) == CHOOSE i \in S : Cardinality({j \in S : j < i}) = n - 1

\* The elements of a sequence at some of its positions, in their order.
Subsequence(s, positions) == [n \in 1 .. Cardinality(positions) |-> s[Nth(positions, n)]]
=============================================================================
