-------------------------------- MODULE Sums --------------------------------
(***************************************************************************)
(* The sum of the first n values of a sequence (or of any function defined *)
(* on 1..n), as a recursive function so that proofs can reason about it.   *)
(* The contract never adds up its users, but its invariants do, and it     *)
(* adds up the amounts of a user's locks.                                  *)
(***************************************************************************)
EXTENDS Integers

Sum(s, n) ==
  LET partial[i \in 0..n] == IF i = 0 THEN 0 ELSE partial[i - 1] + s[i]
  IN  partial[n]
=============================================================================
