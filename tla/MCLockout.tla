----------------------------- MODULE MCLockout -----------------------------
(* A small instance of Lockout. *)
EXTENDS LockoutProps, TLC

Symmetry == Permutations(Guessers)
=============================================================================
