------------------------------ MODULE MCLedger ------------------------------
(* Small instances of Ledger, and its properties in the form TLC checks. *)
EXTENDS LedgerProps, TLC

Symmetry == Permutations(Writers)
============================================================================
