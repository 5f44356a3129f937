---------------------------- MODULE MCTransfers ----------------------------
(* Small instances of Transfers. *)
EXTENDS TransferProps, TLC

Symmetry == Permutations(Exporters) \cup Permutations(Importers)
============================================================================
