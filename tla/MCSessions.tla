----------------------------- MODULE MCSessions -----------------------------
(* Small instances of Sessions. *)
EXTENDS SessionProps, TLC

Symmetry == Permutations(Handlers) \cup Permutations(Devices)
============================================================================
