----------------------------- MODULE MCCommands -----------------------------
(* Small instances of Commands. *)
EXTENDS CommandProps, TLC

Symmetry ==
    Permutations(Admins) \cup Permutations(Pollers) \cup Permutations(Ackers)
        \cup Permutations(Ids)
=============================================================================
