--------------------------- MODULE AbstractLedger ---------------------------
(***************************************************************************)
(* What an append-only ledger of this system promises, whoever runs        *)
(* concurrently: entries are appended one at a time and never rewritten,   *)
(* anchors pin positions of the log, and only a proper prefix that ends at *)
(* a pinned position is ever forgotten.                                    *)
(***************************************************************************)
EXTENDS Integers, Sequences

VARIABLES log,       \* every entry ever accepted, in order
          kept,      \* the positions of log that are still stored
          pinned     \* the positions of log an anchor commits to

vars == <<log, kept, pinned>>

Init ==
    /\ log = <<>>
    /\ kept = {}
    /\ pinned = {}

\* One more entry, after everything accepted so far.
Accept ==
    /\ Len(log') = Len(log) + 1
    /\ \A i \in 1..Len(log) : log'[i] = log[i]
    /\ kept' = kept \cup {Len(log) + 1}
    /\ UNCHANGED pinned

Pin ==
    /\ \E n \in 1..Len(log) : pinned' = pinned \cup {n}
    /\ UNCHANGED <<log, kept>>

Forget ==
    /\ \E b \in pinned : b < Len(log) /\ kept' = {s \in kept : s > b}
    /\ UNCHANGED <<log, pinned>>

Next == Accept \/ Pin \/ Forget

Spec == Init /\ [][Next]_vars
============================================================================
