---------------------------- MODULE StorageFaults ----------------------------
(***************************************************************************)
(* verifyEvents (lib/audit.js) against a store that lost, altered, moved   *)
(* or mixed up rows and anchors.  Whoever damages the store has no keys:   *)
(* a hash or a signature that is stored was once computed by the server.   *)
(***************************************************************************)
EXTENDS ChainVerify

CONSTANTS MaxLen,       \* events ever appended to each ledger
          MaxFaults     \* bound on the damages done to the store

ASSUME SizeAssumption == MaxLen \in Nat \ {0} /\ MaxFaults \in Nat

VARIABLES rows, anchors,   \* the store of the audit ledger
          faults           \* damages so far

vars == <<rows, anchors, faults>>

Domains == {"audit", "perm"}

\* What the server appended to a ledger.  Both ledgers hold the same cores,
\* so that only the domain tells their rows apart.
truth == [d \in Domains |->
            LET row[s \in 1..MaxLen] ==
                    Chained(d, IF s = 1 THEN NoHead
                               ELSE [seq |-> s - 1, hash |-> row[s - 1].hash], s)
            IN  row]

TrueAnchor(d, s) == SignAnchor(d, [seq |-> s, hash |-> truth[d][s].hash])

\* Any rows the damaged store may hold: true ones, and true ones altered.
Rows == {truth[d][s] : d \in Domains, s \in 1..MaxLen}
Altered == {[r EXCEPT !.core = 0] : r \in Rows}
             \cup {[r EXCEPT !.prev = Genesis] : r \in Rows}

\* A ledger that was anchored at some heads and pruned at one of them.
Init ==
    /\ \E pinned \in SUBSET (1..MaxLen), first \in 1..MaxLen :
          /\ first = 1 \/ first - 1 \in pinned
          /\ anchors = {TrueAnchor("audit", s) : s \in pinned}
          /\ rows = [s \in first..MaxLen |-> truth["audit"][s]]
    /\ faults = 0

Damage(newRows, newAnchors) ==
    /\ faults < MaxFaults
    /\ faults' = faults + 1
    /\ rows' = newRows
    /\ anchors' = newAnchors

LoseRows ==
    \E left \in SUBSET DOMAIN rows : Damage([s \in left |-> rows[s]], anchors)

PutRow ==
    \E s \in 1..MaxLen, row \in Rows \cup Altered :
        Damage([r \in DOMAIN rows \cup {s} |-> IF r = s THEN row ELSE rows[r]], anchors)

LoseAnchor == \E a \in anchors : Damage(rows, anchors \ {a})

PutAnchor ==
    \E d \in Domains, s \in 1..MaxLen : Damage(rows, anchors \cup {TrueAnchor(d, s)})

Next == LoseRows \/ PutRow \/ LoseAnchor \/ PutAnchor

Spec == Init /\ [][Next]_vars

----------------------------------------------------------------------------
\* What a clean report should mean: the rows are the true ones, without a
\* gap, from the first or from just after an anchored one, up to at least
\* every anchored one, and all anchors are this ledger's.
Genuine ==
    /\ \A a \in anchors : a.signedFor = "audit"
    /\ \A s \in DOMAIN rows : rows[s] = truth["audit"][s]
    /\ \E before, last \in 0..MaxLen :
          /\ DOMAIN rows = (before + 1)..last
          /\ before < last \/ last = 0
          /\ before = 0 \/ \E a \in anchors : a.seqHigh = before
          /\ \A a \in anchors : a.seqHigh <= last

\* verifyEvents accepts exactly the genuine windows of the history: no damage
\* goes unnoticed unless it amounts to a legal prune, and no legal state is
\* rejected.
VerifyIsExact == (Verdict(rows, anchors, "audit") = Sound) <=> Genuine
============================================================================
