----------------------------- MODULE LedgerProps -----------------------------
(* What the audit ledger promises, over the state of Ledger. *)
EXTENDS Ledger

Faults == [reason : {"anchor_signature_invalid", "anchor_ahead_of_head",
                     "no_anchor_for_start", "seq_gap", "prev_hash_mismatch",
                     "entry_hash_mismatch", "anchor_head_mismatch"},
           seq : 0..headSeq]

\* Types of the stored state and of every handler's locals: sequence numbers
\* held across awaits never exceed the head, retries never exceed the limit.
TypeOK ==
    /\ now \in Nat
    /\ headSeq \in Nat
    /\ DOMAIN rows \subseteq 1..headSeq
    /\ \A s \in DOMAIN rows : rows[s].core.ts \in 0..now
    /\ \A a \in anchors : a.seqHigh \in 1..headSeq
    /\ pc \in [Procs -> Steps]
    /\ \A p \in Procs :
          /\ op[p].key \in Keys \cup {NoKey} \cup Faults
          /\ op[p].ts \in 0..now
          /\ op[p].head.seq \in 0..headSeq
          /\ op[p].attempt \in 0..MaxRetries
          /\ op[p].from \in 0..headSeq
          /\ DOMAIN op[p].seen \subseteq 1..headSeq
          /\ op[p].cutoff \in -Retention..now
          /\ op[p].pending \subseteq 1..headSeq
          /\ op[p].boundary \in 0..headSeq

\* In every state the stored ledger verifies against the stored anchors,
\* whatever appends, anchors, prunes and crashes are under way (README:
\* "verify() stays sound").
LedgerVerifies == Verdict(rows, anchors, Domain) = Sound

\* Append-only: a stored row is the one first inserted at its seq, no seq is
\* ever used again, and the newest row is always stored.
HistoryKept ==
    /\ DOMAIN log = 1..headSeq
    /\ \A s \in DOMAIN rows : rows[s] = log[s]
    /\ headSeq > 0 => headSeq \in DOMAIN rows

\* The prune forgets the keys of what it deletes, so a key can be recorded
\* again, but only by a request that comes (nearly) a window later.
DuplicatesAreOld ==
    \A s, t \in DOMAIN log :
        s < t /\ log[s].core.key = log[t].core.key /\ log[s].core.key # NoKey
            => /\ s \notin DOMAIN rows
               /\ log[t].core.ts > log[s].core.ts + Retention - 2 * MaxStall

\* A retry of the optimistic append happens only because somebody else
\* appended in between: after n failed attempts others have added n rows since
\* the event was stamped, and the head about to be chained onto is the last of
\* them or later (lib/hashchain.js, appendChained).
RetriesArePaidFor ==
    \A p \in Procs :
        pc[p] = "insert" => op[p].head.seq >= op[p].from + op[p].attempt

\* Nothing leaves the ledger before its window is over, up to the time an
\* append may have been under way when its neighbour was stamped.
PruneWithinWindow ==
    [][\A s \in DOMAIN rows \ DOMAIN rows' :
          rows[s].core.ts < now - Retention + MaxStall]_vars

\* The only fault a tick can report on an intact ledger is the one that comes
\* from reading the events before the anchors.
AlarmsAreStaleReads ==
    \A t \in Tickers :
        pc[t] \in AppendSteps => op[t].key.reason = "anchor_ahead_of_head"

Abstract == INSTANCE AbstractLedger WITH
    log <- [s \in 1..headSeq |-> log[s].core],
    kept <- DOMAIN rows,
    pinned <- {a.seqHigh : a \in anchors}

\* The ledger implements the abstract append-only log.
ImplementsAbstract == Abstract!Spec

----------------------------------------------------------------------------
(* Liveness: handlers run on unless they die, and the tick, which does not *)
(* die here, comes again and again.                                         *)

Fairness ==
    /\ \A p \in Procs : WF_vars(AppendStep(p))
    /\ \A t \in Tickers : WF_vars(BeginTick(t)) /\ WF_vars(TickStep(t))

LiveSpec ==
    /\ Init
    /\ [][Run \/ \E w \in Writers : Die(w)]_vars
    /\ Fairness

\* Every call and every tick ends: the retry loop and the scan cannot spin.
HandlersReturn == \A p \in Procs : pc[p] # "idle" ~> pc[p] = "idle"

\* Every event is eventually covered by an anchor.
EventsGetAnchored ==
    \A s \in 1..MaxSeq :
        headSeq >= s ~> \E a \in anchors : a.seqHigh >= s
============================================================================
