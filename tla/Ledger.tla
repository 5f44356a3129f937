------------------------------- MODULE Ledger -------------------------------
(***************************************************************************)
(* One append-only, hash-chained ledger (audit_events with audit_anchors)  *)
(* under concurrent request handlers and maintenance ticks:                *)
(*   lib/audit.js       recordEvent, anchorChain, verifyAuditChain         *)
(*   lib/hashchain.js   appendChained (optimistic append with retry)       *)
(*   lib/retention.js   pruneAnchorAligned                                 *)
(*   lib/scheduler.js   runMaintenance, the steps of one chain             *)
(*   lib/repo.js        appendOnlyCollection                               *)
(*                                                                         *)
(* Every repository call is awaited, so one call is one atomic step and    *)
(* everything else may run between two calls of the same handler.  pc says *)
(* which call a handler makes next, op holds its local variables.          *)
(***************************************************************************)
EXTENDS ChainVerify

CONSTANTS
    Writers,      \* request handlers that record events
    Tickers,      \* maintenance ticks: the interval of each instance, the cli
    Keys,         \* idempotency keys callers may send
    NoKey,        \* "no idempotency key"
    Domain,       \* this ledger's tag in hashes and anchor signatures
    Retention,    \* the retention window, in clock units
    MaxStall,     \* longest time between stamping an event and inserting it
    MaxRetries,   \* appendChained's opts.maxRetries
    MaxTime,      \* bound on the clock
    MaxSeq        \* bound on the number of events ever appended

ASSUME ProcsAssumption == Writers \cap Tickers = {}
ASSUME BoundsAssumption ==
    /\ Retention \in Nat /\ MaxStall \in Nat /\ MaxRetries \in Nat
    /\ MaxTime \in Nat /\ MaxSeq \in Nat

\* The window is far longer than a request: 7 days against one HTTP call.
ASSUME StallAssumption == 2 * MaxStall <= Retention

VARIABLES
    rows,         \* the stored events: a function from seq to row (bySeq)
    headSeq,      \* the highest seq ever inserted
    anchors,      \* the anchor collection, never deleted from
    now,          \* the clock
    pc,           \* the repository call each handler makes next
    op,           \* each handler's local variables
    log           \* history: the row first inserted at each seq, stored or not

vars == <<rows, headSeq, anchors, now, pc, op, log>>

Procs == Writers \cup Tickers

\* The steps of recordEvent + appendChained, and all steps.
AppendSteps == {"lookup", "stamp", "getHead", "insert", "relookup"}
TickSteps == {"anchorHead", "anchorFind", "anchorInsert", "verifyEvents",
              "verifyAnchors", "pruneHead", "pruneAnchors", "pruneScan",
              "pruneDelete"}
Steps == {"idle"} \cup AppendSteps \cup TickSteps

Idle == [key |-> NoKey, ts |-> 0, head |-> NoHead, attempt |-> 0,
         seen |-> <<>>, cutoff |-> 0, pending |-> {}, boundary |-> 0,
         from |-> 0]   \* history: the head when the event was stamped

Init ==
    /\ rows = <<>>
    /\ headSeq = 0
    /\ anchors = {}
    /\ now = 0
    /\ pc = [p \in Procs |-> "idle"]
    /\ op = [p \in Procs |-> Idle]
    /\ log = <<>>

Goto(p, step, locals) ==
    /\ pc' = [pc EXCEPT ![p] = step]
    /\ op' = [op EXCEPT ![p] = locals]

Return(p) == Goto(p, "idle", Idle)

stored == <<rows, headSeq, anchors, log>>

----------------------------------------------------------------------------
(* The repository's calls. *)

StoredHead ==
    IF headSeq = 0 THEN NoHead
    ELSE [seq |-> headSeq, hash |-> rows[headSeq].hash]

\* Mutant: no unique index on the key.
NoKeyIndex(key) == FALSE

KeyTaken(key) == key # NoKey /\ \E s \in DOMAIN rows : rows[s].core.key = key

\* Mutant: no unique index on seq.
NoSeqIndex(seq) == FALSE

SeqTaken(seq) == seq \in DOMAIN rows

InsertRow(seq, row) ==
    /\ rows' = [s \in DOMAIN rows \cup {seq} |->
                    IF s = seq THEN row ELSE rows[s]]
    /\ headSeq' = IF seq > headSeq THEN seq ELSE headSeq
    /\ log' = [s \in DOMAIN log \cup {seq} |->
                   IF s \in DOMAIN log THEN log[s] ELSE row]

\* Mutant: deletes the rows strictly below the boundary.
KeptFrom(boundary) == {s \in DOMAIN rows : s >= boundary \/ s = headSeq}

\* deleteBelowSeq never removes the head and never lowers headSeq.
KeptAbove(boundary) == {s \in DOMAIN rows : s > boundary \/ s = headSeq}

----------------------------------------------------------------------------
(* recordEvent and appendChained. *)

\* Bound: room for one more event besides those being appended.
Room == headSeq + Cardinality({p \in Procs : pc[p] \in AppendSteps}) < MaxSeq

\* recordEvent with this key: the lookup is skipped when there is none.
Recording(p, key) ==
    Goto(p, IF key = NoKey THEN "stamp" ELSE "lookup", [Idle EXCEPT !.key = key])

BeginRecord(w) ==
    /\ pc[w] = "idle"
    /\ Room
    /\ \E key \in Keys \cup {NoKey} : Recording(w, key)
    /\ UNCHANGED <<stored, now>>

\* findByIdempotencyKey, before and after losing a race: a hit is the reply;
\* a miss goes on to the append, or after the race rethrows.
Lookup(p) ==
    /\ pc[p] = "lookup"
    /\ IF KeyTaken(op[p].key) THEN Return(p) ELSE Goto(p, "stamp", op[p])
    /\ UNCHANGED <<stored, now>>

Relookup(p) ==
    /\ pc[p] = "relookup"
    /\ Return(p)
    /\ UNCHANGED <<stored, now>>

\* buildCore: serverTs is read once, after the awaited geo lookup and before
\* the first attempt to append.
Stamp(p) ==
    /\ pc[p] = "stamp"
    /\ Goto(p, "getHead", [op[p] EXCEPT !.ts = now, !.from = headSeq])
    /\ UNCHANGED <<stored, now>>

GetHead(p) ==
    /\ pc[p] = "getHead"
    /\ Goto(p, "insert", [op[p] EXCEPT !.head = StoredHead])
    /\ UNCHANGED <<stored, now>>

MayRetry(p) == op[p].attempt < MaxRetries

\* Mutants: retry on the head that has just lost, counting it or not.
RetryOnStaleHead(p) ==
    /\ pc[p] = "insert"
    /\ SeqTaken(op[p].head.seq + 1)
    /\ IF MayRetry(p)
       THEN Goto(p, "insert", [op[p] EXCEPT !.attempt = @ + 1])
       ELSE Return(p)
    /\ UNCHANGED <<stored, now>>

RetryForever(p) ==
    /\ pc[p] = "insert"
    /\ SeqTaken(op[p].head.seq + 1)
    /\ UNCHANGED vars

\* DUPLICATE_SEQ: read the head again, or give up with the error.
InsertConflict(p) ==
    /\ pc[p] = "insert"
    /\ SeqTaken(op[p].head.seq + 1)
    /\ IF MayRetry(p)
       THEN Goto(p, "getHead", [op[p] EXCEPT !.attempt = @ + 1])
       ELSE Return(p)
    /\ UNCHANGED <<stored, now>>

\* DUPLICATE_IDEMPOTENCY: look for the winner.
InsertDuplicate(p) ==
    /\ pc[p] = "insert"
    /\ ~SeqTaken(op[p].head.seq + 1)
    /\ KeyTaken(op[p].key)
    /\ Goto(p, "relookup", op[p])
    /\ UNCHANGED <<stored, now>>

Insert(p) ==
    /\ pc[p] = "insert"
    /\ ~SeqTaken(op[p].head.seq + 1)
    /\ ~KeyTaken(op[p].key)
    /\ InsertRow(op[p].head.seq + 1,
                 Chained(Domain, op[p].head, [key |-> op[p].key, ts |-> op[p].ts]))
    /\ Return(p)
    /\ UNCHANGED <<anchors, now>>

AppendStep(p) ==
    \/ Lookup(p) \/ Stamp(p) \/ GetHead(p)
    \/ InsertConflict(p) \/ InsertDuplicate(p) \/ Insert(p) \/ Relookup(p)

----------------------------------------------------------------------------
(* runMaintenance: anchor, verify (alert), prune. *)

BeginTick(t) ==
    /\ pc[t] = "idle"
    /\ Goto(t, "anchorHead", Idle)
    /\ UNCHANGED <<stored, now>>

AnchorHead(t) ==
    /\ pc[t] = "anchorHead"
    /\ IF headSeq = 0 THEN Goto(t, "verifyEvents", Idle)
       ELSE Goto(t, "anchorFind", [Idle EXCEPT !.head = StoredHead])
    /\ UNCHANGED <<stored, now>>

\* Mutant: anchors once and never again.
AnchoredBefore(seq) == anchors # {}

\* "last" is the anchor with the highest seqHigh.
AlreadyAnchored(seq) ==
    /\ \E a \in anchors : a.seqHigh = seq
    /\ \A a \in anchors : a.seqHigh <= seq

AnchorFind(t) ==
    /\ pc[t] = "anchorFind"
    /\ IF AlreadyAnchored(op[t].head.seq) THEN Goto(t, "verifyEvents", Idle)
       ELSE Goto(t, "anchorInsert", op[t])
    /\ UNCHANGED <<stored, now>>

\* Mutant: signs the present head hash under the seq read before.
AnchorMixed(t) ==
    /\ pc[t] = "anchorInsert"
    /\ anchors' = anchors \cup {SignAnchor(Domain, [op[t].head EXCEPT !.hash = StoredHead.hash])}
    /\ Goto(t, "verifyEvents", Idle)
    /\ UNCHANGED <<rows, headSeq, log, now>>

AnchorInsert(t) ==
    /\ pc[t] = "anchorInsert"
    /\ anchors' = anchors \cup {SignAnchor(Domain, op[t].head)}
    /\ Goto(t, "verifyEvents", Idle)
    /\ UNCHANGED <<rows, headSeq, log, now>>

\* verifyAuditChain reads the events first and the anchors second.
VerifyEvents(t) ==
    /\ pc[t] = "verifyEvents"
    /\ Goto(t, "verifyAnchors", [Idle EXCEPT !.seen = rows])
    /\ UNCHANGED <<stored, now>>

\* A failed verification is recorded under a key made of the fault, and this
\* tick does not prune.  emit swallows every error, so the alert may be lost.
VerifyAnchors(t) ==
    /\ pc[t] = "verifyAnchors"
    /\ LET verdict == Verdict(op[t].seen, anchors, Domain)
       IN  IF verdict = Sound THEN Goto(t, "pruneHead", Idle)
           ELSE \/ Room /\ Recording(t, verdict)
                \/ Return(t)
    /\ UNCHANGED <<stored, now>>

PruneHead(t) ==
    /\ pc[t] = "pruneHead"
    /\ IF headSeq = 0 THEN Return(t)
       ELSE Goto(t, "pruneAnchors",
                 [Idle EXCEPT !.head = StoredHead, !.cutoff = now - Retention])
    /\ UNCHANGED <<stored, now>>

PruneAnchors(t) ==
    /\ pc[t] = "pruneAnchors"
    /\ Goto(t, "pruneScan",
            [op[t] EXCEPT !.pending = {a.seqHigh : a \in anchors}])
    /\ UNCHANGED <<stored, now>>

\* Mutant: an anchor on the head itself may become the boundary.
NextAnchorOrHead(t, seq) ==
    /\ seq \in op[t].pending
    /\ \A other \in op[t].pending : seq <= other
    /\ seq <= op[t].head.seq

\* One iteration of the loop over the anchors, lowest first.
NextAnchor(t, seq) ==
    /\ seq \in op[t].pending
    /\ \A other \in op[t].pending : seq <= other
    /\ seq < op[t].head.seq

\* Mutant: one unit too early.
ExpiredEarly(t, seq) == rows[seq].core.ts <= op[t].cutoff

Expired(t, seq) == rows[seq].core.ts < op[t].cutoff

\* findOne({seq}): gone already, or stored and past the window: advance.
MayPrune(t, seq) == seq \in DOMAIN rows => Expired(t, seq)

PruneAdvance(t) ==
    /\ pc[t] = "pruneScan"
    /\ \E seq \in op[t].pending :
          /\ NextAnchor(t, seq)
          /\ MayPrune(t, seq)
          /\ Goto(t, "pruneScan",
                  [op[t] EXCEPT !.boundary = seq, !.pending = @ \ {seq}])
    /\ UNCHANGED <<stored, now>>

\* The loop ends at the head, at the first event inside the window, or with
\* the anchors; without a boundary there is nothing to delete.
PruneStop(t) ==
    /\ pc[t] = "pruneScan"
    /\ \A seq \in op[t].pending : NextAnchor(t, seq) => ~MayPrune(t, seq)
    /\ IF op[t].boundary = 0 THEN Return(t)
       ELSE Goto(t, "pruneDelete", [Idle EXCEPT !.boundary = op[t].boundary])
    /\ UNCHANGED <<stored, now>>

PruneDelete(t) ==
    /\ pc[t] = "pruneDelete"
    /\ rows' = [s \in KeptAbove(op[t].boundary) |-> rows[s]]
    /\ Return(t)
    /\ UNCHANGED <<headSeq, anchors, log, now>>

TickStep(t) ==
    \/ AnchorHead(t) \/ AnchorFind(t) \/ AnchorInsert(t)
    \/ VerifyEvents(t) \/ VerifyAnchors(t)
    \/ PruneHead(t) \/ PruneAnchors(t) \/ PruneAdvance(t) \/ PruneStop(t)
    \/ PruneDelete(t)

----------------------------------------------------------------------------
\* A repository call rejects, or the process dies: the handler is gone.
Die(p) ==
    /\ pc[p] # "idle"
    /\ Return(p)
    /\ UNCHANGED <<stored, now>>

\* Environment: time passes, but no append is left hanging beyond MaxStall.
Elapse ==
    /\ now < MaxTime
    /\ \A p \in Procs :
          pc[p] \in {"getHead", "insert"} => now - op[p].ts < MaxStall
    /\ now' = now + 1
    /\ UNCHANGED <<stored, pc, op>>

Run ==
    \/ \E w \in Writers : BeginRecord(w)
    \/ \E t \in Tickers : BeginTick(t) \/ TickStep(t)
    \/ \E p \in Procs : AppendStep(p)
    \/ Elapse

Next == Run \/ \E p \in Procs : Die(p)

Spec == Init /\ [][Next]_vars
============================================================================
