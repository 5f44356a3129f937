---------------------------- MODULE LedgerProofs ----------------------------
(***************************************************************************)
(* Proofs about Ledger, for any number of writers and ticks, any keys,     *)
(* window, stall bound and retry limit.                                    *)
(*                                                                         *)
(* The inductive invariant IInv follows one thought: whatever a handler    *)
(* read before an await and still holds (a head, a snapshot, a list of     *)
(* anchors, a boundary) remains TRUE OF THE HISTORY, because the history   *)
(* only grows; and what it does NOT hold any more (that the head is still  *)
(* the head) is what the unique seq detects, as long as a prune never      *)
(* overtakes an append, which is where time comes in.  IInv is an          *)
(* invariant on MongoDB too, where a prune may stop half way; StartInv,    *)
(* that what is stored starts at the beginning or after an anchored event, *)
(* is one of the in-memory repository only.                                *)
(*                                                                         *)
(* Of the liveness of LedgerProps it proves what holds step by step: Rank  *)
(* falls with each step of a handler, and a tick keeps its promise of an   *)
(* anchor (Covering).                                                      *)
(***************************************************************************)
EXTENDS LedgerMongo, Sequences, TLAPS

USE BoundsAssumption, StallAssumption

\* The head of the ledger when n events had been appended.
HeadAt(n) == IF n = 0 THEN NoHead ELSE [seq |-> n, hash |-> log[n].hash]

\* Every event ever appended is chained to the one before it, and neighbours
\* are stamped at most MaxStall out of order.
HistoryInv ==
    /\ DOMAIN log = 1..headSeq
    /\ \A s \in 1..headSeq :
          /\ log[s] = Chained(Domain, HeadAt(s - 1), log[s].core)
          /\ log[s].core.ts \in 0..now
    /\ \A s, t \in 1..headSeq :
          s < t => log[s].core.ts <= log[t].core.ts + MaxStall

\* Rows that are, or once were, all that is stored: an unbroken window of the
\* history.
Window(stock) ==
    /\ DOMAIN stock \subseteq 1..headSeq
    /\ \A s \in DOMAIN stock : stock[s] = log[s]
    /\ \A s, t \in DOMAIN stock : s..t \subseteq DOMAIN stock

\* A window that starts at the beginning or just after an anchored event.
StartAnchored(stock) ==
    \A s \in DOMAIN stock :
        s = 1 \/ s - 1 \in DOMAIN stock \/ \E a \in anchors : a.seqHigh = s - 1

AnchorsInv ==
    \A a \in anchors :
        /\ a.seqHigh \in 1..headSeq
        /\ a = SignAnchor(Domain, HeadAt(a.seqHigh))

\* What was pruned is old, and a key seen twice was pruned in between.
PrunedInv ==
    /\ \A s \in 1..headSeq : s \notin DOMAIN rows
                                => log[s].core.ts < now - Retention + MaxStall
    /\ DuplicatesAreOld

StoredInv ==
    /\ now \in Nat /\ headSeq \in Nat
    /\ HistoryInv
    /\ Window(rows)
    /\ headSeq > 0 => headSeq \in DOMAIN rows
    /\ AnchorsInv
    /\ PrunedInv

\* What a handler holds across an await is true of the history.
Held(o) ==
    /\ o.head.seq \in 0..headSeq
    /\ o.head = HeadAt(o.head.seq)
    /\ Window(o.seen)
    /\ o.pending \subseteq {a.seqHigh : a \in anchors}
    /\ o.boundary \in 0..headSeq
    /\ o.boundary # 0 => /\ o.boundary < headSeq
                         /\ \E a \in anchors : a.seqHigh = o.boundary

\* An append is under way for at most MaxStall; what was appended since it
\* read its head is young, and still stored.
Timely(step, o) ==
    /\ step \in {"getHead", "insert"} => now <= o.ts + MaxStall
    /\ step = "insert" =>
          \A s \in 1..headSeq : s > o.head.seq =>
              /\ log[s].core.ts >= o.ts - MaxStall
              /\ s \in DOMAIN rows

\* A prune only goes for events that left the window.
Prudent(step, o) ==
    /\ o.cutoff \in Int /\ o.cutoff >= -Retention /\ o.cutoff <= now
    /\ step \in {"pruneAnchors", "pruneScan"} => o.cutoff <= now - Retention
    /\ o.boundary \in DOMAIN rows => log[o.boundary].core.ts < now - Retention

AheadOfHead == Fault("anchor_ahead_of_head", 0)
NoStart == Fault("no_anchor_for_start", 0)

\* What a tick can find wrong with a window of the history.
Alarms == {AheadOfHead, NoStart}

LocalNames == {"key", "ts", "head", "attempt", "seen", "cutoff", "pending", "boundary",
               "from"}

Local(p, step, o) ==
    /\ step \in Steps
    /\ step \in TickSteps => p \in Tickers
    /\ DOMAIN o = LocalNames
    /\ o.ts \in 0..now
    /\ o.attempt \in 0..MaxRetries
    /\ o.from \in 0..headSeq
    /\ step \in {"lookup", "stamp"} => o.attempt = 0
    /\ step \in {"getHead", "insert"} => o.from + o.attempt <= headSeq
    /\ step = "insert" => o.from + o.attempt <= o.head.seq
    /\ step \in {"anchorFind", "anchorInsert"} => o.head.seq > 0
    /\ o.key \in Keys \cup {NoKey} \cup Alarms
    /\ p \in Tickers /\ step \in AppendSteps => o.key \in Alarms
    /\ Held(o)
    /\ Timely(step, o)
    /\ Prudent(step, o)

\* No prune overtakes an append.
NoOvertaking ==
    \A p, t \in Procs : pc[p] = "insert" => op[t].boundary <= op[p].head.seq

IInv ==
    /\ StoredInv
    /\ pc = [p \in Procs |-> pc[p]]
    /\ op = [p \in Procs |-> op[p]]
    /\ \A p \in Procs : Local(p, pc[p], op[p])
    /\ NoOvertaking

\* On the in-memory repository what is stored, and what a tick has read of it,
\* is anchored where it starts.
StartInv ==
    /\ StartAnchored(rows)
    /\ \A p \in Procs : StartAnchored(op[p].seen)
    /\ \A t \in Tickers : pc[t] \in AppendSteps => op[t].key = AheadOfHead

----------------------------------------------------------------------------
(* Verification. *)

\* A window of the history verifies against true anchors, unless it ends
\* below an anchored event or starts away from any.
LEMMA WindowVerdict ==
    ASSUME NEW R, StoredInv, Window(R)
    PROVE  Verdict(R, anchors, Domain) =
              IF AnchorAheadOfHead(R, anchors) THEN AheadOfHead
              ELSE IF NoAnchorForStart(R, anchors) THEN NoStart
              ELSE Sound
<1> SUFFICES ASSUME ~AnchorAheadOfHead(R, anchors), ~NoAnchorForStart(R, anchors)
             PROVE  Verdict(R, anchors, Domain) = Sound
  <2>1. ~BadSignature(anchors, Domain)
    BY DEF BadSignature, StoredInv, AnchorsInv, SignAnchor
  <2>2. QED
    BY <2>1 DEF Verdict, AheadOfHead, NoStart
<1>1. ~BadSignature(anchors, Domain)
  BY DEF BadSignature, StoredInv, AnchorsInv, SignAnchor
<1>2. ~NoAnchorForStart(R, anchors)
  OBVIOUS
<1>3. ~AnchorHeadMismatch(R, anchors)
  BY DEF AnchorHeadMismatch, Window, StoredInv, AnchorsInv, SignAnchor, HeadAt
<1>4. ASSUME NEW s \in DOMAIN R
      PROVE  LinkFault(R, anchors, Domain, s) = Sound
  <2>1. /\ s \in 1..headSeq /\ headSeq \in Nat
        /\ R[s] = log[s]
        /\ log[s] = Chained(Domain, HeadAt(s - 1), log[s].core)
    BY DEF Window, StoredInv, HistoryInv
  <2>2. R[s].hash = EntryHash(Domain, s, R[s].prev, R[s].core)
    BY <2>1 DEF Chained, HeadAt, NoHead
  <2>3. R[s].prev = HeadAt(s - 1).hash
    BY <2>1 DEF Chained
  <2>4. IsFirst(R, s) \/ s - 1 \in DOMAIN R
    <3>1. SUFFICES ASSUME NEW t \in DOMAIN R, t < s
                   PROVE  s - 1 \in DOMAIN R
      BY <2>1 DEF IsFirst, Window
    <3>2. t \in Nat /\ s - 1 \in t..s
      BY <3>1, <2>1 DEF Window
    <3>3. QED
      BY <3>2 DEF Window
  <2>5. R[s].prev = ExpectedPrev(R, anchors, s)
    <3>1. CASE ~IsFirst(R, s)
      <4>1. s - 1 \in DOMAIN R /\ s - 1 \in 1..headSeq /\ R[s - 1] = log[s - 1]
        BY <3>1, <2>4 DEF Window
      <4>2. QED
        BY <3>1, <4>1, <2>1, <2>3 DEF ExpectedPrev, HeadAt
    <3>2. CASE IsFirst(R, s) /\ s = 1
      BY <3>2, <2>3 DEF ExpectedPrev, HeadAt, NoHead
    <3>3. CASE IsFirst(R, s) /\ s # 1
      <4>1. s > 1
        BY <3>3, <2>1
      <4>2. \E a \in anchors : a.seqHigh = s - 1
        BY <4>1, <3>3, <1>2 DEF NoAnchorForStart
      <4>3. \A a \in anchors : a.seqHigh = s - 1 => a.headHash = HeadAt(s - 1).hash
        BY <2>1 DEF StoredInv, AnchorsInv, SignAnchor, HeadAt
      <4>4. QED
        BY <3>3, <4>2, <4>3, <2>3 DEF ExpectedPrev
    <3>4. QED
      BY <3>1, <3>2, <3>3
  <2>6. QED
    BY <2>2, <2>4, <2>5 DEF LinkFault
<1>5. WalkFault(R, anchors, Domain) = Sound
  BY <1>4 DEF WalkFault
<1>6. QED
  BY <1>1, <1>2, <1>3, <1>5 DEF Verdict

----------------------------------------------------------------------------
(* Steps that only move one handler on. *)

\* A step that changes nothing stored keeps IInv when the new locals of its
\* handler are in order and its boundary stays below all appends.
LEMMA GotoKeeps ==
    ASSUME IInv, NEW p \in Procs, NEW s, NEW o,
           Goto(p, s, o), UNCHANGED <<stored, now>>,
           Local(p, s, o),
           s = "insert" => /\ o.boundary <= o.head.seq
                           /\ \A t \in Procs : op[t].boundary <= o.head.seq,
           \A q \in Procs : pc[q] = "insert" => o.boundary <= op[q].head.seq
    PROVE  IInv'
<1> USE DEF IInv
<1>1. UNCHANGED <<rows, headSeq, anchors, log, now>>
  BY DEF stored
<1>2. StoredInv'
  BY <1>1 DEF StoredInv, HistoryInv, HeadAt, Window, AnchorsInv, PrunedInv,
              DuplicatesAreOld
<1>3. /\ pc' = [q \in Procs |-> pc'[q]] /\ pc'[p] = s
      /\ op' = [q \in Procs |-> op'[q]] /\ op'[p] = o
      /\ \A q \in Procs \ {p} : pc'[q] = pc[q] /\ op'[q] = op[q]
  BY DEF Goto
<1>4. ASSUME NEW q \in Procs
      PROVE  Local(q, pc[q], op[q])'
  <2>1. Local(q, pc'[q], op'[q])
    BY <1>3
  <2>2. QED
    BY <2>1, <1>1 DEF Local, Held, HeadAt, Window, Timely, Prudent
<1>5. NoOvertaking'
  BY <1>3 DEF NoOvertaking
<1>6. QED
  BY <1>2, <1>3, <1>4, <1>5

\* A handler that has returned holds nothing.
LEMMA IdleLocal ==
    ASSUME IInv, NEW p \in Procs
    PROVE  Local(p, "idle", Idle)
BY DEF IInv, StoredInv, Local, Idle, LocalNames, Steps, TickSteps, AppendSteps, Held,
       HeadAt, NoHead, Window, Timely, Prudent

\* A call that ends lets go of what it held.
LEMMA ReturnKeeps ==
    ASSUME IInv, NEW p \in Procs, Return(p), UNCHANGED <<stored, now>>
    PROVE  IInv'
<1>1. Idle.boundary = 0
  BY DEF Idle
<1>2. \A q \in Procs : op[q].head.seq >= 0
  BY DEF IInv, Local, Held
<1>3. QED
  BY <1>1, <1>2, IdleLocal, GotoKeeps DEF Return

----------------------------------------------------------------------------
(* The steps of an append that change nothing stored. *)

\* Recording an event under a key that p may use.
LEMMA RecordingKeeps ==
    ASSUME IInv, NEW p \in Procs, NEW key \in Keys \cup {NoKey} \cup Alarms,
           p \in Tickers => key \in Alarms,
           Recording(p, key), UNCHANGED <<stored, now>>
    PROVE  IInv'
<1> DEFINE o == [Idle EXCEPT !.key = key]
           s == IF key = NoKey THEN "stamp" ELSE "lookup"
<1>1. Local(p, s, o) /\ o.boundary = 0
  BY IdleLocal DEF Local, Idle, LocalNames, Steps, TickSteps, AppendSteps, Held,
                   Timely, Prudent
<1>2. \A q \in Procs : op[q].head.seq >= 0
  BY DEF IInv, Local, Held
<1>3. s # "insert"
  OBVIOUS
<1>4. Goto(p, s, o)
  BY DEF Recording
<1> HIDE DEF o, s
<1>5. QED
  BY <1>1, <1>2, <1>3, <1>4, GotoKeeps

\* recordEvent begins and has read nothing yet.
LEMMA BeginRecordKeeps ==
    ASSUME IInv, NEW w \in Writers, BeginRecord(w)
    PROVE  IInv'
<1>1. w \in Procs /\ w \notin Tickers
  BY ProcsAssumption DEF Procs
<1>2. PICK key \in Keys \cup {NoKey} : Recording(w, key)
  BY DEF BeginRecord
<1>3. QED
  BY <1>1, <1>2, RecordingKeeps DEF BeginRecord

\* The idempotency lookup: an answer, or a stamp to take.
LEMMA LookupKeeps ==
    ASSUME IInv, NEW p \in Procs, Lookup(p)
    PROVE  IInv'
<1>1. CASE KeyTaken(op[p].key)
  BY <1>1, ReturnKeeps DEF Lookup
<1>2. CASE ~KeyTaken(op[p].key)
  <2>1. Local(p, "lookup", op[p])
    BY DEF Lookup, IInv
  <2>2. Local(p, "stamp", op[p])
    BY <2>1 DEF Local, Timely, Prudent, Steps, AppendSteps, TickSteps
  <2>3. \A q \in Procs : pc[q] = "insert" => op[p].boundary <= op[q].head.seq
    BY DEF IInv, NoOvertaking
  <2>4. QED
    BY <1>2, <2>2, <2>3, GotoKeeps DEF Lookup
<1>3. QED
  BY <1>1, <1>2

\* The stamp is the time now, so no row is stamped later.
LEMMA StampKeeps ==
    ASSUME IInv, NEW p \in Procs, Stamp(p)
    PROVE  IInv'
<1> DEFINE o == [op[p] EXCEPT !.ts = now, !.from = headSeq]
<1>1. Local(p, "stamp", op[p])
  BY DEF Stamp, IInv
<1>2. Local(p, "getHead", o)
  BY <1>1 DEF Local, Held, Timely, Prudent, Steps, AppendSteps, TickSteps, LocalNames,
              IInv, StoredInv
<1>3. \A q \in Procs : pc[q] = "insert" => o.boundary <= op[q].head.seq
  BY <1>1 DEF IInv, NoOvertaking, Local, LocalNames
<1>4. Goto(p, "getHead", o)
  BY DEF Stamp
<1> HIDE DEF o
<1>5. QED
  BY <1>2, <1>3, <1>4, GotoKeeps DEF Stamp

\* The head just read is above every boundary a prune has settled on.
LEMMA GetHeadKeeps ==
    ASSUME IInv, NEW p \in Procs, GetHead(p)
    PROVE  IInv'
<1> DEFINE o == [op[p] EXCEPT !.head = StoredHead]
<1>1. Local(p, "getHead", op[p])
  BY DEF GetHead, IInv
<1>2. StoredHead = HeadAt(headSeq) /\ StoredHead.seq = headSeq
  BY DEF IInv, StoredInv, Window, StoredHead, HeadAt, NoHead
<1>3. /\ DOMAIN o = LocalNames /\ o.head = StoredHead
      /\ o.ts = op[p].ts /\ o.attempt = op[p].attempt /\ o.from = op[p].from
      /\ o.key = op[p].key
      /\ o.seen = op[p].seen /\ o.cutoff = op[p].cutoff
      /\ o.pending = op[p].pending /\ o.boundary = op[p].boundary
  BY <1>1 DEF Local, LocalNames
<1>4. Goto(p, "insert", o)
  BY DEF GetHead
<1> HIDE DEF o
<1>5. headSeq \in Nat
  BY DEF IInv, StoredInv
<1>6. Local(p, "insert", o)
  BY <1>1, <1>2, <1>3, <1>5 DEF Local, Held, Timely, Prudent, Steps, AppendSteps, TickSteps
<1>7. \A t \in Procs : op[t].boundary <= headSeq
  BY <1>5 DEF IInv, Local, Held
<1>8. \A q \in Procs : pc[q] = "insert" => o.boundary <= op[q].head.seq
  BY <1>3 DEF IInv, NoOvertaking
<1>9. QED
  BY <1>2, <1>3, <1>4, <1>6, <1>7, <1>8, GotoKeeps DEF GetHead

\* A conflict proves that the head has moved since it was read.
LEMMA InsertConflictKeeps ==
    ASSUME IInv, NEW p \in Procs, InsertConflict(p)
    PROVE  IInv'
<1> DEFINE o == [op[p] EXCEPT !.attempt = @ + 1]
<1>1. Local(p, "insert", op[p])
  BY DEF InsertConflict, IInv
<1>2. CASE MayRetry(p)
  <2>1. op[p].head.seq + 1 <= headSeq /\ headSeq \in Nat
    BY <1>1 DEF InsertConflict, SeqTaken, IInv, StoredInv, Window, Local, Held
  <2>2. /\ DOMAIN o = LocalNames /\ o.attempt = op[p].attempt + 1
        /\ o.from = op[p].from /\ o.ts = op[p].ts /\ o.head = op[p].head /\ o.key = op[p].key
        /\ o.seen = op[p].seen /\ o.cutoff = op[p].cutoff
        /\ o.pending = op[p].pending /\ o.boundary = op[p].boundary
    BY <1>1 DEF Local, LocalNames
  <2>3. Goto(p, "getHead", o)
    BY <1>2 DEF InsertConflict
  <2> HIDE DEF o
  <2>4. Local(p, "getHead", o)
    BY <1>1, <1>2, <2>1, <2>2
    DEF Local, Held, Timely, Prudent, Steps, AppendSteps, TickSteps, MayRetry
  <2>5. \A q \in Procs : pc[q] = "insert" => o.boundary <= op[q].head.seq
    BY <2>2 DEF IInv, NoOvertaking
  <2>6. QED
    BY <2>3, <2>4, <2>5, GotoKeeps DEF InsertConflict
<1>3. CASE ~MayRetry(p)
  BY <1>3, ReturnKeeps DEF InsertConflict
<1>4. QED
  BY <1>2, <1>3

\* The unique index on the key refuses the row; nothing was stored.
LEMMA InsertDuplicateKeeps ==
    ASSUME IInv, NEW p \in Procs, InsertDuplicate(p)
    PROVE  IInv'
<1>1. Local(p, "insert", op[p])
  BY DEF InsertDuplicate, IInv
<1>2. Local(p, "relookup", op[p])
  BY <1>1 DEF Local, Timely, Prudent, Steps, AppendSteps, TickSteps
<1>3. \A q \in Procs : pc[q] = "insert" => op[p].boundary <= op[q].head.seq
  BY DEF IInv, NoOvertaking
<1>4. QED
  BY <1>2, <1>3, GotoKeeps DEF InsertDuplicate

----------------------------------------------------------------------------
(* The steps that change what is stored. *)

\* What a returning handler leaves behind while others go on.
LEMMA ReturnFrame ==
    ASSUME IInv, NEW p \in Procs, Return(p)
    PROVE  /\ pc' = [q \in Procs |-> pc'[q]] /\ pc'[p] = "idle"
           /\ op' = [q \in Procs |-> op'[q]] /\ op'[p] = Idle
           /\ \A q \in Procs \ {p} : pc'[q] = pc[q] /\ op'[q] = op[q]
           /\ NoOvertaking'
<1>1. /\ pc' = [q \in Procs |-> pc'[q]] /\ pc'[p] = "idle"
      /\ op' = [q \in Procs |-> op'[q]] /\ op'[p] = Idle
      /\ \A q \in Procs \ {p} : pc'[q] = pc[q] /\ op'[q] = op[q]
  BY DEF Return, Goto, IInv
<1>2. \A q \in Procs : op[q].head.seq >= 0
  BY DEF IInv, Local, Held
<1>3. QED
  BY <1>1, <1>2 DEF NoOvertaking, IInv, Idle

\* An append succeeds only on top of the current head.
LEMMA InsertKeeps ==
    ASSUME IInv, NEW p \in Procs, Insert(p)
    PROVE  IInv'
<1> DEFINE n == headSeq + 1
           row == Chained(Domain, HeadAt(headSeq),
                          [key |-> op[p].key, ts |-> op[p].ts])
<1>1. Local(p, "insert", op[p]) /\ headSeq \in Nat /\ now \in Nat
  BY DEF Insert, IInv, StoredInv
<1>2. op[p].head.seq = headSeq
  BY <1>1 DEF Insert, SeqTaken, Local, Held, Timely
<1>3. op[p].head = HeadAt(headSeq)
  BY <1>1, <1>2 DEF Local, Held
<1>4. DOMAIN rows \subseteq 1..headSeq /\ DOMAIN log = 1..headSeq
  BY DEF IInv, StoredInv, Window, HistoryInv
<1>5. InsertRow(n, row) /\ anchors' = anchors /\ now' = now /\ Return(p)
  BY <1>2, <1>3 DEF Insert
<1>6. /\ headSeq' = n
      /\ DOMAIN rows' = DOMAIN rows \cup {n} /\ rows'[n] = row
      /\ \A s \in DOMAIN rows : rows'[s] = rows[s]
      /\ DOMAIN log' = 1..n /\ log'[n] = row
      /\ \A s \in 1..headSeq : log'[s] = log[s]
  BY <1>1, <1>4, <1>5 DEF InsertRow
<1>7. /\ row.core.key = op[p].key /\ row.core.ts = op[p].ts
      /\ row = Chained(Domain, HeadAt(headSeq), row.core)
  BY DEF Chained
<1>8. \A s \in 0..headSeq : HeadAt(s)' = HeadAt(s)
  BY <1>1, <1>6 DEF HeadAt
<1>9. op[p].ts \in 0..now /\ now <= op[p].ts + MaxStall
  BY <1>1 DEF Local, Timely
<1> HIDE DEF row
<1>10. HistoryInv'
  <2>1. \A s \in 1..n : /\ log'[s] = Chained(Domain, HeadAt(s - 1), log[s].core)'
                        /\ log'[s].core.ts \in 0..now'
    <3>1. SUFFICES ASSUME NEW s \in 1..n
                   PROVE  /\ log'[s] = Chained(Domain, HeadAt(s - 1)', log'[s].core)
                          /\ log'[s].core.ts \in 0..now'
      OBVIOUS
    <3>2. s - 1 \in 0..headSeq /\ HeadAt(s - 1)' = HeadAt(s - 1)
      BY <3>1, <1>1, <1>8
    <3>3. CASE s = n
      <4>1. s - 1 = headSeq
        BY <3>3, <1>1
      <4>2. QED
        BY <4>1, <3>2, <3>3, <1>5, <1>6, <1>7, <1>9
    <3>4. CASE s # n
      <4>1. s \in 1..headSeq
        BY <3>1, <3>4, <1>1
      <4>2. QED
        BY <4>1, <3>2, <1>5, <1>6 DEF IInv, StoredInv, HistoryInv
    <3>5. QED
      BY <3>3, <3>4
  <2>2. ASSUME NEW s \in 1..n, NEW t \in 1..n, s < t
        PROVE  log'[s].core.ts <= log'[t].core.ts + MaxStall
    <3>1. s \in 1..headSeq
      BY <2>2, <1>1
    <3>2. log'[s] = log[s] /\ log[s].core.ts \in 0..now
      BY <3>1, <1>6 DEF IInv, StoredInv, HistoryInv
    <3>3. CASE t = n
      BY <3>2, <3>3, <1>1, <1>6, <1>7, <1>9
    <3>4. CASE t # n
      <4>1. t \in 1..headSeq
        BY <3>4, <1>1
      <4>2. QED
        BY <4>1, <3>1, <2>2, <1>6 DEF IInv, StoredInv, HistoryInv
    <3>5. QED
      BY <3>3, <3>4
  <2>3. QED
    BY <2>1, <2>2, <1>6 DEF HistoryInv
<1>11. Window(rows)'
  <2>1. /\ DOMAIN rows' \subseteq 1..n
        /\ \A s \in DOMAIN rows' : rows'[s] = log'[s]
    BY <1>1, <1>4, <1>6 DEF IInv, StoredInv, Window
  <2>2. \A s, t \in DOMAIN rows' : s..t \subseteq DOMAIN rows'
    BY <1>1, <1>4, <1>6 DEF IInv, StoredInv, Window
  <2>3. QED
    BY <2>1, <2>2, <1>6 DEF Window
<1>12. AnchorsInv'
  <2>1. \A a \in anchors : a.seqHigh \in 1..headSeq /\ a.seqHigh \in 0..headSeq
    BY <1>1 DEF IInv, StoredInv, AnchorsInv
  <2>2. QED
    BY <2>1, <1>1, <1>5, <1>6, <1>8 DEF IInv, StoredInv, AnchorsInv
<1>13. PrunedInv'
  <2>1. \A s \in 1..n : s \notin DOMAIN rows'
                           => log'[s].core.ts < now' - Retention + MaxStall
    <3>1. SUFFICES ASSUME NEW s \in 1..n, s \notin DOMAIN rows'
                   PROVE  log'[s].core.ts < now - Retention + MaxStall
      BY <1>5
    <3>2. s \in 1..headSeq /\ s \notin DOMAIN rows
      BY <3>1, <1>1, <1>6
    <3>3. QED
      BY <3>2, <1>6 DEF IInv, StoredInv, PrunedInv
  <2>2. ASSUME NEW s \in 1..headSeq, log[s].core.key = op[p].key, op[p].key # NoKey
        PROVE  /\ s \notin DOMAIN rows
               /\ op[p].ts > log[s].core.ts + Retention - 2 * MaxStall
    <3>1. s \notin DOMAIN rows
      BY <2>2 DEF Insert, KeyTaken, IInv, StoredInv, Window
    <3>2. log[s].core.ts < now - Retention + MaxStall
      BY <3>1 DEF IInv, StoredInv, PrunedInv
    <3>3. log[s].core.ts \in Int
      BY DEF IInv, StoredInv, HistoryInv
    <3>4. QED
      BY <3>1, <3>2, <3>3, <1>1, <1>9
  <2>3. DuplicatesAreOld'
    <3>1. SUFFICES ASSUME NEW s \in 1..n, NEW t \in 1..n, s < t,
                          log'[s].core.key = log'[t].core.key,
                          log'[s].core.key # NoKey
                   PROVE  /\ s \notin DOMAIN rows'
                          /\ log'[t].core.ts
                                > log'[s].core.ts + Retention - 2 * MaxStall
      BY <1>6 DEF DuplicatesAreOld
    <3>2. s \in 1..headSeq
      BY <3>1, <1>1
    <3>3. CASE t = n
      <4>1. /\ log'[s] = log[s] /\ log[s].core.key = op[p].key
            /\ op[p].key # NoKey /\ log'[t].core.ts = op[p].ts
        BY <3>1, <3>2, <3>3, <1>6, <1>7
      <4>2. /\ s \notin DOMAIN rows
            /\ op[p].ts > log[s].core.ts + Retention - 2 * MaxStall
        BY <4>1, <3>2, <2>2
      <4>3. s \notin DOMAIN rows'
        BY <4>2, <3>2, <1>1, <1>6
      <4>4. QED
        BY <4>1, <4>2, <4>3
    <3>4. CASE t # n
      <4>1. t \in 1..headSeq
        BY <3>4, <1>1
      <4>2. QED
        <5>1. log'[s] = log[s] /\ log'[t] = log[t]
          BY <3>2, <4>1, <1>6
        <5>2. /\ s \notin DOMAIN rows
              /\ log[t].core.ts > log[s].core.ts + Retention - 2 * MaxStall
          BY <5>1, <3>1, <3>2, <4>1, <1>4
          DEF IInv, StoredInv, PrunedInv, DuplicatesAreOld
        <5>3. s \notin DOMAIN rows'
          BY <5>2, <3>2, <1>1, <1>6
        <5>4. QED
          BY <5>1, <5>2, <5>3
    <3>5. QED
      BY <3>3, <3>4
  <2>4. QED
    BY <2>1, <2>3, <1>6 DEF PrunedInv
<1>14. StoredInv'
  BY <1>1, <1>5, <1>6, <1>10, <1>11, <1>12, <1>13 DEF StoredInv
<1>15. ASSUME NEW q \in Procs
       PROVE  Local(q, pc[q], op[q])'
  <2>1. CASE q = p
    <3>1. pc'[q] = "idle" /\ op'[q] = Idle
      BY <2>1, <1>5, ReturnFrame
    <3>2. QED
      BY <3>1, <1>14
      DEF StoredInv, Local, Idle, LocalNames, Steps, TickSteps, AppendSteps, Held,
          HeadAt, NoHead, Window, Timely, Prudent
  <2>2. CASE q # p
    <3>1. pc'[q] = pc[q] /\ op'[q] = op[q] /\ Local(q, pc[q], op[q])
      BY <2>2, <1>5, ReturnFrame DEF IInv
    <3>2. Held(op[q])'
      <4>1. op[q].head.seq \in 0..headSeq'
        BY <3>1, <1>1, <1>6 DEF Local, Held
      <4>2. op[q].head = HeadAt(op[q].head.seq)'
        BY <3>1, <1>8 DEF Local, Held
      <4>3. Window(op[q].seen)'
        <5>1. Window(op[q].seen) /\ op'[q].seen = op[q].seen
          BY <3>1 DEF Local, Held
        <5>2. headSeq <= headSeq' /\ \A s \in 1..headSeq : s \in 1..headSeq' /\ log'[s] = log[s]
          BY <1>1, <1>6
        <5>3. QED
          BY <5>1, <5>2 DEF Window
      <4>4. /\ op[q].pending \subseteq {a.seqHigh : a \in anchors}
            /\ op[q].boundary \in 0..headSeq
            /\ op[q].boundary # 0 => /\ op[q].boundary < headSeq
                                     /\ \E a \in anchors : a.seqHigh = op[q].boundary
        BY <3>1 DEF Local, Held
      <4>5. op[q].boundary \in 0..headSeq' /\ (op[q].boundary # 0 => op[q].boundary < headSeq')
        BY <4>4, <1>1, <1>6
      <4>6. anchors' = anchors
        BY <1>5
      <4>7. QED
        BY <4>1, <4>2, <4>3, <4>4, <4>5, <4>6, <3>1 DEF Held, HeadAt
    <3>3. Timely(pc[q], op[q])'
      <4> DEFINE o == op[q]
      <4>1. /\ o.ts \in 0..now /\ o.head.seq \in 0..headSeq
            /\ Timely(pc[q], o)
        BY <3>1 DEF Local, Held
      <4> HIDE DEF o
      <4>2. ASSUME pc[q] = "insert", NEW s \in 1..n, s > o.head.seq
            PROVE  log'[s].core.ts >= o.ts - MaxStall /\ s \in DOMAIN rows'
        <5>1. CASE s = n
          BY <5>1, <4>1, <1>1, <1>6, <1>7, <1>9
        <5>2. CASE s # n
          <6>1. s \in 1..headSeq
            BY <5>2, <1>1
          <6>2. QED
            BY <6>1, <4>1, <4>2, <1>6 DEF Timely
        <5>3. QED
          BY <5>1, <5>2
      <4>3. pc[q] \in {"getHead", "insert"} => now <= o.ts + MaxStall
        BY <4>1 DEF Timely
      <4>4. QED
        BY <4>2, <4>3, <3>1, <1>5, <1>6 DEF Timely, o
    <3>4. Prudent(pc[q], op[q])'
      <4>1. /\ Prudent(pc[q], op[q])
            /\ op[q].boundary \in 0..headSeq
            /\ op[q].boundary # 0 => op[q].boundary < headSeq
        BY <3>1 DEF Local, Held
      <4>2. op[q].boundary \in DOMAIN rows' =>
               /\ op[q].boundary \in DOMAIN rows
               /\ log'[op[q].boundary] = log[op[q].boundary]
        BY <4>1, <1>1, <1>4, <1>6
      <4>3. QED
        BY <4>1, <4>2, <3>1, <1>5 DEF Prudent
    <3>5. QED
      BY <3>1, <3>2, <3>3, <3>4, <1>1, <1>5, <1>6 DEF Local
  <2>3. QED
    BY <2>1, <2>2
<1>16. QED
  BY <1>5, <1>14, <1>15, ReturnFrame DEF IInv

----------------------------------------------------------------------------
(* The steps of a maintenance tick. *)

\* A maintenance tick begins.
LEMMA BeginTickKeeps ==
    ASSUME IInv, NEW t \in Tickers, BeginTick(t)
    PROVE  IInv'
<1>1. t \in Procs
  BY DEF Procs
<1>2. Local(t, "anchorHead", Idle) /\ Idle.boundary = 0
  BY <1>1, IdleLocal
  DEF Local, Steps, TickSteps, AppendSteps, Timely, Prudent, Idle
<1>3. \A q \in Procs : op[q].head.seq >= 0
  BY DEF IInv, Local, Held
<1>4. QED
  BY <1>1, <1>2, <1>3, GotoKeeps DEF BeginTick

\* Moving on with the same locals, or with none, between two steps of a tick
\* that ask nothing of them.
LEMMA TickGotoIdleKeeps ==
    ASSUME IInv, NEW t \in Tickers, UNCHANGED <<stored, now>>,
           NEW s \in {"verifyEvents", "pruneHead"}, Goto(t, s, Idle)
    PROVE  IInv'
<1>1. t \in Procs
  BY DEF Procs
<1>2. Local(t, s, Idle) /\ Idle.boundary = 0
  BY <1>1, IdleLocal
  DEF Local, Steps, TickSteps, AppendSteps, Timely, Prudent, Idle
<1>3. \A q \in Procs : op[q].head.seq >= 0
  BY DEF IInv, Local, Held
<1>4. QED
  BY <1>1, <1>2, <1>3, GotoKeeps

\* anchorNow reads the head, a row of the history.
LEMMA AnchorHeadKeeps ==
    ASSUME IInv, NEW t \in Tickers, AnchorHead(t)
    PROVE  IInv'
<1>1. CASE headSeq = 0
  BY <1>1, TickGotoIdleKeeps DEF AnchorHead
<1>2. CASE headSeq # 0
  <2> DEFINE o == [Idle EXCEPT !.head = StoredHead]
  <2>1. t \in Procs
    BY DEF Procs
  <2>2. StoredHead = HeadAt(headSeq) /\ StoredHead.seq = headSeq /\ headSeq \in Nat
    BY DEF IInv, StoredInv, Window, StoredHead, HeadAt, NoHead
  <2>3. Local(t, "anchorFind", o) /\ o.boundary = 0
    BY <1>2, <2>1, <2>2, IdleLocal
    DEF Local, Held, Steps, TickSteps, AppendSteps, Timely, Prudent, Idle, LocalNames
  <2>4. \A q \in Procs : op[q].head.seq >= 0
    BY DEF IInv, Local, Held
  <2>5. Goto(t, "anchorFind", o)
    BY <1>2 DEF AnchorHead
  <2> HIDE DEF o
  <2>6. QED
    BY <2>1, <2>3, <2>4, <2>5, GotoKeeps DEF AnchorHead
<1>3. QED
  BY <1>1, <1>2

\* anchorNow finds the head anchored already, or not yet.
LEMMA AnchorFindKeeps ==
    ASSUME IInv, NEW t \in Tickers, AnchorFind(t)
    PROVE  IInv'
<1>1. CASE AlreadyAnchored(op[t].head.seq)
  BY <1>1, TickGotoIdleKeeps DEF AnchorFind
<1>2. CASE ~AlreadyAnchored(op[t].head.seq)
  <2>1. t \in Procs
    BY DEF Procs
  <2>2. Local(t, "anchorFind", op[t])
    BY <2>1 DEF AnchorFind, IInv
  <2>3. Local(t, "anchorInsert", op[t])
    BY <2>2 DEF Local, Steps, TickSteps, AppendSteps, Timely, Prudent
  <2>4. \A q \in Procs : pc[q] = "insert" => op[t].boundary <= op[q].head.seq
    BY <2>1 DEF IInv, NoOvertaking
  <2>5. QED
    BY <1>2, <2>1, <2>3, <2>4, GotoKeeps DEF AnchorFind
<1>3. QED
  BY <1>1, <1>2

\* The head a tick signs may be long past, but it was the head.
LEMMA AnchorInsertKeeps ==
    ASSUME IInv, NEW t \in Tickers, AnchorInsert(t)
    PROVE  IInv'
<1>1. t \in Procs
  BY DEF Procs
<1>2. /\ op[t].head.seq \in 1..headSeq
      /\ op[t].head = HeadAt(op[t].head.seq)
      /\ headSeq \in Nat
  BY <1>1 DEF AnchorInsert, IInv, StoredInv, Local, Held
<1>3. /\ UNCHANGED <<rows, headSeq, log, now>>
      /\ anchors' = anchors \cup {SignAnchor(Domain, op[t].head)}
  BY DEF AnchorInsert
<1>4. /\ pc' = [q \in Procs |-> pc'[q]] /\ pc'[t] = "verifyEvents"
      /\ op' = [q \in Procs |-> op'[q]] /\ op'[t] = Idle
      /\ \A q \in Procs \ {t} : pc'[q] = pc[q] /\ op'[q] = op[q]
  BY <1>1 DEF AnchorInsert, Goto, IInv
<1>5. AnchorsInv'
  <2>1. SignAnchor(Domain, op[t].head).seqHigh = op[t].head.seq
    BY DEF SignAnchor
  <2>2. QED
    BY <1>2, <1>3, <2>1 DEF IInv, StoredInv, AnchorsInv, HeadAt
<1>6. ASSUME NEW R, Window(R)
      PROVE  Window(R)'
  BY <1>3, <1>6 DEF Window
<1>7. StoredInv'
  <2>1. Window(rows)'
    BY <1>3 DEF IInv, StoredInv, Window
  <2>2. QED
    BY <2>1, <1>3, <1>5 DEF IInv, StoredInv, HistoryInv, HeadAt, PrunedInv, DuplicatesAreOld
<1>8. ASSUME NEW q \in Procs
      PROVE  Local(q, pc[q], op[q])'
  <2>1. CASE q = t
    <3>1. pc'[q] = "verifyEvents" /\ op'[q] = Idle
      BY <2>1, <1>4
    <3>2. QED
      BY <2>1, <3>1, <1>7
      DEF StoredInv, Local, Idle, LocalNames, Steps, TickSteps, AppendSteps, Held,
          HeadAt, NoHead, Window, Timely, Prudent
  <2>2. CASE q # t
    <3>1. pc'[q] = pc[q] /\ op'[q] = op[q] /\ Local(q, pc[q], op[q])
      BY <2>2, <1>4 DEF IInv
    <3>2. QED
      BY <3>1, <1>3 DEF Local, Held, HeadAt, Window, Timely, Prudent
  <2>3. QED
    BY <2>1, <2>2
<1>9. NoOvertaking'
  <2>1. \A q \in Procs : op[q].head.seq >= 0
    BY DEF IInv, Local, Held
  <2>2. QED
    BY <2>1, <1>4 DEF NoOvertaking, IInv, Idle
<1>10. QED
  BY <1>4, <1>7, <1>8, <1>9 DEF IInv

\* The verifier has read rows that are a stretch of the history.
LEMMA VerifyEventsKeeps ==
    ASSUME IInv, NEW t \in Tickers, VerifyEvents(t)
    PROVE  IInv'
<1> DEFINE o == [Idle EXCEPT !.seen = rows]
<1>1. t \in Procs
  BY DEF Procs
<1>2. Local(t, "verifyAnchors", o) /\ o.boundary = 0
  BY <1>1, IdleLocal
  DEF Local, Held, Steps, TickSteps, AppendSteps, Timely, Prudent, Idle, LocalNames,
      IInv, StoredInv
<1>3. \A q \in Procs : op[q].head.seq >= 0
  BY DEF IInv, Local, Held
<1>4. Goto(t, "verifyAnchors", o)
  BY DEF VerifyEvents
<1> HIDE DEF o
<1>5. QED
  BY <1>1, <1>2, <1>3, <1>4, GotoKeeps DEF VerifyEvents

\* The verdict on those rows and the anchors as they are by then.
LEMMA VerifyAnchorsKeeps ==
    ASSUME IInv, NEW t \in Tickers, VerifyAnchors(t)
    PROVE  IInv'
<1>1. t \in Procs
  BY DEF Procs
<1>2. Window(op[t].seen) /\ StoredInv
  BY <1>1 DEF IInv, Local, Held
<1>3. Verdict(op[t].seen, anchors, Domain) \in {Sound} \cup Alarms
  BY <1>2, WindowVerdict DEF Alarms
<1>4. CASE Verdict(op[t].seen, anchors, Domain) = Sound
  BY <1>4, TickGotoIdleKeeps DEF VerifyAnchors
<1>5. CASE /\ Verdict(op[t].seen, anchors, Domain) # Sound
           /\ Recording(t, Verdict(op[t].seen, anchors, Domain))
  BY <1>1, <1>3, <1>5, RecordingKeeps DEF VerifyAnchors
<1>6. CASE Return(t)
  BY <1>1, <1>6, ReturnKeeps DEF VerifyAnchors
<1>7. QED
  BY <1>4, <1>5, <1>6 DEF VerifyAnchors

\* The prune reads the head it must stay below.
LEMMA PruneHeadKeeps ==
    ASSUME IInv, NEW t \in Tickers, PruneHead(t)
    PROVE  IInv'
<1>1. t \in Procs
  BY DEF Procs
<1>2. CASE headSeq = 0
  BY <1>1, <1>2, ReturnKeeps DEF PruneHead
<1>3. CASE headSeq # 0
  <2> DEFINE o == [Idle EXCEPT !.head = StoredHead, !.cutoff = now - Retention]
  <2>1. StoredHead = HeadAt(headSeq) /\ StoredHead.seq = headSeq
        /\ headSeq \in Nat /\ now \in Nat
    BY DEF IInv, StoredInv, Window, StoredHead, HeadAt, NoHead
  <2>2. Local(t, "pruneAnchors", o) /\ o.boundary = 0
    BY <1>1, <2>1, IdleLocal
    DEF Local, Held, Steps, TickSteps, AppendSteps, Timely, Prudent, Idle, LocalNames
  <2>3. \A q \in Procs : op[q].head.seq >= 0
    BY DEF IInv, Local, Held
  <2>4. Goto(t, "pruneAnchors", o)
    BY <1>3 DEF PruneHead
  <2> HIDE DEF o
  <2>5. QED
    BY <1>1, <2>2, <2>3, <2>4, GotoKeeps DEF PruneHead
<1>4. QED
  BY <1>2, <1>3

\* The prune reads the anchors it may end at.
LEMMA PruneAnchorsKeeps ==
    ASSUME IInv, NEW t \in Tickers, PruneAnchors(t)
    PROVE  IInv'
<1> DEFINE o == [op[t] EXCEPT !.pending = {a.seqHigh : a \in anchors}]
<1>1. t \in Procs
  BY DEF Procs
<1>2. Local(t, "pruneAnchors", op[t])
  BY <1>1 DEF PruneAnchors, IInv
<1>3. Local(t, "pruneScan", o) /\ o.boundary = op[t].boundary
  BY <1>2 DEF Local, Held, Steps, TickSteps, AppendSteps, Timely, Prudent, LocalNames
<1>4. \A q \in Procs : pc[q] = "insert" => o.boundary <= op[q].head.seq
  BY <1>1, <1>3 DEF IInv, NoOvertaking
<1>5. Goto(t, "pruneScan", o)
  BY DEF PruneAnchors
<1> HIDE DEF o
<1>6. QED
  BY <1>1, <1>3, <1>4, <1>5, GotoKeeps DEF PruneAnchors

\* The heart of NoOvertaking: an event the prune may pass is not one that was
\* appended while some append still under way held its head.  It would be too
\* young, and still stored.
LEMMA PruneAdvanceKeeps ==
    ASSUME IInv, NEW t \in Tickers, PruneAdvance(t)
    PROVE  IInv'
<1>1. t \in Procs
  BY DEF Procs
<1>2. PICK seq \in op[t].pending :
         /\ NextAnchor(t, seq)
         /\ MayPrune(t, seq)
         /\ Goto(t, "pruneScan",
                 [op[t] EXCEPT !.boundary = seq, !.pending = @ \ {seq}])
  BY DEF PruneAdvance
<1> DEFINE o == [op[t] EXCEPT !.boundary = seq, !.pending = @ \ {seq}]
<1>3. Local(t, "pruneScan", op[t]) /\ pc[t] = "pruneScan"
  BY <1>1 DEF PruneAdvance, IInv
<1>4. /\ DOMAIN o = LocalNames
      /\ o.boundary = seq /\ o.pending = op[t].pending \ {seq}
      /\ o.key = op[t].key /\ o.ts = op[t].ts /\ o.head = op[t].head
      /\ o.attempt = op[t].attempt /\ o.from = op[t].from /\ o.seen = op[t].seen
      /\ o.cutoff = op[t].cutoff
  BY <1>3 DEF Local, LocalNames
<1> HIDE DEF o
<1>5. /\ seq \in 1..headSeq /\ seq < headSeq
      /\ headSeq \in Nat /\ now \in Nat
      /\ \E a \in anchors : a.seqHigh = seq
  BY <1>2, <1>3 DEF NextAnchor, Local, Held, IInv, StoredInv, AnchorsInv
<1>6. seq \in DOMAIN rows => log[seq].core.ts < now - Retention
  <2>1. ASSUME seq \in DOMAIN rows
        PROVE  rows[seq] = log[seq] /\ log[seq].core.ts \in Int
    BY <2>1, <1>5 DEF IInv, StoredInv, Window, HistoryInv
  <2>2. op[t].cutoff \in Int /\ op[t].cutoff <= now - Retention
    BY <1>3 DEF Local, Prudent
  <2>3. seq \in DOMAIN rows => rows[seq].core.ts < op[t].cutoff
    BY <1>2 DEF MayPrune, Expired
  <2>4. QED
    BY <2>1, <2>2, <2>3, <1>5
<1>7. Local(t, "pruneScan", o)
  BY <1>3, <1>4, <1>5, <1>6 DEF Local, Held, Timely, Prudent
<1>8. ASSUME NEW q \in Procs, pc[q] = "insert"
      PROVE  o.boundary <= op[q].head.seq
  <2>1. SUFFICES ASSUME seq > op[q].head.seq PROVE FALSE
    BY <1>4, <1>5, <1>8 DEF IInv, Local, Held
  <2>2. /\ now <= op[q].ts + MaxStall /\ op[q].ts \in 0..now
        /\ log[seq].core.ts >= op[q].ts - MaxStall
        /\ seq \in DOMAIN rows
    BY <2>1, <1>5, <1>8 DEF IInv, Local, Timely
  <2>3. log[seq].core.ts \in Int
    BY <1>5 DEF IInv, StoredInv, HistoryInv
  <2>4. QED
    BY <2>2, <2>3, <1>5, <1>6
<1>9. Goto(t, "pruneScan", o)
  BY <1>2 DEF o
<1>10. QED
  BY <1>1, <1>7, <1>8, <1>9, GotoKeeps DEF PruneAdvance

\* The scan ends at a row inside the window.
LEMMA PruneStopKeeps ==
    ASSUME IInv, NEW t \in Tickers, PruneStop(t)
    PROVE  IInv'
<1>1. t \in Procs
  BY DEF Procs
<1>2. CASE op[t].boundary = 0
  BY <1>1, <1>2, ReturnKeeps DEF PruneStop
<1>3. CASE op[t].boundary # 0
  <2> DEFINE o == [Idle EXCEPT !.boundary = op[t].boundary]
  <2>1. Local(t, "pruneScan", op[t])
    BY <1>1 DEF PruneStop, IInv
  <2>2. Local(t, "pruneDelete", o) /\ o.boundary = op[t].boundary
    BY <2>1, <1>1, IdleLocal
    DEF Local, Held, Steps, TickSteps, AppendSteps, Timely, Prudent, Idle, LocalNames
  <2>3. \A q \in Procs : pc[q] = "insert" => o.boundary <= op[q].head.seq
    BY <1>1, <2>2 DEF IInv, NoOvertaking
  <2>4. Goto(t, "pruneDelete", o)
    BY <1>3 DEF PruneStop
  <2> HIDE DEF o
  <2>5. QED
    BY <1>1, <2>2, <2>3, <2>4, GotoKeeps DEF PruneStop
<1>4. QED
  BY <1>2, <1>3

\* What a delete removes, all at once or only some of it, left the window, up
\* to MaxStall; what appends under way rely on stays.
LEMMA RemovalKeeps ==
    ASSUME IInv, NEW t \in Procs, NEW b \in 0..op[t].boundary,
           rows' = [s \in KeptAbove(b) |-> rows[s]],
           UNCHANGED <<headSeq, anchors, log, now>>
    PROVE  /\ StoredInv'
           /\ \A q \in Procs :
                 pc'[q] = pc[q] /\ op'[q] = op[q] => Local(q, pc[q], op[q])'
<1> DEFINE m == op[t].boundary
<1>1. /\ m \in 0..headSeq /\ headSeq \in Nat /\ now \in Nat
      /\ m # 0 => m < headSeq
      /\ m \in DOMAIN rows => log[m].core.ts < now - Retention
  BY DEF IInv, StoredInv, Local, Held, Prudent
<1>2. \A q \in Procs : pc[q] = "insert" => m <= op[q].head.seq
  BY DEF IInv, NoOvertaking
<1>3. b \in 0..m
  OBVIOUS
<1> HIDE DEF m
<1>4. /\ DOMAIN rows' = KeptAbove(b)
      /\ DOMAIN rows' \subseteq DOMAIN rows
      /\ \A s \in DOMAIN rows' : rows'[s] = rows[s]
      /\ DOMAIN rows \subseteq 1..headSeq
  BY DEF KeptAbove, IInv, StoredInv, Window
<1>5. Window(rows)'
  <2>1. \A s \in DOMAIN rows' : s \in 1..headSeq' /\ rows'[s] = log'[s]
    BY <1>4 DEF IInv, StoredInv, Window
  <2>2. ASSUME NEW s \in DOMAIN rows', NEW u \in DOMAIN rows', NEW v \in s..u
        PROVE  v \in DOMAIN rows'
    <3>1. s \in 1..headSeq /\ u \in 1..headSeq /\ v \in DOMAIN rows
      BY <2>2, <1>4 DEF IInv, StoredInv, Window
    <3>2. QED
      BY <3>1, <2>2, <1>1, <1>3, <1>4 DEF KeptAbove
  <2>3. QED
    BY <2>1, <2>2 DEF Window
<1>6. headSeq' > 0 => headSeq' \in DOMAIN rows'
  BY <1>4 DEF KeptAbove, IInv, StoredInv
<1>7. PrunedInv'
  <2>1. ASSUME NEW s \in 1..headSeq, s \notin DOMAIN rows'
        PROVE  log[s].core.ts < now - Retention + MaxStall
    <3>1. CASE s \notin DOMAIN rows
      BY <3>1 DEF IInv, StoredInv, PrunedInv
    <3>2. CASE s \in DOMAIN rows
      <4>1. s <= m /\ headSeq \in DOMAIN rows /\ m \in s..headSeq /\ m \in 1..headSeq
        BY <3>2, <2>1, <1>1, <1>3, <1>4 DEF KeptAbove, IInv, StoredInv
      <4>2. m \in DOMAIN rows
        BY <4>1, <3>2 DEF IInv, StoredInv, Window
      <4>3. log[m].core.ts \in Int /\ log[s].core.ts \in Int
        BY <4>1 DEF IInv, StoredInv, HistoryInv
      <4>4. log[s].core.ts <= log[m].core.ts + MaxStall
        <5>1. CASE s = m
          BY <5>1, <4>3
        <5>2. CASE s < m
          BY <5>2, <4>1 DEF IInv, StoredInv, HistoryInv
        <5>3. QED
          BY <5>1, <5>2, <4>1
      <4>5. QED
        BY <4>2, <4>3, <4>4, <1>1
    <3>3. QED
      BY <3>1, <3>2
  <2>2. DuplicatesAreOld'
    BY <1>4 DEF IInv, StoredInv, PrunedInv, DuplicatesAreOld
  <2>3. QED
    BY <2>1, <2>2 DEF PrunedInv
<1>8. StoredInv'
  BY <1>5, <1>6, <1>7 DEF IInv, StoredInv, HistoryInv, HeadAt, AnchorsInv
<1>9. ASSUME NEW q \in Procs, pc'[q] = pc[q], op'[q] = op[q]
      PROVE  Local(q, pc[q], op[q])'
  <2>1. Local(q, pc[q], op[q])
    BY DEF IInv
  <2>2. Held(op[q])'
    BY <2>1, <1>9 DEF Local, Held, HeadAt, Window
  <2>3. ASSUME pc[q] = "insert", NEW s \in 1..headSeq, s > op[q].head.seq,
               s \in DOMAIN rows
        PROVE  s \in DOMAIN rows'
    BY <2>3, <2>1, <1>1, <1>2, <1>3, <1>4 DEF KeptAbove, Local, Held
  <2>4. Timely(pc[q], op[q])'
    BY <2>1, <2>3, <1>9 DEF Local, Timely
  <2>5. Prudent(pc[q], op[q])'
    BY <2>1, <1>9, <1>4 DEF Local, Prudent
  <2>6. QED
    BY <2>1, <2>2, <2>4, <2>5, <1>9 DEF Local
<1>10. QED
  BY <1>8, <1>9

\* The delete is done and the tick with it.
LEMMA PruneDeleteKeeps ==
    ASSUME IInv, NEW t \in Tickers, PruneDelete(t)
    PROVE  IInv'
<1>1. t \in Procs
  BY DEF Procs
<1>2. op[t].boundary \in 0..op[t].boundary
  BY <1>1 DEF IInv, StoredInv, Local, Held
<1>3. /\ StoredInv'
      /\ \A q \in Procs :
            pc'[q] = pc[q] /\ op'[q] = op[q] => Local(q, pc[q], op[q])'
  BY <1>1, <1>2, RemovalKeeps DEF PruneDelete
<1>4. Return(t)
  BY DEF PruneDelete
<1>5. ASSUME NEW q \in Procs
      PROVE  Local(q, pc[q], op[q])'
  <2>1. CASE q = t
    <3>1. pc'[q] = "idle" /\ op'[q] = Idle
      BY <2>1, <1>1, <1>4, ReturnFrame
    <3>2. QED
      BY <3>1, <1>3
      DEF StoredInv, Local, Idle, LocalNames, Steps, TickSteps, AppendSteps, Held,
          HeadAt, NoHead, Window, Timely, Prudent
  <2>2. CASE q # t
    <3>1. pc'[q] = pc[q] /\ op'[q] = op[q]
      BY <2>2, <1>1, <1>4, ReturnFrame
    <3>2. Local(q, pc[q], op[q])'
      BY <3>1, <1>3
    <3>3. QED
      BY <3>1, <3>2
  <2>3. QED
    BY <2>1, <2>2
<1>6. QED
  BY <1>1, <1>3, <1>4, <1>5, ReturnFrame DEF IInv

\* The delete has got as far as the row s, and goes on.
LEMMA DeleteSomeKeeps ==
    ASSUME IInv, NEW t \in Tickers, DeleteSome(t)
    PROVE  IInv'
<1>1. t \in Procs
  BY DEF Procs
<1>2. PICK s \in DOMAIN rows : /\ s <= op[t].boundary
                              /\ rows' = [r \in KeptAbove(s) |-> rows[r]]
  BY DEF DeleteSome
<1>3. s \in 0..op[t].boundary
  BY <1>1, <1>2 DEF IInv, StoredInv, Window, Local, Held
<1>4. UNCHANGED <<headSeq, anchors, log, now, pc, op>>
  BY DEF DeleteSome
<1>5. /\ StoredInv'
      /\ \A q \in Procs : Local(q, pc[q], op[q])'
  BY <1>1, <1>2, <1>3, <1>4, RemovalKeeps
<1>6. QED
  BY <1>4, <1>5 DEF IInv, NoOvertaking

----------------------------------------------------------------------------
(* Time, death, and all steps together. *)

\* Time passes, but no append hangs for more than MaxStall.
LEMMA ElapseKeeps ==
    ASSUME IInv, Elapse
    PROVE  IInv'
<1>1. /\ now' = now + 1 /\ now \in Nat /\ headSeq \in Nat
      /\ UNCHANGED <<rows, headSeq, anchors, log, pc, op>>
  BY DEF Elapse, stored, IInv, StoredInv
<1>2. \A s \in 1..headSeq : log[s].core.ts \in 0..now
  BY DEF IInv, StoredInv, HistoryInv
<1>3. HistoryInv'
  <2>1. \A s \in 1..headSeq : log[s].core.ts \in 0..now'
    BY <1>1, <1>2
  <2>2. QED
    BY <2>1, <1>1 DEF IInv, StoredInv, HistoryInv, HeadAt
<1>4. PrunedInv'
  <2>1. \A s \in 1..headSeq :
           s \notin DOMAIN rows => log[s].core.ts < now' - Retention + MaxStall
    BY <1>1, <1>2 DEF IInv, StoredInv, PrunedInv
  <2>2. QED
    BY <2>1, <1>1 DEF IInv, StoredInv, PrunedInv, DuplicatesAreOld
<1>5. StoredInv'
  BY <1>1, <1>3, <1>4 DEF IInv, StoredInv, Window, AnchorsInv, HeadAt
<1>6. ASSUME NEW q \in Procs
      PROVE  Local(q, pc[q], op[q])'
  <2>1. Local(q, pc[q], op[q])
    BY DEF IInv
  <2>2. Held(op[q])'
    BY <2>1, <1>1 DEF Local, Held, HeadAt, Window
  <2>3. op[q].ts \in 0..now /\ op[q].ts \in 0..now'
    BY <2>1, <1>1 DEF Local
  <2>4. Timely(pc[q], op[q])'
    <3>1. pc[q] \in {"getHead", "insert"} => now - op[q].ts < MaxStall
      BY DEF Elapse
    <3>2. pc[q] \in {"getHead", "insert"} => now' <= op[q].ts + MaxStall
      BY <3>1, <2>3, <1>1
    <3>3. QED
      BY <2>1, <3>2, <1>1 DEF Local, Timely
  <2>5. Prudent(pc[q], op[q])'
    <3>1. op[q].boundary \in DOMAIN rows => op[q].boundary \in 1..headSeq
      BY DEF IInv, StoredInv, Window
    <3>2. op[q].boundary \in DOMAIN rows =>
             log[op[q].boundary].core.ts < now' - Retention
      BY <2>1, <3>1, <1>1, <1>2 DEF Local, Prudent
    <3>3. QED
      BY <2>1, <3>2, <1>1 DEF Local, Prudent
  <2>6. QED
    BY <2>1, <2>2, <2>3, <2>4, <2>5, <1>1 DEF Local
<1>7. QED
  BY <1>1, <1>5, <1>6 DEF IInv, NoOvertaking

\* IInv holds of the empty ledger.
LEMMA InitIInv ==
    Init => IInv
<1>1. SUFFICES ASSUME Init PROVE IInv
  OBVIOUS
<1>2. StoredInv
  BY <1>1 DEF Init, StoredInv, HistoryInv, Window, AnchorsInv, PrunedInv,
              DuplicatesAreOld
<1>3. \A p \in Procs : pc[p] = "idle" /\ op[p] = Idle
  BY <1>1 DEF Init
<1>4. \A p \in Procs : Local(p, pc[p], op[p])
  BY <1>2, <1>3
  DEF StoredInv, Local, Idle, LocalNames, Steps, TickSteps, AppendSteps, Held,
      HeadAt, NoHead, Window, Timely, Prudent
<1>5. NoOvertaking
  BY <1>3 DEF NoOvertaking
<1>6. QED
  BY <1>1, <1>2, <1>4, <1>5 DEF Init, IInv

\* A step in which nothing happens keeps IInv.
LEMMA StutterKeeps ==
    ASSUME IInv, UNCHANGED vars
    PROVE  IInv'
<1>1. StoredInv'
  BY DEF vars, IInv, StoredInv, HistoryInv, HeadAt, Window, AnchorsInv, PrunedInv, DuplicatesAreOld
<1>2. ASSUME NEW p \in Procs PROVE Local(p, pc[p], op[p])'
  BY DEF vars, IInv, Local, HeadAt, Window, Held, Timely, Prudent
<1>3. NoOvertaking'
  BY DEF vars, IInv, NoOvertaking
<1>4. QED BY <1>1, <1>2, <1>3 DEF vars, IInv

\* The steps of an append keep IInv.
LEMMA AppendKeeps ==
    ASSUME IInv, NEW p \in Procs, AppendStep(p)
    PROVE  IInv'
<1>1. CASE Relookup(p)
  BY <1>1, ReturnKeeps DEF Relookup
<1>2. QED
  BY <1>1, LookupKeeps, StampKeeps, GetHeadKeeps, InsertConflictKeeps,
     InsertDuplicateKeeps, InsertKeeps
  DEF AppendStep

\* IInv is inductive.
LEMMA NextKeeps ==
    IInv /\ [Next]_vars => IInv'
<1>1. SUFFICES ASSUME IInv, [Next]_vars PROVE IInv'
  OBVIOUS
<1>2. CASE UNCHANGED vars
  BY <1>1, <1>2, StutterKeeps
<1>3. ASSUME NEW p \in Procs, AppendStep(p)
      PROVE  IInv'
  BY <1>1, <1>3, AppendKeeps
<1>4. ASSUME NEW t \in Tickers, TickStep(t)
      PROVE  IInv'
  <2>1. CASE AnchorHead(t)
    BY <1>1, <2>1, AnchorHeadKeeps
  <2>2. CASE AnchorFind(t)
    BY <1>1, <2>2, AnchorFindKeeps
  <2>3. CASE AnchorInsert(t)
    BY <1>1, <2>3, AnchorInsertKeeps
  <2>4. CASE VerifyEvents(t)
    BY <1>1, <2>4, VerifyEventsKeeps
  <2>5. CASE VerifyAnchors(t)
    BY <1>1, <2>5, VerifyAnchorsKeeps
  <2>6. CASE PruneHead(t)
    BY <1>1, <2>6, PruneHeadKeeps
  <2>7. CASE PruneAnchors(t)
    BY <1>1, <2>7, PruneAnchorsKeeps
  <2>8. CASE PruneAdvance(t)
    BY <1>1, <2>8, PruneAdvanceKeeps
  <2>9. CASE PruneStop(t)
    BY <1>1, <2>9, PruneStopKeeps
  <2>10. CASE PruneDelete(t)
    BY <1>1, <2>10, PruneDeleteKeeps
  <2>11. QED
    BY <1>4, <2>1, <2>2, <2>3, <2>4, <2>5, <2>6, <2>7, <2>8, <2>9, <2>10
    DEF TickStep
<1>5. CASE Run
  BY <1>1, <1>3, <1>4, <1>5, BeginRecordKeeps, BeginTickKeeps, ElapseKeeps DEF Run
<1>6. CASE \E p \in Procs : Die(p)
  BY <1>1, <1>6, ReturnKeeps DEF Die
<1>7. QED
  BY <1>1, <1>2, <1>5, <1>6 DEF Next

\* IInv is inductive on MongoDB too, where the delete may stop after any row
\* and a second anchor of the same head is refused.
LEMMA MongoNextKeeps ==
    IInv /\ [MongoNext]_vars => IInv'
<1>1. SUFFICES ASSUME IInv, [MongoNext]_vars PROVE IInv'
  OBVIOUS
<1>2. CASE UNCHANGED vars
  BY <1>1, <1>2, StutterKeeps
<1>3. ASSUME NEW p \in Procs, AppendStep(p)
      PROVE  IInv'
  BY <1>1, <1>3, AppendKeeps
<1>4. ASSUME NEW t \in Tickers, MongoTickStep(t)
      PROVE  IInv'
  <2>1. CASE AnchorHead(t)
    BY <1>1, <2>1, AnchorHeadKeeps
  <2>2. CASE AnchorFind(t)
    BY <1>1, <2>2, AnchorFindKeeps
  <2>3. CASE AnchorInsertUnique(t)
    BY <1>1, <2>3, AnchorInsertKeeps DEF AnchorInsertUnique
  <2>4. CASE AnchorInsertRejected(t)
    BY <1>1, <2>4, ReturnKeeps DEF AnchorInsertRejected, Procs
  <2>5. CASE VerifyEvents(t)
    BY <1>1, <2>5, VerifyEventsKeeps
  <2>6. CASE VerifyAnchors(t)
    BY <1>1, <2>6, VerifyAnchorsKeeps
  <2>7. CASE PruneHead(t)
    BY <1>1, <2>7, PruneHeadKeeps
  <2>8. CASE PruneAnchors(t)
    BY <1>1, <2>8, PruneAnchorsKeeps
  <2>9. CASE PruneAdvance(t)
    BY <1>1, <2>9, PruneAdvanceKeeps
  <2>10. CASE PruneStop(t)
    BY <1>1, <2>10, PruneStopKeeps
  <2>11. CASE DeleteSome(t)
    BY <1>1, <2>11, DeleteSomeKeeps
  <2>12. CASE PruneDelete(t)
    BY <1>1, <2>12, PruneDeleteKeeps
  <2>13. QED
    BY <1>4, <2>1, <2>2, <2>3, <2>4, <2>5, <2>6, <2>7, <2>8, <2>9, <2>10, <2>11,
       <2>12
    DEF MongoTickStep
<1>5. CASE MongoNext
  BY <1>1, <1>3, <1>4, <1>5, BeginRecordKeeps, BeginTickKeeps, ElapseKeeps, ReturnKeeps
  DEF MongoNext, Die
<1>6. QED
  BY <1>1, <1>2, <1>5

----------------------------------------------------------------------------
(* Where the stored rows start, on the in-memory repository. *)

\* A step that leaves the rows alone, loses no anchor and reads nothing into
\* its handler's locals but the rows, records no alarm either.
LEMMA StartFrame ==
    ASSUME IInv, StartInv, NEW p \in Procs, NEW s, NEW o,
           Goto(p, s, o), rows' = rows, anchors \subseteq anchors',
           o.seen \in {op[p].seen, rows, <<>>},
           p \in Tickers /\ s \in AppendSteps => o.key = AheadOfHead
    PROVE  StartInv'
<1>1. /\ pc'[p] = s /\ op'[p] = o
      /\ \A q \in Procs \ {p} : pc'[q] = pc[q] /\ op'[q] = op[q]
  BY DEF Goto, IInv
<1>2. \A R : StartAnchored(R) => StartAnchored(R)'
  BY DEF StartAnchored
<1>3. StartAnchored(<<>>)
  BY DEF StartAnchored
<1>4. ASSUME NEW q \in Procs
      PROVE  StartAnchored(op[q].seen)'
  <2>1. CASE q = p
    BY <2>1, <1>1, <1>3 DEF StartInv, StartAnchored
  <2>2. CASE q # p
    BY <2>2, <1>1 DEF StartInv, StartAnchored
  <2>3. QED
    BY <2>1, <2>2
<1>5. StartAnchored(rows)'
  BY DEF StartInv, StartAnchored
<1>6. ASSUME NEW t \in Tickers, pc'[t] \in AppendSteps
      PROVE  op'[t].key = AheadOfHead
  BY <1>6, <1>1 DEF StartInv, Procs
<1>7. QED
  BY <1>4, <1>5, <1>6 DEF StartInv

\* The same for a step after which its handler holds nothing.
LEMMA StartIdle ==
    ASSUME IInv, StartInv, NEW p \in Procs, NEW s \in Steps \ AppendSteps,
           Goto(p, s, Idle), rows' = rows, anchors \subseteq anchors'
    PROVE  StartInv'
BY StartFrame DEF Idle

\* StartInv is inductive next to IInv.
LEMMA StartKeeps ==
    IInv /\ StartInv /\ [Next]_vars => StartInv'
<1>1. SUFFICES ASSUME IInv, StartInv, [Next]_vars PROVE StartInv'
  OBVIOUS
<1> USE DEF stored
<1>2. ASSUME UNCHANGED <<rows, anchors, pc, op>>
      PROVE  StartInv'
  BY <1>1, <1>2 DEF StartInv, StartAnchored
<1>3. ASSUME NEW p \in Procs, UNCHANGED <<rows, anchors>>, Return(p)
      PROVE  StartInv'
  BY <1>1, <1>3, StartIdle DEF Return, Steps, AppendSteps
<1>4. ASSUME NEW p \in Procs, AppendStep(p)
      PROVE  StartInv'
  <2>1. Local(p, pc[p], op[p])
    BY <1>1 DEF IInv
  <2>2. ASSUME pc[p] \in AppendSteps, NEW s, NEW o, Goto(p, s, o),
               UNCHANGED <<rows, anchors>>, o.seen = op[p].seen, o.key = op[p].key
        PROVE  StartInv'
    BY <1>1, <2>2, StartFrame DEF StartInv
  <2>3. CASE Lookup(p)
    BY <2>2, <2>3, <1>3 DEF Lookup, AppendSteps
  <2>4. CASE Stamp(p)
    BY <2>1, <2>2, <2>4 DEF Stamp, AppendSteps, Local, LocalNames
  <2>5. CASE GetHead(p)
    BY <2>1, <2>2, <2>5 DEF GetHead, AppendSteps, Local, LocalNames
  <2>6. CASE InsertConflict(p)
    <3> DEFINE o == [op[p] EXCEPT !.attempt = @ + 1]
    <3>1. o.seen = op[p].seen /\ o.key = op[p].key
      BY <2>1 DEF Local, LocalNames
    <3>2. /\ pc[p] \in AppendSteps /\ UNCHANGED <<rows, anchors>>
          /\ Goto(p, "getHead", o) \/ Return(p)
      BY <2>6 DEF InsertConflict, AppendSteps
    <3> HIDE DEF o
    <3>3. QED
      BY <3>1, <3>2, <2>2, <1>3
  <2>7. CASE InsertDuplicate(p)
    BY <2>2, <2>7 DEF InsertDuplicate, AppendSteps
  <2>8. CASE Relookup(p)
    BY <2>8, <1>3 DEF Relookup
  <2>9. CASE Insert(p)
    <3>1. /\ pc[p] = "insert" /\ Return(p) /\ anchors' = anchors
          /\ DOMAIN rows' = DOMAIN rows \cup {op[p].head.seq + 1}
      BY <2>9 DEF Insert, InsertRow
    <3>2. op[p].head.seq = headSeq /\ headSeq \in Nat
      <4>1. Local(p, "insert", op[p]) /\ headSeq \in Nat
        BY <1>1, <2>1, <3>1 DEF IInv, StoredInv
      <4>2. op[p].head.seq + 1 \notin DOMAIN rows
        BY <2>9 DEF Insert, SeqTaken
      <4>3. QED
        BY <4>1, <4>2 DEF Local, Held, Timely
    <3>3. DOMAIN rows \subseteq 1..headSeq /\ (headSeq > 0 => headSeq \in DOMAIN rows)
      BY <1>1 DEF IInv, StoredInv, Window
    <3>4. StartAnchored(rows)'
      BY <1>1, <3>1, <3>2, <3>3 DEF StartInv, StartAnchored
    <3>5. /\ pc'[p] = "idle" /\ op'[p] = Idle
          /\ \A q \in Procs \ {p} : pc'[q] = pc[q] /\ op'[q] = op[q]
      BY <1>1, <3>1, ReturnFrame
    <3>6. \A q \in Procs : StartAnchored(op[q].seen)'
      BY <1>1, <3>1, <3>5 DEF StartInv, StartAnchored, Idle
    <3>7. QED
      BY <1>1, <3>4, <3>5, <3>6 DEF StartInv, AppendSteps, Procs
  <2>10. QED
    BY <1>4, <2>3, <2>4, <2>5, <2>6, <2>7, <2>8, <2>9 DEF AppendStep
<1>5. ASSUME NEW t \in Tickers, TickStep(t)
      PROVE  StartInv'
  <2>1. t \in Procs /\ Local(t, pc[t], op[t])
    BY <1>1 DEF IInv, Procs
  <2>2. ASSUME NEW s \in TickSteps, Goto(t, s, Idle), UNCHANGED <<rows, anchors>>
        PROVE  StartInv'
    BY <1>1, <2>1, <2>2, StartIdle DEF Steps, TickSteps, AppendSteps
  <2>3. ASSUME NEW s \in TickSteps, NEW o, Goto(t, s, o), UNCHANGED <<rows, anchors>>,
               o.seen \in {op[t].seen, rows, <<>>}
        PROVE  StartInv'
    BY <1>1, <2>1, <2>3, StartFrame DEF TickSteps, AppendSteps
  <2>4. CASE AnchorHead(t)
    BY <2>2, <2>3, <2>4 DEF AnchorHead, TickSteps, Idle
  <2>5. CASE AnchorFind(t)
    BY <2>2, <2>3, <2>5 DEF AnchorFind, TickSteps
  <2>6. CASE AnchorInsert(t)
    BY <1>1, <2>1, <2>6, StartIdle DEF AnchorInsert, Steps, TickSteps, AppendSteps
  <2>7. CASE VerifyEvents(t)
    BY <2>3, <2>7 DEF VerifyEvents, TickSteps, Idle
  <2>8. CASE VerifyAnchors(t)
    <3> DEFINE verdict == Verdict(op[t].seen, anchors, Domain)
    <3>1. StoredInv /\ Window(op[t].seen)
      BY <1>1, <2>1 DEF IInv, Local, Held
    <3>2. ~NoAnchorForStart(op[t].seen, anchors)
      BY <1>1, <2>1, <3>1 DEF StartInv, StartAnchored, Window, StoredInv,
                              NoAnchorForStart, IsFirst
    <3>3. verdict = Sound \/ verdict = AheadOfHead
      BY <3>1, <3>2, WindowVerdict
    <3>4. UNCHANGED <<rows, anchors>>
      BY <2>8 DEF VerifyAnchors
    <3>5. CASE verdict = Sound
      BY <2>2, <2>8, <3>4, <3>5 DEF VerifyAnchors, TickSteps
    <3>6. CASE Return(t)
      BY <3>4, <3>6, <2>1, <1>3
    <3>7. CASE verdict = AheadOfHead /\ Recording(t, verdict)
      <4> DEFINE o == [Idle EXCEPT !.key = AheadOfHead]
                 s == IF AheadOfHead = NoKey THEN "stamp" ELSE "lookup"
      <4>1. o.key = AheadOfHead /\ o.seen = <<>>
        BY DEF Idle
      <4>2. Goto(t, s, o)
        BY <3>7 DEF Recording
      <4> HIDE DEF o, s
      <4>3. QED
        BY <1>1, <2>1, <3>4, <4>1, <4>2, StartFrame
    <3>8. QED
      BY <2>8, <3>3, <3>5, <3>6, <3>7 DEF VerifyAnchors
  <2>9. CASE PruneHead(t)
    BY <2>1, <2>3, <2>9, <1>3 DEF PruneHead, TickSteps, Idle
  <2>10. CASE PruneAnchors(t)
    BY <2>1, <2>3, <2>10 DEF PruneAnchors, TickSteps, Local, LocalNames
  <2>11. CASE PruneAdvance(t)
    <3>1. PICK seq \in op[t].pending :
             Goto(t, "pruneScan",
                  [op[t] EXCEPT !.boundary = seq, !.pending = @ \ {seq}])
      BY <2>11 DEF PruneAdvance
    <3> DEFINE o == [op[t] EXCEPT !.boundary = seq, !.pending = @ \ {seq}]
    <3>2. o.seen = op[t].seen
      BY <2>1 DEF Local, LocalNames
    <3>3. UNCHANGED <<rows, anchors>> /\ Goto(t, "pruneScan", o)
      BY <2>11, <3>1 DEF PruneAdvance
    <3> HIDE DEF o
    <3>4. QED
      BY <2>3, <3>2, <3>3 DEF TickSteps
  <2>12. CASE PruneStop(t)
    BY <2>1, <2>3, <2>12, <1>3 DEF PruneStop, TickSteps, Idle
  <2>13. CASE PruneDelete(t)
    <3> DEFINE b == op[t].boundary
    <3>1. /\ b \in 0..headSeq /\ headSeq \in Nat
          /\ b # 0 => b < headSeq /\ \E a \in anchors : a.seqHigh = b
      BY <1>1, <2>1 DEF IInv, StoredInv, Local, Held
    <3>2. /\ DOMAIN rows' = KeptAbove(b) /\ anchors' = anchors /\ Return(t)
      BY <2>13 DEF PruneDelete
    <3> HIDE DEF b
    <3>3. DOMAIN rows \subseteq 1..headSeq
      BY <1>1 DEF IInv, StoredInv, Window
    <3>4. ASSUME NEW s \in DOMAIN rows', s # 1, s - 1 \notin DOMAIN rows'
          PROVE  \E a \in anchors : a.seqHigh = s - 1
      <4>1. s \in DOMAIN rows
        BY <3>2, <3>4 DEF KeptAbove
      <4>2. CASE s - 1 \notin DOMAIN rows
        BY <1>1, <3>4, <4>1, <4>2 DEF StartInv, StartAnchored
      <4>3. CASE s - 1 \in DOMAIN rows
        <5>1. /\ s \in 1..headSeq /\ s - 1 \in 1..headSeq
              /\ s > b \/ s = headSeq
              /\ s - 1 <= b
          BY <3>1, <3>2, <3>3, <3>4, <4>1, <4>3 DEF KeptAbove
        <5>2. s - 1 = b /\ b # 0
          BY <5>1, <3>1
        <5>3. QED
          BY <5>2, <3>1
      <4>4. QED
        BY <4>2, <4>3
    <3>5. StartAnchored(rows)'
      BY <3>2, <3>4 DEF StartAnchored
    <3>6. /\ pc'[t] = "idle" /\ op'[t] = Idle
          /\ \A q \in Procs \ {t} : pc'[q] = pc[q] /\ op'[q] = op[q]
      BY <1>1, <2>1, <3>2, ReturnFrame
    <3>7. \A q \in Procs : StartAnchored(op[q].seen)'
      BY <1>1, <3>2, <3>6 DEF StartInv, StartAnchored, Idle
    <3>8. QED
      BY <1>1, <3>5, <3>6, <3>7 DEF StartInv, AppendSteps, Procs
  <2>14. QED
    BY <1>5, <2>4, <2>5, <2>6, <2>7, <2>8, <2>9, <2>10, <2>11, <2>12, <2>13
    DEF TickStep
<1>6. ASSUME NEW w \in Writers, BeginRecord(w)
      PROVE  StartInv'
  <2>1. w \in Procs /\ w \notin Tickers
    BY ProcsAssumption DEF Procs
  <2>2. PICK key \in Keys \cup {NoKey} : Recording(w, key)
    BY <1>6 DEF BeginRecord
  <2>3. PICK s, o : Goto(w, s, o) /\ o.seen = <<>>
    BY <2>2 DEF Recording, Idle
  <2>4. QED
    BY <1>1, <1>6, <2>1, <2>3, StartFrame DEF BeginRecord
<1>7. ASSUME NEW t \in Tickers, BeginTick(t)
      PROVE  StartInv'
  BY <1>1, <1>7, StartIdle DEF BeginTick, Steps, TickSteps, AppendSteps, Procs
<1>8. CASE UNCHANGED vars
  BY <1>8, <1>2 DEF vars
<1>9. CASE Elapse
  BY <1>9, <1>2 DEF Elapse
<1>10. ASSUME NEW p \in Procs, Die(p)
       PROVE  StartInv'
  BY <1>10, <1>3 DEF Die
<1>11. QED
  BY <1>1, <1>4, <1>5, <1>6, <1>7, <1>8, <1>9, <1>10 DEF Next, Run

\* The inductive invariant holds in every reachable state.
THEOREM Invariance ==
    Spec => [](IInv /\ StartInv)
<1>1. Init => StartInv
  BY DEF Init, StartInv, StartAnchored, Idle, AppendSteps, Procs
<1>2. QED
  BY <1>1, InitIInv, NextKeeps, StartKeeps, PTL DEF Spec

\* IInv holds in every reachable state of the ledger on MongoDB.
THEOREM MongoInvariance ==
    MongoSpec => []IInv
BY InitIInv, MongoNextKeeps, PTL DEF MongoSpec

----------------------------------------------------------------------------
(* What follows. *)

\* In every reachable state the stored ledger verifies against the stored
\* anchors, for any number of handlers and ticks and whatever was interrupted.
THEOREM LedgerAlwaysVerifies ==
    Spec => []LedgerVerifies
<1>1. IInv /\ StartInv => LedgerVerifies
  <2>1. SUFFICES ASSUME IInv, StartInv PROVE LedgerVerifies
    OBVIOUS
  <2>2. ~AnchorAheadOfHead(rows, anchors)
    <3>1. SUFFICES ASSUME NEW a \in anchors
                   PROVE  \E s \in DOMAIN rows : ~(s < a.seqHigh)
      BY DEF AnchorAheadOfHead
    <3>2. /\ a.seqHigh \in 1..headSeq /\ headSeq \in Nat
          /\ headSeq > 0 => headSeq \in DOMAIN rows
      BY <2>1 DEF IInv, StoredInv, AnchorsInv
    <3>3. QED
      BY <3>2
  <2>3. ~NoAnchorForStart(rows, anchors)
    BY <2>1 DEF StartInv, StartAnchored, IInv, StoredInv, Window, NoAnchorForStart,
                IsFirst
  <2>4. Verdict(rows, anchors, Domain) = Sound
    BY <2>1, <2>2, <2>3, WindowVerdict DEF IInv, StoredInv
  <2>5. QED
    BY <2>4 DEF LedgerVerifies
<1>2. QED
  BY <1>1, Invariance, PTL

\* Stored rows are the rows first inserted, no seq is reused, and the newest
\* event is never pruned.
THEOREM HistoryIsKept ==
    Spec => []HistoryKept
<1>1. IInv => HistoryKept
  BY DEF IInv, StoredInv, HistoryInv, Window, HistoryKept
<1>2. QED
  BY <1>1, Invariance, PTL

\* An idempotency key is recorded twice only (nearly) a window apart.
THEOREM DuplicatesComeLate ==
    Spec => []DuplicatesAreOld
<1>1. IInv => DuplicatesAreOld
  BY DEF IInv, StoredInv, PrunedInv
<1>2. QED
  BY <1>1, Invariance, PTL

\* Retries of the optimistic append are bounded by what others appended.
THEOREM RetriesAreBounded ==
    Spec => []RetriesArePaidFor
<1>1. IInv => RetriesArePaidFor
  BY DEF IInv, Local, RetriesArePaidFor
<1>2. QED
  BY <1>1, Invariance, PTL

\* The only alarm over an intact ledger is that of the two reads in a row.
THEOREM AlarmsAreOnlyStaleReads ==
    Spec => []AlarmsAreStaleReads
<1>1. StartInv => AlarmsAreStaleReads
  BY DEF AheadOfHead, Fault, StartInv, AlarmsAreStaleReads
<1>2. QED
  BY <1>1, Invariance, PTL

\* On MongoDB, however a prune was interrupted, the stored rows are an unbroken
\* suffix of the history and verify, but for where they start.
THEOREM SuffixAlwaysSurvives ==
    MongoSpec => []SuffixSurvives
<1>1. IInv => SuffixSurvives
  <2>1. SUFFICES ASSUME IInv PROVE SuffixSurvives
    OBVIOUS
  <2>2. /\ StoredInv /\ Window(rows) /\ headSeq \in Nat
        /\ DOMAIN rows \subseteq 1..headSeq
        /\ headSeq > 0 => headSeq \in DOMAIN rows
    BY <2>1 DEF IInv, StoredInv, Window
  <2>3. ASSUME NEW s \in DOMAIN rows, s # headSeq
        PROVE  s + 1 \in DOMAIN rows
    <3>1. s \in 1..headSeq /\ headSeq \in DOMAIN rows /\ s + 1 \in s..headSeq
      BY <2>2, <2>3
    <3>2. QED
      BY <2>2, <2>3, <3>1 DEF Window
  <2>4. ~AnchorAheadOfHead(rows, anchors)
    <3>1. SUFFICES ASSUME NEW a \in anchors
                   PROVE  \E s \in DOMAIN rows : ~(s < a.seqHigh)
      BY DEF AnchorAheadOfHead
    <3>2. a.seqHigh \in 1..headSeq
      BY <2>2 DEF StoredInv, AnchorsInv
    <3>3. QED
      BY <2>2, <3>2
  <2>5. Verdict(rows, anchors, Domain) \in {Sound, NoStart}
    BY <2>2, <2>4, WindowVerdict
  <2>6. QED
    BY <2>3, <2>5 DEF SuffixSurvives, NoStart, Sound, Fault
<1>2. QED
  BY <1>1, MongoInvariance, PTL

\* On MongoDB the alarms over a ledger nobody damaged are about where the rows
\* a tick read end or start, never about a link or a hash.
THEOREM AlarmsNeverAccuseTheLinks ==
    MongoSpec => []AlarmsSpareTheLinks
<1>1. IInv => AlarmsSpareTheLinks
  <2>1. \A a \in Alarms : a.reason \in {"anchor_ahead_of_head", "no_anchor_for_start"}
    BY DEF Alarms, AheadOfHead, NoStart, Fault
  <2>2. Tickers \subseteq Procs
    BY DEF Procs
  <2>3. QED
    BY <2>1, <2>2 DEF IInv, Local, AlarmsSpareTheLinks
<1>2. QED
  BY <1>1, MongoInvariance, PTL

\* On MongoDB too, stored rows are the rows first inserted, no seq is reused,
\* the newest event stays, and a key comes back only a window later.
THEOREM MongoKeepsTheHistory ==
    MongoSpec => [](HistoryKept /\ DuplicatesAreOld /\ RetriesArePaidFor)
<1>1. IInv => HistoryKept /\ DuplicatesAreOld /\ RetriesArePaidFor
  BY DEF IInv, StoredInv, HistoryInv, PrunedInv, Window, HistoryKept, Local,
         RetriesArePaidFor
<1>2. QED
  BY <1>1, MongoInvariance, PTL

\* Types of the stored state and of what handlers hold.
THEOREM TypeCorrect ==
    Spec => []TypeOK
<1>1. IInv => TypeOK
  <2>1. SUFFICES ASSUME IInv PROVE TypeOK
    OBVIOUS
  <2>2. /\ now \in Nat /\ headSeq \in Nat
        /\ DOMAIN rows \subseteq 1..headSeq
        /\ \A a \in anchors : a.seqHigh \in 1..headSeq
    BY <2>1 DEF IInv, StoredInv, Window, AnchorsInv
  <2>3. \A s \in DOMAIN rows : rows[s].core.ts \in 0..now
    BY <2>1, <2>2 DEF IInv, StoredInv, Window, HistoryInv
  <2>4. pc \in [Procs -> Steps]
    BY <2>1 DEF IInv, Local
  <2>5. Alarms \subseteq Faults
    BY <2>2 DEF Alarms, AheadOfHead, NoStart, Faults, Fault
  <2>6. ASSUME NEW p \in Procs
        PROVE  /\ op[p].key \in Keys \cup {NoKey} \cup Faults
               /\ op[p].ts \in 0..now
               /\ op[p].head.seq \in 0..headSeq
               /\ op[p].attempt \in 0..MaxRetries
               /\ op[p].from \in 0..headSeq
               /\ DOMAIN op[p].seen \subseteq 1..headSeq
               /\ op[p].cutoff \in -Retention..now
               /\ op[p].pending \subseteq 1..headSeq
               /\ op[p].boundary \in 0..headSeq
    <3>1. Local(p, pc[p], op[p])
      BY <2>1 DEF IInv
    <3>2. op[p].cutoff \in -Retention..now
      BY <3>1, <2>2 DEF Local, Prudent
    <3>3. op[p].pending \subseteq 1..headSeq
      BY <3>1, <2>2 DEF Local, Held
    <3>4. QED
      BY <3>1, <3>2, <3>3, <2>5 DEF Local, Held, Window
  <2>7. QED
    BY <2>2, <2>3, <2>4, <2>6 DEF TypeOK
<1>2. QED
  BY <1>1, Invariance, PTL

\* Three kinds of steps touch the store.
LEMMA StoringSteps ==
    ASSUME [Next]_vars
    PROVE  \/ UNCHANGED stored
           \/ \E p \in Procs : Insert(p)
           \/ \E t \in Tickers : AnchorInsert(t)
           \/ \E t \in Tickers : PruneDelete(t)
<1>1. ASSUME NEW p \in Procs, AppendStep(p)
      PROVE  UNCHANGED stored \/ Insert(p)
  BY <1>1 DEF AppendStep, Lookup, Stamp, GetHead, InsertConflict, InsertDuplicate,
              Relookup
<1>2. ASSUME NEW t \in Tickers, TickStep(t)
      PROVE  UNCHANGED stored \/ AnchorInsert(t) \/ PruneDelete(t)
  BY <1>2 DEF TickStep, AnchorHead, AnchorFind, VerifyEvents, VerifyAnchors,
              PruneHead, PruneAnchors, PruneAdvance, PruneStop
<1>3. QED
  BY <1>1, <1>2 DEF Next, Run, vars, stored, BeginRecord, BeginTick, Elapse, Die

\* A step that removes an event is a prune of its tick, and the event is old.
THEOREM PruningIsInWindow ==
    Spec => PruneWithinWindow
<1>1. IInv /\ IInv' /\ [Next]_vars =>
         [\A s \in DOMAIN rows \ DOMAIN rows' :
             rows[s].core.ts < now - Retention + MaxStall]_vars
  <2>1. SUFFICES ASSUME IInv, IInv', [Next]_vars,
                        NEW s \in DOMAIN rows \ DOMAIN rows'
                 PROVE  rows[s].core.ts < now - Retention + MaxStall
    OBVIOUS
  <2>2. /\ s \in 1..headSeq /\ rows[s] = log[s]
    BY <2>1 DEF IInv, StoredInv, Window
  <2>3. \A p \in Procs : ~Insert(p)
    BY <2>1 DEF Insert, InsertRow
  <2>4. /\ rows' # rows
        /\ \A t \in Tickers : ~AnchorInsert(t)
    BY <2>1 DEF AnchorInsert
  <2>5. PICK t \in Tickers : PruneDelete(t)
    BY <2>1, <2>3, <2>4, StoringSteps DEF stored
  <2>6. UNCHANGED <<headSeq, log, now>>
    BY <2>5 DEF PruneDelete
  <2>7. QED
    BY <2>1, <2>2, <2>6 DEF IInv, StoredInv, PrunedInv
<1>2. QED
  BY <1>1, Invariance, PTL DEF Spec, PruneWithinWindow

----------------------------------------------------------------------------
(* Handlers come to an end, and ticks leave an anchor: what of the liveness *)
(* of LedgerProps holds step by step, whatever the scheduling.              *)

\* The farthest a handler can be from its return.
Longest == 2 * MaxRetries + 10

\* How far a handler is from its return: a conflict costs a round of getHead
\* and insert, and there are MaxRetries of them.
Rank(step, o) ==
    LET rounds == 2 * (MaxRetries - o.attempt)
    IN  CASE step = "idle" -> 0
          [] step \in {"relookup", "pruneDelete"} -> 1
          [] step = "pruneScan" -> 2
          [] step = "pruneAnchors" -> 3
          [] step = "pruneHead" -> 4
          [] step = "insert" -> rounds + 2
          [] step = "getHead" -> rounds + 3
          [] step = "stamp" -> rounds + 4
          [] step = "lookup" -> rounds + 5
          [] step = "verifyAnchors" -> Longest - 4
          [] step = "verifyEvents" -> Longest - 3
          [] step = "anchorInsert" -> Longest - 2
          [] step = "anchorFind" -> Longest - 1
          [] step = "anchorHead" -> Longest

\* Nearer to the return; the scan of a prune instead has an anchor less to
\* look at.
Nearer(p, step, o) ==
    \/ Rank(step, o) < Rank(pc[p], op[p])
    \/ /\ pc[p] = "pruneScan" /\ step = "pruneScan"
       /\ o.pending \subseteq op[p].pending /\ o.pending # op[p].pending

\* A rank is a bounded number, zero with no call under way, and the anchors a
\* scan has left are finitely many.
RanksAreBounded ==
    \A p \in Procs :
        /\ Rank(pc[p], op[p]) \in 0..Longest
        /\ Rank(pc[p], op[p]) = 0 => pc[p] = "idle"
        /\ op[p].pending \subseteq 1..headSeq

\* No handler under way moves but towards its return.
Advances ==
    \A p \in Procs :
        \/ pc[p] = "idle"
        \/ pc'[p] = pc[p] /\ op'[p] = op[p]
        \/ Nearer(p, pc'[p], op'[p])

HandlersAdvance == [][Advances]_vars

\* A tick that found s events appended goes by them or by an anchor of them.
Covering(t, s) ==
    \/ pc[t] \in {"idle", "anchorHead"}
    \/ pc[t] \in {"anchorFind", "anchorInsert"} /\ op[t].head.seq >= s
    \/ \E a \in anchors : a.seqHigh >= s

\* The ranks, one by one.
LEMMA RankOf ==
    ASSUME NEW o, o.attempt \in 0..MaxRetries
    PROVE  /\ Rank("idle", o) = 0
           /\ Rank("relookup", o) = 1 /\ Rank("pruneDelete", o) = 1
           /\ Rank("pruneScan", o) = 2 /\ Rank("pruneAnchors", o) = 3 /\ Rank("pruneHead", o) = 4
           /\ Rank("insert", o) = 2 * (MaxRetries - o.attempt) + 2
           /\ Rank("getHead", o) = 2 * (MaxRetries - o.attempt) + 3
           /\ Rank("stamp", o) = 2 * (MaxRetries - o.attempt) + 4
           /\ Rank("lookup", o) = 2 * (MaxRetries - o.attempt) + 5
           /\ Rank("verifyAnchors", o) = 2 * MaxRetries + 6
           /\ Rank("verifyEvents", o) = 2 * MaxRetries + 7
           /\ Rank("anchorInsert", o) = 2 * MaxRetries + 8
           /\ Rank("anchorFind", o) = 2 * MaxRetries + 9
           /\ Rank("anchorHead", o) = 2 * MaxRetries + 10
<1>1. Longest = 2 * MaxRetries + 10 /\ MaxRetries \in Int
  BY DEF Longest
<1>2. /\ Rank("verifyAnchors", o) = Longest - 4 /\ Rank("verifyEvents", o) = Longest - 3
      /\ Rank("anchorInsert", o) = Longest - 2 /\ Rank("anchorFind", o) = Longest - 1
      /\ Rank("anchorHead", o) = Longest
  BY DEF Rank
<1>3. /\ Rank("idle", o) = 0 /\ Rank("relookup", o) = 1 /\ Rank("pruneDelete", o) = 1
      /\ Rank("pruneScan", o) = 2 /\ Rank("pruneAnchors", o) = 3 /\ Rank("pruneHead", o) = 4
  BY DEF Rank
<1>4. /\ Rank("insert", o) = 2 * (MaxRetries - o.attempt) + 2
      /\ Rank("getHead", o) = 2 * (MaxRetries - o.attempt) + 3
      /\ Rank("stamp", o) = 2 * (MaxRetries - o.attempt) + 4
      /\ Rank("lookup", o) = 2 * (MaxRetries - o.attempt) + 5
  BY DEF Rank
<1>5. QED
  BY <1>1, <1>2, <1>3, <1>4

\* A step that takes its handler nearer to the return moves no other.
LEMMA GotoAdvances ==
    ASSUME IInv, NEW p \in Procs, NEW s, NEW o, Goto(p, s, o),
           pc[p] = "idle" \/ Nearer(p, s, o)
    PROVE  Advances
<1>1. /\ pc'[p] = s /\ op'[p] = o
      /\ \A q \in Procs \ {p} : pc'[q] = pc[q] /\ op'[q] = op[q]
  BY DEF Goto, IInv
<1>2. QED
  BY <1>1 DEF Advances

\* A smaller rank is nearer.
LEMMA SmallerAdvances ==
    ASSUME IInv, NEW p \in Procs, NEW s, NEW o, Goto(p, s, o),
           Rank(s, o) < Rank(pc[p], op[p])
    PROVE  Advances
BY GotoAdvances DEF Nearer

\* What a handler holds, as far as its rank goes.
LEMMA HeldRank ==
    ASSUME IInv, NEW p \in Procs
    PROVE  /\ op[p].attempt \in 0..MaxRetries /\ DOMAIN op[p] = LocalNames
           /\ Idle.attempt = 0 /\ Rank("idle", Idle) = 0
           /\ pc[p] # "idle" => Rank(pc[p], op[p]) > 0
           /\ Rank(pc[p], op[p]) \in 0..Longest
<1>1. /\ op[p].attempt \in 0..MaxRetries /\ DOMAIN op[p] = LocalNames
      /\ pc[p] \in Steps
  BY DEF IInv, Local
<1>2. Idle.attempt = 0 /\ Rank("idle", Idle) = 0
  BY DEF Idle, Rank
<1>3. op[p].attempt \in Int /\ MaxRetries - op[p].attempt >= 0 /\ Longest = 2 * MaxRetries + 10
  BY <1>1 DEF Longest
<1>4. \A s \in Steps : s # "idle" => Rank(s, op[p]) \in 1..Longest
  BY <1>1, <1>3, RankOf DEF Steps, AppendSteps, TickSteps
<1>5. Rank("idle", op[p]) = 0
  BY <1>1, RankOf
<1>6. QED
  BY <1>1, <1>2, <1>3, <1>4, <1>5

\* A call that ends is at its return.
LEMMA ReturnAdvances ==
    ASSUME IInv, NEW p \in Procs, pc[p] # "idle", Return(p)
    PROVE  Advances
BY HeldRank, SmallerAdvances DEF Return

\* The steps of an append lead to its end, whoever wins the races.
LEMMA AppendAdvances ==
    ASSUME IInv, NEW p \in Procs, AppendStep(p)
    PROVE  Advances
<1> DEFINE o == op[p]
<1>1. o.attempt \in 0..MaxRetries /\ DOMAIN o = LocalNames /\ o.attempt \in Int
  BY HeldRank
<1>2. CASE Lookup(p)
  <2>1. CASE Return(p)
    BY <1>2, <2>1, ReturnAdvances DEF Lookup
  <2>2. CASE Goto(p, "stamp", o)
    <3>1. Rank("stamp", o) < Rank("lookup", o)
      BY <1>1, RankOf
    <3>2. QED
      BY <1>2, <2>2, <3>1, SmallerAdvances DEF Lookup
  <2>3. QED
    BY <1>2, <2>1, <2>2 DEF Lookup
<1>3. CASE Stamp(p)
  <2> DEFINE n == [o EXCEPT !.ts = now, !.from = headSeq]
  <2>1. Goto(p, "getHead", n) /\ pc[p] = "stamp"
    BY <1>3 DEF Stamp
  <2>2. n.attempt = o.attempt
    BY <1>1 DEF LocalNames
  <2> HIDE DEF n
  <2>3. Rank("getHead", n) < Rank("stamp", o)
    BY <1>1, <2>2, RankOf
  <2>4. QED
    BY <2>1, <2>3, SmallerAdvances
<1>4. CASE GetHead(p)
  <2> DEFINE n == [o EXCEPT !.head = StoredHead]
  <2>1. Goto(p, "insert", n) /\ pc[p] = "getHead"
    BY <1>4 DEF GetHead
  <2>2. n.attempt = o.attempt
    BY <1>1 DEF LocalNames
  <2> HIDE DEF n
  <2>3. Rank("insert", n) < Rank("getHead", o)
    BY <1>1, <2>2, RankOf
  <2>4. QED
    BY <2>1, <2>3, SmallerAdvances
<1>5. CASE InsertConflict(p)
  <2> DEFINE n == [o EXCEPT !.attempt = @ + 1]
  <2>1. CASE MayRetry(p)
    <3>1. Goto(p, "getHead", n) /\ pc[p] = "insert"
      BY <1>5, <2>1 DEF InsertConflict
    <3>2. n.attempt = o.attempt + 1
      BY <1>1 DEF LocalNames
    <3> HIDE DEF n
    <3>3. n.attempt \in 0..MaxRetries
      BY <1>1, <2>1, <3>2 DEF MayRetry
    <3>4. Rank("getHead", n) < Rank("insert", o)
      <4>1. /\ Rank("getHead", n) = 2 * (MaxRetries - n.attempt) + 3
            /\ Rank("insert", o) = 2 * (MaxRetries - o.attempt) + 2
        BY <1>1, <3>3, RankOf
      <4>2. QED
        BY <1>1, <3>2, <4>1
    <3>5. QED
      BY <3>1, <3>4, SmallerAdvances
  <2>2. CASE ~MayRetry(p)
    BY <1>5, <2>2, ReturnAdvances DEF InsertConflict
  <2>3. QED
    BY <2>1, <2>2
<1>6. CASE InsertDuplicate(p)
  <2>1. Rank("relookup", o) < Rank("insert", o)
    BY <1>1, RankOf
  <2>2. QED
    BY <1>6, <2>1, SmallerAdvances DEF InsertDuplicate
<1>7. CASE Insert(p) \/ Relookup(p)
  BY <1>7, ReturnAdvances DEF Insert, Relookup
<1>8. QED
  BY <1>2, <1>3, <1>4, <1>5, <1>6, <1>7 DEF AppendStep

\* The steps of a tick lead to its end, through the append of an alarm or
\* through the scan of a prune.
LEMMA TickAdvances ==
    ASSUME IInv, NEW t \in Tickers, TickStep(t) \/ MongoTickStep(t)
    PROVE  Advances
<1> DEFINE o == op[t]
<1>1. /\ t \in Procs /\ Idle.attempt \in 0..MaxRetries /\ Idle.attempt = 0
      /\ o.attempt \in 0..MaxRetries /\ DOMAIN o = LocalNames /\ o.attempt \in Int
  BY HeldRank DEF Procs
<1>2. CASE AnchorHead(t)
  <2> DEFINE n == [Idle EXCEPT !.head = StoredHead]
  <2>1. n.attempt \in 0..MaxRetries
    BY <1>1 DEF Idle
  <2>2. /\ Rank("anchorFind", n) < Rank("anchorHead", o)
        /\ Rank("verifyEvents", Idle) < Rank("anchorHead", o)
    <3> HIDE DEF n
    <3>1. QED
      BY <1>1, <2>1, RankOf
  <2>3. QED
    BY <1>1, <1>2, <2>2, SmallerAdvances DEF AnchorHead
<1>3. CASE AnchorFind(t)
  <2>1. /\ Rank("anchorInsert", o) < Rank("anchorFind", o)
        /\ Rank("verifyEvents", Idle) < Rank("anchorFind", o)
    BY <1>1, RankOf
  <2>2. QED
    BY <1>1, <1>3, <2>1, SmallerAdvances DEF AnchorFind
<1>4. CASE AnchorInsert(t)
  <2>1. Rank("verifyEvents", Idle) < Rank("anchorInsert", o)
    BY <1>1, RankOf
  <2>2. QED
    BY <1>1, <1>4, <2>1, SmallerAdvances DEF AnchorInsert
<1>5. CASE VerifyEvents(t)
  <2> DEFINE n == [Idle EXCEPT !.seen = rows]
  <2>1. n.attempt \in 0..MaxRetries
    BY <1>1 DEF Idle
  <2>2. Goto(t, "verifyAnchors", n) /\ pc[t] = "verifyEvents"
    BY <1>5 DEF VerifyEvents
  <2> HIDE DEF n
  <2>3. Rank("verifyAnchors", n) < Rank("verifyEvents", o)
    BY <1>1, <2>1, RankOf
  <2>4. QED
    BY <1>1, <2>2, <2>3, SmallerAdvances
<1>6. CASE VerifyAnchors(t)
  <2> DEFINE verdict == Verdict(op[t].seen, anchors, Domain)
             n == [Idle EXCEPT !.key = verdict]
             s == IF verdict = NoKey THEN "stamp" ELSE "lookup"
  <2>1. pc[t] = "verifyAnchors"
    BY <1>6 DEF VerifyAnchors
  <2>2. CASE Goto(t, "pruneHead", Idle)
    <3>1. Rank("pruneHead", Idle) < Rank("verifyAnchors", o)
      BY <1>1, RankOf
    <3>2. QED
      BY <1>1, <2>1, <2>2, <3>1, SmallerAdvances
  <2>3. CASE Recording(t, verdict)
    <3>1. Goto(t, s, n)
      BY <2>3 DEF Recording
    <3>2. n.attempt = 0
      BY <1>1 DEF Idle
    <3>3. s \in {"stamp", "lookup"}
      OBVIOUS
    <3> HIDE DEF n, s
    <3>4. Rank(s, n) < Rank("verifyAnchors", o)
      <4>1. /\ Rank("stamp", n) = 2 * (MaxRetries - n.attempt) + 4
            /\ Rank("lookup", n) = 2 * (MaxRetries - n.attempt) + 5
            /\ Rank("verifyAnchors", o) = 2 * MaxRetries + 6
        BY <1>1, <3>2, RankOf
      <4>2. QED
        BY <3>2, <3>3, <4>1
    <3>5. QED
      BY <1>1, <2>1, <3>1, <3>4, SmallerAdvances
  <2>4. CASE Return(t)
    BY <1>1, <2>1, <2>4, ReturnAdvances
  <2>5. QED
    BY <1>6, <2>2, <2>3, <2>4 DEF VerifyAnchors
<1>7. CASE PruneHead(t)
  <2> DEFINE n == [Idle EXCEPT !.head = StoredHead, !.cutoff = now - Retention]
  <2>1. pc[t] = "pruneHead" /\ (Return(t) \/ Goto(t, "pruneAnchors", n))
    BY <1>7 DEF PruneHead
  <2>2. n.attempt \in 0..MaxRetries
    BY <1>1 DEF Idle
  <2> HIDE DEF n
  <2>3. Rank("pruneAnchors", n) < Rank("pruneHead", o)
    BY <1>1, <2>2, RankOf
  <2>4. QED
    BY <1>1, <2>1, <2>3, SmallerAdvances, ReturnAdvances
<1>8. CASE PruneAnchors(t)
  <2> DEFINE n == [o EXCEPT !.pending = {a.seqHigh : a \in anchors}]
  <2>1. pc[t] = "pruneAnchors" /\ Goto(t, "pruneScan", n)
    BY <1>8 DEF PruneAnchors
  <2>2. n.attempt \in 0..MaxRetries
    BY <1>1 DEF LocalNames
  <2> HIDE DEF n
  <2>3. Rank("pruneScan", n) < Rank("pruneAnchors", o)
    BY <1>1, <2>2, RankOf
  <2>4. QED
    BY <1>1, <2>1, <2>3, SmallerAdvances
<1>9. CASE PruneAdvance(t)
  <2>1. PICK seq \in o.pending :
           Goto(t, "pruneScan", [o EXCEPT !.boundary = seq, !.pending = @ \ {seq}])
    BY <1>9 DEF PruneAdvance
  <2> DEFINE n == [o EXCEPT !.boundary = seq, !.pending = @ \ {seq}]
  <2>2. n.pending = o.pending \ {seq}
    BY <1>1 DEF LocalNames
  <2>3. Goto(t, "pruneScan", n) /\ pc[t] = "pruneScan"
    BY <1>9, <2>1 DEF PruneAdvance
  <2> HIDE DEF n
  <2>4. Nearer(t, "pruneScan", n)
    BY <2>1, <2>2, <2>3 DEF Nearer
  <2>5. QED
    BY <1>1, <2>3, <2>4, GotoAdvances
<1>10. CASE PruneStop(t)
  <2> DEFINE n == [Idle EXCEPT !.boundary = op[t].boundary]
  <2>1. pc[t] = "pruneScan" /\ (Return(t) \/ Goto(t, "pruneDelete", n))
    BY <1>10 DEF PruneStop
  <2>2. n.attempt \in 0..MaxRetries
    BY <1>1 DEF Idle
  <2> HIDE DEF n
  <2>3. Rank("pruneDelete", n) < Rank("pruneScan", o)
    BY <1>1, <2>2, RankOf
  <2>4. QED
    BY <1>1, <2>1, <2>3, SmallerAdvances, ReturnAdvances
<1>11. CASE PruneDelete(t) \/ AnchorInsertRejected(t)
  BY <1>1, <1>11, ReturnAdvances DEF PruneDelete, AnchorInsertRejected
<1>12. CASE DeleteSome(t)
  BY <1>12 DEF DeleteSome, Advances
<1>13. QED
  BY <1>2, <1>3, <1>4, <1>5, <1>6, <1>7, <1>8, <1>9, <1>10, <1>11, <1>12
  DEF TickStep, MongoTickStep, AnchorInsertUnique

\* Whoever runs on, and in whatever order, every call and every tick comes
\* nearer to its return with each step it takes, on either repository: the
\* retry loop of appendChained ends with the retries, the scan of
\* pruneAnchorAligned with the anchors it read.
THEOREM HandlersComeToAnEnd ==
    Spec \/ MongoSpec => []RanksAreBounded /\ HandlersAdvance
<1>1. IInv => RanksAreBounded
  <2>1. SUFFICES ASSUME IInv, NEW p \in Procs
                 PROVE  /\ Rank(pc[p], op[p]) \in 0..Longest
                        /\ Rank(pc[p], op[p]) = 0 => pc[p] = "idle"
                        /\ op[p].pending \subseteq 1..headSeq
    BY DEF RanksAreBounded
  <2>2. op[p].pending \subseteq 1..headSeq
    BY <2>1 DEF IInv, Local, Held, StoredInv, AnchorsInv
  <2>3. QED
    BY <2>1, <2>2, HeldRank
<1>2. IInv /\ [Next \/ MongoNext]_vars => Advances
  <2>1. SUFFICES ASSUME IInv, [Next \/ MongoNext]_vars PROVE Advances
    OBVIOUS
  <2>2. CASE UNCHANGED <<pc, op>>
    BY <2>2 DEF Advances
  <2>3. ASSUME NEW w \in Writers, BeginRecord(w) PROVE Advances
    <3>1. w \in Procs /\ pc[w] = "idle" /\ \E s, o : Goto(w, s, o)
      BY <2>3 DEF BeginRecord, Recording, Procs
    <3>2. QED
      BY <2>1, <3>1, GotoAdvances
  <2>4. ASSUME NEW t \in Tickers, BeginTick(t) PROVE Advances
    BY <2>1, <2>4, GotoAdvances DEF BeginTick, Procs
  <2>5. ASSUME NEW p \in Procs, Die(p) PROVE Advances
    BY <2>1, <2>5, ReturnAdvances DEF Die
  <2>6. QED
    BY <2>1, <2>2, <2>3, <2>4, <2>5, AppendAdvances, TickAdvances
    DEF Next, Run, MongoNext, Elapse, vars
<1>3. [Next]_vars => [Next \/ MongoNext]_vars
  OBVIOUS
<1>4. [MongoNext]_vars => [Next \/ MongoNext]_vars
  OBVIOUS
<1>5. [][Advances]_vars => HandlersAdvance
  BY DEF HandlersAdvance
<1>6. QED
  BY <1>1, <1>2, <1>3, <1>4, <1>5, Invariance, MongoInvariance, PTL DEF Spec, MongoSpec

\* A tick under way towards an anchor of s events stays under way towards it,
\* whatever it and the other handlers do.
LEMMA CoveringKept ==
    ASSUME IInv, [Next \/ MongoNext]_vars,
           NEW s \in Nat \ {0}, NEW t \in Tickers, headSeq >= s, Covering(t, s)
    PROVE  headSeq' >= s /\ Covering(t, s)'
<1> DEFINE Others(p) == \A q \in Procs \ {p} : pc'[q] = pc[q] /\ op'[q] = op[q]
           Covered == \E a \in anchors : a.seqHigh >= s
<1>1. t \in Procs /\ t \notin Writers /\ headSeq \in Nat /\ DOMAIN op[t] = LocalNames
  BY ProcsAssumption DEF Procs, IInv, StoredInv, Local
<1>2. ASSUME NEW p \in Procs, NEW step, NEW o, Goto(p, step, o)
      PROVE  pc'[p] = step /\ op'[p] = o /\ Others(p)
  BY <1>2 DEF Goto, IInv
<1>3. ASSUME anchors \subseteq anchors', Covered PROVE Covering(t, s)'
  BY <1>3 DEF Covering
<1>4. ASSUME UNCHANGED <<pc, op>>, anchors \subseteq anchors' PROVE Covering(t, s)'
  BY <1>3, <1>4 DEF Covering
<1>5. ASSUME NEW p \in Procs \ {t}, NEW step, NEW o, Goto(p, step, o),
             anchors \subseteq anchors'
      PROVE  Covering(t, s)'
  <2>1. pc'[t] = pc[t] /\ op'[t] = op[t]
    BY <1>1, <1>2, <1>5
  <2>2. QED
    BY <1>3, <1>5, <2>1 DEF Covering
<1>6. ASSUME Return(t) \/ \E o : Goto(t, "anchorHead", o) PROVE Covering(t, s)'
  BY <1>1, <1>2, <1>6 DEF Return, Covering
<1>7. ASSUME UNCHANGED stored, NEW step \in {"anchorFind", "anchorInsert"}, NEW o,
             Goto(t, step, o), o.head.seq >= s
      PROVE  headSeq' >= s /\ Covering(t, s)'
  BY <1>1, <1>2, <1>7 DEF Covering, stored
<1>8. ASSUME NEW p \in Procs, AppendStep(p) PROVE headSeq' >= s /\ Covering(t, s)'
  <2>1. \E step, o : Goto(p, step, o)
    BY <1>8 DEF AppendStep, Lookup, Stamp, GetHead, InsertConflict, InsertDuplicate,
                Insert, Relookup, Return
  <2>2. anchors' = anchors /\ headSeq' >= s
    <3>1. CASE Insert(p)
      <4>1. op[p].head.seq + 1 \in Int
        BY DEF IInv, Local, Held
      <4>2. QED
        BY <1>1, <3>1, <4>1 DEF Insert, InsertRow
    <3>2. CASE UNCHANGED stored
      BY <3>2 DEF stored
    <3>3. QED
      BY <1>8, <3>1, <3>2 DEF AppendStep, Lookup, Stamp, GetHead, InsertConflict,
                              InsertDuplicate, Relookup
  <2>3. CASE p # t
    BY <1>5, <2>1, <2>2, <2>3
  <2>4. CASE p = t
    <3>1. pc[t] \in AppendSteps
      BY <1>8, <2>4 DEF AppendStep, Lookup, Stamp, GetHead, InsertConflict,
                        InsertDuplicate, Insert, Relookup, AppendSteps
    <3>2. Covered
      BY <3>1 DEF Covering, AppendSteps
    <3>3. QED
      BY <1>3, <2>2, <3>2
  <2>5. QED
    BY <2>3, <2>4
<1>9. ASSUME NEW u \in Tickers, TickStep(u) \/ MongoTickStep(u)
      PROVE  headSeq' >= s /\ Covering(t, s)'
  <2>1. u \in Procs /\ headSeq' = headSeq /\ anchors \subseteq anchors'
    BY <1>9 DEF TickStep, MongoTickStep, AnchorHead, AnchorFind, AnchorInsertUnique,
                AnchorInsertRejected, AnchorInsert, VerifyEvents, VerifyAnchors, PruneHead,
                PruneAnchors, PruneAdvance, PruneStop, DeleteSome, PruneDelete, stored, Procs
  <2>2. CASE UNCHANGED <<pc, op>>
    BY <1>4, <2>1, <2>2
  <2>3. CASE u # t /\ \E step, o : Goto(u, step, o)
    BY <1>5, <2>1, <2>3
  <2>4. \/ UNCHANGED <<pc, op>>
        \/ \E step, o : Goto(u, step, o)
    BY <1>9 DEF TickStep, MongoTickStep, AnchorHead, AnchorFind, AnchorInsertUnique,
                AnchorInsertRejected, AnchorInsert, VerifyEvents, VerifyAnchors, Recording,
                PruneHead, PruneAnchors, PruneAdvance, PruneStop, DeleteSome, PruneDelete,
                Return
  <2>5. CASE u = t /\ AnchorHead(t)
    <3> DEFINE o == [Idle EXCEPT !.head = StoredHead]
    <3>1. o.head.seq = headSeq
      BY <1>1 DEF Idle, StoredHead
    <3>2. Goto(t, "anchorFind", o) /\ UNCHANGED stored
      BY <1>1, <2>5 DEF AnchorHead
    <3> HIDE DEF o
    <3>3. QED
      BY <1>7, <3>1, <3>2
  <2>6. CASE u = t /\ AnchorFind(t)
    <3>1. CASE Covered
      BY <1>1, <1>3, <2>1, <3>1
    <3>2. CASE ~Covered
      <4>1. op[t].head.seq >= s
        BY <2>6, <3>2 DEF Covering, AnchorFind
      <4>2. ~AlreadyAnchored(op[t].head.seq)
        BY <3>2, <4>1 DEF AlreadyAnchored
      <4>3. QED
        BY <1>7, <2>6, <4>1, <4>2 DEF AnchorFind
    <3>3. QED
      BY <3>1, <3>2
  <2>7. CASE u = t /\ AnchorInsert(t)
    <3>1. CASE Covered
      BY <1>1, <1>3, <2>1, <3>1
    <3>2. CASE ~Covered
      <4>1. op[t].head.seq >= s
        BY <2>7, <3>2 DEF Covering, AnchorInsert
      <4>2. /\ SignAnchor(Domain, op[t].head) \in anchors'
            /\ SignAnchor(Domain, op[t].head).seqHigh = op[t].head.seq
        BY <2>7 DEF AnchorInsert, SignAnchor
      <4>3. QED
        BY <1>1, <2>1, <4>1, <4>2 DEF Covering
    <3>3. QED
      BY <3>1, <3>2
  <2>8. CASE u = t /\ AnchorInsertRejected(t)
    BY <1>1, <1>6, <2>1, <2>8 DEF AnchorInsertRejected
  <2>9. CASE u = t /\ pc[t] \notin {"idle", "anchorHead", "anchorFind", "anchorInsert"}
    <3>1. Covered
      BY <2>9 DEF Covering
    <3>2. QED
      BY <1>1, <1>3, <2>1, <3>1
  <2>10. QED
    BY <1>1, <1>9, <2>1, <2>2, <2>3, <2>4, <2>5, <2>6, <2>7, <2>8, <2>9
    DEF TickStep, MongoTickStep, AnchorInsertUnique, VerifyEvents, VerifyAnchors,
        PruneHead, PruneAnchors, PruneAdvance, PruneStop, DeleteSome, PruneDelete
<1>10. ASSUME NEW w \in Writers, BeginRecord(w) PROVE headSeq' >= s /\ Covering(t, s)'
  <2>1. w \in Procs \ {t} /\ UNCHANGED stored /\ \E step, o : Goto(w, step, o)
    BY <1>1, <1>10 DEF BeginRecord, Recording, Procs
  <2>2. QED
    BY <1>5, <2>1 DEF stored
<1>11. ASSUME NEW u \in Tickers, BeginTick(u) PROVE headSeq' >= s /\ Covering(t, s)'
  <2>1. u \in Procs /\ UNCHANGED stored /\ Goto(u, "anchorHead", Idle)
    BY <1>11 DEF BeginTick, Procs
  <2>2. QED
    BY <1>5, <1>6, <2>1 DEF stored
<1>12. ASSUME NEW p \in Procs, Die(p) PROVE headSeq' >= s /\ Covering(t, s)'
  <2>1. UNCHANGED stored /\ Return(p)
    BY <1>12 DEF Die
  <2>2. QED
    BY <1>5, <1>6, <2>1 DEF stored, Return
<1>13. CASE Elapse \/ UNCHANGED vars
  BY <1>4, <1>13 DEF Elapse, vars, stored
<1>14. QED
  BY <1>8, <1>9, <1>10, <1>11, <1>12, <1>13 DEF Next, Run, MongoNext

\* A tick that sets out when s events have been appended gets past its anchor,
\* to the verification and the prune, only with an anchor over them, its own
\* or that of another; or it dies.  So no verification overlooks what its own
\* tick found, on either repository.
THEOREM TicksLeaveAnAnchor ==
    ASSUME NEW s \in Nat \ {0}, NEW t \in Tickers
    PROVE  Spec \/ MongoSpec =>
              [](pc[t] = "anchorHead" /\ headSeq >= s => []Covering(t, s))
<1> DEFINE Start == pc[t] = "anchorHead" /\ headSeq >= s
           Covers == Covering(t, s)
           Promise == headSeq >= s /\ Covers
<1>1. (Start => Promise) /\ (Promise => Covers)
  BY DEF Covering
<1>2. IInv /\ [Next \/ MongoNext]_vars /\ Promise => Promise'
  BY CoveringKept
<1>3. [Next]_vars => [Next \/ MongoNext]_vars
  OBVIOUS
<1>4. [MongoNext]_vars => [Next \/ MongoNext]_vars
  OBVIOUS
<1> HIDE DEF Start, Promise, Covers
<1>5. Spec \/ MongoSpec => [](Start => []Covers)
  BY <1>1, <1>2, <1>3, <1>4, Invariance, MongoInvariance, PTL DEF Spec, MongoSpec
<1>6. QED
  BY <1>5 DEF Start, Covers

----------------------------------------------------------------------------
(* The ledger implements the abstract append-only log. *)

Cores == [s \in 1..headSeq |-> log[s].core]
Pinned == {a.seqHigh : a \in anchors}

\* The abstract log has one entry per row.
LEMMA CoresLen ==
    ASSUME NEW n \in Nat, NEW f
    PROVE  Len([s \in 1..n |-> f[s].core]) = n
OBVIOUS

\* An insert is the abstract log's Accept.
LEMMA InsertAccepts ==
    ASSUME IInv, IInv', NEW p \in Procs, Insert(p)
    PROVE  Abstract!Accept
<1>1. Local(p, "insert", op[p]) /\ headSeq \in Nat
  BY DEF Insert, IInv, StoredInv
<1>2. op[p].head.seq = headSeq
  BY <1>1 DEF Insert, SeqTaken, Local, Held, Timely
<1>3. /\ headSeq' = headSeq + 1
      /\ DOMAIN rows' = DOMAIN rows \cup {headSeq + 1}
      /\ \A s \in 1..headSeq : log'[s] = log[s]
      /\ anchors' = anchors
  <2>1. headSeq \in Nat /\ DOMAIN log = 1..headSeq
    BY DEF IInv, StoredInv, HistoryInv
  <2>2. PICK row : InsertRow(headSeq + 1, row)
    BY <1>2 DEF Insert
  <2>3. anchors' = anchors
    BY DEF Insert
  <2>4. headSeq' = headSeq + 1
    BY <2>1, <2>2 DEF InsertRow
  <2>5. DOMAIN rows' = DOMAIN rows \cup {headSeq + 1}
    BY <2>2 DEF InsertRow
  <2>6. \A s \in 1..headSeq : log'[s] = log[s]
    BY <2>1, <2>2 DEF InsertRow
  <2>7. QED
    BY <2>3, <2>4, <2>5, <2>6
<1>4. Len(Cores) = headSeq /\ Len(Cores)' = headSeq + 1
  BY <1>1, <1>3, CoresLen DEF Cores
<1>5. \A i \in 1..headSeq : Cores'[i] = Cores[i]
  BY <1>1, <1>3 DEF Cores
<1>6. QED
  BY <1>3, <1>4, <1>5 DEF Abstract!Accept, Cores

\* Writing an anchor is the abstract log's Pin.
LEMMA AnchorPins ==
    ASSUME IInv, IInv', NEW t \in Tickers, AnchorInsert(t)
    PROVE  Abstract!Pin
<1>1. op[t].head.seq \in 1..headSeq /\ headSeq \in Nat
  <2>1. Local(t, "anchorInsert", op[t]) /\ headSeq \in Nat
    BY DEF AnchorInsert, IInv, StoredInv, Procs
  <2>2. QED
    BY <2>1 DEF Local, Held
<1>2. UNCHANGED <<rows, headSeq, log>> /\ Pinned' = Pinned \cup {op[t].head.seq}
  <2>1. /\ UNCHANGED <<rows, headSeq, log>>
        /\ anchors' = anchors \cup {SignAnchor(Domain, op[t].head)}
        /\ SignAnchor(Domain, op[t].head).seqHigh = op[t].head.seq
    BY DEF AnchorInsert, SignAnchor
  <2>2. QED
    BY <2>1 DEF Pinned
<1>3. Len(Cores) = headSeq
  BY <1>1, CoresLen DEF Cores
<1>4. QED
  BY <1>1, <1>2, <1>3 DEF Abstract!Pin, Pinned, Cores

\* A prune is the abstract log's Forget, or deletes nothing.
LEMMA PruneForgets ==
    ASSUME IInv, IInv', NEW t \in Tickers, PruneDelete(t)
    PROVE  [Abstract!Next]_(Abstract!vars)
<1> DEFINE b == op[t].boundary
<1>1. /\ b \in 0..headSeq /\ headSeq \in Nat
      /\ b # 0 => b < headSeq /\ \E a \in anchors : a.seqHigh = b
  BY DEF IInv, StoredInv, Local, Held, Procs
<1>2. /\ UNCHANGED <<headSeq, log, anchors>>
      /\ DOMAIN rows' = KeptAbove(b)
  BY DEF PruneDelete
<1>3. DOMAIN rows \subseteq 1..headSeq
  BY DEF IInv, StoredInv, Window
<1> HIDE DEF b
<1>4. CASE b = 0
  <2>1. DOMAIN rows' = DOMAIN rows
    BY <1>1, <1>2, <1>3, <1>4 DEF KeptAbove
  <2>2. QED
    BY <2>1, <1>2 DEF Abstract!vars
<1>5. CASE b # 0
  <2>1. DOMAIN rows' = {s \in DOMAIN rows : s > b}
    BY <1>1, <1>2, <1>3, <1>5 DEF KeptAbove
  <2>2. b \in Pinned /\ b < Len(Cores)
    BY <1>1, <1>5, CoresLen DEF Pinned, Cores
  <2>3. QED
    BY <2>1, <2>2, <1>2 DEF Abstract!Next, Abstract!Forget, Pinned, Cores
<1>6. QED
  BY <1>4, <1>5

\* Every step of the ledger is a step of the abstract log or leaves it alone.
THEOREM Refinement ==
    Spec => ImplementsAbstract
<1>1. Init => Abstract!Init
  BY DEF Init, Abstract!Init
<1>2. IInv /\ IInv' /\ [Next]_vars => [Abstract!Next]_(Abstract!vars)
  <2>1. SUFFICES ASSUME IInv, IInv', [Next]_vars
                 PROVE  [Abstract!Next]_(Abstract!vars)
    OBVIOUS
  <2>2. CASE UNCHANGED stored
    BY <2>2 DEF stored, Abstract!vars
  <2>3. QED
    BY <2>1, <2>2, StoringSteps, InsertAccepts, AnchorPins, PruneForgets
    DEF Abstract!Next
<1>3. QED
  BY <1>1, <1>2, Invariance, PTL DEF Spec, ImplementsAbstract, Abstract!Spec
============================================================================
