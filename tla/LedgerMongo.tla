---------------------------- MODULE LedgerMongo ----------------------------
(***************************************************************************)
(* The ledger on MongoDB (mongoRepo.js) where it differs from the          *)
(* in-memory repository of Ledger:                                         *)
(*  - deleteMany removes documents one after the other, in index order; a  *)
(*    failure in the middle leaves what was removed removed;               *)
(*  - the unique index on anchors.seqHigh rejects a second anchor of the   *)
(*    same head, and that error ends the tick.                             *)
(***************************************************************************)
EXTENDS LedgerProps

\* Mutant: deleteMany in no particular order.
DeleteAny(t) ==
    /\ pc[t] = "pruneDelete"
    /\ \E s \in DOMAIN rows :
          /\ s <= op[t].boundary
          /\ rows' = [r \in DOMAIN rows \ {s} |-> rows[r]]
    /\ UNCHANGED <<headSeq, anchors, log, now, pc, op>>

\* deleteMany under way: some of the oldest doomed rows are gone.
DeleteSome(t) ==
    /\ pc[t] = "pruneDelete"
    /\ \E s \in DOMAIN rows :
          /\ s <= op[t].boundary
          /\ rows' = [r \in KeptAbove(s) |-> rows[r]]
    /\ UNCHANGED <<headSeq, anchors, log, now, pc, op>>

AnchorInsertRejected(t) ==
    /\ pc[t] = "anchorInsert"
    /\ \E a \in anchors : a.seqHigh = op[t].head.seq
    /\ Return(t)
    /\ UNCHANGED <<stored, now>>

AnchorInsertUnique(t) ==
    /\ \A a \in anchors : a.seqHigh # op[t].head.seq
    /\ AnchorInsert(t)

MongoTickStep(t) ==
    \/ AnchorHead(t) \/ AnchorFind(t)
    \/ AnchorInsertUnique(t) \/ AnchorInsertRejected(t)
    \/ VerifyEvents(t) \/ VerifyAnchors(t)
    \/ PruneHead(t) \/ PruneAnchors(t) \/ PruneAdvance(t) \/ PruneStop(t)
    \/ DeleteSome(t) \/ PruneDelete(t)

MongoNext ==
    \/ \E w \in Writers : BeginRecord(w)
    \/ \E t \in Tickers : BeginTick(t) \/ MongoTickStep(t)
    \/ \E p \in Procs : AppendStep(p) \/ Die(p)
    \/ Elapse

MongoSpec == Init /\ [][MongoNext]_vars

----------------------------------------------------------------------------
\* However a prune is interrupted, the stored rows are an unbroken suffix of
\* the history and, apart from where they start, still verify.
SuffixSurvives ==
    /\ \A s \in DOMAIN rows : s = headSeq \/ s + 1 \in DOMAIN rows
    /\ Verdict(rows, anchors, Domain).reason \in {"ok", "no_anchor_for_start"}

\* However ticks overlap and prunes stop half way, no tick on a store nobody
\* damaged ever accuses a link or a hash: the alarms it can raise are about
\* where the rows it read end or start.
AlarmsSpareTheLinks ==
    \A t \in Tickers :
        pc[t] \in AppendSteps =>
            op[t].key.reason \in {"anchor_ahead_of_head", "no_anchor_for_start"}
=============================================================================
