---------------------------- MODULE ChainVerify ----------------------------
(***************************************************************************)
(* The hash chain and its verifier: lib/hashchain.js and the pure part of  *)
(* lib/audit.js.  A ledger is a partial function from sequence numbers to  *)
(* rows; an anchor is a signed statement "at seqHigh the head hash was     *)
(* headHash".                                                              *)
(*                                                                         *)
(* HMAC-SHA256 and Ed25519 are idealised: an entry hash IS the tuple of    *)
(* what is hashed (so two hashes are equal only when everything below them *)
(* is), and a signature IS the domain it was made for.                     *)
(***************************************************************************)
EXTENDS Integers, FiniteSetsExt

Genesis == <<>>

\* The per-ledger domain tag is part of the MAC material.
EntryHash(domain, seq, prev, core) == <<domain, seq, prev, core>>

\* A row as appendChained builds it on top of a head [seq, hash].
Chained(domain, head, core) ==
    [prev |-> head.hash,
     core |-> core,
     hash |-> EntryHash(domain, head.seq + 1, head.hash, core)]

\* What getHead returns for "no row yet", as appendChained reads it.
NoHead == [seq |-> 0, hash |-> Genesis]

SignAnchor(domain, head) ==
    [seqHigh |-> head.seq, headHash |-> head.hash, signedFor |-> domain]

----------------------------------------------------------------------------
(* verifyEvents, in the order of its checks. *)

Fault(reason, seq) == [reason |-> reason, seq |-> seq]
Sound == Fault("ok", 0)

BadSignature(anchors, domain) == \E a \in anchors : a.signedFor # domain

\* Mutant: no truncation check on an empty ledger.
AnchorAheadOfLastRow(rows, anchors) ==
    \E a \in anchors, s \in DOMAIN rows :
        a.seqHigh > s /\ \A t \in DOMAIN rows : t <= s

\* Both truncation checks: an empty ledger and a short one.
AnchorAheadOfHead(rows, anchors) ==
    \E a \in anchors : a.seqHigh > 0 /\ \A s \in DOMAIN rows : s < a.seqHigh

IsFirst(rows, s) == s \in DOMAIN rows /\ \A t \in DOMAIN rows : s <= t

NoAnchorForStart(rows, anchors) ==
    \E s \in DOMAIN rows :
        IsFirst(rows, s) /\ s > 1 /\ \A a \in anchors : a.seqHigh # s - 1

\* The prevHash the walk expects at s: the genesis value, the start anchor's
\* head hash, or the hash of the row before.
ExpectedPrev(rows, anchors, s) ==
    IF ~IsFirst(rows, s) THEN rows[s - 1].hash
    ELSE IF s = 1 THEN Genesis
    ELSE (CHOOSE a \in anchors : a.seqHigh = s - 1).headHash

\* One iteration of verifyChain's loop.
LinkFault(rows, anchors, domain, s) ==
    IF ~IsFirst(rows, s) /\ s - 1 \notin DOMAIN rows THEN Fault("seq_gap", s)
    ELSE IF rows[s].prev # ExpectedPrev(rows, anchors, s)
         THEN Fault("prev_hash_mismatch", s)
    ELSE IF rows[s].hash # EntryHash(domain, s, rows[s].prev, rows[s].core)
         THEN Fault("entry_hash_mismatch", s)
    ELSE Sound

\* verifyChain stops at the first faulty row in sequence order.
WalkFault(rows, anchors, domain) ==
    LET faulty == {s \in DOMAIN rows :
                      LinkFault(rows, anchors, domain, s) # Sound}
    IN  IF faulty = {} THEN Sound
        ELSE LinkFault(rows, anchors, domain, Min(faulty))

AnchorHeadMismatch(rows, anchors) ==
    \E a \in anchors :
        a.seqHigh \in DOMAIN rows /\ rows[a.seqHigh].hash # a.headHash

Verdict(rows, anchors, domain) ==
    IF BadSignature(anchors, domain) THEN Fault("anchor_signature_invalid", 0)
    ELSE IF AnchorAheadOfHead(rows, anchors) THEN Fault("anchor_ahead_of_head", 0)
    ELSE IF NoAnchorForStart(rows, anchors) THEN Fault("no_anchor_for_start", 0)
    ELSE IF WalkFault(rows, anchors, domain) # Sound
         THEN WalkFault(rows, anchors, domain)
    ELSE IF AnchorHeadMismatch(rows, anchors) THEN Fault("anchor_head_mismatch", 0)
    ELSE Sound
============================================================================
