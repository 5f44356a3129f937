---------------------------- MODULE StorageProofs ----------------------------
(***************************************************************************)
(* Proof that verifyEvents is exact, for any length of the ledger and any  *)
(* number of damages.                                                      *)
(*                                                                         *)
(* RowTrue is the heart of it: a stored hash was computed by the server,   *)
(* so that a row whose hash is that of its own place, domain, link and     *)
(* content is the row the server wrote there.                              *)
(***************************************************************************)
EXTENDS StorageFaults, WellFoundedInduction, TLAPS

USE SizeAssumption

\* What the store may hold whatever was done to it.
StoreInv ==
    /\ DOMAIN rows \subseteq 1..MaxLen
    /\ \A s \in DOMAIN rows : rows[s] \in Rows \cup Altered
    /\ \A a \in anchors : \E d \in Domains, s \in 1..MaxLen : a = TrueAnchor(d, s)

-----------------------------------------------------------------------------
\* Every non-empty set of naturals has a least element.
LEMMA Least ==
    ASSUME NEW T, T \subseteq Nat, T # {}
    PROVE  \E x \in T : \A y \in T : x <= y
<1>1. PICK x \in T : \A y \in T : ~(<<y, x>> \in OpToRel(<, Nat))
  BY NatLessThanWellFounded, WFMin, Zenon
<1>2. \A y \in T : <<y, x>> \in OpToRel(<, Nat) <=> y < x
  BY DEF OpToRel
<1>3. \A y \in T : ~(y < x)
  BY <1>1, <1>2, Zenon
<1>. QED BY <1>3

\* A non-empty set of naturals up to n has a greatest.
LEMMA Greatest ==
    ASSUME NEW n \in Nat, NEW T, T \subseteq 0..n, T # {}
    PROVE  \E x \in T : \A y \in T : y <= x
<1> DEFINE U == {n - x : x \in T}
<1>1. U \subseteq Nat /\ U # {}
  <2>1. \A x \in T : x \in 0..n /\ n - x \in Nat
    OBVIOUS
  <2>. QED BY <2>1
<1>2. PICK u \in U : \A v \in U : u <= v
  <2>. HIDE DEF U
  <2>. QED BY <1>1, Least
<1>3. PICK x \in T : u = n - x
  OBVIOUS
<1>4. \A y \in T : n - x <= n - y
  BY <1>2, <1>3
<1>. QED BY <1>3, <1>4

\* What Min returns.
LEMMA MinIs ==
    ASSUME NEW T, T \subseteq Nat, T # {}
    PROVE  Min(T) \in T /\ \A y \in T : Min(T) <= y
BY Least, Zenon DEF Min

-----------------------------------------------------------------------------
(* The history: each row on top of the row before. *)

\* The row at s, on top of what f has before.
Above(d, f, s) ==
    Chained(d, IF s = 1 THEN NoHead ELSE [seq |-> s - 1, hash |-> f[s - 1].hash], s)

\* There is a chain of any length.
LEMMA ChainExists ==
    ASSUME NEW d, NEW n \in Nat
    PROVE  \E f : f = [s \in 1..n |-> Above(d, f, s)]
<1> DEFINE Is(f, k) == f = [s \in 1..k |-> Above(d, f, s)]
           Bad == {k \in Nat : ~ \E f : Is(f, k)}
<1>1. SUFFICES ASSUME Bad # {} PROVE FALSE
  BY Zenon
<1>2. PICK k \in Bad : \A j \in Bad : k <= j
  <2>1. Bad \subseteq Nat
    OBVIOUS
  <2>. HIDE DEF Bad
  <2>. QED BY <1>1, <2>1, Least
<1>3. k # 0
  <2>1. Is([s \in 1..0 |-> 0], 0)
    OBVIOUS
  <2>. QED BY <2>1
<1>4. k - 1 \in Nat /\ k - 1 \notin Bad
  BY <1>2, <1>3
<1>5. PICK f : Is(f, k - 1)
  BY <1>4
<1> DEFINE g == [s \in 1..k |-> Above(d, f, s)]
<1>6. \A s \in 1..k : Above(d, g, s) = Above(d, f, s)
  <2> SUFFICES ASSUME NEW s \in 1..k PROVE Above(d, g, s) = Above(d, f, s)
    OBVIOUS
  <2>1. CASE s = 1
    BY <2>1 DEF Above
  <2>2. CASE s # 1
    <3>1. s - 1 \in 1..(k - 1) /\ s - 1 \in 1..k
      BY <2>2
    <3>2. g[s - 1] = f[s - 1]
      <4>1. g[s - 1] = Above(d, f, s - 1)
        BY <3>1
      <4>2. f[s - 1] = Above(d, f, s - 1)
        BY <1>5, <3>1
      <4>. QED BY <4>1, <4>2
    <3>. HIDE DEF g
    <3>. QED BY <3>2 DEF Above
  <2>. QED BY <2>1, <2>2
<1>7. Is(g, k)
  BY <1>6
<1>. QED BY <1>2, <1>7

\* The history unfolded.
LEMMA TruthIs ==
    ASSUME NEW d \in Domains, NEW s \in 1..MaxLen
    PROVE  LET prev == IF s = 1 THEN Genesis ELSE truth[d][s - 1].hash
           IN  truth[d][s] = [prev |-> prev, core |-> s, hash |-> <<d, s, prev, s>>]
<1> DEFINE row == CHOOSE f : f = [t \in 1..MaxLen |-> Above(d, f, t)]
<1>1. truth[d] = row
  BY DEF truth, Above
<1>2. row = [t \in 1..MaxLen |-> Above(d, row, t)]
  BY ChainExists, Zenon
<1>3. row[s] = Above(d, row, s)
  BY <1>2
<1>. HIDE DEF row
<1>. QED BY <1>1, <1>3 DEF Above, Chained, EntryHash, NoHead, Genesis

\* A row of the store still has the hash that was computed for some place.
LEMMA HashIsOfAPlace ==
    ASSUME NEW row \in Rows \cup Altered
    PROVE  \E d \in Domains, k \in 1..MaxLen :
              LET was == truth[d][k]
              IN  /\ row.hash = <<d, k, was.prev, k>>
                  /\ \/ row = was
                     \/ row = [was EXCEPT !.core = 0]
                     \/ row = [was EXCEPT !.prev = Genesis]
<1>1. PICK was \in Rows : \/ row = was
                          \/ row = [was EXCEPT !.core = 0]
                          \/ row = [was EXCEPT !.prev = Genesis]
  BY DEF Altered
<1>2. PICK d \in Domains, k \in 1..MaxLen : was = truth[d][k]
  BY DEF Rows
<1>3. PICK prev : was = [prev |-> prev, core |-> k, hash |-> <<d, k, prev, k>>]
  BY <1>2, TruthIs
<1>4. was.prev = prev /\ row.hash = <<d, k, prev, k>>
  BY <1>1, <1>3
<1>. QED BY <1>1, <1>2, <1>4

\* A row whose hash is that of its own place, link and content is the true row.
LEMMA RowTrue ==
    ASSUME NEW row \in Rows \cup Altered, NEW s \in 1..MaxLen,
           row.hash = EntryHash("audit", s, row.prev, row.core)
    PROVE  row = truth["audit"][s]
<1>1. PICK d \in Domains, k \in 1..MaxLen :
          /\ row.hash = <<d, k, truth[d][k].prev, k>>
          /\ \/ row = truth[d][k]
             \/ row = [truth[d][k] EXCEPT !.core = 0]
             \/ row = [truth[d][k] EXCEPT !.prev = Genesis]
  BY HashIsOfAPlace
<1>2. d = "audit" /\ k = s /\ row.prev = truth[d][k].prev /\ row.core = k
  BY <1>1 DEF EntryHash
<1>3. PICK prev : truth[d][k] = [prev |-> prev, core |-> k, hash |-> <<d, k, prev, k>>]
  <2> DEFINE b == IF k = 1 THEN Genesis ELSE truth[d][k - 1].hash
  <2>1. truth[d][k] = [prev |-> b, core |-> k, hash |-> <<d, k, b, k>>]
    BY TruthIs
  <2>. HIDE DEF b
  <2>. QED BY <2>1
<1>4. row # [truth[d][k] EXCEPT !.core = 0]
  BY <1>2, <1>3
<1>5. row = [truth[d][k] EXCEPT !.prev = Genesis] => row = truth[d][k]
  BY <1>2, <1>3
<1>. QED BY <1>1, <1>2, <1>4, <1>5

\* The true rows have the links and the hashes the walk expects.
LEMMA TrueLinks ==
    ASSUME NEW s \in 1..MaxLen
    PROVE  LET row == truth["audit"][s]
           IN  /\ row.hash = EntryHash("audit", s, row.prev, row.core)
               /\ s = 1 => row.prev = Genesis
               /\ s # 1 => row.prev = truth["audit"][s - 1].hash
<1>1. "audit" \in Domains
  BY DEF Domains
<1>2. PICK prev : /\ prev = (IF s = 1 THEN Genesis ELSE truth["audit"][s - 1].hash)
                  /\ truth["audit"][s] = [prev |-> prev, core |-> s,
                                          hash |-> <<"audit", s, prev, s>>]
  BY <1>1, TruthIs
<1>. QED BY <1>2 DEF EntryHash

\* An anchor of this ledger is of a true head.
LEMMA AnchorTrue ==
    ASSUME StoreInv, NEW a \in anchors
    PROVE  /\ a.seqHigh \in 1..MaxLen
           /\ a.signedFor = "audit" => a.headHash = truth["audit"][a.seqHigh].hash
<1>1. PICK d \in Domains, s \in 1..MaxLen : a = TrueAnchor(d, s)
  BY DEF StoreInv
<1>. QED BY <1>1 DEF TrueAnchor, SignAnchor

-----------------------------------------------------------------------------
(* What a clean report means, check by check. *)

\* The walk is clean when each of its iterations is.
LEMMA WalkClean ==
    ASSUME StoreInv
    PROVE  WalkFault(rows, anchors, "audit") = Sound <=>
             \A s \in DOMAIN rows : LinkFault(rows, anchors, "audit", s) = Sound
<1> DEFINE faulty == {s \in DOMAIN rows : LinkFault(rows, anchors, "audit", s) # Sound}
<1>1. faulty \subseteq Nat
  BY DEF StoreInv
<1>2. CASE faulty = {}
  BY <1>2 DEF WalkFault
<1>3. CASE faulty # {}
  <2>1. Min(faulty) \in faulty
    <3>. HIDE DEF faulty
    <3>. QED BY <1>1, <1>3, MinIs
  <2>2. WalkFault(rows, anchors, "audit") = LinkFault(rows, anchors, "audit", Min(faulty))
    BY <1>3 DEF WalkFault
  <2>. QED BY <2>1, <2>2
<1>. QED BY <1>2, <1>3

\* A clean report is a report of none of the faults.
LEMMA Clean ==
    ASSUME StoreInv
    PROVE  Verdict(rows, anchors, "audit") = Sound <=>
             /\ ~BadSignature(anchors, "audit")
             /\ ~AnchorAheadOfHead(rows, anchors)
             /\ ~NoAnchorForStart(rows, anchors)
             /\ \A s \in DOMAIN rows : LinkFault(rows, anchors, "audit", s) = Sound
             /\ ~AnchorHeadMismatch(rows, anchors)
<1>1. \A reason, s : Fault(reason, s) = Sound => reason = "ok"
  BY DEF Fault, Sound
<1>2. WalkFault(rows, anchors, "audit") = Sound <=>
        \A s \in DOMAIN rows : LinkFault(rows, anchors, "audit", s) = Sound
  BY WalkClean
<1>. QED BY <1>1, <1>2 DEF Verdict

\* An iteration is clean when it finds the row before, its link and its hash.
LEMMA LinkClean ==
    ASSUME NEW s
    PROVE  LinkFault(rows, anchors, "audit", s) = Sound <=>
             /\ IsFirst(rows, s) \/ s - 1 \in DOMAIN rows
             /\ rows[s].prev = ExpectedPrev(rows, anchors, s)
             /\ rows[s].hash = EntryHash("audit", s, rows[s].prev, rows[s].core)
<1>1. \A reason, t : Fault(reason, t) = Sound => reason = "ok"
  BY DEF Fault, Sound
<1>. QED BY <1>1 DEF LinkFault

\* What passes for clean is genuine.
LEMMA CleanIsGenuine ==
    ASSUME StoreInv, Verdict(rows, anchors, "audit") = Sound
    PROVE  Genuine
<1>1. /\ \A a \in anchors : a.signedFor = "audit"
      /\ ~AnchorAheadOfHead(rows, anchors)
      /\ ~NoAnchorForStart(rows, anchors)
      /\ \A s \in DOMAIN rows : LinkFault(rows, anchors, "audit", s) = Sound
  BY Clean DEF BadSignature
<1>2. \A s \in DOMAIN rows : s \in 1..MaxLen
  BY DEF StoreInv
<1>3. \A s \in DOMAIN rows : rows[s] = truth["audit"][s]
  BY <1>1, <1>2, LinkClean, RowTrue DEF StoreInv
<1>4. \A a \in anchors : a.seqHigh \in 1..MaxLen
  BY AnchorTrue
<1>5. CASE DOMAIN rows = {}
  <2>1. \A a \in anchors : ~(a.seqHigh > 0)
    BY <1>1, <1>5 DEF AnchorAheadOfHead
  <2>2. anchors = {}
    BY <1>4, <2>1
  <2>3. 0 \in 0..MaxLen /\ DOMAIN rows = (0 + 1)..0
    BY <1>5
  <2>. QED BY <1>3, <2>2, <2>3 DEF Genuine
<1>6. CASE DOMAIN rows # {}
  <2>1. DOMAIN rows \subseteq 0..MaxLen /\ DOMAIN rows \subseteq Nat
    BY <1>2
  <2>2. PICK first \in DOMAIN rows : \A t \in DOMAIN rows : first <= t
    BY <1>6, <2>1, Least
  <2>3. PICK last \in DOMAIN rows : \A t \in DOMAIN rows : t <= last
    BY <1>6, <2>1, Greatest
  <2>4. IsFirst(rows, first) /\ \A t \in DOMAIN rows : IsFirst(rows, t) => t = first
    <3>1. \A t \in DOMAIN rows : t \in Nat
      BY <2>1
    <3>. QED BY <2>2, <3>1 DEF IsFirst
  <2>5. first \in 1..MaxLen /\ last \in 1..MaxLen /\ first <= last
    BY <1>2, <2>2
  <2>6. \A t \in DOMAIN rows : t # first => t - 1 \in DOMAIN rows
    BY <1>1, <2>4, LinkClean
  <2>7. DOMAIN rows = first..last
    <3> DEFINE missing == {t \in first..last : t \notin DOMAIN rows}
    <3>1. ASSUME missing # {} PROVE FALSE
      <4>1. missing \subseteq 0..MaxLen
        BY <2>5
      <4>2. PICK t \in missing : \A u \in missing : u <= t
        <5>. HIDE DEF missing
        <5>. QED BY <3>1, <4>1, Greatest
      <4>3. t \in first..last /\ t \notin DOMAIN rows /\ t # last
        BY <2>3
      <4>4. t + 1 \in first..last /\ t + 1 \notin missing
        BY <2>5, <4>2, <4>3
      <4>5. t + 1 \in DOMAIN rows /\ t + 1 # first /\ (t + 1) - 1 = t
        BY <2>5, <4>3, <4>4
      <4>. QED BY <2>6, <4>3, <4>5
    <3>2. \A t \in DOMAIN rows : t \in first..last
      BY <1>2, <2>2, <2>3, <2>5
    <3>. QED BY <3>1, <3>2
  <2>8. first # 1 => \E a \in anchors : a.seqHigh = first - 1
    BY <1>1, <2>4, <2>5 DEF NoAnchorForStart
  <2>9. \A a \in anchors : a.seqHigh <= last
    <3> SUFFICES ASSUME NEW a \in anchors PROVE a.seqHigh <= last
      OBVIOUS
    <3>1. a.seqHigh \in 1..MaxLen
      BY <1>4
    <3>2. PICK s \in DOMAIN rows : ~(s < a.seqHigh)
      BY <1>1, <3>1 DEF AnchorAheadOfHead
    <3>3. s <= last /\ s \in Int
      BY <1>2, <2>3
    <3>. QED BY <2>5, <3>1, <3>2, <3>3
  <2>10. /\ first - 1 \in 0..MaxLen /\ last \in 0..MaxLen
         /\ (first - 1) + 1 = first /\ first - 1 < last
    BY <2>5
  <2>11. first - 1 = 0 \/ \E a \in anchors : a.seqHigh = first - 1
    BY <2>5, <2>8
  <2>. QED BY <1>1, <1>3, <2>7, <2>9, <2>10, <2>11 DEF Genuine
<1>. QED BY <1>5, <1>6

\* What is genuine passes for clean.
LEMMA GenuineIsClean ==
    ASSUME StoreInv, Genuine
    PROVE  Verdict(rows, anchors, "audit") = Sound
<1>1. /\ \A a \in anchors : a.signedFor = "audit"
      /\ \A s \in DOMAIN rows : rows[s] = truth["audit"][s]
  BY DEF Genuine
<1>2. PICK before \in 0..MaxLen, last \in 0..MaxLen :
          /\ DOMAIN rows = (before + 1)..last
          /\ before < last \/ last = 0
          /\ before = 0 \/ \E a \in anchors : a.seqHigh = before
          /\ \A a \in anchors : a.seqHigh <= last
  BY DEF Genuine
<1>3. \A a \in anchors : /\ a.seqHigh \in 1..MaxLen
                         /\ a.headHash = truth["audit"][a.seqHigh].hash
  BY <1>1, AnchorTrue
<1>4. ~BadSignature(anchors, "audit")
  BY <1>1 DEF BadSignature
<1>5. ~AnchorAheadOfHead(rows, anchors)
  <2> SUFFICES ASSUME NEW a \in anchors, a.seqHigh > 0
               PROVE  \E s \in DOMAIN rows : ~(s < a.seqHigh)
    BY DEF AnchorAheadOfHead
  <2>1. a.seqHigh <= last /\ a.seqHigh \in 1..MaxLen
    BY <1>2, <1>3
  <2>2. last \in DOMAIN rows
    BY <1>2, <2>1
  <2>. QED BY <2>1, <2>2
<1>6. \A s \in DOMAIN rows : IsFirst(rows, s) <=> s = before + 1
  BY <1>2 DEF IsFirst
<1>7. ~NoAnchorForStart(rows, anchors)
  <2> SUFFICES ASSUME NEW s \in DOMAIN rows, IsFirst(rows, s), s > 1
               PROVE  \E a \in anchors : a.seqHigh = s - 1
    BY DEF NoAnchorForStart
  <2>1. s = before + 1 /\ before # 0 /\ s - 1 = before
    BY <1>6
  <2>. QED BY <1>2, <2>1
<1>8. ASSUME NEW s \in DOMAIN rows
      PROVE  LinkFault(rows, anchors, "audit", s) = Sound
  <2>1. s \in 1..MaxLen /\ rows[s] = truth["audit"][s]
    BY <1>1, <1>2
  <2>2. IsFirst(rows, s) \/ s - 1 \in DOMAIN rows
    BY <1>2, <1>6
  <2>3. rows[s].prev = ExpectedPrev(rows, anchors, s)
    <3>1. CASE ~IsFirst(rows, s)
      <4>1. s # 1 /\ s - 1 \in DOMAIN rows
        BY <1>2, <1>6, <3>1
      <4>2. rows[s].prev = rows[s - 1].hash
        BY <1>1, <2>1, <4>1, TrueLinks
      <4>. QED BY <3>1, <4>2 DEF ExpectedPrev
    <3>2. CASE IsFirst(rows, s) /\ s = 1
      BY <2>1, <3>2, TrueLinks DEF ExpectedPrev
    <3>3. CASE IsFirst(rows, s) /\ s # 1
      <4> DEFINE start == CHOOSE a \in anchors : a.seqHigh = s - 1
      <4>1. before # 0 /\ s - 1 = before
        BY <1>2, <1>6, <3>3
      <4>2. start \in anchors /\ start.seqHigh = s - 1
        BY <1>2, <4>1
      <4>3. start.headHash = truth["audit"][s - 1].hash
        <5>. HIDE DEF start
        <5>. QED BY <1>3, <4>2
      <4>4. rows[s].prev = truth["audit"][s - 1].hash
        BY <2>1, <3>3, TrueLinks
      <4>. QED BY <3>3, <4>3, <4>4 DEF ExpectedPrev
    <3>. QED BY <3>1, <3>2, <3>3
  <2>4. rows[s].hash = EntryHash("audit", s, rows[s].prev, rows[s].core)
    BY <2>1, TrueLinks
  <2>. QED BY <2>2, <2>3, <2>4, LinkClean
<1>9. ~AnchorHeadMismatch(rows, anchors)
  BY <1>1, <1>3 DEF AnchorHeadMismatch
<1>. QED BY <1>4, <1>5, <1>7, <1>8, <1>9, Clean

-----------------------------------------------------------------------------
\* A damage leaves what the server once wrote, or that altered.
LEMMA InitStore == Init => StoreInv
<1> SUFFICES ASSUME Init PROVE StoreInv
  OBVIOUS
<1>1. PICK pinned \in SUBSET (1..MaxLen), first \in 1..MaxLen :
          /\ anchors = {TrueAnchor("audit", s) : s \in pinned}
          /\ rows = [s \in first..MaxLen |-> truth["audit"][s]]
  BY DEF Init
<1>2. "audit" \in Domains
  BY DEF Domains
<1>3. DOMAIN rows \subseteq 1..MaxLen
  BY <1>1
<1>4. \A s \in DOMAIN rows : rows[s] \in Rows
  BY <1>1, <1>2, <1>3 DEF Rows
<1>5. \A a \in anchors : \E d \in Domains, s \in 1..MaxLen : a = TrueAnchor(d, s)
  BY <1>1, <1>2
<1>. QED BY <1>3, <1>4, <1>5 DEF StoreInv

\* StoreInv is inductive.
LEMMA NextStore == StoreInv /\ [Next]_vars => StoreInv'
<1> SUFFICES ASSUME StoreInv, [Next]_vars PROVE StoreInv'
  OBVIOUS
<1>1. CASE LoseRows
  <2>1. PICK left \in SUBSET DOMAIN rows : Damage([s \in left |-> rows[s]], anchors)
    BY <1>1 DEF LoseRows
  <2>2. rows' = [s \in left |-> rows[s]] /\ anchors' = anchors
    BY <2>1 DEF Damage
  <2>. QED BY <2>2 DEF StoreInv, TrueAnchor
<1>2. CASE PutRow
  <2>1. PICK s \in 1..MaxLen, row \in Rows \cup Altered :
            Damage([r \in DOMAIN rows \cup {s} |-> IF r = s THEN row ELSE rows[r]], anchors)
    BY <1>2 DEF PutRow
  <2>2. /\ rows' = [r \in DOMAIN rows \cup {s} |-> IF r = s THEN row ELSE rows[r]]
        /\ anchors' = anchors
    BY <2>1 DEF Damage
  <2>. QED BY <2>2 DEF StoreInv
<1>3. CASE LoseAnchor
  BY <1>3 DEF LoseAnchor, Damage, StoreInv
<1>4. CASE PutAnchor
  BY <1>4 DEF PutAnchor, Damage, StoreInv
<1>5. CASE UNCHANGED vars
  BY <1>5 DEF vars, StoreInv
<1>. QED BY <1>1, <1>2, <1>3, <1>4, <1>5 DEF Next

\* verifyEvents (lib/audit.js) accepts exactly the genuine windows of the
\* history: whatever was lost, altered, moved or mixed up in the store, a clean
\* report means that the rows are the true ones without a gap, from the first
\* or from just after an anchored one, up to at least every anchored one; and
\* no such state is rejected.
THEOREM VerificationIsExact == Spec => []VerifyIsExact
<1>1. StoreInv => VerifyIsExact
  BY CleanIsGenuine, GenuineIsClean DEF VerifyIsExact
<1>2. Spec => []StoreInv
  BY InitStore, NextStore, PTL DEF Spec
<1>. QED BY <1>1, <1>2, PTL
==============================================================================
