--------------------------- MODULE TransferProps ---------------------------
(* What lib/transfer.js and lib/watermark.js promise, over Transfers. *)
EXTENDS Transfers

EventTypes == {"export", "import", "anomaly"}

\* The audit events name watermarks the server minted, or what an importer
\* claimed; nobody answers an export with a watermark that does not exist.
TypeOK ==
    /\ quota.used \in 0..MaxPerDay /\ quota.windowStart \in 0..now
    /\ imports \subseteq ({Forged} \cup DOMAIN marks) \X Users
    /\ \A e \in events :
          /\ e.type \in EventTypes
          /\ e.user \in Users
          /\ e.mark \in {NoMark, Forged} \cup DOMAIN marks
          /\ e.type = "export" => e.mark \in DOMAIN marks
    /\ \A r \in replies : r[2] \in DOMAIN marks

\* The keys no two requests used at the same time.
Orderly == {k \in Keys : ExportKey(k) \notin overlapped}
MarksOf(key) == {m \in DOMAIN marks : marks[m] = key}
AnswersTo(key) == {r[2] : r \in {s \in replies : s[1] = key}}

\* "A retried authorize returns the original decision WITHOUT ... minting a
\* second watermark": whatever call it died in before, as long as the client
\* does not ask again while a request is still running.
RetriesAgree ==
    \A k \in Orderly : /\ Cardinality(MarksOf(ExportKey(k))) <= 1
                       /\ AnswersTo(ExportKey(k)) \subseteq MarksOf(ExportKey(k))

\* Even when retries overlap, every answer is a watermark minted for that very
\* key, and an export was recorded under the key before the first answer.
AnswersAreRecorded ==
    \A r \in replies :
        /\ marks[r[2]] = r[1]
        /\ \E e \in events : e.type = "export" /\ e.key = r[1] /\ marks[e.mark] = r[1]

\* "WITHOUT re-charging quota", weakened to what the code does: a retry is
\* charged again only when its predecessor died after it was charged.
ChargedOncePerLoss == \A k \in Orderly : charges[k] <= 1 + lost[k]

\* The quota counts nothing that was not charged in its window, however
\* requests overlap, die and roll the window over, so that nobody is refused
\* below the cap; and it counts every charge unless two requests were charging
\* at the same time, so that no more than maxPerDay exports are charged in one
\* window.  (enforceExportQuota writes back what it read: of two charges that
\* overlap one may be lost.)
QuotaCountsCharges ==
    LET charged == inWindow[quota.windowStart]
    IN  /\ quota.used <= charged
        /\ ~raced => /\ quota.used = charged
                     /\ MaxPerDay # 0 => charged <= MaxPerDay

\* An import that was recorded, whatever its first attempts died in, has its
\* row in the tracer, and an alarm if it crossed from one user to another,
\* unless the ledger failed just then.
ImportsAreTraced ==
    \A e \in events :
        e.type = "import" /\ e.mark # NoMark =>
            /\ <<e.mark, e.user>> \in imports
            /\ e.mark \in DOMAIN marks /\ e.user # Owner =>
                  Recorded(CrossUser(e.user, e.mark)) \/ <<e.mark, e.user>> \in muffled
============================================================================
