---------------------------- MODULE CommandProps ----------------------------
(* What lib/commands.js and lib/entitlements.js promise, over Commands. *)
EXTENDS Commands, FiniteSets

\* Whatever is in flight, the queue holds statuses the code knows, and nobody
\* polls, acknowledges or audits a command that was never queued.
TypeOK ==
    /\ DOMAIN commands \subseteq Ids \ unused
    /\ \A id \in DOMAIN commands : /\ commands[id].type \in Types
                                   /\ commands[id].status \in Statuses
    /\ account \in AccountStatuses
    /\ device \in {"active", "wiped", "deprovisioned"}
    /\ permissionChanges \in Seq(AccountStatuses)
    /\ audited \subseteq (DOMAIN commands) \X Statuses
    /\ inbox \subseteq DOMAIN commands
    /\ \A p \in Pollers \cup Ackers :
          /\ op[p].listed \cup op[p].out \subseteq DOMAIN commands
          /\ pc[p] # "poll" /\ pc[p] # "idle" => op[p].id \in DOMAIN commands

\* Polls and acknowledgements race over a command, yet it only moves forward,
\* and its answer is never replaced (pollCommands and ackCommand).
FinalIsFinal ==
    [][\A id \in DOMAIN commands :
          LET old == commands[id].status
              new == commands'[id].status
          IN  /\ old \in Final => new = old
              /\ old = "sent" => new # "pending"]_vars

\* The audit events of a command are its transitions: none that did not
\* happen, none twice, and none missing but those whose handler is about to
\* record it or died before it could ("a replayed ack is a no-op").
AuditMatchesQueue ==
    /\ audited \cup unwritten \cup UNION {InFlight(p) : p \in Procs} = reached
    /\ \A p, q \in Procs : p # q => InFlight(p) \cap InFlight(q) = {}
    /\ \A id \in Ids : Cardinality({s \in Final : <<id, s>> \in reached}) <= 1

\* "Already-'sent' commands are RE-DELIVERED (at-least-once) until acked": a
\* poll replies with every command it found that has not been answered since,
\* whichever of several polls marked it as sent.
NothingSkipped ==
    \A p \in Pollers : \A id \in op[p].listed :
        commands[id].status \notin Final =>
            \/ id \in op[p].out \cup {op[p].id}
            \/ \E w \in op[p].waiting : w[1] = id

\* A command is queued, and so delivered, only after all it does on the
\* server is done ("never waiting for the device to poll"), wherever the
\* request that enqueues it dies.
EffectsComeFirst ==
    \A id \in DOMAIN commands :
        LET type == commands[id].type
        IN  /\ type \in {"deprovision", "disable_account"} => <<id, "status">> \in effects
            /\ type \in {"deprovision", "wipe_claude_creds"} => <<id, "device">> \in effects

\* What a device is told is done on the server already, and it is told all of
\* it, wherever requests and other polls die on the way.
DeliveryIsSound == NothingSkipped /\ EffectsComeFirst

\* The ledger ends with the account's status whenever no change is under way,
\* unless the last changes overlapped or one died after it was recorded.
LedgerEndsRight ==
    Changing = {} /\ ~tangled =>
        account = IF permissionChanges = <<>> THEN "active"
                  ELSE permissionChanges[Len(permissionChanges)]

\* In whatever order requests overlap and die, the account has a status that
\* is in the ledger.
NeverUnrecorded ==
    account = "active" \/ \E i \in DOMAIN permissionChanges : permissionChanges[i] = account

\* "An applied change is never left unrecorded" (lib/entitlements.js): none
\* whatsoever, and of those that keep out of each other's way the last one is
\* the last in the ledger.
LedgerKnowsStatus == NeverUnrecorded /\ LedgerEndsRight
=============================================================================
