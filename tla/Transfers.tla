----------------------------- MODULE Transfers -----------------------------
(***************************************************************************)
(* Authorizing exports and imports (lib/transfer.js) with the watermarks   *)
(* that tie one to the other (lib/watermark.js).  One user, Owner,         *)
(* exports; any user imports.  One awaited repository call is one step.    *)
(*                                                                         *)
(* A client that gets no answer asks again with the same idempotency key,  *)
(* and a key is used for one request only.  recordEvent is what module     *)
(* Ledger promises of it: a keyed event is recorded once.                  *)
(***************************************************************************)
EXTENDS Integers, Sequences, FiniteSets

CONSTANTS
    Exporters,     \* export requests in flight, all of Owner
    Importers,     \* import requests in flight
    Users,
    Owner,
    Keys,          \* idempotency keys of exports
    MaxPerDay,     \* exportQuota.maxPerDay, 0 for no cap
    Day,           \* DAY_MS
    Earlier,       \* the watermarks in the database from before
    Loads,         \* bound: the sets of handlers that are busy together
    MaxMarks,      \* bound on the watermarks
    MaxEvents,     \* bound on the events, with which requests stop
    MaxTime        \* bound on the clock

ASSUME TransfersAssumption ==
    /\ Exporters \cap Importers = {}
    /\ Owner \in Users
    /\ Loads \subseteq SUBSET (Exporters \cup Importers)
    /\ Earlier \in Nat
    /\ MaxPerDay \in Nat /\ Day \in Nat \ {0}
    /\ MaxMarks \in Nat /\ MaxEvents \in Nat /\ MaxTime \in Nat

VARIABLES
    quota,         \* users.exportQuota: [used, windowStart]
    marks,         \* the watermarks: the key each was minted for
    imports,       \* watermark_imports, by dedupe key: <<mark, user>>
    events,        \* the audit events of what was authorized, and alarms
    now,
    pc, op,        \* each handler's next call and locals
    load,          \* bound: the handlers requests come to
    replies,       \* history: <<key, mark>> of the exports authorized
    charges,       \* history: the quota charges of each key, in Keys
    inWindow,      \* history: the charges of each window, by its start
    lost,          \* history: how often a key's handler died after a charge
    overlapped,    \* history: the keys that were in flight twice at once
    raced,         \* history: two handlers were charging at once
    muffled        \* history: <<mark, user>> whose alarm failed to be recorded

ownerSide == <<quota, marks, replies, charges, inWindow, overlapped, raced>>
importSide == <<imports, muffled>>
vars == <<events, ownerSide, importSide, now, pc, op, load, lost>>

Procs == Exporters \cup Importers

\* A key is a tuple; export keys and import keys never coincide.
NoKey == <<>>
ExportKey(k) == <<"export", k>>
ImportKey(u, mark) == <<"import", u, mark>>
CrossUser(u, mark) == <<"cross user", u, mark>>

NoMark == 0
Forged == -1       \* an id the server never minted

Idle == [action |-> "none", user |-> Owner, key |-> NoKey, mark |-> NoMark,
         patch |-> [used |-> 0, windowStart |-> 0],
         charged |-> FALSE]       \* history: QuotaWrite was reached

Init ==
    /\ quota = [used |-> 0, windowStart |-> 0]
    /\ marks = [m \in 1..Earlier |-> NoKey] /\ imports = {} /\ events = {}
    /\ now = 0
    /\ load \in Loads
    /\ pc = [h \in Procs |-> "idle"]
    /\ op = [h \in Procs |-> Idle]
    /\ replies = {} /\ inWindow = [t \in 0..MaxTime |-> 0] /\ raced = FALSE
    /\ charges = [k \in Keys |-> 0]
    /\ lost = [k \in Keys |-> 0]
    /\ overlapped = {} /\ muffled = {}

Goto(h, step, locals) ==
    /\ pc' = [pc EXCEPT ![h] = step]
    /\ op' = [op EXCEPT ![h] = locals]

Step(h, step) == Goto(h, step, op[h])
Return(h) == Goto(h, "idle", Idle)

\* recordEvent: a keyed event is recorded once, an event without key always.
Recorded(key) == \E e \in events : e.key = key
Record(e) ==
    IF e.key # NoKey /\ Recorded(e.key) THEN UNCHANGED events
    ELSE events' = events \cup {e}

EventOf(h, type) ==
    [type |-> type, key |-> op[h].key, user |-> op[h].user, mark |-> op[h].mark]

----------------------------------------------------------------------------
(* What authorizeExport and authorizeImport begin with, alike in both. *)

Room(h) == h \in load /\ Cardinality(events) < MaxEvents
InFlight(key) == {h \in Procs : pc[h] # "idle" /\ op[h].key = key}

BeginExport(h) ==
    /\ pc[h] = "idle" /\ Room(h)
    /\ \E key \in {NoKey} \cup {ExportKey(k) : k \in Keys} :
          /\ Goto(h, IF key = NoKey THEN "check" ELSE "lookup",
                  [Idle EXCEPT !.action = "export", !.key = key])
          /\ overlapped' = IF key # NoKey /\ InFlight(key) # {}
                           THEN overlapped \cup {key} ELSE overlapped
    /\ UNCHANGED <<events, importSide, now, load, lost,
                   quota, marks, replies, charges, inWindow, raced>>

BeginImport(h) ==
    /\ pc[h] = "idle" /\ Room(h)
    /\ \E u \in Users, mark \in {NoMark, Forged} \cup DOMAIN marks :
          \E key \in {NoKey, ImportKey(u, mark)} :
              Goto(h, IF key = NoKey THEN "check" ELSE "lookup",
                   [Idle EXCEPT !.action = "import", !.user = u, !.key = key,
                                !.mark = mark])
    /\ UNCHANGED <<events, ownerSide, importSide, now, load, lost>>

Answer(h, mark) ==
    /\ Return(h)
    /\ replies' = IF op[h].action = "export" /\ op[h].key # NoKey
                  THEN replies \cup {<<op[h].key, mark>>} ELSE replies

\* Mutant: a retry is left to the ledger to recognise.
LookupNothing(h) ==
    /\ pc[h] = "lookup"
    /\ Step(h, "check")
    /\ UNCHANGED <<events, ownerSide, importSide, now, load, lost>>

\* findByIdempotencyKey: a retry of what was authorized is answered as then.
Lookup(h) ==
    /\ pc[h] = "lookup"
    /\ IF Recorded(op[h].key)
       THEN \E e \in events : e.key = op[h].key /\ Answer(h, e.mark)
       ELSE Step(h, "check") /\ UNCHANGED replies
    /\ UNCHANGED <<events, importSide, now, load, lost,
                   quota, marks, charges, inWindow, overlapped, raced>>

\* assertCan reads the flags live, and an admin may have changed them at any
\* time: the user is entitled,
Check(h) ==
    /\ pc[h] = "check"
    /\ Step(h, CASE op[h].action = "export" -> "quota"
                 [] op[h].action = "import" /\ op[h].mark = NoMark -> "auditImport"
                 [] op[h].action = "import" /\ op[h].mark # NoMark -> "findImport")
    /\ UNCHANGED <<events, ownerSide, importSide, now, load, lost>>

\* or is not: the refusal is recorded under a key of its own, which no retry
\* looks for, and the next attempt is decided afresh.
Refuse(h) ==
    /\ pc[h] = "check"
    /\ Return(h)
    /\ UNCHANGED <<events, ownerSide, importSide, now, load, lost>>

----------------------------------------------------------------------------
(* enforceExportQuota, mint and the export event. *)

NewDay == now - quota.windowStart >= Day

\* Mutant: the day rolls over, the window does not.
PatchSameWindow ==
    [used |-> (IF NewDay THEN 0 ELSE quota.used) + 1,
     windowStart |-> quota.windowStart]

\* The quota as it will be written, from the quota as it was read.
Patch ==
    [used |-> (IF NewDay THEN 0 ELSE quota.used) + 1,
     windowStart |-> IF NewDay THEN now ELSE quota.windowStart]

\* findById: no cap, or at it (429), or one more.
QuotaRead(h) ==
    /\ pc[h] = "quota"
    /\ CASE MaxPerDay = 0 -> Step(h, "mint")
         [] MaxPerDay # 0 /\ Patch.used > MaxPerDay -> Return(h)
         [] OTHER -> Goto(h, "charge", [op[h] EXCEPT !.patch = Patch])
    /\ UNCHANGED <<events, ownerSide, importSide, now, load, lost>>

Counted(key) ==
    [k \in Keys |-> IF key = ExportKey(k) THEN charges[k] + 1 ELSE charges[k]]

\* updateById: whatever the quota is by now, this replaces it.
QuotaWrite(h) ==
    /\ pc[h] = "charge"
    /\ quota' = op[h].patch
    /\ inWindow' = [inWindow EXCEPT ![op[h].patch.windowStart] = @ + 1]
    /\ raced' = (raced \/ \E g \in Procs \ {h} : pc[g] = "charge")
    /\ charges' = Counted(op[h].key)
    /\ Goto(h, "mint", [op[h] EXCEPT !.charged = TRUE])
    /\ UNCHANGED <<events, importSide, now, load, lost, marks, replies, overlapped>>

\* Mutant: no look for a watermark minted earlier.
MintAlways(h) ==
    /\ pc[h] = "mint"
    /\ Step(h, "mintInsert")
    /\ UNCHANGED <<events, ownerSide, importSide, now, load, lost>>

\* findOne by mintKey: a retry takes up the watermark minted before.
MintFind(h) ==
    /\ pc[h] = "mint"
    /\ IF op[h].key # NoKey /\ \E m \in DOMAIN marks : marks[m] = op[h].key
       THEN \E m \in DOMAIN marks :
               /\ marks[m] = op[h].key
               /\ Goto(h, "auditExport", [op[h] EXCEPT !.mark = m])
       ELSE Step(h, "mintInsert")
    /\ UNCHANGED <<events, ownerSide, importSide, now, load, lost>>

MintInsert(h) ==
    /\ pc[h] = "mintInsert"
    /\ Len(marks) < MaxMarks
    /\ marks' = Append(marks, op[h].key)
    /\ Goto(h, "auditExport", [op[h] EXCEPT !.mark = Len(marks) + 1])
    /\ UNCHANGED <<events, importSide, now, load, lost,
                   quota, replies, charges, inWindow, overlapped, raced>>

\* Mutant: the event goes without the key.
AuditExportUnkeyed(h) ==
    /\ pc[h] = "auditExport"
    /\ Record([EventOf(h, "export") EXCEPT !.key = NoKey])
    /\ Answer(h, op[h].mark)
    /\ UNCHANGED <<importSide, now, load, lost,
                   quota, marks, charges, inWindow, overlapped, raced>>

\* The answer is the watermark of this call, recorded by it or not.
AuditExport(h) ==
    /\ pc[h] = "auditExport"
    /\ Record(EventOf(h, "export"))
    /\ Answer(h, op[h].mark)
    /\ UNCHANGED <<importSide, now, load, lost,
                   quota, marks, charges, inWindow, overlapped, raced>>

----------------------------------------------------------------------------
(* recordImport and the import event. *)

Row(h) == <<op[h].mark, op[h].user>>

\* Mutant: an import recorded before needs no second look.
FindImportDone(h) ==
    /\ pc[h] = "findImport"
    /\ Step(h, IF Row(h) \in imports THEN "auditImport" ELSE "insertImport")
    /\ UNCHANGED <<events, ownerSide, importSide, now, load, lost>>

FindImport(h) ==
    /\ pc[h] = "findImport"
    /\ Step(h, IF Row(h) \in imports THEN "findMark" ELSE "insertImport")
    /\ UNCHANGED <<events, ownerSide, importSide, now, load, lost>>

\* The unique index turns away the second; it finds the winner's row then.
InsertImport(h) ==
    /\ pc[h] = "insertImport"
    /\ imports' = imports \cup {Row(h)}
    /\ Step(h, IF Row(h) \in imports THEN "findImport" ELSE "findMark")
    /\ UNCHANGED <<events, ownerSide, muffled, now, load, lost>>

CrossUserImport(h) == op[h].mark \in DOMAIN marks /\ op[h].user # Owner

\* findById of the watermark: unknown, or the exporter's own, is no alarm.
FindMark(h) ==
    /\ pc[h] = "findMark"
    /\ Step(h, IF CrossUserImport(h) THEN "importAlarm" ELSE "auditImport")
    /\ UNCHANGED <<events, ownerSide, importSide, now, load, lost>>

ImportAlarm(h) ==
    /\ pc[h] = "importAlarm"
    /\ Record([EventOf(h, "anomaly") EXCEPT !.key = CrossUser(op[h].user, op[h].mark)])
    /\ Step(h, "auditImport")
    /\ UNCHANGED <<ownerSide, importSide, now, load, lost>>

\* emit swallows a failing ledger; the import goes on.
ImportAlarmFails(h) ==
    /\ pc[h] = "importAlarm"
    /\ muffled' = muffled \cup {Row(h)}
    /\ Step(h, "auditImport")
    /\ UNCHANGED <<events, ownerSide, imports, now, load, lost>>

AuditImport(h) ==
    /\ pc[h] = "auditImport"
    /\ Record(EventOf(h, "import"))
    /\ Return(h)
    /\ UNCHANGED <<ownerSide, importSide, now, load, lost>>

----------------------------------------------------------------------------
\* A repository call rejects, or the process dies: the handler is gone.
Die(h) ==
    /\ pc[h] # "idle"
    /\ lost' = [k \in Keys |-> IF op[h].charged /\ op[h].key = ExportKey(k)
                               THEN lost[k] + 1 ELSE lost[k]]
    /\ Return(h)
    /\ UNCHANGED <<events, ownerSide, importSide, now, load>>

Tick ==
    /\ now < MaxTime
    /\ now' = now + 1
    /\ UNCHANGED <<events, ownerSide, importSide, pc, op, load, lost>>

Next ==
    \/ \E h \in Exporters :
          \/ BeginExport(h) \/ QuotaRead(h) \/ QuotaWrite(h) \/ MintFind(h)
          \/ MintInsert(h) \/ AuditExport(h)
    \/ \E h \in Importers :
          \/ BeginImport(h) \/ FindImport(h) \/ InsertImport(h) \/ FindMark(h)
          \/ ImportAlarm(h) \/ ImportAlarmFails(h) \/ AuditImport(h)
    \/ \E h \in Procs :
          \/ Lookup(h) \/ Check(h) \/ Refuse(h) \/ Die(h)
    \/ Tick

Spec == Init /\ [][Next]_vars
============================================================================
