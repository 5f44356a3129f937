------------------------------ MODULE Reports ------------------------------
(***************************************************************************)
(* What an administrator is shown: the reports the back end computes       *)
(* (lib/reporting.js, lib/watermark.js) and what the view models make of   *)
(* them (public/adminviews.js).                                            *)
(*                                                                         *)
(* Every report is computed from one state of the store; the code reads    *)
(* its collections one after the other.  Escaping, labels and the text of  *)
(* times and places are left out, ciphers of addresses too.  A row keeps   *)
(* its key, the e-mail address joined to it, and the fields that a window, *)
(* an order, a button of the console or a property reads.                  *)
(***************************************************************************)
EXTENDS Integers, FiniteSets, Sequences, TLC

Seqs == INSTANCE SequencesExt

CONSTANTS
    Null,          \* what is absent
    Window,        \* the longest window of a report, in days: 7
    Day,           \* one day, in units of the clock
    Capacity,      \* M0_BYTES
    TransferLimit  \* exports in the transfer feed: 200

ASSUME ReportsAssumption ==
    /\ Window \in Nat \ {0} /\ Day \in Nat \ {0}
    /\ Capacity \in Nat \ {0} /\ TransferLimit \in Nat

----------------------------------------------------------------------------
(* reporting.js *)

ClampDays(days) ==
    IF days = Null \/ days > Window THEN Window ELSE IF days < 1 THEN 1 ELSE days

Cutoff(now, days) == now - ClampDays(days) * Day

EmailByUserId(db, user) ==
    IF user \in DOMAIN db.users THEN db.users[user].email ELSE Null

\* The rows with the e-mail address of their user joined to them.
WithEmails(db, rows) ==
    [i \in DOMAIN rows |-> [email |-> EmailByUserId(db, rows[i].user)] @@ rows[i]]

ActivityTimeline(db, now, user, days) ==
    LET Within(e) == e.at >= Cutoff(now, days) /\ (user # Null => e.user = user)
    IN  [windowDays |-> ClampDays(days), events |-> WithEmails(db, SelectSeq(db.events, Within))]

DeviceInventory(db) == [devices |-> WithEmails(db, db.devices)]

IsAlert(e) == e.severity \in {"warn", "critical"}

AlertsFeed(db, now, days) ==
    LET Within(e) == e.at >= Cutoff(now, days) /\ IsAlert(e)
    IN  [windowDays |-> ClampDays(days), alerts |-> WithEmails(db, SelectSeq(db.events, Within))]

StoragePercent(db) ==
    LET percent == (db.bytes * 100) \div Capacity   \* the code keeps the fraction
    IN  [estimatedBytes |-> db.bytes, capacityBytes |-> Capacity,
         percent |-> IF percent > 100 THEN 100 ELSE percent]

\* watermark.js: the imports of an export, the oldest first.
ImportsOf(db, mark) ==
    LET OfMark(i) == i.mark = mark
        Before(i, j) == i.at < j.at
    IN  SortSeq(SelectSeq(db.imports, OfMark), Before)

\* The newest exports of the window, at most as many as the limit.
RecentTransfers(db, since) ==
    LET Within(w) == w.at >= since
        Newer(v, w) == v.at > w.at
        sorted == SortSeq(SelectSeq(db.watermarks, Within), Newer)
        kept == SubSeq(sorted, 1, IF Len(sorted) > TransferLimit THEN TransferLimit ELSE Len(sorted))
    IN  [i \in DOMAIN kept |-> [export |-> kept[i], imports |-> ImportsOf(db, kept[i].mark)]]

TransferFlows(db, now, days) ==
    LET recent == RecentTransfers(db, Cutoff(now, days))
    IN  [transfers |->
            [i \in DOMAIN recent |->
                [export |-> [email |-> EmailByUserId(db, recent[i].export.user)] @@ recent[i].export,
                 imports |-> WithEmails(db, recent[i].imports)]]]

\* trace; Null is its 404.
Trace(db, mark) ==
    LET found == {i \in DOMAIN db.watermarks : db.watermarks[i].mark = mark}
    IN  IF found = {} THEN Null
        ELSE [export |-> db.watermarks[CHOOSE i \in found : TRUE], imports |-> ImportsOf(db, mark)]

\* What was never reported is the lightest.
Weight(percent) == IF percent = Null THEN -1 ELSE percent

UsageOverview(db, now, days) ==
    LET Within(u) == u.updatedAt >= Cutoff(now, days)
        Heavier(u, v) == \/ Weight(u.sevenDay) > Weight(v.sevenDay)
                         \/ /\ Weight(u.sevenDay) = Weight(v.sevenDay)
                            /\ Weight(u.fiveHour) > Weight(v.fiveHour)
    IN  [windowDays |-> ClampDays(days),
         rows |-> SortSeq(WithEmails(db, SelectSeq(db.usage, Within)), Heavier)]

\* Mutant: who has an expiry has expired.
ExpiryIsSet(user, now) == user.entitlementExpiresAt # Null

\* Later than the expiry, not at it.
EntitlementExpired(user, now) ==
    user.entitlementExpiresAt # Null /\ user.entitlementExpiresAt < now

StatusIssue ==
    ("suspended" :> {"Suspended"}) @@ ("deprovisioned" :> {"Deprovisioned"})
        @@ ("pending" :> {"Awaiting approval"}) @@ ("rejected" :> {"Rejected"}) @@ ("active" :> {})

Issues(user, openAlerts, now) ==
    StatusIssue[user.status]
        \cup (IF EntitlementExpired(user, now) THEN {"Access expired"} ELSE {})
        \cup (IF user.monitoringEnabled THEN {} ELSE {"Monitoring paused"})
        \cup (IF user.geoFence = {} THEN {} ELSE {"Geo-fenced"})
        \cup (IF user.blockedCountries = {} THEN {} ELSE {"Country-blocked"})
        \cup (IF openAlerts = 0 THEN {} ELSE {"Open alerts"})
        \cup (IF user.noticeAcceptedAt = Null THEN {"Notice not accepted"} ELSE {})

\* One row of the directory.
DirectoryRow(db, id, now) ==
    LET user == db.users[id]
        openAlerts == Cardinality({i \in DOMAIN db.events :
                          /\ IsAlert(db.events[i]) /\ db.events[i].user = id
                          /\ db.events[i].at >= Cutoff(now, Window)})
    IN  [userId |-> id, email |-> user.email, status |-> user.status,
         importEnabled |-> user.importEnabled, exportEnabled |-> user.exportEnabled,
         entitlementExpired |-> EntitlementExpired(user, now),
         geoFenceCountries |-> user.geoFence, blockedCountries |-> user.blockedCountries,
         issues |-> Issues(user, openAlerts, now)]

\* Most issues first, then by e-mail, which here is a number.
UsersDirectory(db, now) ==
    LET Troubled(r, s) == \/ Cardinality(r.issues) > Cardinality(s.issues)
                          \/ /\ Cardinality(r.issues) = Cardinality(s.issues)
                             /\ r.email < s.email
    IN  [users |-> Seqs!SetToSortSeq({DirectoryRow(db, id, now) : id \in DOMAIN db.users}, Troubled)]

----------------------------------------------------------------------------
(* entitlements.js: what the back end holds a user to. *)

GetLiveEntitlements(user, now) ==
    LET expired == user.entitlementExpiresAt # Null /\ user.entitlementExpiresAt <= now
        live == user.status = "active" /\ ~expired
    IN  [status |-> user.status, expired |-> expired,
         importEnabled |-> user.importEnabled /\ live, exportEnabled |-> user.exportEnabled /\ live]

AssertCan(user, action, now) ==
    LET entitled == GetLiveEntitlements(user, now)
    IN  /\ entitled.status = "active"
        /\ IF action = "import" THEN entitled.importEnabled ELSE entitled.exportEnabled

----------------------------------------------------------------------------
(* adminviews.js *)

\* Signed on in the last day, or, by a clock that is ahead, in the next.
SeenToday(device, now) ==
    /\ device.lastSeen # Null
    /\ now - device.lastSeen \in (-Day)..Day

OverviewModel(devices, storage, timeline, now) ==
    [activeUsers |-> Cardinality({timeline.events[i].user : i \in DOMAIN timeline.events} \ {Null}),
     activeDevices |-> Cardinality({i \in DOMAIN devices : SeenToday(devices[i], now)}),
     totalDevices |-> Len(devices), windowDays |-> timeline.windowDays,
     storagePercent |-> storage.percent]

\* A table shows some of the fields of a row.
Columns(rows, fields) == [i \in DOMAIN rows |-> [f \in fields |-> rows[i][f]]]

TimelineRows(events) == Columns(events, {"seq", "email"})
DeviceRows(devices) == Columns(devices, {"device", "email"})
IpGeoRows(devices) == Columns(devices, {"device", "email"})
AlertRows(alerts) == Columns(alerts, {"seq", "email"})
UsageOverviewRows(rows) == Columns(rows, {"user", "email"})

\* An import by somebody else than the exporter.
CrossUser(export, import) ==
    export.user # Null /\ import.user # Null /\ import.user # export.user

TraceModel(trace) ==
    [export |-> trace.export, importCount |-> Len(trace.imports),
     crossUser |-> \E i \in DOMAIN trace.imports : CrossUser(trace.export, trace.imports[i])]

TransferRows(transfers) == [i \in DOMAIN transfers |-> TraceModel(transfers[i])]

UserRows(users) ==
    [i \in DOMAIN users |->
        [user |-> users[i].userId, pendingApproval |-> users[i].status = "pending",
         rejected |-> users[i].status = "rejected"]]

VerifyItem(v) == IF v.ok THEN [ok |-> TRUE, reason |-> "verified"] ELSE [ok |-> FALSE, reason |-> v.reason]

VerifyModel(audit, permissions) == [audit |-> VerifyItem(audit), permissions |-> VerifyItem(permissions)]

Word(allowed) == IF allowed THEN "Allowed" ELSE "Blocked"

\* The net policy of one row of the directory.
EffectivePolicyModel(u) ==
    LET canSignIn == u.status = "active" /\ ~u.entitlementExpired
    IN  [signIn |-> Word(canSignIn), import |-> Word(u.importEnabled), export |-> Word(u.exportEnabled),
         location |-> IF u.blockedCountries = {} /\ u.geoFenceCountries = {} THEN "Anywhere"
                      ELSE "Restricted"]
=============================================================================
