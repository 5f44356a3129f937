------------------------------ MODULE Devices ------------------------------
(***************************************************************************)
(* What the clients report: presence and heartbeats (lib/presence.js), the *)
(* credential copy of a device (lib/devicecreds.js), and usage             *)
(* (lib/usagestore.js).                                                    *)
(*                                                                         *)
(* Places are points on a line, so that a distance is a difference; a fix  *)
(* is a place with its network and country and the time it was taken.      *)
(* Time is counted in hours for usage and in whatever the travel           *)
(* constants are for fixes: one unit of `now` serves both.                 *)
(***************************************************************************)
EXTENDS Accounts

CONSTANTS
    TravelWindow, MinTravel,  \* impossibleTravelWindowMs, minTravelMinutes
    MinKm, MaxKmh,            \* minTravelKm, impossibleTravelKmh
    DeadMan, Day,             \* deadManDays, the bucket of an alarm's key
    MaxAccounts,              \* MAX_ACCOUNTS, of one batch
    SeriesCap, BucketOf,      \* SERIES_CAP, and a time's bucket, a function
    UsageTtl                  \* expireAfterSeconds of usage_snapshots

NoFix == [place |-> 0, asn |-> 0, country |-> NoCountry, at |-> -1]
NoDevice == [user |-> Nobody, lastFix |-> NoFix, lastSeen |-> -1, cred |-> Nobody]

IsFix(fix) == "at" \in DOMAIN fix /\ fix.at \in Int

\* A row of a device is one its user wrote, with no credentials but his.
IsDevice(row) ==
    /\ DOMAIN row = DOMAIN NoDevice
    /\ IsFix(row.lastFix)
    /\ row.cred \in {Nobody, row.user}

\* The devices a behaviour starts with, and the fixes it will hear of.
ASSUME ReportsAssumption ==
    \A l \in DOMAIN Loads :
        /\ \A d \in DOMAIN Loads[l].store.devices : IsDevice(Loads[l].store.devices[d])
        /\ \A r \in Loads[l].arrivals : r.route \in {"heartbeat", "presence"} =>
              "fix" \in DOMAIN r.body /\ IsFix(r.body.fix)

----------------------------------------------------------------------------
(* Fixes. *)

\* fixFrom, and the same in recordPresence: no coordinates, no fix.  An ASN
\* of 0 is unknown.
FixFrom(geo, time) == IF geo = NoFix THEN NoFix ELSE [geo EXCEPT !.at = time]

Distance(a, b) == IF a < b THEN b - a ELSE a - b

\* Mutant: the end of the window is left out.
TimelyBefore(elapsed) == elapsed > 0 /\ elapsed >= MinTravel /\ elapsed < TravelWindow

Timely(elapsed) == elapsed > 0 /\ elapsed >= MinTravel /\ elapsed <= TravelWindow

AssessTravel(prev, cur) ==
    LET elapsed == cur.at - prev.at
        km == Distance(prev.place, cur.place)
    IN  /\ prev # NoFix /\ cur # NoFix
        /\ Timely(elapsed)
        /\ ~(prev.asn # 0 /\ prev.asn = cur.asn)
        /\ prev.country # NoCountry /\ cur.country # NoCountry
        /\ prev.country # cur.country
        /\ km >= MinKm
        /\ km > MaxKmh * elapsed

----------------------------------------------------------------------------
(* Presence and heartbeats: op[p].body is [fix, claims], claims telling    *)
(* whether the addresses a heartbeat reports include the one observed.     *)

\* recordPresence, which a sign-in calls; a heartbeat comes through the gate.
Presence(p) ==
    \E r \in load.arrivals :
        /\ r.route = "presence"
        /\ Begin(p, "findDevice",
                 [route |-> "presence", token |-> r.token, user |-> r.token.user, at |-> now,
                  found |-> Nothing, body |-> r.body, unheard |-> FALSE])

Device(d) == IF d \in DOMAIN db.devices THEN db.devices[d] ELSE NoDevice

\* The alarms of one report, in their order, and the upsert at the end.
FindDevice(p) ==
    /\ pc[p] = "findDevice"
    /\ op[p].token.device # Nobody
    /\ LET found == Device(op[p].token.device)
           known == [op[p] EXCEPT !.found = found, !.body.fix = FixFrom(@, op[p].at)]
       IN  IF found # NoDevice /\ found.user # op[p].user THEN Read(p, "ownershipConflict", known)
           ELSE IF ~op[p].body.claims THEN Read(p, "ipMismatch", known)
           ELSE Read(p, IF found = NoDevice THEN "findPriorDevices" ELSE "assessTravel", known)

\* A token without a device: presence returns, a heartbeat is refused.
WithoutDevice(p) ==
    /\ pc[p] \in {"findDevice", "findOwner"}
    /\ op[p].token.device = Nobody
    /\ Answer(p)

\* Refused; a heartbeat then polls and is refused again.
OwnershipConflict(p) ==
    /\ pc[p] = "ownershipConflict"
    /\ Return(p)
    /\ Emit(<<"device_ownership_conflict", op[p].token.device, op[p].user>>)

IpMismatch(p) ==
    /\ pc[p] = "ipMismatch"
    /\ Goto(p, IF op[p].found = NoDevice THEN "findPriorDevices" ELSE "assessTravel", op[p])
    /\ Emit(<<"ip_mismatch", op[p].token.device, op[p].at>>)

\* The first device of a user is no news.
FindPriorDevices(p) ==
    /\ pc[p] = "findPriorDevices"
    /\ Read(p, IF \E d \in DOMAIN db.devices : db.devices[d].user = op[p].user
               THEN "newDevice" ELSE "upsertDevice", op[p])

NewDevice(p) ==
    /\ pc[p] = "newDevice"
    /\ Goto(p, "upsertDevice", op[p])
    /\ Emit(<<"new_device", op[p].token.device, op[p].user>>)

TravelAlarm(user, time) == <<"impossible_travel", user, time \div Day>>

\* The new fix is stored whether the alarm was raised or lost.
Travelled(p) ==
    /\ pc[p] = "assessTravel"
    /\ IF AssessTravel(op[p].found.lastFix, op[p].body.fix)
       THEN \/ /\ Goto(p, "upsertDevice", op[p])
               /\ Write(Raise(TravelAlarm(op[p].user, op[p].at)), hist)
            \/ /\ Goto(p, "upsertDevice", [op[p] EXCEPT !.unheard = TRUE])
               /\ LoseAlarm
       ELSE /\ Goto(p, "upsertDevice", op[p])
            /\ Write(db, hist)

\* Mutant: an insert that finds the row there replaces it.
ReplacesRow(p) == FALSE

\* An insert of what is there by now is rejected.
RowTaken(p) == op[p].found = NoDevice /\ op[p].token.device \in DOMAIN db.devices

\* An update of the row that was found, an insert of one that was not.
UpsertDevice(p) ==
    /\ pc[p] = "upsertDevice"
    /\ LET d == op[p].token.device
           was == Device(d)
       IN  IF RowTaken(p) THEN Answer(p)
           ELSE /\ Return(p)
                /\ Write([db EXCEPT !.devices = Put(@, d,
                              [was EXCEPT !.user = op[p].user, !.lastSeen = op[p].at,
                                          !.lastFix = op[p].body.fix])], hist)

----------------------------------------------------------------------------
(* deadManScan. *)

Silent(d) ==
    /\ db.devices[d].lastSeen >= 0
    /\ db.devices[d].lastSeen < now - DeadMan

DeadManScan(p) ==
    \E r \in load.arrivals :
        /\ r.route = "deadManScan"
        /\ Begin(p, "scanDevices", [route |-> "deadManScan", user |-> Nobody, silent |-> {}])

\* One find, and then an alarm each from what it found.
ScanDevices(p) ==
    /\ pc[p] = "scanDevices"
    /\ LET silent == {<<"dead_man", d, db.devices[d].lastSeen \div Day>> :
                         d \in {d \in DOMAIN db.devices : Silent(d)}}
       IN  IF silent = {} THEN Answer(p)
           ELSE Read(p, "raiseSilent", [op[p] EXCEPT !.silent = silent])

RaiseSilent(p) ==
    /\ pc[p] = "raiseSilent"
    /\ \E alarm \in op[p].silent :
          /\ Emit(alarm)
          /\ IF op[p].silent = {alarm} THEN Return(p)
             ELSE Goto(p, "raiseSilent", [op[p] EXCEPT !.silent = @ \ {alarm}])

----------------------------------------------------------------------------
(* The credential copy; its cipher is bound to the device by its AAD, so   *)
(* that a copy is one for a device, by a user.                             *)

FindOwner(p) ==
    /\ pc[p] = "findOwner"
    /\ op[p].token.device # Nobody
    /\ LET found == Device(op[p].token.device)
       IN  IF found # NoDevice /\ found.user # op[p].user THEN Answer(p)
           ELSE Read(p, "storeCred", [op[p] EXCEPT !.found = found])

StoreCred(p) ==
    /\ pc[p] = "storeCred"
    /\ LET d == op[p].token.device
       IN  IF RowTaken(p) THEN Answer(p)
           ELSE IF op[p].found # NoDevice
           THEN /\ Return(p)
                /\ Write([db EXCEPT !.devices[d].cred = op[p].user], hist)
           ELSE /\ Return(p)
                /\ Write([db EXCEPT !.devices = Put(@, d,
                              [NoDevice EXCEPT !.user = op[p].user, !.lastSeen = op[p].at,
                                               !.cred = op[p].user])], hist)

ReadCred(p) == pc[p] = "readCred" /\ Answer(p)

----------------------------------------------------------------------------
(* Usage: op[p].body.accounts is the batch, each [account, value], without *)
(* the malformed entries, which are skipped.                               *)

\* A series keeps at least one point, time runs to a bound, and later times
\* are in later buckets or the same; the first report of a behaviour is the
\* first there is.
ASSUME UsageAssumption ==
    /\ SeriesCap \in Nat \ {0} /\ MaxAccounts \in Nat \ {0}
    /\ \A l \in DOMAIN Loads :
          /\ Loads[l].time \in Nat /\ DOMAIN Loads[l].store.usage = {}
          /\ 0..Loads[l].time \subseteq DOMAIN BucketOf
          /\ \A s, t \in 0..Loads[l].time : s <= t => BucketOf[s] <= BucketOf[t]
    /\ \A t \in DOMAIN BucketOf : BucketOf[t] \in Int

NotANumber == -1000

\* A value that is no number is stored as null, any other within bounds.
ClampPct(v) ==
    IF v = NotANumber THEN NotANumber ELSE IF v < 0 THEN 0 ELSE IF v > 100 THEN 100 ELSE v

Newest(cap, series) ==
    IF Len(series) > cap THEN SubSeq(series, Len(series) - cap + 1, Len(series)) ELSE series

\* Mutant: the bucket is that of the first point.
InFirstBucket(series, point) == series # <<>> /\ BucketOf[series[1].t] = BucketOf[point.t]

InLastBucket(series, point) ==
    series # <<>> /\ BucketOf[series[Len(series)].t] = BucketOf[point.t]

MergeSeries(series, point) ==
    Newest(SeriesCap, IF InLastBucket(series, point)
                      THEN [series EXCEPT ![Len(series)] = point]
                      ELSE Append(series, point))

UsageId(p) == <<op[p].user, Head(op[p].body.accounts).account>>

\* What a batch holds beyond its first accounts is not read.
Capped(accounts) ==
    IF Len(accounts) > MaxAccounts THEN SubSeq(accounts, 1, MaxAccounts) ELSE accounts

FindUsage(p) ==
    /\ pc[p] = "findUsage"
    /\ op[p].body.accounts # <<>>
    /\ Read(p, "writeUsage",
            [op[p] EXCEPT !.found = [series |-> IF UsageId(p) \in DOMAIN db.usage
                                                THEN db.usage[UsageId(p)] ELSE <<>>],
                          !.body.accounts = Capped(@)])

NothingReported(p) == pc[p] = "findUsage" /\ op[p].body.accounts = <<>> /\ Answer(p)

\* The series was written since it was read, or by a batch that started later.
Overtaken(p) ==
    /\ UsageId(p) \in DOMAIN db.usage
    /\ LET series == db.usage[UsageId(p)]
       IN  series # op[p].found.series \/ series[Len(series)].t > op[p].at

\* Every point of a batch has the time the batch started at.  An insert of a
\* row that is there by now is rejected; an update of one that has expired by
\* now changes nothing, and the batch goes on.
WriteUsage(p) ==
    /\ pc[p] = "writeUsage"
    /\ LET id == UsageId(p)
           series == op[p].found.series
           report == Head(op[p].body.accounts)
           point == [t |-> op[p].at, v |-> ClampPct(report.value)]
           rest == Tail(op[p].body.accounts)
           noted == IF id \in DOMAIN hist.reports THEN hist.reports[id] ELSE <<>>
       IN  IF series = <<>> /\ id \in DOMAIN db.usage THEN Answer(p)
           ELSE /\ IF series # <<>> /\ id \notin DOMAIN db.usage THEN Write(db, hist)
                   ELSE Write([db EXCEPT !.usage = Put(@, id, MergeSeries(series, point))],
                              [hist EXCEPT !.reports = Put(@, id,
                                               Append(noted, [t |-> point.t, v |-> report.value])),
                                           !.mixed = IF Overtaken(p) THEN @ \cup {id} ELSE @])
                /\ IF rest = <<>> THEN Return(p)
                   ELSE Goto(p, "findUsage", [op[p] EXCEPT !.body.accounts = rest, !.found = Nothing])

\* The TTL index, made after that of the codes, deletes a row that was not
\* updated for so long; what comes afterwards starts anew.
ExpireUsage ==
    /\ "expiry" \in db.indexes
    /\ \E id \in DOMAIN db.usage :
          LET series == db.usage[id]
          IN  /\ series[Len(series)].t + UsageTtl <= now
              /\ db' = [db EXCEPT !.usage = [i \in DOMAIN @ \ {id} |-> @[i]]]
              /\ hist' = [hist EXCEPT !.reports = [i \in DOMAIN @ \ {id} |-> @[i]],
                                      !.mixed = @ \ {id}]
    /\ UNCHANGED <<served, process, now, begun, pc, op>>

\* myUsage, the caller's own rows.
ReadUsage(p) == pc[p] = "readUsage" /\ Answer(p)

DeviceStep(p) ==
    \/ Presence(p) \/ FindDevice(p) \/ WithoutDevice(p) \/ OwnershipConflict(p)
    \/ IpMismatch(p) \/ FindPriorDevices(p) \/ NewDevice(p) \/ Travelled(p) \/ UpsertDevice(p)
    \/ DeadManScan(p) \/ ScanDevices(p) \/ RaiseSilent(p)
    \/ FindOwner(p) \/ StoreCred(p) \/ ReadCred(p)
    \/ FindUsage(p) \/ NothingReported(p) \/ WriteUsage(p) \/ ReadUsage(p)
=============================================================================
