---------------------------- MODULE ServiceProofs ----------------------------
(***************************************************************************)
(* Proofs about the request handlers, for any number of them in flight,    *)
(* any loads, and any values of the bounds of config.                      *)
(*                                                                         *)
(* One inductive invariant in three parts: what the collections hold       *)
(* (StoreInv), that no handler runs before the addresses are indexed or a  *)
(* start-up failed (StartInv), and what a handler holds at each of its     *)
(* calls (HandlersInv), which is where a check made at one call is carried *)
(* to the write it is for.                                                 *)
(***************************************************************************)
EXTENDS ServiceProps, FiniteSetTheorems, SequenceTheorems, TLAPS

\* Routes and calls that belong together.
Reports == {"heartbeat", "presence"}
Granting == {"targetForGrant", "recordGrant", "applyGrant"}
Incoming == {"globalRules", "findUser", "userRules"}
Unprepared == {"findPriorDevices", "newDevice"}
Reporting == Unprepared \cup {"ipMismatch", "assessTravel", "upsertDevice"}
Creating == {"resolveMx", "resolveHost", "findEmail", "insertUser"}
Viewing == {"findUser", "userRules", "requireAdmin", "listRules"}

\* What came through the gate, or is a report of a sign-in.
IsRequest(o) == o.route \in DOMAIN ROUTES \cup {"presence"}

\* The locals an update of op keeps.
HasFields(o) ==
    /\ "route" \in DOMAIN o
    /\ IsRequest(o) => {"token", "user", "found", "at", "body", "unheard"} \subseteq DOMAIN o

\* The request shows a view-only token.
ViewOnly(o) ==
    o.route \in DOMAIN ROUTES /\ ROUTES[o.route].auth /\ o.token.scope = "view"

\* Past the check of its scope, such a request is a read.
ViewOk(step, o) ==
    ViewOnly(o) /\ step \notin {"idle", "globalRules", "deny"} =>
        o.route = "listIpRules" /\ step \in Viewing

\* Some calls are made for some routes only.
RouteOk(step, o) ==
    /\ step \in Incoming => o.route \in DOMAIN ROUTES
    /\ step = "requireAdmin" => o.route \in DOMAIN AfterAdmin
    /\ step \in Creating => o.route \in {"signup", "createUser", "createAdmin"}

\* The device reported on is one of the user who reports.
Owned(o) ==
    /\ o.token.device \in DOMAIN db.devices
    /\ db.devices[o.token.device].user = o.user

\* What a report found and decided still holds when it is used.
ReportOk(step, o) ==
    /\ step \in Incoming \cup {"findDevice"} /\ o.route \in Reports =>
          "fix" \in DOMAIN o.body /\ IsFix(o.body.fix)
    /\ step \in Reporting \cup {"findDevice"} => o.route \in Reports /\ o.at \in Int
    /\ step \in {"findOwner", "storeCred"} => o.route = "putCred"
    /\ step \in Reporting =>
          /\ IsFix(o.found.lastFix)
          /\ IsFix(o.body.fix) /\ (o.body.fix = NoFix \/ o.body.fix.at = o.at)
    /\ step \in Unprepared => o.found = NoDevice
    /\ step \in Reporting \cup {"storeCred"} => o.found = NoDevice \/ Owned(o)
    /\ step = "upsertDevice" /\ o.found # NoDevice
          /\ AssessTravel(o.found.lastFix, o.body.fix) =>
              TravelAlarm(o.user, o.at) \in db.alarms \/ o.unheard

\* What holds of a handler with locals o about to make the call "step".
LocalOk(step, o) ==
    /\ step # "idle" => HasFields(o)
    /\ ViewOk(step, o)
    /\ RouteOk(step, o)
    /\ step \in Granting => MayChange(Head(o.body.grants))
    /\ ReportOk(step, o)

\* What the collections hold.
StoreInv ==
    /\ DOMAIN db = Collections
    /\ \A u \in DOMAIN db.users : "email" \in DOMAIN db.users[u]
    /\ \A d \in DOMAIN db.devices : IsDevice(db.devices[d])
    /\ served \in DOMAIN Loads
    /\ now \in Int
    /\ "bootFailed" \in DOMAIN hist
    /\ AccountsAreUnique

\* The addresses are indexed, or a start-up failed at it.
Indexed == hist.bootFailed \/ "email" \in db.indexes

\* Until then nothing is under way.
StartInv ==
    \/ Indexed
    \/ /\ \A p \in Handlers : pc[p] = "idle"
       /\ process.context = "email" \/ process = [context |-> "none", cached |-> FALSE]

\* Each handler holds what it should.
HandlersInv ==
    /\ DOMAIN pc = Handlers /\ DOMAIN op = Handlers
    /\ \A p \in Handlers : LocalOk(pc[p], op[p])

IInv == StoreInv /\ StartInv /\ HandlersInv

\* Only handler p moved.
Alone(p) ==
    /\ DOMAIN pc' = Handlers /\ DOMAIN op' = Handlers
    /\ \A q \in Handlers \ {p} : pc'[q] = pc[q] /\ op'[q] = op[q]

\* p went on, and what it holds is right.
Moved(p) == Alone(p) /\ LocalOk(pc[p], op[p])'

\* What a handler's step does to the collections, new accounts and devices
\* aside.
Harmless ==
    /\ DOMAIN db' = Collections
    /\ db'.devices = db.devices
    /\ db.alarms \subseteq db'.alarms
    /\ db'.indexes = db.indexes
    /\ DOMAIN db'.users = DOMAIN db.users
    /\ \A u \in DOMAIN db.users :
          "email" \in DOMAIN db'.users[u] /\ db'.users[u].email = db.users[u].email
    /\ "bootFailed" \in DOMAIN hist' /\ hist'.bootFailed = hist.bootFailed
    /\ UNCHANGED <<served, process, now>>

----------------------------------------------------------------------------
(* A handler goes on.                                                      *)

\* A handler that goes to a call is there, alone.
LEMMA Going ==
    ASSUME HandlersInv, NEW p \in Handlers, NEW step, NEW o, Goto(p, step, o)
    PROVE  Alone(p) /\ pc'[p] = step /\ op'[p] = o
BY DEF HandlersInv, Goto, Alone

----------------------------------------------------------------------------
(* The routes.                                                             *)

\* What the kinds of routes ask for.
LEMMA Kinds ==
    /\ \A f : Open(f).auth = FALSE /\ Open(f).webView = FALSE /\ Open(f).first = f
    /\ \A f : Member(f).auth = TRUE /\ Member(f).webView = FALSE /\ Member(f).first = f
    /\ \A f : Admin(f).auth = TRUE /\ Admin(f).webView = FALSE /\ Admin(f).first = f
    /\ \A f : AdminRead(f).auth = TRUE /\ AdminRead(f).webView = TRUE /\ AdminRead(f).first = f
    /\ \A f : LET r == [Admin(f) EXCEPT !.webDeny = TRUE]
             IN  r.auth = TRUE /\ r.webView = FALSE /\ r.first = f
BY DEF Open, Member, Admin, AdminRead

\* The first calls of the handlers.
FirstCalls == {"resolveMx", "findByEmail", "requireAdmin", "adminForGrant", "findDevice",
               "findUsage", "readUsage", "findOwner", "readCred"}

\* What the table of routes says of those that matter here: a viewer passes for
\* one of them, and each group of handlers is entered by its own routes.
LEMMA Routes ==
    ASSUME NEW r \in DOMAIN ROUTES
    PROVE  /\ ROUTES[r].webView => r = "listIpRules"
           /\ r = "listIpRules" => ROUTES[r].first = "requireAdmin"
           /\ ROUTES[r].first \in FirstCalls
           /\ ROUTES[r].first = "findDevice" => r = "heartbeat"
           /\ ROUTES[r].first = "requireAdmin" => r \in DOMAIN AfterAdmin
           /\ ROUTES[r].first = "resolveMx" => r = "signup"
           /\ ROUTES[r].first = "findOwner" => r = "putCred"
<1>1. CASE r = "signup" BY <1>1, Kinds DEF ROUTES, FirstCalls, AfterAdmin
<1>2. CASE r = "verifyEmail" BY <1>2, Kinds DEF ROUTES, FirstCalls, AfterAdmin
<1>3. CASE r = "createUser" BY <1>3, Kinds DEF ROUTES, FirstCalls, AfterAdmin
<1>4. CASE r = "approveUser" BY <1>4, Kinds DEF ROUTES, FirstCalls, AfterAdmin
<1>5. CASE r = "rejectUser" BY <1>5, Kinds DEF ROUTES, FirstCalls, AfterAdmin
<1>6. CASE r = "setEntitlement" BY <1>6, Kinds DEF ROUTES, FirstCalls, AfterAdmin
<1>7. CASE r = "addIpRule" BY <1>7, Kinds DEF ROUTES, FirstCalls, AfterAdmin
<1>8. CASE r = "removeIpRule" BY <1>8, Kinds DEF ROUTES, FirstCalls, AfterAdmin
<1>9. CASE r = "listIpRules" BY <1>9, Kinds DEF ROUTES, FirstCalls, AfterAdmin
<1>10. CASE r = "geoFence" BY <1>10, Kinds DEF ROUTES, FirstCalls, AfterAdmin
<1>11. CASE r = "blockedCountries" BY <1>11, Kinds DEF ROUTES, FirstCalls, AfterAdmin
<1>12. CASE r = "heartbeat" BY <1>12, Kinds DEF ROUTES, FirstCalls, AfterAdmin
<1>13. CASE r = "usageSnapshot" BY <1>13, Kinds DEF ROUTES, FirstCalls, AfterAdmin
<1>14. CASE r = "usageMe" BY <1>14, Kinds DEF ROUTES, FirstCalls, AfterAdmin
<1>15. CASE r = "putCred" BY <1>15, Kinds DEF ROUTES, FirstCalls, AfterAdmin
<1>16. CASE r = "getCred"
  <2>1. ROUTES[r] = [Admin("readCred") EXCEPT !.webDeny = TRUE] BY <1>16 DEF ROUTES
  <2>2. QED BY <1>16, <2>1, Kinds DEF FirstCalls, AfterAdmin
<1>17. QED
  BY <1>1, <1>2, <1>3, <1>4, <1>5, <1>6, <1>7, <1>8, <1>9, <1>10, <1>11, <1>12, <1>13, <1>14,
     <1>15, <1>16 DEF ROUTES

----------------------------------------------------------------------------
(* What is left alone stays right.                                         *)

\* Devices stay with their owners, and alarms stay raised.
DevicesKept ==
    /\ \A d \in DOMAIN db.devices :
          d \in DOMAIN db'.devices /\ db'.devices[d].user = db.devices[d].user
    /\ db.alarms \subseteq db'.alarms

\* What a handler holds stays right while devices keep their owners and the
\* alarms raised stay raised.
LEMMA StaysOk ==
    ASSUME NEW step, NEW o, LocalOk(step, o), DevicesKept
    PROVE  LocalOk(step, o)'
<1>1. ReportOk(step, o)'
  BY DEF LocalOk, ReportOk, DevicesKept, Owned, IsFix, AssessTravel, TravelAlarm, Reporting,
     Unprepared
<1>2. QED BY <1>1 DEF LocalOk, HasFields, ViewOk, ViewOnly, IsRequest, MayChange, RouteOk

\* A handler that goes to a call with what it should hold has moved well.
LEMMA Landing ==
    ASSUME HandlersInv, NEW p \in Handlers, NEW step, NEW o, Goto(p, step, o), LocalOk(step, o)'
    PROVE  Moved(p)
BY Going DEF Moved

\* A handler at rest holds nothing that could be wrong.
LEMMA Resting ==
    ASSUME HandlersInv, NEW p \in Handlers, Return(p)
    PROVE  Moved(p)
<1>1. LocalOk("idle", Idle)'
  BY DEF LocalOk, Idle, ViewOk, RouteOk, ReportOk, Granting, Incoming, Creating, Reporting,
     Unprepared
<1>2. QED BY <1>1, Landing DEF Return

\* A handler kept what its request is.
Keeps(p, o) ==
    /\ HasFields(o) /\ o.route = op[p].route
    /\ IsRequest(o) => o.token = op[p].token

\* The calls that ask something of the locals.
Special == Granting \cup Incoming \cup Creating \cup Reporting \cup Viewing
             \cup {"findDevice", "findOwner", "storeCred"}

\* Going on to a call that asks nothing special of the locals.
LEMMA Plain ==
    ASSUME HandlersInv, NEW p \in Handlers, NEW step, NEW o, Goto(p, step, o),
           Keeps(p, o), step \notin Special,
           pc[p] \notin Viewing \cup {"idle", "globalRules", "deny"}
    PROVE  Moved(p)
<1>1. ViewOk(pc[p], op[p])
  BY DEF HandlersInv, LocalOk
<1>2. ViewOk(step, o)
  BY <1>1 DEF ViewOk, ViewOnly, Keeps, IsRequest
<1>3. LocalOk(step, o)'
  <2>1. ReportOk(step, o)' /\ RouteOk(step, o)' /\ step \notin Granting
    BY DEF Special, ReportOk, RouteOk, Granting, Incoming, Creating, Reporting, Unprepared, Viewing
  <2>2. QED BY <1>2, <2>1 DEF LocalOk, Keeps, HasFields, IsRequest, ViewOk, ViewOnly
<1>4. QED BY <1>3, Landing

\* A step that only reads is harmless, ...
LEMMA ReadsOnly ==
    ASSUME StoreInv, UNCHANGED <<served, db, hist, process, now, begun>>
    PROVE  Harmless
BY DEF StoreInv, Harmless

\* ... and what is harmless leaves devices to their owners.
LEMMA HarmlessKeeps ==
    ASSUME StoreInv, Harmless
    PROVE  DevicesKept
BY DEF Harmless, DevicesKept

\* A step of one handler preserves the invariant if it writes what is right ...
LEMMA Preserved ==
    ASSUME IInv, NEW p \in Handlers, Moved(p), DevicesKept, StoreInv', Indexed'
    PROVE  IInv'
<1>1. HandlersInv'
  <2>1. ASSUME NEW q \in Handlers PROVE LocalOk(pc[q], op[q])'
    <3>1. CASE q = p BY <3>1 DEF Moved
    <3>2. CASE q # p
      <4>1. LocalOk(pc[q], op[q]) BY DEF IInv, HandlersInv
      <4>2. pc'[q] = pc[q] /\ op'[q] = op[q] BY <3>2 DEF Moved, Alone
      <4>3. QED BY <4>1, <4>2, StaysOk
    <3>3. QED BY <3>1, <3>2
  <2>2. QED BY <2>1 DEF HandlersInv, Moved, Alone
<1>2. QED BY <1>1 DEF IInv, StartInv

\* ... and so it does if it is harmless.
LEMMA HarmlessPreserves ==
    ASSUME IInv, NEW p \in Handlers, Moved(p), Harmless, Indexed
    PROVE  IInv'
<1>1. DevicesKept BY HarmlessKeeps DEF IInv
<1>2. AccountsAreUnique'
  BY DEF IInv, StoreInv, Harmless, AccountsAreUnique, EmailsAreUnique
<1>3. StoreInv'
  BY <1>2 DEF IInv, StoreInv, Harmless
<1>4. Indexed' BY DEF Indexed, Harmless
<1>5. QED BY <1>1, <1>3, <1>4, Preserved

\* While a handler is under way the addresses are indexed, or a start-up failed.
LEMMA Busy ==
    ASSUME IInv, NEW p \in Handlers, pc[p] # "idle"
    PROVE  Indexed
BY DEF IInv, StartInv

----------------------------------------------------------------------------
(* The gate.                                                               *)

\* The same of a process that takes requests.
LEMMA Serving ==
    ASSUME IInv, process.context = "ready"
    PROVE  Indexed
BY DEF IInv, StartInv

\* An answer ends the handler.
LEMMA Answering ==
    ASSUME StoreInv, HandlersInv, NEW p \in Handlers, Answer(p)
    PROVE  Moved(p) /\ Harmless
<1>1. Return(p) /\ UNCHANGED <<served, db, hist, process, now, begun>>
  BY DEF Answer, Read, Return
<1>2. QED BY <1>1, Resting, ReadsOnly

\* A request arrives, with a report that is well formed if it is one.
LEMMA Arriving ==
    ASSUME IInv, NEW p \in Handlers, Arrive(p)
    PROVE  Moved(p) /\ Harmless /\ Indexed
<1>1. PICK r \in load.arrivals :
        /\ r.route \in DOMAIN ROUTES
        /\ Begin(p, "globalRules",
                 [route |-> r.route, token |-> r.token, user |-> r.token.user, ip |-> r.ip,
                  body |-> r.body, country |-> NoCountry, found |-> Nothing, at |-> now,
                  unheard |-> FALSE, rulesThen |-> DOMAIN db.rules, editsThen |-> hist.edits])
  BY DEF Arrive
<1>0. PICK o : o = [route |-> r.route, token |-> r.token, user |-> r.token.user, ip |-> r.ip,
                  body |-> r.body, country |-> NoCountry, found |-> Nothing, at |-> now,
                  unheard |-> FALSE, rulesThen |-> DOMAIN db.rules, editsThen |-> hist.edits]
  OBVIOUS
<1>2. Goto(p, "globalRules", o) /\ process.context = "ready"
        /\ UNCHANGED <<served, db, hist, process, now>>
  BY <1>0, <1>1 DEF Begin
<1>3. o.route \in Reports => "fix" \in DOMAIN o.body /\ IsFix(o.body.fix)
  BY <1>0, ReportsAssumption DEF IInv, StoreInv, load, Reports
<1>4. HasFields(o) /\ o.route \in DOMAIN ROUTES
  BY <1>0, <1>1 DEF HasFields
<1>5. LocalOk("globalRules", o)'
  BY <1>3, <1>4 DEF LocalOk, HasFields, IsRequest, ViewOk, RouteOk, ReportOk, Granting,
      Creating, Reporting, Unprepared, IsFix
<1>6. Moved(p) BY <1>2, <1>5, Landing DEF IInv
<1>7. Harmless BY <1>2 DEF IInv, StoreInv, Harmless
<1>8. QED BY <1>2, <1>6, <1>7, Serving

\* The pipeline ends: the first call of a handler is that of the route, and a
\* view-only token got here for the one route it passes for.
LEMMA Dispatching ==
    ASSUME IInv, NEW p \in Handlers, pc[p] \in Incoming, Dispatch(p),
           ViewOnly(op[p]) => op[p].route = "listIpRules"
    PROVE  Moved(p) /\ Harmless
<1>0. PICK first, o :
        /\ first = ROUTES[op[p].route].first
        /\ o = [op[p] EXCEPT !.at = now, !.found = Nothing, !.country = NoCountry]
  OBVIOUS
<1>1. Goto(p, first, o) /\ UNCHANGED <<served, db, hist, process, now, begun>>
  BY <1>0 DEF Dispatch, Read, MatchRoute
<1>2. LocalOk(pc[p], op[p]) BY DEF IInv, HandlersInv
<1>3. op[p].route \in DOMAIN ROUTES /\ HasFields(op[p])
  BY <1>2 DEF LocalOk, RouteOk, Incoming
<1>4. /\ HasFields(o) /\ o.route = op[p].route /\ o.token = op[p].token
      /\ o.body = op[p].body /\ o.at \in Int
  BY <1>0, <1>3 DEF HasFields, IsRequest, IInv, StoreInv
<1>5. first = ROUTES[o.route].first BY <1>0, <1>4
<1>6. ReportOk(first, o)' /\ RouteOk(first, o)' /\ first \notin Granting
  BY <1>2, <1>3, <1>4, <1>5, Routes DEF LocalOk, ReportOk, RouteOk, FirstCalls, Reports, Granting,
     Incoming, Creating, Reporting, Unprepared, IsFix
<1>7. ViewOk(first, o)
  BY <1>3, <1>4, <1>5, Routes DEF ViewOk, ViewOnly, Viewing
<1>8. LocalOk(first, o)'
  BY <1>4, <1>6, <1>7 DEF LocalOk, HasFields, IsRequest, ViewOk, ViewOnly
<1>9. QED BY <1>1, <1>8, Landing, ReadsOnly DEF IInv

\* A refusal keeps the request.
LEMMA Refusing ==
    ASSUME IInv, NEW p \in Handlers, pc[p] \in Incoming, NEW reason, NEW who, Refuse(p, reason, who)
    PROVE  Moved(p) /\ Harmless
<1>0. PICK o : o = [op[p] EXCEPT !.found = [alarm |-> <<reason, who, now>>]]
  OBVIOUS
<1>1. Goto(p, "deny", o) /\ UNCHANGED <<served, db, hist, process, now, begun>>
  BY <1>0 DEF Refuse, Read
<1>2. HasFields(op[p])
  BY DEF IInv, HandlersInv, LocalOk, Incoming
<1>3. HasFields(o)
  BY <1>0, <1>2 DEF HasFields, IsRequest
<1>4. LocalOk("deny", o)'
  BY <1>3 DEF LocalOk, HasFields, IsRequest, ViewOk, RouteOk, ReportOk, Granting, Incoming,
      Creating, Reporting, Unprepared
<1>5. QED BY <1>1, <1>4, Landing, ReadsOnly DEF IInv

\* A handler that is under way knows what its request is.
LEMMA Held ==
    ASSUME HandlersInv, NEW p \in Handlers, pc[p] # "idle"
    PROVE  HasFields(op[p]) /\ LocalOk(pc[p], op[p])
BY DEF HandlersInv, LocalOk

\* Here the scope of the token is held against the route.
LEMMA GlobalRulesSafe ==
    ASSUME IInv, NEW p \in Handlers, GlobalRules(p)
    PROVE  Moved(p) /\ Harmless
<1>1. pc[p] = "globalRules" BY DEF GlobalRules
<1>2. LocalOk(pc[p], op[p]) /\ HasFields(op[p]) BY <1>1, Held DEF IInv
<1>3. op[p].route \in DOMAIN ROUTES
  BY <1>1, <1>2 DEF LocalOk, RouteOk, Incoming
<1>4. \/ \E reason : Refuse(p, reason, op[p].ip)
      \/ ~ROUTES[op[p].route].auth /\ Dispatch(p)
      \/ /\ op[p].token.scope = "view" => ROUTES[op[p].route].webView
         /\ Read(p, "findUser", op[p])
      \/ Answer(p)
  BY DEF GlobalRules, MatchRoute, ScopeAdmits
<1>5. CASE \E reason : Refuse(p, reason, op[p].ip)
  BY <1>1, <1>5, Refusing DEF Incoming
<1>6. CASE ~ROUTES[op[p].route].auth /\ Dispatch(p)
  BY <1>1, <1>6, Dispatching DEF Incoming, ViewOnly
<1>7. CASE /\ op[p].token.scope = "view" => ROUTES[op[p].route].webView
           /\ Read(p, "findUser", op[p])
  <2>0. PICK o : o = op[p] OBVIOUS
  <2>1. Goto(p, "findUser", o) /\ UNCHANGED <<served, db, hist, process, now, begun>>
    BY <1>7, <2>0 DEF Read
  <2>2. ViewOnly(o) => o.route = "listIpRules"
    BY <1>3, <1>7, <2>0, Routes DEF ViewOnly
  <2>3. LocalOk("findUser", o)
    BY <1>1, <1>2, <1>3, <2>0, <2>2 DEF LocalOk, ViewOk, Viewing, RouteOk, ReportOk, Granting,
       Incoming, Creating, Reporting, Unprepared
  <2>4. LocalOk("findUser", o)'
    BY <2>1, <2>3, StaysOk, ReadsOnly, HarmlessKeeps DEF IInv
  <2>5. QED BY <2>1, <2>4, Landing, ReadsOnly DEF IInv
<1>8. CASE Answer(p) BY <1>8, Answering DEF IInv
<1>9. QED BY <1>4, <1>5, <1>6, <1>7, <1>8

\* The second find of the pipeline ...
LEMMA FindUserSafe ==
    ASSUME IInv, NEW p \in Handlers, FindUser(p)
    PROVE  Moved(p) /\ Harmless
<1>1. pc[p] = "findUser" BY DEF FindUser
<1>2. LocalOk(pc[p], op[p]) /\ HasFields(op[p]) BY <1>1, Held DEF IInv
<1>3. op[p].route \in DOMAIN ROUTES /\ (ViewOnly(op[p]) => op[p].route = "listIpRules")
  BY <1>1, <1>2 DEF LocalOk, RouteOk, ViewOk, Incoming
<1>4. CASE \E country :
            Read(p, "userRules",
                 [op[p] EXCEPT !.country = country, !.found = db.users[op[p].user]])
  <2>1. PICK country, o :
           /\ o = [op[p] EXCEPT !.country = country, !.found = db.users[op[p].user]]
           /\ Read(p, "userRules", o)
    BY <1>4
  <2>2. HasFields(o) /\ o.route = op[p].route /\ o.token = op[p].token /\ o.body = op[p].body
    BY <1>2, <1>3, <2>1 DEF HasFields, IsRequest
  <2>3. LocalOk("userRules", o)
    BY <1>1, <1>2, <1>3, <2>2 DEF LocalOk, ViewOk, ViewOnly, Viewing, RouteOk, ReportOk, Granting,
       Incoming, Creating, Reporting, Unprepared
  <2>4. Goto(p, "userRules", o) /\ UNCHANGED <<served, db, hist, process, now, begun>>
    BY <2>1 DEF Read
  <2>5. LocalOk("userRules", o)'
    BY <2>3, <2>4, StaysOk, ReadsOnly, HarmlessKeeps DEF IInv
  <2>6. QED BY <2>4, <2>5, Landing, ReadsOnly DEF IInv
<1>5. CASE Dispatch(p) BY <1>1, <1>3, <1>5, Dispatching DEF Incoming
<1>6. CASE Answer(p) BY <1>6, Answering DEF IInv
<1>7. QED BY <1>4, <1>5, <1>6 DEF FindUser

\* ... and its last decision.
LEMMA UserRulesSafe ==
    ASSUME IInv, NEW p \in Handlers, UserRules(p)
    PROVE  Moved(p) /\ Harmless
<1>1. pc[p] = "userRules" BY DEF UserRules
<1>2. LocalOk(pc[p], op[p]) BY <1>1, Held DEF IInv
<1>3. ViewOnly(op[p]) => op[p].route = "listIpRules"
  BY <1>1, <1>2 DEF LocalOk, ViewOk
<1>4. Dispatch(p) \/ \E reason : Refuse(p, reason, op[p].user) BY DEF UserRules
<1>5. QED BY <1>1, <1>3, <1>4, Dispatching, Refusing DEF Incoming

\* The service asks for the administrator once more and branches by route.
LEMMA RequireAdminSafe ==
    ASSUME IInv, NEW p \in Handlers, RequireAdmin(p)
    PROVE  Moved(p) /\ Harmless
<1>1. pc[p] = "requireAdmin" BY DEF RequireAdmin
<1>2. LocalOk(pc[p], op[p]) /\ HasFields(op[p]) BY <1>1, Held DEF IInv
<1>3. op[p].route \in DOMAIN AfterAdmin /\ (ViewOnly(op[p]) => op[p].route = "listIpRules")
  BY <1>1, <1>2 DEF LocalOk, RouteOk, ViewOk
<1>4. CASE Read(p, AfterAdmin[op[p].route], op[p])
  <2>0. PICK o, step : o = op[p] /\ step = AfterAdmin[op[p].route] OBVIOUS
  <2>1. Goto(p, step, o) /\ UNCHANGED <<served, db, hist, process, now, begun>>
    BY <1>4, <2>0 DEF Read
  <2>2. /\ step \in {"recordRule", "findRule", "listRules", "findTarget", "findEmail"}
        /\ step = "findEmail" => o.route = "createUser"
        /\ o.route = "listIpRules" => step = "listRules"
    BY <1>3, <2>0 DEF AfterAdmin
  <2>3. LocalOk(step, o)
    BY <1>2, <1>3, <2>0, <2>2 DEF LocalOk, ViewOk, Viewing, RouteOk, ReportOk, Granting,
       Incoming, Creating, Reporting, Unprepared
  <2>4. LocalOk(step, o)'
    BY <2>1, <2>3, StaysOk, ReadsOnly, HarmlessKeeps DEF IInv
  <2>5. QED BY <2>1, <2>4, Landing, ReadsOnly DEF IInv
<1>5. CASE Answer(p) BY <1>5, Answering DEF IInv
<1>6. QED BY <1>4, <1>5 DEF RequireAdmin

\* The calls before which the scope of the token may not have been checked, or
\* was checked and found view-only.
Past == Viewing \cup {"idle", "globalRules", "deny"}

\* Going on with the same locals.
LEMMA Staying ==
    ASSUME HandlersInv, NEW p \in Handlers, pc[p] \notin Past, NEW step, step \notin Special,
           Goto(p, step, op[p])
    PROVE  Moved(p)
<1>0. PICK o : o = op[p] OBVIOUS
<1>1. Keeps(p, o) BY <1>0, Held DEF Keeps, Past
<1>2. QED BY <1>0, <1>1, Plain DEF Past

\* Raising an alarm is harmless, and so is losing it, ...
LEMMA Raising ==
    ASSUME StoreInv, NEW key, Emit(key)
    PROVE  Harmless
BY DEF StoreInv, Harmless, Write, Raise, Emit, LoseAlarm, Collections

\* ... and so is an entry of the ledger.
LEMMA Recording ==
    ASSUME StoreInv, NEW entry, Write([db EXCEPT !.ledger = @ \cup {entry}], hist)
    PROVE  Harmless
BY DEF StoreInv, Harmless, Write, Collections

\* The pipeline and the calls on rules and country lists.
LEMMA GateSafe ==
    ASSUME IInv, NEW p \in Handlers, GateStep(p)
    PROVE  Moved(p) /\ Harmless
<1> USE DEF Past, Special, Granting, Incoming, Creating, Reporting, Unprepared, Viewing
<1>0. StoreInv /\ HandlersInv BY DEF IInv
<1>1. CASE GlobalRules(p) BY <1>1, GlobalRulesSafe
<1>2. CASE FindUser(p) BY <1>2, FindUserSafe
<1>3. CASE UserRules(p) BY <1>3, UserRulesSafe
<1>4. CASE Deny(p)
  BY <1>0, <1>4, Resting, Raising DEF Deny
<1>5. CASE RequireAdmin(p) BY <1>5, RequireAdminSafe
<1>6. CASE RecordRule(p)
  BY <1>0, <1>6, Staying, Recording DEF RecordRule, Chain
<1>7. CASE InsertRule(p)
  <2>1. Harmless
    BY <1>0, <1>7 DEF InsertRule, StoreInv, Harmless, Write, Edited, Collections
  <2>2. QED BY <1>0, <1>7, <2>1, Resting DEF InsertRule
<1>8. CASE ListRules(p) BY <1>0, <1>8, Answering DEF ListRules
<1>9. CASE FindRule(p)
  <2>1. CASE Answer(p) BY <1>0, <2>1, Answering
  <2>2. CASE Read(p, "recordRemoval", [op[p] EXCEPT !.found = db.rules[op[p].body.id]])
    <3>1. PICK o : o = [op[p] EXCEPT !.found = db.rules[op[p].body.id]] OBVIOUS
    <3>2. pc[p] = "findRule" /\ HasFields(op[p]) BY <1>0, <1>9, Held DEF FindRule
    <3>3. Keeps(p, o) BY <3>1, <3>2 DEF Keeps, HasFields, IsRequest
    <3>4. Goto(p, "recordRemoval", o) BY <2>2, <3>1 DEF Read
    <3>5. QED BY <1>0, <2>2, <3>2, <3>3, <3>4, Plain, ReadsOnly DEF Read
  <2>3. QED BY <1>9, <2>1, <2>2 DEF FindRule
<1>10. CASE RecordRemoval(p)
  BY <1>0, <1>10, Staying, Recording DEF RecordRemoval, Chain
<1>11. CASE DeleteRule(p)
  <2>1. Harmless
    BY <1>0, <1>11 DEF DeleteRule, StoreInv, Harmless, Write, Edited, Collections
  <2>2. QED BY <1>0, <1>11, <2>1, Resting DEF DeleteRule
<1>12. CASE RecordCountries(p)
  BY <1>0, <1>12, Staying, Recording DEF RecordCountries, Chain
<1>13. CASE SetCountries(p)
  <2>1. Harmless
    BY <1>0, <1>13 DEF SetCountries, StoreInv, Harmless, Write, Edited, Collections
  <2>2. QED BY <1>0, <1>13, <2>1, Resting DEF SetCountries
<1>14. QED
  BY <1>1, <1>2, <1>3, <1>4, <1>5, <1>6, <1>7, <1>8, <1>9, <1>10, <1>11, <1>12, <1>13 DEF GateStep

----------------------------------------------------------------------------
(* Accounts and codes.                                                     *)

\* From one call of the creation of an account to the next.
LEMMA StillCreating ==
    ASSUME IInv, NEW p \in Handlers, pc[p] \in Creating, NEW step \in Creating, Goto(p, step, op[p])
    PROVE  Moved(p)
<1>0. PICK o : o = op[p] OBVIOUS
<1>1. LocalOk(pc[p], o) BY <1>0, Held DEF IInv, Creating
<1>2. LocalOk(step, o)'
  BY <1>1 DEF LocalOk, HasFields, IsRequest, ViewOk, ViewOnly, RouteOk, ReportOk, Granting,
     Incoming, Creating, Reporting, Unprepared, Viewing
<1>3. QED BY <1>0, <1>2, Landing DEF IInv

\* From one call of a grant to the next, once the grant was found admissible.
LEMMA StillGranting ==
    ASSUME IInv, NEW p \in Handlers, pc[p] \notin Past, NEW step \in Granting,
           Goto(p, step, op[p]), MayChange(Head(op[p].body.grants))
    PROVE  Moved(p)
<1>0. PICK o : o = op[p] OBVIOUS
<1>1. LocalOk(pc[p], o) /\ HasFields(o) BY <1>0, Held DEF IInv, Past
<1>2. LocalOk(step, o)'
  BY <1>0, <1>1 DEF LocalOk, HasFields, IsRequest, ViewOk, ViewOnly, RouteOk, ReportOk, Granting,
     Incoming, Creating, Reporting, Unprepared, Past, Viewing, MayChange
<1>3. QED BY <1>0, <1>2, Landing DEF IInv

\* The grants left are checked when their turn comes.
LEMMA NextGrantSafe ==
    ASSUME IInv, NEW p \in Handlers, pc[p] \notin Past, NEW grants, NextGrant(p, grants)
    PROVE  Moved(p)
<1>1. HandlersInv /\ HasFields(op[p]) BY Held DEF IInv, Past
<1>2. CASE Goto(p, "adminForGrant", [op[p] EXCEPT !.body.grants = grants])
  <2>1. PICK o : o = [op[p] EXCEPT !.body.grants = grants] OBVIOUS
  <2>2. Keeps(p, o) BY <1>1, <2>1 DEF Keeps, HasFields, IsRequest
  <2>3. QED BY <1>1, <1>2, <2>1, <2>2, Plain
     DEF Past, Special, Granting, Incoming, Creating, Reporting, Unprepared, Viewing
<1>3. CASE Goto(p, "markVerified", op[p])
  BY <1>1, <1>3, Staying DEF Special, Granting, Incoming, Creating, Reporting, Unprepared, Viewing
<1>4. CASE Return(p) BY <1>1, <1>4, Resting
<1>5. QED BY <1>2, <1>3, <1>4 DEF NextGrant

\* The seed CLI starts.
LEMMA CreateAdminSafe ==
    ASSUME IInv, NEW p \in Handlers, CreateAdmin(p)
    PROVE  Moved(p) /\ Harmless /\ Indexed
<1>1. PICK r, o : /\ o = [route |-> "createAdmin", user |-> Nobody, body |-> r.body]
                 /\ Begin(p, "findEmail", o)
  BY DEF CreateAdmin
<1>2. Goto(p, "findEmail", o) /\ process.context = "ready"
        /\ UNCHANGED <<served, db, hist, process, now>>
  BY <1>1 DEF Begin
<1>3. HasFields(o) /\ o.route = "createAdmin" /\ o.route \notin DOMAIN ROUTES
  BY <1>1 DEF HasFields, IsRequest, ROUTES
<1>4. LocalOk("findEmail", o)'
  BY <1>3 DEF LocalOk, HasFields, IsRequest, ViewOk, ViewOnly, RouteOk, ReportOk, Granting,
     Incoming, Creating, Reporting, Unprepared
<1>5. Harmless BY <1>2 DEF IInv, StoreInv, Harmless
<1>6. QED BY <1>2, <1>4, <1>5, Landing, Serving DEF IInv

\* The issue of a code starts.
LEMMA IssueCodeSafe ==
    ASSUME IInv, NEW p \in Handlers, IssueCode(p)
    PROVE  Moved(p) /\ Harmless /\ Indexed
<1>1. PICK r, o : /\ o = [route |-> "issueCode", user |-> r.body.user, at |-> now, priors |-> {}]
                 /\ Begin(p, "countSends", o)
  BY DEF IssueCode
<1>2. Goto(p, "countSends", o) /\ process.context = "ready"
        /\ UNCHANGED <<served, db, hist, process, now>>
  BY <1>1 DEF Begin
<1>3. HasFields(o) /\ o.route = "issueCode" /\ o.route \notin DOMAIN ROUTES
  BY <1>1 DEF HasFields, IsRequest, ROUTES
<1>4. LocalOk("countSends", o)'
  BY <1>3 DEF LocalOk, HasFields, IsRequest, ViewOk, ViewOnly, RouteOk, ReportOk, Granting,
     Incoming, Creating, Reporting, Unprepared
<1>5. Harmless BY <1>2 DEF IInv, StoreInv, Harmless
<1>6. QED BY <1>2, <1>4, <1>5, Landing, Serving DEF IInv

\* The insert: the unique index is there, or a start-up failed.
LEMMA InsertUserSafe ==
    ASSUME IInv, NEW p \in Handlers, InsertUser(p)
    PROVE  Moved(p) /\ DevicesKept /\ StoreInv' /\ Indexed'
<1>0. StoreInv /\ HandlersInv BY DEF IInv
<1>1. pc[p] = "insertUser" BY DEF InsertUser
<1>2. Indexed BY <1>1, Busy
<1>3. LocalOk(pc[p], op[p]) /\ HasFields(op[p]) BY <1>0, <1>1, Held
<1>4. CASE Answer(p)
  <2>1. Moved(p) /\ Harmless BY <1>0, <1>4, Answering
  <2>2. QED BY <1>2, <2>1, HarmlessPreserves, HarmlessKeeps DEF IInv, Harmless, Indexed
<1>5. CASE ~Answer(p)
  <2>0. PICK id, role, email : /\ id = db.issued + 1 /\ email = op[p].body.email
                              /\ role = IF op[p].route = "signup" THEN "member" ELSE op[p].body.role
    OBVIOUS
  <2>1. /\ ~RejectsDuplicate(email)
        /\ Write([db EXCEPT !.users = Put(@, id, NewUser(email, role)), !.issued = id], hist)
        /\ IF op[p].route = "signup" THEN Return(p)
           ELSE Goto(p, AfterInsert(op[p].route), [op[p] EXCEPT !.body =
                            [target |-> id, grants |-> op[p].body.grants]])
    BY <1>5, <2>0 DEF InsertUser
  <2>2. ASSUME op[p].route = "signup" PROVE Moved(p)
    <3>1. Return(p) BY <2>1, <2>2
    <3>2. QED BY <1>0, <3>1, Resting
  <2>3. ASSUME op[p].route # "signup" PROVE Moved(p)
    <3>1. PICK step, o : step = AfterInsert(op[p].route) /\
             o = [op[p] EXCEPT !.body = [target |-> id, grants |-> op[p].body.grants]]
      OBVIOUS
    <3>2. step \in {"activate", "makeAdmin"}
      BY <1>1, <1>3, <2>3, <3>1 DEF LocalOk, RouteOk, Creating, AfterInsert
    <3>3. Keeps(p, o) BY <1>3, <3>1 DEF Keeps, HasFields, IsRequest
    <3>4. Goto(p, step, o) BY <2>1, <2>3, <3>1
    <3>5. QED BY <1>0, <1>1, <3>2, <3>3, <3>4, Plain
       DEF Special, Granting, Incoming, Creating, Reporting, Unprepared, Viewing
  <2>4. Moved(p) BY <2>1, <2>2, <2>3
  <2>5. /\ DOMAIN db' = Collections /\ db'.devices = db.devices /\ db'.alarms = db.alarms
        /\ db'.indexes = db.indexes /\ db'.users = Put(db.users, id, NewUser(email, role))
        /\ UNCHANGED <<served, hist, process, now>>
    BY <1>0, <2>1 DEF Write, StoreInv, Collections
  <2>6. /\ DOMAIN db'.users = DOMAIN db.users \cup {id}
        /\ \A u \in DOMAIN db'.users :
              db'.users[u] = IF u = id THEN NewUser(email, role) ELSE db.users[u]
    BY <2>5 DEF Put
  <2>7. "email" \in DOMAIN NewUser(email, role) /\ NewUser(email, role).email = email
    BY DEF NewUser
  <2>8. \/ hist.bootFailed
        \/ EmailsAreUnique /\ \A u \in DOMAIN db.users : db.users[u].email # email
    BY <1>0, <1>2, <2>1 DEF Indexed, RejectsDuplicate, EmailTaken, StoreInv, AccountsAreUnique
  <2>9. AccountsAreUnique'
    BY <2>5, <2>6, <2>7, <2>8 DEF AccountsAreUnique, EmailsAreUnique
  <2>10. StoreInv'
    BY <1>0, <2>5, <2>6, <2>7, <2>9 DEF StoreInv
  <2>11. QED BY <1>2, <2>4, <2>5, <2>10 DEF DevicesKept, Indexed, StoreInv
<1>6. QED BY <1>4, <1>5

\* An update of one account that leaves its address alone.
LEMMA Updating ==
    ASSUME StoreInv, NEW t, NEW row,
           t \in DOMAIN db.users => "email" \in DOMAIN row /\ row.email = db.users[t].email,
           db' = [db EXCEPT !.users[t] = row],
           "bootFailed" \in DOMAIN hist', hist'.bootFailed = hist.bootFailed,
           UNCHANGED <<served, process, now>>
    PROVE  Harmless
BY DEF StoreInv, Harmless, Collections

\* The same of the codes.
LEMMA Coding ==
    ASSUME StoreInv, NEW codes, db' = [db EXCEPT !.codes = codes],
           "bootFailed" \in DOMAIN hist', hist'.bootFailed = hist.bootFailed,
           UNCHANGED <<served, process, now>>
    PROVE  Harmless
BY DEF StoreInv, Harmless, Collections

\* The other calls on accounts and codes leave every address as it is.
LEMMA AccountSafe ==
    ASSUME IInv, NEW p \in Handlers, AccountStep(p), ~InsertUser(p)
    PROVE  Moved(p) /\ Harmless
<1> USE DEF Past, Special, Granting, Incoming, Creating, Reporting, Unprepared, Viewing
<1>0. StoreInv /\ HandlersInv /\ "bootFailed" \in DOMAIN hist BY DEF IInv, StoreInv
<1>1. CASE ResolveMx(p)
  BY <1>0, <1>1, StillCreating, ReadsOnly DEF ResolveMx, Read
<1>2. CASE ResolveHost(p)
  BY <1>0, <1>2, StillCreating, ReadsOnly, Answering DEF ResolveHost, Read
<1>3. CASE FindEmail(p)
  BY <1>0, <1>3, StillCreating, ReadsOnly, Answering DEF FindEmail, Read
<1>4. CASE CreateAdmin(p) BY <1>4, CreateAdminSafe
<1>5. CASE MakeAdmin(p)
  <2>1. Harmless
    BY <1>0, <1>5 DEF MakeAdmin, Write, StoreInv, Harmless, Collections
  <2>2. QED BY <1>0, <1>5, <2>1, Resting DEF MakeAdmin
<1>6. CASE Activate(p)
  <2>1. Harmless
    BY <1>0, <1>6 DEF Activate, Write, StoreInv, Harmless, Collections
  <2>2. QED BY <1>6, <2>1, NextGrantSafe DEF Activate
<1>7. CASE FindTarget(p)
  <2>1. CASE Answer(p) BY <1>0, <2>1, Answering
  <2>2. CASE Read(p, "recordCountries", op[p])
    BY <1>0, <1>7, <2>2, Staying, ReadsOnly DEF FindTarget, Read
  <2>3. CASE \E body : Read(p, "adminForGrant", [op[p] EXCEPT !.body = body])
    <3>1. PICK body, o : o = [op[p] EXCEPT !.body = body] /\ Read(p, "adminForGrant", o)
      BY <2>3
    <3>2. pc[p] = "findTarget" /\ HasFields(op[p]) BY <1>0, <1>7, Held DEF FindTarget
    <3>3. Keeps(p, o) BY <3>1, <3>2 DEF Keeps, HasFields, IsRequest
    <3>4. Goto(p, "adminForGrant", o) BY <3>1 DEF Read
    <3>5. QED BY <1>0, <3>1, <3>2, <3>3, <3>4, Plain, ReadsOnly DEF Read
  <2>4. QED BY <1>7, <2>1, <2>2, <2>3 DEF FindTarget
<1>8. CASE AdminForGrant(p)
  BY <1>0, <1>8, StillGranting, Answering, ReadsOnly DEF AdminForGrant, Read
<1>9. CASE TargetForGrant(p)
  <2>1. MayChange(Head(op[p].body.grants))
    BY <1>0, <1>9, Held DEF TargetForGrant, LocalOk
  <2>2. QED BY <1>0, <1>9, <2>1, StillGranting, Answering, ReadsOnly DEF TargetForGrant, Read
<1>10. CASE RecordGrant(p)
  <2>1. MayChange(Head(op[p].body.grants))
    BY <1>0, <1>10, Held DEF RecordGrant, LocalOk
  <2>2. QED BY <1>0, <1>10, <2>1, StillGranting, Recording DEF RecordGrant, Chain
<1>11. CASE ApplyGrant(p)
  <2>1. MayChange(Head(op[p].body.grants))
    BY <1>0, <1>11, Held DEF ApplyGrant, LocalOk
  <2>2. PICK grant, t, row :
          /\ grant = Head(op[p].body.grants) /\ t = op[p].body.target
          /\ row = [f \in DOMAIN db.users[t] |->
                       IF f = grant.field THEN grant.value ELSE db.users[t][f]]
    OBVIOUS
  <2>3. t \in DOMAIN db.users => "email" \in DOMAIN row /\ row.email = db.users[t].email
    BY <1>0, <2>1, <2>2 DEF MayChange, StoreInv
  <2>4. db' = [db EXCEPT !.users[t] = row]
    BY <1>11, <2>2 DEF ApplyGrant, Write
  <2>5. hist'.bootFailed = hist.bootFailed /\ "bootFailed" \in DOMAIN hist'
          /\ UNCHANGED <<served, process, now>>
    BY <1>0, <1>11 DEF ApplyGrant, Write, Edited
  <2>6. Harmless BY <1>0, <2>3, <2>4, <2>5, Updating
  <2>7. QED BY <1>11, <2>6, NextGrantSafe DEF ApplyGrant
<1>12. CASE MarkVerified(p)
  <2>1. Harmless
    BY <1>0, <1>12 DEF MarkVerified, Write, StoreInv, Harmless, Collections
  <2>2. QED BY <1>0, <1>12, <2>1, Resting DEF MarkVerified
<1>13. CASE IssueCode(p) BY <1>13, IssueCodeSafe
<1>14. CASE CountSends(p)
  BY <1>0, <1>14, Staying, Answering, ReadsOnly DEF CountSends, Read
<1>15. CASE FindPriors(p)
  <2>1. PICK step, o : /\ step \in {"insertCode", "consumePrior"}
                      /\ o = [op[p] EXCEPT !.priors = LiveCodes(op[p].user)]
                      /\ Read(p, step, o)
    BY <1>15 DEF FindPriors
  <2>2. pc[p] = "findPriors" /\ HasFields(op[p]) BY <1>0, <1>15, Held DEF FindPriors
  <2>3. Keeps(p, o) BY <2>1, <2>2 DEF Keeps, HasFields, IsRequest
  <2>4. Goto(p, step, o) BY <2>1 DEF Read
  <2>5. QED BY <1>0, <2>1, <2>2, <2>3, <2>4, Plain, ReadsOnly DEF Read
<1>16. CASE ConsumePrior(p)
  <2>0. PICK c, rest, step, o :
          /\ c = (CHOOSE prior \in op[p].priors : TRUE) /\ rest = op[p].priors \ {c}
          /\ step = IF rest = {} THEN "insertCode" ELSE "consumePrior"
          /\ o = [op[p] EXCEPT !.priors = rest]
    OBVIOUS
  <2>1. /\ Goto(p, step, o)
          /\ Write(IF c \in DOMAIN db.codes THEN [db EXCEPT !.codes[c].live = FALSE] ELSE db,
                   hist)
    BY <1>16, <2>0 DEF ConsumePrior
  <2>2. pc[p] = "consumePrior" /\ HasFields(op[p]) BY <1>0, <1>16, Held DEF ConsumePrior
  <2>3. Keeps(p, o) BY <2>0, <2>2 DEF Keeps, HasFields, IsRequest
  <2>4. Harmless BY <1>0, <2>1 DEF Write, StoreInv, Harmless, Collections
  <2>5. QED BY <1>0, <2>0, <2>1, <2>2, <2>3, <2>4, Plain
<1>17. CASE InsertCode(p)
  <2>1. Harmless
    BY <1>0, <1>17, Coding DEF InsertCode, Write
  <2>2. QED BY <1>0, <1>17, <2>1, Resting DEF InsertCode
<1>18. CASE FindByEmail(p)
  <2>1. CASE Answer(p) BY <1>0, <2>1, Answering
  <2>2. CASE \E u, body :
               Read(p, "findCode", [op[p] EXCEPT !.user = u, !.at = now, !.body = body])
    <3>1. PICK u, body, o : /\ o = [op[p] EXCEPT !.user = u, !.at = now, !.body = body]
                           /\ Read(p, "findCode", o)
      BY <2>2
    <3>2. pc[p] = "findByEmail" /\ HasFields(op[p]) BY <1>0, <1>18, Held DEF FindByEmail
    <3>3. Keeps(p, o) BY <3>1, <3>2 DEF Keeps, HasFields, IsRequest
    <3>4. Goto(p, "findCode", o) BY <3>1 DEF Read
    <3>5. QED BY <1>0, <3>1, <3>2, <3>3, <3>4, Plain, ReadsOnly DEF Read
  <2>3. QED BY <1>18, <2>1, <2>2 DEF FindByEmail
<1>19. CASE FindCode(p)
  <2>1. CASE Answer(p) BY <1>0, <2>1, Answering
  <2>2. CASE \E c : Read(p, "bumpAttempts", [op[p] EXCEPT !.body.code = c])
    <3>1. PICK c, o : o = [op[p] EXCEPT !.body.code = c] /\ Read(p, "bumpAttempts", o)
      BY <2>2
    <3>2. pc[p] = "findCode" /\ HasFields(op[p]) BY <1>0, <1>19, Held DEF FindCode
    <3>3. Keeps(p, o) BY <3>1, <3>2 DEF Keeps, HasFields, IsRequest
    <3>4. Goto(p, "bumpAttempts", o) BY <3>1 DEF Read
    <3>5. QED BY <1>0, <3>1, <3>2, <3>3, <3>4, Plain, ReadsOnly DEF Read
  <2>3. QED BY <1>19, <2>1, <2>2 DEF FindCode
<1>20. CASE BumpAttempts(p)
  <2>1. CASE Answer(p) BY <1>0, <2>1, Answering
  <2>2. CASE ~Answer(p)
    <3>1. Harmless
      BY <1>0, <1>20, <2>2 DEF BumpAttempts, Write, StoreInv, Harmless, Collections
    <3>2. Goto(p, "consume", op[p]) \/ Return(p) BY <1>20, <2>2 DEF BumpAttempts
    <3>3. QED BY <1>0, <1>20, <3>1, <3>2, Resting, Staying DEF BumpAttempts
  <2>3. QED BY <2>1, <2>2
<1>21. CASE Consume(p)
  <2>1. CASE Answer(p) BY <1>0, <2>1, Answering
  <2>2. CASE ~Answer(p)
    <3>1. Harmless
      BY <1>0, <1>21, <2>2 DEF Consume, Write, StoreInv, Harmless, Collections
    <3>2. Goto(p, "confirm", op[p]) BY <1>21, <2>2 DEF Consume
    <3>3. QED BY <1>0, <1>21, <3>1, <3>2, Staying DEF Consume
  <2>3. QED BY <2>1, <2>2
<1>22. CASE Confirm(p)
  <2>1. Harmless
    BY <1>0, <1>22 DEF Confirm, Write, StoreInv, Harmless, Collections
  <2>2. QED BY <1>0, <1>22, <2>1, Resting DEF Confirm
<1>23. QED
  BY <1>1, <1>2, <1>3, <1>4, <1>5, <1>6, <1>7, <1>8, <1>9, <1>10, <1>11, <1>12, <1>13, <1>14,
     <1>15, <1>16, <1>17, <1>18, <1>19, <1>20, <1>21, <1>22 DEF AccountStep

----------------------------------------------------------------------------
(* Devices and usage.                                                      *)

\* A report of a sign-in starts with a fix that is well formed.
LEMMA PresenceSafe ==
    ASSUME IInv, NEW p \in Handlers, Presence(p)
    PROVE  Moved(p) /\ Harmless /\ Indexed
<1>1. PICK r, o :
          /\ r \in load.arrivals /\ r.route = "presence"
          /\ o = [route |-> "presence", token |-> r.token, user |-> r.token.user, at |-> now,
                  found |-> Nothing, body |-> r.body, unheard |-> FALSE]
          /\ Begin(p, "findDevice", o)
  BY DEF Presence
<1>2. Goto(p, "findDevice", o) /\ process.context = "ready"
        /\ UNCHANGED <<served, db, hist, process, now>>
  BY <1>1 DEF Begin
<1>3. HasFields(o) /\ o.route = "presence" /\ o.route \notin DOMAIN ROUTES
  BY <1>1 DEF HasFields, IsRequest, ROUTES
<1>4. o.at \in Int /\ "fix" \in DOMAIN o.body /\ IsFix(o.body.fix)
  BY <1>1, ReportsAssumption DEF IInv, StoreInv, load
<1>5. LocalOk("findDevice", o)'
  BY <1>3, <1>4 DEF LocalOk, HasFields, IsRequest, ViewOk, ViewOnly, RouteOk, ReportOk, Granting,
     Incoming, Creating, Reporting, Unprepared, Reports, IsFix
<1>6. Harmless BY <1>2 DEF IInv, StoreInv, Harmless
<1>7. QED BY <1>2, <1>5, <1>6, Landing, Serving DEF IInv

\* The scan for silent devices starts.
LEMMA DeadManScanSafe ==
    ASSUME IInv, NEW p \in Handlers, DeadManScan(p)
    PROVE  Moved(p) /\ Harmless /\ Indexed
<1>1. PICK o : /\ o = [route |-> "deadManScan", user |-> Nobody, silent |-> {}]
              /\ Begin(p, "scanDevices", o)
  BY DEF DeadManScan
<1>2. Goto(p, "scanDevices", o) /\ process.context = "ready"
        /\ UNCHANGED <<served, db, hist, process, now>>
  BY <1>1 DEF Begin
<1>3. HasFields(o) /\ o.route = "deadManScan" /\ o.route \notin DOMAIN ROUTES
  BY <1>1 DEF HasFields, IsRequest, ROUTES
<1>4. LocalOk("scanDevices", o)'
  BY <1>3 DEF LocalOk, HasFields, IsRequest, ViewOk, ViewOnly, RouteOk, ReportOk, Granting,
     Incoming, Creating, Reporting, Unprepared
<1>5. Harmless BY <1>2 DEF IInv, StoreInv, Harmless
<1>6. QED BY <1>2, <1>4, <1>5, Landing, Serving DEF IInv

\* What FixFrom makes of a fix has the time of the report.
LEMMA Fixing ==
    ASSUME NEW geo, IsFix(geo), NEW time \in Int
    PROVE  LET fix == FixFrom(geo, time) IN IsFix(fix) /\ (fix = NoFix \/ fix.at = time)
BY DEF IsFix, FixFrom, NoFix

\* The find a report starts with: what it found is nothing, or a device of the
\* user, and stays so.
LEMMA FindDeviceSafe ==
    ASSUME IInv, NEW p \in Handlers, FindDevice(p)
    PROVE  Moved(p) /\ Harmless
<1>0. StoreInv /\ HandlersInv BY DEF IInv
<1>1. pc[p] = "findDevice" BY DEF FindDevice
<1>2. LocalOk(pc[p], op[p]) /\ HasFields(op[p]) BY <1>0, <1>1, Held
<1>3. /\ op[p].route \in Reports /\ op[p].at \in Int
      /\ "fix" \in DOMAIN op[p].body /\ IsFix(op[p].body.fix)
  BY <1>1, <1>2 DEF LocalOk, ReportOk
<1>4. PICK found, fix, o :
         /\ found = Device(op[p].token.device) /\ fix = FixFrom(op[p].body.fix, op[p].at)
         /\ o = [op[p] EXCEPT !.found = found, !.body.fix = FixFrom(@, op[p].at)]
  OBVIOUS
<1>5. IsRequest(op[p]) BY <1>3 DEF Reports, IsRequest, ROUTES
<1>6. /\ Keeps(p, o) /\ o.found = found /\ o.body.fix = fix
      /\ o.at = op[p].at /\ o.user = op[p].user /\ o.token = op[p].token /\ o.route = op[p].route
  BY <1>2, <1>3, <1>4, <1>5 DEF Keeps, HasFields, IsRequest
<1>7. IsFix(fix) /\ (fix = NoFix \/ fix.at = o.at)
  BY <1>3, <1>4, <1>6, Fixing
<1>8. PICK step :
         /\ step \in {"ownershipConflict", "ipMismatch", "findPriorDevices", "assessTravel"}
         /\ step # "ownershipConflict" => found = NoDevice \/ found.user = o.user
         /\ step = "findPriorDevices" => found = NoDevice
         /\ Goto(p, step, o) /\ UNCHANGED <<served, db, hist, process, now, begun>>
  BY <1>4, <1>6 DEF FindDevice, Read
<1>9. /\ step # "ownershipConflict" => found = NoDevice \/ Owned(o)
      /\ IsFix(found.lastFix)
  <2>1. step # "ownershipConflict" => found = NoDevice \/ Owned(o)
    BY <1>4, <1>6, <1>8 DEF Device, Owned
  <2>2. IsFix(NoDevice.lastFix) BY DEF NoDevice, NoFix, IsFix
  <2>3. IsFix(found.lastFix) BY <1>0, <1>4, <2>2 DEF Device, StoreInv, IsDevice
  <2>4. QED BY <2>1, <2>3
<1>10. ReportOk(step, o)
  BY <1>3, <1>6, <1>7, <1>8, <1>9 DEF ReportOk, Incoming, Reporting, Unprepared
<1>11. ViewOk(step, o)
  BY <1>1, <1>2, <1>6, <1>5 DEF LocalOk, ViewOk, ViewOnly, IsRequest, Viewing
<1>12. LocalOk(step, o)
  BY <1>6, <1>8, <1>10, <1>11 DEF LocalOk, Keeps, RouteOk, Granting, Incoming, Creating
<1>13. LocalOk(step, o)' BY <1>0, <1>8, <1>12, StaysOk, ReadsOnly, HarmlessKeeps
<1>14. QED BY <1>0, <1>8, <1>13, Landing, ReadsOnly

\* A report that goes on holds what it held, but for the note that its alarm
\* was lost.
StillHeld(p, o) == o = op[p] \/ o = [op[p] EXCEPT !.unheard = TRUE]

\* From one call of a report to the next.
LEMMA StillReporting ==
    ASSUME IInv, NEW p \in Handlers, pc[p] \in Reporting, NEW step \in Reporting,
           NEW o, StillHeld(p, o), Goto(p, step, o), DevicesKept,
           step \in Unprepared => op[p].found = NoDevice,
           step = "upsertDevice" /\ op[p].found # NoDevice
             /\ AssessTravel(op[p].found.lastFix, op[p].body.fix) =>
                TravelAlarm(op[p].user, op[p].at) \in db'.alarms \/ o.unheard
    PROVE  Moved(p)
<1>0. PICK was : was = op[p] OBVIOUS
<1>1. LocalOk(pc[p], was) /\ HasFields(was)
  BY <1>0, Held DEF IInv, Reporting, Unprepared
<1>2. IsRequest(was)
  BY <1>1 DEF LocalOk, ReportOk, IsRequest, Reports, ROUTES
<1>3. /\ o.route = was.route /\ o.token = was.token /\ o.user = was.user
      /\ o.found = was.found /\ o.at = was.at /\ o.body = was.body
      /\ DOMAIN o = DOMAIN was
  BY <1>0, <1>1, <1>2 DEF StillHeld, HasFields
<1>4. HasFields(o) BY <1>1, <1>2, <1>3 DEF HasFields, IsRequest
<1>5. ReportOk(step, o)'
  BY <1>0, <1>1, <1>3 DEF LocalOk, ReportOk, Incoming, Reporting, Unprepared, Owned, DevicesKept, IsFix,
     AssessTravel, TravelAlarm
<1>6. LocalOk(step, o)'
  BY <1>1, <1>3, <1>4, <1>5 DEF LocalOk, HasFields, IsRequest, ViewOk, ViewOnly, RouteOk, Granting,
     Incoming, Creating, Reporting, Unprepared, Viewing
<1>7. QED BY <1>6, Landing DEF IInv

\* A write of devices has to show only that each row is right.
LEMMA DeviceRows ==
    ASSUME StoreInv, Indexed, NEW devices, \A d \in DOMAIN devices : IsDevice(devices[d]),
           Write([db EXCEPT !.devices = devices], hist)
    PROVE  StoreInv' /\ Indexed' /\ db'.devices = devices /\ db'.alarms = db.alarms
<1>1. /\ DOMAIN db' = Collections /\ db'.users = db.users /\ db'.devices = devices
      /\ db'.alarms = db.alarms /\ db'.indexes = db.indexes /\ UNCHANGED <<served, hist, now>>
  BY DEF StoreInv, Write, Collections
<1>2. AccountsAreUnique' BY <1>1 DEF StoreInv, AccountsAreUnique, EmailsAreUnique
<1>3. \A d \in DOMAIN db'.devices : IsDevice(db.devices[d])'
  BY <1>1 DEF IsDevice, IsFix
<1>4. QED BY <1>1, <1>2, <1>3 DEF StoreInv, Indexed

\* The upsert of a report: a new device, or one its user has.
LEMMA UpsertDeviceSafe ==
    ASSUME IInv, NEW p \in Handlers, UpsertDevice(p), ~Answer(p)
    PROVE  Moved(p) /\ DevicesKept /\ StoreInv' /\ Indexed'
<1>0. StoreInv /\ HandlersInv BY DEF IInv
<1>1. pc[p] = "upsertDevice" BY DEF UpsertDevice
<1>2. LocalOk(pc[p], op[p]) /\ Indexed BY <1>0, <1>1, Held, Busy
<1>3. PICK d, was, row, devices :
         /\ d = op[p].token.device /\ was = Device(d)
         /\ row = [was EXCEPT !.user = op[p].user, !.lastSeen = op[p].at,
                              !.lastFix = op[p].body.fix]
         /\ devices = Put(db.devices, d, row)
  OBVIOUS
<1>4. /\ op[p].found # NoDevice \/ d \notin DOMAIN db.devices
      /\ Return(p) /\ Write([db EXCEPT !.devices = devices], hist)
  BY <1>3 DEF UpsertDevice, RowTaken
<1>5. IsFix(op[p].body.fix) /\ (op[p].found = NoDevice \/ Owned(op[p]))
  BY <1>1, <1>2 DEF LocalOk, ReportOk, Reporting
<1>6. /\ IsDevice(was)
      /\ d \in DOMAIN db.devices => was = db.devices[d] /\ was.user = op[p].user
  <2>1. CASE d \in DOMAIN db.devices
    BY <1>0, <1>3, <1>4, <1>5, <2>1 DEF Owned, Device, StoreInv
  <2>2. CASE d \notin DOMAIN db.devices
    <3>1. was = NoDevice BY <1>3, <2>2 DEF Device
    <3>2. IsDevice(NoDevice) BY DEF IsDevice, NoDevice, IsFix, NoFix
    <3>3. QED BY <2>2, <3>1, <3>2
  <2>3. QED BY <2>1, <2>2
<1>7. DOMAIN row = DOMAIN NoDevice /\ row.lastFix = op[p].body.fix /\ row.user = op[p].user
         /\ row.cred = was.cred
  BY <1>3, <1>6 DEF IsDevice, NoDevice
<1>8. IsDevice(row)
  <2>1. row.cred \in {Nobody, row.user}
    <3>1. CASE d \in DOMAIN db.devices BY <1>6, <1>7, <3>1 DEF IsDevice
    <3>2. CASE d \notin DOMAIN db.devices BY <1>3, <1>7, <3>2 DEF Device, NoDevice
    <3>3. QED BY <3>1, <3>2
  <2>2. QED BY <1>5, <1>7, <2>1 DEF IsDevice
<1>9. /\ DOMAIN devices = DOMAIN db.devices \cup {d}
      /\ \A e \in DOMAIN devices : devices[e] = IF e = d THEN row ELSE db.devices[e]
  BY <1>3 DEF Put
<1>10. StoreInv' /\ Indexed' /\ db'.devices = devices /\ db'.alarms = db.alarms
  BY <1>0, <1>2, <1>4, <1>8, <1>9, DeviceRows DEF StoreInv
<1>11. DevicesKept
  <2>1. ASSUME NEW e \in DOMAIN db.devices
        PROVE  e \in DOMAIN devices /\ devices[e].user = db.devices[e].user
    <3>1. CASE e = d BY <1>6, <1>7, <1>9, <3>1
    <3>2. CASE e # d BY <1>9, <3>2
    <3>3. QED BY <3>1, <3>2
  <2>2. QED BY <1>10, <2>1 DEF DevicesKept
<1>12. QED BY <1>0, <1>4, <1>10, <1>11, Resting

\* The same of credentials.
LEMMA StoreCredSafe ==
    ASSUME IInv, NEW p \in Handlers, StoreCred(p), ~Answer(p)
    PROVE  Moved(p) /\ DevicesKept /\ StoreInv' /\ Indexed'
<1>0. StoreInv /\ HandlersInv BY DEF IInv
<1>1. pc[p] = "storeCred" BY DEF StoreCred
<1>2. LocalOk(pc[p], op[p]) /\ Indexed BY <1>0, <1>1, Held, Busy
<1>3. PICK d : d = op[p].token.device OBVIOUS
<1>4. op[p].found = NoDevice \/ Owned(op[p])
  BY <1>1, <1>2 DEF LocalOk, ReportOk
<1>5. Return(p) BY DEF StoreCred
<1>6. CASE op[p].found # NoDevice
  <2>1. PICK row, devices : row = [db.devices[d] EXCEPT !.cred = op[p].user]
                           /\ devices = [db.devices EXCEPT ![d] = row]
    OBVIOUS
  <2>2. Write([db EXCEPT !.devices = devices], hist)
    BY <1>3, <1>6, <2>1 DEF StoreCred
  <2>3. d \in DOMAIN db.devices /\ db.devices[d].user = op[p].user /\ IsDevice(db.devices[d])
    BY <1>0, <1>3, <1>4, <1>6 DEF Owned, StoreInv
  <2>4. IsDevice(row) /\ row.user = op[p].user
    BY <2>1, <2>3 DEF IsDevice, NoDevice, IsFix
  <2>5. StoreInv' /\ Indexed' /\ db'.devices = devices /\ db'.alarms = db.alarms
    BY <1>0, <1>2, <2>1, <2>2, <2>4, DeviceRows DEF StoreInv
  <2>6. DevicesKept BY <2>1, <2>3, <2>4, <2>5 DEF DevicesKept
  <2>7. QED BY <1>0, <1>5, <2>5, <2>6, Resting
<1>7. CASE op[p].found = NoDevice
  <2>1. PICK row, devices :
           /\ row = [NoDevice EXCEPT !.user = op[p].user, !.lastSeen = op[p].at,
                                     !.cred = op[p].user]
           /\ devices = Put(db.devices, d, row)
    OBVIOUS
  <2>2. d \notin DOMAIN db.devices /\ Write([db EXCEPT !.devices = devices], hist)
    BY <1>3, <1>7, <2>1 DEF StoreCred, RowTaken
  <2>3. IsDevice(row) BY <2>1 DEF IsDevice, NoDevice, IsFix, NoFix
  <2>4. /\ DOMAIN devices = DOMAIN db.devices \cup {d}
        /\ \A e \in DOMAIN devices : devices[e] = IF e = d THEN row ELSE db.devices[e]
    BY <2>1 DEF Put
  <2>5. StoreInv' /\ Indexed' /\ db'.devices = devices /\ db'.alarms = db.alarms
    BY <1>0, <1>2, <2>2, <2>3, <2>4, DeviceRows DEF StoreInv
  <2>6. DevicesKept BY <2>2, <2>4, <2>5 DEF DevicesKept
  <2>7. QED BY <1>0, <1>5, <2>5, <2>6, Resting
<1>8. QED BY <1>6, <1>7

\* The two steps that write rows of devices.
DeviceWrite(p) == (UpsertDevice(p) \/ StoreCred(p)) /\ ~Answer(p)

\* The other calls on devices and usage.
LEMMA DeviceSafe ==
    ASSUME IInv, NEW p \in Handlers, DeviceStep(p), ~DeviceWrite(p)
    PROVE  Moved(p) /\ Harmless
<1> USE DEF Past, Special, Granting, Incoming, Creating, Reporting, Unprepared, Viewing
<1>0. StoreInv /\ HandlersInv BY DEF IInv
<1>1. CASE Presence(p) BY <1>1, PresenceSafe
<1>2. CASE FindDevice(p) BY <1>2, FindDeviceSafe
<1>3. CASE WithoutDevice(p) BY <1>0, <1>3, Answering DEF WithoutDevice
<1>4. CASE OwnershipConflict(p)
  BY <1>0, <1>4, Resting, Raising DEF OwnershipConflict
<1>5. CASE IpMismatch(p)
  <2>1. Harmless BY <1>0, <1>5, Raising DEF IpMismatch
  <2>2. DevicesKept BY <1>0, <2>1, HarmlessKeeps
  <2>3. PICK step : /\ step \in {"findPriorDevices", "assessTravel"}
                    /\ step = "findPriorDevices" => op[p].found = NoDevice
                    /\ Goto(p, step, op[p]) /\ pc[p] = "ipMismatch"
    BY <1>5 DEF IpMismatch
  <2>4. QED BY <2>1, <2>2, <2>3, StillReporting DEF StillHeld
<1>6. CASE FindPriorDevices(p)
  <2>1. Harmless BY <1>0, <1>6, ReadsOnly DEF FindPriorDevices, Read
  <2>2. DevicesKept BY <1>0, <2>1, HarmlessKeeps
  <2>3. op[p].found = NoDevice
    BY <1>0, <1>6, Held DEF FindPriorDevices, LocalOk, ReportOk
  <2>4. PICK step : /\ step \in {"newDevice", "upsertDevice"}
                    /\ Goto(p, step, op[p]) /\ pc[p] = "findPriorDevices"
    BY <1>6 DEF FindPriorDevices, Read
  <2>5. QED BY <2>1, <2>2, <2>3, <2>4, StillReporting DEF StillHeld
<1>7. CASE NewDevice(p)
  <2>1. Harmless BY <1>0, <1>7, Raising DEF NewDevice
  <2>2. DevicesKept BY <1>0, <2>1, HarmlessKeeps
  <2>3. op[p].found = NoDevice
    BY <1>0, <1>7, Held DEF NewDevice, LocalOk, ReportOk
  <2>4. QED BY <1>7, <2>1, <2>2, <2>3, StillReporting DEF NewDevice, StillHeld
<1>8. CASE Travelled(p)
  <2>0. pc[p] = "assessTravel" /\ HasFields(op[p]) /\ IsRequest(op[p])
    <3>1. pc[p] = "assessTravel" BY <1>8 DEF Travelled
    <3>2. QED
      BY <1>0, <3>1, Held DEF LocalOk, ReportOk, IsRequest, Reports, ROUTES
  <2>1. PICK o : /\ StillHeld(p, o) /\ Goto(p, "upsertDevice", o) /\ Harmless
                 /\ AssessTravel(op[p].found.lastFix, op[p].body.fix) =>
                       TravelAlarm(op[p].user, op[p].at) \in db'.alarms \/ o.unheard
    <3>1. CASE /\ Goto(p, "upsertDevice", op[p])
               /\ Write(Raise(TravelAlarm(op[p].user, op[p].at)), hist)
      <4>1. Harmless BY <1>0, <3>1, Raising DEF Emit
      <4>2. TravelAlarm(op[p].user, op[p].at) \in db'.alarms
        BY <1>0, <3>1 DEF Write, Raise, StoreInv, Collections
      <4>3. QED BY <3>1, <4>1, <4>2 DEF StillHeld
    <3>2. CASE Goto(p, "upsertDevice", [op[p] EXCEPT !.unheard = TRUE]) /\ LoseAlarm
      <4>1. PICK o : o = [op[p] EXCEPT !.unheard = TRUE] OBVIOUS
      <4>2. Harmless BY <1>0, <3>2 DEF LoseAlarm, Write, StoreInv, Harmless
      <4>3. o.unheard BY <2>0, <4>1 DEF HasFields
      <4>4. QED BY <3>2, <4>1, <4>2, <4>3 DEF StillHeld
    <3>3. CASE /\ ~AssessTravel(op[p].found.lastFix, op[p].body.fix)
               /\ Goto(p, "upsertDevice", op[p]) /\ Write(db, hist)
      <4>1. Harmless BY <1>0, <3>3 DEF Write, StoreInv, Harmless
      <4>2. QED BY <3>3, <4>1 DEF StillHeld
    <3>4. QED BY <1>8, <3>1, <3>2, <3>3 DEF Travelled
  <2>2. DevicesKept BY <1>0, <2>1, HarmlessKeeps
  <2>3. "assessTravel" \in Reporting /\ "upsertDevice" \in Reporting OBVIOUS
  <2>4. QED BY <2>0, <2>1, <2>2, <2>3, StillReporting
<1>9. CASE UpsertDevice(p) \/ StoreCred(p)
  BY <1>0, <1>9, Answering DEF DeviceWrite
<1>10. CASE DeadManScan(p) BY <1>10, DeadManScanSafe
<1>11. CASE ScanDevices(p)
  <2>1. CASE Answer(p) BY <1>0, <2>1, Answering
  <2>2. CASE \E silent : Read(p, "raiseSilent", [op[p] EXCEPT !.silent = silent])
    <3>1. PICK silent, o : o = [op[p] EXCEPT !.silent = silent] /\ Read(p, "raiseSilent", o)
      BY <2>2
    <3>2. pc[p] = "scanDevices" /\ HasFields(op[p]) BY <1>0, <1>11, Held DEF ScanDevices
    <3>3. Keeps(p, o) BY <3>1, <3>2 DEF Keeps, HasFields, IsRequest
    <3>4. Goto(p, "raiseSilent", o) BY <3>1 DEF Read
    <3>5. QED BY <1>0, <3>1, <3>2, <3>3, <3>4, Plain, ReadsOnly DEF Read
  <2>3. QED BY <1>11, <2>1, <2>2 DEF ScanDevices
<1>12. CASE RaiseSilent(p)
  <2>0. PICK alarm \in op[p].silent :
          /\ Emit(alarm)
          /\ \/ Return(p)
             \/ Goto(p, "raiseSilent", [op[p] EXCEPT !.silent = @ \ {alarm}])
    BY <1>12 DEF RaiseSilent
  <2>1. PICK rest, o : rest = op[p].silent \ {alarm} /\ o = [op[p] EXCEPT !.silent = rest]
    OBVIOUS
  <2>2. pc[p] = "raiseSilent" /\ HasFields(op[p]) BY <1>0, <1>12, Held DEF RaiseSilent
  <2>3. Keeps(p, o) BY <2>1, <2>2 DEF Keeps, HasFields, IsRequest
  <2>4. Return(p) \/ Goto(p, "raiseSilent", o) BY <2>0, <2>1
  <2>5. QED BY <1>0, <2>0, <2>2, <2>3, <2>4, Plain, Resting, Raising
<1>13. CASE FindOwner(p)
  <2>1. CASE Answer(p) BY <1>0, <2>1, Answering
  <2>2. CASE ~Answer(p)
    <3>1. PICK found, o : found = Device(op[p].token.device) /\ o = [op[p] EXCEPT !.found = found]
      OBVIOUS
    <3>2. /\ found = NoDevice \/ found.user = op[p].user
          /\ Goto(p, "storeCred", o) /\ UNCHANGED <<served, db, hist, process, now, begun>>
      BY <1>13, <2>2, <3>1 DEF FindOwner, Read
    <3>3. pc[p] = "findOwner" /\ HasFields(op[p]) /\ LocalOk(pc[p], op[p])
      BY <1>0, <1>13, Held DEF FindOwner
    <3>4. op[p].route = "putCred" /\ IsRequest(op[p])
      BY <3>3 DEF LocalOk, ReportOk, IsRequest, ROUTES
    <3>5. /\ HasFields(o) /\ o.found = found /\ o.route = op[p].route
          /\ o.user = op[p].user /\ o.token = op[p].token
      BY <3>1, <3>3, <3>4 DEF HasFields, IsRequest
    <3>6. o.found = NoDevice \/ Owned(o)
      BY <3>1, <3>2, <3>5 DEF Device, Owned
    <3>7. LocalOk("storeCred", o)
      BY <3>3, <3>4, <3>5, <3>6 DEF LocalOk, ViewOk, ViewOnly, RouteOk, ReportOk, IsRequest
    <3>8. LocalOk("storeCred", o)' BY <1>0, <3>2, <3>7, StaysOk, ReadsOnly, HarmlessKeeps
    <3>9. QED BY <1>0, <3>2, <3>8, Landing, ReadsOnly
  <2>3. QED BY <2>1, <2>2
<1>14. CASE ReadCred(p) BY <1>0, <1>14, Answering DEF ReadCred
<1>15. CASE FindUsage(p)
  <2>1. PICK found, list, o : /\ o = [op[p] EXCEPT !.found = found, !.body.accounts = list]
                             /\ Read(p, "writeUsage", o)
    BY <1>15 DEF FindUsage
  <2>2. pc[p] = "findUsage" /\ HasFields(op[p]) BY <1>0, <1>15, Held DEF FindUsage
  <2>3. Keeps(p, o) BY <2>1, <2>2 DEF Keeps, HasFields, IsRequest
  <2>4. Goto(p, "writeUsage", o) BY <2>1 DEF Read
  <2>5. QED BY <1>0, <2>1, <2>2, <2>3, <2>4, Plain, ReadsOnly DEF Read
<1>16. CASE NothingReported(p) BY <1>0, <1>16, Answering DEF NothingReported
<1>17. CASE WriteUsage(p)
  <2>1. CASE Answer(p) BY <1>0, <2>1, Answering
  <2>2. CASE ~Answer(p)
    <3>1. PICK rest, o : /\ rest = Tail(op[p].body.accounts)
                        /\ o = [op[p] EXCEPT !.body.accounts = rest, !.found = Nothing]
      OBVIOUS
    <3>2. Return(p) \/ Goto(p, "findUsage", o)
      BY <1>17, <2>2, <3>1 DEF WriteUsage
    <3>3. Harmless
      <4>1. Write(db, hist)
               \/ \E usage, reports, mixed :
                     Write([db EXCEPT !.usage = usage],
                           [hist EXCEPT !.reports = reports, !.mixed = mixed])
        BY <1>17, <2>2 DEF WriteUsage
      <4>2. QED BY <1>0, <4>1 DEF Write, StoreInv, Harmless, Collections
    <3>4. pc[p] = "writeUsage" /\ HasFields(op[p]) BY <1>0, <1>17, Held DEF WriteUsage
    <3>5. Keeps(p, o) BY <3>1, <3>4 DEF Keeps, HasFields, IsRequest
    <3>6. QED BY <1>0, <3>2, <3>3, <3>4, <3>5, Plain, Resting
  <2>3. QED BY <2>1, <2>2
<1>18. CASE ReadUsage(p) BY <1>0, <1>18, Answering DEF ReadUsage
<1>19. QED
  BY <1>1, <1>2, <1>3, <1>4, <1>5, <1>6, <1>7, <1>8, <1>9, <1>10, <1>11, <1>12, <1>13, <1>14,
     <1>15, <1>16, <1>17, <1>18 DEF DeviceStep

----------------------------------------------------------------------------
(* Every step.                                                             *)

HandlerStep(p) ==
    Arrive(p) \/ GateStep(p) \/ AccountStep(p) \/ DeviceStep(p) \/ Die(p)

\* A handler goes on only when the addresses are indexed, or a start-up failed.
LEMMA Started ==
    ASSUME IInv, NEW p \in Handlers, HandlerStep(p)
    PROVE  Indexed
<1>1. CASE pc[p] # "idle" BY <1>1, Busy
<1>2. CASE pc[p] = "idle"
  <2>1. ~GateStep(p) /\ ~Die(p)
    BY <1>2 DEF GateStep, GlobalRules, FindUser, UserRules, Deny, RequireAdmin, RecordRule,
       InsertRule, ListRules, FindRule, RecordRemoval, DeleteRule, RecordCountries,
       SetCountries, Die
  <2>2. AccountStep(p) => CreateAdmin(p) \/ IssueCode(p)
    BY <1>2 DEF AccountStep, ResolveMx, ResolveHost, FindEmail, InsertUser, MakeAdmin, Activate,
       FindTarget, AdminForGrant, TargetForGrant, RecordGrant, ApplyGrant, MarkVerified,
       CountSends, FindPriors, ConsumePrior, InsertCode, FindByEmail, FindCode, BumpAttempts,
       Consume, Confirm
  <2>3. DeviceStep(p) => Presence(p) \/ DeadManScan(p)
    BY <1>2 DEF DeviceStep, FindDevice, WithoutDevice, OwnershipConflict, IpMismatch,
       FindPriorDevices, NewDevice, Travelled, UpsertDevice, ScanDevices, RaiseSilent, FindOwner,
       StoreCred, ReadCred, FindUsage, NothingReported, WriteUsage, ReadUsage
  <2>4. QED
    BY <2>1, <2>2, <2>3, Arriving, CreateAdminSafe, IssueCodeSafe, PresenceSafe, DeadManScanSafe
       DEF HandlerStep
<1>3. QED BY <1>1, <1>2

\* Every step of a handler preserves the invariant.
LEMMA HandlerStepSafe ==
    ASSUME IInv, NEW p \in Handlers, HandlerStep(p)
    PROVE  IInv' /\ DevicesKept /\ Alone(p)
<1>0. StoreInv /\ HandlersInv /\ Indexed BY Started DEF IInv
<1>1. CASE InsertUser(p) BY <1>1, InsertUserSafe, Preserved DEF Moved
<1>2. CASE DeviceWrite(p)
  BY <1>2, UpsertDeviceSafe, StoreCredSafe, Preserved DEF DeviceWrite, Moved
<1>3. CASE ~InsertUser(p) /\ ~DeviceWrite(p)
  <2>1. Moved(p) /\ Harmless
    BY <1>0, <1>3, Arriving, GateSafe, AccountSafe, DeviceSafe, Answering DEF HandlerStep, Die
  <2>2. QED BY <1>0, <2>1, HarmlessPreserves, HarmlessKeeps DEF Moved
<1>4. QED BY <1>1, <1>2, <1>3

\* What happens besides the handlers.
Elsewhere == StartUp \/ ExpireCode \/ ExpireUsage \/ Elapse \/ UNCHANGED vars

\* What handlers hold stays right when none of them moves.
LEMMA StandingStill ==
    ASSUME HandlersInv, DevicesKept, UNCHANGED <<pc, op>>
    PROVE  HandlersInv'
<1>1. ASSUME NEW q \in Handlers PROVE LocalOk(pc[q], op[q])'
  <2>1. LocalOk(pc[q], op[q]) BY DEF HandlersInv
  <2>2. pc'[q] = pc[q] /\ op'[q] = op[q] OBVIOUS
  <2>3. QED BY <2>1, <2>2, StaysOk
<1>2. QED BY <1>1 DEF HandlersInv

\* Start-up has its indexes before it serves, or failed once.
LEMMA StartUpSafe ==
    ASSUME IInv, StartUp
    PROVE  IInv' /\ DevicesKept /\ UNCHANGED <<pc, op>>
<1>0. StoreInv /\ StartInv /\ HandlersInv BY DEF IInv
<1>1. /\ DOMAIN db' = Collections /\ db'.users = db.users /\ db'.devices = db.devices
      /\ db'.alarms = db.alarms /\ db.indexes \subseteq db'.indexes
      /\ hist'.bootFailed \in {hist.bootFailed, TRUE} /\ "bootFailed" \in DOMAIN hist'
      /\ hist'.bootFailed = hist.bootFailed \/ hist'.bootFailed = TRUE
      /\ UNCHANGED <<served, now, pc, op>>
  BY <1>0 DEF StartUp, BuildContext, IndexEmails, IndexExpiry, FailIndex, Restart, Start,
     StoreInv, Collections
<1>2. AccountsAreUnique'
  BY <1>0, <1>1 DEF StoreInv, AccountsAreUnique, EmailsAreUnique
<1>3. StoreInv'
  <2>1. \A d \in DOMAIN db'.devices : IsDevice(db.devices[d])'
    BY <1>0, <1>1 DEF StoreInv, IsDevice, IsFix
  <2>2. QED BY <1>0, <1>1, <1>2, <2>1 DEF StoreInv
<1>4. StartInv'
  <2>1. CASE Indexed BY <1>1, <2>1 DEF StartInv, Indexed
  <2>2. CASE ~Indexed
    <3>1. /\ \A p \in Handlers : pc[p] = "idle"
          /\ process.context = "email" \/ process = [context |-> "none", cached |-> FALSE]
      BY <1>0, <2>2 DEF StartInv
    <3>2. CASE BuildContext
      <4>1. process'.context = "email"
        BY <3>1, <3>2 DEF BuildContext, Start
      <4>2. QED BY <1>1, <3>1, <4>1 DEF StartInv
    <3>3. CASE IndexEmails
      BY <1>0, <3>3 DEF IndexEmails, StoreInv, Collections, StartInv, Indexed
    <3>4. CASE FailIndex
      BY <1>0, <3>4 DEF FailIndex, StoreInv, StartInv, Indexed
    <3>5. ~IndexExpiry /\ ~Restart
      <4>1. process.context \in {"email", "none"} BY <3>1
      <4>2. QED BY <4>1 DEF IndexExpiry, Restart
    <3>6. QED BY <3>2, <3>3, <3>4, <3>5 DEF StartUp
  <2>3. QED BY <2>1, <2>2
<1>5. DevicesKept BY <1>1 DEF DevicesKept
<1>6. QED BY <1>0, <1>1, <1>3, <1>4, <1>5, StandingStill DEF IInv

\* The steps of nobody in particular preserve the invariant too.
LEMMA ElsewhereSafe ==
    ASSUME IInv, Elsewhere
    PROVE  IInv' /\ DevicesKept /\ UNCHANGED <<pc, op>>
<1>0. StoreInv /\ StartInv /\ HandlersInv BY DEF IInv
<1>1. CASE StartUp BY <1>1, StartUpSafe
<1>2. CASE ~StartUp
  <2>1. UNCHANGED <<pc, op, process>> /\ now' \in Int
    <3>1. UNCHANGED <<pc, op, process>> /\ now' \in {now, now + 1}
      <4>1. CASE ExpireUsage BY <4>1 DEF ExpireUsage
      <4>2. CASE ~ExpireUsage BY <1>2, <4>2 DEF Elsewhere, ExpireCode, Elapse, vars
      <4>3. QED BY <4>1, <4>2
    <3>2. QED BY <1>0, <3>1 DEF StoreInv
  <2>2. /\ DOMAIN db' = Collections /\ db'.users = db.users /\ db'.devices = db.devices
        /\ db'.alarms = db.alarms /\ db'.indexes = db.indexes /\ served' = served
        /\ "bootFailed" \in DOMAIN hist' /\ hist'.bootFailed = hist.bootFailed
    BY <1>0, <1>2 DEF Elsewhere, ExpireCode, ExpireUsage, Elapse, vars, StoreInv, Collections
  <2>3. AccountsAreUnique' BY <1>0, <2>2 DEF StoreInv, AccountsAreUnique, EmailsAreUnique
  <2>4. \A d \in DOMAIN db'.devices : IsDevice(db.devices[d])'
    BY <1>0, <2>2 DEF StoreInv, IsDevice, IsFix
  <2>5. StoreInv' BY <1>0, <2>1, <2>2, <2>3, <2>4 DEF StoreInv
  <2>6. StartInv' BY <1>0, <2>1, <2>2 DEF StartInv, Indexed
  <2>7. DevicesKept BY <2>2 DEF DevicesKept
  <2>8. QED BY <1>0, <2>1, <2>5, <2>6, <2>7, StandingStill DEF IInv
<1>3. QED BY <1>1, <1>2

\* A step is one of a handler, or one of nobody in particular.
LEMMA Steps ==
    [Next]_vars <=> Elsewhere \/ \E p \in Handlers : HandlerStep(p)
BY DEF Next, Elsewhere, HandlerStep

\* The invariant holds at first, by what is assumed of the stores ...
LEMMA InitOk == Init => IInv
<1> SUFFICES ASSUME Init PROVE IInv OBVIOUS
<1>1. /\ served \in DOMAIN Loads /\ db = Loads[served].store /\ hist = NoHistory
      /\ process = [context |-> Loads[served].process, cached |-> FALSE] /\ now = 0
  BY DEF Init, load
<1>2. StoreInv
  BY <1>1, StoresAssumption, AccountsAssumption, ReportsAssumption
     DEF StoreInv, NoHistory, AccountsAreUnique, EmailsAreUnique, NewUser
<1>3. LocalOk("idle", Idle)
  BY DEF LocalOk, Idle, ViewOk, RouteOk, ReportOk, Granting, Incoming, Creating, Reporting,
     Unprepared
<1>4. HandlersInv BY <1>3 DEF Init, HandlersInv
<1>5. StartInv
  <2>1. CASE Loads[served].process = "ready"
    BY <1>1, <2>1, AccountsAssumption DEF StartInv, Indexed
  <2>2. CASE Loads[served].process = "none" BY <1>1, <2>2 DEF StartInv, Init
  <2>3. QED BY <1>1, <2>1, <2>2, StoresAssumption
<1>6. QED BY <1>2, <1>4, <1>5 DEF IInv

\* ... and every step preserves it ...
LEMMA StepOk == IInv /\ [Next]_vars => IInv'
BY Steps, HandlerStepSafe, ElsewhereSafe

\* ... so that it always holds.
LEMMA Invariance == Spec => []IInv
BY InitOk, StepOk, PTL DEF Spec

----------------------------------------------------------------------------
(* What is claimed.                                                        *)

\* No two accounts have one address, however many sign-ups and administrators
\* look for it at once, unless a start-up failed at the index.
THEOREM AddressesAreUnique == Spec => []AccountsAreUnique
<1>1. IInv => AccountsAreUnique BY DEF IInv, StoreInv
<1>2. QED BY <1>1, Invariance, PTL

\* A device stays with the user who had it first, and holds no credentials but
\* his, however reports and credentials of several users interleave.
THEOREM DevicesKeepOwners == Spec => DeviceKeepsOwner
<1>1. ASSUME IInv, [Next]_vars
      PROVE  \A d \in DOMAIN db.devices :
                /\ d \in DOMAIN db'.devices
                /\ db'.devices[d].user = db.devices[d].user
                /\ db'.devices[d].cred \in {Nobody, db'.devices[d].user}
  <2>1. DevicesKept BY <1>1, Steps, HandlerStepSafe, ElsewhereSafe
  <2>2. StoreInv' BY <1>1, StepOk DEF IInv
  <2>3. QED BY <2>1, <2>2 DEF DevicesKept, StoreInv, IsDevice
<1>2. QED BY <1>1, Invariance, PTL DEF Spec, DeviceKeepsOwner

\* A handler that serves a view-only token never changes a collection, whatever
\* route it asks for and whatever happens between the check and the handler.
THEOREM ViewersReadOnly == Spec => ViewersOnlyRead
<1>0. ASSUME IInv, [Next]_vars, NEW p \in Handlers,
             InHandler(p), ROUTES[op[p].route].auth, op[p].token.scope = "view", op'[p] # op[p]
      PROVE  db' = db
  <2>1. pc[p] \in {"requireAdmin", "listRules"}
    BY <1>0 DEF IInv, HandlersInv, LocalOk, ViewOk, ViewOnly, InHandler, Viewing
  <2>2. HandlerStep(p)
    <3>1. ~Elsewhere BY <1>0, ElsewhereSafe
    <3>2. PICK q \in Handlers : HandlerStep(q) BY <1>0, <3>1, Steps
    <3>3. q = p BY <1>0, <3>2, HandlerStepSafe DEF Alone
    <3>4. QED BY <3>2, <3>3
  <2>3. CASE Arrive(p) BY <2>1, <2>3 DEF Arrive, Begin
  <2>4. CASE Die(p) BY <2>4 DEF Die, Answer, Read
  <2>5. CASE GateStep(p)
    <3>1. RequireAdmin(p) \/ ListRules(p)
      BY <2>1, <2>5 DEF GateStep, GlobalRules, FindUser, UserRules, Deny, RecordRule, InsertRule,
         FindRule, RecordRemoval, DeleteRule, RecordCountries, SetCountries
    <3>2. QED BY <3>1 DEF RequireAdmin, ListRules, Answer, Read
  <2>6. ~AccountStep(p)
    BY <2>1 DEF AccountStep, ResolveMx, ResolveHost, FindEmail, InsertUser, CreateAdmin, MakeAdmin,
       Activate, FindTarget, AdminForGrant, TargetForGrant, RecordGrant, ApplyGrant, MarkVerified,
       IssueCode, CountSends, FindPriors, ConsumePrior, InsertCode, FindByEmail, FindCode,
       BumpAttempts, Consume, Confirm, Begin
  <2>7. ~DeviceStep(p)
    BY <2>1 DEF DeviceStep, Presence, FindDevice, WithoutDevice, OwnershipConflict, IpMismatch,
       FindPriorDevices, NewDevice, Travelled, UpsertDevice, DeadManScan, ScanDevices, RaiseSilent,
       FindOwner, StoreCred, ReadCred, FindUsage, NothingReported, WriteUsage, ReadUsage, Begin
  <2>8. QED BY <2>2, <2>3, <2>4, <2>5, <2>6, <2>7 DEF HandlerStep
<1>1. ASSUME IInv, [Next]_vars
      PROVE  \A p \in Handlers :
                InHandler(p) /\ ROUTES[op[p].route].auth /\ op[p].token.scope = "view"
                   /\ op'[p] # op[p] => db' = db
  BY <1>0, <1>1
<1>2. QED BY <1>1, Invariance, PTL DEF Spec, ViewersOnlyRead

\* Whatever nobody can have travelled is assessed as such.
LEMMA Assessed ==
    ASSUME NEW from, NEW to, IsFix(from), IsFix(to), Teleported(from, to)
    PROVE  AssessTravel(from, to)
<1>1. PICK hours \in 1..TravelWindow :
         /\ to.at = from.at + hours /\ hours >= MinTravel
         /\ Distance(from.place, to.place) > MaxKmh * hours
         /\ Distance(from.place, to.place) >= MinKm
  BY DEF Teleported
<1>2. hours = to.at - from.at /\ hours \in Int /\ hours > 0 /\ hours <= TravelWindow
  BY <1>1 DEF IsFix
<1>3. Timely(to.at - from.at) BY <1>1, <1>2 DEF Timely
<1>4. QED BY <1>1, <1>2, <1>3 DEF AssessTravel, Teleported

\* The fix of a device is replaced by the upsert of a report on it, and by
\* nothing else.
LEMMA FixesStay ==
    ASSUME IInv, [Next]_vars, NEW d \in DOMAIN db.devices,
           db'.devices[d].lastFix # db.devices[d].lastFix
    PROVE  \E p \in Handlers : /\ UpsertDevice(p) /\ ~Answer(p) /\ d = op[p].token.device
                               /\ db'.devices[d].lastFix = op[p].body.fix
<1>0. StoreInv /\ HandlersInv BY DEF IInv
<1>1. ~Elsewhere
  BY <1>0 DEF Elsewhere, StartUp, BuildContext, IndexEmails, IndexExpiry, FailIndex, Restart, Start,
     ExpireCode, ExpireUsage, Elapse, vars, StoreInv, Collections
<1>2. PICK p \in Handlers : HandlerStep(p) BY <1>1, Steps
<1>3. DeviceWrite(p)
  <2>1. CASE InsertUser(p)
    <3>1. db'.devices = db.devices
      BY <1>0, <2>1 DEF InsertUser, Answer, Read, Write, StoreInv, Collections
    <3>2. QED BY <3>1
  <2>2. CASE ~InsertUser(p) /\ ~DeviceWrite(p)
    <3>1. Harmless
      BY <1>0, <1>2, <2>2, Arriving, GateSafe, AccountSafe, DeviceSafe, Answering
         DEF HandlerStep, Die
    <3>2. QED BY <3>1 DEF Harmless
  <2>3. QED BY <2>1, <2>2
<1>4. ~StoreCred(p)
  <2>1. SUFFICES ASSUME StoreCred(p) PROVE FALSE OBVIOUS
  <2>2. RowTaken(p) => UNCHANGED db BY <2>1 DEF StoreCred, Answer, Read
  <2>3. op[p].found # NoDevice /\ ~RowTaken(p) =>
           db' = [db EXCEPT !.devices[op[p].token.device].cred = op[p].user]
    BY <2>1 DEF StoreCred, Write
  <2>4. op[p].found = NoDevice /\ ~RowTaken(p) => d # op[p].token.device
    BY DEF RowTaken
  <2>5. op[p].found = NoDevice /\ ~RowTaken(p) =>
           \E row : db' = [db EXCEPT !.devices = Put(@, op[p].token.device, row)]
    BY <2>1 DEF StoreCred, Write
  <2>6. QED
    BY <1>0, <2>2, <2>3, <2>4, <2>5 DEF StoreInv, Collections, IsDevice, NoDevice, Put
<1>5. UpsertDevice(p) /\ ~Answer(p) BY <1>3, <1>4 DEF DeviceWrite
<1>6. PICK e, was, row :
         /\ e = op[p].token.device /\ was = Device(e)
         /\ row = [was EXCEPT !.user = op[p].user, !.lastSeen = op[p].at,
                              !.lastFix = op[p].body.fix]
  OBVIOUS
<1>7. db' = [db EXCEPT !.devices = Put(@, e, row)]
  BY <1>5, <1>6 DEF UpsertDevice, Write
<1>8. db'.devices[d] = IF d = e THEN row ELSE db.devices[d]
  BY <1>0, <1>7 DEF StoreInv, Collections, Put
<1>9. d = e BY <1>8
<1>10. was = db.devices[d] /\ IsDevice(was) BY <1>0, <1>6, <1>9 DEF Device, StoreInv
<1>11. row.lastFix = op[p].body.fix BY <1>6, <1>10 DEF IsDevice, NoDevice
<1>12. QED BY <1>5, <1>6, <1>8, <1>9, <1>11

\* A fix is only replaced by a report of its device, and one that cannot have
\* been travelled to from the fix the report found is not stored without the
\* alarm in the store, or lost by emit, however many reports overlap.
THEOREM TravellersAreFlagged == Spec => TravelIsFlagged
<1>0. ASSUME IInv, [Next]_vars, NEW d \in DOMAIN db.devices,
             db.devices[d].lastFix # db'.devices[d].lastFix
      PROVE  \E p \in Handlers :
                /\ pc[p] = "upsertDevice" /\ op'[p] # op[p] /\ op[p].token.device = d
                /\ \/ ~Teleported(op[p].found.lastFix, db'.devices[d].lastFix)
                   \/ TravelAlarm(db.devices[d].user, db'.devices[d].lastFix.at) \in db.alarms
                   \/ op[p].unheard
  <2>0. StoreInv /\ HandlersInv BY <1>0 DEF IInv
  <2>1. PICK p \in Handlers : /\ UpsertDevice(p) /\ ~Answer(p) /\ d = op[p].token.device
                              /\ db'.devices[d].lastFix = op[p].body.fix
    BY <1>0, FixesStay
  <2>2. pc[p] = "upsertDevice" /\ Return(p) /\ ~RowTaken(p) BY <2>1 DEF UpsertDevice
  <2>3. LocalOk(pc[p], op[p]) BY <2>0, <2>2, Held
  <2>4. op'[p] # op[p]
    <3>1. op'[p] = Idle BY <2>0, <2>2 DEF Return, Goto, HandlersInv
    <3>2. op[p].route \in Reports BY <2>2, <2>3 DEF LocalOk, ReportOk, Reporting
    <3>3. QED BY <3>1, <3>2 DEF Idle, Reports
  <2>5. ASSUME Teleported(op[p].found.lastFix, op[p].body.fix)
        PROVE  TravelAlarm(db.devices[d].user, op[p].body.fix.at) \in db.alarms \/ op[p].unheard
    <3>1. op[p].found # NoDevice BY <2>1, <2>2 DEF RowTaken
    <3>2. /\ Owned(op[p]) /\ IsFix(op[p].found.lastFix) /\ IsFix(op[p].body.fix)
          /\ op[p].body.fix = NoFix \/ op[p].body.fix.at = op[p].at
          /\ AssessTravel(op[p].found.lastFix, op[p].body.fix) =>
                TravelAlarm(op[p].user, op[p].at) \in db.alarms \/ op[p].unheard
      BY <2>2, <2>3, <3>1 DEF LocalOk, ReportOk, Reporting
    <3>3. AssessTravel(op[p].found.lastFix, op[p].body.fix)
      BY <2>5, <3>2, Assessed
    <3>4. op[p].body.fix # NoFix BY <2>5 DEF Teleported
    <3>5. QED BY <2>1, <3>2, <3>3, <3>4 DEF Owned
  <2>6. QED BY <2>1, <2>2, <2>4, <2>5
<1>1. ASSUME IInv, [Next]_vars
      PROVE  \A d \in DOMAIN db.devices :
                db.devices[d].lastFix # db'.devices[d].lastFix =>
                   \E p \in Handlers :
                      /\ pc[p] = "upsertDevice" /\ op'[p] # op[p] /\ op[p].token.device = d
                      /\ \/ ~Teleported(op[p].found.lastFix, db'.devices[d].lastFix)
                         \/ TravelAlarm(db.devices[d].user, db'.devices[d].lastFix.at) \in db.alarms
                         \/ op[p].unheard
  BY <1>0, <1>1
<1>2. QED BY <1>1, Invariance, PTL DEF Spec, TravelIsFlagged

-----------------------------------------------------------------------------
(***************************************************************************)
(* Two proofs about who is let in.  Whatever lets somebody in or keeps him *)
(* out is on the ledger of permission changes, at every moment; and nobody *)
(* gets to a handler whom a rule, an allow list or a fence keeps out.      *)
(*                                                                         *)
(* Both rest on the invariant above.  The first strengthens it by what a   *)
(* handler knows to be on the ledger when it makes the write the entry is  *)
(* for (KnownOk), and by who is there to have made it (AuthorityInv); the  *)
(* second by what a request has passed at each call of the gate (GateOk).  *)
(***************************************************************************)

Lists == {"geoFence", "blockedCountries"}
Switches == {"importEnabled", "exportEnabled"}

\* AuthorityIsOnLedger, of one account with this row.
RowOk(u, user) ==
    LET was == IF u \in DOMAIN load.store.users THEN load.store.users[u]
               ELSE NewUser(user.email, user.role)
    IN  /\ \A field \in Switches :
              user[field] # was[field] => OnLedger(field, u, user[field]) \/ u \in hist.seeded
        /\ \A field \in Lists :
              user[field] # was[field] => OnLedger(field, u, user[field])
        /\ user.status # was.status =>
              \/ OnLedger("status", u, user.status)
              \/ /\ user.status = "active"
                 /\ u \in hist.confirmed \cup hist.seeded \/ user.createdBy # Nobody

RulesOk ==
    \A id \in DOMAIN db.rules \ DOMAIN load.store.rules :
        OnLedger("ip_rule_add", db.rules[id].user, RuleText(db.rules[id]))

UserFields == {"email", "role", "status", "verified", "createdBy", "importEnabled",
               "exportEnabled", "geoFence", "blockedCountries"}

\* What the collections hold.
AuthorityInv ==
    /\ db.issued \in Nat /\ load.store.issued <= db.issued
    /\ Nobody \notin DOMAIN db.users
    /\ \A u \in DOMAIN db.users : DOMAIN db.users[u] = UserFields
    /\ {"seeded", "confirmed"} \subseteq DOMAIN hist
    /\ RulesOk
    /\ \A u \in DOMAIN db.users : RowOk(u, db.users[u])

\* The calls of createManagedUser, made for an administrator.
Provisioning == {"userRules", "requireAdmin", "activate"} \cup Creating

\* What a handler with locals o about to make the call "step" knows.
KnownOk(step, o) ==
    /\ step = "insertRule" =>
          OnLedger("ip_rule_add", o.body.user, RuleText(o.body))
    /\ step = "setCountries" =>
          o.route \in Lists /\ OnLedger(o.route, o.body.target, o.body.countries)
    /\ step = "applyGrant" =>
          LET grant == Head(o.body.grants)
          IN  OnLedger(grant.field, o.body.target, grant.value)
    /\ step = "findTarget" => o.route \in Lists \cup DOMAIN Decision
    /\ step = "recordCountries" => o.route \in Lists
    /\ step = "activate" => o.route = "createUser"
    /\ step \in Provisioning /\ o.route = "createUser" => o.user # Nobody

Known == \A p \in Handlers : KnownOk(pc[p], op[p])

Watched == {"insertRule", "setCountries", "applyGrant", "findTarget", "recordCountries"}
             \cup Provisioning

AInv == IInv /\ AuthorityInv /\ Known

\* What every step does: the ledger only grows, and so does history.
Growing ==
    /\ db.ledger \subseteq db'.ledger
    /\ hist.seeded \subseteq hist'.seeded /\ hist.confirmed \subseteq hist'.confirmed
    /\ {"seeded", "confirmed"} \subseteq DOMAIN hist'
    /\ db'.issued \in Nat /\ db.issued <= db'.issued
    /\ served' = served

\* What a step does that has no authority to give or take.
Quiet == Growing /\ db'.users = db.users /\ db'.rules = db.rules

\* p went on, and knows what it should.
Knows(p) == KnownOk(pc[p], op[p])'

----------------------------------------------------------------------------
(* What is left alone stays right. *)

\* An entry of the ledger stays there, ...
LEMMA EntriesStay ==
    ASSUME db.ledger \subseteq db'.ledger, NEW field, NEW target, NEW to,
           OnLedger(field, target, to)
    PROVE  OnLedger(field, target, to)'
BY DEF OnLedger

\* ... so that what a handler knows of it stays known.
LEMMA KnownStays ==
    ASSUME db.ledger \subseteq db'.ledger, NEW step, NEW o, KnownOk(step, o)
    PROVE  KnownOk(step, o)'
BY EntriesStay DEF KnownOk, RuleText, Decision, Lists, Provisioning, Creating

\* Most calls ask for no knowledge, ...
LEMMA Unwatched ==
    ASSUME IInv, NEW p \in Handlers, NEW step, NEW o, Goto(p, step, o), step \notin Watched
    PROVE  Knows(p)
BY Going DEF IInv, Knows, KnownOk, Watched, Provisioning, Creating

\* ... and the others are made with it.
LEMMA Watching ==
    ASSUME IInv, NEW p \in Handlers, NEW step, NEW o, Goto(p, step, o), KnownOk(step, o)'
    PROVE  Knows(p)
BY Going DEF IInv, Knows

\* A handler at rest knows all it should.
LEMMA RestingKnows ==
    ASSUME IInv, NEW p \in Handlers, Return(p)
    PROVE  Knows(p)
BY Unwatched DEF Return, Watched, Provisioning, Creating

\* A row keeps its account if every change of it has its reason.
LEMMA RowKept ==
    ASSUME Growing, NEW u, NEW row, NEW new, RowOk(u, row),
           new.email = row.email, new.role = row.role,
           \A f \in Switches : new[f] = row[f] \/ OnLedger(f, u, new[f])' \/ u \in hist'.seeded,
           \A f \in Lists : new[f] = row[f] \/ OnLedger(f, u, new[f])',
           \/ new.status = row.status
           \/ OnLedger("status", u, new.status)'
           \/ /\ new.status = "active"
              /\ u \in hist'.confirmed \cup hist'.seeded \/ new.createdBy # Nobody,
           row.createdBy # Nobody => new.createdBy # Nobody
    PROVE  RowOk(u, new)'
<1>0. PICK was : was = IF u \in DOMAIN load.store.users THEN load.store.users[u]
                       ELSE NewUser(row.email, row.role)
  OBVIOUS
<1>1. was = IF u \in DOMAIN load'.store.users THEN load'.store.users[u]
            ELSE NewUser(new.email, new.role)
  BY <1>0 DEF load, Growing
<1>2. \A f \in Switches : new[f] # was[f] => OnLedger(f, u, new[f])' \/ u \in hist'.seeded
  BY <1>0, EntriesStay DEF RowOk, Growing
<1>3. \A f \in Lists : new[f] # was[f] => OnLedger(f, u, new[f])'
  BY <1>0, EntriesStay DEF RowOk, Growing
<1>4. new.status # was.status =>
         \/ OnLedger("status", u, new.status)'
         \/ /\ new.status = "active"
            /\ u \in hist'.confirmed \cup hist'.seeded \/ new.createdBy # Nobody
  BY <1>0, EntriesStay DEF RowOk, Growing
<1>5. QED BY <1>1, <1>2, <1>3, <1>4 DEF RowOk

\* So does a row that is left as it is.
LEMMA RowStays ==
    ASSUME Growing, NEW u, NEW row, RowOk(u, row)
    PROVE  RowOk(u, row)'
BY RowKept

\* Removing rules, or leaving them as they are, keeps the rules accounted for.
LEMMA RulesStay ==
    ASSUME Growing, RulesOk, NEW ids, ids \subseteq DOMAIN db.rules,
           db'.rules = [id \in ids |-> db.rules[id]]
    PROVE  RulesOk'
BY EntriesStay DEF Growing, RulesOk, load, RuleText

\* The same, of all the rules.
LEMMA SameRules ==
    ASSUME Growing, RulesOk, db'.rules = db.rules
    PROVE  RulesOk'
BY EntriesStay DEF Growing, RulesOk, load, RuleText

\* What is assumed of the store a behaviour starts with.
LEMMA Accounted ==
    ASSUME served \in DOMAIN Loads
    PROVE  /\ load.store.issued \in Nat
           /\ Nobody \notin Nat /\ Nobody \notin DOMAIN load.store.users
           /\ \A u \in DOMAIN load.store.users : u \in Nat => u <= load.store.issued
           /\ \A u \in DOMAIN load.store.users : DOMAIN load.store.users[u] = UserFields
<1>1. DOMAIN NewUser("", "member") = UserFields BY DEF NewUser, UserFields
<1>2. QED BY <1>1, AccountsAssumption DEF load

\* No id is issued twice.
LEMMA IdsStay ==
    ASSUME IInv, Growing, db.issued \in Nat, load.store.issued <= db.issued
    PROVE  db'.issued \in Nat /\ load'.store.issued <= db'.issued
<1>1. load'.store.issued = load.store.issued BY DEF Growing, load
<1>2. load.store.issued \in Nat BY Accounted DEF IInv, StoreInv
<1>3. QED BY <1>1, <1>2 DEF Growing

\* A step with no authority in it keeps all authority accounted for.
LEMMA QuietOk ==
    ASSUME AInv, Quiet
    PROVE  AuthorityInv'
<1>1. RulesOk' BY SameRules DEF AInv, AuthorityInv, Quiet
<1>2. \A u \in DOMAIN db'.users : RowOk(u, db.users[u])'
  BY RowStays DEF AInv, AuthorityInv, Quiet
<1>3. db'.issued \in Nat /\ load'.store.issued <= db'.issued
  BY IdsStay DEF AInv, AuthorityInv, Quiet
<1>4. QED BY <1>1, <1>2, <1>3 DEF AInv, AuthorityInv, Quiet, Growing

\* A step that only reads is one.
LEMMA UnchangedQuiet ==
    ASSUME AInv, UNCHANGED <<served, db, hist>>
    PROVE  Quiet
BY DEF AInv, AuthorityInv, Quiet, Growing

\* One account is updated with reason.
LEMMA UpdateOk ==
    ASSUME AInv, Growing, NEW t, NEW new,
           db'.users = [db.users EXCEPT ![t] = new], db'.rules = db.rules,
           t \in DOMAIN db.users => DOMAIN new = UserFields /\ RowOk(t, new)'
    PROVE  AuthorityInv'
<1>1. RulesOk' BY SameRules DEF AInv, AuthorityInv
<1>2. ASSUME NEW u \in DOMAIN db'.users
      PROVE  RowOk(u, db.users[u])' /\ DOMAIN db'.users[u] = UserFields
  <2>1. u \in DOMAIN db.users OBVIOUS
  <2>2. CASE u = t
    <3>1. db'.users[u] = new BY <2>1, <2>2
    <3>2. DOMAIN new = UserFields /\ RowOk(u, new)' BY <2>1, <2>2
    <3>3. QED BY <3>1, <3>2
  <2>3. CASE u # t
    <3>1. PICK row : row = db.users[u] OBVIOUS
    <3>2. db'.users[u] = row BY <2>1, <2>3, <3>1
    <3>3. RowOk(u, row)' BY <2>1, <3>1, RowStays DEF AInv, AuthorityInv
    <3>4. QED BY <2>1, <3>1, <3>2, <3>3 DEF AInv, AuthorityInv
  <2>4. QED BY <2>2, <2>3
<1>3. db'.issued \in Nat /\ load'.store.issued <= db'.issued
  BY IdsStay DEF AInv, AuthorityInv
<1>4. QED BY <1>1, <1>2, <1>3 DEF AInv, AuthorityInv, Growing

----------------------------------------------------------------------------
(* The gate. *)

\* A handler's step is right: it knows what it should, and authority is kept.
Right(p) == Knows(p) /\ AuthorityInv' /\ Growing

\* An answer is right.
LEMMA AnsweringRight ==
    ASSUME AInv, NEW p \in Handlers, Answer(p)
    PROVE  Right(p)
<1>1. Return(p) /\ UNCHANGED <<served, db, hist>> BY DEF Answer, Read, Return
<1>2. QED BY <1>1, RestingKnows, UnchangedQuiet, QuietOk DEF AInv, Right, Quiet

\* So is a read, if the next call is one the handler may make.
LEMMA ReadingRight ==
    ASSUME AInv, NEW p \in Handlers, NEW step, NEW o, Read(p, step, o),
           step \notin Watched \/ KnownOk(step, o)
    PROVE  Right(p)
<1>1. Goto(p, step, o) /\ UNCHANGED <<served, db, hist>> BY DEF Read
<1>2. Quiet BY <1>1, UnchangedQuiet
<1>3. Knows(p) BY <1>1, <1>2, Unwatched, Watching, KnownStays DEF AInv, Quiet, Growing
<1>4. QED BY <1>2, <1>3, QuietOk DEF Right, Quiet

\* An account is provisioned by a route for administrators.
LEMMA AdminRoutes ==
    /\ ROUTES["createUser"].auth /\ ROUTES["createUser"].admin
    /\ ROUTES["createUser"].first = "requireAdmin"
BY DEF ROUTES, Open, Member, Admin

\* The pipeline hands over to the handler of the route.
LEMMA DispatchingRight ==
    ASSUME AInv, NEW p \in Handlers, pc[p] \in Incoming, Dispatch(p),
           op[p].route = "createUser" => op[p].user # Nobody
    PROVE  Right(p)
<1>0. PICK first, o :
        /\ first = ROUTES[op[p].route].first
        /\ o = [op[p] EXCEPT !.at = now, !.found = Nothing, !.country = NoCountry]
  OBVIOUS
<1>1. Read(p, first, o) BY <1>0 DEF Dispatch, MatchRoute
<1>2. LocalOk(pc[p], op[p]) /\ HasFields(op[p]) BY Held DEF AInv, IInv, Incoming
<1>3. op[p].route \in DOMAIN ROUTES BY <1>2 DEF LocalOk, RouteOk, Incoming
<1>4. o.route = op[p].route /\ o.user = op[p].user
  BY <1>0, <1>2, <1>3 DEF HasFields, IsRequest
<1>5. first \in FirstCalls BY <1>0, <1>3, Routes
<1>6. KnownOk(first, o)
  BY <1>4, <1>5 DEF KnownOk, FirstCalls
<1>7. QED BY <1>1, <1>6, ReadingRight

\* The gate refuses, and will raise an alarm.
LEMMA RefusingRight ==
    ASSUME AInv, NEW p \in Handlers, NEW reason, NEW who, Refuse(p, reason, who)
    PROVE  Right(p)
<1>0. PICK o : o = [op[p] EXCEPT !.found = [alarm |-> <<reason, who, now>>]] OBVIOUS
<1>1. Read(p, "deny", o) BY <1>0 DEF Refuse
<1>2. QED BY <1>1, ReadingRight DEF Watched, Provisioning, Creating

\* An entry is made, and the handler goes on knowing it.
LEMMA ChainingRight ==
    ASSUME AInv, NEW p \in Handlers, NEW step, NEW entry, Chain(p, step, entry),
           \A o : o = op[p] => KnownOk(step, o)'
    PROVE  Right(p)
<1>0. PICK o : o = op[p] OBVIOUS
<1>1. Goto(p, step, o) /\ Write([db EXCEPT !.ledger = @ \cup {entry}], hist) BY <1>0 DEF Chain
<1>2. Quiet
  BY <1>1 DEF AInv, AuthorityInv, IInv, StoreInv, Write, Collections, Quiet, Growing
<1>3. QED BY <1>0, <1>1, <1>2, Watching, QuietOk DEF AInv, Right, Quiet

\* An alarm has no authority in it, raised or lost.
LEMMA RaisingQuiet ==
    ASSUME AInv, NEW key, Emit(key)
    PROVE  Quiet
BY DEF AInv, AuthorityInv, IInv, StoreInv, Write, Raise, Emit, LoseAlarm, Collections, Quiet,
   Growing

\* A rule comes into force that is on the ledger.
LEMMA InsertRuleRight ==
    ASSUME AInv, NEW p \in Handlers, InsertRule(p)
    PROVE  Right(p)
<1>1. OnLedger("ip_rule_add", op[p].body.user, RuleText(op[p].body))
  BY DEF AInv, Known, KnownOk, InsertRule
<1>2. PICK id, rule : id = db.issued + 1 /\ rule = op[p].body OBVIOUS
<1>3. /\ db'.rules = Put(db.rules, id, rule) /\ db'.issued = id /\ db'.ledger = db.ledger
      /\ db'.users = db.users
      /\ hist'.seeded = hist.seeded /\ hist'.confirmed = hist.confirmed
      /\ DOMAIN hist' = DOMAIN hist /\ served' = served
  BY <1>2 DEF InsertRule, Write, Edited, AInv, AuthorityInv, IInv, StoreInv, Collections
<1>4. Growing BY <1>2, <1>3 DEF Growing, AInv, AuthorityInv
<1>5. OnLedger("ip_rule_add", rule.user, RuleText(rule))'
  BY <1>1, <1>2, <1>3, EntriesStay
<1>6. RulesOk'
  <2>1. ASSUME NEW i \in DOMAIN db'.rules \ DOMAIN load'.store.rules
        PROVE  OnLedger("ip_rule_add", db.rules[i].user, RuleText(db.rules[i]))'
    <3>1. CASE i = id
      <4>1. db'.rules[i] = rule BY <1>3, <2>1, <3>1 DEF Put
      <4>2. QED BY <1>5, <4>1 DEF RuleText
    <3>2. CASE i # id
      <4>1. i \in DOMAIN db.rules \ DOMAIN load.store.rules /\ db'.rules[i] = db.rules[i]
        BY <1>3, <2>1, <3>2 DEF Put, load
      <4>2. PICK r : r = db.rules[i] OBVIOUS
      <4>3. OnLedger("ip_rule_add", r.user, RuleText(r))'
        BY <1>3, <4>1, <4>2, EntriesStay DEF AInv, AuthorityInv, RulesOk
      <4>4. QED BY <4>1, <4>2, <4>3 DEF RuleText
    <3>3. QED BY <3>1, <3>2
  <2>2. QED BY <2>1 DEF RulesOk
<1>7. \A u \in DOMAIN db'.users : RowOk(u, db.users[u])'
  BY <1>3, <1>4, RowStays DEF AInv, AuthorityInv
<1>8. AuthorityInv'
  BY <1>3, <1>4, <1>6, <1>7, IdsStay DEF AInv, AuthorityInv, Growing
<1>9. Knows(p) BY RestingKnows DEF InsertRule, AInv
<1>10. QED BY <1>4, <1>8, <1>9 DEF Right

\* A rule is removed.
LEMMA DeleteRuleRight ==
    ASSUME AInv, NEW p \in Handlers, DeleteRule(p)
    PROVE  Right(p)
<1>1. PICK ids : ids = DOMAIN db.rules \ {op[p].body.id} OBVIOUS
<1>2. /\ db'.rules = [id \in ids |-> db.rules[id]] /\ db'.issued = db.issued
      /\ db'.ledger = db.ledger /\ db'.users = db.users
      /\ hist'.seeded = hist.seeded /\ hist'.confirmed = hist.confirmed
      /\ DOMAIN hist' = DOMAIN hist /\ served' = served
  BY <1>1 DEF DeleteRule, Write, Edited, AInv, AuthorityInv, IInv, StoreInv, Collections
<1>3. Growing BY <1>2 DEF Growing, AInv, AuthorityInv
<1>4. RulesOk' BY <1>1, <1>2, <1>3, RulesStay DEF AInv, AuthorityInv
<1>5. \A u \in DOMAIN db'.users : RowOk(u, db.users[u])'
  BY <1>2, <1>3, RowStays DEF AInv, AuthorityInv
<1>6. AuthorityInv'
  BY <1>2, <1>3, <1>4, <1>5, IdsStay DEF AInv, AuthorityInv, Growing
<1>7. Knows(p) BY RestingKnows DEF DeleteRule, AInv
<1>8. QED BY <1>3, <1>6, <1>7 DEF Right

\* A country list comes into force that is on the ledger.
LEMMA SetCountriesRight ==
    ASSUME AInv, NEW p \in Handlers, SetCountries(p)
    PROVE  Right(p)
<1>1. PICK t, field, to :
         t = op[p].body.target /\ field = op[p].route /\ to = op[p].body.countries
  OBVIOUS
<1>2. field \in Lists /\ OnLedger(field, t, to)
  BY <1>1 DEF AInv, Known, KnownOk, SetCountries
<1>3. PICK row : row = db.users[t] OBVIOUS
<1>4. PICK new : new = IF field = "geoFence" THEN [row EXCEPT !.geoFence = to]
                      ELSE [row EXCEPT !.blockedCountries = to]
  OBVIOUS
<1>5. /\ db'.users = [db.users EXCEPT ![t] = new] /\ db'.rules = db.rules
      /\ db'.issued = db.issued /\ db'.ledger = db.ledger
      /\ hist'.seeded = hist.seeded /\ hist'.confirmed = hist.confirmed
      /\ DOMAIN hist' = DOMAIN hist /\ served' = served
  BY <1>1, <1>3, <1>4
     DEF SetCountries, Write, Edited, AInv, AuthorityInv, IInv, StoreInv, Collections
<1>6. Growing BY <1>5 DEF Growing, AInv, AuthorityInv
<1>7. ASSUME t \in DOMAIN db.users
      PROVE  DOMAIN new = UserFields /\ RowOk(t, new)'
  <2>1. DOMAIN row = UserFields /\ RowOk(t, row) BY <1>3, <1>7 DEF AInv, AuthorityInv
  <2>2. DOMAIN new = UserFields BY <1>4, <2>1
  <2>3. \A f \in UserFields : new[f] = IF f = field THEN to ELSE row[f]
    BY <1>2, <1>4, <2>1 DEF Lists, UserFields
  <2>4. OnLedger(field, t, to)' BY <1>2, <1>5, EntriesStay
  <2>5. /\ new.email = row.email /\ new.role = row.role /\ new.status = row.status
        /\ new.createdBy = row.createdBy
        /\ \A f \in Switches : new[f] = row[f]
        /\ \A f \in Lists : new[f] = row[f] \/ OnLedger(f, t, new[f])'
    <3>1. {"email", "role", "status", "createdBy"} \cup Switches \cup Lists \subseteq UserFields
      BY DEF UserFields, Switches, Lists
    <3>2. ASSUME NEW f \in {"email", "role", "status", "createdBy"} \cup Switches
          PROVE  new[f] = row[f]
      BY <1>2, <2>3, <3>1, <3>2 DEF Lists, Switches
    <3>3. ASSUME NEW f \in Lists PROVE new[f] = row[f] \/ OnLedger(f, t, new[f])'
      <4>1. CASE f = field
        <5>1. new[f] = to BY <2>3, <3>1, <4>1
        <5>2. QED BY <2>4, <4>1, <5>1
      <4>2. CASE f # field BY <2>3, <3>1, <4>2
      <4>3. QED BY <4>1, <4>2
    <3>4. QED BY <3>2, <3>3
  <2>6. QED BY <2>2, <1>6, <2>1, <2>5, RowKept
<1>8. AuthorityInv' BY <1>5, <1>6, <1>7, UpdateOk
<1>9. QED BY <1>6, <1>8, RestingKnows DEF Right, SetCountries, AInv

\* The account of the caller is there, or the gate lets nobody in as him.
LEMMA FindUserRight ==
    ASSUME AInv, NEW p \in Handlers, FindUser(p)
    PROVE  Right(p)
<1>1. pc[p] = "findUser" BY DEF FindUser
<1>2. CASE op[p].user \in DOMAIN db.users /\ \E country :
            Read(p, "userRules",
                 [op[p] EXCEPT !.country = country, !.found = db.users[op[p].user]])
  <2>1. PICK country, o :
           /\ o = [op[p] EXCEPT !.country = country, !.found = db.users[op[p].user]]
           /\ Read(p, "userRules", o)
    BY <1>2
  <2>2. LocalOk(pc[p], op[p]) /\ HasFields(op[p]) BY <1>1, Held DEF AInv, IInv
  <2>3. o.user = op[p].user
    BY <1>1, <2>1, <2>2 DEF LocalOk, RouteOk, Incoming, HasFields, IsRequest
  <2>4. KnownOk("userRules", o)
    BY <1>2, <2>3 DEF KnownOk, AInv, AuthorityInv
  <2>5. QED BY <2>1, <2>4, ReadingRight
<1>3. CASE ~ROUTES[op[p].route].admin /\ Dispatch(p)
  BY <1>1, <1>3, AdminRoutes, DispatchingRight DEF Incoming
<1>4. CASE Answer(p) BY <1>4, AnsweringRight
<1>5. QED BY <1>2, <1>3, <1>4 DEF FindUser, MatchRoute

\* The pipeline and the calls on rules and country lists.
LEMMA GateRight ==
    ASSUME AInv, NEW p \in Handlers, GateStep(p)
    PROVE  Right(p)
<1> USE DEF Watched, Provisioning, Creating
<1>1. CASE GlobalRules(p)
  <2>1. \/ \E reason : Refuse(p, reason, op[p].ip)
        \/ ~ROUTES[op[p].route].auth /\ Dispatch(p)
        \/ Read(p, "findUser", op[p])
        \/ Answer(p)
    BY <1>1 DEF GlobalRules, MatchRoute
  <2>2. pc[p] \in Incoming BY <1>1 DEF GlobalRules, Incoming
  <2>3. QED
    BY <2>1, <2>2, AdminRoutes, RefusingRight, DispatchingRight, ReadingRight, AnsweringRight
<1>2. CASE FindUser(p) BY <1>2, FindUserRight
<1>3. CASE UserRules(p)
  <2>1. op[p].route = "createUser" => op[p].user # Nobody
    BY <1>3 DEF AInv, Known, KnownOk, UserRules
  <2>2. Dispatch(p) \/ \E reason : Refuse(p, reason, op[p].user) BY <1>3 DEF UserRules
  <2>3. pc[p] \in Incoming BY <1>3 DEF UserRules, Incoming
  <2>4. QED BY <2>1, <2>2, <2>3, DispatchingRight, RefusingRight
<1>4. CASE Deny(p)
  BY <1>4, RestingKnows, RaisingQuiet, QuietOk DEF Deny, AInv, Right, Quiet
<1>5. CASE RequireAdmin(p)
  <2>1. CASE Answer(p) BY <2>1, AnsweringRight
  <2>2. CASE Read(p, AfterAdmin[op[p].route], op[p])
    <3>0. PICK o, step : o = op[p] /\ step = AfterAdmin[op[p].route] OBVIOUS
    <3>1. pc[p] = "requireAdmin" /\ LocalOk(pc[p], op[p])
      BY <1>5, Held DEF RequireAdmin, AInv, IInv
    <3>2. o.route \in DOMAIN AfterAdmin BY <3>0, <3>1 DEF LocalOk, RouteOk
    <3>3. /\ step \in {"recordRule", "findRule", "listRules", "findTarget", "findEmail"}
          /\ step = "findTarget" => o.route \in Lists \cup DOMAIN Decision
      BY <3>0, <3>2 DEF AfterAdmin, Lists, Decision
    <3>4. o.route = "createUser" => o.user # Nobody
      BY <3>0, <3>1 DEF AInv, Known, KnownOk
    <3>5. KnownOk(step, o) BY <3>3, <3>4 DEF KnownOk
    <3>6. QED BY <2>2, <3>0, <3>5, ReadingRight
  <2>3. QED BY <1>5, <2>1, <2>2 DEF RequireAdmin
<1>6. CASE RecordRule(p)
  <2>1. PICK entry : /\ entry = Entry(p, "ip_rule_add", op[p].body.user, RuleText(op[p].body))
                    /\ Chain(p, "insertRule", entry)
    BY <1>6 DEF RecordRule
  <2>2. entry \in db'.ledger
    BY <2>1 DEF Chain, Write, AInv, IInv, StoreInv, Collections
  <2>3. ASSUME NEW o, o = op[p] PROVE KnownOk("insertRule", o)'
    BY <2>1, <2>2, <2>3 DEF KnownOk, OnLedger, Entry, RuleText
  <2>4. QED BY <2>1, <2>3, ChainingRight
<1>7. CASE InsertRule(p) BY <1>7, InsertRuleRight
<1>8. CASE ListRules(p) BY <1>8, AnsweringRight DEF ListRules
<1>9. CASE FindRule(p)
  <2>1. Answer(p) \/ \E o : Read(p, "recordRemoval", o) BY <1>9 DEF FindRule
  <2>2. QED BY <2>1, AnsweringRight, ReadingRight
<1>10. CASE RecordRemoval(p)
  <2>1. PICK entry : Chain(p, "deleteRule", entry) BY <1>10 DEF RecordRemoval
  <2>2. \A o : KnownOk("deleteRule", o)' BY DEF KnownOk
  <2>3. QED BY <2>1, <2>2, ChainingRight
<1>11. CASE DeleteRule(p) BY <1>11, DeleteRuleRight
<1>12. CASE RecordCountries(p)
  <2>1. PICK entry :
           /\ entry = Entry(p, op[p].route, op[p].body.target, op[p].body.countries)
           /\ Chain(p, "setCountries", entry)
    BY <1>12 DEF RecordCountries
  <2>2. entry \in db'.ledger
    BY <2>1 DEF Chain, Write, AInv, IInv, StoreInv, Collections
  <2>3. op[p].route \in Lists BY <1>12 DEF RecordCountries, AInv, Known, KnownOk
  <2>4. ASSUME NEW o, o = op[p] PROVE KnownOk("setCountries", o)'
    BY <2>1, <2>2, <2>3, <2>4 DEF KnownOk, OnLedger, Entry
  <2>5. QED BY <2>1, <2>4, ChainingRight
<1>13. CASE SetCountries(p) BY <1>13, SetCountriesRight
<1>14. QED
  BY <1>1, <1>2, <1>3, <1>4, <1>5, <1>6, <1>7, <1>8, <1>9, <1>10, <1>11, <1>12, <1>13 DEF GateStep

----------------------------------------------------------------------------
(* Accounts. *)

\* A step with no authority in it is right if p knows what it should.
LEMMA QuietRight ==
    ASSUME AInv, NEW p \in Handlers, Quiet, Knows(p)
    PROVE  Right(p)
BY QuietOk DEF Right, Quiet

\* A job that is not a request begins.
LEMMA BeginningRight ==
    ASSUME AInv, NEW p \in Handlers, NEW step, NEW o, Begin(p, step, o),
           step \notin Watched \/ KnownOk(step, o)
    PROVE  Right(p)
<1>1. Goto(p, step, o) /\ UNCHANGED <<served, db, hist>> BY DEF Begin
<1>2. Quiet BY <1>1, UnchangedQuiet
<1>3. Knows(p) BY <1>1, <1>2, Unwatched, Watching, KnownStays DEF AInv, Quiet, Growing
<1>4. QED BY <1>2, <1>3, QuietRight

\* What is left of the grants, and of an approval, is yet to be recorded.
LEMMA NextGrantKnows ==
    ASSUME AInv, NEW p \in Handlers, NEW grants, NextGrant(p, grants)
    PROVE  Knows(p)
<1>1. PICK step, o : Goto(p, step, o) /\ step \in {"adminForGrant", "markVerified", "idle"}
  BY DEF NextGrant, Return
<1>2. QED BY <1>1, Unwatched DEF AInv, Watched, Provisioning, Creating

\* An account is created with no authority, under an id nobody had.
LEMMA InsertUserRight ==
    ASSUME AInv, NEW p \in Handlers, InsertUser(p)
    PROVE  Right(p)
<1>0. pc[p] = "insertUser" /\ LocalOk(pc[p], op[p]) /\ HasFields(op[p])
  BY Held DEF InsertUser, AInv, IInv
<1>1. CASE Answer(p) BY <1>1, AnsweringRight
<1>2. CASE ~Answer(p)
  <2>0. PICK id, role, email, row :
           /\ id = db.issued + 1 /\ email = op[p].body.email
           /\ role = IF op[p].route = "signup" THEN "member" ELSE op[p].body.role
           /\ row = NewUser(email, role)
    OBVIOUS
  <2>1. /\ Write([db EXCEPT !.users = Put(@, id, row), !.issued = id], hist)
        /\ IF op[p].route = "signup" THEN Return(p)
           ELSE Goto(p, AfterInsert(op[p].route), [op[p] EXCEPT !.body =
                            [target |-> id, grants |-> op[p].body.grants]])
    BY <1>2, <2>0 DEF InsertUser
  <2>2. Knows(p)
    <3>1. CASE op[p].route = "signup" BY <2>1, <3>1, RestingKnows DEF AInv
    <3>2. CASE op[p].route # "signup"
      <4>1. PICK step, o : /\ step = AfterInsert(op[p].route)
                          /\ o = [op[p] EXCEPT !.body =
                                     [target |-> id, grants |-> op[p].body.grants]]
        OBVIOUS
      <4>2. Goto(p, step, o) BY <2>1, <3>2, <4>1
      <4>3. op[p].route \in {"createUser", "createAdmin"}
        BY <1>0, <3>2 DEF LocalOk, RouteOk, Creating
      <4>4. CASE op[p].route = "createUser"
        <5>1. step = "activate" BY <4>1, <4>4 DEF AfterInsert
        <5>2. op[p].user # Nobody
          BY <1>0, <4>4 DEF AInv, Known, KnownOk, Provisioning, Creating
        <5>3. IsRequest(op[p]) BY <4>4 DEF IsRequest, ROUTES
        <5>4. o.route = "createUser" /\ o.user = op[p].user
          BY <1>0, <4>1, <4>4, <5>3 DEF HasFields
        <5>5. KnownOk(step, o)' BY <5>1, <5>2, <5>4 DEF KnownOk
        <5>6. QED BY <4>2, <5>5, Watching DEF AInv
      <4>5. CASE op[p].route = "createAdmin"
        <5>1. step = "makeAdmin" BY <4>1, <4>5 DEF AfterInsert
        <5>2. QED BY <4>2, <5>1, Unwatched DEF AInv, Watched, Provisioning, Creating
      <4>6. QED BY <4>3, <4>4, <4>5
    <3>3. QED BY <3>1, <3>2
  <2>3. /\ db'.users = Put(db.users, id, row) /\ db'.issued = id
        /\ db'.ledger = db.ledger /\ db'.rules = db.rules /\ hist' = hist /\ served' = served
    BY <2>1 DEF Write, AInv, IInv, StoreInv, Collections
  <2>4. Growing BY <2>0, <2>3 DEF Growing, AInv, AuthorityInv
  <2>5. id \in Nat /\ id \notin DOMAIN load.store.users /\ Nobody # id
    BY <2>0, Accounted DEF AInv, AuthorityInv, IInv, StoreInv
  <2>6. DOMAIN row = UserFields /\ row.email = email /\ row.role = role
    BY <2>0 DEF NewUser, UserFields
  <2>7. RowOk(id, row)'
    <3>1. id \notin DOMAIN load'.store.users BY <2>3, <2>5 DEF load
    <3>2. row = NewUser(row.email, row.role) BY <2>0, <2>6
    <3>3. QED BY <3>1, <3>2 DEF RowOk
  <2>8. ASSUME NEW u \in DOMAIN db'.users
        PROVE  RowOk(u, db.users[u])' /\ DOMAIN db'.users[u] = UserFields /\ u # Nobody
    <3>1. CASE u = id
      <4>1. db'.users[u] = row BY <2>3, <2>8, <3>1 DEF Put
      <4>2. QED BY <2>5, <2>6, <2>7, <3>1, <4>1
    <3>2. CASE u # id
      <4>1. PICK was : was = db.users[u] OBVIOUS
      <4>2. u \in DOMAIN db.users /\ db'.users[u] = was BY <2>3, <2>8, <3>2, <4>1 DEF Put
      <4>3. RowOk(u, was)' BY <2>4, <4>1, <4>2, RowStays DEF AInv, AuthorityInv
      <4>4. QED BY <4>1, <4>2, <4>3 DEF AInv, AuthorityInv
    <3>3. QED BY <3>1, <3>2
  <2>9. RulesOk' BY <2>3, <2>4, SameRules DEF AInv, AuthorityInv
  <2>10. db'.issued \in Nat /\ load'.store.issued <= db'.issued
    BY <2>4, IdsStay DEF AInv, AuthorityInv
  <2>11. AuthorityInv' BY <2>3, <2>4, <2>8, <2>9, <2>10 DEF AuthorityInv, Growing
  <2>12. QED BY <2>2, <2>4, <2>11 DEF Right
<1>3. QED BY <1>1, <1>2

\* The row of an account becomes active, for a reason.
Activated(t, new) ==
    /\ DOMAIN new = UserFields
    /\ \A f \in {"email", "role"} \cup Lists : new[f] = db.users[t][f]
    /\ \A f \in Switches : new[f] = db.users[t][f] \/ t \in hist'.seeded
    /\ new.status = "active"
    /\ t \in hist'.confirmed \cup hist'.seeded \/ new.createdBy # Nobody
    /\ db.users[t].createdBy # Nobody => new.createdBy # Nobody

\* An account is made active for a reason.
LEMMA ActivatedRight ==
    ASSUME AInv, NEW p \in Handlers, Knows(p), Growing, NEW t, NEW new,
           db'.users = [db.users EXCEPT ![t] = new], db'.rules = db.rules,
           t \in DOMAIN db.users => Activated(t, new)
    PROVE  Right(p)
<1>1. ASSUME t \in DOMAIN db.users PROVE DOMAIN new = UserFields /\ RowOk(t, new)'
  <2>1. PICK row : row = db.users[t] OBVIOUS
  <2>2. RowOk(t, row) BY <1>1, <2>1 DEF AInv, AuthorityInv
  <2>3. /\ DOMAIN new = UserFields /\ new.email = row.email /\ new.role = row.role
        /\ \A f \in Switches : new[f] = row[f] \/ t \in hist'.seeded
        /\ \A f \in Lists : new[f] = row[f]
        /\ new.status = "active"
        /\ t \in hist'.confirmed \cup hist'.seeded \/ new.createdBy # Nobody
        /\ row.createdBy # Nobody => new.createdBy # Nobody
    BY <1>1, <2>1 DEF Activated
  <2>4. QED BY <2>2, <2>3, RowKept
<1>2. AuthorityInv' BY <1>1, UpdateOk
<1>3. QED BY <1>2 DEF Right

\* createManagedUser, for an administrator.
LEMMA ActivateRight ==
    ASSUME AInv, NEW p \in Handlers, Activate(p)
    PROVE  Right(p)
<1>1. PICK t, by, new :
         /\ t = op[p].body.target /\ by = op[p].user
         /\ new = [db.users[t] EXCEPT !.status = "active", !.verified = TRUE, !.createdBy = by]
  OBVIOUS
<1>2. by # Nobody
  BY <1>1 DEF AInv, Known, KnownOk, Activate, Provisioning
<1>3. /\ db'.users = [db.users EXCEPT ![t] = new] /\ db'.rules = db.rules
      /\ db'.issued = db.issued /\ db'.ledger = db.ledger /\ hist' = hist /\ served' = served
  BY <1>1 DEF Activate, Write, AInv, IInv, StoreInv, Collections
<1>4. Growing BY <1>3 DEF Growing, AInv, AuthorityInv
<1>5. Knows(p) BY NextGrantKnows DEF Activate
<1>6. ASSUME t \in DOMAIN db.users PROVE Activated(t, new)
  <2>1. DOMAIN db.users[t] = UserFields BY <1>6 DEF AInv, AuthorityInv
  <2>2. /\ DOMAIN new = UserFields
        /\ \A f \in {"email", "role"} \cup Lists \cup Switches : new[f] = db.users[t][f]
        /\ new.status = "active" /\ new.createdBy = by
    BY <1>1, <2>1 DEF UserFields, Lists, Switches
  <2>3. QED BY <1>2, <1>3, <2>2 DEF Activated, Switches, Lists
<1>7. QED BY <1>2, <1>3, <1>4, <1>5, <1>6, ActivatedRight

\* createAdmin, of the seed CLI.
LEMMA MakeAdminRight ==
    ASSUME AInv, NEW p \in Handlers, MakeAdmin(p)
    PROVE  Right(p)
<1>1. PICK t, new :
         /\ t = op[p].body.target
         /\ new = [db.users[t] EXCEPT !.status = "active", !.verified = TRUE,
                                      !.importEnabled = TRUE, !.exportEnabled = TRUE]
  OBVIOUS
<1>2. /\ db'.users = [db.users EXCEPT ![t] = new] /\ db'.rules = db.rules
      /\ db'.issued = db.issued /\ db'.ledger = db.ledger /\ served' = served
      /\ hist'.seeded = hist.seeded \cup {t} /\ hist'.confirmed = hist.confirmed
      /\ DOMAIN hist' = DOMAIN hist
  BY <1>1 DEF MakeAdmin, Write, AInv, IInv, StoreInv, AuthorityInv, Collections
<1>3. Growing BY <1>2 DEF Growing, AInv, AuthorityInv
<1>4. Knows(p) BY RestingKnows DEF MakeAdmin, AInv
<1>5. ASSUME t \in DOMAIN db.users PROVE Activated(t, new)
  <2>1. DOMAIN db.users[t] = UserFields BY <1>5 DEF AInv, AuthorityInv
  <2>2. /\ DOMAIN new = UserFields
        /\ \A f \in {"email", "role", "createdBy"} \cup Lists : new[f] = db.users[t][f]
        /\ new.status = "active"
    BY <1>1, <2>1 DEF UserFields, Lists
  <2>3. QED BY <1>2, <2>2 DEF Activated, Switches, Lists
<1>6. QED BY <1>2, <1>3, <1>4, <1>5, ActivatedRight

\* verifySignup, by a code.
LEMMA ConfirmRight ==
    ASSUME AInv, NEW p \in Handlers, Confirm(p)
    PROVE  Right(p)
<1>1. PICK t, new :
         t = op[p].user /\ new = [db.users[t] EXCEPT !.status = "active", !.verified = TRUE]
  OBVIOUS
<1>2. /\ db'.users = [db.users EXCEPT ![t] = new] /\ db'.rules = db.rules
      /\ db'.issued = db.issued /\ db'.ledger = db.ledger /\ served' = served
      /\ hist'.confirmed = hist.confirmed \cup {t} /\ hist'.seeded = hist.seeded
      /\ DOMAIN hist' = DOMAIN hist
  BY <1>1 DEF Confirm, Write, AInv, IInv, StoreInv, AuthorityInv, Collections
<1>3. Growing BY <1>2 DEF Growing, AInv, AuthorityInv
<1>4. Knows(p) BY RestingKnows DEF Confirm, AInv
<1>5. ASSUME t \in DOMAIN db.users PROVE Activated(t, new)
  <2>1. DOMAIN db.users[t] = UserFields BY <1>5 DEF AInv, AuthorityInv
  <2>2. /\ DOMAIN new = UserFields
        /\ \A f \in {"email", "role", "createdBy"} \cup Lists \cup Switches :
              new[f] = db.users[t][f]
        /\ new.status = "active"
    BY <1>1, <2>1 DEF UserFields, Lists, Switches
  <2>3. QED BY <1>2, <2>2 DEF Activated, Switches, Lists
<1>6. QED BY <1>2, <1>3, <1>4, <1>5, ActivatedRight

\* The last write of approveUser, after the grant.
LEMMA MarkVerifiedRight ==
    ASSUME AInv, NEW p \in Handlers, MarkVerified(p)
    PROVE  Right(p)
<1>1. PICK t, row, new :
         /\ t = op[p].body.target /\ row = db.users[t] /\ new = [row EXCEPT !.verified = TRUE]
  OBVIOUS
<1>2. /\ db'.users = [db.users EXCEPT ![t] = new] /\ db'.rules = db.rules
      /\ db'.issued = db.issued /\ db'.ledger = db.ledger /\ hist' = hist /\ served' = served
  BY <1>1 DEF MarkVerified, Write, AInv, IInv, StoreInv, Collections
<1>3. Growing BY <1>2 DEF Growing, AInv, AuthorityInv
<1>4. Knows(p) BY RestingKnows DEF MarkVerified, AInv
<1>5. ASSUME t \in DOMAIN db.users PROVE DOMAIN new = UserFields /\ RowOk(t, new)'
  <2>1. DOMAIN row = UserFields /\ RowOk(t, row) BY <1>1, <1>5 DEF AInv, AuthorityInv
  <2>2. DOMAIN new = UserFields BY <1>1, <2>1
  <2>3. \A f \in {"email", "role", "status", "createdBy"} \cup Lists \cup Switches :
           new[f] = row[f]
    BY <1>1, <2>1 DEF UserFields, Lists, Switches
  <2>4. QED BY <1>3, <2>1, <2>2, <2>3, RowKept
<1>6. AuthorityInv' BY <1>2, <1>3, <1>5, UpdateOk
<1>7. QED BY <1>3, <1>4, <1>6 DEF Right

\* A grant comes into force that is on the ledger.
LEMMA ApplyGrantRight ==
    ASSUME AInv, NEW p \in Handlers, ApplyGrant(p)
    PROVE  Right(p)
<1>1. PICK t, grant, row, new :
         /\ t = op[p].body.target /\ grant = Head(op[p].body.grants) /\ row = db.users[t]
         /\ new = [f \in DOMAIN row |-> IF f = grant.field THEN grant.value ELSE row[f]]
  OBVIOUS
<1>2. pc[p] = "applyGrant" /\ LocalOk(pc[p], op[p]) BY Held DEF ApplyGrant, AInv, IInv
<1>3. grant.field \in Switches \cup {"status"}
  BY <1>1, <1>2 DEF LocalOk, Granting, MayChange, Switches
<1>4. OnLedger(grant.field, t, grant.value)
  BY <1>1, <1>2 DEF AInv, Known, KnownOk
<1>5. /\ db'.users = [db.users EXCEPT ![t] = new] /\ db'.rules = db.rules
      /\ db'.issued = db.issued /\ db'.ledger = db.ledger
      /\ hist'.seeded = hist.seeded /\ hist'.confirmed = hist.confirmed
      /\ DOMAIN hist' = DOMAIN hist /\ served' = served
  BY <1>1 DEF ApplyGrant, Write, Edited, AInv, AuthorityInv, IInv, StoreInv, Collections
<1>6. Growing BY <1>5 DEF Growing, AInv, AuthorityInv
<1>7. Knows(p) BY NextGrantKnows DEF ApplyGrant
<1>8. ASSUME t \in DOMAIN db.users PROVE DOMAIN new = UserFields /\ RowOk(t, new)'
  <2>1. DOMAIN row = UserFields /\ RowOk(t, row) BY <1>1, <1>8 DEF AInv, AuthorityInv
  <2>2. /\ DOMAIN new = UserFields
        /\ \A f \in UserFields : new[f] = IF f = grant.field THEN grant.value ELSE row[f]
    BY <1>1, <2>1
  <2>3. \A f \in {"email", "role", "createdBy"} \cup Lists : new[f] = row[f]
    BY <1>3, <2>2 DEF UserFields, Lists, Switches
  <2>4. OnLedger(grant.field, t, grant.value)' BY <1>4, <1>5, EntriesStay
  <2>5. ASSUME NEW f \in Switches \cup {"status"}
        PROVE  new[f] = row[f] \/ OnLedger(f, t, new[f])'
    <3>1. f \in UserFields BY <2>5 DEF UserFields, Switches
    <3>2. CASE f = grant.field
      <4>1. new[f] = grant.value BY <2>2, <3>1, <3>2
      <4>2. QED BY <2>4, <3>2, <4>1
    <3>3. CASE f # grant.field BY <2>2, <3>1, <3>3
    <3>4. QED BY <3>2, <3>3
  <2>6. QED BY <1>6, <2>1, <2>2, <2>3, <2>5, RowKept
<1>9. AuthorityInv' BY <1>5, <1>6, <1>8, UpdateOk
<1>10. QED BY <1>6, <1>7, <1>9 DEF Right

\* The calls on codes, and the rest of the calls on accounts.
LEMMA AccountRight ==
    ASSUME AInv, NEW p \in Handlers, AccountStep(p)
    PROVE  Right(p)
<1> USE DEF Watched, Provisioning, Creating
<1>0. AuthorityInv /\ StoreInv /\ IInv BY DEF AInv, IInv
<1>1. ASSUME op[p].route = "createUser", pc[p] \in Provisioning PROVE op[p].user # Nobody
  BY <1>1 DEF AInv, Known, KnownOk
<1>2. PICK locals : locals = op[p] OBVIOUS
<1>3. ASSUME NEW step \in Creating, pc[p] \in Creating, Read(p, step, op[p]) PROVE Right(p)
  <2>1. KnownOk(step, locals) BY <1>1, <1>2, <1>3 DEF KnownOk
  <2>2. QED BY <1>2, <1>3, <2>1, ReadingRight
<1>4. CASE ResolveMx(p) BY <1>3, <1>4 DEF ResolveMx
<1>5. CASE ResolveHost(p) BY <1>3, <1>5, AnsweringRight DEF ResolveHost
<1>6. CASE FindEmail(p) BY <1>3, <1>6, AnsweringRight DEF FindEmail
<1>7. CASE InsertUser(p) BY <1>7, InsertUserRight
<1>8. CASE CreateAdmin(p)
  <2>1. PICK r, o : /\ o = [route |-> "createAdmin", user |-> Nobody, body |-> r.body]
                   /\ Begin(p, "findEmail", o)
    BY <1>8 DEF CreateAdmin
  <2>2. KnownOk("findEmail", o) BY <2>1 DEF KnownOk
  <2>3. QED BY <2>1, <2>2, BeginningRight
<1>9. CASE MakeAdmin(p) BY <1>9, MakeAdminRight
<1>10. CASE Activate(p) BY <1>10, ActivateRight
<1>11. CASE FindTarget(p)
  <2>1. CASE Answer(p) BY <2>1, AnsweringRight
  <2>2. CASE op[p].route \notin DOMAIN Decision /\ Read(p, "recordCountries", op[p])
    <3>1. op[p].route \in Lists BY <1>11, <2>2 DEF FindTarget, AInv, Known, KnownOk
    <3>2. KnownOk("recordCountries", locals) BY <1>2, <3>1 DEF KnownOk
    <3>3. QED BY <1>2, <2>2, <3>2, ReadingRight
  <2>3. CASE \E o : Read(p, "adminForGrant", o) BY <2>3, ReadingRight
  <2>4. QED BY <1>11, <2>1, <2>2, <2>3 DEF FindTarget
<1>12. CASE AdminForGrant(p)
  BY <1>12, AnsweringRight, ReadingRight DEF AdminForGrant
<1>13. CASE TargetForGrant(p)
  BY <1>13, AnsweringRight, ReadingRight DEF TargetForGrant
<1>14. CASE RecordGrant(p)
  <2>1. PICK grant, entry :
           /\ grant = Head(op[p].body.grants)
           /\ entry = Entry(p, grant.field, op[p].body.target, grant.value)
           /\ Chain(p, "applyGrant", entry)
    BY <1>14 DEF RecordGrant
  <2>2. entry \in db'.ledger BY <1>0, <2>1 DEF Chain, Write, StoreInv, Collections
  <2>3. ASSUME NEW o, o = op[p] PROVE KnownOk("applyGrant", o)'
    BY <2>1, <2>2, <2>3 DEF KnownOk, OnLedger, Entry
  <2>4. QED BY <2>1, <2>3, ChainingRight
<1>15. CASE ApplyGrant(p) BY <1>15, ApplyGrantRight
<1>16. CASE MarkVerified(p) BY <1>16, MarkVerifiedRight
<1>17. CASE IssueCode(p)
  BY <1>17, BeginningRight DEF IssueCode
<1>18. CASE CountSends(p) BY <1>18, AnsweringRight, ReadingRight DEF CountSends
<1>19. CASE FindPriors(p)
  <2>1. PICK step, o : step \in {"insertCode", "consumePrior"} /\ Read(p, step, o)
    BY <1>19 DEF FindPriors
  <2>2. QED BY <2>1, ReadingRight
<1>20. CASE ConsumePrior(p)
  <2>1. PICK step, o : step \in {"insertCode", "consumePrior"} /\ Goto(p, step, o)
    BY <1>20 DEF ConsumePrior
  <2>2. Knows(p) BY <1>0, <2>1, Unwatched
  <2>3. Quiet
    BY <1>0, <1>20
       DEF ConsumePrior, Write, Quiet, Growing, AuthorityInv, StoreInv, Collections
  <2>4. QED BY <2>2, <2>3, QuietRight
<1>21. CASE InsertCode(p)
  <2>1. Knows(p) BY <1>0, <1>21, RestingKnows DEF InsertCode
  <2>2. Quiet
    BY <1>0, <1>21
       DEF InsertCode, Write, Quiet, Growing, AuthorityInv, StoreInv, Collections
  <2>3. QED BY <2>1, <2>2, QuietRight
<1>22. CASE FindByEmail(p)
  <2>1. Answer(p) \/ \E o : Read(p, "findCode", o) BY <1>22 DEF FindByEmail
  <2>2. QED BY <2>1, AnsweringRight, ReadingRight
<1>23. CASE FindCode(p)
  <2>1. Answer(p) \/ \E o : Read(p, "bumpAttempts", o) BY <1>23 DEF FindCode
  <2>2. QED BY <2>1, AnsweringRight, ReadingRight
<1>24. CASE BumpAttempts(p) /\ ~Answer(p)
  <2>1. Goto(p, "consume", op[p]) \/ Return(p) BY <1>24 DEF BumpAttempts
  <2>2. Knows(p) BY <1>0, <2>1, RestingKnows, Unwatched
  <2>3. Quiet
    BY <1>0, <1>24
       DEF BumpAttempts, Write, Quiet, Growing, AuthorityInv, StoreInv, Collections
  <2>4. QED BY <2>2, <2>3, QuietRight
<1>25. CASE Consume(p) /\ ~Answer(p)
  <2>1. Goto(p, "confirm", op[p]) BY <1>25 DEF Consume
  <2>2. Knows(p) BY <1>0, <2>1, Unwatched
  <2>3. Quiet
    BY <1>0, <1>25
       DEF Consume, Write, Quiet, Growing, AuthorityInv, StoreInv, Collections
  <2>4. QED BY <2>2, <2>3, QuietRight
<1>26. CASE Confirm(p) BY <1>26, ConfirmRight
<1>27. CASE Answer(p) BY <1>27, AnsweringRight
<1>28. QED
  BY <1>4, <1>5, <1>6, <1>7, <1>8, <1>9, <1>10, <1>11, <1>12, <1>13, <1>14, <1>15, <1>16,
     <1>17, <1>18, <1>19, <1>20, <1>21, <1>22, <1>23, <1>24, <1>25, <1>26, <1>27
     DEF AccountStep

----------------------------------------------------------------------------
(* Devices and usage have no authority in them. *)

\* No call on devices, credentials or usage gives or takes authority.
LEMMA DeviceRight ==
    ASSUME AInv, NEW p \in Handlers, DeviceStep(p)
    PROVE  Right(p)
<1> USE DEF Watched, Provisioning, Creating
<1>0. AuthorityInv /\ StoreInv /\ IInv BY DEF AInv, IInv
<1>1. ASSUME NEW key, Emit(key), NEW step, NEW o, step \notin Watched,
             Goto(p, step, o)
      PROVE  Right(p)
  BY <1>0, <1>1, RaisingQuiet, Unwatched, QuietRight
<1>2. ASSUME NEW coll, NEW notes, NEW c \in {"devices", "usage"},
             Write([db EXCEPT ![c] = coll], notes),
             notes.seeded = hist.seeded, notes.confirmed = hist.confirmed,
             DOMAIN notes = DOMAIN hist,
             NEW step, NEW o, step \notin Watched, Goto(p, step, o)
      PROVE  Right(p)
  <2>1. Quiet
    BY <1>0, <1>2 DEF Write, Quiet, Growing, AuthorityInv, StoreInv, Collections
  <2>2. QED BY <1>0, <1>2, <2>1, Unwatched, QuietRight
<1>3. CASE Answer(p) BY <1>3, AnsweringRight
<1>4. CASE Presence(p) BY <1>4, BeginningRight DEF Presence
<1>5. CASE FindDevice(p)
  <2>1. PICK step, o :
           /\ step \in {"ownershipConflict", "ipMismatch", "findPriorDevices", "assessTravel"}
           /\ Read(p, step, o)
    BY <1>5 DEF FindDevice
  <2>2. QED BY <2>1, ReadingRight
<1>6. CASE WithoutDevice(p) BY <1>6, AnsweringRight DEF WithoutDevice
<1>7. CASE OwnershipConflict(p) BY <1>1, <1>7 DEF OwnershipConflict, Return
<1>8. CASE IpMismatch(p)
  <2>1. PICK step : step \in {"findPriorDevices", "assessTravel"} /\ Goto(p, step, op[p])
    BY <1>8 DEF IpMismatch
  <2>2. QED BY <1>1, <1>8, <2>1 DEF IpMismatch
<1>9. CASE FindPriorDevices(p)
  <2>1. PICK step : step \in {"newDevice", "upsertDevice"} /\ Read(p, step, op[p])
    BY <1>9 DEF FindPriorDevices
  <2>2. QED BY <2>1, ReadingRight
<1>10. CASE NewDevice(p) BY <1>1, <1>10 DEF NewDevice
<1>11. CASE Travelled(p)
  <2>1. PICK o : Goto(p, "upsertDevice", o) BY <1>11 DEF Travelled
  <2>2. Write(db, hist) \/ \E key : Emit(key) BY <1>11 DEF Travelled, Emit, LoseAlarm
  <2>3. CASE Write(db, hist)
    BY <1>0, <2>1, <2>3, UnchangedQuiet, Unwatched, QuietRight DEF Write
  <2>4. CASE \E key : Emit(key) BY <1>1, <2>1, <2>4
  <2>5. QED BY <2>2, <2>3, <2>4
<1>12. CASE UpsertDevice(p) /\ ~Answer(p)
  <2>1. PICK coll : Write([db EXCEPT !.devices = coll], hist) BY <1>12 DEF UpsertDevice
  <2>2. Return(p) BY <1>12 DEF UpsertDevice
  <2>3. QED BY <1>2, <2>1, <2>2 DEF Return
<1>13. CASE DeadManScan(p) BY <1>13, BeginningRight DEF DeadManScan
<1>14. CASE ScanDevices(p) /\ ~Answer(p)
  <2>1. PICK o : Read(p, "raiseSilent", o) BY <1>14 DEF ScanDevices
  <2>2. QED BY <2>1, ReadingRight
<1>15. CASE RaiseSilent(p)
  <2>1. PICK alarm : /\ Emit(alarm)
                     /\ Return(p) \/ \E o : Goto(p, "raiseSilent", o)
    BY <1>15 DEF RaiseSilent
  <2>2. QED BY <1>1, <2>1 DEF Return
<1>16. CASE FindOwner(p) /\ ~Answer(p)
  <2>1. PICK o : Read(p, "storeCred", o) BY <1>16 DEF FindOwner
  <2>2. QED BY <2>1, ReadingRight
<1>17. CASE StoreCred(p) /\ ~Answer(p)
  <2>1. PICK coll : Write([db EXCEPT !.devices = coll], hist) BY <1>17 DEF StoreCred
  <2>2. Return(p) BY <1>17 DEF StoreCred
  <2>3. QED BY <1>2, <2>1, <2>2 DEF Return
<1>18. CASE ReadCred(p) BY <1>18, AnsweringRight DEF ReadCred
<1>19. CASE FindUsage(p)
  <2>1. PICK o : Read(p, "writeUsage", o) BY <1>19 DEF FindUsage
  <2>2. QED BY <2>1, ReadingRight
<1>20. CASE NothingReported(p) BY <1>20, AnsweringRight DEF NothingReported
<1>21. CASE WriteUsage(p) /\ ~Answer(p)
  <2>1. PICK step, o :
           /\ \/ Write(db, hist)
              \/ \E coll, reports, mixed :
                    Write([db EXCEPT !.usage = coll],
                          [hist EXCEPT !.reports = reports, !.mixed = mixed])
           /\ step \in {"idle", "findUsage"} /\ Goto(p, step, o)
    BY <1>21 DEF WriteUsage, Return
  <2>2. CASE Write(db, hist)
    BY <1>0, <2>1, <2>2, UnchangedQuiet, Unwatched, QuietRight DEF Write
  <2>3. ASSUME NEW coll, NEW reports, NEW mixed,
               Write([db EXCEPT !.usage = coll],
                     [hist EXCEPT !.reports = reports, !.mixed = mixed])
        PROVE  Right(p)
    <3>1. PICK notes : notes = [hist EXCEPT !.reports = reports, !.mixed = mixed] OBVIOUS
    <3>2. /\ notes.seeded = hist.seeded /\ notes.confirmed = hist.confirmed
          /\ DOMAIN notes = DOMAIN hist
      BY <1>0, <3>1 DEF AuthorityInv
    <3>3. QED BY <1>2, <2>1, <2>3, <3>1, <3>2
  <2>4. QED BY <2>1, <2>2, <2>3
<1>22. CASE ReadUsage(p) BY <1>22, AnsweringRight DEF ReadUsage
<1>23. QED
  BY <1>3, <1>4, <1>5, <1>6, <1>7, <1>8, <1>9, <1>10, <1>11, <1>12, <1>13, <1>14, <1>15, <1>16,
     <1>17, <1>18, <1>19, <1>20, <1>21, <1>22 DEF DeviceStep

----------------------------------------------------------------------------
(* Every step. *)

\* Every step of a handler is right.
LEMMA HandlerStepRight ==
    ASSUME AInv, NEW p \in Handlers, HandlerStep(p)
    PROVE  Right(p)
<1>1. CASE Arrive(p)
  <2>1. PICK o : Begin(p, "globalRules", o) BY <1>1 DEF Arrive
  <2>2. QED BY <2>1, BeginningRight DEF Watched, Provisioning, Creating
<1>2. CASE Die(p) BY <1>2, AnsweringRight DEF Die
<1>3. QED BY <1>1, <1>2, GateRight, AccountRight, DeviceRight DEF HandlerStep

\* What happens besides the handlers has no authority in it either.
LEMMA ElsewhereQuiet ==
    ASSUME AInv, Elsewhere
    PROVE  Quiet
<1>0. /\ DOMAIN db = Collections /\ db.issued \in Nat
      /\ {"seeded", "confirmed"} \subseteq DOMAIN hist
  BY DEF AInv, IInv, StoreInv, AuthorityInv
<1>1. CASE StartUp
  <2>1. /\ db' = db \/ \E indexes : db' = [db EXCEPT !.indexes = indexes]
        /\ hist' = hist \/ hist' = [hist EXCEPT !.bootFailed = TRUE]
        /\ served' = served
    BY <1>1 DEF StartUp, BuildContext, IndexEmails, IndexExpiry, FailIndex, Restart, Start
  <2>2. /\ db'.users = db.users /\ db'.rules = db.rules
        /\ db'.ledger = db.ledger /\ db'.issued = db.issued
    BY <1>0, <2>1 DEF Collections
  <2>3. /\ DOMAIN hist' = DOMAIN hist
        /\ hist'.seeded = hist.seeded /\ hist'.confirmed = hist.confirmed
    BY <1>0, <2>1
  <2>4. QED BY <1>0, <2>1, <2>2, <2>3 DEF Quiet, Growing
<1>2. CASE ExpireCode
  <2>1. PICK codes : db' = [db EXCEPT !.codes = codes] /\ UNCHANGED <<served, hist>>
    BY <1>2 DEF ExpireCode
  <2>2. QED BY <1>0, <2>1 DEF Quiet, Growing, Collections
<1>3. CASE ExpireUsage
  <2>1. PICK usage, reports, mixed :
           /\ db' = [db EXCEPT !.usage = usage]
           /\ hist' = [hist EXCEPT !.reports = reports, !.mixed = mixed]
           /\ served' = served
    BY <1>3 DEF ExpireUsage
  <2>2. QED BY <1>0, <2>1 DEF Quiet, Growing, Collections
<1>4. CASE Elapse \/ UNCHANGED vars
  BY <1>4, UnchangedQuiet DEF Elapse, vars
<1>5. QED BY <1>1, <1>2, <1>3, <1>4 DEF Elsewhere

\* A handler that does not move goes on knowing what it knew.
LEMMA KnownKept ==
    ASSUME AInv, Growing, NEW q \in Handlers, pc'[q] = pc[q], op'[q] = op[q]
    PROVE  Knows(q)
<1>1. PICK step, o : step = pc[q] /\ o = op[q] OBVIOUS
<1>2. KnownOk(step, o) BY <1>1 DEF AInv, Known
<1>3. KnownOk(step, o)' BY <1>2, KnownStays DEF Growing
<1>4. QED BY <1>1, <1>3 DEF Knows

\* Every step preserves the invariant ...
LEMMA AuthorityStep == AInv /\ [Next]_vars => AInv'
<1> SUFFICES ASSUME AInv, [Next]_vars PROVE AInv' OBVIOUS
<1>1. IInv' BY StepOk DEF AInv
<1>2. CASE Elsewhere
  <2>1. Quiet BY <1>2, ElsewhereQuiet
  <2>2. UNCHANGED <<pc, op>> BY <1>2, ElsewhereSafe DEF AInv
  <2>3. Known' BY <2>1, <2>2, KnownKept DEF Quiet, Known, Knows
  <2>4. QED BY <1>1, <2>1, <2>3, QuietOk DEF AInv
<1>3. ASSUME NEW p \in Handlers, HandlerStep(p) PROVE AInv'
  <2>1. Right(p) BY <1>3, HandlerStepRight
  <2>2. Alone(p) BY <1>3, HandlerStepSafe DEF AInv
  <2>3. ASSUME NEW q \in Handlers PROVE Knows(q)
    BY <2>1, <2>2, KnownKept DEF Right, Alone
  <2>4. Known' BY <2>3 DEF Known, Knows
  <2>5. QED BY <1>1, <2>1, <2>4 DEF AInv, Right
<1>4. QED BY <1>2, <1>3, Steps

\* ... which holds at first, when nothing has changed.
LEMMA AuthorityAtFirst == Init => AInv
<1> SUFFICES ASSUME Init PROVE AInv OBVIOUS
<1>1. IInv BY InitOk
<1>2. db = load.store /\ hist = NoHistory BY DEF Init
<1>3. served \in DOMAIN Loads BY DEF Init
<1>4. AuthorityInv BY <1>2, <1>3, Accounted DEF AuthorityInv, RulesOk, RowOk, NoHistory
<1>5. ASSUME NEW p \in Handlers PROVE KnownOk(pc[p], op[p])
  BY DEF Init, KnownOk, Provisioning, Creating
<1>6. QED BY <1>1, <1>4, <1>5 DEF AInv, Known

\* Whatever lets somebody in or keeps him out is on the ledger of permission
\* changes: rules, country lists, switches and status, for any requests in
\* flight, any interleaving of their calls and any deaths between the entry
\* and the write it is for.
THEOREM AuthorityRecorded == Spec => []AuthorityIsOnLedger
<1>1. AInv => AuthorityIsOnLedger
  BY DEF AInv, AuthorityInv, RulesOk, RowOk, AuthorityIsOnLedger, Switches, Lists
<1>2. Spec => []AInv BY AuthorityAtFirst, AuthorityStep, PTL DEF Spec
<1>3. QED BY <1>1, <1>2, PTL

----------------------------------------------------------------------------
(* The gate is tight: nobody gets to a handler whom a rule, an allow list  *)
(* or a fence keeps out, however rules are edited between the two finds of *)
(* the pipeline, and whichever way addresses are written.                  *)
----------------------------------------------------------------------------
(* Ranges. *)

\* A power of two is a positive number: it counts the subsets of a set.
LEMMA Powers ==
    ASSUME NEW k \in Nat
    PROVE  2^k \in Nat /\ 2^k > 0
<1>1. IsFiniteSet(1..k) /\ Cardinality(1..k) = k BY FS_Interval
<1>2. IsFiniteSet(SUBSET (1..k)) /\ Cardinality(SUBSET (1..k)) = 2^k BY <1>1, FS_SUBSET
<1>3. SUBSET (1..k) # {} OBVIOUS
<1>4. QED BY <1>2, <1>3, FS_CardinalityType, FS_EmptySet

\* Two numbers have the same quotient if one is in the other's span.
LEMMA Spans ==
    ASSUME NEW m \in Int, NEW n \in Int, NEW s \in Nat, s > 0
    PROVE  m \div s = n \div s <=> m \in (n - (n % s))..((n - (n % s)) + s - 1)
<1>0. PICK a \in Int, x \in Int, b \in Int, y \in Int :
         a = m \div s /\ x = m % s /\ b = n \div s /\ y = n % s
  OBVIOUS
<1>1. m = s * a + x /\ x \in 0..(s - 1) BY <1>0
<1>2. n = s * b + y /\ y \in 0..(s - 1) BY <1>0
<1>3. CASE a = b BY <1>0, <1>1, <1>2, <1>3
<1>4. CASE a > b
  <2>1. s * (a - b) >= s BY <1>4
  <2>2. s * (a - b) = s * a - s * b OBVIOUS
  <2>3. m - (n - y) >= s BY <1>1, <1>2, <2>1, <2>2
  <2>4. QED BY <1>0, <1>4, <2>3
<1>5. CASE a < b
  <2>1. s * (b - a) >= s BY <1>5
  <2>2. s * (b - a) = s * b - s * a OBVIOUS
  <2>3. (n - y) - m > 0 BY <1>1, <1>2, <2>1, <2>2
  <2>4. QED BY <1>0, <1>5, <2>3
<1>6. QED BY <1>3, <1>4, <1>5

\* The test the code makes of an address and a valid range is the one of
\* intervals.
LEMMA RangesCover ==
    ASSUME NEW cidr, NEW ip, IsIp(cidr.ip), IsIp(ip), IsValidCidr(cidr)
    PROVE  Covers(cidr, ip) <=> IpInCidr(ip, cidr)
<1>1. PICK rule, canon, bits, prefix, span :
         /\ rule = CanonicalizeIp(cidr.ip) /\ canon = CanonicalizeIp(ip)
         /\ bits = Bits(rule.form) /\ prefix = Prefix(cidr) /\ span = 2^(bits - prefix)
  OBVIOUS
<1>2. canon.n \in Int /\ rule.n \in Int
  BY <1>1 DEF IsIp, CanonicalizeIp, NoAddress
<1>3. bits \in Nat /\ prefix \in 0..bits
  BY <1>1, WidthAssumption DEF IsValidCidr, Bits
<1>4. span \in Nat /\ span > 0
  <2>1. PICK k \in Nat : k = bits - prefix BY <1>3
  <2>2. QED BY <1>1, <2>1, Powers
<1>5. /\ Covers(cidr, ip) <=> rule.form = canon.form
            /\ canon.n \in (rule.n - (rule.n % span))..((rule.n - (rule.n % span)) + span - 1)
      /\ IpInCidr(ip, cidr) <=> canon.form = rule.form /\ canon.n \div span = rule.n \div span
  BY <1>1 DEF Covers, IpInCidr, Masked
<1>6. QED BY <1>2, <1>4, <1>5, Spans

----------------------------------------------------------------------------
(* The invariant. *)

\* No rule of this scope keeps the request out: none of those that were there
\* when it arrived, and no allow list unless something was edited since.
ScopeClear(o, scope, user) ==
    /\ \A id \in o.rulesThen \cap DOMAIN db.rules :
          LET rule == db.rules[id]
          IN  rule.scope = scope /\ rule.user = user /\ rule.type = "block" =>
                  ~IpInCidr(o.ip, rule.cidr)
    /\ o.editsThen = hist.edits => ~DeniedByAllowlist(RulesFor(scope, user), o.ip)

There(o) == CountryOf[CanonicalizeIp(o.ip)]

\* Nor does the fence of its account, unless something was edited since.
FenceClear(o) ==
    LET fence == db.users[o.token.user].geoFence
    IN  o.editsThen = hist.edits => fence = {} \/ There(o) \in fence

Entering == {"idle", "globalRules", "deny"}
Before == Entering \cup {"findUser", "userRules"}

\* What a request is, and what was there when it arrived.
RequestOk(o) ==
    /\ {"route", "token", "user", "ip", "body", "country", "found", "at", "rulesThen",
        "editsThen"} \subseteq DOMAIN o
    /\ IsIp(o.ip)
    /\ \A id \in o.rulesThen : id \in Nat => id <= db.issued
    /\ o.editsThen \in Int /\ o.editsThen <= hist.edits
    /\ o.token # NoToken => o.token.user \in DOMAIN db.users

\* What it has passed on its way to the call "step".
PassedOk(step, o) ==
    /\ step \in {"findUser", "userRules"} => ROUTES[o.route].auth
    /\ step \in Incoming => o.user = o.token.user
    /\ step \notin Entering => ScopeClear(o, "global", Nobody)
    /\ step \notin Entering /\ ROUTES[o.route].auth => o.token # NoToken
    /\ step = "userRules" =>
          /\ o.country \in {NoCountry, There(o)}
          /\ o.editsThen = hist.edits => o.found.geoFence = db.users[o.token.user].geoFence
    /\ step \notin Before /\ ROUTES[o.route].auth =>
          ScopeClear(o, "user", o.token.user) /\ FenceClear(o)

\* A rule about to be inserted is one.
BodyOk(step, o) ==
    /\ step \in Incoming \cup {"requireAdmin"} /\ o.route = "addIpRule" => IsRule(o.body)
    /\ step \in {"recordRule", "insertRule"} => IsRule(o.body) /\ IsValidCidr(o.body.cidr)

\* What holds of a handler with locals o about to make the call "step".
GateOk(step, o) ==
    /\ step \in {"recordRule", "insertRule"} => o.route = "addIpRule"
    /\ o.route \in DOMAIN ROUTES /\ step # "idle" =>
          RequestOk(o) /\ PassedOk(step, o) /\ BodyOk(step, o)

\* What the collections hold.
RulesInv ==
    /\ \A id \in DOMAIN db.rules :
          /\ IsRule(db.rules[id]) /\ IsValidCidr(db.rules[id].cidr)
          /\ id \in Nat => id <= db.issued
    /\ \A u \in DOMAIN db.users : u \in Nat => u <= db.issued
    /\ DOMAIN load.store.users \subseteq DOMAIN db.users
    /\ "edits" \in DOMAIN hist /\ hist.edits \in Int

GInv == AInv /\ RulesInv /\ \A p \in Handlers : GateOk(pc[p], op[p])

\* What every step does: a rule comes under an id nobody had, and no rule and
\* no fence changes without being counted.
Tame ==
    /\ db.issued <= db'.issued /\ db'.issued \in Nat
    /\ "edits" \in DOMAIN hist' /\ hist'.edits \in Int /\ hist.edits <= hist'.edits
    /\ \A id \in DOMAIN db'.rules :
          \/ id \in DOMAIN db.rules /\ db'.rules[id] = db.rules[id]
          \/ /\ id \in Nat /\ db.issued < id /\ id <= db'.issued
             /\ IsRule(db'.rules[id]) /\ IsValidCidr(db'.rules[id].cidr)
    /\ DOMAIN db.users \subseteq DOMAIN db'.users
    /\ \A u \in DOMAIN db'.users \ DOMAIN db.users : u \in Nat => u <= db'.issued
    /\ hist'.edits = hist.edits =>
          /\ db'.rules = db.rules
          /\ \A u \in DOMAIN db.users : db'.users[u].geoFence = db.users[u].geoFence

----------------------------------------------------------------------------
(* What is left alone stays right. *)

\* Who was let through stays so.
LEMMA ScopeStays ==
    ASSUME RulesInv, AuthorityInv, Tame, NEW o, RequestOk(o), NEW scope, NEW user,
           ScopeClear(o, scope, user)
    PROVE  ScopeClear(o, scope, user)'
<1>1. ASSUME NEW id \in o.rulesThen \cap DOMAIN db'.rules
      PROVE  id \in DOMAIN db.rules /\ db'.rules[id] = db.rules[id]
  BY <1>1 DEF RequestOk, Tame, AuthorityInv
<1>2. o.editsThen = hist'.edits => o.editsThen = hist.edits /\ db'.rules = db.rules
  BY DEF RequestOk, Tame, RulesInv
<1>3. \A id \in o.rulesThen \cap DOMAIN db'.rules :
         LET rule == db'.rules[id]
         IN  rule.scope = scope /\ rule.user = user /\ rule.type = "block" =>
                 ~IpInCidr(o.ip, rule.cidr)
  BY <1>1 DEF ScopeClear
<1>4. o.editsThen = hist'.edits => ~DeniedByAllowlist(RulesFor(scope, user), o.ip)'
  <2>1. SUFFICES ASSUME o.editsThen = hist'.edits
                 PROVE  ~DeniedByAllowlist(RulesFor(scope, user), o.ip)'
    OBVIOUS
  <2>2. PICK rules : rules = RulesFor(scope, user) OBVIOUS
  <2>3. RulesFor(scope, user)' = rules BY <1>2, <2>1, <2>2 DEF RulesFor
  <2>4. ~DeniedByAllowlist(rules, o.ip) BY <1>2, <2>1, <2>2 DEF ScopeClear
  <2>5. QED BY <2>3, <2>4 DEF DeniedByAllowlist, IpInCidr
<1>5. QED BY <1>3, <1>4 DEF ScopeClear, IpInCidr

\* Whom the gate let this far, it let this far.
LEMMA PassageStays ==
    ASSUME RulesInv, AuthorityInv, Tame, NEW step, NEW o, GateOk(step, o)
    PROVE  GateOk(step, o)'
<1>1. SUFFICES ASSUME o.route \in DOMAIN ROUTES, step # "idle"
               PROVE  (RequestOk(o) /\ PassedOk(step, o) /\ BodyOk(step, o))'
  BY DEF GateOk, ROUTES, Open, Member, Admin, AdminRead
<1>2. RequestOk(o) /\ PassedOk(step, o) /\ BodyOk(step, o) BY <1>1 DEF GateOk
<1>3. RequestOk(o)'
  BY <1>2 DEF RequestOk, Tame, RulesInv, AuthorityInv, IsIp, NoToken, NoAddress
<1>4. BodyOk(step, o)' BY <1>2 DEF BodyOk, IsRule, IsValidCidr, Incoming
<1>5. o.editsThen = hist'.edits =>
         /\ o.editsThen = hist.edits
         /\ \A u \in DOMAIN db.users : db'.users[u].geoFence = db.users[u].geoFence
  BY <1>2 DEF RequestOk, Tame, RulesInv
<1>6. ROUTES[o.route].auth /\ step \notin Entering => o.token.user \in DOMAIN db.users
  BY <1>2 DEF RequestOk, PassedOk
<1>7. step \notin Before /\ ROUTES[o.route].auth =>
         ScopeClear(o, "user", o.token.user)' /\ FenceClear(o)'
  <2>1. SUFFICES ASSUME step \notin Before, ROUTES[o.route].auth
                 PROVE  ScopeClear(o, "user", o.token.user)' /\ FenceClear(o)'
    OBVIOUS
  <2>2. ScopeClear(o, "user", o.token.user) /\ FenceClear(o) /\ o.token.user \in DOMAIN db.users
    BY <1>2, <1>6, <2>1 DEF PassedOk, Before
  <2>3. PICK u : u = o.token.user OBVIOUS
  <2>4. ScopeClear(o, "user", u)' BY <1>2, <2>2, <2>3, ScopeStays
  <2>5. FenceClear(o)' BY <1>5, <2>2 DEF FenceClear, There
  <2>6. QED BY <2>3, <2>4, <2>5
<1>8. step \notin Entering => ScopeClear(o, "global", Nobody)'
  BY <1>2, ScopeStays DEF PassedOk
<1>9. step = "userRules" =>
          /\ o.country \in {NoCountry, There(o)}
          /\ o.editsThen = hist'.edits => o.found.geoFence = db'.users[o.token.user].geoFence
  BY <1>2, <1>5, <1>6 DEF PassedOk, Entering
<1>10. PassedOk(step, o)'
  BY <1>2, <1>7, <1>8, <1>9 DEF PassedOk, There, Incoming, Entering, Before, NoToken
<1>11. QED BY <1>3, <1>4, <1>10

\* p went on as the gate let it, and its step is tame.
Tight(p) == Tame /\ GateOk(pc[p], op[p])'

\* The calls that ask something of the locals.
Asking == Incoming \cup {"requireAdmin", "recordRule", "insertRule"}

\* It is the same request still.
SameRequest(o, was) ==
    /\ o.route = was.route
    /\ was.route \in DOMAIN ROUTES =>
          /\ DOMAIN was \subseteq DOMAIN o
          /\ \A f \in {"token", "ip", "rulesThen", "editsThen"} : o[f] = was[f]

\* What a handler holds, and that the parts of the invariant hold.
LEMMA Parts ==
    ASSUME GInv
    PROVE  /\ AInv /\ IInv /\ AuthorityInv /\ RulesInv
           /\ DOMAIN db = Collections /\ db.issued \in Nat
           /\ "edits" \in DOMAIN hist /\ hist.edits \in Int
           /\ \A p \in Handlers : GateOk(pc[p], op[p])
           /\ \A p \in Handlers : pc[p] # "idle" => HasFields(op[p])
BY DEF GInv, AInv, IInv, StoreInv, AuthorityInv, RulesInv, HandlersInv, LocalOk

\* A handler that goes where the gate lets it.
LEMMA Passing ==
    ASSUME GInv, NEW p \in Handlers, NEW step, NEW o, Goto(p, step, o), Tame, GateOk(step, o)
    PROVE  Tight(p)
<1>1. GateOk(step, o)' BY Parts, PassageStays
<1>2. pc'[p] = step /\ op'[p] = o BY Parts, Going DEF IInv
<1>3. QED BY <1>1, <1>2 DEF Tight

\* Past the gate it goes on as the same request, ...
LEMMA Onward ==
    ASSUME GInv, NEW p \in Handlers, NEW step, NEW o, Goto(p, step, o), Tame,
           pc[p] \notin Before, step \notin Asking, SameRequest(o, op[p])
    PROVE  Tight(p)
<1>1. PICK was, at : was = op[p] /\ at = pc[p] OBVIOUS
<1>2. GateOk(at, was) BY <1>1, Parts
<1>3. SUFFICES ASSUME o.route \in DOMAIN ROUTES
               PROVE  RequestOk(o) /\ PassedOk(step, o) /\ BodyOk(step, o)
  BY Passing DEF GateOk, Asking
<1>4. /\ DOMAIN was \subseteq DOMAIN o /\ o.route = was.route
      /\ o.token = was.token /\ o.ip = was.ip
      /\ o.rulesThen = was.rulesThen /\ o.editsThen = was.editsThen
  BY <1>1, <1>3 DEF SameRequest
<1>5. RequestOk(was) /\ PassedOk(at, was)
  BY <1>1, <1>2, <1>3, <1>4 DEF GateOk, Before, Entering
<1>6. RequestOk(o) BY <1>4, <1>5 DEF RequestOk
<1>7. /\ ScopeClear(o, "global", Nobody)
      /\ ROUTES[o.route].auth =>
            o.token # NoToken /\ ScopeClear(o, "user", o.token.user) /\ FenceClear(o)
  BY <1>1, <1>4, <1>5 DEF PassedOk, Before, Entering, ScopeClear, FenceClear, There
<1>8. PassedOk(step, o) BY <1>7 DEF PassedOk, Asking, Incoming
<1>9. BodyOk(step, o) BY DEF BodyOk, Asking
<1>10. QED BY <1>6, <1>8, <1>9

\* ... or returns, ...
LEMMA RestingTight ==
    ASSUME GInv, NEW p \in Handlers, Return(p), Tame
    PROVE  Tight(p)
<1>1. GateOk("idle", Idle) BY DEF GateOk
<1>2. QED BY <1>1, Passing DEF Return

\* ... and what is no request of the table need not pass the gate.
LEMMA Unrouted ==
    ASSUME GInv, NEW p \in Handlers, NEW step, NEW o, Goto(p, step, o), Tame,
           o.route \notin DOMAIN ROUTES, step \notin Asking
    PROVE  Tight(p)
BY Passing DEF GateOk, Asking

----------------------------------------------------------------------------
(* Tame steps. *)

\* Nothing is written.
LEMMA NoWriteTame ==
    ASSUME GInv, db' = db, hist' = hist
    PROVE  Tame
BY Parts DEF Tame, RulesInv

\* Neither rules nor accounts are written.
Untouched ==
    /\ db'.rules = db.rules /\ db'.users = db.users /\ db'.issued = db.issued
    /\ "edits" \in DOMAIN hist' /\ hist'.edits = hist.edits

LEMMA UntouchedTame ==
    ASSUME GInv, Untouched
    PROVE  Tame
BY Parts DEF Untouched, Tame, RulesInv

\* One collection is written that holds neither.
LEMMA OtherTame ==
    ASSUME GInv,
           NEW c \in {"ledger", "alarms", "codes", "devices", "usage", "indexes"}, NEW coll,
           db' = [db EXCEPT ![c] = coll],
           "edits" \in DOMAIN hist', hist'.edits = hist.edits
    PROVE  Tame
<1>1. db'.rules = db.rules /\ db'.users = db.users /\ db'.issued = db.issued
  BY Parts DEF Collections
<1>2. QED BY <1>1, UntouchedTame DEF Untouched

\* One account is written, and if that is not counted its fence stays.
LEMMA UpdateTame ==
    ASSUME GInv, NEW t, NEW new, db' = [db EXCEPT !.users[t] = new],
           "edits" \in DOMAIN hist', hist'.edits \in Int, hist.edits <= hist'.edits,
           t \in DOMAIN db.users /\ hist'.edits = hist.edits =>
               new.geoFence = db.users[t].geoFence
    PROVE  Tame
<1>1. /\ db'.rules = db.rules /\ db'.issued = db.issued
      /\ db'.users = [db.users EXCEPT ![t] = new]
  BY Parts DEF Collections
<1>2. \A u \in DOMAIN db.users :
         hist'.edits = hist.edits => db'.users[u].geoFence = db.users[u].geoFence
  BY <1>1
<1>3. QED BY <1>1, <1>2, Parts DEF Tame, RulesInv

\* A handler that only reads goes on past the gate.
LEMMA ReadingOn ==
    ASSUME GInv, NEW p \in Handlers, NEW step, NEW o, Read(p, step, o),
           pc[p] \notin Before, step \notin Asking, SameRequest(o, op[p])
    PROVE  Tight(p)
BY NoWriteTame, Onward DEF Read

\* An answer, whether the gate lets the request through or not.
LEMMA AnsweringTight ==
    ASSUME GInv, NEW p \in Handlers, Answer(p)
    PROVE  Tight(p)
BY NoWriteTame, RestingTight DEF Answer, Read, Return

\* A job begins that is no request of the table.
LEMMA BeginningTight ==
    ASSUME GInv, NEW p \in Handlers, NEW step, NEW o, Begin(p, step, o),
           o.route \notin DOMAIN ROUTES, step \notin Asking
    PROVE  Tight(p)
BY NoWriteTame, Unrouted DEF Begin

\* An alarm is raised, or lost.
LEMMA RaisingTame ==
    ASSUME GInv, NEW key, Emit(key)
    PROVE  Tame
<1>1. CASE Write(Raise(key), hist) BY <1>1, OtherTame, Parts DEF Write, Raise
<1>2. CASE Write(db, hist) BY <1>2, NoWriteTame DEF Write
<1>3. QED BY <1>1, <1>2 DEF Emit, LoseAlarm

\* An entry is made, past the gate.
LEMMA ChainingTame ==
    ASSUME GInv, NEW p \in Handlers, NEW step, NEW entry, Chain(p, step, entry)
    PROVE  Tame /\ Goto(p, step, op[p])
BY OtherTame, Parts DEF Write, Chain

\* A handler that keeps its locals is the same request.
LEMMA Unaltered == \A o : SameRequest(o, o)
BY DEF SameRequest

\* So is one that alters what the gate does not look at.
LEMMA Altered ==
    ASSUME GInv, NEW p \in Handlers, pc[p] # "idle", NEW o, DOMAIN o = DOMAIN op[p],
           \A f \in DOMAIN o \ {"user", "body", "found", "at", "country", "priors", "silent",
                             "unheard"} : o[f] = op[p][f]
    PROVE  SameRequest(o, op[p])
<1>1. PICK was : was = op[p] OBVIOUS
<1>2. "route" \in DOMAIN was /\ GateOk(pc[p], was) BY <1>1, Parts DEF HasFields
<1>3. o.route = was.route BY <1>1, <1>2
<1>4. was.route \in DOMAIN ROUTES =>
         {"token", "ip", "rulesThen", "editsThen"} \subseteq DOMAIN was
  BY <1>2 DEF GateOk, RequestOk
<1>5. QED BY <1>1, <1>3, <1>4 DEF SameRequest

----------------------------------------------------------------------------
(* The gate. *)

\* Rules that object to nothing keep nobody out.
LEMMA Cleared ==
    ASSUME NEW o, NEW scope, NEW user, EvalScope(RulesFor(scope, user), o.ip) = "ok"
    PROVE  ScopeClear(o, scope, user)
<1>1. PICK rules : rules = RulesFor(scope, user) OBVIOUS
<1>2. ~Blocked(rules, o.ip) /\ ~DeniedByAllowlist(rules, o.ip) BY <1>1 DEF EvalScope
<1>3. ASSUME NEW id \in DOMAIN db.rules,
             db.rules[id].scope = scope, db.rules[id].user = user, db.rules[id].type = "block"
      PROVE  ~IpInCidr(o.ip, db.rules[id].cidr)
  <2>1. db.rules[id] \in rules BY <1>1, <1>3 DEF RulesFor
  <2>2. QED BY <1>2, <1>3, <2>1 DEF Blocked
<1>4. QED BY <1>1, <1>2, <1>3 DEF ScopeClear

\* A provider answers where the address is, or nothing.
LEMMA LookupIs ==
    ASSUME NEW provider, NEW user, NEW ip, NEW country \in Lookup(provider, user, ip)
    PROVE  country \in {NoCountry, CountryOf[CanonicalizeIp(ip)]}
BY DEF Lookup, Answers, Provided

\* A fence that does not object has the country in it, or is none.
LEMMA Fenced ==
    ASSUME NEW user, NEW country, EnforceGeoFence(user, country) = "ok"
    PROVE  user.geoFence = {} \/ (country # NoCountry /\ country \in user.geoFence)
BY DEF EnforceGeoFence

\* What a handler on its way through the gate holds.
LEMMA OnTheWay ==
    ASSUME GInv, NEW p \in Handlers, pc[p] \in Incoming
    PROVE  /\ op[p].route \in DOMAIN ROUTES
           /\ RequestOk(op[p]) /\ PassedOk(pc[p], op[p]) /\ BodyOk(pc[p], op[p])
           /\ op[p].user = op[p].token.user
<1>1. LocalOk(pc[p], op[p]) /\ GateOk(pc[p], op[p]) BY DEF GInv, AInv, IInv, HandlersInv
<1>2. op[p].route \in DOMAIN ROUTES /\ pc[p] # "idle"
  BY <1>1 DEF LocalOk, RouteOk, Incoming
<1>3. QED BY <1>1, <1>2 DEF GateOk, PassedOk

\* The gate lets through whom nothing keeps out.
LEMMA DispatchingTight ==
    ASSUME GInv, NEW p \in Handlers, pc[p] \in Incoming, Dispatch(p),
           ScopeClear(op[p], "global", Nobody),
           ROUTES[op[p].route].auth =>
               /\ op[p].token # NoToken
               /\ ScopeClear(op[p], "user", op[p].token.user) /\ FenceClear(op[p])
    PROVE  Tight(p)
<1>0. PICK was, first, o :
        /\ was = op[p] /\ first = ROUTES[was.route].first
        /\ o = [was EXCEPT !.at = now, !.found = Nothing, !.country = NoCountry]
  OBVIOUS
<1>1. Goto(p, first, o) /\ Tame
  BY <1>0, NoWriteTame DEF Dispatch, Read, MatchRoute
<1>2. was.route \in DOMAIN ROUTES /\ RequestOk(was) /\ BodyOk(pc[p], was)
  BY <1>0, OnTheWay
<1>3. /\ DOMAIN o = DOMAIN was /\ o.route = was.route /\ o.token = was.token /\ o.ip = was.ip
      /\ o.rulesThen = was.rulesThen /\ o.editsThen = was.editsThen /\ o.body = was.body
  BY <1>0, <1>2 DEF RequestOk
<1>4. first \in FirstCalls BY <1>0, <1>2, Routes
<1>5. RequestOk(o) BY <1>2, <1>3 DEF RequestOk
<1>6. /\ ScopeClear(o, "global", Nobody)
      /\ ROUTES[o.route].auth =>
            o.token # NoToken /\ ScopeClear(o, "user", o.token.user) /\ FenceClear(o)
  BY <1>0, <1>3 DEF ScopeClear, FenceClear, There
<1>7. PassedOk(first, o) BY <1>4, <1>6 DEF PassedOk, FirstCalls, Incoming
<1>8. BodyOk(first, o) BY <1>2, <1>3, <1>4 DEF BodyOk, FirstCalls
<1>9. QED BY <1>1, <1>4, <1>5, <1>7, <1>8, Passing DEF GateOk, FirstCalls

\* Whom it refuses it will raise an alarm about.
LEMMA RefusingTight ==
    ASSUME GInv, NEW p \in Handlers, pc[p] \in Incoming, NEW reason, NEW who,
           Refuse(p, reason, who)
    PROVE  Tight(p)
<1>0. PICK was, o : /\ was = op[p]
                   /\ o = [was EXCEPT !.found = [alarm |-> <<reason, who, now>>]]
  OBVIOUS
<1>1. Goto(p, "deny", o) /\ Tame BY <1>0, NoWriteTame DEF Refuse, Read
<1>2. RequestOk(was) BY <1>0, OnTheWay
<1>3. RequestOk(o) BY <1>0, <1>2 DEF RequestOk
<1>4. PassedOk("deny", o) /\ BodyOk("deny", o)
  BY DEF PassedOk, BodyOk, Entering, Before, Incoming
<1>5. QED BY <1>1, <1>3, <1>4, Passing DEF GateOk

\* A request arrives, and what was in force then is noted.
LEMMA ArrivingTight ==
    ASSUME GInv, NEW p \in Handlers, Arrive(p)
    PROVE  Tight(p)
<1>1. PICK r \in load.arrivals :
        /\ r.route \in DOMAIN ROUTES
        /\ Begin(p, "globalRules",
                 [route |-> r.route, token |-> r.token, user |-> r.token.user, ip |-> r.ip,
                  body |-> r.body, country |-> NoCountry, found |-> Nothing, at |-> now,
                  unheard |-> FALSE, rulesThen |-> DOMAIN db.rules, editsThen |-> hist.edits])
  BY DEF Arrive
<1>2. PICK o : o = [route |-> r.route, token |-> r.token, user |-> r.token.user, ip |-> r.ip,
                  body |-> r.body, country |-> NoCountry, found |-> Nothing, at |-> now,
                  unheard |-> FALSE, rulesThen |-> DOMAIN db.rules, editsThen |-> hist.edits]
  OBVIOUS
<1>3. Goto(p, "globalRules", o) /\ Tame BY <1>1, <1>2, NoWriteTame DEF Begin
<1>4. /\ IsIp(r.ip)
      /\ r.route = "addIpRule" => IsRule(r.body)
      /\ r.token # NoToken => r.token.user \in DOMAIN db.users
  BY <1>1, Parts, RulesAssumption DEF load, RulesInv, IInv, StoreInv
<1>5. RequestOk(o) BY <1>2, <1>4, Parts DEF RequestOk, RulesInv
<1>6. PassedOk("globalRules", o) BY <1>2 DEF PassedOk, Entering, Before
<1>7. BodyOk("globalRules", o) BY <1>2, <1>4 DEF BodyOk
<1>8. QED BY <1>3, <1>5, <1>6, <1>7, Passing DEF GateOk

\* The global rules, the token and its scope.
LEMMA GlobalRulesTight ==
    ASSUME GInv, NEW p \in Handlers, GlobalRules(p)
    PROVE  Tight(p)
<1>0. PICK o, route : o = op[p] /\ route = ROUTES[o.route] OBVIOUS
<1>1. pc[p] = "globalRules" BY DEF GlobalRules
<1>2. /\ o.route \in DOMAIN ROUTES /\ RequestOk(o) /\ BodyOk("globalRules", o)
      /\ o.user = o.token.user
  BY <1>0, <1>1, OnTheWay DEF Incoming
<1>3. CASE Answer(p) BY <1>3, AnsweringTight
<1>4. CASE \E reason : Refuse(p, reason, o.ip) BY <1>1, <1>4, RefusingTight DEF Incoming
<1>5. CASE EvalScope(RulesFor("global", Nobody), o.ip) = "ok"
  <2>1. ScopeClear(o, "global", Nobody) BY <1>5, Cleared
  <2>2. CASE ~route.auth /\ Dispatch(p)
    BY <1>0, <1>1, <2>1, <2>2, DispatchingTight DEF Incoming
  <2>3. CASE route.auth /\ BearerAccepted(o.token) /\ Read(p, "findUser", o)
    <3>1. PassedOk("findUser", o)
      BY <1>0, <1>2, <2>1, <2>3 DEF PassedOk, BearerAccepted, Before
    <3>2. BodyOk("findUser", o) BY <1>2 DEF BodyOk, Incoming
    <3>3. Goto(p, "findUser", o) /\ Tame BY <2>3, NoWriteTame DEF Read
    <3>4. QED BY <1>2, <3>1, <3>2, <3>3, Passing DEF GateOk
  <2>4. QED BY <1>0, <1>3, <1>4, <1>5, <2>2, <2>3 DEF GlobalRules, MatchRoute
<1>6. QED BY <1>0, <1>4, <1>5 DEF GlobalRules

\* The account, and where the address is.
LEMMA FindUserTight ==
    ASSUME GInv, NEW p \in Handlers, FindUser(p)
    PROVE  Tight(p)
<1>0. PICK was : was = op[p] OBVIOUS
<1>1. pc[p] = "findUser" BY DEF FindUser
<1>2. /\ was.route \in DOMAIN ROUTES /\ RequestOk(was) /\ BodyOk("findUser", was)
      /\ PassedOk("findUser", was) /\ was.user = was.token.user
  BY <1>0, <1>1, OnTheWay DEF Incoming
<1>3. ROUTES[was.route].auth /\ was.token # NoToken /\ ScopeClear(was, "global", Nobody)
  BY <1>2 DEF PassedOk, Entering
<1>4. was.user \in DOMAIN db.users BY <1>2, <1>3 DEF RequestOk
<1>5. CASE Answer(p) BY <1>5, AnsweringTight
<1>6. CASE \E country \in Lookup(load.provider, db.users[op[p].user], op[p].ip) :
              Read(p, "userRules",
                   [op[p] EXCEPT !.country = country, !.found = db.users[op[p].user]])
  <2>1. PICK country \in Lookup(load.provider, db.users[was.user], was.ip) :
           Read(p, "userRules", [was EXCEPT !.country = country, !.found = db.users[was.user]])
    BY <1>0, <1>6
  <2>2. PICK o : o = [was EXCEPT !.country = country, !.found = db.users[was.user]] OBVIOUS
  <2>3. Goto(p, "userRules", o) /\ Tame BY <2>1, <2>2, NoWriteTame DEF Read
  <2>4. /\ DOMAIN o = DOMAIN was /\ o.route = was.route /\ o.token = was.token
        /\ o.ip = was.ip /\ o.user = was.user /\ o.body = was.body
        /\ o.rulesThen = was.rulesThen /\ o.editsThen = was.editsThen
        /\ o.country = country /\ o.found = db.users[was.user]
    BY <1>2, <2>2 DEF RequestOk
  <2>5. RequestOk(o) BY <1>2, <2>4 DEF RequestOk
  <2>6. o.country \in {NoCountry, There(o)} BY <2>1, <2>4, LookupIs DEF There
  <2>7. ScopeClear(o, "global", Nobody) BY <1>3, <2>4 DEF ScopeClear
  <2>8. PassedOk("userRules", o)
    BY <1>2, <1>3, <2>4, <2>6, <2>7 DEF PassedOk, Entering, Before
  <2>9. BodyOk("userRules", o) BY <1>2, <2>4 DEF BodyOk, Incoming
  <2>10. QED BY <2>3, <2>5, <2>8, <2>9, Passing DEF GateOk
<1>7. QED BY <1>0, <1>4, <1>5, <1>6 DEF FindUser

\* Its rules as they are now, and its fence as it was found.
LEMMA UserRulesTight ==
    ASSUME GInv, NEW p \in Handlers, UserRules(p)
    PROVE  Tight(p)
<1>0. PICK o, rules : o = op[p] /\ rules = RulesFor("user", o.user) OBVIOUS
<1>1. pc[p] = "userRules" BY DEF UserRules
<1>2. PassedOk("userRules", o) /\ o.user = o.token.user
  BY <1>0, <1>1, OnTheWay DEF Incoming
<1>3. CASE \E reason : Refuse(p, reason, o.user) BY <1>1, <1>3, RefusingTight DEF Incoming
<1>4. CASE EnforceUserIp(o.found, rules, o.ip, o.country) = "ok" /\ Dispatch(p)
  <2>1. EvalScope(rules, o.ip) = "ok" /\ EnforceGeoFence(o.found, o.country) = "ok"
    BY <1>4 DEF EnforceUserIp
  <2>2. ScopeClear(o, "user", o.token.user) BY <1>0, <1>2, <2>1, Cleared
  <2>3. FenceClear(o) BY <1>2, <2>1, Fenced DEF PassedOk, FenceClear
  <2>4. ScopeClear(o, "global", Nobody) /\ o.token # NoToken
    BY <1>2 DEF PassedOk, Entering
  <2>5. QED BY <1>0, <1>1, <1>4, <2>2, <2>3, <2>4, DispatchingTight DEF Incoming
<1>5. QED BY <1>0, <1>3, <1>4 DEF UserRules

----------------------------------------------------------------------------
(* The admin's calls. *)

\* An administrator's rule is a valid range, or is not recorded.
LEMMA RequireAdminTight ==
    ASSUME GInv, NEW p \in Handlers, RequireAdmin(p)
    PROVE  Tight(p)
<1>0. PICK o, step : o = op[p] /\ step = AfterAdmin[o.route] OBVIOUS
<1>1. pc[p] = "requireAdmin" /\ SameRequest(o, op[p]) BY <1>0, Unaltered DEF RequireAdmin
<1>2. CASE Answer(p) BY <1>2, AnsweringTight
<1>3. CASE Read(p, step, o) /\ (o.route = "addIpRule" => MayAdd(p))
  <2>1. o.route \in DOMAIN AfterAdmin
    BY <1>0, <1>1 DEF GInv, AInv, IInv, HandlersInv, LocalOk, RouteOk
  <2>2. CASE o.route # "addIpRule"
    <3>1. step \notin Asking BY <1>0, <2>1, <2>2 DEF AfterAdmin, Asking, Incoming
    <3>2. QED BY <1>1, <1>3, <3>1, ReadingOn DEF Before, Entering
  <2>3. CASE o.route = "addIpRule"
    <3>1. step = "recordRule" BY <1>0, <2>3 DEF AfterAdmin
    <3>2. GateOk("requireAdmin", o) /\ o.route \in DOMAIN ROUTES
      BY <1>0, <1>1, <2>3, Parts DEF ROUTES
    <3>3. RequestOk(o) /\ PassedOk("requireAdmin", o) /\ IsRule(o.body)
      BY <2>3, <3>2 DEF GateOk, BodyOk
    <3>4. PassedOk("recordRule", o)
      BY <3>3 DEF PassedOk, Before, Entering, Incoming
    <3>5. BodyOk("recordRule", o)
      BY <1>0, <1>3, <2>3, <3>3 DEF BodyOk, MayAdd, Incoming
    <3>6. Goto(p, "recordRule", o) /\ Tame BY <1>3, <3>1, NoWriteTame DEF Read
    <3>7. QED BY <2>3, <3>3, <3>4, <3>5, <3>6, Passing DEF GateOk
  <2>4. QED BY <2>2, <2>3
<1>4. QED BY <1>0, <1>2, <1>3 DEF RequireAdmin

\* A rule about to be recorded or inserted is one.
LEMMA RuleHeld ==
    ASSUME GInv, NEW p \in Handlers, pc[p] \in {"recordRule", "insertRule"}
    PROVE  IsRule(op[p].body) /\ IsValidCidr(op[p].body.cidr)
<1>1. GateOk(pc[p], op[p]) BY Parts
<1>2. op[p].route \in DOMAIN ROUTES BY <1>1 DEF GateOk, ROUTES
<1>3. QED BY <1>1, <1>2 DEF GateOk, BodyOk

\* Recorded, ...
LEMMA RecordRuleTight ==
    ASSUME GInv, NEW p \in Handlers, RecordRule(p)
    PROVE  Tight(p)
<1>0. PICK o : o = op[p] OBVIOUS
<1>1. pc[p] = "recordRule" /\ Goto(p, "insertRule", o) /\ Tame
  BY <1>0, ChainingTame DEF RecordRule
<1>2. GateOk("recordRule", o) BY <1>0, <1>1, Parts
<1>3. GateOk("insertRule", o)
  BY <1>2 DEF GateOk, PassedOk, BodyOk, Before, Entering, Incoming
<1>4. QED BY <1>1, <1>3, Passing

\* ... and in force, under an id nobody had.
LEMMA InsertRuleTight ==
    ASSUME GInv, NEW p \in Handlers, InsertRule(p)
    PROVE  Tight(p)
<1>0. PICK id, rule : id = db.issued + 1 /\ rule = op[p].body OBVIOUS
<1>1. /\ pc[p] = "insertRule" /\ Return(p)
      /\ Write([db EXCEPT !.rules = Put(@, id, rule), !.issued = id], Edited)
  BY <1>0 DEF InsertRule
<1>2. IsRule(rule) /\ IsValidCidr(rule.cidr)
  BY <1>0, <1>1, RuleHeld
<1>3. /\ db'.rules = Put(db.rules, id, rule) /\ db'.issued = id /\ db'.users = db.users
      /\ "edits" \in DOMAIN hist' /\ hist'.edits = hist.edits + 1
  BY <1>1, Parts DEF Write, Edited, Collections
<1>4. ASSUME NEW i \in DOMAIN db'.rules
      PROVE  \/ i \in DOMAIN db.rules /\ db'.rules[i] = db.rules[i]
             \/ i = id /\ db'.rules[i] = rule
  BY <1>3 DEF Put
<1>5. Tame BY <1>0, <1>2, <1>3, <1>4, Parts DEF Tame, RulesInv
<1>6. QED BY <1>1, <1>5, RestingTight

\* A rule goes.
LEMMA DeleteRuleTight ==
    ASSUME GInv, NEW p \in Handlers, DeleteRule(p)
    PROVE  Tight(p)
<1>0. PICK ids : ids = DOMAIN db.rules \ {op[p].body.id} OBVIOUS
<1>1. /\ db'.rules = [id \in ids |-> db.rules[id]] /\ db'.issued = db.issued
      /\ db'.users = db.users
      /\ "edits" \in DOMAIN hist' /\ hist'.edits = hist.edits + 1
  BY <1>0, Parts DEF DeleteRule, Write, Edited, Collections
<1>2. Tame BY <1>0, <1>1, Parts DEF Tame, RulesInv
<1>3. QED BY <1>2, RestingTight DEF DeleteRule

\* A country list is counted as an edit.
LEMMA SetCountriesTight ==
    ASSUME GInv, NEW p \in Handlers, SetCountries(p)
    PROVE  Tight(p)
<1>1. PICK t, new : db' = [db EXCEPT !.users[t] = new] /\ hist' = Edited
  BY DEF SetCountries, Write
<1>2. "edits" \in DOMAIN hist' /\ hist'.edits = hist.edits + 1 BY <1>1, Parts DEF Edited
<1>3. Tame BY <1>1, <1>2, Parts, UpdateTame
<1>4. QED BY <1>3, RestingTight DEF SetCountries

\* The pipeline and the calls on rules and country lists.
LEMMA GateTight ==
    ASSUME GInv, NEW p \in Handlers, GateStep(p)
    PROVE  Tight(p)
<1> USE DEF Before, Entering, Asking, Incoming
<1>1. CASE GlobalRules(p) BY <1>1, GlobalRulesTight
<1>2. CASE FindUser(p) BY <1>2, FindUserTight
<1>3. CASE UserRules(p) BY <1>3, UserRulesTight
<1>4. CASE Deny(p) BY <1>4, RaisingTame, RestingTight DEF Deny
<1>5. CASE RequireAdmin(p) BY <1>5, RequireAdminTight
<1>6. CASE RecordRule(p) BY <1>6, RecordRuleTight
<1>7. CASE InsertRule(p) BY <1>7, InsertRuleTight
<1>8. CASE ListRules(p) BY <1>8, AnsweringTight DEF ListRules
<1>9. CASE FindRule(p)
  <2>1. CASE Answer(p) BY <2>1, AnsweringTight
  <2>2. CASE ~Answer(p)
    <3>1. PICK o : o = [op[p] EXCEPT !.found = db.rules[op[p].body.id]] OBVIOUS
    <3>2. SameRequest(o, op[p]) BY <1>9, <3>1, Altered DEF FindRule
    <3>3. QED BY <1>9, <2>2, <3>1, <3>2, ReadingOn DEF FindRule
  <2>3. QED BY <2>1, <2>2
<1>10. CASE RecordRemoval(p)
  <2>1. Tame /\ Goto(p, "deleteRule", op[p]) BY <1>10, ChainingTame DEF RecordRemoval
  <2>2. QED BY <1>10, <2>1, Onward, Unaltered DEF RecordRemoval
<1>11. CASE DeleteRule(p) BY <1>11, DeleteRuleTight
<1>12. CASE RecordCountries(p)
  <2>1. Tame /\ Goto(p, "setCountries", op[p]) BY <1>12, ChainingTame DEF RecordCountries
  <2>2. QED BY <1>12, <2>1, Onward, Unaltered DEF RecordCountries
<1>13. CASE SetCountries(p) BY <1>13, SetCountriesTight
<1>14. QED
  BY <1>1, <1>2, <1>3, <1>4, <1>5, <1>6, <1>7, <1>8, <1>9, <1>10, <1>11, <1>12, <1>13 DEF GateStep

----------------------------------------------------------------------------
(* Accounts and codes. *)

\* What is left of the grants, and of an approval.
LEMMA NextGrantTight ==
    ASSUME GInv, NEW p \in Handlers, NEW grants, NextGrant(p, grants), Tame, pc[p] \notin Before
    PROVE  Tight(p)
<1>1. CASE Return(p) BY <1>1, RestingTight
<1>2. CASE Goto(p, "markVerified", op[p])
  BY <1>2, Onward, Unaltered DEF Asking, Incoming
<1>3. CASE Goto(p, "adminForGrant", [op[p] EXCEPT !.body.grants = grants])
  <2>1. PICK o : o = [op[p] EXCEPT !.body.grants = grants] OBVIOUS
  <2>2. SameRequest(o, op[p]) BY <2>1, Altered DEF Before, Entering
  <2>3. QED BY <1>3, <2>1, <2>2, Onward DEF Asking, Incoming
<1>4. QED BY <1>1, <1>2, <1>3 DEF NextGrant

\* An account is created under an id nobody had, with no fence to have changed.
LEMMA InsertUserTight ==
    ASSUME GInv, NEW p \in Handlers, InsertUser(p)
    PROVE  Tight(p)
<1>0. pc[p] = "insertUser" /\ op[p].route \in {"signup", "createUser", "createAdmin"}
  BY DEF InsertUser, GInv, AInv, IInv, HandlersInv, LocalOk, RouteOk, Creating
<1>1. CASE Answer(p) BY <1>1, AnsweringTight
<1>2. CASE ~Answer(p)
  <2>0. PICK id, role, row :
           /\ id = db.issued + 1
           /\ role = IF op[p].route = "signup" THEN "member" ELSE op[p].body.role
           /\ row = NewUser(op[p].body.email, role)
    OBVIOUS
  <2>1. /\ Write([db EXCEPT !.users = Put(@, id, row), !.issued = id], hist)
        /\ IF op[p].route = "signup" THEN Return(p)
           ELSE Goto(p, AfterInsert(op[p].route), [op[p] EXCEPT !.body =
                            [target |-> id, grants |-> op[p].body.grants]])
    BY <1>2, <2>0 DEF InsertUser
  <2>2. /\ db'.rules = db.rules /\ db'.issued = id /\ db'.users = Put(db.users, id, row)
        /\ hist' = hist
    BY <2>1, Parts DEF Write, Collections
  <2>3. \A u \in DOMAIN db.users : u # id BY <2>0, Parts DEF RulesInv
  <2>4. /\ \A u \in DOMAIN db.users : db'.users[u] = db.users[u]
        /\ DOMAIN db'.users = DOMAIN db.users \cup {id}
    BY <2>2, <2>3 DEF Put
  <2>5. Tame BY <2>0, <2>2, <2>4, Parts DEF Tame, RulesInv
  <2>6. CASE op[p].route = "signup" BY <2>1, <2>5, <2>6, RestingTight
  <2>7. CASE op[p].route # "signup"
    <3>1. PICK o, step :
             /\ o = [op[p] EXCEPT !.body = [target |-> id, grants |-> op[p].body.grants]]
             /\ step = AfterInsert(op[p].route)
      OBVIOUS
    <3>2. step \in {"activate", "makeAdmin"} BY <1>0, <2>7, <3>1 DEF AfterInsert
    <3>3. SameRequest(o, op[p]) BY <1>0, <3>1, Altered
    <3>4. QED
      BY <1>0, <2>1, <2>5, <2>7, <3>1, <3>2, <3>3, Onward
         DEF Asking, Incoming, Before, Entering
  <2>8. QED BY <2>6, <2>7
<1>3. QED BY <1>1, <1>2

\* No call on accounts lets a request through, or takes a fence away unseen.
LEMMA AccountTight ==
    ASSUME GInv, NEW p \in Handlers, AccountStep(p)
    PROVE  Tight(p)
<1> USE DEF Before, Entering, Asking, Incoming
<1>0. DOMAIN db = Collections /\ "edits" \in DOMAIN hist /\ hist.edits \in Int BY Parts
<1>1. CASE ResolveMx(p) BY <1>1, ReadingOn, Unaltered DEF ResolveMx
<1>2. CASE ResolveHost(p) BY <1>2, AnsweringTight, ReadingOn, Unaltered DEF ResolveHost
<1>3. CASE FindEmail(p) BY <1>3, AnsweringTight, ReadingOn, Unaltered DEF FindEmail
<1>4. CASE InsertUser(p) BY <1>4, InsertUserTight
<1>5. CASE CreateAdmin(p)
  <2>1. PICK o : o.route = "createAdmin" /\ Begin(p, "findEmail", o) BY <1>5 DEF CreateAdmin
  <2>2. o.route \notin DOMAIN ROUTES BY <2>1 DEF ROUTES
  <2>3. QED BY <2>1, <2>2, BeginningTight
<1>6. ASSUME NEW t, NEW new, NEW notes, Write([db EXCEPT !.users[t] = new], notes),
             "edits" \in DOMAIN notes, notes.edits = hist.edits,
             t \in DOMAIN db.users => new.geoFence = db.users[t].geoFence
      PROVE  Tame
  BY <1>0, <1>6, UpdateTame DEF Write
<1>7. ASSUME NEW t \in DOMAIN db.users PROVE DOMAIN db.users[t] = UserFields
  BY <1>7, Parts DEF AuthorityInv
<1>8. CASE MakeAdmin(p)
  <2>1. PICK t, new, notes :
           /\ t = op[p].body.target
           /\ new = [db.users[t] EXCEPT !.status = "active", !.verified = TRUE,
                                        !.importEnabled = TRUE, !.exportEnabled = TRUE]
           /\ notes = [hist EXCEPT !.seeded = @ \cup {op[p].body.target}]
    OBVIOUS
  <2>2. t \in DOMAIN db.users => new.geoFence = db.users[t].geoFence
    BY <1>7, <2>1 DEF UserFields
  <2>3. "edits" \in DOMAIN notes /\ notes.edits = hist.edits BY <1>0, <2>1
  <2>4. Tame BY <1>6, <1>8, <2>1, <2>2, <2>3 DEF MakeAdmin
  <2>5. QED BY <1>8, <2>4, RestingTight DEF MakeAdmin
<1>9. CASE Activate(p)
  <2>1. PICK t, new :
           /\ t = op[p].body.target
           /\ new = [db.users[t] EXCEPT !.status = "active", !.verified = TRUE,
                                        !.createdBy = op[p].user]
    OBVIOUS
  <2>2. t \in DOMAIN db.users => new.geoFence = db.users[t].geoFence
    BY <1>7, <2>1 DEF UserFields
  <2>3. Tame BY <1>0, <1>6, <1>9, <2>1, <2>2 DEF Activate
  <2>4. QED BY <1>9, <2>3, NextGrantTight DEF Activate
<1>10. CASE FindTarget(p)
  <2>1. CASE Answer(p) BY <2>1, AnsweringTight
  <2>2. CASE Read(p, "recordCountries", op[p]) BY <1>10, <2>2, ReadingOn, Unaltered DEF FindTarget
  <2>3. CASE \E body : Read(p, "adminForGrant", [op[p] EXCEPT !.body = body])
    <3>1. PICK body, o : o = [op[p] EXCEPT !.body = body] /\ Read(p, "adminForGrant", o)
      BY <2>3
    <3>2. SameRequest(o, op[p]) BY <1>10, <3>1, Altered DEF FindTarget
    <3>3. QED BY <1>10, <3>1, <3>2, ReadingOn DEF FindTarget
  <2>4. QED BY <1>10, <2>1, <2>2, <2>3 DEF FindTarget
<1>11. CASE AdminForGrant(p)
  BY <1>11, AnsweringTight, ReadingOn, Unaltered DEF AdminForGrant
<1>12. CASE TargetForGrant(p)
  BY <1>12, AnsweringTight, ReadingOn, Unaltered DEF TargetForGrant
<1>13. CASE RecordGrant(p)
  <2>1. Tame /\ Goto(p, "applyGrant", op[p]) BY <1>13, ChainingTame DEF RecordGrant
  <2>2. QED BY <1>13, <2>1, Onward, Unaltered DEF RecordGrant
<1>14. CASE ApplyGrant(p)
  <2>1. PICK t, new : db' = [db EXCEPT !.users[t] = new] /\ hist' = Edited
    BY <1>14 DEF ApplyGrant, Write
  <2>2. "edits" \in DOMAIN hist' /\ hist'.edits = hist.edits + 1 BY <1>0, <2>1 DEF Edited
  <2>3. Tame BY <1>0, <2>1, <2>2, UpdateTame
  <2>4. QED BY <1>14, <2>3, NextGrantTight DEF ApplyGrant
<1>15. CASE MarkVerified(p)
  <2>1. PICK t, new : t = op[p].body.target /\ new = [db.users[t] EXCEPT !.verified = TRUE]
    OBVIOUS
  <2>2. t \in DOMAIN db.users => new.geoFence = db.users[t].geoFence
    BY <1>7, <2>1 DEF UserFields
  <2>3. Write([db EXCEPT !.users[t] = new], hist) BY <1>15, <2>1 DEF MarkVerified
  <2>4. Tame BY <1>0, <1>6, <2>2, <2>3
  <2>5. QED BY <1>15, <2>4, RestingTight DEF MarkVerified
<1>16. CASE IssueCode(p)
  <2>1. PICK o : o.route = "issueCode" /\ Begin(p, "countSends", o) BY <1>16 DEF IssueCode
  <2>2. o.route \notin DOMAIN ROUTES BY <2>1 DEF ROUTES
  <2>3. QED BY <2>1, <2>2, BeginningTight
<1>17. CASE CountSends(p) BY <1>17, AnsweringTight, ReadingOn, Unaltered DEF CountSends
<1>18. CASE FindPriors(p)
  <2>1. PICK step, o : /\ step \in {"insertCode", "consumePrior"} /\ Read(p, step, o)
                      /\ o = [op[p] EXCEPT !.priors = LiveCodes(op[p].user)]
    BY <1>18 DEF FindPriors
  <2>2. SameRequest(o, op[p]) BY <1>18, <2>1, Altered DEF FindPriors
  <2>3. QED BY <1>18, <2>1, <2>2, ReadingOn DEF FindPriors
<1>19. CASE ConsumePrior(p)
  <2>1. PICK step, rest, o : /\ step \in {"insertCode", "consumePrior"} /\ Goto(p, step, o)
                            /\ o = [op[p] EXCEPT !.priors = rest]
    BY <1>19 DEF ConsumePrior
  <2>2. SameRequest(o, op[p]) BY <1>19, <2>1, Altered DEF ConsumePrior
  <2>3. Untouched BY <1>0, <1>19 DEF ConsumePrior, Write, Untouched, Collections
  <2>4. QED BY <1>19, <2>1, <2>2, <2>3, UntouchedTame, Onward DEF ConsumePrior
<1>20. CASE InsertCode(p)
  <2>1. Untouched BY <1>0, <1>20 DEF InsertCode, Write, Untouched, Collections
  <2>2. QED BY <1>20, <2>1, UntouchedTame, RestingTight DEF InsertCode
<1>21. CASE FindByEmail(p) /\ ~Answer(p)
  <2>1. PICK u, body, o : /\ Read(p, "findCode", o)
                         /\ o = [op[p] EXCEPT !.user = u, !.at = now, !.body = body]
    BY <1>21 DEF FindByEmail
  <2>2. pc[p] = "findByEmail" BY <1>21 DEF FindByEmail
  <2>3. SameRequest(o, op[p]) BY <2>1, <2>2, Altered
  <2>4. QED BY <2>1, <2>2, <2>3, ReadingOn
<1>22. CASE FindCode(p) /\ ~Answer(p)
  <2>1. PICK c, o : Read(p, "bumpAttempts", o) /\ o = [op[p] EXCEPT !.body.code = c]
    BY <1>22 DEF FindCode
  <2>2. SameRequest(o, op[p]) BY <1>22, <2>1, Altered DEF FindCode
  <2>3. QED BY <1>22, <2>1, <2>2, ReadingOn DEF FindCode
<1>23. CASE BumpAttempts(p) /\ ~Answer(p)
  <2>1. Untouched BY <1>0, <1>23 DEF BumpAttempts, Write, Untouched, Collections
  <2>2. Return(p) \/ Goto(p, "consume", op[p]) BY <1>23 DEF BumpAttempts
  <2>3. QED BY <1>23, <2>1, <2>2, UntouchedTame, RestingTight, Onward, Unaltered DEF BumpAttempts
<1>24. CASE Consume(p) /\ ~Answer(p)
  <2>1. Untouched BY <1>0, <1>24 DEF Consume, Write, Untouched, Collections
  <2>2. Goto(p, "confirm", op[p]) BY <1>24 DEF Consume
  <2>3. QED BY <1>24, <2>1, <2>2, UntouchedTame, Onward, Unaltered DEF Consume
<1>25. CASE Confirm(p)
  <2>1. PICK t, new, notes :
           /\ t = op[p].user
           /\ new = [db.users[t] EXCEPT !.status = "active", !.verified = TRUE]
           /\ notes = [hist EXCEPT !.confirmed = @ \cup {op[p].user}]
    OBVIOUS
  <2>2. t \in DOMAIN db.users => new.geoFence = db.users[t].geoFence
    BY <1>7, <2>1 DEF UserFields
  <2>3. "edits" \in DOMAIN notes /\ notes.edits = hist.edits BY <1>0, <2>1
  <2>4. Tame BY <1>6, <1>25, <2>1, <2>2, <2>3 DEF Confirm
  <2>5. QED BY <1>25, <2>4, RestingTight DEF Confirm
<1>26. CASE Answer(p) BY <1>26, AnsweringTight
<1>27. QED
  BY <1>1, <1>2, <1>3, <1>4, <1>5, <1>8, <1>9, <1>10, <1>11, <1>12, <1>13, <1>14, <1>15, <1>16,
     <1>17, <1>18, <1>19, <1>20, <1>21, <1>22, <1>23, <1>24, <1>25, <1>26
     DEF AccountStep

----------------------------------------------------------------------------
(* Devices and usage. *)

\* No call on devices, credentials or usage does either.
LEMMA DeviceTight ==
    ASSUME GInv, NEW p \in Handlers, DeviceStep(p)
    PROVE  Tight(p)
<1> USE DEF Before, Entering, Asking, Incoming
<1>0. DOMAIN db = Collections /\ "edits" \in DOMAIN hist BY Parts
<1>1. ASSUME NEW step, NEW o, NEW key, Goto(p, step, o), Emit(key),
             pc[p] \notin Before, step \notin Asking, SameRequest(o, op[p])
      PROVE  Tight(p)
  BY <1>1, RaisingTame, Onward
<1>2. ASSUME NEW c \in {"devices", "usage"}, NEW coll, NEW notes,
             Write([db EXCEPT ![c] = coll], notes),
             "edits" \in DOMAIN notes, notes.edits = hist.edits
      PROVE  Tame
  BY <1>2, OtherTame DEF Write
<1>3. CASE Answer(p) BY <1>3, AnsweringTight
<1>4. CASE Presence(p)
  <2>1. PICK o : o.route = "presence" /\ Begin(p, "findDevice", o) BY <1>4 DEF Presence
  <2>2. o.route \notin DOMAIN ROUTES BY <2>1 DEF ROUTES
  <2>3. QED BY <2>1, <2>2, BeginningTight
<1>5. CASE FindDevice(p)
  <2>1. PICK fix, found, step, o :
           /\ o = [op[p] EXCEPT !.found = found, !.body.fix = fix]
           /\ step \in {"ownershipConflict", "ipMismatch", "findPriorDevices", "assessTravel"}
           /\ Read(p, step, o)
    BY <1>5 DEF FindDevice
  <2>2. pc[p] = "findDevice" BY <1>5 DEF FindDevice
  <2>3. SameRequest(o, op[p]) BY <2>1, <2>2, Altered
  <2>4. QED BY <2>1, <2>2, <2>3, ReadingOn
<1>6. CASE WithoutDevice(p) BY <1>6, AnsweringTight DEF WithoutDevice
<1>7. CASE OwnershipConflict(p)
  BY <1>7, RaisingTame, RestingTight DEF OwnershipConflict
<1>8. CASE IpMismatch(p)
  <2>1. PICK step : step \in {"findPriorDevices", "assessTravel"} /\ Goto(p, step, op[p])
    BY <1>8 DEF IpMismatch
  <2>2. QED BY <1>1, <1>8, <2>1, Unaltered DEF IpMismatch
<1>9. CASE FindPriorDevices(p)
  <2>1. PICK step : step \in {"newDevice", "upsertDevice"} /\ Read(p, step, op[p])
    BY <1>9 DEF FindPriorDevices
  <2>2. QED BY <1>9, <2>1, ReadingOn, Unaltered DEF FindPriorDevices
<1>10. CASE NewDevice(p) BY <1>1, <1>10, Unaltered DEF NewDevice
<1>11. CASE Travelled(p)
  <2>1. PICK o : /\ o = op[p] \/ o = [op[p] EXCEPT !.unheard = TRUE]
                 /\ Goto(p, "upsertDevice", o)
    BY <1>11 DEF Travelled
  <2>2. pc[p] = "assessTravel" /\ (Write(db, hist) \/ \E key : Emit(key))
    BY <1>11 DEF Travelled, Emit, LoseAlarm
  <2>3. Tame BY <2>2, NoWriteTame, RaisingTame DEF Write
  <2>4. SameRequest(o, op[p]) BY <2>1, <2>2, Unaltered, Altered
  <2>5. QED BY <2>1, <2>2, <2>3, <2>4, Onward
<1>12. CASE UpsertDevice(p) /\ ~Answer(p)
  <2>1. PICK coll : Write([db EXCEPT !.devices = coll], hist) BY <1>12 DEF UpsertDevice
  <2>2. Return(p) BY <1>12 DEF UpsertDevice
  <2>3. QED BY <1>0, <1>2, <2>1, <2>2, RestingTight
<1>13. CASE DeadManScan(p)
  <2>1. PICK o : o.route = "deadManScan" /\ Begin(p, "scanDevices", o) BY <1>13 DEF DeadManScan
  <2>2. o.route \notin DOMAIN ROUTES BY <2>1 DEF ROUTES
  <2>3. QED BY <2>1, <2>2, BeginningTight
<1>14. CASE ScanDevices(p) /\ ~Answer(p)
  <2>1. PICK silent, o : Read(p, "raiseSilent", o) /\ o = [op[p] EXCEPT !.silent = silent]
    BY <1>14 DEF ScanDevices
  <2>2. pc[p] = "scanDevices" BY <1>14 DEF ScanDevices
  <2>3. SameRequest(o, op[p]) BY <2>1, <2>2, Altered
  <2>4. QED BY <2>1, <2>2, <2>3, ReadingOn
<1>15. CASE RaiseSilent(p)
  <2>1. PICK alarm :
           /\ Emit(alarm)
           /\ Return(p) \/ \E silent : Goto(p, "raiseSilent", [op[p] EXCEPT !.silent = silent])
    BY <1>15 DEF RaiseSilent
  <2>2. pc[p] = "raiseSilent" BY <1>15 DEF RaiseSilent
  <2>3. CASE Return(p) BY <2>1, <2>3, RaisingTame, RestingTight
  <2>4. CASE \E silent : Goto(p, "raiseSilent", [op[p] EXCEPT !.silent = silent])
    <3>1. PICK silent, o : Goto(p, "raiseSilent", o) /\ o = [op[p] EXCEPT !.silent = silent]
      BY <2>4
    <3>2. SameRequest(o, op[p]) BY <2>2, <3>1, Altered
    <3>3. QED BY <1>1, <2>1, <2>2, <3>1, <3>2
  <2>5. QED BY <2>1, <2>3, <2>4
<1>16. CASE FindOwner(p) /\ ~Answer(p)
  <2>1. PICK found, o : Read(p, "storeCred", o) /\ o = [op[p] EXCEPT !.found = found]
    BY <1>16 DEF FindOwner
  <2>2. pc[p] = "findOwner" BY <1>16 DEF FindOwner
  <2>3. SameRequest(o, op[p]) BY <2>1, <2>2, Altered
  <2>4. QED BY <2>1, <2>2, <2>3, ReadingOn
<1>17. CASE StoreCred(p) /\ ~Answer(p)
  <2>1. PICK coll : Write([db EXCEPT !.devices = coll], hist) BY <1>17 DEF StoreCred
  <2>2. Return(p) BY <1>17 DEF StoreCred
  <2>3. QED BY <1>0, <1>2, <2>1, <2>2, RestingTight
<1>18. CASE ReadCred(p) BY <1>18, AnsweringTight DEF ReadCred
<1>19. CASE FindUsage(p)
  <2>1. PICK found, list, o :
           /\ Read(p, "writeUsage", o)
           /\ o = [op[p] EXCEPT !.found = found, !.body.accounts = list]
    BY <1>19 DEF FindUsage
  <2>2. pc[p] = "findUsage" BY <1>19 DEF FindUsage
  <2>3. SameRequest(o, op[p]) BY <2>1, <2>2, Altered
  <2>4. QED BY <2>1, <2>2, <2>3, ReadingOn
<1>20. CASE NothingReported(p) BY <1>20, AnsweringTight DEF NothingReported
<1>21. CASE WriteUsage(p) /\ ~Answer(p)
  <2>1. /\ \/ Write(db, hist)
           \/ \E coll, reports, mixed :
                 Write([db EXCEPT !.usage = coll],
                       [hist EXCEPT !.reports = reports, !.mixed = mixed])
        /\ \/ Return(p)
           \/ \E rest : Goto(p, "findUsage",
                             [op[p] EXCEPT !.body.accounts = rest, !.found = Nothing])
    BY <1>21 DEF WriteUsage
  <2>2. pc[p] = "writeUsage" BY <1>21 DEF WriteUsage
  <2>3. ASSUME NEW coll, NEW reports, NEW mixed,
               Write([db EXCEPT !.usage = coll],
                     [hist EXCEPT !.reports = reports, !.mixed = mixed])
        PROVE  Tame
    <3>1. PICK notes : notes = [hist EXCEPT !.reports = reports, !.mixed = mixed] OBVIOUS
    <3>2. "edits" \in DOMAIN notes /\ notes.edits = hist.edits BY <1>0, <3>1
    <3>3. QED BY <1>2, <2>3, <3>1, <3>2
  <2>4. ASSUME Write(db, hist) PROVE Tame BY <2>4, NoWriteTame DEF Write
  <2>5. Tame
    <3>1. CASE \E coll, reports, mixed :
                 Write([db EXCEPT !.usage = coll],
                       [hist EXCEPT !.reports = reports, !.mixed = mixed])
      BY <2>3, <3>1
    <3>2. QED BY <2>1, <2>4, <3>1
  <2>6. CASE Return(p) BY <2>5, <2>6, RestingTight
  <2>7. CASE \E rest : Goto(p, "findUsage",
                            [op[p] EXCEPT !.body.accounts = rest, !.found = Nothing])
    <3>1. PICK rest, o : /\ Goto(p, "findUsage", o)
                        /\ o = [op[p] EXCEPT !.body.accounts = rest, !.found = Nothing]
      BY <2>7
    <3>2. SameRequest(o, op[p]) BY <2>2, <3>1, Altered
    <3>3. QED BY <2>2, <2>5, <3>1, <3>2, Onward
  <2>8. QED BY <2>1, <2>6, <2>7
<1>22. CASE ReadUsage(p) BY <1>22, AnsweringTight DEF ReadUsage
<1>23. QED
  BY <1>3, <1>4, <1>5, <1>6, <1>7, <1>8, <1>9, <1>10, <1>11, <1>12, <1>13, <1>14, <1>15, <1>16,
     <1>17, <1>18, <1>19, <1>20, <1>21, <1>22 DEF DeviceStep

----------------------------------------------------------------------------
(* Every step. *)

\* Every step of a handler is tame, and lets nobody through.
LEMMA HandlerStepTight ==
    ASSUME GInv, NEW p \in Handlers, HandlerStep(p)
    PROVE  Tight(p)
BY ArrivingTight, AnsweringTight, GateTight, AccountTight, DeviceTight DEF HandlerStep, Die

\* What happens besides the handlers is tame.
LEMMA ElsewhereTame ==
    ASSUME GInv, Elsewhere
    PROVE  Tame
<1>0. DOMAIN db = Collections /\ "edits" \in DOMAIN hist BY Parts
<1>1. CASE StartUp
  <2>1. /\ db' = db \/ \E indexes : db' = [db EXCEPT !.indexes = indexes]
        /\ hist' = hist \/ hist' = [hist EXCEPT !.bootFailed = TRUE]
    BY <1>1 DEF StartUp, BuildContext, IndexEmails, IndexExpiry, FailIndex, Restart, Start
  <2>2. Untouched BY <1>0, <2>1 DEF Untouched, Collections
  <2>3. QED BY <2>2, UntouchedTame
<1>2. CASE ExpireCode
  <2>1. PICK codes : db' = [db EXCEPT !.codes = codes] /\ hist' = hist
    BY <1>2 DEF ExpireCode
  <2>2. QED BY <1>0, <2>1, UntouchedTame DEF Untouched, Collections
<1>3. CASE ExpireUsage
  <2>1. PICK usage, reports, mixed :
           /\ db' = [db EXCEPT !.usage = usage]
           /\ hist' = [hist EXCEPT !.reports = reports, !.mixed = mixed]
    <3>1. PICK usage : db' = [db EXCEPT !.usage = usage] BY <1>3 DEF ExpireUsage
    <3>2. PICK reports, mixed : hist' = [hist EXCEPT !.reports = reports, !.mixed = mixed]
      BY <1>3 DEF ExpireUsage
    <3>3. QED BY <3>1, <3>2
  <2>2. db'.rules = db.rules /\ db'.users = db.users /\ db'.issued = db.issued
    BY <1>0, <2>1 DEF Collections
  <2>3. "edits" \in DOMAIN hist' /\ hist'.edits = hist.edits BY <1>0, <2>1
  <2>4. QED BY <2>2, <2>3, UntouchedTame DEF Untouched
<1>4. CASE Elapse \/ UNCHANGED vars
  BY <1>4, NoWriteTame DEF Elapse, vars
<1>5. QED BY <1>1, <1>2, <1>3, <1>4 DEF Elsewhere

\* A tame step keeps the rules in order.
LEMMA RulesInvStays ==
    ASSUME GInv, Tame, served' = served
    PROVE  RulesInv'
<1>1. \A rule : IsRule(rule) <=> IsRule(rule)' BY DEF IsRule, IsIp, NoAddress
<1>2. \A cidr : IsValidCidr(cidr) <=> IsValidCidr(cidr)' BY DEF IsValidCidr
<1>3. ASSUME NEW id \in DOMAIN db'.rules
      PROVE  /\ IsRule(db'.rules[id]) /\ IsValidCidr(db'.rules[id].cidr)
             /\ id \in Nat => id <= db'.issued
  BY <1>3, Parts DEF Tame, RulesInv
<1>4. load'.store.users = load.store.users BY DEF load
<1>5. QED BY <1>1, <1>2, <1>3, <1>4, Parts DEF Tame, RulesInv

\* Every step preserves the invariant ...
LEMMA GateStepOk == GInv /\ [Next]_vars => GInv'
<1> SUFFICES ASSUME GInv, [Next]_vars PROVE GInv' OBVIOUS
<1>1. AInv' BY AuthorityStep DEF GInv
<1>2. CASE Elsewhere
  <2>1. Tame BY <1>2, ElsewhereTame
  <2>2. UNCHANGED <<pc, op>> /\ served' = served
    BY <1>2, Parts, ElsewhereSafe, ElsewhereQuiet DEF Quiet, Growing
  <2>3. ASSUME NEW q \in Handlers PROVE GateOk(pc[q], op[q])'
    <3>1. PICK step, o : step = pc[q] /\ o = op[q] OBVIOUS
    <3>2. GateOk(step, o)' BY <2>1, <3>1, Parts, PassageStays
    <3>3. QED BY <2>2, <3>1, <3>2
  <2>4. QED BY <1>1, <2>1, <2>2, <2>3, RulesInvStays DEF GInv
<1>3. ASSUME NEW p \in Handlers, HandlerStep(p) PROVE GInv'
  <2>1. Tame /\ GateOk(pc[p], op[p])' BY <1>3, HandlerStepTight DEF Tight
  <2>2. Alone(p) /\ served' = served
    BY <1>3, Parts, HandlerStepSafe, HandlerStepRight DEF Right, Growing
  <2>3. ASSUME NEW q \in Handlers PROVE GateOk(pc[q], op[q])'
    <3>1. CASE q = p BY <2>1, <3>1
    <3>2. CASE q # p
      <4>1. PICK step, o : step = pc[q] /\ o = op[q] OBVIOUS
      <4>2. GateOk(step, o)' BY <2>1, <4>1, Parts, PassageStays
      <4>3. pc'[q] = step /\ op'[q] = o BY <2>2, <3>2, <4>1 DEF Alone
      <4>4. QED BY <4>2, <4>3
    <3>3. QED BY <3>1, <3>2
  <2>4. QED BY <1>1, <2>1, <2>2, <2>3, RulesInvStays DEF GInv
<1>4. QED BY <1>2, <1>3, Steps

\* ... which holds at first, by what is assumed of the stores.
LEMMA GateAtFirst == Init => GInv
<1> SUFFICES ASSUME Init PROVE GInv OBVIOUS
<1>1. AInv BY AuthorityAtFirst
<1>2. db = load.store /\ hist = NoHistory /\ served \in DOMAIN Loads BY DEF Init
<1>3. \A u \in DOMAIN db.users : u \in Nat => u <= db.issued BY <1>2, Accounted
<1>4. RulesInv BY <1>2, <1>3, RulesAssumption DEF RulesInv, NoHistory, load
<1>5. \A p \in Handlers : GateOk(pc[p], op[p]) BY DEF Init, GateOk
<1>6. QED BY <1>1, <1>4, <1>5 DEF GInv

----------------------------------------------------------------------------
(* What is claimed. *)

\* A handler runs for nobody whom a rule, an allow list or a fence keeps out:
\* for any rules and addresses, of any width, any number of requests in
\* flight, and any edits between the finds of the pipeline.
THEOREM NobodyKeptOutPasses == Spec => []GateIsTight
<1>1. ASSUME GInv, NEW p \in Handlers, InHandler(p)
      PROVE  /\ \A r \in Concerns(p, op[p].rulesThen) :
                   r.type = "block" => ~Covers(r.cidr, op[p].ip)
             /\ op[p].editsThen = hist.edits =>
                   \A scope \in {"global", "user"} :
                       LET allow == {r \in Concerns(p, DOMAIN db.rules) :
                                        r.scope = scope /\ r.type = "allow"}
                       IN  allow = {} \/ \E r \in allow : Covers(r.cidr, op[p].ip)
             /\ op[p].editsThen = hist.edits /\ ROUTES[op[p].route].auth
                   /\ op[p].token.user \in DOMAIN db.users =>
                   LET user == db.users[op[p].token.user]
                       there == CountryOf[CanonicalizeIp(op[p].ip)]
                   IN  user.geoFence # {} => there \in user.geoFence
  <2>0. PICK o, step, auth : o = op[p] /\ step = pc[p] /\ auth = ROUTES[o.route].auth OBVIOUS
  <2>1. /\ o.route \in DOMAIN ROUTES /\ RequestOk(o)
        /\ ScopeClear(o, "global", Nobody)
        /\ auth => ScopeClear(o, "user", o.token.user) /\ FenceClear(o)
    BY <1>1, <2>0, Parts DEF InHandler, GateOk, PassedOk, Before, Entering
  <2>2. ASSUME NEW id \in DOMAIN db.rules
        PROVE  /\ IsRule(db.rules[id])
               /\ Covers(db.rules[id].cidr, o.ip) <=> IpInCidr(o.ip, db.rules[id].cidr)
    <3>1. PICK rule, cidr, ip : rule = db.rules[id] /\ cidr = rule.cidr /\ ip = o.ip OBVIOUS
    <3>2. IsRule(rule) /\ IsValidCidr(cidr) /\ IsIp(ip)
      BY <1>1, <2>1, <2>2, <3>1, Parts DEF RulesInv, RequestOk
    <3>3. IsIp(cidr.ip) BY <3>1, <3>2 DEF IsRule
    <3>4. QED BY <3>1, <3>2, <3>3, RangesCover
  <2>3. ASSUME NEW ids, NEW r \in Concerns(p, ids)
        PROVE  \E id \in ids \cap DOMAIN db.rules :
                  /\ r = db.rules[id]
                  /\ \/ r.scope = "global" /\ r.user = Nobody
                     \/ auth /\ r.scope = "user" /\ r.user = o.token.user
    <3>1. PICK id \in ids \cap DOMAIN db.rules :
             /\ r = db.rules[id]
             /\ r.scope = "global" \/ (auth /\ r.user = o.token.user)
      BY <2>0, <2>3 DEF Concerns
    <3>2. IsRule(r) BY <2>2, <3>1
    <3>3. QED BY <3>1, <3>2 DEF IsRule
  <2>4. ASSUME NEW r \in Concerns(p, o.rulesThen), r.type = "block"
        PROVE  ~Covers(r.cidr, o.ip)
    <3>1. PICK id \in o.rulesThen \cap DOMAIN db.rules :
             /\ r = db.rules[id]
             /\ \/ r.scope = "global" /\ r.user = Nobody
                \/ auth /\ r.scope = "user" /\ r.user = o.token.user
      BY <2>3, <2>4
    <3>2. ~IpInCidr(o.ip, db.rules[id].cidr) BY <2>1, <2>4, <3>1 DEF ScopeClear
    <3>3. QED BY <2>2, <3>1, <3>2
  <2>5. ASSUME o.editsThen = hist.edits, NEW scope \in {"global", "user"},
               NEW r \in Concerns(p, DOMAIN db.rules), r.scope = scope, r.type = "allow"
        PROVE  \E s \in Concerns(p, DOMAIN db.rules) :
                   s.scope = scope /\ s.type = "allow" /\ Covers(s.cidr, o.ip)
    <3>1. PICK who : who = IF scope = "global" THEN Nobody ELSE o.token.user OBVIOUS
    <3>2. PICK id \in DOMAIN db.rules :
             /\ r = db.rules[id]
             /\ \/ r.scope = "global" /\ r.user = Nobody
                \/ auth /\ r.scope = "user" /\ r.user = o.token.user
      BY <2>3, <2>5
    <3>3. r.user = who /\ ScopeClear(o, scope, who) BY <2>1, <2>5, <3>1, <3>2
    <3>4. PICK rules : rules = RulesFor(scope, who) OBVIOUS
    <3>5. r \in rules BY <2>5, <3>2, <3>3, <3>4 DEF RulesFor
    <3>6. ~DeniedByAllowlist(rules, o.ip) BY <2>5, <3>3, <3>4 DEF ScopeClear
    <3>7. PICK s \in rules : s.type = "allow" /\ IpInCidr(o.ip, s.cidr)
      BY <2>5, <3>5, <3>6 DEF DeniedByAllowlist
    <3>8. PICK i \in DOMAIN db.rules : s = db.rules[i] /\ s.scope = scope /\ s.user = who
      BY <3>4, <3>7 DEF RulesFor
    <3>9. s \in Concerns(p, DOMAIN db.rules)
      BY <2>0, <2>5, <3>1, <3>2, <3>8 DEF Concerns
    <3>10. Covers(s.cidr, o.ip) BY <2>2, <3>7, <3>8
    <3>11. QED BY <3>7, <3>8, <3>9, <3>10
  <2>6. o.editsThen = hist.edits /\ auth =>
           LET user == db.users[o.token.user]
           IN  user.geoFence = {} \/ CountryOf[CanonicalizeIp(o.ip)] \in user.geoFence
    BY <2>1 DEF FenceClear, There
  <2>7. QED BY <2>0, <2>4, <2>5, <2>6
<1>2. GInv => GateIsTight BY <1>1 DEF GateIsTight
<1>3. Spec => []GInv BY GateAtFirst, GateStepOk, PTL DEF Spec
<1>4. QED BY <1>2, <1>3, PTL

-----------------------------------------------------------------------------
(***************************************************************************)
(* Two proofs about what is counted: the codes of a user, and the points   *)
(* of a usage series.                                                      *)
(*                                                                         *)
(* Both go by what the few handlers concerned hold between two of their    *)
(* calls (IssueOk, BatchOk); Aside says that all others leave the codes,   *)
(* the usage and their histories alone.                                    *)
(***************************************************************************)

\* The calls of an issue of a code.
CodeCalls == {"countSends", "findPriors", "consumePrior", "insertCode"}

\* The histories of codes and usage.
Tallies == {"codes", "guesses", "accepted", "overlapped", "reports", "mixed"}

\* They are noted.
Noted == DOMAIN hist = DOMAIN NoHistory

\* These histories are as they were.
Untold == DOMAIN hist' = DOMAIN hist /\ \A f \in Tallies : hist'[f] = hist[f]

\* A step of p that has nothing to do with codes or usage.
Apart(p) ==
    /\ db'.codes = db.codes /\ db'.usage = db.usage
    /\ UNCHANGED <<served, now>>
    /\ Untold
    /\ pc'[p] \notin CodeCalls \cup {"writeUsage"}
    /\ pc'[p] = "findUsage" => op'[p].route \in DOMAIN ROUTES /\ op'[p].at = now

\* Where it does not go.
Counted == CodeCalls \cup {"findUsage", "writeUsage"}

\* A step that only reads, ...
LEMMA ReadingApart ==
    ASSUME IInv, NEW p \in Handlers, NEW step, NEW o, step \notin Counted, Read(p, step, o)
    PROVE  Apart(p)
<1>1. pc'[p] = step /\ UNCHANGED <<served, db, hist, now>>
  BY Going DEF IInv, Read
<1>2. QED BY <1>1 DEF Apart, Untold, Counted

\* ... one that answers, ...
LEMMA AnsweringApart ==
    ASSUME IInv, NEW p \in Handlers, Answer(p)
    PROVE  Apart(p)
BY ReadingApart DEF Answer, Counted, CodeCalls

\* ... one that begins something else, ...
LEMMA BeginningApart ==
    ASSUME IInv, NEW p \in Handlers, NEW step, NEW o, step \notin Counted, Begin(p, step, o)
    PROVE  Apart(p)
<1>1. pc'[p] = step /\ UNCHANGED <<served, db, hist, now>>
  BY Going DEF IInv, Begin
<1>2. QED BY <1>1 DEF Apart, Untold, Counted

\* ... and one that writes something else.
LEMMA WritingApart ==
    ASSUME IInv, NEW p \in Handlers, NEW step, NEW o, step \notin Counted, Goto(p, step, o),
           NEW newDb, NEW notes, Write(newDb, notes),
           newDb.codes = db.codes, newDb.usage = db.usage,
           DOMAIN notes = DOMAIN hist, \A f \in Tallies : notes[f] = hist[f]
    PROVE  Apart(p)
<1>1. pc'[p] = step
  BY Going DEF IInv
<1>2. QED BY <1>1 DEF Apart, Untold, Counted, Write

\* What a history notes besides.
LEMMA NotingApart ==
    ASSUME Noted, NEW f \in DOMAIN NoHistory \ Tallies, NEW note
    PROVE  LET notes == [hist EXCEPT ![f] = note]
           IN  DOMAIN notes = DOMAIN hist /\ \A g \in Tallies : notes[g] = hist[g]
BY DEF Noted, NoHistory, Tallies

\* The pipeline ends: a batch of usage has the time it is now.
LEMMA DispatchingApart ==
    ASSUME IInv, NEW p \in Handlers, pc[p] \in Incoming, Dispatch(p)
    PROVE  Apart(p)
<1>1. op[p].route \in DOMAIN ROUTES /\ HasFields(op[p])
  BY DEF IInv, HandlersInv, LocalOk, RouteOk, Incoming
<1>2. PICK step, o :
          /\ step = ROUTES[op[p].route].first
          /\ o = [op[p] EXCEPT !.at = now, !.found = Nothing, !.country = NoCountry]
          /\ Read(p, step, o)
  BY DEF Dispatch, MatchRoute
<1>3. step \in FirstCalls
  BY <1>1, <1>2, Routes
<1>4. pc'[p] = step /\ op'[p] = o /\ UNCHANGED <<served, db, hist, now>>
  BY <1>2, Going DEF IInv, Read
<1>5. o.at = now /\ o.route = op[p].route
  BY <1>1, <1>2 DEF HasFields, IsRequest
<1>6. QED BY <1>1, <1>3, <1>4, <1>5 DEF Apart, Untold, FirstCalls, CodeCalls

\* The steps of the gate.
LEMMA GateApart ==
    ASSUME IInv, Noted, NEW p \in Handlers, GateStep(p)
    PROVE  Apart(p)
<1> USE DEF Counted, CodeCalls
<1>0. DOMAIN db = Collections
  BY DEF IInv, StoreInv
<1>1. ASSUME NEW reason, NEW principal, Refuse(p, reason, principal) PROVE Apart(p)
  <2>1. PICK o : Read(p, "deny", o) BY <1>1 DEF Refuse
  <2>2. QED BY <2>1, ReadingApart
<1>2. ASSUME NEW c \in Collections \ {"codes", "usage"}, NEW coll, NEW step, NEW o,
             step \notin Counted, Goto(p, step, o),
             Write([db EXCEPT ![c] = coll], hist)
      PROVE  Apart(p)
  BY <1>0, <1>2, WritingApart DEF Collections
<1>3. CASE GlobalRules(p)
  <2>1. pc[p] \in Incoming BY <1>3 DEF GlobalRules, Incoming
  <2>2. \/ Answer(p) \/ Dispatch(p) \/ Read(p, "findUser", op[p])
        \/ \E reason, principal : Refuse(p, reason, principal)
    BY <1>3 DEF GlobalRules
  <2>3. QED BY <1>1, <2>1, <2>2, AnsweringApart, DispatchingApart, ReadingApart
<1>4. CASE FindUser(p)
  <2>1. pc[p] \in Incoming BY <1>4 DEF FindUser, Incoming
  <2>2. Answer(p) \/ Dispatch(p) \/ \E o : Read(p, "userRules", o)
    BY <1>4 DEF FindUser
  <2>3. QED BY <2>1, <2>2, AnsweringApart, DispatchingApart, ReadingApart
<1>5. CASE UserRules(p)
  <2>1. pc[p] \in Incoming BY <1>5 DEF UserRules, Incoming
  <2>2. Dispatch(p) \/ \E reason, principal : Refuse(p, reason, principal)
    BY <1>5 DEF UserRules
  <2>3. QED BY <1>1, <2>1, <2>2, DispatchingApart
<1>6. CASE Deny(p)
  <2>1. Goto(p, "idle", Idle) BY <1>6 DEF Deny, Return
  <2>2. CASE Write(db, hist) BY <2>1, <2>2, WritingApart
  <2>3. CASE Write(Raise(op[p].found.alarm), hist)
    <3>1. PICK coll : Write([db EXCEPT !.alarms = coll], hist) BY <2>3 DEF Raise
    <3>2. QED BY <1>2, <2>1, <3>1 DEF Collections
  <2>4. QED BY <1>6, <2>2, <2>3 DEF Deny, Emit, LoseAlarm
<1>7. CASE RequireAdmin(p)
  <2>1. op[p].route \in DOMAIN AfterAdmin
    BY <1>7 DEF RequireAdmin, IInv, HandlersInv, LocalOk, RouteOk
  <2>2. AfterAdmin[op[p].route] \notin Counted
    BY <2>1 DEF AfterAdmin
  <2>3. QED BY <1>7, <2>2, AnsweringApart, ReadingApart DEF RequireAdmin
<1>8. CASE RecordRule(p)
  BY <1>2, <1>8 DEF RecordRule, Chain, Collections
<1>9. CASE InsertRule(p)
  <2>1. PICK rules, issued, note :
            /\ Return(p)
            /\ Write([db EXCEPT !.rules = rules, !.issued = issued], [hist EXCEPT !.edits = note])
    BY <1>9 DEF InsertRule, Edited
  <2>2. PICK newDb, notes : newDb = [db EXCEPT !.rules = rules, !.issued = issued]
                            /\ notes = [hist EXCEPT !.edits = note]
    OBVIOUS
  <2>3. newDb.codes = db.codes /\ newDb.usage = db.usage
    BY <1>0, <2>2 DEF Collections
  <2>4. DOMAIN notes = DOMAIN hist /\ \A g \in Tallies : notes[g] = hist[g]
    BY <2>2, NotingApart DEF NoHistory, Tallies
  <2>5. QED BY <2>1, <2>2, <2>3, <2>4, WritingApart DEF Return
<1>10. CASE ListRules(p) BY <1>10, AnsweringApart DEF ListRules
<1>11. CASE FindRule(p)
  <2>1. Answer(p) \/ \E o : Read(p, "recordRemoval", o) BY <1>11 DEF FindRule
  <2>2. QED BY <2>1, AnsweringApart, ReadingApart
<1>12. CASE RecordRemoval(p)
  BY <1>2, <1>12 DEF RecordRemoval, Chain, Collections
<1>13. ASSUME NEW c \in {"rules", "users"}, NEW coll, NEW note, Return(p),
              Write([db EXCEPT ![c] = coll], [hist EXCEPT !.edits = note])
       PROVE  Apart(p)
  <2>1. PICK newDb, notes : newDb = [db EXCEPT ![c] = coll] /\ notes = [hist EXCEPT !.edits = note]
    OBVIOUS
  <2>2. newDb.codes = db.codes /\ newDb.usage = db.usage
    BY <1>0, <2>1 DEF Collections
  <2>3. DOMAIN notes = DOMAIN hist /\ \A g \in Tallies : notes[g] = hist[g]
    BY <2>1, NotingApart DEF NoHistory, Tallies
  <2>4. QED BY <1>13, <2>1, <2>2, <2>3, WritingApart DEF Return
<1>14. CASE DeleteRule(p)
  <2>1. \E coll, note : /\ Return(p)
                        /\ Write([db EXCEPT !.rules = coll], [hist EXCEPT !.edits = note])
    BY <1>14 DEF DeleteRule, Edited
  <2>2. QED BY <1>13, <2>1
<1>15. CASE RecordCountries(p)
  BY <1>2, <1>15 DEF RecordCountries, Chain, Collections
<1>16. CASE SetCountries(p)
  <2>1. \E coll, note : /\ Return(p)
                        /\ Write([db EXCEPT !.users = coll], [hist EXCEPT !.edits = note])
    BY <1>16 DEF SetCountries, Edited
  <2>2. QED BY <1>13, <2>1
<1>17. QED
  BY <1>3, <1>4, <1>5, <1>6, <1>7, <1>8, <1>9, <1>10, <1>11, <1>12, <1>14, <1>15, <1>16
     DEF GateStep

\* What is done with codes.
CodeStep(p) ==
    IssueCode(p) \/ CountSends(p) \/ FindPriors(p) \/ ConsumePrior(p) \/ InsertCode(p)
      \/ BumpAttempts(p) \/ Consume(p)

\* The other steps on accounts.
LEMMA AccountApart ==
    ASSUME IInv, Noted, NEW p \in Handlers, AccountStep(p), ~CodeStep(p)
    PROVE  Apart(p)
<1> USE DEF Counted, CodeCalls
<1>0. DOMAIN db = Collections
  BY DEF IInv, StoreInv
<1>1. ASSUME NEW c \in {"users", "ledger"}, NEW coll, NEW step, NEW o,
             step \notin Counted, Goto(p, step, o), NEW notes,
             notes = hist \/ \E f \in DOMAIN NoHistory \ Tallies : \E note :
                                  notes = [hist EXCEPT ![f] = note],
             Write([db EXCEPT ![c] = coll], notes)
      PROVE  Apart(p)
  <2>1. PICK newDb : newDb = [db EXCEPT ![c] = coll] OBVIOUS
  <2>2. newDb.codes = db.codes /\ newDb.usage = db.usage
    BY <1>0, <2>1 DEF Collections
  <2>3. DOMAIN notes = DOMAIN hist /\ \A g \in Tallies : notes[g] = hist[g]
    <3>1. CASE notes = hist BY <3>1
    <3>2. ASSUME NEW f \in DOMAIN NoHistory \ Tallies, NEW note, notes = [hist EXCEPT ![f] = note]
          PROVE  DOMAIN notes = DOMAIN hist /\ \A g \in Tallies : notes[g] = hist[g]
      BY <3>2, NotingApart
    <3>3. QED BY <1>1, <3>1, <3>2
  <2>4. QED BY <1>1, <2>1, <2>2, <2>3, WritingApart
<1>2. ASSUME NEW grants, NextGrant(p, grants)
      PROVE  \E step, o : step \notin Counted /\ Goto(p, step, o)
  BY <1>2 DEF NextGrant, Return
<1>3. CASE Answer(p) BY <1>3, AnsweringApart
<1>4. CASE ResolveMx(p) BY <1>4, ReadingApart DEF ResolveMx
<1>5. CASE ResolveHost(p) BY <1>5, ReadingApart, AnsweringApart DEF ResolveHost
<1>6. CASE FindEmail(p) BY <1>6, ReadingApart, AnsweringApart DEF FindEmail
<1>7. CASE InsertUser(p) /\ ~Answer(p)
  <2>1. PICK users, issued : Write([db EXCEPT !.users = users, !.issued = issued], hist)
    BY <1>7 DEF InsertUser
  <2>2. PICK newDb : newDb = [db EXCEPT !.users = users, !.issued = issued] OBVIOUS
  <2>3. newDb.codes = db.codes /\ newDb.usage = db.usage
    BY <1>0, <2>2 DEF Collections
  <2>4. op[p].route \in {"signup", "createUser", "createAdmin"}
    BY <1>7 DEF InsertUser, IInv, HandlersInv, LocalOk, RouteOk, Creating
  <2>5. Return(p) \/ \E o : Goto(p, AfterInsert(op[p].route), o)
    BY <1>7 DEF InsertUser
  <2>6. AfterInsert(op[p].route) \notin Counted
    BY <2>4 DEF AfterInsert
  <2>7. PICK step, o : step \notin Counted /\ Goto(p, step, o)
    BY <2>5, <2>6 DEF Return
  <2>8. QED BY <2>1, <2>2, <2>3, <2>7, WritingApart
<1>8. CASE CreateAdmin(p)
  <2>1. PICK o : Begin(p, "findEmail", o) BY <1>8 DEF CreateAdmin
  <2>2. QED BY <2>1, BeginningApart
<1>9. CASE MakeAdmin(p)
  <2>1. PICK coll, note : Write([db EXCEPT !.users = coll], [hist EXCEPT !.seeded = note])
    BY <1>9 DEF MakeAdmin
  <2>2. Goto(p, "idle", Idle) BY <1>9 DEF MakeAdmin, Return
  <2>3. QED BY <1>1, <2>1, <2>2 DEF NoHistory, Tallies
<1>10. CASE Activate(p)
  <2>1. PICK coll : Write([db EXCEPT !.users = coll], hist)
    BY <1>10 DEF Activate
  <2>2. PICK step, o : step \notin Counted /\ Goto(p, step, o)
    BY <1>2, <1>10 DEF Activate
  <2>3. QED BY <1>1, <2>1, <2>2
<1>11. CASE FindTarget(p) /\ ~Answer(p)
  <2>1. PICK step, o : step \in {"recordCountries", "adminForGrant"} /\ Read(p, step, o)
    BY <1>11 DEF FindTarget
  <2>2. QED BY <2>1, ReadingApart
<1>12. CASE AdminForGrant(p) BY <1>12, ReadingApart, AnsweringApart DEF AdminForGrant
<1>13. CASE TargetForGrant(p) BY <1>13, ReadingApart, AnsweringApart DEF TargetForGrant
<1>14. CASE RecordGrant(p)
  <2>1. PICK coll : Write([db EXCEPT !.ledger = coll], hist)
    BY <1>14 DEF RecordGrant, Chain
  <2>2. Goto(p, "applyGrant", op[p]) BY <1>14 DEF RecordGrant, Chain
  <2>3. QED BY <1>1, <2>1, <2>2
<1>15. CASE ApplyGrant(p)
  <2>1. PICK coll, note : Write([db EXCEPT !.users = coll], [hist EXCEPT !.edits = note])
    BY <1>15 DEF ApplyGrant, Edited
  <2>2. PICK step, o : step \notin Counted /\ Goto(p, step, o)
    BY <1>2, <1>15 DEF ApplyGrant
  <2>3. QED BY <1>1, <2>1, <2>2 DEF NoHistory, Tallies
<1>16. CASE MarkVerified(p)
  <2>1. PICK coll : Write([db EXCEPT !.users = coll], hist)
    BY <1>16 DEF MarkVerified
  <2>2. Goto(p, "idle", Idle) BY <1>16 DEF MarkVerified, Return
  <2>3. QED BY <1>1, <2>1, <2>2
<1>17. CASE FindByEmail(p) /\ ~Answer(p)
  <2>1. PICK o : Read(p, "findCode", o) BY <1>17 DEF FindByEmail
  <2>2. QED BY <2>1, ReadingApart
<1>18. CASE FindCode(p) /\ ~Answer(p)
  <2>1. PICK o : Read(p, "bumpAttempts", o) BY <1>18 DEF FindCode
  <2>2. QED BY <2>1, ReadingApart
<1>19. CASE Confirm(p)
  <2>1. PICK coll, note : Write([db EXCEPT !.users = coll], [hist EXCEPT !.confirmed = note])
    BY <1>19 DEF Confirm
  <2>2. Goto(p, "idle", Idle) BY <1>19 DEF Confirm, Return
  <2>3. QED BY <1>1, <2>1, <2>2 DEF NoHistory, Tallies
<1>20. QED
  BY <1>3, <1>4, <1>5, <1>6, <1>7, <1>8, <1>9, <1>10, <1>11, <1>12, <1>13, <1>14, <1>15, <1>16,
     <1>17, <1>18, <1>19 DEF AccountStep, CodeStep

\* The steps on devices.
LEMMA DeviceApart ==
    ASSUME IInv, NEW p \in Handlers, DeviceStep(p), ~FindUsage(p), ~WriteUsage(p)
    PROVE  Apart(p)
<1> USE DEF Counted, CodeCalls
<1>0. DOMAIN db = Collections
  BY DEF IInv, StoreInv
<1>1. ASSUME NEW c \in {"devices", "alarms"}, NEW coll, NEW step, NEW o,
             step \notin Counted, Goto(p, step, o), Write([db EXCEPT ![c] = coll], hist)
      PROVE  Apart(p)
  <2>1. PICK newDb : newDb = [db EXCEPT ![c] = coll] OBVIOUS
  <2>2. newDb.codes = db.codes /\ newDb.usage = db.usage
    BY <1>0, <2>1 DEF Collections
  <2>3. QED BY <1>1, <2>1, <2>2, WritingApart
<1>2. ASSUME NEW key, NEW step, NEW o, step \notin Counted, Goto(p, step, o),
             Emit(key)
      PROVE  Apart(p)
  <2>1. CASE Write(Raise(key), hist) BY <1>1, <1>2, <2>1 DEF Raise
  <2>2. CASE Write(db, hist) BY <1>2, <2>2, WritingApart
  <2>3. QED BY <1>2, <2>1, <2>2 DEF Emit, LoseAlarm
<1>3. CASE Answer(p) BY <1>3, AnsweringApart
<1>4. CASE Presence(p)
  <2>1. PICK o : Begin(p, "findDevice", o) BY <1>4 DEF Presence
  <2>2. QED BY <2>1, BeginningApart
<1>5. CASE FindDevice(p)
  <2>1. PICK step, o :
           /\ step \in {"ownershipConflict", "ipMismatch", "findPriorDevices", "assessTravel"}
           /\ Read(p, step, o)
    BY <1>5 DEF FindDevice
  <2>2. QED BY <2>1, ReadingApart
<1>6. CASE WithoutDevice(p) BY <1>6, AnsweringApart DEF WithoutDevice
<1>7. CASE OwnershipConflict(p) BY <1>2, <1>7 DEF OwnershipConflict, Return
<1>8. CASE IpMismatch(p)
  <2>1. PICK step : step \in {"findPriorDevices", "assessTravel"} /\ Goto(p, step, op[p])
    BY <1>8 DEF IpMismatch
  <2>2. QED BY <1>2, <1>8, <2>1 DEF IpMismatch
<1>9. CASE FindPriorDevices(p)
  <2>1. PICK step : step \in {"newDevice", "upsertDevice"} /\ Read(p, step, op[p])
    BY <1>9 DEF FindPriorDevices
  <2>2. QED BY <2>1, ReadingApart
<1>10. CASE NewDevice(p) BY <1>2, <1>10 DEF NewDevice
<1>11. CASE Travelled(p)
  <2>1. PICK o : Goto(p, "upsertDevice", o) BY <1>11 DEF Travelled
  <2>2. Write(db, hist) \/ \E key : Emit(key) BY <1>11 DEF Travelled, Emit, LoseAlarm
  <2>3. CASE Write(db, hist) BY <2>1, <2>3, WritingApart
  <2>4. CASE \E key : Emit(key) BY <1>2, <2>1, <2>4
  <2>5. QED BY <2>2, <2>3, <2>4
<1>12. CASE UpsertDevice(p) /\ ~Answer(p)
  <2>1. PICK coll : Write([db EXCEPT !.devices = coll], hist) BY <1>12 DEF UpsertDevice
  <2>2. Return(p) BY <1>12 DEF UpsertDevice
  <2>3. QED BY <1>1, <2>1, <2>2 DEF Return
<1>13. CASE DeadManScan(p)
  <2>1. PICK o : Begin(p, "scanDevices", o) BY <1>13 DEF DeadManScan
  <2>2. QED BY <2>1, BeginningApart
<1>14. CASE ScanDevices(p) /\ ~Answer(p)
  <2>1. PICK o : Read(p, "raiseSilent", o) BY <1>14 DEF ScanDevices
  <2>2. QED BY <2>1, ReadingApart
<1>15. CASE RaiseSilent(p)
  <2>1. PICK alarm : /\ Emit(alarm)
                     /\ Return(p) \/ \E o : Goto(p, "raiseSilent", o)
    BY <1>15 DEF RaiseSilent
  <2>2. QED BY <1>2, <2>1 DEF Return
<1>16. CASE FindOwner(p) /\ ~Answer(p)
  <2>1. PICK o : Read(p, "storeCred", o) BY <1>16 DEF FindOwner
  <2>2. QED BY <2>1, ReadingApart
<1>17. CASE StoreCred(p) /\ ~Answer(p)
  <2>1. PICK coll : Write([db EXCEPT !.devices = coll], hist) BY <1>17 DEF StoreCred
  <2>2. Return(p) BY <1>17 DEF StoreCred
  <2>3. QED BY <1>1, <2>1, <2>2 DEF Return
<1>18. CASE ReadCred(p) BY <1>18, AnsweringApart DEF ReadCred
<1>19. CASE NothingReported(p) BY <1>19, AnsweringApart DEF NothingReported
<1>20. CASE ReadUsage(p) BY <1>20, AnsweringApart DEF ReadUsage
<1>21. QED
  BY <1>3, <1>4, <1>5, <1>6, <1>7, <1>8, <1>9, <1>10, <1>11, <1>12, <1>13, <1>14, <1>15, <1>16,
     <1>17, <1>18, <1>19, <1>20 DEF DeviceStep

\* What concerns neither codes nor usage leaves them alone.
LEMMA Aside ==
    ASSUME IInv, Noted, NEW p \in Handlers, HandlerStep(p),
           ~CodeStep(p), ~FindUsage(p), ~WriteUsage(p)
    PROVE  Apart(p)
<1>1. CASE Arrive(p)
  <2>1. PICK o : Begin(p, "globalRules", o) BY <1>1 DEF Arrive
  <2>2. QED BY <2>1, BeginningApart DEF Counted, CodeCalls
<1>2. CASE Die(p) BY <1>2, AnsweringApart DEF Die
<1>3. QED BY <1>1, <1>2, GateApart, AccountApart, DeviceApart DEF HandlerStep

-----------------------------------------------------------------------------
(* Codes.                                                                  *)

\* The codes of a user that are in force, and those that are live, but for
\* those issued while another was.
Standing(u) == CodesInForce(u) \ hist.overlapped
Pending(u) == LiveCodes(u) \ hist.overlapped

\* The rows of the codes agree with their histories.
RowsInv ==
    /\ Noted
    /\ hist.codes \in Nat /\ DOMAIN db.codes \subseteq 1..hist.codes
    /\ DOMAIN hist.guesses = 1..hist.codes /\ DOMAIN hist.accepted = 1..hist.codes
    /\ \A c \in 1..hist.codes : hist.guesses[c] \in 0..MaxAttempts /\ hist.accepted[c] \in {0, 1}
    /\ \A c \in DOMAIN db.codes :
          /\ {"user", "at", "attempts", "live"} \subseteq DOMAIN db.codes[c]
          /\ db.codes[c].at \in Int
          /\ db.codes[c].attempts = hist.guesses[c]
          /\ db.codes[c].live \in BOOLEAN
          /\ db.codes[c].live => hist.accepted[c] = 0

\* What is claimed of every user.
LimitsInv ==
    \A u : /\ \A c, d \in Pending(u) : c = d
           /\ Cardinality(Standing(u)) <= MaxSends

\* What a handler that issues a code has found out still holds of the codes
\* that nobody else inserts meanwhile.
IssueOk(step, o) ==
    /\ step \in CodeCalls => /\ {"user", "at", "priors"} \subseteq DOMAIN o
                             /\ o.at \in Int /\ o.at <= now
    /\ step \in CodeCalls \ {"countSends"} => Cardinality(Standing(o.user)) < MaxSends
    /\ step = "consumePrior" => Pending(o.user) \subseteq o.priors
    /\ step = "insertCode" => Pending(o.user) = {}

CInv == IInv /\ RowsInv /\ LimitsInv /\ \A p \in Handlers : IssueOk(pc[p], op[p])

\* Codes expire, are consumed and are guessed at; none is new.
Fading ==
    /\ DOMAIN db'.codes \subseteq DOMAIN db.codes
    /\ \A c \in DOMAIN db'.codes : /\ db'.codes[c].user = db.codes[c].user
                                   /\ db'.codes[c].at = db.codes[c].at
                                   /\ db'.codes[c].live => db.codes[c].live
    /\ hist'.overlapped = hist.overlapped
    /\ now' \in Int /\ now <= now'

\* There are finitely many codes.
LEMMA Countable ==
    ASSUME RowsInv
    PROVE  /\ IsFiniteSet(DOMAIN db.codes)
           /\ \A u : /\ IsFiniteSet(Standing(u)) /\ Cardinality(Standing(u)) \in Nat
                     /\ \A S \in SUBSET Standing(u) :
                           /\ IsFiniteSet(S) /\ Cardinality(S) \in Nat
                           /\ Cardinality(S) <= Cardinality(Standing(u))
<1>1. IsFiniteSet(DOMAIN db.codes)
  <2>1. DOMAIN db.codes \subseteq 1..hist.codes /\ hist.codes \in Int
    BY DEF RowsInv
  <2>2. IsFiniteSet(1..hist.codes)
    BY <2>1, FS_Interval
  <2>3. QED BY <2>1, <2>2, FS_Subset
<1>2. \A u : Standing(u) \subseteq DOMAIN db.codes
  BY DEF Standing, CodesInForce
<1>3. QED BY <1>1, <1>2, FS_Subset, FS_CardinalityType

\* Then the limits are as far off as they were ...
LEMMA FadingShrinks ==
    ASSUME IInv, RowsInv, Fading, NEW u
    PROVE  /\ Standing(u)' \subseteq Standing(u) /\ Pending(u)' \subseteq Pending(u)
           /\ Cardinality(Standing(u)') \in Nat
           /\ Cardinality(Standing(u)') <= Cardinality(Standing(u))
<1>1. now \in Int /\ now' \in Int /\ now <= now' /\ CodeTtl \in Int
  BY CodesAssumption DEF IInv, StoreInv, Fading
<1>2. \A c \in DOMAIN db'.codes : /\ c \in DOMAIN db.codes /\ db.codes[c].at \in Int
                                  /\ db'.codes[c].at = db.codes[c].at
                                  /\ db'.codes[c].user = db.codes[c].user
                                  /\ db'.codes[c].live => db.codes[c].live
  BY DEF Fading, RowsInv
<1>3. \A c \in DOMAIN db'.codes : db'.codes[c].at > now' - CodeTtl => db.codes[c].at > now - CodeTtl
  BY <1>1, <1>2
<1>4. Standing(u)' \subseteq Standing(u) /\ Pending(u)' \subseteq Pending(u)
  BY <1>2, <1>3 DEF Standing, Pending, CodesInForce, LiveCodes, Fading
<1>5. QED BY <1>4, Countable

\* ... and what an issuing handler found out still holds.
LEMMA FadingStays ==
    ASSUME IInv, RowsInv, Fading, NEW step, NEW o, IssueOk(step, o)
    PROVE  IssueOk(step, o)'
<1>1. now \in Int /\ now' \in Int /\ now <= now'
  BY DEF IInv, StoreInv, Fading
<1>2. step \in CodeCalls => o.at <= now'
  BY <1>1 DEF IssueOk
<1>3. Cardinality(Standing(o.user)) \in Nat /\ MaxSends \in Nat
  BY Countable, CodesAssumption
<1>4. QED BY <1>2, <1>3, FadingShrinks DEF IssueOk

\* The limits hold on.
LEMMA FadingLimits ==
    ASSUME IInv, RowsInv, LimitsInv, Fading
    PROVE  LimitsInv'
<1>1. \A u : Cardinality(Standing(u)) \in Nat /\ MaxSends \in Nat
  BY Countable, CodesAssumption
<1>2. QED BY <1>1, FadingShrinks DEF LimitsInv

\* A handler's step preserves all this if the codes fade and the rows are
\* right, and what it holds itself is.
LEMMA FadingKeeps ==
    ASSUME CInv, IInv', NEW p \in Handlers, Alone(p), Fading, RowsInv', IssueOk(pc[p], op[p])'
    PROVE  CInv'
<1>1. ASSUME NEW q \in Handlers PROVE IssueOk(pc[q], op[q])'
  <2>1. CASE q = p BY <2>1
  <2>2. CASE q # p
    <3>1. PICK step, o : step = pc[q] /\ o = op[q] OBVIOUS
    <3>2. pc'[q] = step /\ op'[q] = o BY <2>2, <3>1 DEF Alone
    <3>3. IssueOk(step, o)' BY <3>1, FadingStays DEF CInv
    <3>4. QED BY <3>2, <3>3
  <2>3. QED BY <2>1, <2>2
<1>2. QED BY <1>1, FadingLimits DEF CInv

\* Rows and histories of codes that nobody touches.
Unread == db'.codes = db.codes /\ Untold /\ now' = now

\* They stay right.
LEMMA UnreadKeeps ==
    ASSUME IInv, RowsInv, Unread
    PROVE  Fading /\ RowsInv'
<1>1. /\ db'.codes = db.codes /\ now' = now /\ now \in Int /\ DOMAIN hist' = DOMAIN hist
      /\ hist'.codes = hist.codes /\ hist'.guesses = hist.guesses
      /\ hist'.accepted = hist.accepted /\ hist'.overlapped = hist.overlapped
  BY DEF Unread, Untold, Tallies, IInv, StoreInv
<1>2. Fading BY <1>1 DEF Fading
<1>3. RowsInv' BY <1>1 DEF RowsInv, Noted
<1>4. QED BY <1>2, <1>3

\* A handler that is at none of the calls of an issue holds nothing of it.
LEMMA NotIssuing ==
    ASSUME NEW step, NEW o, step \notin CodeCalls
    PROVE  IssueOk(step, o)
BY DEF IssueOk, CodeCalls

\* An issue begins.
LEMMA IssueCodeKeeps ==
    ASSUME CInv, IInv', NEW p \in Handlers, Alone(p), IssueCode(p)
    PROVE  CInv'
<1>1. PICK r, o : /\ o = [route |-> "issueCode", user |-> r.body.user, at |-> now, priors |-> {}]
                 /\ Begin(p, "countSends", o)
  BY DEF IssueCode
<1>2. pc'[p] = "countSends" /\ op'[p] = o /\ UNCHANGED <<db, hist, now>>
  BY <1>1, Going DEF CInv, IInv, Begin
<1>3. Unread BY <1>2 DEF Unread, Untold
<1>4. IssueOk("countSends", o)'
  BY <1>1, <1>2 DEF IssueOk, CInv, IInv, StoreInv
<1>5. QED BY <1>2, <1>3, <1>4, UnreadKeeps, FadingKeeps DEF CInv

\* The sends of the window are counted: they are at least those in force.
LEMMA CountSendsKeeps ==
    ASSUME CInv, IInv', NEW p \in Handlers, Alone(p), CountSends(p), ~Answer(p)
    PROVE  CInv'
<1>1. PICK o : o = op[p] OBVIOUS
<1>2. /\ pc[p] = "countSends" /\ Read(p, "findPriors", o)
      /\ ~(Cardinality(CodesSince(o.user, o.at - SendWindow)) >= MaxSends)
  BY <1>1 DEF CountSends
<1>3. pc'[p] = "findPriors" /\ op'[p] = o /\ UNCHANGED <<db, hist, now>>
  BY <1>2, Going DEF CInv, IInv, Read
<1>4. Unread BY <1>3 DEF Unread, Untold
<1>5. /\ {"user", "at", "priors"} \subseteq DOMAIN o
      /\ o.at \in Int /\ o.at <= now /\ now \in Int
      /\ CodeTtl \in Int /\ SendWindow \in Int /\ CodeTtl <= SendWindow
  BY <1>1, <1>2, CodesAssumption DEF CInv, IInv, StoreInv, IssueOk, CodeCalls
<1>6. Standing(o.user) \subseteq CodesSince(o.user, o.at - SendWindow)
  <2>1. \A c \in DOMAIN db.codes : db.codes[c].at \in Int
    BY DEF CInv, RowsInv
  <2>2. \A c \in DOMAIN db.codes : db.codes[c].at > now - CodeTtl =>
                                      db.codes[c].at >= o.at - SendWindow
    BY <1>5, <2>1
  <2>3. QED BY <2>2 DEF Standing, CodesInForce, CodesSince
<1>7. Cardinality(Standing(o.user)) < MaxSends
  <2>1. CodesSince(o.user, o.at - SendWindow) \subseteq DOMAIN db.codes
    BY DEF CodesSince
  <2>2. IsFiniteSet(CodesSince(o.user, o.at - SendWindow))
    BY <2>1, Countable, FS_Subset DEF CInv
  <2>3. /\ Cardinality(Standing(o.user)) <= Cardinality(CodesSince(o.user, o.at - SendWindow))
        /\ Cardinality(Standing(o.user)) \in Nat
        /\ Cardinality(CodesSince(o.user, o.at - SendWindow)) \in Nat
    BY <1>6, <2>2, FS_Subset, FS_CardinalityType
  <2>4. QED BY <1>2, <2>3, CodesAssumption
<1>8. Standing(o.user)' = Standing(o.user)
  BY <1>3 DEF Standing, CodesInForce
<1>9. IssueOk("findPriors", o)'
  BY <1>3, <1>5, <1>7, <1>8 DEF IssueOk, CodeCalls
<1>10. QED BY <1>3, <1>4, <1>9, UnreadKeeps, FadingKeeps DEF CInv

\* The live codes are found.
LEMMA FindPriorsKeeps ==
    ASSUME CInv, IInv', NEW p \in Handlers, Alone(p), FindPriors(p)
    PROVE  CInv'
<1>1. PICK was, o, step :
          /\ was = op[p] /\ o = [was EXCEPT !.priors = LiveCodes(was.user)]
          /\ step = IF LiveCodes(was.user) = {} THEN "insertCode" ELSE "consumePrior"
          /\ pc[p] = "findPriors" /\ Read(p, step, o)
  BY DEF FindPriors
<1>2. pc'[p] = step /\ op'[p] = o /\ UNCHANGED <<db, hist, now>>
  BY <1>1, Going DEF CInv, IInv, Read
<1>3. Unread BY <1>2 DEF Unread, Untold
<1>4. /\ {"user", "at", "priors"} \subseteq DOMAIN was /\ was.at \in Int /\ was.at <= now
      /\ Cardinality(Standing(was.user)) < MaxSends
  BY <1>1 DEF CInv, IssueOk, CodeCalls
<1>5. /\ {"user", "at", "priors"} \subseteq DOMAIN o /\ o.at = was.at /\ o.user = was.user
      /\ o.priors = LiveCodes(was.user)
  BY <1>1, <1>4
<1>6. Standing(o.user)' = Standing(o.user) /\ Pending(o.user)' = Pending(o.user)
  BY <1>2 DEF Standing, Pending, CodesInForce, LiveCodes
<1>7. Pending(o.user) \subseteq o.priors /\ (step = "insertCode" => Pending(o.user) = {})
  BY <1>1, <1>5 DEF Pending
<1>8. IssueOk(step, o)'
  BY <1>2, <1>4, <1>5, <1>6, <1>7 DEF IssueOk, CodeCalls
<1>9. QED BY <1>2, <1>3, <1>8, UnreadKeeps, FadingKeeps DEF CInv

\* A prior code is consumed, if it is still there.
LEMMA ConsumePriorKeeps ==
    ASSUME CInv, IInv', NEW p \in Handlers, Alone(p), ConsumePrior(p)
    PROVE  CInv'
<1>1. PICK was, c, rest, o, step :
          /\ was = op[p] /\ c = (CHOOSE prior \in was.priors : TRUE) /\ rest = was.priors \ {c}
          /\ o = [was EXCEPT !.priors = rest]
          /\ step = IF rest = {} THEN "insertCode" ELSE "consumePrior"
  OBVIOUS
<1>2. /\ pc[p] = "consumePrior" /\ Goto(p, step, o)
      /\ Write(IF c \in DOMAIN db.codes THEN [db EXCEPT !.codes[c].live = FALSE] ELSE db, hist)
  BY <1>1 DEF ConsumePrior
<1>3. pc'[p] = step /\ op'[p] = o /\ now' = now /\ hist' = hist /\ now \in Int
  BY <1>2, Going DEF CInv, IInv, StoreInv, Write
<1>4. DOMAIN db = Collections /\ RowsInv
  BY DEF CInv, IInv, StoreInv
<1>5. /\ DOMAIN db'.codes = DOMAIN db.codes
      /\ \A d \in DOMAIN db.codes : db'.codes[d] = IF d = c THEN [db.codes[d] EXCEPT !.live = FALSE]
                                                   ELSE db.codes[d]
  BY <1>2, <1>4 DEF Write, Collections
<1>6. \A d \in DOMAIN db.codes :
          /\ DOMAIN db'.codes[d] = DOMAIN db.codes[d]
          /\ db'.codes[d].user = db.codes[d].user /\ db'.codes[d].at = db.codes[d].at
          /\ db'.codes[d].attempts = db.codes[d].attempts
          /\ d = c => db'.codes[d].live = FALSE
          /\ d # c => db'.codes[d].live = db.codes[d].live
  BY <1>4, <1>5 DEF RowsInv
<1>7. Fading
  <2>1. \A d \in DOMAIN db.codes : db'.codes[d].live => db.codes[d].live
    BY <1>6
  <2>2. hist'.overlapped = hist.overlapped /\ now' \in Int /\ now <= now'
    BY <1>3
  <2>3. QED BY <1>5, <1>6, <2>1, <2>2 DEF Fading
<1>8. RowsInv'
  BY <1>3, <1>4, <1>5, <1>6 DEF RowsInv, Noted
<1>9. /\ {"user", "at", "priors"} \subseteq DOMAIN was /\ was.at \in Int /\ was.at <= now
      /\ Cardinality(Standing(was.user)) < MaxSends /\ Pending(was.user) \subseteq was.priors
  BY <1>1, <1>2 DEF CInv, IssueOk, CodeCalls
<1>10. /\ {"user", "at", "priors"} \subseteq DOMAIN o /\ o.at = was.at /\ o.user = was.user
       /\ o.priors = rest
  BY <1>1, <1>9
<1>11. c \notin Pending(o.user)'
  BY <1>5, <1>6 DEF Pending, LiveCodes
<1>12. /\ Pending(o.user)' \subseteq rest
       /\ Cardinality(Standing(o.user)') < MaxSends
  <2>1. /\ Pending(o.user)' \subseteq Pending(o.user) /\ Cardinality(Standing(o.user)') \in Nat
        /\ Cardinality(Standing(o.user)') <= Cardinality(Standing(o.user))
        /\ Cardinality(Standing(o.user)) \in Nat
    BY <1>4, <1>7, FadingShrinks, Countable DEF CInv
  <2>2. Pending(o.user)' \subseteq rest
    BY <1>1, <1>9, <1>10, <1>11, <2>1
  <2>3. Cardinality(Standing(o.user)) < MaxSends
    BY <1>9, <1>10
  <2>4. QED BY <2>1, <2>2, <2>3, CodesAssumption
<1>13. IssueOk(step, o)'
  BY <1>1, <1>3, <1>9, <1>10, <1>12 DEF IssueOk, CodeCalls
<1>14. QED BY <1>3, <1>7, <1>8, <1>13, FadingKeeps

\* A code is inserted: it is the only live one and within the limit, or it is
\* one of those issued while another was.
LEMMA InsertCodeKeeps ==
    ASSUME CInv, IInv', NEW p \in Handlers, Alone(p), InsertCode(p)
    PROVE  CInv'
<1>1. PICK o, c, row, late :
          /\ o = op[p] /\ c = hist.codes + 1
          /\ row = [user |-> o.user, at |-> o.at, attempts |-> 0, live |-> TRUE,
                    expiresAt |-> o.at + CodeTtl]
          /\ late = IF Issuing(p) = {} THEN hist.overlapped ELSE hist.overlapped \cup {c}
  OBVIOUS
<1>2. /\ pc[p] = "insertCode" /\ Return(p)
      /\ Write([db EXCEPT !.codes = Put(@, c, row)],
               [hist EXCEPT !.codes = c, !.guesses = Put(@, c, 0), !.accepted = Put(@, c, 0),
                            !.overlapped = late])
  BY <1>1 DEF InsertCode
<1>3. pc'[p] = "idle" /\ now' = now /\ now \in Int
  BY <1>2, Going DEF CInv, IInv, StoreInv, Write, Return
<1>4. DOMAIN db = Collections /\ RowsInv /\ DOMAIN hist = DOMAIN NoHistory
  BY DEF CInv, IInv, StoreInv, RowsInv, Noted
<1>5. /\ db'.codes = Put(db.codes, c, row) /\ DOMAIN hist' = DOMAIN NoHistory
      /\ hist'.codes = c /\ hist'.guesses = Put(hist.guesses, c, 0)
      /\ hist'.accepted = Put(hist.accepted, c, 0) /\ hist'.overlapped = late
  BY <1>2, <1>4 DEF Write, Collections, NoHistory
<1>6. /\ o.at \in Int /\ Cardinality(Standing(o.user)) < MaxSends /\ Pending(o.user) = {}
  BY <1>1, <1>2 DEF CInv, IssueOk, CodeCalls
<1>7. /\ c \in Nat \ {0} /\ c \notin 1..hist.codes /\ 1..c = 1..hist.codes \cup {c}
      /\ c \notin DOMAIN db.codes
  BY <1>1, <1>4 DEF RowsInv
<1>8. /\ DOMAIN db'.codes = DOMAIN db.codes \cup {c} /\ db'.codes[c] = row
      /\ \A d \in DOMAIN db.codes : db'.codes[d] = db.codes[d]
  BY <1>5, <1>7 DEF Put
<1>9. RowsInv'
  <2>1. /\ DOMAIN hist'.guesses = 1..c /\ DOMAIN hist'.accepted = 1..c
        /\ hist'.guesses[c] = 0 /\ hist'.accepted[c] = 0
        /\ \A d \in 1..hist.codes : hist'.guesses[d] = hist.guesses[d]
                                    /\ hist'.accepted[d] = hist.accepted[d]
    BY <1>4, <1>5, <1>7 DEF Put, RowsInv
  <2>2. \A d \in 1..c : hist'.guesses[d] \in 0..MaxAttempts /\ hist'.accepted[d] \in {0, 1}
    BY <1>4, <1>7, <2>1, CodesAssumption DEF RowsInv
  <2>3. \A d \in DOMAIN db'.codes :
          /\ {"user", "at", "attempts", "live"} \subseteq DOMAIN db'.codes[d]
          /\ db'.codes[d].at \in Int
          /\ db'.codes[d].attempts = hist'.guesses[d]
          /\ db'.codes[d].live \in BOOLEAN
          /\ db'.codes[d].live => hist'.accepted[d] = 0
    <3>1. CASE TRUE
      <4>1. ASSUME NEW d \in DOMAIN db.codes
            PROVE  /\ {"user", "at", "attempts", "live"} \subseteq DOMAIN db'.codes[d]
                   /\ db'.codes[d].at \in Int
                   /\ db'.codes[d].attempts = hist'.guesses[d]
                   /\ db'.codes[d].live \in BOOLEAN
                   /\ db'.codes[d].live => hist'.accepted[d] = 0
        BY <1>4, <1>8, <2>1 DEF RowsInv
      <4>2. /\ {"user", "at", "attempts", "live"} \subseteq DOMAIN db'.codes[c]
            /\ db'.codes[c].at \in Int
            /\ db'.codes[c].attempts = hist'.guesses[c]
            /\ db'.codes[c].live \in BOOLEAN
            /\ db'.codes[c].live => hist'.accepted[c] = 0
        BY <1>1, <1>6, <1>8, <2>1
      <4>3. QED BY <1>8, <4>1, <4>2
    <3>2. QED BY <3>1
  <2>4. DOMAIN db'.codes \subseteq 1..c
    BY <1>4, <1>7, <1>8 DEF RowsInv
  <2>5. QED BY <1>5, <1>7, <2>1, <2>2, <2>3, <2>4 DEF RowsInv, Noted
<1>10. \A u : /\ Standing(u)' \subseteq Standing(u) \cup {c}
              /\ Pending(u)' \subseteq Pending(u) \cup {c}
  BY <1>1, <1>3, <1>5, <1>8 DEF Standing, Pending, CodesInForce, LiveCodes
<1>11. \A u : u # o.user \/ Issuing(p) # {} => /\ Standing(u)' \subseteq Standing(u)
                                               /\ Pending(u)' \subseteq Pending(u)
  <2>1. ASSUME NEW u, u # o.user
        PROVE  Standing(u)' \subseteq Standing(u) /\ Pending(u)' \subseteq Pending(u)
    <3>1. db'.codes[c].user # u
      BY <1>1, <1>8, <2>1
    <3>2. c \notin Standing(u)' /\ c \notin Pending(u)'
      BY <3>1 DEF Standing, Pending, CodesInForce, LiveCodes
    <3>3. QED BY <1>10, <3>2
  <2>2. ASSUME NEW u, Issuing(p) # {}
        PROVE  Standing(u)' \subseteq Standing(u) /\ Pending(u)' \subseteq Pending(u)
    <3>1. c \in hist'.overlapped
      BY <1>1, <1>5, <2>2
    <3>2. c \notin Standing(u)' /\ c \notin Pending(u)'
      BY <3>1 DEF Standing, Pending
    <3>3. QED BY <1>10, <3>2
  <2>3. QED BY <2>1, <2>2
<1>12. \A u : Standing(u)' \subseteq Standing(u) => /\ Cardinality(Standing(u)') \in Nat
                                                    /\ Cardinality(Standing(u)') <= Cardinality(Standing(u))
                                                    /\ Cardinality(Standing(u)) \in Nat
  BY <1>4, Countable
<1>13. LimitsInv'
  <2> SUFFICES ASSUME NEW u
               PROVE  /\ \A d, e \in Pending(u)' : d = e
                      /\ Cardinality(Standing(u)') <= MaxSends
    BY DEF LimitsInv
  <2>1. CASE u # o.user \/ Issuing(p) # {}
    BY <1>11, <1>12, <2>1, CodesAssumption DEF CInv, LimitsInv
  <2>2. CASE u = o.user
    <3>1. \A d, e \in Pending(u)' : d = e
      BY <1>6, <1>10, <2>2
    <3>2. IsFiniteSet(Standing(u)) /\ Cardinality(Standing(u)) \in Nat
      BY <1>4, Countable
    <3>3. /\ IsFiniteSet(Standing(u) \cup {c})
          /\ Cardinality(Standing(u) \cup {c}) <= Cardinality(Standing(u)) + 1
          /\ Cardinality(Standing(u) \cup {c}) \in Nat
      BY <3>2, FS_AddElement, FS_CardinalityType
    <3>4. /\ Cardinality(Standing(u)') <= Cardinality(Standing(u) \cup {c})
          /\ Cardinality(Standing(u)') \in Nat
      BY <1>10, <3>3, FS_Subset, FS_CardinalityType
    <3>5. QED BY <1>6, <2>2, <3>1, <3>2, <3>3, <3>4, CodesAssumption
  <2>3. QED BY <2>1, <2>2
<1>14. ASSUME NEW q \in Handlers PROVE IssueOk(pc[q], op[q])'
  <2>1. CASE q = p BY <1>3, <2>1, NotIssuing DEF CodeCalls, IssueOk
  <2>2. CASE q # p
    <3>1. PICK step, w : step = pc[q] /\ w = op[q] OBVIOUS
    <3>2. pc'[q] = step /\ op'[q] = w BY <2>2, <3>1 DEF Alone
    <3>3. IssueOk(step, w) BY <3>1 DEF CInv
    <3>4. step \in CodeCalls => w.user # o.user \/ Issuing(p) # {}
      BY <1>1, <2>2, <3>1 DEF Issuing, Others, CodeCalls
    <3>5. step \in CodeCalls => /\ Cardinality(Standing(w.user)') <= Cardinality(Standing(w.user))
                                /\ Cardinality(Standing(w.user)') \in Nat
                                /\ Cardinality(Standing(w.user)) \in Nat
                                /\ Pending(w.user)' \subseteq Pending(w.user)
      BY <1>11, <1>12, <3>4
    <3>6. IssueOk(step, w)'
      <4>1. CASE step \notin CodeCalls BY <4>1 DEF IssueOk, CodeCalls
      <4>2. CASE step \in CodeCalls
        <5>1. step \in CodeCalls \ {"countSends"} => Cardinality(Standing(w.user)') < MaxSends
          BY <3>3, <3>5, <4>2, CodesAssumption DEF IssueOk
        <5>2. QED BY <1>3, <3>3, <3>5, <4>2, <5>1 DEF IssueOk
      <4>3. QED BY <4>1, <4>2
    <3>7. QED BY <3>2, <3>6
  <2>3. QED BY <2>1, <2>2
<1>15. QED BY <1>9, <1>13, <1>14 DEF CInv

\* A guess is counted before it is compared, and counts on the row.
LEMMA BumpKeeps ==
    ASSUME CInv, IInv', NEW p \in Handlers, Alone(p), BumpAttempts(p), ~Answer(p)
    PROVE  CInv'
<1>1. PICK c : c = op[p].body.code OBVIOUS
<1>2. /\ c \in DOMAIN db.codes /\ ~(db.codes[c].attempts >= MaxAttempts)
      /\ Write([db EXCEPT !.codes[c].attempts = @ + 1], [hist EXCEPT !.guesses[c] = @ + 1])
      /\ pc'[p] \in {"consume", "idle"}
  <2>1. Goto(p, "consume", op[p]) \/ Goto(p, "idle", Idle)
    BY DEF BumpAttempts, Return
  <2>2. QED BY <1>1, <2>1, Going DEF BumpAttempts, StillLive, CInv, IInv
<1>3. DOMAIN db = Collections /\ RowsInv /\ DOMAIN hist = DOMAIN NoHistory /\ now \in Int
  BY DEF CInv, IInv, StoreInv, RowsInv, Noted
<1>4. now' = now /\ hist' = [hist EXCEPT !.guesses[c] = @ + 1]
  BY <1>2 DEF Write
<1>5. /\ DOMAIN hist' = DOMAIN hist /\ hist'.codes = hist.codes /\ hist'.accepted = hist.accepted
      /\ hist'.overlapped = hist.overlapped
      /\ hist'.guesses = [hist.guesses EXCEPT ![c] = @ + 1]
  BY <1>3, <1>4 DEF NoHistory
<1>6. /\ DOMAIN db'.codes = DOMAIN db.codes
      /\ \A d \in DOMAIN db.codes : db'.codes[d] = IF d = c THEN [db.codes[d] EXCEPT !.attempts = @ + 1]
                                                   ELSE db.codes[d]
  BY <1>2, <1>3 DEF Write, Collections
<1>7. c \in 1..hist.codes /\ hist.guesses[c] \in 0..MaxAttempts /\ db.codes[c].attempts = hist.guesses[c]
  BY <1>2, <1>3 DEF RowsInv
<1>8. hist.guesses[c] + 1 \in 0..MaxAttempts
  BY <1>2, <1>7, CodesAssumption
<1>9. \A d \in DOMAIN db.codes :
          /\ DOMAIN db'.codes[d] = DOMAIN db.codes[d]
          /\ db'.codes[d].user = db.codes[d].user /\ db'.codes[d].at = db.codes[d].at
          /\ db'.codes[d].live = db.codes[d].live
          /\ db'.codes[d].attempts = IF d = c THEN db.codes[d].attempts + 1 ELSE db.codes[d].attempts
  BY <1>3, <1>6 DEF RowsInv
<1>10. /\ DOMAIN hist'.guesses = DOMAIN hist.guesses
       /\ \A d \in 1..hist.codes : hist'.guesses[d] = IF d = c THEN hist.guesses[d] + 1 ELSE hist.guesses[d]
  BY <1>3, <1>5 DEF RowsInv
<1>11. Fading
  BY <1>3, <1>4, <1>5, <1>6, <1>9 DEF Fading
<1>12. RowsInv'
  <2>1. \A d \in DOMAIN db.codes : d \in 1..hist.codes
    BY <1>3 DEF RowsInv
  <2>2. \A d \in DOMAIN db'.codes :
          /\ {"user", "at", "attempts", "live"} \subseteq DOMAIN db'.codes[d]
          /\ db'.codes[d].at \in Int
          /\ db'.codes[d].attempts = hist'.guesses[d]
          /\ db'.codes[d].live \in BOOLEAN
          /\ db'.codes[d].live => hist'.accepted[d] = 0
    BY <1>3, <1>5, <1>6, <1>7, <1>9, <1>10, <2>1 DEF RowsInv
  <2>3. \A d \in 1..hist'.codes : hist'.guesses[d] \in 0..MaxAttempts /\ hist'.accepted[d] \in {0, 1}
    BY <1>3, <1>5, <1>8, <1>10 DEF RowsInv
  <2>4. QED BY <1>3, <1>5, <1>6, <1>10, <2>2, <2>3 DEF RowsInv, Noted
<1>13. IssueOk(pc[p], op[p])'
  BY <1>2, NotIssuing DEF IssueOk, CodeCalls
<1>14. QED BY <1>11, <1>12, <1>13, FadingKeeps

\* A code confirms once: only the first finds it live.
LEMMA ConsumeKeeps ==
    ASSUME CInv, IInv', NEW p \in Handlers, Alone(p), Consume(p), ~Answer(p)
    PROVE  CInv'
<1>1. PICK c : c = op[p].body.code OBVIOUS
<1>2. /\ c \in DOMAIN db.codes /\ db.codes[c].live
      /\ Write([db EXCEPT !.codes[c].live = FALSE], [hist EXCEPT !.accepted[c] = @ + 1])
      /\ pc'[p] = "confirm"
  BY <1>1, Going DEF Consume, StillLive, CInv, IInv
<1>3. DOMAIN db = Collections /\ RowsInv /\ DOMAIN hist = DOMAIN NoHistory /\ now \in Int
  BY DEF CInv, IInv, StoreInv, RowsInv, Noted
<1>4. now' = now /\ hist' = [hist EXCEPT !.accepted[c] = @ + 1]
  BY <1>2 DEF Write
<1>5. /\ DOMAIN hist' = DOMAIN hist /\ hist'.codes = hist.codes /\ hist'.guesses = hist.guesses
      /\ hist'.overlapped = hist.overlapped
      /\ hist'.accepted = [hist.accepted EXCEPT ![c] = @ + 1]
  BY <1>3, <1>4 DEF NoHistory
<1>6. /\ DOMAIN db'.codes = DOMAIN db.codes
      /\ \A d \in DOMAIN db.codes : db'.codes[d] = IF d = c THEN [db.codes[d] EXCEPT !.live = FALSE]
                                                   ELSE db.codes[d]
  BY <1>2, <1>3 DEF Write, Collections
<1>7. c \in 1..hist.codes /\ hist.accepted[c] = 0
  BY <1>2, <1>3 DEF RowsInv
<1>8. \A d \in DOMAIN db.codes :
          /\ DOMAIN db'.codes[d] = DOMAIN db.codes[d]
          /\ db'.codes[d].user = db.codes[d].user /\ db'.codes[d].at = db.codes[d].at
          /\ db'.codes[d].attempts = db.codes[d].attempts
          /\ d = c => db'.codes[d].live = FALSE
          /\ d # c => db'.codes[d].live = db.codes[d].live
  BY <1>3, <1>6 DEF RowsInv
<1>9. /\ DOMAIN hist'.accepted = DOMAIN hist.accepted /\ hist'.accepted[c] = 1
      /\ \A d \in 1..hist.codes : d # c => hist'.accepted[d] = hist.accepted[d]
  BY <1>3, <1>5, <1>7 DEF RowsInv
<1>10. Fading
  <2>1. \A d \in DOMAIN db.codes : db'.codes[d].live => db.codes[d].live
    BY <1>8
  <2>2. hist'.overlapped = hist.overlapped /\ now' \in Int /\ now <= now'
    BY <1>3, <1>4, <1>5
  <2>3. QED BY <1>6, <1>8, <2>1, <2>2 DEF Fading
<1>11. RowsInv'
  <2>1. \A d \in DOMAIN db.codes : d \in 1..hist.codes
    BY <1>3 DEF RowsInv
  <2>2. \A d \in DOMAIN db'.codes :
          /\ {"user", "at", "attempts", "live"} \subseteq DOMAIN db'.codes[d]
          /\ db'.codes[d].at \in Int
          /\ db'.codes[d].attempts = hist'.guesses[d]
          /\ db'.codes[d].live \in BOOLEAN
          /\ db'.codes[d].live => hist'.accepted[d] = 0
    <3> SUFFICES ASSUME NEW d \in DOMAIN db'.codes
                 PROVE  /\ {"user", "at", "attempts", "live"} \subseteq DOMAIN db'.codes[d]
                        /\ db'.codes[d].at \in Int
                        /\ db'.codes[d].attempts = hist'.guesses[d]
                        /\ db'.codes[d].live \in BOOLEAN
                        /\ db'.codes[d].live => hist'.accepted[d] = 0
      OBVIOUS
    <3>1. d \in DOMAIN db.codes /\ d \in 1..hist.codes
      BY <1>6, <2>1
    <3>2. /\ {"user", "at", "attempts", "live"} \subseteq DOMAIN db.codes[d]
          /\ db.codes[d].at \in Int /\ db.codes[d].attempts = hist.guesses[d]
      BY <1>3, <3>1 DEF RowsInv
    <3>3. db.codes[d].live \in BOOLEAN /\ (db.codes[d].live => hist.accepted[d] = 0)
      BY <1>3, <3>1 DEF RowsInv
    <3>4. /\ DOMAIN db'.codes[d] = DOMAIN db.codes[d] /\ db'.codes[d].at = db.codes[d].at
          /\ db'.codes[d].attempts = db.codes[d].attempts /\ hist'.guesses[d] = hist.guesses[d]
      BY <1>5, <1>8, <3>1
    <3>5. db'.codes[d].live \in BOOLEAN /\ (db'.codes[d].live => hist'.accepted[d] = 0)
      <4>1. CASE d = c
        BY <1>8, <3>1, <4>1
      <4>2. CASE d # c
        BY <1>8, <1>9, <3>1, <3>3, <4>2
      <4>3. QED BY <4>1, <4>2
    <3>6. QED BY <3>2, <3>4, <3>5
  <2>3. \A d \in 1..hist'.codes : hist'.guesses[d] \in 0..MaxAttempts /\ hist'.accepted[d] \in {0, 1}
    BY <1>3, <1>5, <1>9 DEF RowsInv
  <2>4. QED BY <1>3, <1>5, <1>6, <1>9, <2>2, <2>3 DEF RowsInv, Noted
<1>12. IssueOk(pc[p], op[p])'
  BY <1>2 DEF IssueOk, CodeCalls
<1>13. QED BY <1>10, <1>11, <1>12, FadingKeeps

\* Every step of a handler keeps the codes within their bounds.
LEMMA CodesStep ==
    ASSUME CInv, IInv', NEW p \in Handlers, Alone(p), HandlerStep(p)
    PROVE  CInv'
<1>1. ASSUME Apart(p) PROVE CInv'
  <2>1. Unread BY <1>1 DEF Apart, Unread
  <2>2. pc'[p] \notin CodeCalls BY <1>1 DEF Apart
  <2>3. IssueOk(pc[p], op[p])' BY <2>2 DEF IssueOk, CodeCalls
  <2>4. QED BY <2>1, <2>3, UnreadKeeps, FadingKeeps DEF CInv
<1>2. CASE ~CodeStep(p) /\ ~FindUsage(p) /\ ~WriteUsage(p)
  BY <1>1, <1>2, Aside DEF CInv, RowsInv
<1>3. CASE Answer(p)
  BY <1>1, <1>3, AnsweringApart DEF CInv
<1>4. CASE FindUsage(p)
  <2>1. PICK o : Read(p, "writeUsage", o) BY <1>4 DEF FindUsage
  <2>2. pc'[p] = "writeUsage" /\ UNCHANGED <<db, hist, now>>
    BY <2>1, Going DEF CInv, IInv, Read
  <2>3. Unread BY <2>2 DEF Unread, Untold
  <2>4. IssueOk(pc[p], op[p])' BY <2>2 DEF IssueOk, CodeCalls
  <2>5. QED BY <2>3, <2>4, UnreadKeeps, FadingKeeps DEF CInv
<1>5. CASE WriteUsage(p) /\ ~Answer(p)
  <2>1. PICK step, o :
           /\ \/ Write(db, hist)
              \/ \E coll, reports, mixed :
                    Write([db EXCEPT !.usage = coll],
                          [hist EXCEPT !.reports = reports, !.mixed = mixed])
           /\ step \in {"idle", "findUsage"} /\ Goto(p, step, o)
    BY <1>5 DEF WriteUsage, Return
  <2>2. pc'[p] \in {"idle", "findUsage"} /\ now' = now
    BY <2>1, Going DEF CInv, IInv, Write
  <2>3. /\ db'.codes = db.codes /\ DOMAIN hist' = DOMAIN hist
        /\ hist'.codes = hist.codes /\ hist'.guesses = hist.guesses
        /\ hist'.accepted = hist.accepted /\ hist'.overlapped = hist.overlapped
    <3>1. DOMAIN db = Collections /\ DOMAIN hist = DOMAIN NoHistory
      BY DEF CInv, IInv, StoreInv, RowsInv, Noted
    <3>2. CASE Write(db, hist) BY <3>2 DEF Write
    <3>3. CASE \E coll, reports, mixed :
                 Write([db EXCEPT !.usage = coll],
                       [hist EXCEPT !.reports = reports, !.mixed = mixed])
      BY <3>1, <3>3 DEF NoHistory, Write, Collections
    <3>4. QED BY <2>1, <3>2, <3>3
  <2>4. Fading /\ RowsInv'
    <3>1. now \in Int /\ RowsInv BY DEF CInv, IInv, StoreInv
    <3>2. Fading BY <2>2, <2>3, <3>1 DEF Fading
    <3>3. RowsInv' BY <2>2, <2>3, <3>1 DEF RowsInv, Noted
    <3>4. QED BY <3>2, <3>3
  <2>5. IssueOk(pc[p], op[p])' BY <2>2 DEF IssueOk, CodeCalls
  <2>6. QED BY <2>4, <2>5, FadingKeeps
<1>6. CASE CodeStep(p) /\ ~Answer(p)
  BY <1>6, IssueCodeKeeps, CountSendsKeeps, FindPriorsKeeps, ConsumePriorKeeps, InsertCodeKeeps,
     BumpKeeps, ConsumeKeeps DEF CodeStep
<1>7. QED BY <1>2, <1>3, <1>4, <1>5, <1>6

\* So does everything else.
LEMMA CodesElsewhere ==
    ASSUME CInv, IInv', Elsewhere
    PROVE  CInv'
<1>0. RowsInv /\ IInv /\ DOMAIN db = Collections /\ now \in Int /\ DOMAIN hist = DOMAIN NoHistory
  BY DEF CInv, IInv, StoreInv, RowsInv, Noted
<1>1. /\ DOMAIN hist' = DOMAIN hist
      /\ hist'.codes = hist.codes /\ hist'.guesses = hist.guesses
      /\ hist'.accepted = hist.accepted /\ hist'.overlapped = hist.overlapped
      /\ now' \in {now, now + 1} /\ UNCHANGED <<pc, op>>
  <2>1. /\ \/ hist' = hist \/ hist' = [hist EXCEPT !.bootFailed = TRUE]
           \/ \E reports, mixed : hist' = [hist EXCEPT !.reports = reports, !.mixed = mixed]
        /\ now' \in {now, now + 1} /\ UNCHANGED <<pc, op>>
    BY DEF Elsewhere, StartUp, BuildContext, IndexEmails, IndexExpiry, FailIndex, Restart, Start,
       ExpireCode, ExpireUsage, Elapse, vars
  <2>2. QED BY <1>0, <2>1 DEF NoHistory
<1>2. \/ db'.codes = db.codes
      \/ \E c \in DOMAIN db.codes : db'.codes = [d \in DOMAIN db.codes \ {c} |-> db.codes[d]]
  <2>1. \/ db' = db
        \/ \E indexes : db' = [db EXCEPT !.indexes = indexes]
        \/ \E usage : db' = [db EXCEPT !.usage = usage]
        \/ \E c \in DOMAIN db.codes : db' = [db EXCEPT !.codes = [d \in DOMAIN @ \ {c} |-> @[d]]]
    BY DEF Elsewhere, StartUp, BuildContext, IndexEmails, IndexExpiry, FailIndex, Restart, Start,
       ExpireCode, ExpireUsage, Elapse, vars
  <2>2. QED BY <1>0, <2>1 DEF Collections
<1>3. /\ DOMAIN db'.codes \subseteq DOMAIN db.codes
      /\ \A d \in DOMAIN db'.codes : db'.codes[d] = db.codes[d]
  BY <1>2
<1>4. Fading
  BY <1>0, <1>1, <1>3 DEF Fading
<1>5. RowsInv'
  BY <1>0, <1>1, <1>3 DEF RowsInv, Noted
<1>6. ASSUME NEW q \in Handlers PROVE IssueOk(pc[q], op[q])'
  <2>1. PICK step, o : step = pc[q] /\ o = op[q] OBVIOUS
  <2>2. IssueOk(step, o)' BY <1>0, <1>4, <2>1, FadingStays DEF CInv
  <2>3. QED BY <1>1, <2>1, <2>2
<1>7. QED BY <1>0, <1>4, <1>5, <1>6, FadingLimits DEF CInv

\* There are no codes at first.
LEMMA CodesAtFirst == Init => CInv
<1> SUFFICES ASSUME Init PROVE CInv OBVIOUS
<1>1. IInv BY InitOk
<1>2. hist = NoHistory /\ DOMAIN db.codes = {}
  BY <1>1, CodesAssumption DEF Init, load, IInv, StoreInv
<1>3. RowsInv
  BY <1>2, CodesAssumption DEF RowsInv, Noted, NoHistory
<1>4. \A u : Standing(u) = {} /\ Pending(u) = {}
  BY <1>2 DEF Standing, Pending, CodesInForce, LiveCodes
<1>5. LimitsInv
  BY <1>4, FS_EmptySet, CodesAssumption DEF LimitsInv
<1>6. \A p \in Handlers : IssueOk(pc[p], op[p])
  BY DEF Init, IssueOk, CodeCalls
<1>7. QED BY <1>1, <1>3, <1>5, <1>6 DEF CInv

\* The invariant of the codes.
LEMMA CodesInvariance == Spec => []CInv
<1>1. CInv /\ [Next]_vars => CInv'
  <2> SUFFICES ASSUME CInv, [Next]_vars PROVE CInv' OBVIOUS
  <2>1. IInv' BY StepOk DEF CInv
  <2>2. ASSUME NEW p \in Handlers, HandlerStep(p) PROVE CInv'
    BY <2>1, <2>2, HandlerStepSafe, CodesStep DEF CInv
  <2>3. QED BY <2>1, <2>2, Steps, CodesElsewhere
<1>2. QED BY <1>1, CodesAtFirst, PTL DEF Spec

\* verifyOtp and issueOtp (lib/otp.js): a code is guessed at no more often than
\* the cap and confirms once, however many guess in parallel; and but for codes
\* issued while another was, one code of a user is live, and no more are sent in
\* the life of a code than the send limit.
THEOREM CodesBounded == Spec => []CodesAreBounded
<1>1. CInv => CodesAreBounded
  <2> SUFFICES ASSUME CInv PROVE CodesAreBounded OBVIOUS
  <2>1. RowsInv /\ LimitsInv BY DEF CInv
  <2>2. \A c \in DOMAIN hist.guesses : hist.guesses[c] <= MaxAttempts /\ hist.accepted[c] <= 1
    BY <2>1 DEF RowsInv
  <2>3. ASSUME NEW u PROVE Cardinality(Pending(u)) <= 1
    <3>1. CASE Pending(u) = {} BY <3>1, FS_EmptySet
    <3>2. CASE Pending(u) # {}
      <4>1. PICK c : Pending(u) = {c} BY <2>1, <3>2 DEF LimitsInv
      <4>2. QED BY <4>1, FS_Singleton
    <3>3. QED BY <3>1, <3>2
  <2>4. QED BY <2>1, <2>2, <2>3 DEF CodesAreBounded, LimitsInv, Standing, Pending
<1>2. QED BY <1>1, CodesInvariance, PTL

-----------------------------------------------------------------------------
(* Usage.                                                                  *)

\* The newest points of a series: as many as there may be, the last ones.
LEMMA NewestIs ==
    ASSUME NEW S, NEW s \in Seq(S)
    PROVE  LET newest == Newest(SeriesCap, s)
           IN  /\ newest \in Seq(S)
               /\ Len(newest) = IF Len(s) > SeriesCap THEN SeriesCap ELSE Len(s)
               /\ \A k \in 1..Len(newest) : newest[k] = s[Len(s) - Len(newest) + k]
<1>1. SeriesCap \in Nat \ {0} /\ Len(s) \in Nat
  BY UsageAssumption, LenProperties
<1>2. CASE Len(s) > SeriesCap
  <2>1. PICK from : from = Len(s) - SeriesCap + 1 /\ from \in 1..Len(s)
    BY <1>1, <1>2
  <2>2. /\ SubSeq(s, from, Len(s)) \in Seq(S)
        /\ Len(SubSeq(s, from, Len(s))) = SeriesCap
        /\ \A k \in 1..SeriesCap : SubSeq(s, from, Len(s))[k] = s[from + k - 1]
    BY <1>1, <2>1, SubSeqProperties
  <2>3. \A k \in 1..SeriesCap : from + k - 1 = Len(s) - SeriesCap + k
    BY <1>1, <2>1
  <2>4. Newest(SeriesCap, s) = SubSeq(s, from, Len(s))
    BY <1>2, <2>1 DEF Newest
  <2>5. QED BY <1>2, <2>2, <2>3, <2>4
<1>3. CASE ~(Len(s) > SeriesCap)
  BY <1>1, <1>3 DEF Newest
<1>4. QED BY <1>2, <1>3

\* It is that of any series that ends in the same points.
LEMMA SameNewest ==
    ASSUME NEW S, NEW a \in Seq(S), NEW b \in Seq(S),
           Len(a) = Len(b) \/ (Len(a) < Len(b) /\ Len(a) >= SeriesCap),
           \A k \in 1..Len(a) : a[k] = b[Len(b) - Len(a) + k]
    PROVE  Newest(SeriesCap, a) = Newest(SeriesCap, b)
<1>1. PICK c, d, m, n, l : /\ c = Newest(SeriesCap, a) /\ d = Newest(SeriesCap, b)
                           /\ m = Len(a) /\ n = Len(b) /\ l = Len(c)
  OBVIOUS
<1>2. SeriesCap \in Nat \ {0} /\ m \in Nat /\ n \in Nat
  BY <1>1, UsageAssumption, LenProperties
<1>3. /\ c \in Seq(S) /\ l = (IF m > SeriesCap THEN SeriesCap ELSE m)
      /\ \A k \in 1..l : c[k] = a[m - l + k]
  BY <1>1, NewestIs
<1>4. /\ d \in Seq(S) /\ Len(d) = (IF n > SeriesCap THEN SeriesCap ELSE n)
      /\ \A k \in 1..Len(d) : d[k] = b[n - Len(d) + k]
  BY <1>1, NewestIs
<1>5. l = Len(d) /\ l \in Nat /\ l <= m
  BY <1>1, <1>2, <1>3, <1>4
<1>6. ASSUME NEW k \in 1..l PROVE c[k] = d[k]
  <2>1. m - l + k \in 1..m /\ n - m + (m - l + k) = n - l + k
    BY <1>2, <1>5
  <2>2. a[m - l + k] = b[n - m + (m - l + k)]
    BY <1>1, <2>1
  <2>3. c[k] = a[m - l + k] BY <1>3
  <2>4. d[k] = b[n - l + k] BY <1>4, <1>5
  <2>5. QED BY <2>1, <2>2, <2>3, <2>4
<1>7. QED BY <1>1, <1>3, <1>4, <1>5, <1>6, SeqEqual

\* What is dropped from a series does not matter to the newest of one point
\* more ...
LEMMA NewestAppended ==
    ASSUME NEW S, NEW s \in Seq(S), NEW x
    PROVE  Newest(SeriesCap, Append(Newest(SeriesCap, s), x)) = Newest(SeriesCap, Append(s, x))
<1>1. PICK T, n, a, b, l, m :
         /\ T = S \cup {x} /\ n = Newest(SeriesCap, s)
         /\ a = Append(n, x) /\ b = Append(s, x) /\ l = Len(n) /\ m = Len(s)
  OBVIOUS
<1>2. SeriesCap \in Nat \ {0} /\ m \in Nat
  BY <1>1, UsageAssumption, LenProperties
<1>3. s \in Seq(T) /\ x \in T
  BY <1>1, SeqMonotonic
<1>4. /\ n \in Seq(T) /\ l = (IF m > SeriesCap THEN SeriesCap ELSE m)
      /\ \A k \in 1..l : n[k] = s[m - l + k]
  BY <1>1, <1>3, NewestIs
<1>5. /\ a \in Seq(T) /\ Len(a) = l + 1 /\ a[l + 1] = x
      /\ \A k \in 1..l : a[k] = n[k]
  <2>1. /\ Append(n, x) \in Seq(T) /\ Len(Append(n, x)) = Len(n) + 1
        /\ Append(n, x)[Len(n) + 1] = x
        /\ \A k \in 1..Len(n) : Append(n, x)[k] = n[k]
    BY <1>3, <1>4, AppendProperties
  <2>2. QED BY <1>1, <2>1
<1>6. /\ b \in Seq(T) /\ Len(b) = m + 1 /\ b[m + 1] = x
      /\ \A k \in 1..m : b[k] = s[k]
  BY <1>1, <1>3, AppendProperties
<1>7. l \in Nat /\ l <= m
  BY <1>2, <1>4
<1>8. ASSUME NEW k \in 1..(l + 1) PROVE a[k] = b[(m + 1) - (l + 1) + k]
  <2>1. (m + 1) - (l + 1) + k = m - l + k
    BY <1>2, <1>7
  <2>2. CASE k = l + 1
    <3>1. m - l + k = m + 1 BY <1>2, <1>7, <2>2
    <3>2. QED BY <1>5, <1>6, <2>1, <2>2, <3>1
  <2>3. CASE k \in 1..l
    <3>1. m - l + k \in 1..m BY <1>2, <1>7, <2>3
    <3>2. b[m - l + k] = s[m - l + k] BY <1>6, <3>1
    <3>3. a[k] = n[k] /\ n[k] = s[m - l + k] BY <1>4, <1>5, <2>3
    <3>4. QED BY <2>1, <3>2, <3>3
  <2>4. QED BY <1>7, <2>2, <2>3
<1>9. Len(a) = Len(b) \/ (Len(a) < Len(b) /\ Len(a) >= SeriesCap)
  BY <1>2, <1>4, <1>5, <1>6
<1>10. Newest(SeriesCap, a) = Newest(SeriesCap, b)
  <2>1. \A k \in 1..Len(a) : a[k] = b[Len(b) - Len(a) + k]
    BY <1>5, <1>6, <1>8
  <2>2. QED BY <1>5, <1>6, <1>9, <2>1, SameNewest
<1>11. QED BY <1>1, <1>10

\* ... nor to that of one with another last point.
LEMMA NewestReplaced ==
    ASSUME NEW S, NEW s \in Seq(S), s # <<>>, NEW x
    PROVE  LET n == Newest(SeriesCap, s)
           IN  Newest(SeriesCap, [n EXCEPT ![Len(n)] = x])
                 = Newest(SeriesCap, [s EXCEPT ![Len(s)] = x])
<1>1. PICK T, n, a, b, l, m :
         /\ T = S \cup {x} /\ n = Newest(SeriesCap, s) /\ l = Len(n) /\ m = Len(s)
         /\ a = [n EXCEPT ![l] = x] /\ b = [s EXCEPT ![m] = x]
  OBVIOUS
<1>2. SeriesCap \in Nat \ {0} /\ m \in Nat \ {0}
  BY <1>1, UsageAssumption, EmptySeq
<1>3. s \in Seq(T) /\ x \in T
  BY <1>1, SeqMonotonic
<1>4. /\ n \in Seq(T) /\ l = (IF m > SeriesCap THEN SeriesCap ELSE m)
      /\ \A k \in 1..l : n[k] = s[m - l + k]
  BY <1>1, <1>3, NewestIs
<1>5. l \in 1..m
  BY <1>2, <1>4
<1>6. /\ a \in Seq(T) /\ Len(a) = l
      /\ \A k \in 1..l : a[k] = IF k = l THEN x ELSE n[k]
  <2>1. l \in 1..Len(n) BY <1>1, <1>2, <1>5
  <2>2. /\ [n EXCEPT ![l] = x] \in Seq(T) /\ Len([n EXCEPT ![l] = x]) = Len(n)
        /\ \A k \in 1..Len(n) : [n EXCEPT ![l] = x][k] = IF k = l THEN x ELSE n[k]
    BY <1>3, <1>4, <2>1, ExceptSeq
  <2>3. QED BY <1>1, <2>2
<1>7. /\ b \in Seq(T) /\ Len(b) = m
      /\ \A k \in 1..m : b[k] = IF k = m THEN x ELSE s[k]
  <2>1. m \in 1..Len(s) BY <1>1, <1>2
  <2>2. QED BY <1>1, <1>3, <2>1, ExceptSeq
<1>8. ASSUME NEW k \in 1..l PROVE a[k] = b[m - l + k]
  <2>1. m - l + k \in 1..m /\ (m - l + k = m <=> k = l)
    BY <1>2, <1>5
  <2>2. a[k] = IF k = l THEN x ELSE s[m - l + k]
    BY <1>4, <1>6
  <2>3. b[m - l + k] = IF k = l THEN x ELSE s[m - l + k]
    BY <1>7, <2>1
  <2>4. QED BY <2>2, <2>3
<1>9. Len(a) = Len(b) \/ (Len(a) < Len(b) /\ Len(a) >= SeriesCap)
  BY <1>2, <1>4, <1>6, <1>7
<1>10. Newest(SeriesCap, a) = Newest(SeriesCap, b)
  BY <1>6, <1>7, <1>8, <1>9, SameNewest
<1>11. QED BY <1>1, <1>10

\* e lists the numbers of S in their order.
Enumerates(e, m, S) ==
    /\ m \in Nat /\ S \subseteq Nat
    /\ e \in [1..m -> S]
    /\ \A k, l \in 1..m : k < l => e[k] < e[l]
    /\ \A i \in S : \E k \in 1..m : e[k] = i

\* The number of those before each is its place.
LEMMA Ranks ==
    ASSUME NEW e, NEW m, NEW S, Enumerates(e, m, S)
    PROVE  /\ Cardinality(S) = m
           /\ \A k \in 1..m : Cardinality({j \in S : j < e[k]}) = k - 1
<1>0. /\ m \in Nat /\ S \subseteq Nat /\ e \in [1..m -> S]
      /\ \A k, l \in 1..m : k < l => e[k] < e[l]
      /\ \A i \in S : \E k \in 1..m : e[k] = i
  BY DEF Enumerates
<1>1. \A k \in 1..m : e[k] \in S /\ e[k] \in Nat
  BY <1>0
<1>2. \A k, l \in 1..m : e[k] = e[l] => k = l
  <2> SUFFICES ASSUME NEW k \in 1..m, NEW l \in 1..m, e[k] = e[l] PROVE k = l
    OBVIOUS
  <2>1. ~(e[k] < e[l]) /\ ~(e[l] < e[k]) BY <1>1
  <2>2. ~(k < l) /\ ~(l < k) BY <1>0, <2>1
  <2>3. QED BY <1>0, <2>2
<1>3. Cardinality(S) = m
  <2>1. e \in Bijection(1..m, S)
    BY <1>0, <1>2 DEF Bijection, Injection, Surjection, IsInjective
  <2>2. IsFiniteSet(1..m) /\ Cardinality(1..m) = m
    BY <1>0, FS_Interval
  <2>3. QED BY <2>1, <2>2, FS_Bijection DEF ExistsBijection
<1>4. ASSUME NEW k \in 1..m
      PROVE  Cardinality({j \in S : j < e[k]}) = k - 1
  <2>0. k \in Int /\ k - 1 \in Nat /\ 1..(k - 1) \subseteq 1..m
    BY <1>0
  <2>1. PICK B, f : B = {j \in S : j < e[k]} /\ f = [l \in 1..(k - 1) |-> e[l]] OBVIOUS
  <2>2. \A l \in 1..(k - 1) : f[l] \in B
    BY <1>0, <1>1, <2>0, <2>1
  <2>3. ASSUME NEW j \in B PROVE \E l \in 1..(k - 1) : f[l] = j
    <3>1. PICK l \in 1..m : e[l] = j BY <1>0, <2>1, <2>3
    <3>2. e[l] < e[k] BY <2>1, <3>1
    <3>3. l < k
      <4>1. l # k BY <1>1, <3>2
      <4>2. ~(k < l) BY <1>0, <1>1, <3>2
      <4>3. QED BY <4>1, <4>2
    <3>4. l \in 1..(k - 1) BY <3>3
    <3>5. QED BY <2>1, <3>1, <3>4
  <2>4. \A l, n \in 1..(k - 1) : f[l] = f[n] => l = n
    BY <1>2, <2>0, <2>1
  <2>5. f \in Bijection(1..(k - 1), B)
    BY <2>1, <2>2, <2>3, <2>4 DEF Bijection, Injection, Surjection, IsInjective
  <2>6. IsFiniteSet(1..(k - 1)) /\ Cardinality(1..(k - 1)) = k - 1
    BY <2>0, FS_Interval
  <2>7. QED BY <2>1, <2>5, <2>6, FS_Bijection DEF ExistsBijection
<1>5. QED BY <1>3, <1>4

\* The last report of each bucket, by their places; and their points.
LastOf(reports) ==
    {i \in DOMAIN reports :
        \A j \in DOMAIN reports : BucketOf[reports[j].t] = BucketOf[reports[i].t] => j <= i}

Points(reports, e, m) == [k \in 1..m |-> [reports[e[k]] EXCEPT !.v = ClampPct(@)]]

\* Listed in their order, they are what is claimed.
LEMMA LastOfEachIs ==
    ASSUME NEW reports, NEW e, NEW m, Enumerates(e, m, LastOf(reports))
    PROVE  LastOfEach(reports) = Points(reports, e, m)
<1> DEFINE last == {i \in DOMAIN reports :
                       \A j \in DOMAIN reports :
                          BucketOf[reports[j].t] = BucketOf[reports[i].t] => j <= i}
           Earlier(i) == {j \in last : j < i}
           Nth(k) == CHOOSE i \in last : Cardinality(Earlier(i)) = k - 1
<1>1. last = LastOf(reports)
  BY DEF LastOf
<1>2. Cardinality(last) = m /\ \A k \in 1..m : Cardinality(Earlier(e[k])) = k - 1
  BY <1>1, Ranks
<1>3. /\ m \in Nat /\ \A k \in 1..m : e[k] \in last
      /\ \A i \in last : \E k \in 1..m : e[k] = i
  BY <1>1 DEF Enumerates
<1>4. LastOfEach(reports) = [k \in 1..Cardinality(last) |-> [reports[Nth(k)] EXCEPT !.v = ClampPct(@)]]
  BY DEF LastOfEach
<1> HIDE DEF last, Earlier
<1>5. ASSUME NEW k \in 1..m PROVE Nth(k) = e[k]
  <2>1. e[k] \in last /\ Cardinality(Earlier(e[k])) = k - 1 BY <1>2, <1>3
  <2>2. Nth(k) \in last /\ Cardinality(Earlier(Nth(k))) = k - 1 BY <2>1
  <2>3. PICK l \in 1..m : e[l] = Nth(k) BY <1>3, <2>2
  <2>4. l - 1 = k - 1 BY <1>2, <2>2, <2>3
  <2>5. l = k BY <1>3, <2>4
  <2>6. QED BY <2>3, <2>5
<1> HIDE DEF Nth
<1>6. QED BY <1>2, <1>4, <1>5 DEF Points

\* What a series must be: r are the reports of it, in their order, V their
\* values, T the bound on their times, and e lists the last of each bucket.
Tells(T, series, r, V, e, m) ==
    /\ r \in Seq([t : 0..T, v : V]) /\ r # <<>>
    /\ \A i, j \in 1..Len(r) : i <= j => r[i].t <= r[j].t
    /\ Enumerates(e, m, LastOf(r))
    /\ series = Newest(SeriesCap, Points(r, e, m))

Faithful(T, series, r) == \E V, e, m : Tells(T, series, r, V, e, m)

\* A function on the numbers up to m is a sequence.
LEMMA FunctionIsSeq ==
    ASSUME NEW F, NEW m \in Nat, NEW s \in [1..m -> F]
    PROVE  s \in Seq(F) /\ Len(s) = m
OBVIOUS

\* The first report of a series.
LEMMA FirstReport ==
    ASSUME NEW T \in Nat, NEW t \in 0..T, NEW v
    PROVE  Faithful(T, MergeSeries(<<>>, [t |-> t, v |-> ClampPct(v)]), <<[t |-> t, v |-> v]>>)
<1>1. PICK r, point, e : /\ r = <<[t |-> t, v |-> v]>> /\ point = [t |-> t, v |-> ClampPct(v)]
                         /\ e = [k \in 1..1 |-> 1]
  OBVIOUS
<1>2. /\ r \in Seq([t : 0..T, v : {v}]) /\ r # <<>> /\ Len(r) = 1 /\ DOMAIN r = 1..1
      /\ r[1] = [t |-> t, v |-> v]
  BY <1>1
<1>3. LastOf(r) = {1}
  BY <1>2 DEF LastOf
<1>4. Enumerates(e, 1, LastOf(r))
  BY <1>1, <1>3 DEF Enumerates
<1>5. Points(r, e, 1) = <<point>>
  BY <1>1, <1>2 DEF Points
<1>6. MergeSeries(<<>>, point) = Newest(SeriesCap, <<point>>)
  BY DEF MergeSeries, InLastBucket
<1>7. \A i, j \in 1..Len(r) : i <= j => r[i].t <= r[j].t
  BY <1>2
<1>8. QED BY <1>1, <1>2, <1>4, <1>5, <1>6, <1>7 DEF Faithful, Tells

\* How a series ends: the last report is the last of its bucket, and its point
\* the last of the series.
Ends(T, series, r, V, e, m) ==
    LET n == Len(r)
        full == Points(r, e, m)
    IN  /\ n \in Nat \ {0} /\ DOMAIN r = 1..n
        /\ \A i \in 1..n : r[i] \in [t : 0..T, v : V] /\ r[i].t \in 0..T
        /\ m \in Nat \ {0} /\ e[m] = n
        /\ \A k \in 1..m : e[k] \in 1..n /\ e[k] \in LastOf(r)
        /\ \A k, l \in 1..m : k < l => e[k] < e[l]
        /\ \A i \in LastOf(r) : \E k \in 1..m : e[k] = i
        /\ full \in Seq({full[k] : k \in 1..m}) /\ Len(full) = m /\ full # <<>>
        /\ \A k \in 1..m : full[k] = [t |-> r[e[k]].t, v |-> ClampPct(r[e[k]].v)]
        /\ series # <<>> /\ Len(series) \in Nat \ {0}
        /\ series[Len(series)].t = r[n].t

\* A series ends like that.
LEMMA Ending ==
    ASSUME NEW T \in Nat, NEW series, NEW r, NEW V, NEW e, NEW m, Tells(T, series, r, V, e, m)
    PROVE  Ends(T, series, r, V, e, m)
<1>1. PICK n, full : n = Len(r) /\ full = Points(r, e, m)
  OBVIOUS
<1>0. /\ r \in Seq([t : 0..T, v : V]) /\ r # <<>>
      /\ Enumerates(e, m, LastOf(r))
      /\ series = Newest(SeriesCap, Points(r, e, m))
  BY DEF Tells
<1>2. n \in Nat \ {0} /\ DOMAIN r = 1..n
  BY <1>0, <1>1, EmptySeq, LenProperties
<1>3. \A i \in 1..n : r[i] \in [t : 0..T, v : V] /\ r[i].t \in 0..T
  <2>1. \A i \in 1..n : r[i] \in [t : 0..T, v : V] BY <1>0, <1>1, ElementOfSeq
  <2>2. QED BY <2>1
<1>4. /\ m \in Nat /\ \A k \in 1..m : e[k] \in 1..n /\ e[k] \in LastOf(r)
      /\ \A k, l \in 1..m : k < l => e[k] < e[l]
      /\ \A i \in LastOf(r) : \E k \in 1..m : e[k] = i
  BY <1>0, <1>2 DEF Enumerates, LastOf
<1>5. n \in LastOf(r)
  BY <1>2 DEF LastOf
<1>6. m \in Nat \ {0} /\ e[m] = n
  <2>1. PICK k \in 1..m : e[k] = n BY <1>4, <1>5
  <2>2. k \in Int /\ m \in Int /\ m \in 1..m /\ e[m] \in 1..n BY <1>4
  <2>3. ~(e[k] < e[m]) BY <1>2, <2>1, <2>2
  <2>4. ~(k < m) BY <1>4, <2>2, <2>3
  <2>5. QED BY <1>4, <2>1, <2>2, <2>4
<1>7. /\ full \in Seq({full[k] : k \in 1..m}) /\ Len(full) = m /\ full # <<>>
      /\ \A k \in 1..m : full[k] = [t |-> r[e[k]].t, v |-> ClampPct(r[e[k]].v)]
  <2>1. full = [k \in 1..m |-> [r[e[k]] EXCEPT !.v = ClampPct(@)]]
    BY <1>1 DEF Points
  <2>2. full \in Seq({full[k] : k \in 1..m}) /\ Len(full) = m
    <3>1. full \in [1..m -> {full[k] : k \in 1..m}] BY <2>1
    <3>2. QED BY <1>6, <3>1, FunctionIsSeq
  <2>3. \A k \in 1..m : full[k] = [t |-> r[e[k]].t, v |-> ClampPct(r[e[k]].v)]
    BY <1>3, <1>4, <2>1
  <2>4. QED BY <1>6, <2>2, <2>3, EmptySeq
<1>8. /\ series # <<>> /\ Len(series) \in Nat \ {0}
       /\ series[Len(series)] = full[m]
  <2>1. PICK F, l : F = {full[k] : k \in 1..m} /\ l = Len(series) OBVIOUS
  <2>2. full \in Seq(F) /\ series = Newest(SeriesCap, full) BY <1>0, <1>1, <1>7, <2>1
  <2>3. /\ series \in Seq(F)
        /\ l = (IF m > SeriesCap THEN SeriesCap ELSE m)
        /\ \A k \in 1..l : series[k] = full[m - l + k]
    <3>1. Len(full) = m BY <1>7
    <3>2. QED BY ONLY <2>1, <2>2, <3>1, NewestIs
  <2>4. l \in Nat \ {0} /\ m - l + l = m /\ l \in 1..l
    BY <1>6, <2>3, UsageAssumption
  <2>5. series[l] = full[m] BY <2>3, <2>4
  <2>6. series # <<>>
    <3>1. Len(<<>>) = 0 OBVIOUS
    <3>2. QED BY <2>1, <2>4, <3>1
  <2>7. QED BY <2>1, <2>4, <2>5, <2>6
<1>9. series[Len(series)].t = r[n].t
  BY <1>6, <1>7, <1>8
<1>10. QED
  <2>1. Len(r) = n /\ Points(r, e, m) = full
    BY <1>1
  <2>2. QED BY ONLY <1>2, <1>3, <1>4, <1>6, <1>7, <1>8, <1>9, <2>1 DEF Ends

\* The last point of a series has the time of the last report.
LEMMA LastPoint ==
    ASSUME NEW T \in Nat, NEW series, NEW r, Faithful(T, series, r)
    PROVE  /\ series # <<>> /\ Len(series) \in Nat \ {0}
           /\ series[Len(series)].t = r[Len(r)].t
           /\ series[Len(series)].t \in 0..T
<1>1. PICK V, e, m : Tells(T, series, r, V, e, m)
  BY DEF Faithful
<1>2. PICK n : n = Len(r) OBVIOUS
<1>3. /\ n \in Nat \ {0} /\ \A i \in 1..n : r[i].t \in 0..T
      /\ series # <<>> /\ Len(series) \in Nat \ {0} /\ series[Len(series)].t = r[n].t
  <2>1. Ends(T, series, r, V, e, m) BY <1>1, Ending
  <2>2. QED BY <1>2, <2>1 DEF Ends
<1>4. n \in 1..n BY <1>3
<1>5. QED BY <1>2, <1>3, <1>4

\* Another one, no earlier than the last.
LEMMA NextReport ==
    ASSUME NEW T \in Nat, NEW series, NEW r, Faithful(T, series, r),
           NEW t \in 0..T, series[Len(series)].t <= t, NEW v,
           \A i, j \in 0..T : i <= j => BucketOf[i] <= BucketOf[j],
           \A i \in 0..T : BucketOf[i] \in Int
    PROVE  Faithful(T, MergeSeries(series, [t |-> t, v |-> ClampPct(v)]),
                    Append(r, [t |-> t, v |-> v]))
<1>0. PICK V, e, m : Tells(T, series, r, V, e, m)
  BY DEF Faithful
<1>1. /\ r \in Seq([t : 0..T, v : V]) /\ r # <<>>
      /\ \A i, j \in 1..Len(r) : i <= j => r[i].t <= r[j].t
      /\ Enumerates(e, m, LastOf(r))
      /\ series = Newest(SeriesCap, Points(r, e, m))
  BY <1>0 DEF Tells
<1>2. PICK n, full, report, point, q, W :
        /\ n = Len(r) /\ full = Points(r, e, m)
        /\ report = [t |-> t, v |-> v] /\ point = [t |-> t, v |-> ClampPct(v)]
        /\ q = Append(r, report) /\ W = V \cup {v}
  OBVIOUS
<1>3. /\ n \in Nat \ {0} /\ DOMAIN r = 1..n
      /\ \A i \in 1..n : r[i] \in [t : 0..T, v : V] /\ r[i].t \in 0..T
      /\ m \in Nat \ {0} /\ e[m] = n
      /\ \A k \in 1..m : e[k] \in 1..n /\ e[k] \in LastOf(r)
      /\ \A k, l \in 1..m : k < l => e[k] < e[l]
      /\ \A i \in LastOf(r) : \E k \in 1..m : e[k] = i
      /\ full \in Seq({full[k] : k \in 1..m}) /\ Len(full) = m /\ full # <<>>
      /\ \A k \in 1..m : full[k] = [t |-> r[e[k]].t, v |-> ClampPct(r[e[k]].v)]
      /\ series # <<>> /\ Len(series) \in Nat \ {0}
      /\ series[Len(series)].t = r[n].t
  <2>1. Ends(T, series, r, V, e, m) BY <1>0, Ending
  <2>2. QED BY <1>2, <2>1 DEF Ends
<1>4. /\ q \in Seq([t : 0..T, v : W]) /\ q # <<>> /\ Len(q) = n + 1 /\ DOMAIN q = 1..(n + 1)
      /\ q[n + 1] = report /\ \A i \in 1..n : q[i] = r[i]
  <2>1. r \in Seq([t : 0..T, v : W])
    <3>1. [t : 0..T, v : V] \subseteq [t : 0..T, v : W] BY <1>2
    <3>2. QED BY <1>1, <3>1, SeqMonotonic
  <2>2. report \in [t : 0..T, v : W] BY <1>2
  <2>3. QED BY <1>2, <2>1, <2>2, AppendProperties, LenProperties
<1>5. r[n].t <= t /\ t \in Int
  BY <1>3
<1>6. \A i \in 1..n : r[i].t <= r[n].t /\ r[i].t \in 0..T /\ r[n].t \in 0..T
  BY <1>1, <1>2, <1>3
<1>7. \A i, j \in 1..Len(q) : i <= j => q[i].t <= q[j].t
  <2>1. ASSUME NEW i \in 1..(n + 1), NEW j \in 1..(n + 1), i <= j
        PROVE  q[i].t <= q[j].t
    <3>1. CASE j \in 1..n
      <4>1. i \in 1..n BY <1>3, <2>1, <3>1
      <4>2. QED BY <1>1, <1>2, <1>4, <2>1, <3>1, <4>1
    <3>2. CASE j = n + 1
      <4>1. q[j].t = t BY <1>2, <1>4, <3>2
      <4>2. CASE i = n + 1 BY <1>5, <3>2, <4>1, <4>2
      <4>3. CASE i \in 1..n
        <5>1. q[i].t = r[i].t /\ r[i].t <= r[n].t /\ r[i].t \in Int /\ r[n].t \in Int
          BY <1>4, <1>6, <4>3
        <5>2. QED BY <1>5, <4>1, <5>1
      <4>4. QED BY <1>3, <4>2, <4>3
    <3>3. QED BY <1>3, <3>1, <3>2
  <2>2. QED BY <1>4, <2>1
\* the two cases
<1>8. BucketOf[q[n + 1].t] = BucketOf[t] /\ \A i \in 1..n : BucketOf[q[i].t] = BucketOf[r[i].t]
  BY <1>2, <1>4
<1>9. InLastBucket(series, point) <=> BucketOf[r[n].t] = BucketOf[t]
  BY <1>2, <1>3 DEF InLastBucket
<1>10. CASE BucketOf[r[n].t] = BucketOf[t]
  <2>1. PICK f : f = [k \in 1..m |-> IF k = m THEN n + 1 ELSE e[k]] OBVIOUS
  <2>2. LastOf(q) = (LastOf(r) \ {n}) \cup {n + 1}
    <3>0. n \in Nat \ {0} /\ DOMAIN r = 1..n BY <1>3
    <3>1. n + 1 \in LastOf(q) BY <3>0, <1>4 DEF LastOf
    <3>2. n \notin LastOf(q)
      BY <3>0, <1>4, <1>8, <1>10 DEF LastOf
    <3>3. ASSUME NEW i \in 1..n, i # n PROVE i \in LastOf(q) <=> i \in LastOf(r)
      <4>1. ASSUME i \in LastOf(q) PROVE i \in LastOf(r)
        <5>1. \A j \in 1..n : BucketOf[r[j].t] = BucketOf[r[i].t] => j <= i
          <6>1. \A j \in 1..(n + 1) : BucketOf[q[j].t] = BucketOf[q[i].t] => j <= i
            BY <1>4, <4>1 DEF LastOf
          <6>2. \A j \in 1..n : j \in 1..(n + 1) BY <3>0
          <6>3. QED BY <1>8, <6>1, <6>2
        <5>2. QED BY <3>0, <5>1 DEF LastOf
      <4>2. ASSUME i \in LastOf(r) PROVE i \in LastOf(q)
        <5>1. \A j \in 1..n : BucketOf[r[j].t] = BucketOf[r[i].t] => j <= i
          BY <3>0, <4>2 DEF LastOf
        <5>2. BucketOf[r[n].t] # BucketOf[r[i].t]
          BY <3>0, <3>3, <5>1
        <5>3. \A j \in 1..(n + 1) : BucketOf[q[j].t] = BucketOf[q[i].t] => j <= i
          <6>1. \A j \in 1..(n + 1) : j = n + 1 \/ j \in 1..n BY <3>0
          <6>2. QED BY <1>8, <1>10, <5>1, <5>2, <6>1
        <5>4. i \in DOMAIN q BY <3>0, <1>4
        <5>5. QED BY <1>4, <5>3, <5>4 DEF LastOf
      <4>3. QED BY <4>1, <4>2
    <3>4. LastOf(q) \subseteq 1..(n + 1) /\ LastOf(r) \subseteq 1..n
      BY <3>0, <1>4 DEF LastOf
    <3>5. QED
      <4>1. \A i : i \in 1..(n + 1) <=> i \in 1..n \/ i = n + 1 BY <3>0
      <4>2. n + 1 \notin 1..n BY <3>0
      <4>3. QED BY <3>1, <3>2, <3>3, <3>4, <4>1, <4>2
  <2>3. Enumerates(f, m, LastOf(q))
    <3>1. \A k \in 1..m : k # m => e[k] < n /\ e[k] \in LastOf(r) \ {n}
      <4> SUFFICES ASSUME NEW k \in 1..m, k # m PROVE e[k] < n /\ e[k] \in LastOf(r) \ {n}
        OBVIOUS
      <4>1. k < m BY <1>3
      <4>2. e[k] < n BY <1>3, <4>1
      <4>3. e[k] # n BY <1>3, <4>2
      <4>4. QED BY <1>3, <4>2, <4>3
    <3>2. \A k \in 1..m : f[k] \in LastOf(q)
      BY <2>1, <2>2, <3>1
    <3>3. \A k, l \in 1..m : k < l => f[k] < f[l]
      <4> SUFFICES ASSUME NEW k \in 1..m, NEW l \in 1..m, k < l PROVE f[k] < f[l]
        OBVIOUS
      <4>1. k # m BY <1>3
      <4>2. f[k] = e[k] /\ e[k] \in 1..n /\ e[l] \in 1..n BY <1>3, <2>1, <4>1
      <4>3. CASE l = m BY <1>3, <2>1, <4>2, <4>3
      <4>4. CASE l # m BY <1>3, <2>1, <4>2, <4>4
      <4>5. QED BY <4>3, <4>4
    <3>4. ASSUME NEW i \in LastOf(q) PROVE \E k \in 1..m : f[k] = i
      <4>1. CASE i = n + 1
        <5>1. m \in 1..m BY <1>3
        <5>2. QED BY <2>1, <4>1, <5>1
      <4>2. CASE i \in LastOf(r) \ {n}
        <5>1. PICK k \in 1..m : e[k] = i BY <1>3, <4>2
        <5>2. k # m BY <1>3, <4>2, <5>1
        <5>3. QED BY <2>1, <5>1, <5>2
      <4>3. QED BY <2>2, <4>1, <4>2
    <3>5. LastOf(q) \subseteq Nat /\ f \in [1..m -> LastOf(q)]
      <4>1. LastOf(q) \subseteq 1..(n + 1) BY <1>4 DEF LastOf
      <4>2. QED BY <1>3, <2>1, <3>2, <4>1
    <3>6. QED BY <1>3, <3>3, <3>4, <3>5 DEF Enumerates
  <2>4. Points(q, f, m) = [full EXCEPT ![m] = point]
    <3>1. Points(q, f, m) = [k \in 1..m |-> [q[f[k]] EXCEPT !.v = ClampPct(@)]]
      BY DEF Points
    <3>2. DOMAIN full = 1..m BY <1>3, LenProperties
    <3>3. ASSUME NEW k \in 1..m
          PROVE  [q[f[k]] EXCEPT !.v = ClampPct(@)] = IF k = m THEN point ELSE full[k]
      <4>1. CASE k = m
        <5>1. q[f[k]] = report BY <1>4, <2>1, <4>1
        <5>2. [report EXCEPT !.v = ClampPct(@)] = point BY <1>2
        <5>3. QED BY <4>1, <5>1, <5>2
      <4>2. CASE k # m
        <5>1. q[f[k]] = r[e[k]] /\ r[e[k]] \in [t : 0..T, v : V] BY <1>3, <1>4, <2>1, <4>2
        <5>2. QED BY <1>3, <4>2, <5>1
      <4>3. QED BY <4>1, <4>2
    <3>4. full = [k \in 1..m |-> full[k]]
      BY <1>3, LenProperties
    <3>5. QED BY <3>1, <3>2, <3>3, <3>4
  <2>5. MergeSeries(series, point) = Newest(SeriesCap, [full EXCEPT ![m] = point])
    <3>1. MergeSeries(series, point) = Newest(SeriesCap, [series EXCEPT ![Len(series)] = point])
      BY <1>9, <1>10 DEF MergeSeries
    <3>2. /\ full \in Seq({full[k] : k \in 1..m}) /\ full # <<>> /\ Len(full) = m
          /\ series = Newest(SeriesCap, full)
      BY <1>1, <1>2, <1>3
    <3>3. QED BY <3>1, <3>2, NewestReplaced
  <2>6. MergeSeries(series, point) = Newest(SeriesCap, Points(q, f, m))
    BY <2>4, <2>5
  <2>7. Faithful(T, MergeSeries(series, point), q)
    BY ONLY <1>4, <1>7, <2>3, <2>6 DEF Faithful, Tells
  <2>8. QED BY <1>2, <2>7
<1>11. CASE BucketOf[r[n].t] # BucketOf[t]
  <2>1. PICK f : f = [k \in 1..(m + 1) |-> IF k = m + 1 THEN n + 1 ELSE e[k]] OBVIOUS
  <2>2. \A i \in 1..n : BucketOf[r[i].t] # BucketOf[t]
    <3> SUFFICES ASSUME NEW i \in 1..n, BucketOf[r[i].t] = BucketOf[t] PROVE FALSE
      OBVIOUS
    <3>1. r[i].t <= r[n].t /\ r[i].t \in 0..T /\ r[n].t \in 0..T BY <1>6
    <3>2. BucketOf[r[i].t] <= BucketOf[r[n].t] /\ BucketOf[r[n].t] <= BucketOf[t]
      BY <1>5, <3>1
    <3>3. BucketOf[r[n].t] \in Int /\ BucketOf[t] \in Int
      BY <3>1
    <3>4. QED BY <1>11, <3>2, <3>3
  <2>3. LastOf(q) = LastOf(r) \cup {n + 1}
    <3>0. n \in Nat \ {0} /\ DOMAIN r = 1..n BY <1>3
    <3>1. n + 1 \in LastOf(q) BY <3>0, <1>4 DEF LastOf
    <3>2. ASSUME NEW i \in 1..n PROVE i \in LastOf(q) <=> i \in LastOf(r)
      <4>1. ASSUME i \in LastOf(q) PROVE i \in LastOf(r)
        <5>1. \A j \in 1..n : BucketOf[r[j].t] = BucketOf[r[i].t] => j <= i
          <6>1. \A j \in 1..(n + 1) : BucketOf[q[j].t] = BucketOf[q[i].t] => j <= i
            BY <1>4, <4>1 DEF LastOf
          <6>2. \A j \in 1..n : j \in 1..(n + 1) BY <3>0
          <6>3. QED BY <1>8, <6>1, <6>2
        <5>2. QED BY <3>0, <5>1 DEF LastOf
      <4>2. ASSUME i \in LastOf(r) PROVE i \in LastOf(q)
        <5>1. \A j \in 1..n : BucketOf[r[j].t] = BucketOf[r[i].t] => j <= i
          BY <3>0, <4>2 DEF LastOf
        <5>2. \A j \in 1..(n + 1) : BucketOf[q[j].t] = BucketOf[q[i].t] => j <= i
          <6>1. \A j \in 1..(n + 1) : j = n + 1 \/ j \in 1..n BY <3>0
          <6>2. QED BY <1>8, <2>2, <5>1, <6>1
        <5>3. i \in DOMAIN q BY <3>0, <1>4
        <5>4. QED BY <1>4, <5>2, <5>3 DEF LastOf
      <4>3. QED BY <4>1, <4>2
    <3>3. LastOf(q) \subseteq 1..(n + 1) /\ LastOf(r) \subseteq 1..n
      BY <3>0, <1>4 DEF LastOf
    <3>4. \A i : i \in 1..(n + 1) <=> i \in 1..n \/ i = n + 1 BY <3>0
    <3>5. QED BY <3>1, <3>2, <3>3, <3>4
  <2>4. Enumerates(f, m + 1, LastOf(q))
    <3>0. \A k : k \in 1..(m + 1) <=> k \in 1..m \/ k = m + 1 BY <1>3
    <3>1. /\ f[m + 1] = n + 1 /\ \A k \in 1..m : f[k] = e[k]
      BY <1>3, <2>1, <3>0
    <3>2. \A k \in 1..(m + 1) : f[k] \in LastOf(q)
      BY <1>3, <2>3, <3>0, <3>1
    <3>3. \A k, l \in 1..(m + 1) : k < l => f[k] < f[l]
      <4> SUFFICES ASSUME NEW k \in 1..(m + 1), NEW l \in 1..(m + 1), k < l PROVE f[k] < f[l]
        OBVIOUS
      <4>1. k \in 1..m BY <1>3
      <4>2. f[k] = e[k] /\ e[k] \in 1..n BY <1>3, <3>1, <4>1
      <4>3. CASE l = m + 1 BY <1>3, <3>1, <4>2, <4>3
      <4>4. CASE l \in 1..m BY <1>3, <3>1, <4>1, <4>4
      <4>5. QED BY <3>0, <4>3, <4>4
    <3>4. \A i \in LastOf(q) : \E k \in 1..(m + 1) : f[k] = i
      <4> SUFFICES ASSUME NEW i \in LastOf(q) PROVE \E k \in 1..(m + 1) : f[k] = i
        OBVIOUS
      <4>1. CASE i = n + 1
        BY <3>0, <3>1, <4>1
      <4>2. CASE i \in LastOf(r)
        <5>1. PICK k \in 1..m : e[k] = i BY <1>3, <4>2
        <5>2. QED BY <3>0, <3>1, <5>1
      <4>3. QED BY <2>3, <4>1, <4>2
    <3>5. LastOf(q) \subseteq Nat /\ f \in [1..(m + 1) -> LastOf(q)]
      <4>1. LastOf(q) \subseteq 1..(n + 1) BY <1>4 DEF LastOf
      <4>2. QED BY <1>3, <2>1, <3>2, <4>1
    <3>6. m + 1 \in Nat BY <1>3
    <3>7. QED BY <3>3, <3>4, <3>5, <3>6 DEF Enumerates
  <2>5. Points(q, f, m + 1) = Append(full, point)
    <3>0. \A k : k \in 1..(m + 1) <=> k \in 1..m \/ k = m + 1 BY <1>3
    <3>1. Points(q, f, m + 1) = [k \in 1..(m + 1) |-> [q[f[k]] EXCEPT !.v = ClampPct(@)]]
      BY DEF Points
    <3>2. ASSUME NEW k \in 1..(m + 1)
          PROVE  [q[f[k]] EXCEPT !.v = ClampPct(@)] = IF k = m + 1 THEN point ELSE full[k]
      <4>1. CASE k = m + 1
        <5>1. q[f[k]] = report BY <1>4, <2>1, <4>1
        <5>2. [report EXCEPT !.v = ClampPct(@)] = point BY <1>2
        <5>3. QED BY <4>1, <5>1, <5>2
      <4>2. CASE k # m + 1
        <5>1. k \in 1..m BY <3>0, <4>2
        <5>2. q[f[k]] = r[e[k]] /\ r[e[k]] \in [t : 0..T, v : V]
          BY <1>3, <1>4, <2>1, <4>2, <5>1
        <5>3. QED BY <1>3, <4>2, <5>1, <5>2
      <4>3. QED BY <4>1, <4>2
    <3>3. Append(full, point) = [k \in 1..(m + 1) |-> IF k = m + 1 THEN point ELSE full[k]]
      <4>1. PICK F, a : F = {full[k] : k \in 1..m} \cup {point} /\ a = Append(full, point)
        OBVIOUS
      <4>2. full \in Seq(F) /\ point \in F BY <1>3, <4>1, SeqMonotonic
      <4>3. a \in Seq(F) /\ Len(a) = m + 1 /\ a[m + 1] = point /\ \A k \in 1..m : a[k] = full[k]
        BY <1>3, <4>1, <4>2, AppendProperties
      <4>4. a = [k \in 1..(m + 1) |-> a[k]] BY <4>3, LenProperties
      <4>5. QED BY <3>0, <4>1, <4>3, <4>4
    <3>4. QED BY <3>1, <3>2, <3>3
  <2>6. MergeSeries(series, point) = Newest(SeriesCap, Append(full, point))
    <3>1. MergeSeries(series, point) = Newest(SeriesCap, Append(series, point))
      BY <1>9, <1>11 DEF MergeSeries
    <3>2. QED BY <1>1, <1>2, <1>3, <3>1, NewestAppended
  <2>7. MergeSeries(series, point) = Newest(SeriesCap, Points(q, f, m + 1))
    BY <2>5, <2>6
  <2>8. Faithful(T, MergeSeries(series, point), q)
    BY ONLY <1>4, <1>7, <2>4, <2>7 DEF Faithful, Tells
  <2>9. QED BY <1>2, <2>8
<1>12. QED BY <1>2, <1>10, <1>11

\* Each row that one batch at a time wrote is what it must be.
UsageInv ==
    /\ Noted
    /\ now \in 0..load.time
    /\ DOMAIN hist.reports = DOMAIN db.usage
    /\ \A id \in DOMAIN db.usage \ hist.mixed :
          Faithful(load.time, db.usage[id], hist.reports[id])

\* A batch has the time it started at.
BatchOk(step, o) ==
    step \in {"findUsage", "writeUsage"} => o.route \in DOMAIN ROUTES /\ o.at \in 0..now

UInv == IInv /\ UsageInv /\ \A p \in Handlers : BatchOk(pc[p], op[p])

\* Nobody writes usage.
Unused ==
    /\ db'.usage = db.usage
    /\ DOMAIN hist' = DOMAIN hist /\ hist'.reports = hist.reports /\ hist'.mixed = hist.mixed
    /\ served' = served
    /\ now' = now \/ (now < load.time /\ now' = now + 1)

\* The rows stay right ...
LEMMA UnusedKeeps ==
    ASSUME IInv, UsageInv, Unused
    PROVE  UsageInv'
<1>1. load.time \in Nat /\ load' = load
  BY UsageAssumption DEF IInv, StoreInv, Unused, load
<1>2. now' \in 0..load.time
  BY <1>1 DEF UsageInv, Unused
<1>3. QED BY <1>1, <1>2 DEF UsageInv, Unused, Noted

\* ... and so does what a batch holds.
LEMMA BatchStays ==
    ASSUME NEW step, NEW o, BatchOk(step, o), now \in Int, now' = now \/ now' = now + 1
    PROVE  BatchOk(step, o)'
BY DEF BatchOk

\* A step of p keeps the invariant if it keeps the rows and what p holds is
\* right.
LEMMA BatchesKeep ==
    ASSUME UInv, IInv', UsageInv', NEW p \in Handlers, Alone(p),
           now' = now, BatchOk(pc[p], op[p])'
    PROVE  UInv'
<1>1. now \in Int
  BY DEF UInv, IInv, StoreInv
<1>2. ASSUME NEW q \in Handlers PROVE BatchOk(pc[q], op[q])'
  <2>1. CASE q = p BY <2>1
  <2>2. CASE q # p
    <3>1. PICK step, o : step = pc[q] /\ o = op[q] OBVIOUS
    <3>2. pc'[q] = step /\ op'[q] = o BY <2>2, <3>1 DEF Alone
    <3>3. BatchOk(step, o)' BY <1>1, <3>1, BatchStays DEF UInv
    <3>4. QED BY <3>2, <3>3
  <2>3. QED BY <2>1, <2>2
<1>3. QED BY <1>2 DEF UInv

\* A step that neither writes usage nor goes where it is written.
LEMMA UnusedStep ==
    ASSUME UInv, IInv', NEW p \in Handlers, Alone(p), Unused, now' = now,
           pc'[p] # "writeUsage",
           pc'[p] = "findUsage" => op'[p].route \in DOMAIN ROUTES /\ op'[p].at = now
    PROVE  UInv'
<1>1. UsageInv' BY UnusedKeeps DEF UInv
<1>2. now \in 0..now
  <2>1. now \in 0..load.time BY DEF UInv, UsageInv
  <2>2. QED BY <2>1
<1>3. BatchOk(pc[p], op[p])' BY <1>2 DEF BatchOk
<1>4. QED BY <1>1, <1>3, BatchesKeep

\* What is done with codes is none of it.
LEMMA CodesApartFromUsage ==
    ASSUME UInv, NEW p \in Handlers, CodeStep(p)
    PROVE  Unused /\ now' = now /\ pc'[p] \notin {"findUsage", "writeUsage"}
<1>0. /\ DOMAIN db = Collections /\ DOMAIN hist = DOMAIN NoHistory /\ HandlersInv
  BY DEF UInv, IInv, StoreInv, UsageInv, Noted
<1>1. PICK step, o : step \notin {"findUsage", "writeUsage"} /\ Goto(p, step, o)
  BY DEF CodeStep, IssueCode, CountSends, FindPriors, ConsumePrior, InsertCode, BumpAttempts,
         Consume, Begin, Read, Answer, Return
<1>2. pc'[p] \notin {"findUsage", "writeUsage"}
  BY <1>0, <1>1, Going
<1>3. /\ UNCHANGED <<served, now>>
      /\ db' = db \/ \E codes : db' = [db EXCEPT !.codes = codes]
  <2>1. CASE IssueCode(p) \/ CountSends(p) \/ FindPriors(p)
    BY <2>1 DEF IssueCode, CountSends, FindPriors, Begin, Read, Answer
  <2>2. CASE ConsumePrior(p) \/ InsertCode(p)
    BY <2>2 DEF ConsumePrior, InsertCode, Write
  <2>3. CASE BumpAttempts(p) \/ Consume(p)
    BY <2>3 DEF BumpAttempts, Consume, Read, Answer, Write
  <2>4. QED BY <2>1, <2>2, <2>3 DEF CodeStep
<1>4. \/ hist' = hist
      \/ \E c, g, a, l : hist' = [hist EXCEPT !.codes = c, !.guesses = g, !.accepted = a,
                                              !.overlapped = l]
      \/ \E g : hist' = [hist EXCEPT !.guesses = g]
      \/ \E a : hist' = [hist EXCEPT !.accepted = a]
  <2>1. CASE IssueCode(p) \/ CountSends(p) \/ FindPriors(p)
    BY <2>1 DEF IssueCode, CountSends, FindPriors, Begin, Read, Answer
  <2>2. CASE ConsumePrior(p)
    BY <2>2 DEF ConsumePrior, Write
  <2>3. CASE InsertCode(p)
    BY <2>3 DEF InsertCode, Write
  <2>4. CASE BumpAttempts(p) \/ Consume(p)
    BY <2>4 DEF BumpAttempts, Consume, Read, Answer, Write
  <2>5. QED BY <2>1, <2>2, <2>3, <2>4 DEF CodeStep
<1>5. db'.usage = db.usage
  BY <1>0, <1>3 DEF Collections
<1>6. DOMAIN hist' = DOMAIN hist /\ hist'.reports = hist.reports /\ hist'.mixed = hist.mixed
  BY <1>0, <1>4 DEF NoHistory
<1>7. QED BY <1>2, <1>3, <1>5, <1>6 DEF Unused

\* A row is found, or that there is none.
LEMMA FindUsageKeeps ==
    ASSUME UInv, IInv', NEW p \in Handlers, Alone(p), FindUsage(p)
    PROVE  UInv'
<1>1. PICK was, id, o :
        /\ was = op[p] /\ id = <<was.user, Head(was.body.accounts).account>>
        /\ o = [was EXCEPT !.found = [series |-> IF id \in DOMAIN db.usage THEN db.usage[id]
                                                 ELSE <<>>],
                            !.body.accounts = Capped(@)]
  OBVIOUS
<1>2. pc[p] = "findUsage" /\ Read(p, "writeUsage", o)
  BY <1>1 DEF FindUsage, UsageId
<1>3. pc'[p] = "writeUsage" /\ op'[p] = o /\ UNCHANGED <<served, db, hist, now>>
  BY <1>2, Going DEF UInv, IInv, Read
<1>4. was.route \in DOMAIN ROUTES /\ was.at \in 0..now /\ HasFields(was)
  BY <1>1, <1>2 DEF UInv, BatchOk, IInv, HandlersInv, LocalOk
<1>5. {"route", "user", "found", "at", "body"} \subseteq DOMAIN was
  BY <1>4 DEF HasFields, IsRequest
<1>6. o.route = was.route /\ o.at = was.at
  BY <1>1, <1>5
<1>7. BatchOk("writeUsage", o)'
  BY <1>1, <1>3, <1>4, <1>6 DEF BatchOk
<1>8. Unused BY <1>3 DEF Unused
<1>9. UsageInv' BY <1>8, UnusedKeeps DEF UInv
<1>10. QED BY <1>3, <1>7, <1>9, BatchesKeep

\* A report is merged into the series that was found.
LEMMA WriteUsageKeeps ==
    ASSUME UInv, IInv', NEW p \in Handlers, Alone(p), WriteUsage(p), ~Answer(p)
    PROVE  UInv'
<1>1. PICK was, id, report, point, rest, noted, series, reports, mixed :
        /\ was = op[p] /\ id = <<was.user, Head(was.body.accounts).account>>
        /\ report = [t |-> was.at, v |-> Head(was.body.accounts).value]
        /\ point = [t |-> was.at, v |-> ClampPct(Head(was.body.accounts).value)]
        /\ rest = Tail(was.body.accounts)
        /\ noted = IF id \in DOMAIN hist.reports THEN hist.reports[id] ELSE <<>>
        /\ series = MergeSeries(was.found.series, point)
        /\ reports = Append(noted, report)
        /\ mixed = IF Overtaken(p) THEN hist.mixed \cup {id} ELSE hist.mixed
  OBVIOUS
<1>2. /\ pc[p] = "writeUsage" /\ ~(was.found.series = <<>> /\ id \in DOMAIN db.usage)
      /\ IF was.found.series # <<>> /\ id \notin DOMAIN db.usage THEN Write(db, hist)
         ELSE Write([db EXCEPT !.usage = Put(@, id, series)],
                    [hist EXCEPT !.reports = Put(@, id, reports), !.mixed = mixed])
      /\ \/ Goto(p, "idle", Idle)
         \/ Goto(p, "findUsage", [was EXCEPT !.body.accounts = rest, !.found = Nothing])
  BY <1>1 DEF WriteUsage, UsageId, Return
<1>3. /\ DOMAIN db = Collections /\ DOMAIN hist = DOMAIN NoHistory /\ HandlersInv
      /\ load.time \in Nat /\ served \in DOMAIN Loads
  BY UsageAssumption DEF UInv, IInv, StoreInv, UsageInv, Noted, load
<1>4. now' = now /\ load' = load
  BY <1>2 DEF Write, load
<1>5. was.route \in DOMAIN ROUTES /\ was.at \in 0..now /\ HasFields(was)
  BY <1>1, <1>2 DEF UInv, BatchOk, IInv, HandlersInv, LocalOk
<1>6. BatchOk(pc[p], op[p])'
  <2>1. {"route", "at", "body", "found"} \subseteq DOMAIN was
    BY <1>5 DEF HasFields, IsRequest
  <2>2. PICK o : o = [was EXCEPT !.body.accounts = rest, !.found = Nothing] OBVIOUS
  <2>3. o.route = was.route /\ o.at = was.at
    BY <2>1, <2>2
  <2>4. pc'[p] = "idle" \/ (pc'[p] = "findUsage" /\ op'[p] = o)
    BY <1>2, <1>3, <2>2, Going
  <2>5. QED BY <1>4, <1>5, <2>3, <2>4 DEF BatchOk
\* the row that was found has expired
<1>7. CASE was.found.series # <<>> /\ id \notin DOMAIN db.usage
  <2>1. UNCHANGED <<db, hist, served, now>> BY <1>2, <1>7 DEF Write
  <2>2. Unused BY <2>1 DEF Unused
  <2>3. UsageInv' BY <2>2, UnusedKeeps DEF UInv
  <2>4. QED BY <1>4, <1>6, <2>3, BatchesKeep
<1>8. CASE id \notin DOMAIN db.usage <=> was.found.series = <<>>
  <2>1. /\ db'.usage = Put(db.usage, id, series)
        /\ DOMAIN hist' = DOMAIN hist /\ hist'.reports = Put(hist.reports, id, reports)
        /\ hist'.mixed = mixed
    BY <1>2, <1>3, <1>8 DEF Write, Collections, NoHistory
  <2>2. /\ now \in 0..load.time /\ DOMAIN hist.reports = DOMAIN db.usage
        /\ \A i \in DOMAIN db.usage \ hist.mixed :
              Faithful(load.time, db.usage[i], hist.reports[i])
    BY DEF UInv, UsageInv
  <2>3. /\ DOMAIN db'.usage = DOMAIN db.usage \cup {id}
        /\ DOMAIN hist'.reports = DOMAIN db.usage \cup {id}
        /\ db'.usage[id] = series /\ hist'.reports[id] = reports
        /\ \A i \in DOMAIN db.usage \ {id} : /\ db'.usage[i] = db.usage[i]
                                             /\ hist'.reports[i] = hist.reports[i]
    BY <2>1, <2>2 DEF Put
  <2>4. was.at \in 0..load.time
    BY <1>3, <1>5, <2>2
  <2>5. ASSUME id \notin mixed PROVE Faithful(load.time, series, reports)
    <3>1. CASE id \notin DOMAIN db.usage
      <4>1. was.found.series = <<>> /\ noted = <<>> BY <1>1, <2>2, <3>1, <1>8
      <4>2. reports = <<report>>
        <5>1. reports = Append(<<>>, report) BY <1>1, <4>1
        <5>2. Append(<<>>, report) = <<report>> OBVIOUS
        <5>3. QED BY <5>1, <5>2
      <4>3. QED BY <1>1, <1>3, <2>4, <4>1, <4>2, FirstReport
    <3>2. CASE id \in DOMAIN db.usage
      <4>1. id \notin hist.mixed /\ ~Overtaken(p) BY <1>1, <2>5
      <4>2. UsageId(p) = id BY <1>1 DEF UsageId
      <4>3. PICK s : s = db.usage[id] OBVIOUS
      <4>4. was.found.series = s /\ ~(s[Len(s)].t > was.at)
        BY <1>1, <3>2, <4>1, <4>2, <4>3 DEF Overtaken
      <4>5. Faithful(load.time, s, noted)
        BY <1>1, <2>2, <3>2, <4>1, <4>3
      <4>6. s[Len(s)].t \in Int
        BY <1>3, <4>5, LastPoint
      <4>7. s[Len(s)].t <= was.at
        BY <2>4, <4>4, <4>6
      <4>8. /\ \A i, j \in 0..load.time : i <= j => BucketOf[i] <= BucketOf[j]
            /\ \A i \in 0..load.time : BucketOf[i] \in Int
        BY <1>3, UsageAssumption DEF load
      <4>9. PICK T, t, v : T = load.time /\ t = was.at /\ v = Head(was.body.accounts).value
        OBVIOUS
      <4>10. Faithful(T, MergeSeries(s, [t |-> t, v |-> ClampPct(v)]), Append(noted, [t |-> t, v |-> v]))
        BY ONLY <1>3, <2>4, <4>5, <4>7, <4>8, <4>9, NextReport
      <4>11. QED BY <1>1, <4>4, <4>9, <4>10
    <3>3. QED BY <3>1, <3>2
  <2>6. UsageInv'
    <3>1. ASSUME NEW i \in DOMAIN db'.usage \ hist'.mixed
          PROVE  Faithful(load.time, db'.usage[i], hist'.reports[i])
      <4>1. CASE i = id BY <2>1, <2>3, <2>5, <3>1, <4>1
      <4>2. CASE i # id
        <5>1. i \in DOMAIN db.usage \ hist.mixed BY <1>1, <2>1, <2>3, <3>1, <4>2
        <5>2. QED BY <2>2, <2>3, <4>2, <5>1
      <4>3. QED BY <4>1, <4>2
    <3>2. QED BY <1>3, <1>4, <2>1, <2>2, <2>3, <3>1 DEF UsageInv, Noted
  <2>7. QED BY <1>4, <1>6, <2>6, BatchesKeep
<1>9. QED BY <1>2, <1>7, <1>8

\* Every step of a handler keeps the rows right.
LEMMA UsageStep ==
    ASSUME UInv, IInv', NEW p \in Handlers, Alone(p), HandlerStep(p)
    PROVE  UInv'
<1>1. ASSUME Apart(p) PROVE UInv'
  <2>1. Unused /\ now' = now BY <1>1 DEF Apart, Unused, Untold, Tallies
  <2>2. QED BY <1>1, <2>1, UnusedStep DEF Apart
<1>2. CASE ~CodeStep(p) /\ ~FindUsage(p) /\ ~WriteUsage(p)
  BY <1>1, <1>2, Aside DEF UInv, UsageInv
<1>3. CASE Answer(p)
  BY <1>1, <1>3, AnsweringApart DEF UInv
<1>4. CASE CodeStep(p)
  BY <1>4, CodesApartFromUsage, UnusedStep
<1>5. QED BY <1>2, <1>3, <1>4, FindUsageKeeps, WriteUsageKeeps

\* So does everything else.
LEMMA UsageElsewhere ==
    ASSUME UInv, IInv', Elsewhere
    PROVE  UInv'
<1>0. /\ DOMAIN db = Collections /\ now \in Int /\ DOMAIN hist = DOMAIN NoHistory
  BY DEF UInv, IInv, StoreInv, UsageInv, Noted
<1>1. CASE ExpireUsage
  <2>1. PICK id \in DOMAIN db.usage :
          /\ db' = [db EXCEPT !.usage = [i \in DOMAIN @ \ {id} |-> @[i]]]
          /\ hist' = [hist EXCEPT !.reports = [i \in DOMAIN @ \ {id} |-> @[i]],
                                  !.mixed = @ \ {id}]
    BY <1>1 DEF ExpireUsage
  <2>2. UNCHANGED <<served, now, pc, op>> BY <1>1 DEF ExpireUsage
  <2>3. /\ db'.usage = [i \in DOMAIN db.usage \ {id} |-> db.usage[i]]
        /\ hist'.reports = [i \in DOMAIN hist.reports \ {id} |-> hist.reports[i]]
        /\ hist'.mixed = hist.mixed \ {id} /\ DOMAIN hist' = DOMAIN hist
    BY <1>0, <2>1 DEF Collections, NoHistory
  <2>4. load' = load BY <2>2 DEF load
  <2>5. UsageInv'
    <3>1. /\ Noted /\ now \in 0..load.time /\ DOMAIN hist.reports = DOMAIN db.usage
          /\ \A i \in DOMAIN db.usage \ hist.mixed :
                Faithful(load.time, db.usage[i], hist.reports[i])
      BY DEF UInv, UsageInv
    <3>2. Noted' BY <2>3, <3>1 DEF Noted
    <3>3. DOMAIN hist'.reports = DOMAIN db'.usage BY <2>3, <3>1
    <3>4. ASSUME NEW i \in DOMAIN db'.usage \ hist'.mixed
          PROVE  Faithful(load.time, db'.usage[i], hist'.reports[i])
      <4>1. i \in DOMAIN db.usage \ hist.mixed /\ i # id BY <2>3
      <4>2. db'.usage[i] = db.usage[i] /\ hist'.reports[i] = hist.reports[i]
        BY <2>3, <3>1, <4>1
      <4>3. QED BY <3>1, <4>1, <4>2
    <3>5. QED BY <2>2, <2>4, <3>1, <3>2, <3>3, <3>4 DEF UsageInv
  <2>6. ASSUME NEW q \in Handlers PROVE BatchOk(pc[q], op[q])'
    BY <2>2 DEF UInv, BatchOk
  <2>7. QED BY <2>5, <2>6 DEF UInv
<1>2. CASE ~ExpireUsage
  <2>1. /\ hist' = hist \/ hist' = [hist EXCEPT !.bootFailed = TRUE]
        /\ now' = now \/ (now < load.time /\ now' = now + 1)
        /\ UNCHANGED <<pc, op, served>>
    BY <1>2 DEF Elsewhere, StartUp, BuildContext, IndexEmails, IndexExpiry, FailIndex, Restart,
       Start, ExpireCode, Elapse, vars
  <2>2. \/ db' = db
        \/ \E indexes : db' = [db EXCEPT !.indexes = indexes]
        \/ \E codes : db' = [db EXCEPT !.codes = codes]
    BY <1>2 DEF Elsewhere, StartUp, BuildContext, IndexEmails, IndexExpiry, FailIndex, Restart,
       Start, ExpireCode, Elapse, vars
  <2>3. db'.usage = db.usage
    BY <1>0, <2>2 DEF Collections
  <2>4. DOMAIN hist' = DOMAIN hist /\ hist'.reports = hist.reports /\ hist'.mixed = hist.mixed
    BY <1>0, <2>1 DEF NoHistory
  <2>5. Unused BY <2>1, <2>3, <2>4 DEF Unused
  <2>6. UsageInv' BY <2>5, UnusedKeeps DEF UInv
  <2>7. ASSUME NEW q \in Handlers PROVE BatchOk(pc[q], op[q])'
    <3>1. PICK step, o : step = pc[q] /\ o = op[q] OBVIOUS
    <3>2. BatchOk(step, o)' BY <1>0, <2>1, <3>1, BatchStays DEF UInv
    <3>3. QED BY <2>1, <3>1, <3>2
  <2>8. QED BY <2>6, <2>7 DEF UInv
<1>3. QED BY <1>1, <1>2

\* Nothing is reported at first.
LEMMA UsageAtFirst == Init => UInv
<1> SUFFICES ASSUME Init PROVE UInv OBVIOUS
<1>1. IInv BY InitOk
<1>2. /\ hist = NoHistory /\ now = 0 /\ load.time \in Nat
      /\ DOMAIN db.usage = {} /\ \A p \in Handlers : pc[p] = "idle"
  BY <1>1, UsageAssumption DEF Init, load, IInv, StoreInv
<1>3. DOMAIN hist.reports = {}
  BY <1>2 DEF NoHistory
<1>4. UsageInv
  BY <1>2, <1>3 DEF UsageInv, Noted
<1>5. QED BY <1>1, <1>2, <1>4 DEF UInv, BatchOk

\* The invariant of the usage.
LEMMA UsageInvariance == Spec => []UInv
<1>1. UInv /\ [Next]_vars => UInv'
  <2> SUFFICES ASSUME UInv, [Next]_vars PROVE UInv' OBVIOUS
  <2>1. IInv' BY StepOk DEF UInv
  <2>2. ASSUME NEW p \in Handlers, HandlerStep(p) PROVE UInv'
    BY <2>1, <2>2, HandlerStepSafe, UsageStep DEF UInv
  <2>3. QED BY <2>1, <2>2, Steps, UsageElsewhere
<1>2. QED BY <1>1, UsageAtFirst, PTL DEF Spec

\* mergeSeries and the reports of usage (lib/usagestore.js): a series is the
\* last report of each of the last buckets, up to the cap, whatever the
\* buckets are and however many reports came since its row was inserted,
\* unless two batches overlapped.
THEOREM UsageIsFaithful == Spec => []SeriesIsFaithful
<1>1. UInv => SeriesIsFaithful
  <2> SUFFICES ASSUME UInv, NEW id \in DOMAIN db.usage \ hist.mixed
               PROVE  db.usage[id] = Newest(SeriesCap, LastOfEach(hist.reports[id]))
    BY DEF SeriesIsFaithful
  <2>1. PICK e, m : /\ Enumerates(e, m, LastOf(hist.reports[id]))
                    /\ db.usage[id] = Newest(SeriesCap, Points(hist.reports[id], e, m))
    BY DEF UInv, UsageInv, Faithful, Tells
  <2>2. QED BY <2>1, LastOfEachIs
<1>2. QED BY <1>1, UsageInvariance, PTL
=============================================================================
