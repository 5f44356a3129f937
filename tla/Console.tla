------------------------------ MODULE Console ------------------------------
(***************************************************************************)
(* One tab of the web console (public/admin.js) and as much of the back    *)
(* end as answers it.                                                      *)
(*                                                                         *)
(* The page runs to its next awaited fetch in one step.  A fetch is a call *)
(* that the server answers in a step of its own and whose answer arrives   *)
(* later, so that answers overtake each other.  The page is one record,    *)
(* and what its code does are operators from page to page.  A behaviour    *)
(* serves one load: a store, what the user may click, and what may go      *)
(* wrong.                                                                  *)
(***************************************************************************)
EXTENDS Reports

CONSTANTS
    Loads,       \* the loads: a function to [store, clicks, most, time, ...]
    AccessLife,  \* how long an access token lives
    RefreshGrace \* how long a rotated token is answered with 409

VARIABLES
    served,      \* which load this behaviour serves
    db,          \* the store, with a count of its changes
    families,    \* the sessions: for each sign-in its family
    now,
    spent,       \* clicks and changes by others, at most load.most
    page

vars == <<served, db, families, now, spent, page>>

load == Loads[served]

----------------------------------------------------------------------------
(* The page.                                                               *)

NoToken == [login |-> 0, n |-> 0, exp |-> 0]
Pending == [status |-> "pending"]
NotAsked == [task |-> 0, days |-> Null, version |-> 0]
NothingShown == [rows |-> Null, days |-> Null, version |-> 0]

\* The requests of each view, stage after stage; those of one stage are sent
\* together.
Stages ==
    [overview |-> <<{"devices", "storage", "timeline"}>>,
     users |-> <<{"users"}>>, usage |-> <<{"usage"}>>, timeline |-> <<{"timeline"}>>,
     devices |-> <<{"devices"}>>, alerts |-> <<{"alerts"}>>, transfers |-> <<{"transfers"}>>,
     ipgeo |-> <<{"devices"}, {"ipRules"}>>, tracer |-> <<{"trace"}>>,
     integrity |-> <<{"auditVerify"}, {"permVerify"}>>,
     decide |-> <<{"decide"}>>]

Views == DOMAIN Stages \ {"decide"}
Panes == Views \cup {"ipRules"}
Windowed == {"usage", "timeline", "alerts", "transfers"}   \* views with a window of their own

\* What a script holds that has just been loaded.
Fresh ==
    [screen |-> "login", view |-> "overview", calls |-> <<>>,
     days |-> [v \in Windowed |-> Null],
     shown |-> [v \in Panes |-> NothingShown],
     asked |-> [v \in Views |-> NotAsked],   \* from here on history: the newest load,
     overlapped |-> [v \in Views |-> FALSE], \* and whether it met another of its view
     decided |-> 0]                          \* the version of the last decision

\* What outlives a reload: sessionStorage.  The scripts loaded (tab) and the
\* loads begun are numbered.
Storage ==
    [access |-> NoToken, refresh |-> NoToken, email |-> Null,
     tab |-> 0, begun |-> 0,
     raced |-> FALSE,      \* history: two refreshes were under way at once,
     lost |-> FALSE,       \* an answer to a refresh never came,
     crossed |-> FALSE,    \* a call reached over the end of its session,
     givenUp |-> {}]       \* the sign-ins the console gave up by itself

\* The script knows the calls it sent itself.
InFlight(pg) ==
    {c \in DOMAIN pg.calls : pg.calls[c].tab = pg.tab /\ pg.calls[c].step \notin {"done", "failed"}}
AtStep(pg, steps) == {c \in InFlight(pg) : pg.calls[c].step \in steps}

\* Mutant: the rotated refresh token is not kept.
StoreAccessOnly(pg, answer) ==
    [pg EXCEPT !.access = answer.access,
               !.refresh = IF answer.refresh.n = 1 THEN answer.refresh ELSE @]

StoreTokens(pg, answer) == [pg EXCEPT !.access = answer.access, !.refresh = answer.refresh]

\* Mutant: the access token stays.
ClearRefreshOnly(pg) == [pg EXCEPT !.refresh = NoToken, !.email = Null]

ClearSession(pg) == [pg EXCEPT !.access = NoToken, !.refresh = NoToken, !.email = Null]

\* clearSession and showLogin, of which c is the cause.
EndSession(pg, c) ==
    [ClearSession(pg) EXCEPT !.screen = "login",
                             !.crossed = @ \/ AtStep(pg, {"refresh"}) \ {c} # {}]

\* The console ends it on its own account.
SessionExpired(pg, c) ==
    [EndSession(pg, c) EXCEPT !.givenUp = @ \cup ({pg.refresh.login} \ {0})]

----------------------------------------------------------------------------
(* Loading a view. *)

\* A request goes out with the access token of the moment.
SendStage(pg, task, view, stage, body) ==
    LET sent == {<<task, path>> : path \in Stages[view][stage]}
        call == [view |-> view, stage |-> stage, body |-> body, step |-> "first",
                 tab |-> pg.tab, token |-> pg.access, answer |-> Pending]
    IN  [pg EXCEPT !.calls = [c \in DOMAIN @ \cup sent |-> IF c \in sent THEN call ELSE @[c]]]

LoadView(pg, view, body) ==
    LET task == pg.begun + 1
        meets == \E c \in InFlight(pg) : pg.calls[c].view = view
    IN  SendStage([pg EXCEPT !.begun = task,
                             !.asked[view] = [task |-> task, days |-> body, version |-> db.version],
                             !.overlapped[view] = meets],
                  task, view, 1, body)

WindowOf(pg, view) == IF view \in Windowed THEN pg.days[view] ELSE Null

\* A tracer waits for its watermark.
ShowView(pg, view) ==
    LET turned == [pg EXCEPT !.view = view]
    IN  IF view = "tracer" THEN turned ELSE LoadView(turned, view, WindowOf(pg, view))

\* A version as old as the oldest of the answers.
Oldest(got) ==
    CHOOSE v \in {got[path].version : path \in DOMAIN got} :
        \A path \in DOMAIN got : v <= got[path].version

Put(pg, pane, rows, days, version) ==
    [pg EXCEPT !.shown[pane] = [rows |-> rows, days |-> days, version |-> version]]

\* What the loaders make of the answers, by path.
LoadOverview(got) ==
    OverviewModel(got["devices"].body.devices, got["storage"].body, got["timeline"].body, now)
LoadUsers(got) == UserRows(got["users"].body.users)
LoadUsage(got) == UsageOverviewRows(got["usage"].body.rows)
LoadTimeline(got) == TimelineRows(got["timeline"].body.events)
LoadDevices(got) == DeviceRows(got["devices"].body.devices)
LoadAlerts(got) == AlertRows(got["alerts"].body.alerts)
LoadTransfers(got) == TransferRows(got["transfers"].body.transfers)
LoadTrace(got) == TraceModel(got["trace"].body)

RowsFor(view, got) ==
    CASE view = "overview" -> LoadOverview(got)
      [] view = "users" -> LoadUsers(got)
      [] view = "usage" -> LoadUsage(got)
      [] view = "timeline" -> LoadTimeline(got)
      [] view = "devices" -> LoadDevices(got)
      [] view = "alerts" -> LoadAlerts(got)
      [] view = "transfers" -> LoadTransfers(got)
      [] view = "tracer" -> LoadTrace(got)

HasFailed(got) == \E path \in DOMAIN got : got[path].status # "200"

RequestFailed == [ok |-> FALSE, reason |-> "request failed"]

\* Both verdicts at the end, be they answers or not.
LoadIntegrity(pg, stage, got, body) ==
    LET Verdict(path) == IF got[path].status = "200" THEN got[path].body ELSE RequestFailed
    IN  IF stage = 1 THEN pg
        ELSE Put(pg, "integrity", VerifyModel(Verdict("auditVerify"), Verdict("permVerify")),
                 body, IF HasFailed(got) THEN db.version ELSE Oldest(got))

\* The devices, and then the rules whatever came of the devices.
LoadIpGeo(pg, stage, got, body) ==
    LET answer == got[IF stage = 1 THEN "devices" ELSE "ipRules"]
    IN  IF answer.status # "200" THEN pg
        ELSE IF stage = 1
        THEN Put(pg, "ipgeo", IpGeoRows(answer.body.devices), body, answer.version)
        ELSE Put(pg, "ipRules", answer.body, body, answer.version)

\* A stage is complete: show what came, unless the view needs all of it.
Render(pg, view, stage, got, body) ==
    CASE view = "integrity" -> LoadIntegrity(pg, stage, got, body)
      [] view = "ipgeo" -> LoadIpGeo(pg, stage, got, body)
      [] OTHER -> IF HasFailed(got) THEN pg ELSE Put(pg, view, RowsFor(view, got), body, Oldest(got))

Forget(pg, task) ==
    [pg EXCEPT !.calls = [c \in {c \in DOMAIN @ : c[1] # task} |-> @[c]]]

\* Mutant: a decision leaves the list as it is.
ListStays(pg) == pg

\* The list is loaded again, whatever view is open, and nobody waits for it.
Reload(pg) == LoadView(pg, "users", Null)

AfterDecision(pg, answer) ==
    IF answer.status = "200" THEN Reload([pg EXCEPT !.decided = answer.version]) ELSE pg

\* A call has come to its end: with the last one of a stage the view goes on.
Settle(pg, c, answer) ==
    LET call == pg.calls[c]
        task == c[1]
        step == IF answer.status = "200" THEN "done" ELSE "failed"
        settled == [pg EXCEPT !.calls[c] = [call EXCEPT !.step = step, !.answer = answer]]
        mine == {d \in DOMAIN settled.calls : d[1] = task}
        got == [path \in {d[2] : d \in mine} |-> settled.calls[<<task, path>>].answer]
        complete == mine \cap InFlight(settled) = {}
        noted == IF step = "failed" /\ call.view # "decide" /\ pg.asked[call.view].task = task
                 THEN [settled EXCEPT !.asked[call.view] = NotAsked] ELSE settled
    IN  IF call.view = "decide" THEN AfterDecision(Forget(settled, task), answer)
        ELSE IF ~complete THEN noted
        ELSE LET rendered == Render(noted, call.view, call.stage, got, call.body)
             IN  IF call.stage < Len(Stages[call.view])
                 THEN SendStage(rendered, task, call.view, call.stage + 1, call.body)
                 ELSE Forget(rendered, task)

----------------------------------------------------------------------------
(* api(): one refresh on a 401, one retry.                                 *)

Again(pg, c, step, token) ==
    [pg EXCEPT !.calls[c] = [@ EXCEPT !.step = step, !.token = token, !.answer = Pending]]

Failed == [status |-> "failed"]

DoTokenRefresh(pg, c) ==
    IF pg.refresh = NoToken THEN Settle(SessionExpired(pg, c), c, Failed)
    ELSE [Again(pg, c, "refresh", pg.refresh) EXCEPT !.raced = @ \/ AtStep(pg, {"refresh"}) # {}]

FirstAnswer(pg, c, answer) ==
    IF answer.status = "401" THEN DoTokenRefresh(pg, c) ELSE Settle(pg, c, answer)

\* Whatever the refresh fails with: 401, 409, or no answer.
RefreshAnswer(pg, c, answer) ==
    IF answer.status # "200" THEN Settle(SessionExpired(pg, c), c, Failed)
    ELSE LET stored == StoreTokens(pg, answer) IN Again(stored, c, "second", stored.access)

SecondAnswer(pg, c, answer) ==
    Settle(IF answer.status = "401" THEN SessionExpired(pg, c) ELSE pg, c, answer)

\* handleLoginSubmit after its request.
LoginAnswer(pg, c, answer) ==
    LET forgotten == Forget(pg, c[1])
        stored == [StoreTokens(forgotten, answer) EXCEPT !.email = answer.email, !.screen = "app",
                       !.crossed = @ \/ AtStep(pg, {"refresh", "second", "logout"}) # {}]
    IN  IF answer.status # "200" THEN forgotten ELSE ShowView(stored, "overview")

\* doSignOut after its request, whatever came of it.
LogoutAnswer(pg, c) == Forget(EndSession(pg, c), c[1])

Arrive(c) ==
    LET call == page.calls[c]
    IN  /\ c \in InFlight(page)
        /\ call.answer # Pending
        /\ page' = CASE call.step = "first" -> FirstAnswer(page, c, call.answer)
                     [] call.step = "refresh" -> RefreshAnswer(page, c, call.answer)
                     [] call.step = "second" -> SecondAnswer(page, c, call.answer)
                     [] call.step = "login" -> LoginAnswer(page, c, call.answer)
                     [] call.step = "logout" -> LogoutAnswer(page, c)
        /\ UNCHANGED <<served, db, families, now, spent>>

----------------------------------------------------------------------------
(* What the user clicks. *)

Click(kind) ==
    /\ kind \in load.clicks
    /\ spent < load.most
    /\ spent' = spent + 1
    /\ UNCHANGED <<served, db, families, now>>

\* The navigation, and the refresh button of a view.
OpenView(view) ==
    /\ page.screen = "app"
    /\ page' = ShowView(page, view)
    /\ Click(<<"view", view>>)

\* A window is chosen; the next load of the view reads it.
ChooseDays(view, days) ==
    /\ page.screen = "app" /\ page.view = view
    /\ page' = [page EXCEPT !.days[view] = days]
    /\ Click(<<"days", view, days>>)

DoTrace(mark) ==
    /\ page.screen = "app" /\ page.view = "tracer"
    /\ page' = LoadView(page, "tracer", mark)
    /\ Click(<<"trace", mark>>)

\* The buttons of a row of the list as it is shown.
HasButton(user, decision) ==
    LET rows == page.shown["users"].rows
    IN  /\ rows # Null
        /\ \E i \in DOMAIN rows :
              /\ rows[i].user = user
              /\ rows[i].pendingApproval \/ (decision = "active" /\ rows[i].rejected)

\* doApproveUser, doRejectUser.
Decide(user, decision) ==
    /\ page.screen = "app" /\ page.view = "users"
    /\ HasButton(user, decision)
    /\ page' = SendStage([page EXCEPT !.begun = @ + 1], page.begun + 1, "decide", 1,
                         [user |-> user, decision |-> decision])
    /\ Click(<<"decide", user, decision>>)

\* A request without a bearer: sign-in and sign-out.
SendBare(pg, what, token, body) ==
    LET sent == <<pg.begun + 1, what>>
        call == [view |-> what, stage |-> 1, body |-> body, step |-> what, tab |-> pg.tab,
                 token |-> token, answer |-> Pending]
    IN  [pg EXCEPT !.begun = @ + 1,
                   !.calls = [c \in DOMAIN @ \cup {sent} |-> IF c = sent THEN call ELSE @[c]]]

HandleLoginSubmit(user) ==
    /\ page.screen = "login"
    /\ page' = SendBare(page, "login", NoToken, user)
    /\ Click(<<"signin", user>>)

DoSignOut ==
    /\ page.screen = "app"
    /\ page' = IF page.refresh = NoToken THEN EndSession(page, <<0, "logout">>)
               ELSE SendBare(page, "logout", page.refresh, Null)
    /\ Click(<<"signout">>)

\* The script starts over with what sessionStorage holds.  Requests that
\* have not been answered are still served, but nobody waits for them.
Boot ==
    LET loaded == [f \in DOMAIN page |-> IF f \in DOMAIN Storage THEN page[f] ELSE Fresh[f]]
        unheard == {c \in DOMAIN page.calls : page.calls[c].answer = Pending}
        booted == [loaded EXCEPT !.tab = @ + 1,
                                 !.calls = [c \in unheard |-> page.calls[c]],
                                 !.lost = @ \/ AtStep(page, {"refresh"}) # {}]
    IN  /\ page' = IF page.access = NoToken THEN booted
                   ELSE ShowView([booted EXCEPT !.screen = "app"], "overview")
        /\ Click(<<"reload">>)

----------------------------------------------------------------------------
(* The back end: a request is served in one step.                          *)

Ok(body) == [status |-> "200", body |-> body, version |-> db.version]
Refused(status) == [status |-> status]

\* The report behind a path.
Report(view, path, body) ==
    CASE path = "devices" -> Ok(DeviceInventory(db))
      [] path = "storage" -> Ok(StoragePercent(db))
      [] path = "timeline" -> Ok(ActivityTimeline(db, now, IF view = "timeline" THEN load.user ELSE Null, body))
      [] path = "users" -> Ok(UsersDirectory(db, now))
      [] path = "usage" -> Ok(UsageOverview(db, now, body))
      [] path = "alerts" -> Ok(AlertsFeed(db, now, body))
      [] path = "transfers" -> Ok(TransferFlows(db, now, body))
      [] path = "ipRules" -> Ok(db.rules)
      [] path = "auditVerify" -> Ok(db.audit)
      [] path = "permVerify" -> Ok(db.permissions)
      [] path = "trace" -> LET found == Trace(db, body)
                           IN  IF found = Null THEN Refused("404") ELSE Ok(found)

ActiveAdmin(user) == db.users[user].role = "admin" /\ db.users[user].status = "active"

SetStatus(user, status) ==
    [db EXCEPT !.users[user].status = status, !.users[user].emailVerified = @ \/ status = "active",
               !.version = @ + 1]

\* The tab that sent a call hears of it, if it is still there.
Deliver(c, answer) ==
    page' = IF page.calls[c].tab = page.tab THEN [page EXCEPT !.calls[c].answer = answer]
            ELSE [page EXCEPT !.calls = [d \in DOMAIN @ \ {c} |-> @[d]]]

IsPending(c, steps) == page.calls[c].answer = Pending /\ page.calls[c].step \in steps

\* The routes with a bearer.
ServeAuthorized(c) ==
    LET call == page.calls[c]
        user == families[call.token.login].user
        body == call.body
    IN  /\ IsPending(c, {"first", "second"})
        /\ \/ /\ call.token = NoToken \/ call.token.exp <= now
              /\ Deliver(c, Refused("401"))
              /\ UNCHANGED db
           \/ /\ call.token # NoToken /\ call.token.exp > now
              /\ ~ActiveAdmin(user)
              /\ Deliver(c, Refused("403"))
              /\ UNCHANGED db
           \/ /\ call.token # NoToken /\ call.token.exp > now
              /\ ActiveAdmin(user)
              /\ IF c[2] = "decide"
                 THEN /\ db' = SetStatus(body.user, body.decision)
                      /\ Deliver(c, [Ok(Null) EXCEPT !.version = db'.version])
                 ELSE /\ Deliver(c, Report(call.view, c[2], body))
                      /\ UNCHANGED db
        /\ UNCHANGED <<served, families, now, spent>>

Granted(login, n, email) ==
    [status |-> "200", access |-> [login |-> login, n |-> n, exp |-> now + AccessLife],
     refresh |-> [login |-> login, n |-> n, exp |-> 0], email |-> email]

Revoke(login, reason) == families' = [families EXCEPT ![login].end = reason]

\* A refresh (lib/auth.js), as far as a tab can bring it about: tokens do not
\* grow too old, and the device is always the same.
ServeRefresh(c) ==
    LET token == page.calls[c].token
        family == families[token.login]
        user == db.users[family.user]
    IN  /\ IsPending(c, {"refresh"})
        /\ \/ /\ family.end # "live"
              /\ Deliver(c, Refused("401"))
              /\ UNCHANGED families
           \/ /\ family.end = "live" /\ token.n = family.current - 1
              /\ now - family.rotatedAt <= RefreshGrace
              /\ Deliver(c, Refused("409"))
              /\ UNCHANGED families
           \/ /\ family.end = "live" /\ token.n < family.current
              /\ token.n = family.current - 1 => now - family.rotatedAt > RefreshGrace
              /\ Deliver(c, Refused("401"))
              /\ Revoke(token.login, "reuse")
           \/ /\ family.end = "live" /\ token.n = family.current
              /\ user.status # "active"
              /\ Deliver(c, Refused("401"))
              /\ Revoke(token.login, "inactive")
           \/ /\ family.end = "live" /\ token.n = family.current
              /\ user.status = "active"
              /\ Deliver(c, Granted(token.login, token.n + 1, user.email))
              /\ families' = [families EXCEPT ![token.login].current = @ + 1,
                                             ![token.login].rotatedAt = now]
        /\ UNCHANGED <<served, db, now, spent>>

\* webLogin with the right password.
ServeLogin(c) ==
    LET user == page.calls[c].body
    IN  /\ IsPending(c, {"login"})
        /\ IF ActiveAdmin(user)
           THEN /\ families' = Append(families, [user |-> user, current |-> 1, rotatedAt |-> 0,
                                                 end |-> "live"])
                /\ Deliver(c, Granted(Len(families) + 1, 1, db.users[user].email))
           ELSE Deliver(c, Refused("403")) /\ UNCHANGED families
        /\ UNCHANGED <<served, db, now, spent>>

ServeLogout(c) ==
    LET login == page.calls[c].token.login
    IN  /\ IsPending(c, {"logout"})
        /\ IF families[login].end = "live" THEN Revoke(login, "logout") ELSE UNCHANGED families
        /\ Deliver(c, Ok(Null))
        /\ UNCHANGED <<served, db, now, spent>>

\* fetch rejects: the request was not sent, or its answer is lost.
Lose(c) ==
    /\ load.lossy
    /\ c \in InFlight(page)
    /\ page.calls[c].answer # Failed
    /\ page' = [page EXCEPT !.calls[c].answer = Failed,
                            !.lost = @ \/ page.calls[c].step = "refresh"]
    /\ UNCHANGED <<served, db, families, now, spent>>

----------------------------------------------------------------------------
\* Somebody else changes the status of a user.
OthersChange(user, status) ==
    /\ <<"change", user, status>> \in load.clicks
    /\ spent < load.most
    /\ db' = SetStatus(user, status)
    /\ spent' = spent + 1
    /\ UNCHANGED <<served, families, now, page>>

\* The access tokens that the retry of a call goes with, or will go with.
Retrying ==
    {page.calls[c].token : c \in {c \in InFlight(page) : IsPending(c, {"second"})}}
        \cup {page.calls[c].answer.access :
                 c \in {c \in AtStep(page, {"refresh"}) : page.calls[c].answer.status = "200"}}

\* A retry is served within the life of its token.
Elapse ==
    /\ now < load.time
    /\ \A token \in Retrying : now + 1 < token.exp
    /\ now' = now + 1
    /\ UNCHANGED <<served, db, families, spent, page>>

\* What a behaviour may start with: a page at rest whose tokens, if it has
\* any, are the newest of a family that has not been taken for a stolen one.
Families(users) ==
    Seq([user : DOMAIN users, current : Nat, rotatedAt : Int,
         end : {"live", "logout", "inactive", "reuse"}])

IsLoaded(pg) ==
    /\ DOMAIN pg = DOMAIN Fresh \cup DOMAIN Storage
    /\ pg.screen \in {"login", "app"} /\ pg.view \in Views
    /\ \A f \in DOMAIN Fresh \ {"screen", "view"} : pg[f] = Fresh[f]
    /\ \A f \in DOMAIN Storage \ {"access", "refresh", "email"} : pg[f] = Storage[f]

HoldsTokensOf(pg, fams, users) ==
    IF pg.screen = "login" THEN pg.access = NoToken /\ pg.refresh = NoToken
    ELSE \E login \in DOMAIN fams :
            /\ fams[login].end # "reuse"
            /\ pg.refresh = [login |-> login, n |-> fams[login].current, exp |-> 0]
            /\ pg.access = [login |-> login, n |-> fams[login].current, exp |-> pg.access.exp]
            /\ pg.access.exp \in Int
            /\ pg.email = users[fams[login].user].email

IsUser(user, countries) ==
    /\ {"email", "status", "importEnabled", "exportEnabled", "entitlementExpiresAt", "geoFence",
        "blockedCountries"} \subseteq DOMAIN user
    /\ user.importEnabled \in BOOLEAN /\ user.exportEnabled \in BOOLEAN
    /\ user.entitlementExpiresAt \in Int \cup {Null}
    /\ user.blockedCountries \subseteq countries

IsClick(click, users) ==
    /\ click[1] = "view" => click[2] \in Views
    /\ click[1] = "days" => click[2] \in Windowed
    /\ click[1] = "signin" => click[2] \in DOMAIN users

IsLoad(l) ==
    /\ {"users", "version"} \subseteq DOMAIN l.store /\ l.store.version \in Nat \ {0}
    /\ \A user \in DOMAIN l.store.users : IsUser(l.store.users[user], l.countries)
    /\ l.families \in Families(l.store.users)
    /\ IsLoaded(l.page) /\ HoldsTokensOf(l.page, l.families, l.store.users)
    /\ \A click \in l.clicks : IsClick(click, l.store.users)

ASSUME ConsoleAssumption ==
    /\ AccessLife \in Nat \ {0} /\ RefreshGrace \in Nat
    /\ \A name \in DOMAIN Loads : IsLoad(Loads[name])

Init ==
    /\ served \in DOMAIN Loads
    /\ db = load.store
    /\ families = load.families
    /\ now = 0
    /\ spent = 0
    /\ page = load.page

Next ==
    \/ \E c \in DOMAIN page.calls :
          \/ Arrive(c)
          \/ ServeAuthorized(c) \/ ServeRefresh(c) \/ ServeLogin(c) \/ ServeLogout(c)
          \/ Lose(c)
    \/ \E click \in load.clicks :
          \/ click[1] = "view" /\ OpenView(click[2])
          \/ click[1] = "days" /\ ChooseDays(click[2], click[3])
          \/ click[1] = "trace" /\ DoTrace(click[2])
          \/ click[1] = "decide" /\ Decide(click[2], click[3])
          \/ click[1] = "signin" /\ HandleLoginSubmit(click[2])
          \/ click[1] = "change" /\ OthersChange(click[2], click[3])
    \/ DoSignOut
    \/ Boot
    \/ Elapse

Spec == Init /\ [][Next]_vars
=============================================================================
