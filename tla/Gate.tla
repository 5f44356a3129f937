-------------------------------- MODULE Gate --------------------------------
(***************************************************************************)
(* The pipeline every request passes (routes.js, handleRequest), and the   *)
(* admin's calls that change what it lets through (lib/access.js).         *)
(*                                                                         *)
(* A request is the route it asks for, the access token it shows, the      *)
(* address it comes from and what its body says; op also notes, for the    *)
(* properties, what was in force when it arrived, and in unheard whether   *)
(* the alarm of its journey was lost.                                      *)
(***************************************************************************)
EXTENDS Service, Access

\* What a route asks of the token, and the first call of its handler.
Open(first) == [auth |-> FALSE, admin |-> FALSE, webView |-> FALSE,
                webDeny |-> FALSE, first |-> first]
Member(first) == [Open(first) EXCEPT !.auth = TRUE]
Admin(first) == [Member(first) EXCEPT !.admin = TRUE]
AdminRead(first) == [Admin(first) EXCEPT !.webView = TRUE]

\* The routes that change what these modules hold, and one read of each kind.
ROUTES ==
    [signup |-> Open("resolveMx"),
     verifyEmail |-> Open("findByEmail"),
     createUser |-> Admin("requireAdmin"),
     approveUser |-> Admin("requireAdmin"),
     rejectUser |-> Admin("requireAdmin"),
     setEntitlement |-> Admin("adminForGrant"),
     addIpRule |-> Admin("requireAdmin"),
     removeIpRule |-> Admin("requireAdmin"),
     listIpRules |-> AdminRead("requireAdmin"),
     geoFence |-> Admin("requireAdmin"),
     blockedCountries |-> Admin("requireAdmin"),
     heartbeat |-> Member("findDevice"),
     usageSnapshot |-> Member("findUsage"),
     usageMe |-> Member("readUsage"),
     putCred |-> Member("findOwner"),
     getCred |-> [Admin("readCred") EXCEPT !.webDeny = TRUE]]

\* Mutant: a route that adds a rule is flagged as a read.
MatchRouteForViewers(route) == [ROUTES[route] EXCEPT !.webView = @ \/ route = "addIpRule"]

MatchRoute(route) == ROUTES[route]

NoToken == [user |-> Nobody, scope |-> "full", device |-> Nobody, exp |-> 0]

Nothing == [nothing |-> TRUE]   \* what a find returns that finds nothing

\* addIpRule refuses any other scope, and a user with a global rule.
IsRule(rule) ==
    /\ IsIp(rule.cidr.ip)
    /\ rule.scope \in {"global", "user"}
    /\ rule.scope = "global" => rule.user = Nobody

\* The rules a behaviour starts with are such, and valid ranges; a token is
\* one of an account.
ASSUME RulesAssumption ==
    \A l \in DOMAIN Loads :
        LET store == Loads[l].store
        IN  /\ \A id \in DOMAIN store.rules :
                  /\ IsRule(store.rules[id]) /\ IsValidCidr(store.rules[id].cidr)
                  /\ id \in Nat => id <= store.issued
            /\ \A r \in Loads[l].arrivals : r.route \in DOMAIN ROUTES =>
                  /\ IsIp(r.ip)
                  /\ r.token # NoToken => r.token.user \in DOMAIN store.users
                  /\ r.route = "addIpRule" => IsRule(r.body)

\* One of the requests of the load; found is what its last find returned, at
\* the time its handler started.
Arrive(p) ==
    \E r \in load.arrivals :
        /\ r.route \in DOMAIN ROUTES
        /\ Begin(p, "globalRules",
                 [route |-> r.route, token |-> r.token, user |-> r.token.user, ip |-> r.ip,
                  body |-> r.body, country |-> NoCountry, found |-> Nothing, at |-> now,
                  unheard |-> FALSE, rulesThen |-> DOMAIN db.rules, editsThen |-> hist.edits])

\* The pipeline ends and the handler starts.
Dispatch(p) ==
    Read(p, MatchRoute(op[p].route).first,
         [op[p] EXCEPT !.at = now, !.found = Nothing, !.country = NoCountry])

\* anomaly.emit under a key: at most one alarm for each, and it never throws:
\* when a call in it rejects, the alarm is logged and lost, and its caller
\* goes on as if it had been raised.
Raise(key) == [db EXCEPT !.alarms = @ \cup {key}]
LoseAlarm == load.mayDie /\ Write(db, hist)
Emit(key) == Write(Raise(key), hist) \/ LoseAlarm

Refuse(p, reason, principal) ==
    Read(p, "deny", [op[p] EXCEPT !.found = [alarm |-> <<reason, principal, now>>]])

\* deny: the alarm of this hour, or none, and 403.
Deny(p) ==
    /\ pc[p] = "deny"
    /\ Return(p)
    /\ Emit(op[p].found.alarm)

RulesFor(scope, user) ==
    {r \in {db.rules[id] : id \in DOMAIN db.rules} : r.scope = scope /\ r.user = user}

\* An access token counts until the second it expires in.
BearerAccepted(token) == token # NoToken /\ token.exp > now

\* The scope of a token can only reduce what it may do.
ScopeAdmits(scope, route) ==
    /\ scope = "view" => route.webView
    /\ scope = "web" => ~route.webDeny

\* enforceGlobalIp, and what needs no further call: token and scope.
GlobalRules(p) ==
    /\ pc[p] = "globalRules"
    /\ LET route == MatchRoute(op[p].route)
           verdict == EvalScope(RulesFor("global", Nobody), op[p].ip)
       IN  \/ verdict # "ok" /\ Refuse(p, verdict, op[p].ip)
           \/ verdict = "ok" /\ ~route.auth /\ Dispatch(p)
           \/ /\ verdict = "ok" /\ route.auth
              /\ IF /\ BearerAccepted(op[p].token)
                    /\ ScopeAdmits(op[p].token.scope, route)
                 THEN Read(p, "findUser", op[p])
                 ELSE Answer(p)

IsActiveAdmin(user) ==
    /\ user \in DOMAIN db.users
    /\ db.users[user].role = "admin"
    /\ db.users[user].status = "active"

\* The live row decides, never the role in the token; then the geo lookup.
FindUser(p) ==
    /\ pc[p] = "findUser"
    /\ LET route == MatchRoute(op[p].route)
       IN  \/ route.admin /\ ~IsActiveAdmin(op[p].user) /\ Answer(p)
           \/ /\ op[p].user \notin DOMAIN db.users /\ ~route.admin
              /\ Dispatch(p)
           \/ /\ op[p].user \in DOMAIN db.users
              /\ route.admin => IsActiveAdmin(op[p].user)
              /\ \E country \in Lookup(load.provider, db.users[op[p].user], op[p].ip) :
                    Read(p, "userRules",
                         [op[p] EXCEPT !.country = country, !.found = db.users[op[p].user]])

\* enforceUserIp: its rules as they are now, the lists as they were found.
UserRules(p) ==
    /\ pc[p] = "userRules"
    /\ LET verdict == EnforceUserIp(op[p].found, RulesFor("user", op[p].user),
                                    op[p].ip, op[p].country)
       IN  IF verdict # "ok" THEN Refuse(p, verdict, op[p].user)
           ELSE Dispatch(p)

----------------------------------------------------------------------------
(* The admin's calls. *)

\* What comes after requireAdmin.
AfterAdmin ==
    [addIpRule |-> "recordRule", removeIpRule |-> "findRule", listIpRules |-> "listRules",
     geoFence |-> "findTarget", blockedCountries |-> "findTarget",
     createUser |-> "findEmail", approveUser |-> "findTarget", rejectUser |-> "findTarget"]

\* The self-lockout guard.
LocksOut(rule, ip) ==
    rule.scope = "global" /\ rule.type = "block" /\ IpInCidr(ip, rule.cidr)

\* The checks of addIpRule that need no call.
MayAdd(p) == IsValidCidr(op[p].body.cidr) /\ ~LocksOut(op[p].body, op[p].ip)

\* requireAdmin, once more, in the service.
RequireAdmin(p) ==
    /\ pc[p] = "requireAdmin"
    /\ IF IsActiveAdmin(op[p].user) /\ (op[p].route = "addIpRule" => MayAdd(p))
       THEN Read(p, AfterAdmin[op[p].route], op[p])
       ELSE Answer(p)

Entry(p, field, target, to) ==
    [by |-> op[p].user, field |-> field, target |-> target, to |-> to]

\* appendPermissionChange; how a chain grows is module Ledger.
Chain(p, step, entry) ==
    /\ Goto(p, step, op[p])
    /\ Write([db EXCEPT !.ledger = @ \cup {entry}], hist)

Edited == [hist EXCEPT !.edits = @ + 1]

RuleText(rule) == <<rule.scope, rule.user, rule.type, rule.cidr>>

\* Mutant: the rule is in force first, and the ledger follows.
RecordRuleLate(p) ==
    /\ pc[p] = "recordRule"
    /\ Goto(p, "listRules", op[p])
    /\ Write([db EXCEPT !.rules = Put(@, db.issued + 1, op[p].body), !.issued = @ + 1], Edited)

RecordRule(p) ==
    /\ pc[p] = "recordRule"
    /\ Chain(p, "insertRule", Entry(p, "ip_rule_add", op[p].body.user, RuleText(op[p].body)))

InsertRule(p) ==
    /\ pc[p] = "insertRule"
    /\ Return(p)
    /\ Write([db EXCEPT !.rules = Put(@, db.issued + 1, op[p].body),
                        !.issued = @ + 1], Edited)

ListRules(p) == pc[p] = "listRules" /\ Answer(p)

FindRule(p) ==
    /\ pc[p] = "findRule"
    /\ IF op[p].body.id \notin DOMAIN db.rules THEN Answer(p)
       ELSE Read(p, "recordRemoval", [op[p] EXCEPT !.found = db.rules[op[p].body.id]])

RecordRemoval(p) ==
    /\ pc[p] = "recordRemoval"
    /\ Chain(p, "deleteRule", Entry(p, "ip_rule_remove", op[p].found.user, RuleText(op[p].found)))

DeleteRule(p) ==
    /\ pc[p] = "deleteRule"
    /\ Return(p)
    /\ Write([db EXCEPT !.rules = [id \in DOMAIN @ \ {op[p].body.id} |-> @[id]]], Edited)

\* setGeoFence and setBlockedCountries, the same calls on two fields; the
\* empty set is null.
RecordCountries(p) ==
    /\ pc[p] = "recordCountries"
    /\ Chain(p, "setCountries", Entry(p, op[p].route, op[p].body.target, op[p].body.countries))

SetCountries(p) ==
    /\ pc[p] = "setCountries"
    /\ Return(p)
    /\ Write([db EXCEPT !.users[op[p].body.target] =
                  IF op[p].route = "geoFence"
                  THEN [@ EXCEPT !.geoFence = op[p].body.countries]
                  ELSE [@ EXCEPT !.blockedCountries = op[p].body.countries]], Edited)

GateStep(p) ==
    \/ GlobalRules(p) \/ FindUser(p) \/ UserRules(p) \/ Deny(p)
    \/ RequireAdmin(p) \/ RecordRule(p) \/ InsertRule(p) \/ ListRules(p)
    \/ FindRule(p) \/ RecordRemoval(p) \/ DeleteRule(p)
    \/ RecordCountries(p) \/ SetCountries(p)
=============================================================================
