---------------------------- MODULE ServiceProps ----------------------------
(***************************************************************************)
(* The handlers of Gate, Accounts and Devices together, and what is        *)
(* claimed of them.                                                        *)
(***************************************************************************)
EXTENDS Devices

NoHistory ==
    [edits |-> 0,          \* changes of rules, country lists and grants
     bootFailed |-> FALSE, \* a start-up failed to create its indexes
     seeded |-> {},        \* administrators made by the CLI
     confirmed |-> {},     \* accounts a code confirmed
     codes |-> 0,          \* codes inserted
     guesses |-> <<>>, accepted |-> <<>>,   \* for each of them
     overlapped |-> {},    \* inserted while another was being issued
     reports |-> <<>>,     \* for each usage row, the points written since it was inserted
     mixed |-> {}]         \* usage rows written by batches that overlapped

Init ==
    /\ served \in DOMAIN Loads
    /\ db = load.store
    /\ hist = NoHistory
    /\ process = [context |-> load.process, cached |-> FALSE]
    /\ now = 0 /\ begun = 0
    /\ pc = [p \in Handlers |-> "idle"]
    /\ op = [p \in Handlers |-> Idle]

Next ==
    \/ \E p \in Handlers :
          Arrive(p) \/ GateStep(p) \/ AccountStep(p) \/ DeviceStep(p) \/ Die(p)
    \/ StartUp \/ ExpireCode \/ ExpireUsage \/ Elapse

Spec == Init /\ [][Next]_vars

----------------------------------------------------------------------------
(* The gate *)

\* The addresses a range stands for, whichever way both are written.
Covers(cidr, ip) ==
    LET rule == CanonicalizeIp(cidr.ip)
        canon == CanonicalizeIp(ip)
        span == 2^(Bits(rule.form) - Prefix(cidr))
        first == rule.n - (rule.n % span)
    IN  rule.form = canon.form /\ canon.n \in first..(first + span - 1)

InHandler(p) ==
    /\ op[p].route \in DOMAIN ROUTES
    /\ pc[p] \notin {"idle", "globalRules", "findUser", "userRules", "deny"}

\* The rules that concern a request, of those with these ids.
Concerns(p, ids) ==
    {r \in {db.rules[id] : id \in ids \cap DOMAIN db.rules} :
        \/ r.scope = "global"
        \/ ROUTES[op[p].route].auth /\ r.user = op[p].token.user}

\* No request gets to its handler from an address that a block rule covers
\* which was there when it arrived and still is, whatever other rule allows
\* it and whichever way either is written; nor, when nothing was edited since
\* it arrived, from outside an allow list that concerns it or from outside its
\* user's fence.  Rules may be edited between the two finds of the pipeline,
\* and while the country is looked up.  (A deny list of countries lets in
\* whom the provider cannot place.)
GateIsTight ==
    \A p \in Handlers : InHandler(p) =>
        /\ \A r \in Concerns(p, op[p].rulesThen) : r.type = "block" => ~Covers(r.cidr, op[p].ip)
        /\ op[p].editsThen = hist.edits =>
              \A scope \in {"global", "user"} :
                  LET allow == {r \in Concerns(p, DOMAIN db.rules) :
                                   r.scope = scope /\ r.type = "allow"}
                  IN  allow = {} \/ \E r \in allow : Covers(r.cidr, op[p].ip)
        /\ op[p].editsThen = hist.edits /\ ROUTES[op[p].route].auth
              /\ op[p].token.user \in DOMAIN db.users =>
              LET user == db.users[op[p].token.user]
                  there == CountryOf[CanonicalizeIp(op[p].ip)]
              IN  user.geoFence # {} => there \in user.geoFence

\* What a step of a request may change if its token is view-only: no account,
\* no rule, no grant, no device, no usage.  The routes say which of them are
\* reads, and a token of this scope passes for those only.
ViewersOnlyRead ==
    [][\A p \in Handlers :
          InHandler(p) /\ ROUTES[op[p].route].auth /\ op[p].token.scope = "view"
             /\ op'[p] # op[p] => db' = db]_vars

----------------------------------------------------------------------------
(* Authority and accounts *)

OnLedger(field, target, to) ==
    \E e \in db.ledger : e.field = field /\ e.target = target /\ e.to = to

\* Whatever lets somebody in or keeps him out is on the ledger of permission
\* changes, even if the process died half way: each rule, each country list,
\* each grant and each status, the ones of the store it started from aside.
\* An account is active without an entry only if a code confirmed it, an
\* administrator made it, or the seed CLI did.
AuthorityIsOnLedger ==
    /\ \A id \in DOMAIN db.rules \ DOMAIN load.store.rules :
          OnLedger("ip_rule_add", db.rules[id].user, RuleText(db.rules[id]))
    /\ \A u \in DOMAIN db.users :
          LET user == db.users[u]
              was == IF u \in DOMAIN load.store.users THEN load.store.users[u]
                     ELSE NewUser(user.email, user.role)
          IN  /\ \A field \in {"importEnabled", "exportEnabled"} :
                    user[field] # was[field] =>
                        OnLedger(field, u, user[field]) \/ u \in hist.seeded
              /\ \A field \in {"geoFence", "blockedCountries"} :
                    user[field] # was[field] => OnLedger(field, u, user[field])
              /\ user.status # was.status =>
                    \/ OnLedger("status", u, user.status)
                    \/ /\ user.status = "active"
                       /\ u \in hist.confirmed \cup hist.seeded \/ user.createdBy # Nobody

\* Two sign-ups, or a sign-up and an administrator, may look for an address at
\* once and both insert it: the unique index takes one.  It is there unless a
\* start-up failed at creating it, after which the cached connection serves
\* without.
AccountsAreUnique == EmailsAreUnique \/ hist.bootFailed

CodesInForce(user) ==
    {c \in DOMAIN db.codes : db.codes[c].user = user /\ db.codes[c].at > now - CodeTtl}

\* One code is guessed at no more often than the cap, with parallel guesses
\* too, and confirms once; one code of a user is live, and no more are sent in
\* the life of a code than the send limit, those aside that were issued while
\* another was.  (Over the longer window the limit counts too little: the
\* expired rows are gone.)
CodesAreBounded ==
    /\ \A c \in DOMAIN hist.guesses : hist.guesses[c] <= MaxAttempts /\ hist.accepted[c] <= 1
    /\ \A u \in DOMAIN db.users :
          /\ Cardinality(LiveCodes(u) \ hist.overlapped) <= 1
          /\ Cardinality(CodesInForce(u) \ hist.overlapped) <= MaxSends

----------------------------------------------------------------------------
(* Devices and usage *)

\* A device has the owner it first had, however many present its id at once,
\* and holds the credentials of nobody else.
DeviceKeepsOwner ==
    [][\A d \in DOMAIN db.devices :
          /\ d \in DOMAIN db'.devices
          /\ db'.devices[d].user = db.devices[d].user
          /\ db'.devices[d].cred \in {Nobody, db'.devices[d].user}]_vars

\* Too far for the time between two fixes, from one country to another.
Teleported(from, to) ==
    /\ from # NoFix /\ to # NoFix
    /\ NoCountry \notin {from.country, to.country} /\ from.country # to.country
    /\ from.asn = 0 \/ from.asn # to.asn
    /\ \E hours \in 1..TravelWindow :
          /\ to.at = from.at + hours /\ hours >= MinTravel
          /\ Distance(from.place, to.place) > MaxKmh * hours
          /\ Distance(from.place, to.place) >= MinKm

\* A device's fix is only replaced by a report of that device, and however
\* many of them overlap, each that came from too far from the fix it found
\* has its alarm in the store before its own fix gets there, unless emit
\* swallowed that very alarm ("FAIL-OPEN ON LOGGING", lib/anomaly.js): then it
\* is never raised, the fix it was about being gone.  (What two overlapping
\* reports find is the same fix: the way from one of them to the other is
\* assessed by neither.  A report without coordinates erases the fix.)
TravelIsFlagged ==
    [][\A d \in DOMAIN db.devices :
          LET from == db.devices[d].lastFix
              to == db'.devices[d].lastFix
          IN  from # to => \E p \in Handlers :
                 /\ pc[p] = "upsertDevice" /\ op'[p] # op[p] /\ op[p].token.device = d
                 /\ \/ ~Teleported(op[p].found.lastFix, to)
                    \/ TravelAlarm(db.devices[d].user, to.at) \in db.alarms
                    \/ op[p].unheard]_vars

\* The last report of each bucket, in the order of the reports.
LastOfEach(reports) ==
    LET last == {i \in DOMAIN reports :
                    \A j \in DOMAIN reports :
                        BucketOf[reports[j].t] = BucketOf[reports[i].t] => j <= i}
        Nth(k) == CHOOSE i \in last : Cardinality({j \in last : j < i}) = k - 1
    IN  [k \in 1..Cardinality(last) |-> [reports[Nth(k)] EXCEPT !.v = ClampPct(@)]]

\* A usage series is the last report of each of the last buckets, of those
\* since its row was inserted, unless two batches of the user overlapped.
SeriesIsFaithful ==
    \A id \in DOMAIN db.usage \ hist.mixed :
        db.usage[id] = Newest(SeriesCap, LastOfEach(hist.reports[id]))
=============================================================================
