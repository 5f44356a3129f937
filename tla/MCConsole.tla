----------------------------- MODULE MCConsole -----------------------------
(***************************************************************************)
(* Small loads for Console: a store, a page at rest, what is clicked, and  *)
(* what may go wrong.                                                      *)
(***************************************************************************)
EXTENDS ConsoleProps

CONSTANTS root, eve, ann, bob   \* two administrators and two members

User(email, role, status) ==
    [email |-> email, role |-> role, status |-> status, emailVerified |-> TRUE,
     importEnabled |-> FALSE, exportEnabled |-> FALSE, entitlementExpiresAt |-> Null,
     monitoringEnabled |-> TRUE, geoFence |-> {}, blockedCountries |-> {}, noticeAcceptedAt |-> 0]

Event(seq, user, severity, at) == [seq |-> seq, user |-> user, severity |-> severity, at |-> at]
Device(device, user, lastSeen) == [device |-> device, user |-> user, lastSeen |-> lastSeen]
Mark(mark, user, at) == [mark |-> mark, user |-> user, at |-> at]
Usage(user, seven, five, at) == [user |-> user, sevenDay |-> seven, fiveHour |-> five, updatedAt |-> at]

Verified == [ok |-> TRUE]
Broken == [ok |-> FALSE, reason |-> "hash"]

Store ==
    [users |-> (root :> User(1, "admin", "active")) @@ (eve :> User(2, "admin", "active"))
                 @@ (ann :> User(3, "member", "pending")) @@ (bob :> User(4, "member", "rejected")),
     devices |-> <<Device(1, ann, Null), Device(2, bob, -1), Device(3, bob, -7)>>,
     events |-> <<Event(1, bob, "info", -9), Event(2, bob, "warn", -5), Event(3, ann, "critical", -1),
                  Event(4, Null, "warn", 0)>>,
     watermarks |-> <<Mark(1, ann, -5), Mark(2, bob, -1), Mark(3, bob, 0)>>,
     imports |-> <<Mark(1, bob, -1), Mark(1, ann, -3)>>,
     usage |-> <<Usage(ann, Null, 3, -4), Usage(bob, 5, 1, -1), Usage(ann, 5, 2, 0)>>,
     bytes |-> 3, rules |-> <<1>>, audit |-> Verified, permissions |-> Broken, version |-> 1]

Session(user) == [user |-> user, current |-> 1, rotatedAt |-> 0, end |-> "live"]

AtRest(expires) ==
    [Fresh @@ Storage EXCEPT !.screen = "app", !.email = 1,
                             !.access = [login |-> 1, n |-> 1, exp |-> expires],
                             !.refresh = [login |-> 1, n |-> 1, exp |-> 0]]

Load ==
    [store |-> Store, families |-> <<Session(root)>>, page |-> AtRest(9), clicks |-> {}, most |-> 3,
     time |-> 0, lossy |-> FALSE, user |-> Null, countries |-> {}]

\* The access token has expired, and three requests of a view meet it together.
refreshing ==
    [Load EXCEPT !.page = AtRest(0), !.time = 2, !.most = 1, !.clicks = {<<"view", "overview">>}]

\* One view after the other: tokens expire and are refreshed twice, and the
\* administrator is suspended meanwhile.
rotating ==
    [Load EXCEPT !.page = AtRest(0), !.time = 3,
                 !.clicks = {<<"view", "usage">>, <<"change", root, "suspended">>}]

\* The same over a network that loses.
losing ==
    [Load EXCEPT !.page = AtRest(0), !.most = 2, !.time = 2, !.lossy = TRUE,
                 !.clicks = {<<"view", "usage">>}]

\* The page is loaded again while a request is under way.
reloading ==
    [Load EXCEPT !.page = AtRest(0), !.most = 2,
                 !.clicks = {<<"view", "usage">>, <<"reload">>}]

\* Another sign-in over calls of the first, which refresh and sign out late.
signing ==
    [Load EXCEPT !.page = AtRest(0),
                 !.clicks = {<<"view", "alerts">>, <<"signout">>, <<"signin", eve>>, <<"signin", ann>>}]

\* Decisions on two rows, while another administrator decides too.
deciding ==
    [Load EXCEPT !.page = [AtRest(9) EXCEPT !.view = "users"], !.most = 4,
                 !.clicks = {<<"view", "users">>, <<"decide", ann, "active">>, <<"decide", ann, "rejected">>,
                             <<"decide", bob, "active">>, <<"change", ann, "rejected">>}]

\* Windows are chosen while a load is under way.
windows ==
    [Load EXCEPT !.most = 4,
                 !.clicks = {<<"view", "alerts">>, <<"days", "alerts", 1>>, <<"days", "alerts", 0>>,
                             <<"view", "transfers">>, <<"days", "transfers", 2>>}]

\* The other views, from a store that changes, over a network that loses.
views ==
    [Load EXCEPT !.lossy = TRUE, !.user = bob, !.time = 1,
                 !.clicks = {<<"view", v>> : v \in {"ipgeo", "integrity", "devices", "timeline", "tracer"}}
                              \cup {<<"trace", 1>>, <<"trace", 7>>, <<"change", ann, "active">>}]

\* Users of every status, with expiries around the present and country lists.
Entitled(email, status, expiry) ==
    [User(email, "member", status) EXCEPT !.importEnabled = TRUE, !.entitlementExpiresAt = expiry]

fenced == [Entitled(3, "active", 1) EXCEPT !.geoFence = {"DE", "FR"}]
barred == [Entitled(4, "active", Null) EXCEPT !.exportEnabled = TRUE, !.blockedCountries = {"FR"}]

policy ==
    [Load EXCEPT !.store.users = (root :> User(1, "admin", "active")) @@ (eve :> User(2, "admin", "active"))
                                   @@ (ann :> fenced) @@ (bob :> barred),
                 !.countries = {"DE", "FR", "IT"}, !.time = 3, !.most = 3,
                 !.clicks = {<<"view", "users">>}
                              \cup {<<"change", u, s>> : u \in {ann, bob},
                                    s \in {"active", "suspended", "deprovisioned", "pending", "rejected"}}]

MCLoads ==
    [refreshing |-> refreshing, rotating |-> rotating, losing |-> losing, reloading |-> reloading, signing |-> signing,
     deciding |-> deciding, windows |-> windows, views |-> views, policy |-> policy]
=============================================================================
