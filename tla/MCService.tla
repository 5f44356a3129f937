----------------------------- MODULE MCService -----------------------------
(***************************************************************************)
(* Small loads for Service: a store each and the requests that come to it, *)
(* chosen so that the cases of one group of handlers meet.                 *)
(***************************************************************************)
EXTENDS ServiceProps, TLC

CONSTANTS root, ann, bob,     \* an administrator and two members
          e1,                 \* an e-mail address
          d1, d2              \* devices

----------------------------------------------------------------------------
(* Addresses: two bits of IPv4, three of IPv6. *)

home == [form |-> "v4", n |-> 1]
homeMapped == [form |-> "mapped", n |-> 1]
abroad == [form |-> "v4", n |-> 2]
loopback == [form |-> "v4", n |-> 0]
six == [form |-> "v6", n |-> 5]

MCCountryOf == (home :> "DE") @@ (abroad :> "FR") @@ (six :> "FR") @@ (loopback :> NoCountry)
                 @@ (NoAddress :> NoCountry)

MCPrivate == {loopback}

\* Hours in pairs.
MCBucketOf == [t \in 0..9 |-> t \div 2]

User(email, role, status) == [NewUser(email, role) EXCEPT !.status = status]

Empty ==
    [users |-> (root :> User("r", "admin", "active")) @@ (ann :> User("a", "member", "active"))
                 @@ (bob :> User("b", "member", "pending")),
     rules |-> <<>>, ledger |-> {}, alarms |-> {}, codes |-> <<>>, devices |-> <<>>,
     usage |-> <<>>, indexes |-> {"email", "expiry"}, issued |-> 10]

Token(user, scope, device) == [user |-> user, scope |-> scope, device |-> device, exp |-> 9]

admin == Token(root, "full", Nobody)
viewer == Token(root, "view", Nobody)
console == Token(root, "web", Nobody)
member == Token(ann, "full", d1)

Request(route, token, ip, body) == [route |-> route, token |-> token, ip |-> ip, body |-> body]

Load == [store |-> Empty, arrivals |-> {}, most |-> 3, time |-> 0, mayDie |-> TRUE,
         mayRestart |-> FALSE, process |-> "ready", provider |-> "ip-api"]

----------------------------------------------------------------------------
(* The gate: rules come and go, countries are fenced, members check in. *)

Rule(scope, user, type, ip, prefix) ==
    [scope |-> scope, user |-> user, type |-> type, cidr |-> [ip |-> ip, prefix |-> prefix]]

gateStore ==
    [Empty EXCEPT !.rules = 1 :> Rule("user", ann, "allow", home, HostRoute),
                  !.users = [@ EXCEPT ![ann].geoFence = {"DE", "FR"}]]

gate ==
    [Load EXCEPT !.store = gateStore, !.arrivals =
        {Request("addIpRule", admin, home, Rule("global", Nobody, "block", abroad, HostRoute)),
         Request("addIpRule", admin, home, Rule("user", ann, "block", homeMapped, HostRoute)),
         Request("addIpRule", admin, home, Rule("user", ann, "allow", home, 1)),
         Request("addIpRule", admin, homeMapped, Rule("global", Nobody, "block", home, 1)),
         Request("addIpRule", admin, home, Rule("global", Nobody, "allow", homeMapped, 100)),
         Request("addIpRule", viewer, home, Rule("global", Nobody, "block", six, 1)),
         Request("removeIpRule", admin, home, [id |-> 1]),
         Request("listIpRules", viewer, homeMapped, Nothing),
         Request("geoFence", admin, home, [target |-> ann, countries |-> {"DE"}]),
         Request("blockedCountries", admin, home, [target |-> ann, countries |-> {"FR"}]),
         Request("usageMe", member, home, Nothing),
         Request("usageMe", member, homeMapped, Nothing),
         Request("usageMe", member, abroad, Nothing),
         Request("usageMe", member, loopback, Nothing),
         Request("usageMe", [member EXCEPT !.exp = 0], home, Nothing),
         Request("usageMe", NoToken, home, Nothing)}]

----------------------------------------------------------------------------
(* Accounts: made, approved, rejected, and their addresses fought for. *)

Grant(field, value) == [field |-> field, value |-> value]

accounts ==
    [Load EXCEPT !.arrivals =
        {Request("signup", NoToken, home, [email |-> e1]),
         Request("createUser", admin, home,
                 [email |-> e1, role |-> "member",
                  grants |-> <<Grant("importEnabled", TRUE), Grant("status", "suspended")>>]),
         [route |-> "createAdmin", body |-> [email |-> e1, role |-> "admin", grants |-> <<>>]],
         Request("approveUser", admin, home, [target |-> bob]),
         Request("rejectUser", console, home, [target |-> bob]),
         Request("setEntitlement", admin, home,
                 [target |-> bob, grants |-> <<Grant("exportEnabled", TRUE)>>]),
         Request("setEntitlement", admin, home,
                 [target |-> bob, grants |-> <<Grant("role", "admin")>>]),
         Request("rejectUser", viewer, home, [target |-> bob])}]

(* Codes: issued and guessed at, right and wrong, for one account. *)

codes ==
    [Load EXCEPT !.most = 4, !.time = 2, !.mayDie = FALSE, !.arrivals =
        {[route |-> "issueCode", body |-> [user |-> bob]]}
        \cup {Request("verifyEmail", NoToken, home, [email |-> "b", code |-> c]) : c \in 0..2}]

(* Start-up: an instance finds a store without indexes, fails at them or     *)
(* not, and takes sign-ups.                                                  *)

startup ==
    [Load EXCEPT !.most = 2, !.store.indexes = {}, !.process = "none", !.mayRestart = TRUE,
                 !.arrivals = {Request("signup", NoToken, home, [email |-> e1])}]

----------------------------------------------------------------------------
(* Devices: two users, one of them with two devices, report and travel. *)

Fix(place, asn, country) == [place |-> place, asn |-> asn, country |-> country, at |-> 0]
here == Fix(1, 1, "DE")
there == Fix(9, 2, "FR")
near == Fix(3, 2, "FR")

Beat(token, fix, claims) == Request("heartbeat", token, home, [fix |-> fix, claims |-> claims])

devices ==
    [Load EXCEPT !.time = 2, !.arrivals =
        {Beat(member, fix, TRUE) : fix \in {here, there, NoFix}}
        \cup {Beat(Token(ann, "full", d2), here, FALSE),
              Request("presence", Token(bob, "full", d1), home, [fix |-> near, claims |-> TRUE]),
              Request("presence", member, home, [fix |-> near, claims |-> TRUE])}]

(* Silence and credentials of the same device. *)

silence ==
    [Load EXCEPT !.time = 2, !.arrivals =
        {Beat(member, NoFix, TRUE), Beat(admin, here, TRUE),
         Request("putCred", member, home, Nothing),
         Request("putCred", Token(bob, "full", d1), home, Nothing),
         Request("getCred", console, home, [device |-> d1]), Request("getCred", admin, home, [device |-> d1]),
         [route |-> "deadManScan"]}]

(* Usage: batches of one user, of one account and of more than the cap. *)

Batch(list) == [accounts |-> list]

usage ==
    [Load EXCEPT !.time = 5, !.arrivals =
        {Request("usageSnapshot", member, home, Batch(<<[account |-> 1, value |-> -5]>>)),
         Request("usageSnapshot", member, home,
                 Batch(<<[account |-> 1, value |-> 150],
                         [account |-> 2, value |-> NotANumber],
                         [account |-> 1, value |-> 60]>>)),
         Request("usageSnapshot", member, home, Batch(<<>>))}]

Symmetry == Permutations(Handlers)

MCLoads ==
    [gate |-> gate, accounts |-> accounts, codes |-> codes, startup |-> startup,
     devices |-> devices, silence |-> silence, usage |-> usage]
============================================================================
