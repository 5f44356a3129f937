---------------------------- MODULE ConsoleProps ----------------------------
(***************************************************************************)
(* What an administrator may rely on at the web console: that a session    *)
(* ends for a reason, that the tokens in the tab belong to who is named    *)
(* above the page, that a view shows what was asked for last, and that     *)
(* what the directory says of a user is what the back end enforces.        *)
(***************************************************************************)
EXTENDS Console

\* The country lists of lib/access.js; its address rules play no part.
Rules == INSTANCE Access WITH
    Width4 <- 1, Width6 <- 1, Private <- {}, CountryOf <- [country \in {} |-> Null]

----------------------------------------------------------------------------
\* A session the console gives up on its own account is one the back end has
\* ended, by a sign-out or because its user is no longer active: unless two
\* requests refreshed at once, an answer to a refresh was lost, or a call
\* outlived a session.  Without these three, the back end never takes a
\* refresh of the console for the replay of a stolen token (admin.js api and
\* doTokenRefresh, auth.js refresh).
SessionEndsForAReason ==
    page.raced \/ page.lost \/ page.crossed
        \/ \A login \in page.givenUp : families[login].end \in {"logout", "inactive"}

\* No token outlives the session it is of: the login screen holds none, and
\* behind it the access token is that of the administrator named above the
\* page.  Only a call that outlives a session may break this (clearSession,
\* storeTokens, doSignOut and handleLoginSubmit, all around awaited calls).
TokensAreOfTheSession ==
    \/ page.crossed
    \/ /\ page.screen = "login" => page.access = NoToken /\ page.refresh = NoToken
       /\ page.screen = "app" =>
            /\ page.access.login = page.refresh.login
            /\ db.users[families[page.access.login].user].email = page.email

\* When nothing of a view is under way and its newest load met no other, it
\* shows what that load asked for, as it was then or later, and the list of
\* users shows every decision that was answered (the loaders of admin.js, which
\* do not tell a late answer from a new one).
ViewShowsNewest ==
    \A view \in Views :
        LET asked == page.asked[view]
            shown == page.shown[view]
            quiet == \A c \in InFlight(page) : page.calls[c].view # view
        IN  quiet /\ asked # NotAsked /\ ~page.overlapped[view] =>
              /\ shown # NothingShown
              /\ shown.days = asked.days
              /\ shown.version >= asked.version
              /\ view = "users" => shown.version >= page.decided

\* The policy shown for a user is the one enforced: what the gate of an action
\* lets pass is shown as allowed at every moment, what is shown as allowed
\* passes at every moment but that at which an entitlement expires, where the
\* directory is an instant late, and "Anywhere" is shown exactly if no country
\* is refused, not even an unknown one (effectivePolicyModel over reporting.js,
\* against assertCan and the country lists of access.js).
PolicyIsEnforced ==
    \A id \in DOMAIN db.users :
        LET user == db.users[id]
            policy == EffectivePolicyModel(DirectoryRow(db, id, now))
            Shows(word) == policy.signIn = "Allowed" /\ word = "Allowed"
            Admits(country) ==
                /\ Rules!EnforceCountryBlock(user, country) = "ok"
                /\ Rules!EnforceGeoFence(user, country) = "ok"
        IN  /\ AssertCan(user, "import", now) => Shows(policy.import)
            /\ AssertCan(user, "export", now) => Shows(policy.export)
            /\ user.entitlementExpiresAt # now =>
                  /\ Shows(policy.import) => AssertCan(user, "import", now)
                  /\ Shows(policy.export) => AssertCan(user, "export", now)
            /\ policy.location = "Anywhere" <=>
                  \A country \in load.countries \cup {Rules!NoCountry} : Admits(country)
=============================================================================
