------------------------------ MODULE Sessions ------------------------------
(***************************************************************************)
(* The sessions of one user: lib/auth.js (login, webLogin, refresh,        *)
(* logout, changePassword and the three revocations), with the admin       *)
(* commands of lib/commands.js that call it.                               *)
(*                                                                         *)
(* A handler runs up to its next awaited repository call, so one call is   *)
(* one step and handlers interleave between calls; pc says which call is   *)
(* next and op holds the locals.  Tokens are numbered in the order they    *)
(* are generated, and a token stands for its hash; a family is named after *)
(* its first token.  Calls that leave sessions, status and password alone  *)
(* (presence, lockout counters, the two ledgers) are left out.             *)
(***************************************************************************)
EXTENDS Integers, FiniteSets

CONSTANTS
    Handlers,      \* requests in flight
    Requests,      \* the kinds of requests that arrive
    Devices,
    Scopes,        \* what login ("full") and webLogin ("web") stamp
    Ttl,           \* config.refreshTokenTtlMs
    Lifetime,      \* config.refreshAbsoluteLifetimeMs
    Grace,         \* config.refreshGraceMs
    MaxTokens,     \* bound on the tokens ever generated
    MaxFamilies,   \* bound on the sign-ins that succeed
    MaxPasswords,  \* bound on the password changes
    MaxTime        \* bound on the clock

ASSUME RequestsAssumption ==
    Requests \subseteq {"login", "refresh", "logout", "change",
                       "force_logout", "disable_account", "set_status"}

ASSUME ConfigAssumption ==
    /\ Ttl \in Nat /\ Lifetime \in Nat /\ Grace \in Nat
    /\ MaxTokens \in Nat /\ MaxFamilies \in Nat
    /\ MaxPasswords \in Nat /\ MaxTime \in Nat

VARIABLES
    sessions,      \* the stored rows: a function from token to row
    status,        \* users.status
    password,      \* the number of password changes so far
    issued,        \* the number of tokens generated so far
    now,
    pc, op,        \* each handler's next call and locals
    opened,        \* history: the families logins have opened
    cut,           \* history: the families finished revocations have reached
    overlapped,    \* history: those refreshed while a revocation reached them
    changes        \* history: the finished password changes

store == <<sessions, status, password, issued>>
history == <<opened, cut, overlapped, changes>>
vars == <<store, history, now, pc, op>>

Tokens == 1..MaxTokens
NoToken == 0
NoDevice == "no device"
NotRevoked == -1

Steps == {"idle", "loginFind", "loginInsert", "refreshFind", "refreshChild",
          "refreshUser", "rotate", "insertChild", "logoutFind", "changeFind",
          "changeUpdate", "setStatus", "revokeFind", "revokeEach"}

NoRow == [family |-> NoToken, device |-> NoDevice,
          scope |-> "full", password |-> 0, issuedAt |-> 0, startedAt |-> 0,
          expiresAt |-> 0, revokedAt |-> NotRevoked, replacedBy |-> NoToken]

\* What a revocation is aimed at: rows of these families on these devices.
Nothing == [families |-> {}, devices |-> {}]
Family(f) == [families |-> {f}, devices |-> Devices]
AllOfUser == [families |-> Tokens, devices |-> Devices]
\* Mutant: the filter on the device the wrong way round.
AllOn(device) == [families |-> Tokens, devices |-> {device}]
AllExcept(device) == [families |-> Tokens, devices |-> Devices \ {device}]

Idle == [request |-> "none", at |-> 0, token |-> NoToken,
         device |-> NoRow.device, scope |-> "full", password |-> 0,
         row |-> NoRow, new |-> NoToken, aim |-> Nothing, members |-> {},
         reached |-> {}, upto |-> NoToken]  \* history: what RevokeFind saw

Init ==
    /\ sessions = <<>>
    /\ status = "active"
    /\ password = 0
    /\ issued = 0
    /\ now = 0
    /\ pc = [p \in Handlers |-> "idle"]
    /\ op = [p \in Handlers |-> Idle]
    /\ opened = {} /\ cut = {} /\ overlapped = {} /\ changes = {}

Goto(p, step, locals) ==
    /\ pc' = [pc EXCEPT ![p] = step]
    /\ op' = [op EXCEPT ![p] = locals]

Return(p) == Goto(p, "idle", Idle)

\* A request arrives; the clock is read at once.
Begin(p, step, locals) ==
    /\ pc[p] = "idle"
    /\ locals.request \in Requests
    /\ Goto(p, step, [locals EXCEPT !.at = now])
    /\ UNCHANGED <<store, now, history>>

Stored(t) == t \in DOMAIN sessions
Live(t) == Stored(t) /\ sessions[t].revokedAt = NotRevoked

PutRow(t, row) ==
    sessions' = [s \in DOMAIN sessions \cup {t} |->
                     IF s = t THEN row ELSE sessions[s]]

----------------------------------------------------------------------------
(* login and webLogin. *)

\* Any password that is or was right; a wrong one never gets this far.
BeginLogin(p) ==
    \E d \in Devices, s \in Scopes, pw \in 0..password :
        Begin(p, "loginFind", [Idle EXCEPT !.request = "login", !.device = d,
                                           !.scope = s, !.password = pw])

\* findUserByEmail, and the checks on the row it returned.
LoginFind(p) ==
    /\ pc[p] = "loginFind"
    /\ IF op[p].password = password /\ status = "active"
       THEN Goto(p, "loginInsert", op[p])
       ELSE Return(p)
    /\ UNCHANGED <<store, now, history>>

\* issueSession: a new family, on the clock of this moment.
LoginInsert(p) ==
    /\ pc[p] = "loginInsert"
    /\ issued < MaxTokens /\ Cardinality(opened) < MaxFamilies
    /\ issued' = issued + 1
    /\ PutRow(issued + 1,
              [NoRow EXCEPT !.family = issued + 1, !.device = op[p].device,
                            !.scope = op[p].scope, !.password = op[p].password,
                            !.issuedAt = now, !.startedAt = now,
                            !.expiresAt = now + Ttl])
    /\ opened' = opened \cup {issued + 1}
    /\ Return(p)
    /\ UNCHANGED <<status, password, now, cut, overlapped, changes>>

----------------------------------------------------------------------------
(* refresh. *)

BeginRefresh(p) ==
    \E t \in 1..issued, d \in Devices :
        Begin(p, "refreshFind",
              [Idle EXCEPT !.request = "refresh", !.token = t, !.device = d])

\* Mutant: the cap applies to each rotation.
RowPastLifetime(p, row) == op[p].at - row.issuedAt > Lifetime

PastLifetime(p, row) == op[p].at - row.startedAt > Lifetime

\* Mutant: a token is good on whatever device presents it.
AnswerAnyDevice(p, row) ==
    IF PastLifetime(p, row) THEN "revoke"
    ELSE IF row.revokedAt # NotRevoked
         THEN IF row.replacedBy = NoToken THEN "revoke" ELSE "replaced"
    ELSE IF row.expiresAt <= op[p].at THEN "refuse"
    ELSE "proceed"

\* What the row found says of the request, in the order of the checks.
Answer(p, row) ==
    IF PastLifetime(p, row) THEN "revoke"
    ELSE IF row.revokedAt # NotRevoked
         THEN IF row.replacedBy = NoToken THEN "revoke" ELSE "replaced"
    ELSE IF row.expiresAt <= op[p].at THEN "refuse"
    ELSE IF row.device # op[p].device THEN "revoke"
    ELSE "proceed"

\* From here on only the time and the aim matter.
RevokeNext(p, at, aim) ==
    Goto(p, "revokeFind",
         [Idle EXCEPT !.request = op[p].request, !.at = at, !.aim = aim])

RefreshFind(p) ==
    /\ pc[p] = "refreshFind"
    /\ IF ~Stored(op[p].token) THEN Return(p) /\ UNCHANGED overlapped
       ELSE LET row == sessions[op[p].token]
                answer == Answer(p, row)
            IN  \/ /\ answer = "revoke"
                   /\ RevokeNext(p, op[p].at, Family(row.family))
                   /\ UNCHANGED overlapped
                \/ answer = "refuse" /\ Return(p) /\ UNCHANGED overlapped
                \/ /\ answer = "replaced"
                   /\ Goto(p, "refreshChild", [op[p] EXCEPT !.row = row])
                   /\ UNCHANGED overlapped
                \/ /\ answer = "proceed"
                   /\ Goto(p, "refreshUser", [op[p] EXCEPT !.row = row])
                   /\ overlapped' = overlapped \cup
                          ({row.family} \cap UNION {op[q].reached : q \in Handlers})
    /\ UNCHANGED <<store, now, opened, cut, changes>>

WithinGrace(p) == op[p].at - op[p].row.revokedAt <= Grace

ChildLive(p, child) == Live(child) /\ sessions[child].expiresAt > op[p].at

\* A rotated token again: a double-submit is told to retry, the rest is theft.
RefreshChild(p) ==
    /\ pc[p] = "refreshChild"
    /\ IF WithinGrace(p) /\ ChildLive(p, op[p].row.replacedBy)
       THEN Return(p)
       ELSE RevokeNext(p, op[p].at, Family(op[p].row.family))
    /\ UNCHANGED <<store, now, history>>

RefreshUser(p) ==
    /\ pc[p] = "refreshUser"
    /\ IF status = "active" THEN Goto(p, "rotate", op[p])
       ELSE RevokeNext(p, op[p].at, Family(op[p].row.family))
    /\ UNCHANGED <<store, now, history>>

\* Mutant: an update by id, without the compare.
RotateAnyway(p) ==
    /\ pc[p] = "rotate"
    /\ issued < MaxTokens
    /\ issued' = issued + 1
    /\ sessions' = IF ~Stored(op[p].token) THEN sessions
                   ELSE [sessions EXCEPT ![op[p].token].revokedAt = op[p].at,
                                         ![op[p].token].replacedBy = issued + 1]
    /\ Goto(p, "insertChild", [op[p] EXCEPT !.new = issued + 1])
    /\ UNCHANGED <<status, password, now, history>>

\* The compare-and-swap: revokedAt null -> now, for whoever comes first.
Rotate(p) ==
    /\ pc[p] = "rotate"
    /\ issued < MaxTokens
    /\ IF Live(op[p].token)
       THEN /\ issued' = issued + 1
            /\ sessions' = [sessions EXCEPT ![op[p].token].revokedAt = op[p].at,
                                            ![op[p].token].replacedBy = issued + 1]
            /\ Goto(p, "insertChild", [op[p] EXCEPT !.new = issued + 1])
       ELSE Return(p) /\ UNCHANGED <<sessions, issued>>
    /\ UNCHANGED <<status, password, now, history>>

\* The child carries family, device, scope and start of the row found.
InsertChild(p) ==
    /\ pc[p] = "insertChild"
    /\ PutRow(op[p].new,
              [op[p].row EXCEPT !.device = op[p].device, !.issuedAt = op[p].at,
                                !.expiresAt = op[p].at + Ttl])
    /\ Return(p)
    /\ UNCHANGED <<status, password, issued, now, history>>

----------------------------------------------------------------------------
(* logout, changePassword, and the admin's force_logout and disable. *)

BeginLogout(p) ==
    \E t \in 1..issued :
        Begin(p, "logoutFind", [Idle EXCEPT !.request = "logout", !.token = t])

\* The clock is read after the row came back.
LogoutFind(p) ==
    /\ pc[p] = "logoutFind"
    /\ IF Stored(op[p].token)
       THEN RevokeNext(p, now, Family(sessions[op[p].token].family))
       ELSE Return(p)
    /\ UNCHANGED <<store, now, history>>

\* The route lets active admins in.
BeginChange(p) ==
    /\ status = "active"
    /\ \E d \in Devices, pw \in 0..password :
          Begin(p, "changeFind", [Idle EXCEPT !.request = "change", !.device = d,
                                              !.password = pw])

ChangeFind(p) ==
    /\ pc[p] = "changeFind"
    /\ IF op[p].password = password THEN Goto(p, "changeUpdate", op[p])
       ELSE Return(p)
    /\ UNCHANGED <<store, now, history>>

ChangeUpdate(p) ==
    /\ pc[p] = "changeUpdate"
    /\ password < MaxPasswords
    /\ password' = password + 1
    /\ Goto(p, "revokeFind", [op[p] EXCEPT !.password = password + 1,
                                           !.aim = AllExcept(op[p].device)])
    /\ UNCHANGED <<sessions, status, issued, now, history>>

BeginForceLogout(p) ==
    Begin(p, "revokeFind", [Idle EXCEPT !.request = "force_logout", !.aim = AllOfUser])

BeginDisable(p) ==
    Begin(p, "setStatus", [Idle EXCEPT !.request = "disable_account"])

SetStatus(p) ==
    /\ pc[p] = "setStatus"
    /\ status' = "suspended"
    /\ RevokeNext(p, op[p].at, AllOfUser)
    /\ UNCHANGED <<sessions, password, issued, now, history>>

\* setEntitlement on the status field, which revokes nothing.
AdminSetsStatus ==
    /\ "set_status" \in Requests
    /\ status' \in {"active", "suspended"}
    /\ UNCHANGED <<sessions, password, issued, now, pc, op, history>>

----------------------------------------------------------------------------
(* revokeFamily, revokeAllForUser, revokeAllForUserExceptDevice. *)

Matches(row, aim) == row.family \in aim.families /\ row.device \in aim.devices

\* The refreshes that found their row live and have not inserted the child yet.
Refreshers == {q \in Handlers : pc[q] \in {"refreshUser", "rotate", "insertChild"}}

Refreshing(f) == \E q \in Refreshers : op[q].row.family = f

\* The rows there are: stored or, the parent perhaps gone by now, in the hands
\* of a refresh that is to insert its child.
KnownRows == {sessions[t] : t \in DOMAIN sessions} \cup {op[q].row : q \in Refreshers}

\* The families a revocation is to reach.
Reached(aim) == {r.family : r \in {row \in KnownRows : Matches(row, aim)}}

\* The rows found, and for the history what the revocation is to reach.
Listed(p, found) ==
    LET reached == Reached(op[p].aim)
    IN  /\ Goto(p, "revokeEach", [op[p] EXCEPT !.aim = Nothing, !.members = found,
                                               !.reached = reached, !.upto = issued])
        /\ overlapped' = overlapped \cup {f \in reached : Refreshing(f)}
        /\ UNCHANGED <<store, now, opened, cut, changes>>

\* Mutant: findOne instead of find.
RevokeFindOne(p) ==
    /\ pc[p] = "revokeFind"
    /\ \E hit \in SUBSET {t \in DOMAIN sessions :
                            Live(t) /\ Matches(sessions[t], op[p].aim)} :
          (\A s, t \in hit : s = t) /\ Listed(p, hit)

RevokeFind(p) ==
    /\ pc[p] = "revokeFind"
    /\ Listed(p, {t \in DOMAIN sessions :
                     Live(t) /\ Matches(sessions[t], op[p].aim)})

\* updateById, one row after the other, whatever has become of the row.
RevokeOne(p) ==
    /\ pc[p] = "revokeEach"
    /\ \E t \in op[p].members :
          /\ sessions' = IF Stored(t)
                         THEN [sessions EXCEPT ![t].revokedAt = op[p].at]
                         ELSE sessions
          /\ Goto(p, "revokeEach", [op[p] EXCEPT !.members = @ \ {t}])
    /\ UNCHANGED <<status, password, issued, now, history>>

RevokeDone(p) ==
    /\ pc[p] = "revokeEach"
    /\ op[p].members = {}
    /\ cut' = cut \cup op[p].reached
    /\ changes' = IF op[p].request # "change" THEN changes
                  ELSE changes \cup {[password |-> op[p].password,
                                      device |-> op[p].device, upto |-> op[p].upto]}
    /\ Return(p)
    /\ UNCHANGED <<store, now, opened, overlapped>>

----------------------------------------------------------------------------
\* MongoDB's TTL index removes a row some time after it expired.
TtlDelete ==
    /\ \E t \in DOMAIN sessions :
          /\ sessions[t].expiresAt <= now
          /\ sessions' = [s \in DOMAIN sessions \ {t} |-> sessions[s]]
    /\ UNCHANGED <<status, password, issued, now, pc, op, history>>

\* A repository call rejects, or the process dies: the handler is gone.
Die(p) ==
    /\ pc[p] # "idle"
    /\ Return(p)
    /\ UNCHANGED <<store, now, history>>

Elapse ==
    /\ now < MaxTime
    /\ now' = now + 1
    /\ UNCHANGED <<store, pc, op, history>>

Arrive(p) ==
    \/ BeginLogin(p) \/ BeginRefresh(p) \/ BeginLogout(p) \/ BeginChange(p)
    \/ BeginForceLogout(p) \/ BeginDisable(p)

Step(p) ==
    \/ LoginFind(p) \/ LoginInsert(p)
    \/ RefreshFind(p) \/ RefreshChild(p) \/ RefreshUser(p)
    \/ Rotate(p) \/ InsertChild(p)
    \/ LogoutFind(p) \/ ChangeFind(p) \/ ChangeUpdate(p) \/ SetStatus(p)
    \/ RevokeFind(p) \/ RevokeOne(p) \/ RevokeDone(p)

Next ==
    \/ \E p \in Handlers : Arrive(p) \/ Step(p) \/ Die(p)
    \/ AdminSetsStatus \/ TtlDelete \/ Elapse

Spec == Init /\ [][Next]_vars
============================================================================
