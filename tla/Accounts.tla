------------------------------ MODULE Accounts ------------------------------
(***************************************************************************)
(* How accounts come to be and get their authority: sign-up and its codes  *)
(* (lib/signup.js, lib/otp.js, lib/users.js), provisioning and approval    *)
(* (lib/admin.js), grants (lib/entitlements.js); and how the process gets  *)
(* its connection and its indexes (api/index.js, context.js,               *)
(* mongoRepo.js), which is what makes an e-mail address unique.            *)
(*                                                                         *)
(* An e-mail address is a model value: its normal form.  A code is named   *)
(* by the row that holds its hash; 0 is a code nobody was sent.            *)
(***************************************************************************)
EXTENDS Gate

CONSTANTS MaxAttempts, MaxSends, SendWindow, CodeTtl   \* config.otp

----------------------------------------------------------------------------
(* Start-up. *)

Start(context, cached) ==
    /\ process' = [context |-> context, cached |-> cached]
    /\ UNCHANGED <<served, now, begun, pc, op>>

\* getWarmContext by the first request; the requests that come while the
\* context is being built wait for the same promise.  getDb connects, caches
\* the connection and only then creates the indexes.
BuildContext ==
    /\ process.context = "none"
    /\ Start(IF process.cached THEN "ready" ELSE "email", TRUE)
    /\ UNCHANGED <<db, hist>>

EmailTaken(email) == \E u \in DOMAIN db.users : db.users[u].email = email

EmailsAreUnique ==
    \A u, v \in DOMAIN db.users : db.users[u].email = db.users[v].email => u = v

\* ensureIndexes: the first of the two indexes that matter here ...
IndexEmails ==
    /\ process.context = "email"
    /\ EmailsAreUnique
    /\ Start("expiry", TRUE)
    /\ db' = [db EXCEPT !.indexes = @ \cup {"email"}]
    /\ UNCHANGED hist

\* ... and the second.
IndexExpiry ==
    /\ process.context = "expiry"
    /\ Start("ready", TRUE)
    /\ db' = [db EXCEPT !.indexes = @ \cup {"expiry"}]
    /\ UNCHANGED hist

\* A createIndex rejects: the promise is dropped, the connection stays.
FailIndex ==
    /\ process.context \in {"email", "expiry"}
    /\ load.mayDie
    /\ Start("none", TRUE)
    /\ hist' = [hist EXCEPT !.bootFailed = TRUE]
    /\ UNCHANGED db

\* The instance dies between two requests; its successor connects anew.
Restart ==
    /\ process.context = "ready" /\ load.mayRestart
    /\ \A p \in Handlers : pc[p] = "idle"
    /\ Start("none", FALSE)
    /\ UNCHANGED <<db, hist>>

StartUp == BuildContext \/ IndexEmails \/ IndexExpiry \/ FailIndex \/ Restart

----------------------------------------------------------------------------
(* Creating an account. *)

\* domainCanReceiveMail: MX, or else an address of the host, or else 422.
ResolveMx(p) ==
    /\ pc[p] = "resolveMx"
    /\ Read(p, "findEmail", op[p]) \/ Read(p, "resolveHost", op[p])

ResolveHost(p) ==
    /\ pc[p] = "resolveHost"
    /\ Read(p, "findEmail", op[p]) \/ Answer(p)

\* createUser: the check ...
FindEmail(p) ==
    /\ pc[p] = "findEmail"
    /\ IF EmailTaken(op[p].body.email) THEN Answer(p) ELSE Read(p, "insertUser", op[p])

NewUser(email, role) ==
    [email |-> email, role |-> role, status |-> "pending", verified |-> FALSE,
     createdBy |-> Nobody, importEnabled |-> FALSE, exportEnabled |-> FALSE,
     geoFence |-> {}, blockedCountries |-> {}]

\* The accounts a behaviour starts with: their addresses are distinct, and
\* indexed if the process has its context; their ids are not issued again.
ASSUME AccountsAssumption ==
    /\ Nobody \notin Nat
    /\ \A l \in DOMAIN Loads :
          LET store == Loads[l].store
              users == store.users
          IN  /\ \A u, v \in DOMAIN users : users[u].email = users[v].email => u = v
              /\ Loads[l].process = "ready" => "email" \in store.indexes
              /\ store.issued \in Nat /\ Nobody \notin DOMAIN users
              /\ \A u \in DOMAIN users :
                    /\ DOMAIN users[u] = DOMAIN NewUser("", "member")
                    /\ u \in Nat => u <= store.issued

\* What is left to do once the row is there.
AfterInsert(route) ==
    CASE route = "signup" -> "idle" [] route = "createUser" -> "activate"
      [] route = "createAdmin" -> "makeAdmin"

\* Mutant: there is no unique index.
RejectsNothing(email) == FALSE

RejectsDuplicate(email) == "email" \in db.indexes /\ EmailTaken(email)

\* ... and the insert, which the unique index may reject.
InsertUser(p) ==
    /\ pc[p] = "insertUser"
    /\ LET id == db.issued + 1
           role == IF op[p].route = "signup" THEN "member" ELSE op[p].body.role
       IN  IF RejectsDuplicate(op[p].body.email) THEN Answer(p)
           ELSE /\ Write([db EXCEPT !.users = Put(@, id, NewUser(op[p].body.email, role)),
                                    !.issued = id], hist)
                /\ IF op[p].route = "signup" THEN Return(p)
                   ELSE Goto(p, AfterInsert(op[p].route), [op[p] EXCEPT !.body =
                            [target |-> id, grants |-> op[p].body.grants]])

\* The seed CLI, a process of its own with its own connection.
CreateAdmin(p) ==
    \E r \in load.arrivals :
        /\ r.route = "createAdmin"
        /\ Begin(p, "findEmail", [route |-> "createAdmin", user |-> Nobody, body |-> r.body])

MakeAdmin(p) ==
    /\ pc[p] = "makeAdmin"
    /\ Return(p)
    /\ Write([db EXCEPT !.users[op[p].body.target] =
                  [@ EXCEPT !.status = "active", !.verified = TRUE,
                            !.importEnabled = TRUE, !.exportEnabled = TRUE]],
             [hist EXCEPT !.seeded = @ \cup {op[p].body.target}])

----------------------------------------------------------------------------
(* Granting: setEntitlement, alone or from approveUser, rejectUser and     *)
(* createManagedUser.                                                      *)

\* The grants still to make; when none is left, approval has one more write.
NextGrant(p, grants) ==
    IF grants # <<>>
    THEN Goto(p, "adminForGrant", [op[p] EXCEPT !.body.grants = grants])
    ELSE IF op[p].route = "approveUser" THEN Goto(p, "markVerified", op[p])
    ELSE Return(p)

\* createManagedUser: active at once, and not on the ledger.
Activate(p) ==
    /\ pc[p] = "activate"
    /\ NextGrant(p, op[p].body.grants)
    /\ Write([db EXCEPT !.users[op[p].body.target] =
                  [@ EXCEPT !.status = "active", !.verified = TRUE,
                            !.createdBy = op[p].user]], hist)

Decision == [approveUser |-> "active", rejectUser |-> "rejected"]

\* The find of approveUser, rejectUser and of the two country lists.
FindTarget(p) ==
    /\ pc[p] = "findTarget"
    /\ IF op[p].body.target \notin DOMAIN db.users THEN Answer(p)
       ELSE IF op[p].route \notin DOMAIN Decision THEN Read(p, "recordCountries", op[p])
       ELSE Read(p, "adminForGrant", [op[p] EXCEPT !.body =
                    [target |-> op[p].body.target,
                     grants |-> <<[field |-> "status", value |-> Decision[op[p].route]]>>]])

VALID_STATUSES == {"active", "pending", "suspended", "deprovisioned", "rejected"}

MayChange(grant) ==
    \/ grant.field \in {"importEnabled", "exportEnabled"}
    \/ grant.field = "status" /\ grant.value \in VALID_STATUSES

AdminForGrant(p) ==
    /\ pc[p] = "adminForGrant"
    /\ IF IsActiveAdmin(op[p].user) /\ MayChange(Head(op[p].body.grants))
       THEN Read(p, "targetForGrant", op[p])
       ELSE Answer(p)

TargetForGrant(p) ==
    /\ pc[p] = "targetForGrant"
    /\ IF op[p].body.target \in DOMAIN db.users THEN Read(p, "recordGrant", op[p])
       ELSE Answer(p)

\* In the ledger first ...
RecordGrant(p) ==
    /\ pc[p] = "recordGrant"
    /\ LET grant == Head(op[p].body.grants)
       IN  Chain(p, "applyGrant", Entry(p, grant.field, op[p].body.target, grant.value))

\* ... and then in force.
ApplyGrant(p) ==
    /\ pc[p] = "applyGrant"
    /\ LET grant == Head(op[p].body.grants)
       IN  /\ NextGrant(p, Tail(op[p].body.grants))
           /\ Write([db EXCEPT !.users[op[p].body.target] =
                         [f \in DOMAIN @ |-> IF f = grant.field THEN grant.value ELSE @[f]]],
                    Edited)

MarkVerified(p) ==
    /\ pc[p] = "markVerified"
    /\ Return(p)
    /\ Write([db EXCEPT !.users[op[p].body.target].verified = TRUE], hist)

----------------------------------------------------------------------------
(* Codes. *)

\* The limits of config, where the rate of sends is limited over a longer time
\* than a code lives; and the first code of a behaviour is the first there is.
ASSUME CodesAssumption ==
    /\ MaxAttempts \in Nat /\ MaxSends \in Nat
    /\ CodeTtl \in Nat /\ SendWindow \in Nat /\ CodeTtl <= SendWindow
    /\ \A l \in DOMAIN Loads : DOMAIN Loads[l].store.codes = {}

LiveCodes(user) == {c \in DOMAIN db.codes : db.codes[c].user = user /\ db.codes[c].live}

CodesSince(user, time) == {c \in DOMAIN db.codes : db.codes[c].user = user /\ db.codes[c].at >= time}

\* issueOtp, which no route of this version calls.
IssueCode(p) ==
    \E r \in load.arrivals :
        /\ r.route = "issueCode"
        /\ Begin(p, "countSends",
                 [route |-> "issueCode", user |-> r.body.user, at |-> now, priors |-> {}])

CountSends(p) ==
    /\ pc[p] = "countSends"
    /\ IF Cardinality(CodesSince(op[p].user, op[p].at - SendWindow)) >= MaxSends THEN Answer(p)
       ELSE Read(p, "findPriors", op[p])

FindPriors(p) ==
    /\ pc[p] = "findPriors"
    /\ LET priors == LiveCodes(op[p].user)
       IN  Read(p, IF priors = {} THEN "insertCode" ELSE "consumePrior",
                [op[p] EXCEPT !.priors = priors])

\* One after the other; what expired meanwhile is not put back.
ConsumePrior(p) ==
    /\ pc[p] = "consumePrior"
    /\ LET c == CHOOSE c \in op[p].priors : TRUE
           rest == op[p].priors \ {c}
       IN  /\ Goto(p, IF rest = {} THEN "insertCode" ELSE "consumePrior",
                   [op[p] EXCEPT !.priors = rest])
           /\ Write(IF c \in DOMAIN db.codes THEN [db EXCEPT !.codes[c].live = FALSE] ELSE db,
                    hist)

Issuing(p) == {q \in Others(p, {"countSends", "findPriors", "consumePrior", "insertCode"}) :
                  op[q].user = op[p].user}

InsertCode(p) ==
    /\ pc[p] = "insertCode"
    /\ Return(p)
    /\ LET c == hist.codes + 1
       IN  Write([db EXCEPT !.codes = Put(@, c,
                      [user |-> op[p].user, at |-> op[p].at, attempts |-> 0, live |-> TRUE,
                       expiresAt |-> op[p].at + CodeTtl])],
                 [hist EXCEPT !.codes = c,
                              !.guesses = Put(@, c, 0),
                              !.accepted = Put(@, c, 0),
                              !.overlapped = IF Issuing(p) = {} THEN @ ELSE @ \cup {c}])

\* The TTL index takes what has expired, some time after.
ExpireCode ==
    /\ "expiry" \in db.indexes
    /\ \E c \in DOMAIN db.codes :
          /\ db.codes[c].expiresAt <= now
          /\ db' = [db EXCEPT !.codes = [d \in DOMAIN @ \ {c} |-> @[d]]]
    /\ UNCHANGED <<served, hist, process, now, begun, pc, op>>

FindByEmail(p) ==
    /\ pc[p] = "findByEmail"
    /\ \/ ~EmailTaken(op[p].body.email) /\ Answer(p)
       \/ \E u \in DOMAIN db.users :
             /\ db.users[u].email = op[p].body.email
             /\ Read(p, "findCode", [op[p] EXCEPT !.user = u, !.at = now,
                                     !.body = [guess |-> op[p].body.code, code |-> 0]])

\* The newest live code, if it has not expired.
FindCode(p) ==
    /\ pc[p] = "findCode"
    /\ LET live == LiveCodes(op[p].user)
           newest == {c \in live : \A d \in live : db.codes[d].at <= db.codes[c].at}
       IN  \/ live = {} /\ Answer(p)
           \/ \E c \in newest :
                 IF db.codes[c].expiresAt <= op[p].at THEN Answer(p)
                 ELSE Read(p, "bumpAttempts", [op[p] EXCEPT !.body.code = c])

\* Mutant: the updates go by id alone.
StillThere(p) == op[p].body.code \in DOMAIN db.codes

StillLive(p) == op[p].body.code \in DOMAIN db.codes /\ db.codes[op[p].body.code].live

\* The guarded increment, and then the comparison.
BumpAttempts(p) ==
    /\ pc[p] = "bumpAttempts"
    /\ LET c == op[p].body.code
       IN  IF ~StillLive(p) \/ db.codes[c].attempts >= MaxAttempts THEN Answer(p)
           ELSE /\ Write([db EXCEPT !.codes[c].attempts = @ + 1],
                         [hist EXCEPT !.guesses[c] = @ + 1])
                /\ IF op[p].body.guess = c THEN Goto(p, "consume", op[p]) ELSE Return(p)

\* Single use: only the first correct guess finds it live.
Consume(p) ==
    /\ pc[p] = "consume"
    /\ LET c == op[p].body.code
       IN  IF ~StillLive(p) THEN Answer(p)
           ELSE /\ Write([db EXCEPT !.codes[c].live = FALSE],
                         [hist EXCEPT !.accepted[c] = @ + 1])
                /\ Goto(p, "confirm", op[p])

\* Whatever the status was.
Confirm(p) ==
    /\ pc[p] = "confirm"
    /\ Return(p)
    /\ Write([db EXCEPT !.users[op[p].user] =
                  [@ EXCEPT !.status = "active", !.verified = TRUE]],
             [hist EXCEPT !.confirmed = @ \cup {op[p].user}])

AccountStep(p) ==
    \/ ResolveMx(p) \/ ResolveHost(p) \/ FindEmail(p) \/ InsertUser(p)
    \/ CreateAdmin(p) \/ MakeAdmin(p) \/ Activate(p)
    \/ FindTarget(p) \/ AdminForGrant(p) \/ TargetForGrant(p)
    \/ RecordGrant(p) \/ ApplyGrant(p) \/ MarkVerified(p)
    \/ IssueCode(p) \/ CountSends(p) \/ FindPriors(p) \/ ConsumePrior(p) \/ InsertCode(p)
    \/ FindByEmail(p) \/ FindCode(p) \/ BumpAttempts(p) \/ Consume(p) \/ Confirm(p)
=============================================================================
