------------------------------ MODULE Lockout ------------------------------
(***************************************************************************)
(* What guessing a password costs: the lockout of one account              *)
(* (lib/auth.js: verifyCredentials, verifyAgainstUser,                     *)
(* registerFailedLogin, and the reset that login, webLogin and             *)
(* changePassword do) and the failure counter of one address               *)
(* (lib/anomaly.js: recordLoginFailure, emit).                             *)
(*                                                                         *)
(* One awaited repository call is one step; the clock is read in the step  *)
(* of the call it is read before.  The sessions these handlers go on to    *)
(* open are in module Sessions.                                            *)
(***************************************************************************)
EXTENDS Integers, FiniteSetsExt

CONSTANTS
    Guessers,      \* sign-in requests in flight, all from one address
    MaxFails,      \* loginLockout.maxFails
    Window,        \* loginLockout.windowMs
    Cooldown,      \* loginLockout.cooldownMs
    Threshold,     \* anomaly.repeatedFailThreshold
    IpWindow,      \* anomaly.repeatedFailWindowMs
    MaxGuesses,    \* bound on the requests
    MaxTime        \* bound on the clock

ASSUME LockoutAssumption ==
    /\ MaxFails \in Nat \ {0} /\ Window \in Nat /\ Cooldown \in Nat \ {0}
    /\ Threshold \in Nat \ {0, 1} /\ IpWindow \in Nat \ {0}
    /\ MaxGuesses \in Nat /\ MaxTime \in Nat

VARIABLES
    user,          \* [failedLogins, lastFailedAt, lockedUntil]
    attempts,      \* login_attempts of the address, or NoRecord
    alarms,        \* the buckets repeated_failed_logins is on record for
    now,
    pc, op,        \* each handler's next call and locals
    begun,         \* the requests so far
    locks,         \* history: how often the account was locked
    registered,    \* history: wrong guesses registered since a success, by stamp
    counted,       \* history: failures the address was charged with, by stamp
    unreported,    \* history: the alarm of the last failure counted was lost
    raced,         \* history: two handlers were writing the account at once
    ipRaced        \* history: two handlers were writing the counter at once

accountSide == <<user, locks, registered, raced>>
addressSide == <<attempts, counted, ipRaced>>
vars == <<accountSide, addressSide, alarms, unreported, now, pc, op, begun>>

Never == -1        \* no time at all: null, or not set
NoRecord == [count |-> 0, windowStart |-> Never]
Times == 0..MaxTime

Idle == [at |-> 0, fails |-> 0, count |-> 0,
         lock |-> 0]      \* history: locks when the account was found

Init ==
    /\ user = [failedLogins |-> 0, lastFailedAt |-> Never, lockedUntil |-> Never]
    /\ attempts = NoRecord
    /\ alarms = {} /\ now = 0
    /\ pc = [h \in Guessers |-> "idle"]
    /\ op = [h \in Guessers |-> Idle]
    /\ begun = 0 /\ locks = 0
    /\ registered = [t \in Times |-> 0] /\ counted = [t \in Times |-> 0]
    /\ unreported = FALSE /\ raced = FALSE /\ ipRaced = FALSE

Goto(h, step, locals) ==
    /\ pc' = [pc EXCEPT ![h] = step]
    /\ op' = [op EXCEPT ![h] = locals]

Return(h) == Goto(h, "idle", Idle)

Another(h, steps) == \E g \in Guessers \ {h} : pc[g] \in steps

----------------------------------------------------------------------------
(* A request arrives and the account is looked up. *)

Locked == user.lockedUntil # Never /\ user.lockedUntil > now

Found(h, step, locals) ==
    /\ pc[h] = "idle" /\ begun < MaxGuesses
    /\ begun' = begun + 1
    /\ Goto(h, step, locals)
    /\ UNCHANGED <<accountSide, addressSide, alarms, unreported, now>>

UnknownEmail(h) == Found(h, "ipFind", Idle)

\* Whatever the password is.
WhileLocked(h) == Locked /\ Found(h, "ipFind", Idle)

\* Mutant: a failure just as old as the window no longer counts.
WithinOpenWindow == user.lastFailedAt # Never /\ now - user.lastFailedAt < Window

WithinWindow == user.lastFailedAt # Never /\ now - user.lastFailedAt <= Window

\* registerFailedLogin, up to its write: one failure more than was found.
WrongPassword(h) ==
    /\ ~Locked
    /\ Found(h, "register",
             [Idle EXCEPT !.at = now, !.lock = locks,
                          !.fails = (IF WithinWindow THEN user.failedLogins ELSE 0) + 1])

\* Mutant: a correct password opens a locked account.
RightPasswordAlways(h) == Found(h, "reset", [Idle EXCEPT !.lock = locks])

\* The way of login and webLogin; an account that is not active is refused
\* with the account as it was.
RightPassword(h) == ~Locked /\ Found(h, "reset", [Idle EXCEPT !.lock = locks])

----------------------------------------------------------------------------
(* The account: a failure is registered, a success resets. *)

\* updateById with what the row was when it was found, one failure more.
Register(h) ==
    /\ pc[h] = "register"
    /\ LET full == op[h].fails >= MaxFails
       IN  /\ user' = [failedLogins |-> IF full THEN 0 ELSE op[h].fails,
                       lastFailedAt |-> op[h].at,
                       lockedUntil |-> IF full THEN op[h].at + Cooldown ELSE user.lockedUntil]
           /\ locks' = IF full THEN locks + 1 ELSE locks
    /\ registered' = [registered EXCEPT ![op[h].at] = @ + 1]
    /\ raced' = (raced \/ Another(h, {"register", "reset"}))
    /\ Goto(h, "ipFind", Idle)
    /\ UNCHANGED <<addressSide, alarms, unreported, now, begun>>

\* login, webLogin and changePassword, alike.
Reset(h) ==
    /\ pc[h] = "reset"
    /\ user' = [user EXCEPT !.failedLogins = 0, !.lockedUntil = Never]
    /\ registered' = [t \in Times |-> 0]
    /\ raced' = (raced \/ Another(h, {"register", "reset"}))
    /\ Return(h)
    /\ UNCHANGED <<addressSide, alarms, unreported, now, begun, locks>>

----------------------------------------------------------------------------
(* recordLoginFailure, the same for every kind of failure. *)

Counting == {"ipInsert", "ipRestart", "ipCount"}

IpFind(h) ==
    /\ pc[h] = "ipFind"
    /\ LET step == CASE attempts = NoRecord -> "ipInsert"
                     [] attempts # NoRecord /\ now - attempts.windowStart >= IpWindow
                          -> "ipRestart"
                     [] OTHER -> "ipCount"
       IN  Goto(h, step, [Idle EXCEPT !.at = now, !.count = attempts.count + 1])
    /\ UNCHANGED <<accountSide, addressSide, alarms, unreported, now, begun>>

Charge(h) ==
    /\ counted' = [counted EXCEPT ![op[h].at] = @ + 1]
    /\ ipRaced' = (ipRaced \/ Another(h, Counting))
    /\ unreported' = FALSE

\* insert, where the unique index lets one of two through, and updateById.
IpStart(h) ==
    /\ pc[h] \in {"ipInsert", "ipRestart"}
    /\ attempts' = IF pc[h] = "ipInsert" /\ attempts # NoRecord THEN attempts
                   ELSE [count |-> 1, windowStart |-> op[h].at]
    /\ Charge(h)
    /\ Return(h)
    /\ UNCHANGED <<accountSide, alarms, now, begun>>

\* Mutant: the threshold is reported when it is reached, and not again.
IpCountAtThreshold(h) ==
    /\ pc[h] = "ipCount"
    /\ attempts' = [attempts EXCEPT !.count = op[h].count]
    /\ Charge(h)
    /\ IF op[h].count = Threshold THEN Goto(h, "emit", op[h]) ELSE Return(h)
    /\ UNCHANGED <<accountSide, alarms, now, begun>>

\* updateById with the count as it was found, and one.
IpCount(h) ==
    /\ pc[h] = "ipCount"
    /\ attempts' = [attempts EXCEPT !.count = op[h].count]
    /\ Charge(h)
    /\ IF op[h].count >= Threshold THEN Goto(h, "emit", op[h]) ELSE Return(h)
    /\ UNCHANGED <<accountSide, alarms, now, begun>>

\* The ledger takes the alarm once per bucket,
Emit(h) ==
    /\ pc[h] = "emit"
    /\ alarms' = alarms \cup {op[h].at \div IpWindow}
    /\ Return(h)
    /\ UNCHANGED <<accountSide, addressSide, unreported, now, begun>>

\* or fails, and emit swallows that.
EmitFails(h) ==
    /\ pc[h] = "emit"
    /\ unreported' = TRUE
    /\ Return(h)
    /\ UNCHANGED <<accountSide, addressSide, alarms, now, begun>>

----------------------------------------------------------------------------
\* A call rejects, or the process dies; whatever was not written yet is lost.
Die(h) ==
    /\ pc[h] # "idle"
    /\ unreported' = (unreported \/ pc[h] = "emit")
    /\ Return(h)
    /\ UNCHANGED <<accountSide, addressSide, alarms, now, begun>>

Tick ==
    /\ now < MaxTime
    /\ now' = now + 1
    /\ UNCHANGED <<accountSide, addressSide, alarms, unreported, pc, op, begun>>

Next ==
    \/ \E h \in Guessers :
          \/ UnknownEmail(h) \/ WhileLocked(h) \/ WrongPassword(h) \/ RightPassword(h)
          \/ Register(h) \/ Reset(h)
          \/ IpFind(h) \/ IpStart(h) \/ IpCount(h) \/ Emit(h) \/ EmitFails(h)
          \/ Die(h)
    \/ Tick

Spec == Init /\ [][Next]_vars
============================================================================
