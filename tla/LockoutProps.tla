---------------------------- MODULE LockoutProps ----------------------------
(* What the lockout and the failure counter promise, over Lockout. *)
EXTENDS Lockout

\* The counters stay below the caps that empty them, and no stamp is of a
\* time to come but the end of a lock.
TypeOK ==
    /\ user.failedLogins \in 0..(MaxFails - 1)
    /\ user.lastFailedAt \in {Never} \cup 0..now
    /\ user.lockedUntil \in {Never} \cup Cooldown..(now + Cooldown)
    /\ attempts = NoRecord \/ (attempts.count >= 1 /\ attempts.windowStart \in 0..now)
    /\ \A b \in alarms : b * IpWindow <= now

Total(stamps, from, to) ==
    MapThenSumSet(LAMBDA t : stamps[t], {t \in Times : from <= t /\ t < to})

\* No stretch of time, shorter than the cooldown and no longer than the window
\* of the count, has more than maxFails wrong guesses in it, whatever windows
\* and locks it overlaps: unless the password was given in between, or two
\* requests were writing the account at the same time.
Stretch == Min({Cooldown, Window + 1})
GuessesAreCapped ==
    ~raced => \A t \in Times : Total(registered, t, t + Stretch) <= MaxFails

\* "A correct password while locked is still refused": a lock in force is
\* ended early, or cut shorter, only by a request that found the account
\* before it was locked.
LockHolds ==
    [][Locked /\ user'.lockedUntil < user.lockedUntil =>
          \E h \in Guessers : /\ pc[h] \in {"register", "reset"}
                              /\ op[h].lock < locks]_vars

\* An address with a threshold of failures in one window is on record for a
\* bucket that meets the window, as soon as no alarm is on its way: unless two
\* requests counted at the same time, or the alarm of the very last failure
\* was lost; the next failure then raises it again.
Incident ==
    /\ attempts # NoRecord
    /\ Total(counted, attempts.windowStart, attempts.windowStart + IpWindow) >= Threshold
BucketMeets(b, start) ==
    b * IpWindow < start + IpWindow /\ start < (b + 1) * IpWindow
IncidentsAreReported ==
    Incident /\ ~ipRaced /\ ~unreported /\ (\A h \in Guessers : pc[h] # "emit") =>
        \E b \in alarms : BucketMeets(b, attempts.windowStart)
=============================================================================
