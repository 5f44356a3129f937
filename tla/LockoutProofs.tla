---------------------------- MODULE LockoutProofs ----------------------------
(***************************************************************************)
(* Proofs about Lockout, for any number of requests, any limits and any    *)
(* length of run.  IInv types the state and orders its stamps; SInv adds   *)
(* what the sums of failures over a stretch of time come to, and EarnedInv *)
(* that those an account counts are all since its last lock.               *)
(***************************************************************************)
EXTENDS LockoutProps, FiniteSetTheorems, WellFoundedInduction, TLAPS

USE LockoutAssumption

Steps == {"idle", "register", "reset", "ipFind", "ipInsert", "ipRestart", "ipCount", "emit"}
Locals == [at : Nat, fails : Nat, count : Nat, lock : Nat]
Writing == {"register", "reset"}

TypesInv ==
    /\ user \in [failedLogins : 0..(MaxFails - 1), lastFailedAt : {Never} \cup Nat,
                 lockedUntil : {Never} \cup Nat]
    /\ attempts \in [count : Nat, windowStart : {Never} \cup Nat]
    /\ now \in Nat /\ locks \in Nat
    /\ alarms \subseteq Nat
    /\ pc \in [Guessers -> Steps] /\ op \in [Guessers -> Locals]

\* What handlers hold is of the past, and stamps are no later than they are.
PastInv ==
    /\ \A h \in Guessers : op[h].at <= now /\ op[h].lock <= locks
    /\ \A h \in Guessers : pc[h] = "register" => op[h].fails >= 1
    /\ \A h \in Guessers : pc[h] \in {"ipInsert", "ipRestart", "ipCount"} => op[h].count >= 1
    /\ \A h \in Guessers : pc[h] = "ipCount" => attempts # NoRecord
    /\ user.lastFailedAt <= now /\ user.lockedUntil <= now + Cooldown
    /\ user.lockedUntil # Never => user.lockedUntil >= Cooldown
    /\ attempts = NoRecord \/ (attempts.count >= 1 /\ attempts.windowStart \in 0..now)
    /\ \A b \in alarms : b * IpWindow <= now

\* A handler that is about to write the account, and has seen every lock,
\* found the account open, and it is open still.
OpenInv ==
    \A h \in Guessers : pc[h] \in Writing /\ op[h].lock = locks => ~Locked

IInv == TypesInv /\ PastInv /\ OpenInv

-----------------------------------------------------------------------------
(* What the failures on the account and at the address add up to. *)

\* The clock stays within its bound, and histories count.
StampsInv ==
    /\ now \in Times
    /\ registered \in [Times -> Nat] /\ counted \in [Times -> Nat]
    /\ raced \in BOOLEAN /\ ipRaced \in BOOLEAN /\ unreported \in BOOLEAN

\* What a handler about to write the account goes by is what the account is.
StillSo(o) ==
    /\ o.at >= user.lastFailedAt
    /\ o.fails = (IF user.lastFailedAt # Never /\ o.at - user.lastFailedAt <= Window
                  THEN user.failedLogins ELSE 0) + 1
    /\ user.lockedUntil = Never \/ user.lockedUntil <= o.at

\* All stamps before s are a stretch before it.
FarBefore(s) == \A t \in Times : registered[t] > 0 /\ t < s => t + Stretch <= s

\* The failures the account counts are those since s, all the others are a
\* stretch before; and when it counts none there were none, or a lock of a
\* stretch at least comes between.
RunInv ==
    /\ \A t \in Times : registered[t] > 0 => t <= user.lastFailedAt
    /\ user.failedLogins = 0 =>
          \/ \A t \in Times : registered[t] = 0
          \/ user.lockedUntil >= user.lastFailedAt + Stretch
    /\ user.failedLogins > 0 =>
          \E s \in 0..user.lastFailedAt :
             FarBefore(s) /\ Total(registered, s, user.lastFailedAt + 1) <= user.failedLogins

GuessInv ==
    ~raced => /\ RunInv
              /\ \A t \in Times : Total(registered, t, t + Stretch) <= MaxFails
              /\ \A h \in Guessers : pc[h] = "register" => StillSo(op[h])

\* What a handler about to count found is what the record is.
FoundStill(step, o) ==
    /\ o.count = attempts.count + 1
    /\ step = "ipInsert" => attempts = NoRecord
    /\ step = "ipRestart" => attempts # NoRecord /\ attempts.windowStart + IpWindow <= o.at
    /\ step = "ipCount" => /\ attempts # NoRecord
                           /\ attempts.windowStart <= o.at
                           /\ o.at < attempts.windowStart + IpWindow

\* The record counts the failures charged in its window, and there are none
\* after it.
RecordInv ==
    /\ attempts = NoRecord => \A t \in Times : counted[t] = 0
    /\ attempts # NoRecord =>
          /\ \A t \in Times : counted[t] > 0 => t < attempts.windowStart + IpWindow
          /\ Total(counted, attempts.windowStart, attempts.windowStart + IpWindow)
                = attempts.count

\* A record at the threshold has its alarm, or one is on its way.
ReportedInv ==
    attempts # NoRecord /\ attempts.count >= Threshold /\ ~unreported =>
        \/ \E b \in alarms : BucketMeets(b, attempts.windowStart)
        \/ \E h \in Guessers : /\ pc[h] = "emit"
                               /\ attempts.windowStart <= op[h].at
                               /\ op[h].at < attempts.windowStart + IpWindow

CountInv ==
    ~ipRaced => /\ RecordInv /\ ReportedInv
                /\ \A h \in Guessers : pc[h] \in Counting => FoundStill(pc[h], op[h])

SInv == StampsInv /\ GuessInv /\ CountInv

-----------------------------------------------------------------------------
(* IInv is inductive. *)

\* Only handler h moves.
LEMMA Moving ==
    ASSUME TypesInv, NEW h \in Guessers, NEW step \in Steps, NEW o \in Locals, Goto(h, step, o)
    PROVE  /\ pc' \in [Guessers -> Steps] /\ op' \in [Guessers -> Locals]
           /\ pc'[h] = step /\ op'[h] = o
           /\ \A g \in Guessers \ {h} : pc'[g] = pc[g] /\ op'[g] = op[g]
BY DEF TypesInv, Goto

\* The locals of a handler at rest.
LEMMA IdleOk ==
    Idle \in Locals /\ Idle.at = 0 /\ Idle.lock = 0 /\ Idle.fails = 0 /\ Idle.count = 0
BY DEF Idle, Locals

\* An alarm's bucket begins no later than the alarm.
LEMMA BucketBegins ==
    ASSUME NEW t \in Nat
    PROVE  t \div IpWindow \in Nat /\ (t \div IpWindow) * IpWindow <= t
OBVIOUS

\* The account and the address keep as they are and handler h moves on.
LEMMA KeepsMove ==
    ASSUME IInv, NEW h \in Guessers, NEW step \in Steps, NEW o \in Locals, Goto(h, step, o),
           o.at <= now, o.lock <= locks, step = "register" => o.fails >= 1,
           step \in Counting => o.count >= 1, step = "ipCount" => attempts # NoRecord,
           step \in Writing /\ o.lock = locks => ~Locked,
           user' = user, attempts' = attempts, alarms' = alarms, locks' = locks,
           now' = now
    PROVE  IInv'
<1> USE DEF IInv
<1>1. /\ pc' \in [Guessers -> Steps] /\ op' \in [Guessers -> Locals]
      /\ pc'[h] = step /\ op'[h] = o
      /\ \A g \in Guessers \ {h} : pc'[g] = pc[g] /\ op'[g] = op[g]
  BY Moving
<1>2. TypesInv' BY <1>1 DEF TypesInv
<1>3. PastInv' BY <1>1 DEF PastInv, Counting
<1>4. OpenInv' BY <1>1 DEF OpenInv, Locked
<1> QED BY <1>2, <1>3, <1>4

\* A request that found the account.
LEMMA KeepsFound ==
    ASSUME IInv, NEW h \in Guessers,
           UnknownEmail(h) \/ WhileLocked(h) \/ WrongPassword(h) \/ RightPassword(h)
    PROVE  IInv'
<1>1. TypesInv BY DEF IInv
<1>2. CASE UnknownEmail(h) \/ WhileLocked(h)
  BY <1>1, <1>2, IdleOk, KeepsMove DEF UnknownEmail, WhileLocked, Found, accountSide, addressSide,
       Steps, Counting, Writing, TypesInv
<1>3. CASE WrongPassword(h)
  <2>0. PICK n : n = (IF WithinWindow THEN user.failedLogins ELSE 0) + 1 OBVIOUS
  <2> DEFINE o == [Idle EXCEPT !.at = now, !.lock = locks, !.fails = n]
  <2>1. now \in Nat /\ locks \in Nat /\ n \in Nat /\ n >= 1
    <3>1. user.failedLogins \in Nat BY <1>1 DEF TypesInv
    <3> QED BY <1>1, <2>0, <3>1 DEF TypesInv
  <2>2. o \in Locals /\ o.at = now /\ o.lock = locks /\ o.fails = n BY <2>1 DEF Idle, Locals
  <2>3. Goto(h, "register", o) /\ ~Locked BY <1>3, <2>0 DEF WrongPassword, Found
  <2> HIDE DEF o
  <2> QED BY <1>3, <2>1, <2>2, <2>3, KeepsMove DEF WrongPassword, Found, accountSide, addressSide,
            Steps, Counting
<1>4. CASE RightPassword(h)
  <2> DEFINE o == [Idle EXCEPT !.lock = locks]
  <2>1. now \in Nat /\ locks \in Nat BY <1>1 DEF TypesInv
  <2>2. o \in Locals /\ o.at = 0 /\ o.lock = locks BY <2>1 DEF Idle, Locals
  <2>3. Goto(h, "reset", o) /\ ~Locked BY <1>4 DEF RightPassword, Found
  <2> HIDE DEF o
  <2> QED BY <1>4, <2>1, <2>2, <2>3, KeepsMove DEF RightPassword, Found, accountSide, addressSide,
            Steps, Counting
<1> QED BY <1>2, <1>3, <1>4

\* A failure is registered: a lock it sets nobody under way has seen.
LEMMA KeepsRegister ==
    ASSUME IInv, NEW h \in Guessers, Register(h)
    PROVE  IInv'
<1> USE DEF IInv
<1>1. PICK full \in BOOLEAN :
         /\ full <=> op[h].fails >= MaxFails
         /\ user' = [failedLogins |-> IF full THEN 0 ELSE op[h].fails,
                     lastFailedAt |-> op[h].at,
                     lockedUntil |-> IF full THEN op[h].at + Cooldown ELSE user.lockedUntil]
         /\ locks' = IF full THEN locks + 1 ELSE locks
  BY DEF Register
<1>2. /\ pc[h] = "register" /\ Goto(h, "ipFind", Idle)
      /\ attempts' = attempts /\ alarms' = alarms /\ now' = now
  BY DEF Register, addressSide
<1>3. /\ op[h] \in Locals /\ op[h].at \in Nat /\ op[h].at <= now /\ op[h].fails \in Nat
      /\ op[h].fails >= 1
  BY <1>2 DEF TypesInv, PastInv, Locals
<1>4. /\ pc' \in [Guessers -> Steps] /\ op' \in [Guessers -> Locals]
      /\ pc'[h] = "ipFind" /\ op'[h] = Idle
      /\ \A g \in Guessers \ {h} : pc'[g] = pc[g] /\ op'[g] = op[g]
  BY <1>2, IdleOk, Moving DEF Steps
<1>5. /\ user'.lastFailedAt = op[h].at
      /\ full => user'.lockedUntil = op[h].at + Cooldown
      /\ ~full => user'.lockedUntil = user.lockedUntil
      /\ user'.failedLogins = IF full THEN 0 ELSE op[h].fails
  BY <1>1
<1>6. TypesInv'
  <2>1. user'.failedLogins \in 0..(MaxFails - 1) BY <1>1, <1>3, <1>5
  <2>2. user'.lockedUntil \in {Never} \cup Nat
    <3>1. op[h].at + Cooldown \in Nat /\ user.lockedUntil \in {Never} \cup Nat
      BY <1>3 DEF TypesInv
    <3>2. CASE full BY <1>5, <3>1, <3>2
    <3>3. CASE ~full BY <1>5, <3>1, <3>3
    <3> QED BY <3>2, <3>3
  <2>3. user' \in [failedLogins : 0..(MaxFails - 1), lastFailedAt : {Never} \cup Nat,
                   lockedUntil : {Never} \cup Nat]
    BY <1>1, <1>3, <2>1, <2>2
  <2> QED BY <1>1, <1>2, <1>4, <2>3 DEF TypesInv
<1>7. PastInv'
  <2>1. locks' >= locks /\ locks \in Nat BY <1>1 DEF TypesInv
  <2>2. \A g \in Guessers : op'[g].at <= now' /\ op'[g].lock <= locks'
    <3>1. op'[h].at <= now' /\ op'[h].lock <= locks'
      <4>1. op'[h].at = 0 /\ op'[h].lock = 0 BY <1>4, IdleOk
      <4>2. now' \in Nat /\ locks' \in Nat BY <1>1, <1>2, <2>1 DEF TypesInv
      <4> QED BY <4>1, <4>2
    <3>2. ASSUME NEW g \in Guessers \ {h} PROVE op'[g].at <= now' /\ op'[g].lock <= locks'
      <4>1. op'[g] = op[g] /\ op[g].at <= now /\ op[g].lock <= locks /\ op[g].lock \in Nat
        BY <1>4 DEF PastInv, TypesInv, Locals
      <4> QED BY <1>1, <1>2, <2>1, <4>1
    <3> QED BY <3>1, <3>2
  <2>3. /\ user'.lastFailedAt <= now' /\ user'.lockedUntil <= now' + Cooldown
        /\ user'.lockedUntil # Never => user'.lockedUntil >= Cooldown
    <3>1. /\ op[h].at + Cooldown <= now + Cooldown /\ op[h].at + Cooldown >= Cooldown
          /\ user.lockedUntil <= now + Cooldown
          /\ user.lockedUntil # Never => user.lockedUntil >= Cooldown
      BY <1>3 DEF PastInv, TypesInv
    <3>2. user'.lastFailedAt <= now' BY <1>2, <1>3, <1>5
    <3>3. CASE full BY <1>2, <1>5, <3>1, <3>2, <3>3
    <3>4. CASE ~full BY <1>2, <1>5, <3>1, <3>2, <3>4
    <3> QED BY <3>3, <3>4
  <2> QED BY <1>2, <1>4, <2>2, <2>3 DEF PastInv
<1>8. OpenInv'
  <2> SUFFICES ASSUME NEW g \in Guessers, pc'[g] \in Writing, op'[g].lock = locks' PROVE ~Locked'
    BY DEF OpenInv
  <2>1. g # h /\ pc[g] \in Writing /\ op[g].lock = locks' BY <1>4 DEF Writing
  <2>2. ~full BY <1>1, <2>1 DEF PastInv, TypesInv, Locals
  <2> QED BY <1>1, <1>2, <1>5, <2>1, <2>2 DEF OpenInv, Locked
<1> QED BY <1>6, <1>7, <1>8

\* A success opens the account to everybody.
LEMMA KeepsReset ==
    ASSUME IInv, NEW h \in Guessers, Reset(h)
    PROVE  IInv'
<1> USE DEF IInv
<1>1. /\ user' = [user EXCEPT !.failedLogins = 0, !.lockedUntil = Never]
      /\ Goto(h, "idle", Idle)
      /\ attempts' = attempts /\ alarms' = alarms /\ now' = now /\ locks' = locks
  BY DEF Reset, addressSide, Return
<1>2. /\ pc' \in [Guessers -> Steps] /\ op' \in [Guessers -> Locals]
      /\ pc'[h] = "idle" /\ op'[h] = Idle
      /\ \A g \in Guessers \ {h} : pc'[g] = pc[g] /\ op'[g] = op[g]
  BY <1>1, IdleOk, Moving DEF Steps
<1>3. /\ user'.lockedUntil = Never /\ user'.lastFailedAt = user.lastFailedAt
      /\ user'.failedLogins = 0
  BY <1>1 DEF TypesInv
<1>4. TypesInv'
  <2>1. user' \in [failedLogins : 0..(MaxFails - 1), lastFailedAt : {Never} \cup Nat,
                   lockedUntil : {Never} \cup Nat]
    <3>1. 0 \in 0..(MaxFails - 1) OBVIOUS
    <3> QED BY <1>1, <3>1 DEF TypesInv
  <2> QED BY <1>1, <1>2, <2>1 DEF TypesInv
<1>5. PastInv' BY <1>1, <1>2, <1>3, IdleOk DEF PastInv, TypesInv, Never
<1>6. OpenInv' BY <1>3 DEF OpenInv, Locked
<1> QED BY <1>4, <1>5, <1>6

\* The address's counter, and the alarm.
LEMMA KeepsCount ==
    ASSUME IInv, NEW h \in Guessers,
           IpFind(h) \/ IpStart(h) \/ IpCount(h) \/ Emit(h) \/ EmitFails(h) \/ Die(h)
    PROVE  IInv'
<1> USE DEF IInv
<1>0. /\ now \in Nat /\ locks \in Nat /\ op[h] \in Locals /\ op[h].at \in Nat /\ op[h].at <= now
      /\ op[h].lock \in Nat /\ op[h].lock <= locks /\ op[h].count \in Nat /\ attempts.count \in Nat
  BY DEF TypesInv, PastInv, Locals
<1>1. CASE IpFind(h)
  <2>1. PICK step \in Counting :
           /\ step = "ipCount" => attempts # NoRecord
           /\ Goto(h, step, [Idle EXCEPT !.at = now, !.count = attempts.count + 1])
           /\ UNCHANGED <<accountSide, addressSide, alarms, unreported, now, begun>>
    BY <1>1 DEF IpFind, Counting
  <2>0. PICK n : n = attempts.count + 1 OBVIOUS
  <2> DEFINE o == [Idle EXCEPT !.at = now, !.count = n]
  <2>4. n \in Nat /\ n >= 1 BY <1>0, <2>0
  <2>2. o \in Locals /\ o.at = now /\ o.count = n /\ o.lock = 0 BY <1>0, <2>4 DEF Idle, Locals
  <2>3. Goto(h, step, o) BY <2>0, <2>1
  <2> HIDE DEF o
  <2> QED BY <1>0, <2>1, <2>2, <2>3, <2>4, KeepsMove DEF accountSide, addressSide, Steps, Counting, Writing
<1>2. CASE EmitFails(h) \/ Die(h)
  BY <1>0, <1>2, IdleOk, KeepsMove DEF EmitFails, Die, Return, accountSide, addressSide, Steps,
       Counting, Writing
<1>3. CASE IpStart(h) \/ IpCount(h)
  <2>1. PICK step \in {"idle", "emit"}, o \in {Idle, op[h]} : Goto(h, step, o)
    BY <1>3 DEF IpStart, IpCount, Return
  <2>2. o \in Locals /\ o.at <= now /\ o.lock <= locks BY <1>0, <2>1, IdleOk
  <2>3. /\ pc' \in [Guessers -> Steps] /\ op' \in [Guessers -> Locals]
        /\ pc'[h] = step /\ op'[h] = o
        /\ \A g \in Guessers \ {h} : pc'[g] = pc[g] /\ op'[g] = op[g]
    BY <2>1, <2>2, Moving DEF Steps
  <2>4. user' = user /\ locks' = locks /\ alarms' = alarms /\ now' = now
    BY <1>3 DEF IpStart, IpCount, accountSide
  <2>5. /\ attempts' \in [count : Nat, windowStart : {Never} \cup Nat]
        /\ attempts' = NoRecord \/ (attempts'.count >= 1 /\ attempts'.windowStart \in 0..now)
        /\ attempts # NoRecord => attempts' # NoRecord
    <3>1. CASE IpStart(h)
      <4>1. attempts' = attempts \/ attempts' = [count |-> 1, windowStart |-> op[h].at]
        BY <3>1 DEF IpStart
      <4>2. op[h].at \in 0..now BY <1>0
      <4>3. CASE attempts' = attempts
        <5>1. attempts \in [count : Nat, windowStart : {Never} \cup Nat] BY DEF TypesInv
        <5>2. attempts = NoRecord \/ (attempts.count >= 1 /\ attempts.windowStart \in 0..now)
          BY DEF PastInv
        <5> QED BY <4>3, <5>1, <5>2
      <4>4. CASE attempts' = [count |-> 1, windowStart |-> op[h].at] BY <1>0, <4>2, <4>4 DEF NoRecord
      <4> QED BY <4>1, <4>3, <4>4
    <3>2. CASE IpCount(h)
      <4>1. pc[h] = "ipCount" /\ attempts' = [attempts EXCEPT !.count = op[h].count] /\ op[h].count >= 1
        BY <3>2 DEF IpCount, PastInv
      <4>2. attempts # NoRecord /\ attempts.windowStart \in 0..now BY <4>1 DEF PastInv
      <4> QED BY <1>0, <4>1, <4>2 DEF TypesInv, NoRecord
    <3> QED BY <1>3, <3>1, <3>2
  <2>6. TypesInv' BY <2>3, <2>4, <2>5 DEF TypesInv
  <2>7. PastInv' BY <2>2, <2>3, <2>4, <2>5 DEF PastInv
  <2>8. OpenInv' BY <2>3, <2>4 DEF OpenInv, Locked, Writing
  <2> QED BY <2>6, <2>7, <2>8
<1>4. CASE Emit(h)
  <2>1. /\ Goto(h, "idle", Idle) /\ user' = user /\ locks' = locks /\ now' = now
        /\ attempts' = attempts /\ alarms' = alarms \cup {op[h].at \div IpWindow}
    BY <1>4 DEF Emit, Return, accountSide, addressSide
  <2>2. /\ pc' \in [Guessers -> Steps] /\ op' \in [Guessers -> Locals]
        /\ pc'[h] = "idle" /\ op'[h] = Idle
        /\ \A g \in Guessers \ {h} : pc'[g] = pc[g] /\ op'[g] = op[g]
    BY <2>1, IdleOk, Moving DEF Steps
  <2>3. PICK b : b = op[h].at \div IpWindow OBVIOUS
  <2>4. b \in Nat /\ b * IpWindow <= op[h].at BY <1>0, <2>3, BucketBegins
  <2>5. alarms' \subseteq Nat /\ \A c \in alarms' : c * IpWindow <= now
    <3>1. b * IpWindow <= now BY <1>0, <2>4
    <3> QED BY <2>1, <2>3, <2>4, <3>1 DEF TypesInv, PastInv
  <2>6. TypesInv' BY <2>1, <2>2, <2>5 DEF TypesInv
  <2>7. PastInv' BY <1>0, <2>1, <2>2, <2>5, IdleOk DEF PastInv
  <2>8. OpenInv' BY <2>1, <2>2 DEF OpenInv, Locked, Writing
  <2> QED BY <2>6, <2>7, <2>8
<1> QED BY <1>1, <1>2, <1>3, <1>4

\* Time goes on.
LEMMA KeepsTick ==
    ASSUME IInv, Tick
    PROVE  IInv'
<1> USE DEF IInv
<1>1. /\ now \in Nat /\ now' = now + 1 /\ user' = user /\ locks' = locks /\ attempts' = attempts
      /\ alarms' = alarms /\ pc' = pc /\ op' = op
  BY DEF Tick, accountSide, addressSide, TypesInv
<1>2. TypesInv' BY <1>1 DEF TypesInv
<1>3. PastInv'
  <2>1. \A h \in Guessers : op[h].at <= now' BY <1>1 DEF PastInv, TypesInv, Locals
  <2>2. user.lastFailedAt <= now' /\ user.lockedUntil <= now' + Cooldown
    BY <1>1 DEF PastInv, TypesInv, Never
  <2>3. attempts = NoRecord \/ (attempts.count >= 1 /\ attempts.windowStart \in 0..now')
    BY <1>1 DEF PastInv
  <2>4. \A b \in alarms : b * IpWindow <= now'
    <3> TAKE b \in alarms
    <3>1. b \in Nat /\ b * IpWindow <= now BY DEF PastInv, TypesInv
    <3>2. PICK c \in Nat : c = b * IpWindow BY <3>1
    <3> QED BY <1>1, <3>1, <3>2
  <2> QED BY <1>1, <2>1, <2>2, <2>3, <2>4 DEF PastInv
<1>4. OpenInv' BY <1>1 DEF OpenInv, Locked, TypesInv, Never
<1> QED BY <1>2, <1>3, <1>4

\* Every invariant holds at first.
LEMMA InitInv == Init => IInv
<1> SUFFICES ASSUME Init PROVE IInv OBVIOUS
<1> USE DEF Init
<1>1. TypesInv BY IdleOk DEF TypesInv, Steps, NoRecord, Never
<1>2. PastInv BY IdleOk DEF PastInv, Never
<1>3. OpenInv BY DEF OpenInv, Writing
<1> QED BY <1>1, <1>2, <1>3 DEF IInv

\* Every step keeps every invariant.
LEMMA NextInv == IInv /\ [Next]_vars => IInv'
<1> SUFFICES ASSUME IInv, [Next]_vars PROVE IInv' OBVIOUS
<1>1. ASSUME NEW h \in Guessers,
             UnknownEmail(h) \/ WhileLocked(h) \/ WrongPassword(h) \/ RightPassword(h)
      PROVE  IInv'
  BY <1>1, KeepsFound
<1>2. ASSUME NEW h \in Guessers, Register(h) PROVE IInv' BY <1>2, KeepsRegister
<1>3. ASSUME NEW h \in Guessers, Reset(h) PROVE IInv' BY <1>3, KeepsReset
<1>4. ASSUME NEW h \in Guessers,
             IpFind(h) \/ IpStart(h) \/ IpCount(h) \/ Emit(h) \/ EmitFails(h) \/ Die(h)
      PROVE  IInv'
  BY <1>4, KeepsCount
<1>5. CASE Tick BY <1>5, KeepsTick
<1>6. CASE UNCHANGED vars
  BY <1>6 DEF vars, accountSide, addressSide, IInv, TypesInv, PastInv, OpenInv, Locked
<1> QED BY <1>1, <1>2, <1>3, <1>4, <1>5, <1>6 DEF Next

-----------------------------------------------------------------------------
(* Sums of stamps over a stretch of time. *)


\* Every non-empty set of naturals has a least element.
LEMMA Least ==
    ASSUME NEW T, T \subseteq Nat, T # {}
    PROVE  \E x \in T : \A y \in T : x <= y
<1>1. PICK x \in T : \A y \in T : ~(<<y, x>> \in OpToRel(<, Nat))
  BY NatLessThanWellFounded, WFMin, Zenon
<1>2. \A y \in T : <<y, x>> \in OpToRel(<, Nat) <=> y < x
  BY DEF OpToRel
<1>3. \A y \in T : ~(y < x)
  BY <1>1, <1>2, Zenon
<1> QED BY <1>3

\* Every non-empty set of sets of times has a member with none smaller in it.
LEMMA Smallest ==
    ASSUME NEW B, B \subseteq SUBSET Times, B # {}
    PROVE  \E s \in B : \A u \in B : u \subseteq s => u = s
<1>1. IsFiniteSet(Times) BY FS_Interval DEF Times
<1>2. \A s \in B : IsFiniteSet(s) /\ Cardinality(s) \in Nat
  BY <1>1, FS_Subset, FS_CardinalityType
<1> DEFINE sizes == {Cardinality(s) : s \in B}
<1>3. sizes \subseteq Nat /\ sizes # {} BY <1>2
<1>4. PICK n \in sizes : \A k \in sizes : n <= k
  <2> HIDE DEF sizes
  <2> QED BY <1>3, Least
<1>5. PICK s \in B : n = Cardinality(s) OBVIOUS
<1>6. ASSUME NEW u \in B, u \subseteq s PROVE u = s
  <2>1. Cardinality(s) <= Cardinality(u) BY <1>4, <1>5
  <2>2. Cardinality(u) <= Cardinality(s) /\ (Cardinality(s) = Cardinality(u) => s = u)
    BY <1>2, <1>6, FS_Subset
  <2> QED BY <1>2, <1>6, <2>1, <2>2
<1> QED BY <1>6

\* The function g sums f over sets of times.
Sums(f, g) ==
    /\ g \in [SUBSET Times -> Nat]
    /\ g[{}] = 0
    /\ \A s \in SUBSET Times : \A x \in s : g[s] = f[x] + g[s \ {x}]

\* There is such a function.
LEMMA SumsExist ==
    ASSUME NEW f \in [Times -> Nat]
    PROVE  \E g : Sums(f, g)
<1> DEFINE P(n) == \E g \in [SUBSET (0..n) -> Nat] :
                      /\ g[{}] = 0
                      /\ \A s \in SUBSET (0..n) : \A x \in s : g[s] = f[x] + g[s \ {x}]
           Bad == {n \in Times : ~P(n)}
<1>1. 0 \in Times /\ Times \subseteq Nat /\ Times = 0..MaxTime BY DEF Times
<1>2. P(0)
  <2> DEFINE g == [s \in SUBSET (0..0) |-> IF 0 \in s THEN f[0] ELSE 0]
  <2>1. g \in [SUBSET (0..0) -> Nat] BY <1>1
  <2>2. g[{}] = 0 OBVIOUS
  <2>3. ASSUME NEW s \in SUBSET (0..0), NEW x \in s PROVE g[s] = f[x] + g[s \ {x}]
    <3>1. x = 0 /\ f[0] \in Nat BY <1>1, <2>3
    <3>2. g[s] = f[0] /\ g[s \ {x}] = 0 BY <3>1
    <3> QED BY <3>1, <3>2
  <2> HIDE DEF g
  <2> QED BY <2>1, <2>2, <2>3
<1>3. ASSUME NEW n \in Nat, n + 1 \in Times, P(n) PROVE P(n + 1)
  <2>1. PICK h \in [SUBSET (0..n) -> Nat] :
           /\ h[{}] = 0
           /\ \A s \in SUBSET (0..n) : \A x \in s : h[s] = f[x] + h[s \ {x}]
    BY <1>3
  <2> DEFINE m == n + 1
             g == [s \in SUBSET (0..m) |->
                      IF m \in s THEN f[m] + h[s \ {m}] ELSE h[s]]
  <2>2. f[m] \in Nat BY <1>3
  <2>3. \A s \in SUBSET (0..m) : s \ {m} \in SUBSET (0..n) OBVIOUS
  <2>4. \A s \in SUBSET (0..m) : m \notin s => s \in SUBSET (0..n)
    <3>1. \A s \in SUBSET (0..m) : m \notin s => s \ {m} = s OBVIOUS
    <3> QED BY <2>3, <3>1
  <2>5. \A s \in SUBSET (0..n) : h[s] \in Nat OBVIOUS
  <2>6. ASSUME NEW s \in SUBSET (0..m)
        PROVE  (IF m \in s THEN f[m] + h[s \ {m}] ELSE h[s]) \in Nat
    BY <2>2, <2>3, <2>4, <2>5
  <2>7. g \in [SUBSET (0..m) -> Nat] BY <2>6
  <2>8. \A s \in SUBSET (0..m) : g[s] = IF m \in s THEN f[m] + h[s \ {m}] ELSE h[s]
    OBVIOUS
  <2>9. m \notin 0..n OBVIOUS
  <2> HIDE DEF g, m
  <2>10. g[{}] = 0 BY <2>1, <2>8
  <2>11. ASSUME NEW s \in SUBSET (0..m), NEW x \in s PROVE g[s] = f[x] + g[s \ {x}]
    <3>1. s \ {x} \in SUBSET (0..m) OBVIOUS
    <3>2. CASE m \notin s
      <4>1. s \in SUBSET (0..n) /\ m \notin s \ {x} BY <2>4, <3>2
      <4>2. g[s] = h[s] /\ g[s \ {x}] = h[s \ {x}] BY <2>8, <3>1, <3>2, <4>1
      <4> QED BY <2>1, <4>1, <4>2
    <3>3. CASE m \in s /\ x = m
      BY <2>8, <2>11, <3>1, <3>3
    <3>4. CASE m \in s /\ x # m
      <4> DEFINE r == s \ {m}
      <4>1. r \in SUBSET (0..n) /\ x \in r BY <2>3, <3>4
      <4>2. r \ {x} \in SUBSET (0..n) /\ (s \ {x}) \ {m} = r \ {x} /\ m \in s \ {x}
        BY <4>1, <3>4
      <4>3. h[r] = f[x] + h[r \ {x}] BY <2>1, <4>1
      <4>4. g[s] = f[m] + h[r] BY <2>8, <3>4
      <4>5. g[s \ {x}] = f[m] + h[r \ {x}] BY <2>8, <3>1, <4>2
      <4>6. f[x] \in Nat /\ h[r \ {x}] \in Nat
        <5>1. x \in Times /\ Times = 0..MaxTime /\ h[r \ {x}] \in Nat
          BY <1>1, <1>3, <4>1, <4>2, <2>5
        <5> QED BY <5>1
      <4> HIDE DEF r
      <4> QED BY <2>2, <4>3, <4>4, <4>5, <4>6
    <3> QED BY <3>2, <3>3, <3>4
  <2>12. P(m) BY <2>7, <2>10, <2>11
  <2> QED BY <2>12 DEF m
<1> HIDE DEF P
<1>4. ASSUME Bad # {} PROVE FALSE
  <2>1. PICK n \in Bad : \A k \in Bad : n <= k BY <1>1, <1>4, Least
  <2>2. n \in Times /\ ~P(n) /\ n \in Nat /\ n # 0 BY <1>1, <1>2, <2>1
  <2>3. n - 1 \in Nat /\ n - 1 \in Times /\ (n - 1) + 1 = n BY <1>1, <2>2
  <2>4. P(n - 1) BY <2>1, <2>2, <2>3
  <2>5. P((n - 1) + 1) BY <1>3, <2>2, <2>3, <2>4
  <2> QED BY <2>2, <2>3, <2>5
<1>5. P(MaxTime) BY <1>1, <1>4
<1> QED BY <1>1, <1>5 DEF P, Sums

\* Sums depend on the summands only.
LEMMA SumsAgree ==
    ASSUME NEW f, NEW g, Sums(f, g), NEW f2, NEW g2, Sums(f2, g2),
           NEW s \in SUBSET Times, \A x \in s : f[x] = f2[x]
    PROVE  g[s] = g2[s]
<1> DEFINE Bad == {u \in SUBSET s : g[u] # g2[u]}
<1>1. ASSUME Bad # {} PROVE FALSE
  <2>1. Bad \subseteq SUBSET Times OBVIOUS
  <2>2. PICK u \in Bad : \A v \in Bad : v \subseteq u => v = u
    <3> HIDE DEF Bad
    <3> QED BY <1>1, <2>1, Smallest
  <2>3. u # {} BY <2>2 DEF Sums
  <2>4. PICK x \in u : TRUE BY <2>3
  <2>5. g[u \ {x}] = g2[u \ {x}] BY <2>2, <2>4
  <2>6. g[u] = f[x] + g[u \ {x}] /\ g2[u] = f2[x] + g2[u \ {x}] BY <2>1, <2>2, <2>4 DEF Sums
  <2> QED BY <2>2, <2>4, <2>5, <2>6
<1> QED BY <1>1

\* The sum over two disjoint sets.
LEMMA SumsAdd ==
    ASSUME NEW f \in [Times -> Nat], NEW g, Sums(f, g),
           NEW s \in SUBSET Times, NEW r \in SUBSET Times, s \cap r = {}
    PROVE  g[s \cup r] = g[s] + g[r]
<1> DEFINE Bad == {u \in SUBSET s : g[u \cup r] # g[u] + g[r]}
<1>1. ASSUME Bad # {} PROVE FALSE
  <2>1. Bad \subseteq SUBSET Times OBVIOUS
  <2>2. PICK u \in Bad : \A v \in Bad : v \subseteq u => v = u
    <3> HIDE DEF Bad
    <3> QED BY <1>1, <2>1, Smallest
  <2>3. u # {}
    <3>1. g[{}] = 0 /\ g[r] \in Nat BY DEF Sums
    <3>2. CASE u = {}
      <4>1. u \cup r = r /\ g[u] = 0 BY <3>1, <3>2
      <4>2. g[u \cup r] = g[u] + g[r] BY <3>1, <4>1
      <4> QED BY <2>2, <4>2
    <3> QED BY <3>2
  <2>4. PICK x \in u : TRUE BY <2>3
  <2>5. x \in s /\ x \notin r /\ x \in Times /\ u \in SUBSET Times BY <2>1, <2>2, <2>4
  <2>6. g[(u \ {x}) \cup r] = g[u \ {x}] + g[r] BY <2>2, <2>4
  <2>7. (u \cup r) \ {x} = (u \ {x}) \cup r /\ u \cup r \in SUBSET Times /\ x \in u \cup r
    BY <2>4, <2>5
  <2>8. g[u] = f[x] + g[u \ {x}] /\ g[u \cup r] = f[x] + g[(u \ {x}) \cup r]
    BY <2>4, <2>5, <2>7 DEF Sums
  <2>9. f[x] \in Nat /\ g[u \ {x}] \in Nat /\ g[r] \in Nat
    BY <2>5 DEF Sums
  <2> QED BY <2>2, <2>6, <2>8, <2>9
<1> QED BY <1>1

Between(from, to) == {t \in Times : from <= t /\ t < to}

\* Total is such a sum.
LEMMA TotalSums ==
    ASSUME NEW f \in [Times -> Nat], NEW g, Sums(f, g), NEW from, NEW to
    PROVE  Total(f, from, to) = g[Between(from, to)]
<1> DEFINE T == {t \in Times : from <= t /\ t < to}
           Pick(s) == CHOOSE x \in s : TRUE
           Step(h) == [s \in SUBSET T |-> IF s = {} THEN 0 ELSE f[Pick(s)] + h[s \ {Pick(s)}]]
           it == CHOOSE h : h = Step(h)
           h0 == [s \in SUBSET T |-> g[s]]
<1>1. Total(f, from, to) = it[T]
  BY Zenon DEF Total, MapThenSumSet, MapThenFoldSet
<1>2. SUBSET T \subseteq SUBSET Times OBVIOUS
<1>3. \A s \in SUBSET T : s # {} => Pick(s) \in s OBVIOUS
<1>4. T = Between(from, to) BY DEF Between
<1> HIDE DEF T, Pick
<1>5. h0 = Step(h0)
  <2>1. ASSUME NEW s \in SUBSET T
        PROVE  g[s] = IF s = {} THEN 0 ELSE f[Pick(s)] + h0[s \ {Pick(s)}]
    <3>1. CASE s = {} BY <3>1 DEF Sums
    <3>2. CASE s # {}
      <4>1. s \in SUBSET Times /\ Pick(s) \in s /\ s \ {Pick(s)} \in SUBSET T
        BY <1>2, <1>3, <3>2
      <4>2. h0[s \ {Pick(s)}] = g[s \ {Pick(s)}] BY <4>1
      <4> HIDE DEF h0
      <4> QED BY <3>2, <4>1, <4>2 DEF Sums
    <3> QED BY <3>1, <3>2
  <2> QED BY <2>1
<1>6. it = Step(it)
  <2> HIDE DEF h0, Step
  <2> QED BY <1>5, Zenon
<1> HIDE DEF it
<1>7. \A s \in SUBSET T : it[s] = IF s = {} THEN 0 ELSE f[Pick(s)] + it[s \ {Pick(s)}]
  <2>1. PICK h : h = it OBVIOUS
  <2>2. h = Step(h) BY <1>6, <2>1
  <2>3. \A s \in SUBSET T : h[s] = IF s = {} THEN 0 ELSE f[Pick(s)] + h[s \ {Pick(s)}]
    BY <2>2
  <2> QED BY <2>1, <2>3
<1> DEFINE Bad == {s \in SUBSET T : it[s] # g[s]}
<1>8. ASSUME Bad # {} PROVE FALSE
  <2>1. Bad \subseteq SUBSET Times BY <1>2
  <2>2. PICK u \in Bad : \A v \in Bad : v \subseteq u => v = u
    <3> HIDE DEF Bad
    <3> QED BY <1>8, <2>1, Smallest
  <2>3. u \in SUBSET T /\ it[u] # g[u] BY <2>2
  <2>4. u # {} BY <1>7, <2>3 DEF Sums
  <2>5. Pick(u) \in u /\ u \in SUBSET Times BY <1>2, <1>3, <2>3, <2>4
  <2>6. it[u \ {Pick(u)}] = g[u \ {Pick(u)}] BY <2>2, <2>5
  <2>7. g[u] = f[Pick(u)] + g[u \ {Pick(u)}] BY <2>5 DEF Sums
  <2> QED BY <1>7, <2>3, <2>4, <2>6, <2>7
<1> QED BY <1>1, <1>4, <1>8

\* A total is a number.
LEMMA TotalNat ==
    ASSUME NEW f \in [Times -> Nat], NEW a \in Int, NEW b \in Int
    PROVE  Total(f, a, b) \in Nat
<1>1. PICK g : Sums(f, g) BY SumsExist
<1>2. Between(a, b) \in SUBSET Times BY DEF Between
<1>3. Total(f, a, b) = g[Between(a, b)] BY <1>1, TotalSums
<1>4. g \in [SUBSET Times -> Nat] BY <1>1 DEF Sums
<1> QED BY <1>2, <1>3, <1>4

\* A stretch of time may be cut in two; the longer stretch
\* has the larger total.
LEMMA TotalSplits ==
    ASSUME NEW f \in [Times -> Nat], NEW a \in Int, NEW b \in Int, NEW c \in Int,
           a <= b, b <= c
    PROVE  /\ Total(f, a, b) \in Nat /\ Total(f, b, c) \in Nat
           /\ Total(f, a, c) = Total(f, a, b) + Total(f, b, c)
<1>1. PICK g : Sums(f, g) BY SumsExist
<1>2. /\ Between(a, b) \in SUBSET Times /\ Between(b, c) \in SUBSET Times
      /\ Between(a, b) \cap Between(b, c) = {}
      /\ Between(a, c) = Between(a, b) \cup Between(b, c)
  BY DEF Between, Times
<1>3. g[Between(a, c)] = g[Between(a, b)] + g[Between(b, c)]
  BY <1>1, <1>2, SumsAdd
<1>4. /\ Total(f, a, b) = g[Between(a, b)] /\ Total(f, b, c) = g[Between(b, c)]
      /\ Total(f, a, c) = g[Between(a, c)]
  BY <1>1, TotalSums
<1>5. g[Between(a, b)] \in Nat /\ g[Between(b, c)] \in Nat BY <1>1, <1>2 DEF Sums
<1> QED BY <1>3, <1>4, <1>5

\* Where there are no stamps the total is zero.
LEMMA TotalEmpty ==
    ASSUME NEW f \in [Times -> Nat], NEW a \in Int, NEW b \in Int,
           \A t \in Times : a <= t /\ t < b => f[t] = 0
    PROVE  Total(f, a, b) = 0
<1>1. PICK g : Sums(f, g) BY SumsExist
<1> DEFINE zero == [t \in Times |-> 0]
           none == [s \in SUBSET Times |-> 0]
<1>2. Sums(zero, none) BY DEF Sums
<1>3. Between(a, b) \in SUBSET Times /\ \A x \in Between(a, b) : f[x] = zero[x]
  BY DEF Between
<1>4. none[Between(a, b)] = 0 BY <1>3
<1> HIDE DEF zero, none
<1>5. g[Between(a, b)] = none[Between(a, b)] BY <1>1, <1>2, <1>3, SumsAgree
<1> QED BY <1>1, <1>4, <1>5, TotalSums

\* One stamp more.
LEMMA TotalCharge ==
    ASSUME NEW f \in [Times -> Nat], NEW at \in Times, NEW a \in Int, NEW b \in Int,
           NEW f2 \in [Times -> Nat], f2[at] = f[at] + 1,
           \A x \in Times \ {at} : f2[x] = f[x]
    PROVE  /\ a <= at /\ at < b => Total(f2, a, b) = Total(f, a, b) + 1
           /\ ~(a <= at /\ at < b) => Total(f2, a, b) = Total(f, a, b)
<1> DEFINE B == Between(a, b)
<1>1. f2[at] = f[at] + 1 /\ f[at] \in Nat
  OBVIOUS
<1>2. PICK g : Sums(f, g) BY SumsExist
<1>3. PICK g2 : Sums(f2, g2) BY <1>1, SumsExist
<1>4. /\ B \in SUBSET Times /\ B \ {at} \in SUBSET Times
      /\ at \in B <=> a <= at /\ at < b
  BY DEF Between
<1>5. g[B] \in Nat /\ g[B \ {at}] \in Nat BY <1>2, <1>4 DEF Sums
<1> HIDE DEF B
<1>6. g[B \ {at}] = g2[B \ {at}]
  <2>1. \A x \in B \ {at} : f[x] = f2[x] BY <1>4
  <2> QED BY <1>2, <1>3, <1>4, <2>1, SumsAgree
<1>7. Total(f, a, b) = g[B] /\ Total(f2, a, b) = g2[B]
  BY <1>1, <1>2, <1>3, TotalSums DEF B
<1>8. CASE at \in B
  <2>1. g[B] = f[at] + g[B \ {at}] /\ g2[B] = f2[at] + g2[B \ {at}]
    BY <1>2, <1>3, <1>4, <1>8 DEF Sums
  <2>2. Total(f2, a, b) = Total(f, a, b) + 1
    BY <1>1, <1>5, <1>6, <1>7, <2>1
  <2> QED BY <1>1, <1>4, <1>8, <2>2
<1>9. CASE at \notin B
  <2>1. B \ {at} = B BY <1>9
  <2> QED BY <1>1, <1>4, <1>5, <1>6, <1>7, <1>9, <2>1
<1> QED BY <1>8, <1>9

-----------------------------------------------------------------------------
(* SInv is inductive next to IInv. *)

\* Times are naturals, and a stretch of time is at least one unit.
LEMMA StretchOk ==
    /\ Times \subseteq Nat
    /\ Stretch \in Nat /\ Stretch >= 1 /\ Stretch <= Cooldown /\ Stretch <= Window + 1
<1>1. Stretch \in {Cooldown, Window + 1} /\ Stretch <= Cooldown /\ Stretch <= Window + 1
  <2> DEFINE S == {Cooldown, Window + 1}
             c == IF Cooldown <= Window + 1 THEN Cooldown ELSE Window + 1
  <2>1. c \in S /\ \A y \in S : c <= y OBVIOUS
  <2>2. Min(S) \in S /\ \A y \in S : Min(S) <= y
    <3> HIDE DEF S, c
    <3> QED BY <2>1, Zenon DEF Min
  <2>3. Stretch = Min(S) BY DEF Stretch
  <2> QED BY <2>2, <2>3
<1> QED BY <1>1 DEF Times

\* What the stamps and the clock keep when they are left alone.
LEMMA StampsFrame ==
    ASSUME StampsInv, now' = now, UNCHANGED <<registered, counted, raced, ipRaced>>,
           unreported' \in BOOLEAN
    PROVE  StampsInv'
BY DEF StampsInv, Times

\* The account is left alone, and handler h, if it is about to write it, goes
\* by what it is.
LEMMA GuessFrame ==
    ASSUME IInv, GuessInv, UNCHANGED <<user, registered, raced>>,
           NEW h \in Guessers, NEW step, NEW o, Goto(h, step, o),
           step = "register" => StillSo(o)
    PROVE  GuessInv'
<1>1. /\ pc'[h] = step /\ op'[h] = o
      /\ \A g \in Guessers \ {h} : pc'[g] = pc[g] /\ op'[g] = op[g]
  BY DEF Goto, IInv, TypesInv
<1> SUFFICES ASSUME ~raced PROVE GuessInv' BY DEF GuessInv
<1>2. RunInv' BY DEF GuessInv, RunInv, FarBefore
<1>3. \A t \in Times : Total(registered, t, t + Stretch)' <= MaxFails
  BY DEF GuessInv
<1>4. ASSUME NEW g \in Guessers, pc'[g] = "register" PROVE StillSo(op[g])'
  <2>1. CASE g = h BY <1>1, <1>4, <2>1 DEF StillSo
  <2>2. CASE g # h BY <1>1, <1>4, <2>2 DEF StillSo, GuessInv
  <2> QED BY <2>1, <2>2
<1> QED BY <1>2, <1>3, <1>4 DEF GuessInv

\* The record is left alone, and handler h, which had no alarm to raise, goes
\* by what it is if it is about to count.
LEMMA CountFrame ==
    ASSUME IInv, CountInv, UNCHANGED <<attempts, counted, ipRaced, alarms, unreported>>,
           NEW h \in Guessers, NEW step, NEW o, Goto(h, step, o), pc[h] # "emit",
           step \in Counting => FoundStill(step, o)
    PROVE  CountInv'
<1>1. /\ pc'[h] = step /\ op'[h] = o
      /\ \A g \in Guessers \ {h} : pc'[g] = pc[g] /\ op'[g] = op[g]
  BY DEF Goto, IInv, TypesInv
<1> SUFFICES ASSUME ~ipRaced PROVE CountInv' BY DEF CountInv
<1>2. RecordInv' BY DEF CountInv, RecordInv
<1>3. ReportedInv' BY <1>1 DEF CountInv, ReportedInv, BucketMeets
<1>4. ASSUME NEW g \in Guessers, pc'[g] \in Counting PROVE FoundStill(pc[g], op[g])'
  <2>1. CASE g = h BY <1>1, <1>4, <2>1 DEF FoundStill
  <2>2. CASE g # h BY <1>1, <1>4, <2>2 DEF FoundStill, CountInv
  <2> QED BY <2>1, <2>2
<1> QED BY <1>2, <1>3, <1>4 DEF CountInv

\* The account is found.
LEMMA FoundKeepsS ==
    ASSUME IInv, SInv, NEW h \in Guessers,
           UnknownEmail(h) \/ WhileLocked(h) \/ WrongPassword(h) \/ RightPassword(h)
    PROVE  SInv'
<1>0. PICK step \in {"ipFind", "register", "reset"} : \E o :
         /\ Found(h, step, o)
         /\ step = "register" => /\ ~Locked
                                 /\ o = [Idle EXCEPT !.at = now, !.lock = locks,
                                          !.fails = (IF WithinWindow THEN user.failedLogins
                                                     ELSE 0) + 1]
  <2>1. CASE UnknownEmail(h) \/ WhileLocked(h)
    BY <2>1, Zenon DEF UnknownEmail, WhileLocked
  <2>2. CASE WrongPassword(h) BY <2>2, Zenon DEF WrongPassword
  <2>3. CASE RightPassword(h) BY <2>3, Zenon DEF RightPassword
  <2> QED BY <2>1, <2>2, <2>3
<1>1. PICK o :
         /\ Found(h, step, o)
         /\ step = "register" => /\ ~Locked
                                 /\ o = [Idle EXCEPT !.at = now, !.lock = locks,
                                          !.fails = (IF WithinWindow THEN user.failedLogins
                                                     ELSE 0) + 1]
  BY <1>0, Zenon
<1>2. /\ pc[h] = "idle" /\ Goto(h, step, o)
      /\ UNCHANGED <<user, registered, raced, attempts, counted, ipRaced, alarms,
                     unreported, now>>
  BY <1>1 DEF Found, accountSide, addressSide
<1>3. ASSUME step = "register" PROVE StillSo(o)
  <2>0. PICK n : n = (IF WithinWindow THEN user.failedLogins ELSE 0) + 1 OBVIOUS
  <2>1. o.at = now /\ o.fails = n BY <1>1, <1>3, <2>0 DEF Idle
  <2>2. now >= user.lastFailedAt /\ (user.lockedUntil = Never \/ user.lockedUntil <= now)
    BY <1>1, <1>3 DEF IInv, PastInv, TypesInv, Locked, Never
  <2> QED BY <2>0, <2>1, <2>2 DEF StillSo, WithinWindow
<1>4. StampsInv' BY <1>2, StampsFrame DEF SInv, StampsInv
<1>5. GuessInv' BY <1>2, <1>3, GuessFrame DEF SInv
<1>6. CountInv' BY <1>1, <1>2, CountFrame DEF SInv, Counting
<1> QED BY <1>4, <1>5, <1>6 DEF SInv

\* A failure is registered on top of what the account is.
LEMMA RegisterKeepsS ==
    ASSUME IInv, SInv, NEW h \in Guessers, Register(h)
    PROVE  SInv'
<1> DEFINE a == op[h].at
           n == op[h].fails
           L == user.lastFailedAt
           F == user.failedLogins
           U == user.lockedUntil
           R == registered
           R2 == [registered EXCEPT ![op[h].at] = @ + 1]
           S == Stretch
<1>1. /\ pc[h] = "register" /\ Goto(h, "ipFind", Idle)
      /\ UNCHANGED <<attempts, counted, ipRaced, alarms, unreported, now>>
      /\ registered' = R2
      /\ raced' = (raced \/ Another(h, {"register", "reset"}))
  BY DEF Register, addressSide
<1>2. /\ a \in Times /\ n \in Nat /\ L \in {Never} \cup Nat /\ F \in 0..(MaxFails - 1)
      /\ U \in {Never} \cup Nat /\ R \in [Times -> Nat] /\ L <= now
      /\ raced \in BOOLEAN
  BY DEF IInv, SInv, TypesInv, PastInv, StampsInv, Locals, Times
<1>3. /\ R2 \in [Times -> Nat]
      /\ \A t \in Times : R2[t] = IF t = a THEN R[t] + 1 ELSE R[t]
      /\ \A b, c \in Int :
            /\ b <= a /\ a < c => Total(R2, b, c) = Total(R, b, c) + 1
            /\ ~(b <= a /\ a < c) => Total(R2, b, c) = Total(R, b, c)
  <2>1. \A t \in Times : R2[t] = IF t = a THEN R[t] + 1 ELSE R[t] BY <1>2
  <2>2. ASSUME NEW b \in Int, NEW c \in Int
        PROVE  /\ R2 \in [Times -> Nat]
               /\ b <= a /\ a < c => Total(R2, b, c) = Total(R, b, c) + 1
               /\ ~(b <= a /\ a < c) => Total(R2, b, c) = Total(R, b, c)
    <3>1. a \in Times /\ R \in [Times -> Nat] BY <1>2
    <3>2. R2 \in [Times -> Nat] /\ R2[a] = R[a] + 1 /\ \A x \in Times \ {a} : R2[x] = R[x]
      BY <3>1
    <3> HIDE DEF a, R, R2
    <3> QED BY <3>1, <3>2, TotalCharge
  <2>3. 0 \in Int OBVIOUS
  <2> HIDE DEF R2
  <2> QED BY <2>1, <2>2, <2>3
<1>4. /\ user'.lastFailedAt = a
      /\ n >= MaxFails => user'.failedLogins = 0 /\ user'.lockedUntil = a + Cooldown
      /\ ~(n >= MaxFails) => user'.failedLogins = n
  BY DEF Register
<1>5. /\ pc'[h] = "ipFind" /\ op'[h] = Idle
      /\ \A g \in Guessers \ {h} : pc'[g] = pc[g] /\ op'[g] = op[g]
  BY <1>1 DEF Goto, IInv, TypesInv
<1>6. StampsInv'
  <2>1. now' \in Times BY <1>1 DEF SInv, StampsInv, Times
  <2>2. raced' \in BOOLEAN BY <1>1
  <2> QED BY <1>1, <1>3, <2>1, <2>2 DEF SInv, StampsInv
<1>7. CountInv' BY <1>1, CountFrame DEF SInv, Counting
<1>8. GuessInv'
  <2> SUFFICES ASSUME ~raced' PROVE GuessInv' BY DEF GuessInv
  <2>1. /\ ~raced /\ RunInv /\ StillSo(op[h])
        /\ \A t \in Times : Total(R, t, t + S) <= MaxFails
        /\ \A g \in Guessers \ {h} : pc[g] # "register"
    BY <1>1 DEF SInv, GuessInv, Another
  <2>2. S \in Nat /\ S >= 1 /\ S <= Cooldown /\ S <= Window + 1 /\ Times \subseteq Nat
        /\ Never = -1
    BY StretchOk DEF Never, S
  <2> HIDE DEF R, R2, S
  <2>3. /\ a \in Nat /\ L \in Int /\ L >= -1 /\ L <= a
        /\ n = (IF L # Never /\ a - L <= Window THEN F ELSE 0) + 1
        /\ U = Never \/ U <= a
    <3>1. /\ a >= L /\ n = (IF L # Never /\ a - L <= Window THEN F ELSE 0) + 1
          /\ U = Never \/ U <= a
      BY <2>1 DEF StillSo
    <3> HIDE DEF a, n, L, F, U
    <3>2. a \in Nat /\ L \in Int /\ L >= -1 BY <1>2, <2>2
    <3> QED BY <3>1, <3>2
  <2>4. /\ \A t \in Times : R[t] > 0 => t <= L
        /\ F = 0 => (\A t \in Times : R[t] = 0) \/ U >= L + S
        /\ F > 0 => \E s \in 0..L : /\ \A t \in Times : R[t] > 0 /\ t < s => t + S <= s
                                    /\ Total(R, s, L + 1) <= F
    BY <2>1 DEF RunInv, FarBefore, R, S
  <2> HIDE DEF a, n, L, F, U
  <2>5. \A t \in Times : t \in Nat /\ R[t] \in Nat /\ R2[t] \in Nat BY <1>2, <1>3, <2>2
  <2>6. n >= 1 /\ n <= MaxFails BY <1>2, <2>3
  <2>7. \E s \in 0..a : /\ \A t \in Times : R2[t] > 0 /\ t < s => t + S <= s
                        /\ Total(R2, s, a + 1) <= n
    <3>1. CASE L # Never /\ a - L <= Window /\ F > 0
      <4>1. PICK s \in 0..L : /\ \A t \in Times : R[t] > 0 /\ t < s => t + S <= s
                              /\ Total(R, s, L + 1) <= F
        BY <2>4, <3>1
      <4>2. s \in 0..a /\ s <= L + 1 /\ L + 1 <= a + 1 /\ s \in Int /\ s <= a BY <2>3, <4>1
      <4>3. \A t \in Times : R2[t] > 0 /\ t < s => t + S <= s
        BY <1>3, <2>5, <4>1, <4>2
      <4>4. Total(R, L + 1, a + 1) = 0
        <5>1. \A t \in Times : L + 1 <= t /\ t < a + 1 => R[t] = 0 BY <2>3, <2>4, <2>5
        <5> QED BY <1>2, <2>3, <5>1, TotalEmpty
      <4>5. /\ Total(R, s, L + 1) \in Nat /\ Total(R, L + 1, a + 1) \in Nat
            /\ Total(R, s, a + 1) = Total(R, s, L + 1) + Total(R, L + 1, a + 1)
        <5>1. L + 1 \in Int /\ a + 1 \in Int BY <2>3
        <5> QED BY <1>2, <4>2, <5>1, TotalSplits
      <4>6. Total(R2, s, a + 1) = Total(R, s, a + 1) + 1
        BY <1>3, <2>3, <4>2
      <4>7. n = F + 1 BY <2>3, <3>1
      <4>8. F \in Int BY <1>2
      <4> QED BY <4>1, <4>2, <4>3, <4>4, <4>5, <4>6, <4>7, <4>8
    <3>2. CASE ~(L # Never /\ a - L <= Window /\ F > 0)
      <4>1. n = 1 BY <1>2, <2>3, <3>2
      <4>2. ASSUME NEW t \in Times, R[t] > 0 PROVE t + S <= a
        <5>1. t <= L /\ t \in Nat /\ L # Never BY <2>2, <2>4, <2>5, <4>2
        <5>2. CASE F = 0
          <6>1. U >= L + S BY <2>4, <4>2, <5>2
          <6>2. U # Never BY <1>2, <2>2, <2>3, <6>1
          <6> QED BY <1>2, <2>2, <2>3, <5>1, <6>1, <6>2
        <5>3. CASE F # 0
          <6>1. a - L > Window BY <1>2, <2>3, <3>2, <5>1, <5>3
          <6> QED BY <2>2, <2>3, <5>1, <6>1
        <5> QED BY <5>2, <5>3
      <4>3. \A t \in Times : R2[t] > 0 /\ t < a => t + S <= a
        BY <1>3, <2>3, <2>5, <4>2
      <4>4. Total(R, a, a + 1) = 0
        <5>1. \A t \in Times : a <= t /\ t < a + 1 => R[t] = 0 BY <2>2, <2>3, <2>5, <4>2
        <5> QED BY <1>2, <2>3, <5>1, TotalEmpty
      <4>5. Total(R2, a, a + 1) = 1 BY <1>3, <2>3, <4>4
      <4> QED BY <2>3, <4>1, <4>3, <4>5
    <3> QED BY <3>1, <3>2
  <2>8. PICK s \in 0..a : /\ \A t \in Times : R2[t] > 0 /\ t < s => t + S <= s
                          /\ Total(R2, s, a + 1) <= n
    BY <2>7
  <2>9. s \in Int /\ s <= a /\ a + 1 \in Int BY <2>3, <2>8
  <2>10. \A t \in Times : R2[t] > 0 => t <= a BY <1>3, <2>3, <2>4, <2>5
  <2>11. ASSUME NEW t \in Times PROVE Total(R2, t, t + S) <= MaxFails
    <3>1. t \in Nat /\ t + S \in Nat BY <2>2
    <3>2. CASE ~(t <= a /\ a < t + S)
      <4>1. t \in Int /\ t + S \in Int BY <2>2, <3>1
      <4>2. Total(R2, t, t + S) = Total(R, t, t + S) BY <1>3, <3>2, <4>1
      <4>3. Total(R, t, t + S) \in Nat BY <1>2, <4>1, TotalNat
      <4> QED BY <2>1, <4>2, <4>3
    <3>3. CASE t <= a /\ a < t + S
      <4>1. \A u \in Times : t <= u /\ u < s => R2[u] = 0
        BY <2>2, <2>3, <2>5, <2>8, <2>9, <3>1, <3>3
      <4>2. Total(R2, a + 1, t + S) = 0
        <5>1. \A u \in Times : a + 1 <= u /\ u < t + S => R2[u] = 0 BY <2>3, <2>5, <2>10
        <5> QED BY <1>3, <2>9, <3>1, <5>1, TotalEmpty
      <4>3. CASE t >= s
        <5>1. /\ Total(R2, s, t) \in Nat /\ Total(R2, t, a + 1) \in Nat
              /\ Total(R2, s, a + 1) = Total(R2, s, t) + Total(R2, t, a + 1)
          <6>1. t \in Int /\ s <= t /\ t <= a + 1 BY <2>3, <3>1, <3>3, <4>3
          <6> QED BY <1>3, <2>9, <6>1, TotalSplits
        <5>2. Total(R2, t, t + S) = Total(R2, t, a + 1) + Total(R2, a + 1, t + S)
          <6>1. t \in Int /\ t + S \in Int /\ t <= a + 1 /\ a + 1 <= t + S
            BY <2>3, <3>1, <3>3
          <6> QED BY <1>3, <2>9, <6>1, TotalSplits
        <5> QED BY <1>2, <2>6, <2>8, <4>2, <5>1, <5>2, <2>3
      <4>4. CASE t < s
        <5>1. Total(R2, t, s) = 0 BY <1>3, <2>9, <3>1, <4>1, TotalEmpty
        <5>2. /\ Total(R2, s, t + S) \in Nat
              /\ Total(R2, t, t + S) = Total(R2, t, s) + Total(R2, s, t + S)
          <6>1. t \in Int /\ t + S \in Int /\ t <= s /\ s <= t + S
            BY <2>3, <2>9, <3>1, <3>3, <4>4
          <6> QED BY <1>3, <2>9, <6>1, TotalSplits
        <5>3. /\ Total(R2, s, a + 1) \in Nat
              /\ Total(R2, s, t + S) = Total(R2, s, a + 1) + Total(R2, a + 1, t + S)
          <6>1. t + S \in Int /\ s <= a + 1 /\ a + 1 <= t + S BY <2>3, <2>9, <3>1, <3>3
          <6> QED BY <1>3, <2>9, <6>1, TotalSplits
        <5> QED BY <1>2, <2>3, <2>6, <2>8, <4>2, <5>1, <5>2, <5>3
      <4> QED BY <2>9, <3>1, <4>3, <4>4
    <3> QED BY <3>2, <3>3
  <2>12. user'.failedLogins = 0 => user'.lockedUntil >= a + S
    BY <1>4, <2>2, <2>3, <2>6
  <2>13. user'.failedLogins > 0 => user'.failedLogins = n
    BY <1>4
  <2>14. RunInv'
    <3>1. \A t \in Times : registered'[t] > 0 => t <= user'.lastFailedAt
      BY <1>1, <1>4, <2>10
    <3>2. user'.failedLogins > 0 =>
            \E z \in 0..user'.lastFailedAt :
               /\ FarBefore(z)'
               /\ Total(registered, z, user.lastFailedAt + 1)' <= user'.failedLogins
      BY <1>1, <1>4, <2>8, <2>13 DEF FarBefore, S
    <3> QED BY <1>4, <2>12, <3>1, <3>2 DEF RunInv, S
  <2>15. \A t \in Times : Total(registered, t, t + Stretch)' <= MaxFails
    BY <1>1, <2>11 DEF S
  <2>16. \A g \in Guessers : pc'[g] # "register"
    BY <1>5, <2>1
  <2> QED BY <2>14, <2>15, <2>16 DEF GuessInv
<1> QED BY <1>6, <1>7, <1>8 DEF SInv

\* A success begins a new count.
LEMMA ResetKeepsS ==
    ASSUME IInv, SInv, NEW h \in Guessers, Reset(h)
    PROVE  SInv'
<1>1. /\ pc[h] = "reset" /\ Goto(h, "idle", Idle)
      /\ user' = [user EXCEPT !.failedLogins = 0, !.lockedUntil = Never]
      /\ registered' = [t \in Times |-> 0]
      /\ raced' = (raced \/ Another(h, {"register", "reset"}))
      /\ UNCHANGED <<attempts, counted, ipRaced, alarms, unreported, now>>
  BY DEF Reset, Return, addressSide
<1>2. /\ pc'[h] = "idle" /\ op'[h] = Idle
      /\ \A g \in Guessers \ {h} : pc'[g] = pc[g] /\ op'[g] = op[g]
  BY <1>1 DEF Goto, IInv, TypesInv
<1>3. registered' \in [Times -> Nat] /\ \A t \in Times : registered'[t] = 0
  BY <1>1
<1>4. StampsInv'
  <2>1. now' \in Times BY <1>1 DEF SInv, StampsInv, Times
  <2>2. raced' \in BOOLEAN BY <1>1
  <2> QED BY <1>1, <1>3, <2>1, <2>2 DEF SInv, StampsInv
<1>5. CountInv' BY <1>1, CountFrame DEF SInv, Counting
<1>6. GuessInv'
  <2> SUFFICES ASSUME ~raced' PROVE GuessInv' BY DEF GuessInv
  <2>1. \A g \in Guessers : pc'[g] # "register"
    BY <1>1, <1>2 DEF Another
  <2>2. user'.failedLogins = 0 BY <1>1 DEF IInv, TypesInv
  <2>3. RunInv' BY <1>3, <2>2 DEF RunInv
  <2>4. ASSUME NEW t \in Times PROVE Total(registered, t, t + Stretch)' <= MaxFails
    <3>1. PICK f : f = registered' OBVIOUS
    <3>2. t \in Int /\ t + Stretch \in Int BY StretchOk
    <3>3. Total(f, t, t + Stretch) = 0 BY <1>3, <3>1, <3>2, TotalEmpty
    <3>4. Total(registered, t, t + Stretch)' = Total(f, t, t + Stretch) BY <3>1
    <3> QED BY <3>3, <3>4
  <2> QED BY <2>1, <2>3, <2>4 DEF GuessInv
<1> QED BY <1>4, <1>5, <1>6 DEF SInv

\* The address's record is read.
LEMMA IpFindKeepsS ==
    ASSUME IInv, SInv, NEW h \in Guessers, IpFind(h)
    PROVE  SInv'
<1>0. PICK n : n = attempts.count + 1 OBVIOUS
<1> DEFINE o == [Idle EXCEPT !.at = now, !.count = n]
<1>1. PICK step \in Counting :
         /\ Goto(h, step, [Idle EXCEPT !.at = now, !.count = attempts.count + 1])
         /\ step = "ipInsert" => attempts = NoRecord
         /\ step = "ipRestart" => attempts # NoRecord /\ now - attempts.windowStart >= IpWindow
         /\ step = "ipCount" =>
               attempts # NoRecord /\ ~(now - attempts.windowStart >= IpWindow)
  BY DEF IpFind, Counting
<1>2. /\ pc[h] = "ipFind" /\ Goto(h, step, o)
      /\ UNCHANGED <<user, registered, raced, attempts, counted, ipRaced, alarms,
                     unreported, now>>
  BY <1>0, <1>1 DEF IpFind, accountSide, addressSide
<1>3. o.at = now /\ o.count = n BY DEF Idle
<1> HIDE DEF o
<1>4. FoundStill(step, o)
  <2>1. attempts # NoRecord => attempts.windowStart \in 0..now
    BY DEF IInv, PastInv
  <2>2. now \in Nat BY DEF IInv, TypesInv
  <2> QED BY <1>0, <1>1, <1>3, <2>1, <2>2 DEF FoundStill
<1>5. StampsInv' BY <1>2, StampsFrame DEF SInv, StampsInv
<1>6. GuessInv' BY <1>1, <1>2, GuessFrame DEF SInv, Counting
<1>7. CountInv' BY <1>2, <1>4, CountFrame DEF SInv
<1> QED BY <1>5, <1>6, <1>7 DEF SInv

\* The stamps when a failure is charged.
LEMMA ChargeStamps ==
    ASSUME IInv, SInv, NEW h \in Guessers, Charge(h), now' = now,
           UNCHANGED <<registered, raced>>
    PROVE  StampsInv' /\ op[h].at \in Times
<1>1. op[h].at \in Times
  BY DEF IInv, SInv, TypesInv, PastInv, StampsInv, Locals, Times
<1>2. counted' \in [Times -> Nat] BY <1>1 DEF Charge, SInv, StampsInv
<1>3. now' \in Times BY DEF SInv, StampsInv, Times
<1>4. ipRaced' \in BOOLEAN /\ unreported' \in BOOLEAN BY DEF Charge
<1> QED BY <1>1, <1>2, <1>3, <1>4 DEF SInv, StampsInv

\* A window begins.
LEMMA IpStartKeepsS ==
    ASSUME IInv, SInv, NEW h \in Guessers, IpStart(h)
    PROVE  SInv'
<1> DEFINE a == op[h].at
           C == counted
           C2 == [counted EXCEPT ![op[h].at] = @ + 1]
           ws == attempts.windowStart
<1>1. /\ pc[h] \in {"ipInsert", "ipRestart"} /\ Charge(h) /\ Goto(h, "idle", Idle)
      /\ UNCHANGED <<user, registered, raced, alarms, now>>
  BY DEF IpStart, Return, accountSide
<1>2. StampsInv' /\ a \in Times BY <1>1, ChargeStamps
<1>3. GuessInv' BY <1>1, GuessFrame DEF SInv
<1>4. /\ pc'[h] = "idle" /\ op'[h] = Idle
      /\ \A g \in Guessers \ {h} : pc'[g] = pc[g] /\ op'[g] = op[g]
  BY <1>1 DEF Goto, IInv, TypesInv
<1>5. CountInv'
  <2> SUFFICES ASSUME ~ipRaced' PROVE CountInv' BY DEF CountInv
  <2>1. /\ ~ipRaced /\ RecordInv /\ FoundStill(pc[h], op[h])
        /\ \A g \in Guessers \ {h} : pc[g] \notin Counting
    BY <1>1 DEF SInv, CountInv, Charge, Another, Counting
  <2>2. attempts' = [count |-> 1, windowStart |-> a]
    BY <2>1 DEF IpStart, FoundStill
  <2>3. attempts'.count = 1 /\ attempts'.windowStart = a /\ attempts' # NoRecord
    BY <2>2 DEF NoRecord
  <2>4. /\ C \in [Times -> Nat] /\ C2 \in [Times -> Nat] /\ C2[a] = C[a] + 1
        /\ \A t \in Times \ {a} : C2[t] = C[t]
        /\ counted' = C2
    BY <1>1, <1>2 DEF SInv, StampsInv, Charge
  <2>5. /\ a \in Nat /\ Times \subseteq Nat
    BY <1>2 DEF Times
  <2>6. ASSUME NEW t \in Times, C[t] > 0 PROVE t < a
    <3>1. attempts # NoRecord BY <2>1, <2>6 DEF RecordInv
    <3>2. ws \in Nat /\ t < ws + IpWindow /\ ws + IpWindow <= a
      BY <1>1, <2>1, <2>6, <3>1 DEF RecordInv, FoundStill, IInv, PastInv
    <3> QED BY <2>5, <3>2
  <2> HIDE DEF a, C, C2
  <2>7. \A t \in Times : C[t] \in Nat BY <2>4
  <2>8. \A t \in Times : C2[t] > 0 => t < a + IpWindow
    BY <2>4, <2>5, <2>6, <2>7
  <2>9. Total(C2, a, a + IpWindow) = 1
    <3>1. a \in Int /\ a + IpWindow \in Int /\ a < a + IpWindow BY <2>5
    <3>2. \A t \in Times : a <= t /\ t < a + IpWindow => C[t] = 0 BY <2>5, <2>6, <2>7
    <3>3. Total(C, a, a + IpWindow) = 0 BY <2>4, <3>1, <3>2, TotalEmpty
    <3>4. Total(C2, a, a + IpWindow) = Total(C, a, a + IpWindow) + 1
      BY <1>2, <2>4, <3>1, TotalCharge
    <3> QED BY <3>3, <3>4
  <2>10. RecordInv'
    BY <2>3, <2>4, <2>8, <2>9 DEF RecordInv
  <2>11. ReportedInv' BY <2>3 DEF ReportedInv
  <2>12. \A g \in Guessers : pc'[g] \notin Counting
    BY <1>4, <2>1 DEF Counting
  <2> QED BY <2>10, <2>11, <2>12 DEF CountInv
<1> QED BY <1>2, <1>3, <1>5 DEF SInv

\* One more in the window; at the threshold the alarm is on its way.
LEMMA IpCountKeepsS ==
    ASSUME IInv, SInv, NEW h \in Guessers, IpCount(h)
    PROVE  SInv'
<1> DEFINE a == op[h].at
           C == counted
           C2 == [counted EXCEPT ![op[h].at] = @ + 1]
           ws == attempts.windowStart
<1>1. /\ pc[h] = "ipCount" /\ Charge(h)
      /\ attempts' = [attempts EXCEPT !.count = op[h].count]
      /\ IF op[h].count >= Threshold THEN Goto(h, "emit", op[h]) ELSE Goto(h, "idle", Idle)
      /\ UNCHANGED <<user, registered, raced, alarms, now>>
  BY DEF IpCount, Return, accountSide
<1>2. StampsInv' /\ a \in Times BY <1>1, ChargeStamps
<1>3. PICK step, o :
         /\ step \in {"idle", "emit"}
         /\ Goto(h, step, o)
         /\ op[h].count >= Threshold => step = "emit" /\ o = op[h]
  BY <1>1
<1>4. GuessInv' BY <1>1, <1>3, GuessFrame DEF SInv
<1>5. /\ pc'[h] = step /\ op'[h] = o
      /\ \A g \in Guessers \ {h} : pc'[g] = pc[g] /\ op'[g] = op[g]
  BY <1>3 DEF Goto, IInv, TypesInv
<1>6. CountInv'
  <2> SUFFICES ASSUME ~ipRaced' PROVE CountInv' BY DEF CountInv
  <2>1. /\ ~ipRaced /\ RecordInv /\ FoundStill("ipCount", op[h])
        /\ \A g \in Guessers \ {h} : pc[g] \notin Counting
    BY <1>1 DEF SInv, CountInv, Charge, Another, Counting
  <2>2. /\ attempts # NoRecord /\ ws \in Nat /\ attempts.count \in Nat
        /\ op[h].count = attempts.count + 1
        /\ ws <= a /\ a < ws + IpWindow
    BY <2>1 DEF FoundStill, IInv, TypesInv, PastInv
  <2>3. attempts'.count = attempts.count + 1 /\ attempts'.windowStart = ws
        /\ attempts' # NoRecord
    BY <1>1, <2>2 DEF IInv, TypesInv, NoRecord
  <2>4. /\ C \in [Times -> Nat] /\ C2 \in [Times -> Nat] /\ C2[a] = C[a] + 1
        /\ \A t \in Times \ {a} : C2[t] = C[t]
        /\ counted' = C2
    BY <1>1, <1>2 DEF SInv, StampsInv, Charge
  <2>5. /\ \A t \in Times : C[t] > 0 => t < ws + IpWindow
        /\ Total(C, ws, ws + IpWindow) = attempts.count
    BY <2>1, <2>2 DEF RecordInv
  <2> HIDE DEF a, C, C2, ws
  <2>6. \A t \in Times : C2[t] > 0 => t < ws + IpWindow
    BY <2>2, <2>4, <2>5
  <2>7. Total(C2, ws, ws + IpWindow) = attempts.count + 1
    <3>1. ws \in Int /\ ws + IpWindow \in Int BY <2>2
    <3> QED BY <1>2, <2>2, <2>4, <2>5, <3>1, TotalCharge
  <2>8. RecordInv'
    BY <2>3, <2>4, <2>6, <2>7 DEF RecordInv
  <2>9. ReportedInv'
    <3>1. SUFFICES ASSUME attempts'.count >= Threshold
                   PROVE  \E g \in Guessers : /\ pc'[g] = "emit"
                                              /\ ws <= op'[g].at /\ op'[g].at < ws + IpWindow
      BY <2>3 DEF ReportedInv
    <3>2. pc'[h] = "emit" /\ op'[h] = op[h] BY <1>3, <1>5, <2>2, <2>3, <3>1
    <3> QED BY <2>2, <3>2 DEF a
  <2>10. \A g \in Guessers : pc'[g] \notin Counting
    BY <1>3, <1>5, <2>1 DEF Counting
  <2> QED BY <2>8, <2>9, <2>10 DEF CountInv
<1> QED BY <1>2, <1>4, <1>6 DEF SInv

\* An alarm from within a window is of a bucket that meets it.
LEMMA AlarmMeets ==
    ASSUME NEW at \in Nat, NEW start \in Nat, start <= at, at < start + IpWindow
    PROVE  BucketMeets(at \div IpWindow, start)
<1>1. PICK q \in Nat : q = at \div IpWindow OBVIOUS
<1>2. q * IpWindow <= at /\ at < (q + 1) * IpWindow BY <1>1
<1>3. PICK x \in Nat, y \in Nat : x = q * IpWindow /\ y = (q + 1) * IpWindow OBVIOUS
<1>4. x < start + IpWindow /\ start < y BY <1>2, <1>3
<1> QED BY <1>1, <1>3, <1>4 DEF BucketMeets

\* The alarm is raised, or lost.
LEMMA EmitKeepsS ==
    ASSUME IInv, SInv, NEW h \in Guessers, Emit(h) \/ EmitFails(h) \/ Die(h)
    PROVE  SInv'
<1>1. /\ Goto(h, "idle", Idle)
      /\ UNCHANGED <<user, registered, raced, attempts, counted, ipRaced, now>>
      /\ unreported' \in BOOLEAN
  BY DEF Emit, EmitFails, Die, Return, accountSide, addressSide, SInv, StampsInv
<1>2. /\ pc'[h] = "idle" /\ op'[h] = Idle
      /\ \A g \in Guessers \ {h} : pc'[g] = pc[g] /\ op'[g] = op[g]
  BY <1>1 DEF Goto, IInv, TypesInv
<1>3. StampsInv' BY <1>1, StampsFrame DEF SInv
<1>4. GuessInv' BY <1>1, GuessFrame DEF SInv
<1>5. CountInv'
  <2> SUFFICES ASSUME ~ipRaced PROVE CountInv' BY <1>1 DEF CountInv
  <2>1. RecordInv /\ ReportedInv /\ \A g \in Guessers : pc[g] \in Counting => FoundStill(pc[g], op[g])
    BY DEF SInv, CountInv
  <2>2. RecordInv' BY <1>1, <2>1 DEF RecordInv
  <2>3. \A g \in Guessers : pc'[g] \in Counting => FoundStill(pc[g], op[g])'
    BY <1>1, <1>2, <2>1 DEF Counting, FoundStill
  <2>4. ReportedInv'
    <3> SUFFICES ASSUME ~unreported', attempts # NoRecord, attempts.count >= Threshold
                 PROVE  ReportedInv'
      BY <1>1 DEF ReportedInv
    <3>1. /\ ~unreported
          /\ alarms \subseteq alarms'
          /\ (pc[h] = "emit") => (alarms' = alarms \cup {op[h].at \div IpWindow})
      <4>1. CASE Emit(h)
        BY <4>1 DEF Emit
      <4>2. CASE EmitFails(h)
        BY <4>2 DEF EmitFails
      <4>3. CASE Die(h)
        <5>1. unreported \in BOOLEAN BY DEF SInv, StampsInv
        <5>2. ~unreported /\ pc[h] # "emit" BY <4>3, <5>1 DEF Die
        <5> QED BY <4>3, <5>2 DEF Die
      <4> QED BY <4>1, <4>2, <4>3
    <3>4. attempts' = attempts
      BY <1>1
    <3>5. ASSUME \E b \in alarms' : BucketMeets(b, attempts.windowStart)
          PROVE  ReportedInv'
      <4>1. PICK b \in alarms' : BucketMeets(b, attempts.windowStart) BY <3>5
      <4>2. BucketMeets(b, attempts.windowStart)' BY <3>4, <4>1 DEF BucketMeets
      <4> QED BY <4>1, <4>2 DEF ReportedInv
    <3>2. CASE \E b \in alarms : BucketMeets(b, attempts.windowStart)
      BY <3>1, <3>2, <3>5
    <3>3. CASE \E g \in Guessers : /\ pc[g] = "emit"
                                   /\ attempts.windowStart <= op[g].at
                                   /\ op[g].at < attempts.windowStart + IpWindow
      <4>1. PICK g \in Guessers : /\ pc[g] = "emit"
                                  /\ attempts.windowStart <= op[g].at
                                  /\ op[g].at < attempts.windowStart + IpWindow
        BY <3>3
      <4>2. CASE g # h BY <1>1, <1>2, <4>1, <4>2 DEF ReportedInv
      <4>3. CASE g = h
        <5>1. op[h].at \in Nat /\ attempts.windowStart \in Nat
          BY DEF IInv, TypesInv, PastInv, Locals
        <5>2. BucketMeets(op[h].at \div IpWindow, attempts.windowStart)
          BY <4>1, <4>3, <5>1, AlarmMeets
        <5>3. \E b \in alarms' : BucketMeets(b, attempts.windowStart)
          BY <3>1, <4>1, <4>3, <5>2
        <5> QED BY <3>5, <5>3
      <4> QED BY <4>2, <4>3
    <3>6. attempts # NoRecord /\ attempts.count >= Threshold
      BY <3>4
    <3> QED BY <2>1, <3>1, <3>2, <3>3, <3>6 DEF ReportedInv
  <2> QED BY <1>1, <2>2, <2>3, <2>4 DEF CountInv
<1> QED BY <1>3, <1>4, <1>5 DEF SInv

\* SInv holds at first.
LEMMA InitS == Init => SInv
<1> SUFFICES ASSUME Init PROVE SInv OBVIOUS
<1> USE DEF Init
<1>1. StampsInv
  <2>1. now \in Times BY LockoutAssumption DEF Times
  <2>2. /\ registered \in [Times -> Nat] /\ counted \in [Times -> Nat]
        /\ raced \in BOOLEAN /\ ipRaced \in BOOLEAN /\ unreported \in BOOLEAN
    <3> HIDE DEF Times
    <3> QED OBVIOUS
  <2> QED BY <2>1, <2>2 DEF StampsInv
<1>2. GuessInv
  <2>1. ASSUME NEW t \in Times PROVE Total(registered, t, t + Stretch) <= MaxFails
    <3>1. t \in Int /\ t + Stretch \in Int BY StretchOk
    <3>2. Total(registered, t, t + Stretch) = 0 BY <1>1, <3>1, TotalEmpty DEF StampsInv
    <3> QED BY <3>2
  <2>2. RunInv BY DEF RunInv
  <2> QED BY <2>1, <2>2 DEF GuessInv
<1>3. CountInv BY DEF CountInv, RecordInv, ReportedInv, Counting
<1> QED BY <1>1, <1>2, <1>3 DEF SInv

\* SInv is inductive next to IInv.
LEMMA NextS == IInv /\ SInv /\ [Next]_vars => SInv'
<1> SUFFICES ASSUME IInv, SInv, [Next]_vars PROVE SInv' OBVIOUS
<1>1. ASSUME UNCHANGED <<accountSide, addressSide, alarms, unreported, pc, op>>, now' \in Times
      PROVE  SInv'
  <2>1. StampsInv' BY <1>1 DEF SInv, StampsInv, accountSide, addressSide
  <2>2. GuessInv'
    BY <1>1 DEF SInv, GuessInv, RunInv, FarBefore, StillSo, accountSide
  <2>3. CountInv'
    BY <1>1 DEF SInv, CountInv, RecordInv, ReportedInv, FoundStill, BucketMeets, addressSide
  <2> QED BY <2>1, <2>2, <2>3 DEF SInv
<1>2. CASE Tick
  BY <1>1, <1>2 DEF Tick, SInv, StampsInv, Times
<1>3. CASE UNCHANGED vars
  BY <1>1, <1>3 DEF vars, SInv, StampsInv, Times
<1> QED BY <1>2, <1>3, FoundKeepsS, RegisterKeepsS, ResetKeepsS, IpFindKeepsS, IpStartKeepsS,
           IpCountKeepsS, EmitKeepsS DEF Next

-----------------------------------------------------------------------------
\* The invariants that the theorems below are read off: IInv by itself,
LEMMA Invariant == Spec => []IInv
BY InitInv, NextInv, PTL DEF Spec

\* and SInv next to it.
LEMMA SumsInvariant == Spec => []SInv
<1>1. Init => IInv /\ SInv BY InitInv, InitS
<1>2. IInv /\ SInv /\ [Next]_vars => IInv' /\ SInv' BY NextInv, NextS
<1> QED BY <1>1, <1>2, PTL DEF Spec

\* The counters stay below the caps that empty them, and no stamp is of a
\* time to come but the end of a lock (lib/auth.js, lib/anomaly.js).
THEOREM CountersAreTyped == Spec => []TypeOK
<1>1. ASSUME IInv PROVE TypeOK
  <2>1. user.lastFailedAt \in {Never} \cup 0..now
    BY <1>1 DEF IInv, TypesInv, PastInv
  <2>2. user.lockedUntil \in {Never} \cup Cooldown..(now + Cooldown)
    BY <1>1 DEF IInv, TypesInv, PastInv
  <2> QED BY <1>1, <2>1, <2>2 DEF IInv, TypesInv, PastInv, TypeOK
<1> QED BY <1>1, Invariant, PTL

\* "A correct password while locked is still refused" (lib/auth.js): no lock
\* in force is ended or cut short by a request that found the account after it.
THEOREM LocksHold == Spec => LockHolds
<1>1. ASSUME IInv, [Next]_vars, Locked, user'.lockedUntil < user.lockedUntil
      PROVE  \E h \in Guessers : pc[h] \in {"register", "reset"} /\ op[h].lock < locks
  <2>1. PICK h \in Guessers : Register(h) \/ Reset(h)
    <3>1. user' # user BY <1>1 DEF IInv, TypesInv, Never
    <3> QED BY <1>1, <3>1 DEF Next, vars, accountSide, UnknownEmail, WhileLocked, WrongPassword,
              RightPassword, Found, IpFind, IpStart, IpCount, Emit, EmitFails, Die, Tick
  <2>2. pc[h] \in {"register", "reset"} BY <2>1 DEF Register, Reset
  <2>3. op[h].lock <= locks /\ op[h].lock \in Nat /\ locks \in Nat
    BY <1>1 DEF IInv, TypesInv, PastInv, Locals
  <2>4. op[h].lock # locks BY <1>1, <2>2 DEF IInv, OpenInv, Writing
  <2> QED BY <2>2, <2>3, <2>4
<1>2. IInv /\ [Next]_vars =>
        [Locked /\ user'.lockedUntil < user.lockedUntil =>
            \E h \in Guessers : /\ pc[h] \in {"register", "reset"}
                                /\ op[h].lock < locks]_vars
  BY <1>1
<1> QED BY <1>2, Invariant, PTL DEF Spec, LockHolds

\* Lock after maxFails within the window (lib/auth.js registerFailedLogin): no
\* stretch shorter than the cooldown and within the window has more than
\* MaxFails wrong guesses in it, unless the password was given in between or
\* two requests were writing the account at the same time.
THEOREM GuessesCapped == Spec => []GuessesAreCapped
<1>1. SInv => GuessesAreCapped
  BY DEF SInv, GuessInv, GuessesAreCapped
<1> QED BY <1>1, SumsInvariant, PTL

\* A threshold of failures in one window raises an alarm for a bucket that
\* meets it (lib/anomaly.js recordLoginFailure, emit), unless two requests
\* counted at the same time or the alarm of the very last failure was lost.
THEOREM IncidentsReported == Spec => []IncidentsAreReported
<1>1. SInv => IncidentsAreReported
  <2> SUFFICES ASSUME SInv, Incident, ~ipRaced, ~unreported, \A h \in Guessers : pc[h] # "emit"
               PROVE  \E b \in alarms : BucketMeets(b, attempts.windowStart)
    BY DEF IncidentsAreReported
  <2>1. RecordInv /\ ReportedInv
    BY DEF SInv, CountInv
  <2>2. attempts # NoRecord /\ attempts.count >= Threshold
    BY <2>1 DEF Incident, RecordInv
  <2> QED BY <2>1, <2>2 DEF ReportedInv
<1> QED BY <1>1, SumsInvariant, PTL

-----------------------------------------------------------------------------
(* Nobody is locked out for less. *)

\* The wrong guesses on record with a stamp no older than the given one.
Since(stamps, from) == Total(stamps, from, MaxTime + 1)

\* The account counts no failures but wrong guesses made since its last lock
\* was over.
EarnedInv == ~raced => user.failedLogins <= Since(registered, user.lockedUntil)

\* An account is locked for maxFails wrong guesses, none of which an earlier
\* lock was already due to, and since the password was last given: unless two
\* requests were writing the account at the same time (lib/auth.js,
\* registerFailedLogin).
LocksAreEarned ==
    [][locks' # locks /\ ~raced' =>
          Since(registered', user.lockedUntil) >= MaxFails]_vars

\* A failure that is registered is one of those that count.
LEMMA RegisterEarns ==
    ASSUME IInv, SInv, EarnedInv, NEW h \in Guessers, Register(h), ~raced'
    PROVE  /\ EarnedInv'
           /\ locks' # locks => Since(registered', user.lockedUntil) >= MaxFails
<1> DEFINE a == op[h].at
           n == op[h].fails
           U == user.lockedUntil
           R2 == registered'
<1>1. /\ ~raced /\ pc[h] = "register" /\ R2 = [registered EXCEPT ![a] = @ + 1]
      /\ n < MaxFails => user'.failedLogins = n /\ user'.lockedUntil = U /\ locks' = locks
      /\ n >= MaxFails => user'.failedLogins = 0 /\ user'.lockedUntil = a + Cooldown
  <2>1. n \in Int /\ MaxFails \in Int
    BY DEF IInv, TypesInv, Locals
  <2>2. /\ ~raced /\ pc[h] = "register" /\ R2 = [registered EXCEPT ![a] = @ + 1]
        /\ locks' = IF n >= MaxFails THEN locks + 1 ELSE locks
        /\ user' = [failedLogins |-> IF n >= MaxFails THEN 0 ELSE n, lastFailedAt |-> a,
                    lockedUntil |-> IF n >= MaxFails THEN a + Cooldown ELSE U]
    BY DEF Register
  <2> HIDE DEF n, a, U, R2
  <2> QED BY <2>1, <2>2
<1>2. /\ a \in Times /\ a \in Nat /\ n \in Nat /\ U \in Int /\ user.failedLogins \in Nat
      /\ registered \in [Times -> Nat]
  <2>1. /\ op[h].at \in Nat /\ op[h].fails \in Nat /\ op[h].at <= now /\ now \in 0..MaxTime
        /\ registered \in [Times -> Nat]
    BY DEF IInv, SInv, TypesInv, PastInv, StampsInv, Locals, Times
  <2>2. user.lockedUntil \in {Never} \cup Nat /\ user.failedLogins \in 0..(MaxFails - 1)
    BY DEF IInv, TypesInv
  <2> QED BY <2>1, <2>2 DEF Never, Times
<1>3. /\ U <= a /\ n <= user.failedLogins + 1
  <2>1. StillSo(op[h])
    BY <1>1 DEF SInv, GuessInv
  <2>2. U = Never \/ U <= a
    BY <2>1 DEF StillSo
  <2>3. n = user.failedLogins + 1 \/ n = 0 + 1
    BY <2>1 DEF StillSo
  <2> QED BY <1>2, <2>2, <2>3 DEF Never
<1>4. /\ R2 \in [Times -> Nat] /\ R2[a] = registered[a] + 1
      /\ \A x \in Times \ {a} : R2[x] = registered[x]
  BY <1>1, <1>2
<1>5. MaxTime + 1 \in Int /\ a < MaxTime + 1 /\ MaxFails \in Nat /\ Cooldown \in Nat
  BY <1>2, LockoutAssumption DEF Times
<1> HIDE DEF a, n, U, R2
<1>6. Since(R2, U) = Since(registered, U) + 1
  BY <1>2, <1>3, <1>4, <1>5, TotalCharge DEF Since
<1>7. Since(registered, U) \in Nat /\ Since(R2, a + Cooldown) \in Nat
  <2>1. a + Cooldown \in Int
    BY <1>2, <1>5
  <2> QED BY <1>2, <1>4, <1>5, <2>1, TotalNat DEF Since
<1>8. user.failedLogins <= Since(registered, U)
  BY <1>1 DEF EarnedInv, U
<1>9. n <= Since(R2, U)
  BY <1>2, <1>3, <1>6, <1>7, <1>8
<1>10. CASE n < MaxFails
  <2>1. user'.failedLogins <= Since(R2, user'.lockedUntil)
    BY <1>1, <1>9, <1>10
  <2> QED BY <1>1, <1>10, <2>1 DEF EarnedInv, R2
<1>11. CASE n >= MaxFails
  <2>1. user'.failedLogins <= Since(R2, user'.lockedUntil)
    BY <1>1, <1>7, <1>11
  <2>2. Since(R2, U) >= MaxFails
    BY <1>2, <1>5, <1>6, <1>7, <1>9, <1>11
  <2> QED BY <2>1, <2>2 DEF EarnedInv, R2, U
<1> QED BY <1>2, <1>5, <1>10, <1>11

\* The account counts what was guessed since its last lock.
LEMMA EarnedKept ==
    ASSUME IInv, SInv, EarnedInv, [Next]_vars
    PROVE  /\ EarnedInv'
           /\ locks' # locks /\ ~raced' => Since(registered', user.lockedUntil) >= MaxFails
<1>1. ASSUME NEW h \in Guessers, Register(h)
      PROVE  /\ EarnedInv'
             /\ locks' # locks /\ ~raced' => Since(registered', user.lockedUntil) >= MaxFails
  <2>1. CASE raced'
    BY <2>1 DEF EarnedInv
  <2> QED BY <1>1, <2>1, RegisterEarns
<1>2. ASSUME NEW h \in Guessers, Reset(h)
      PROVE  EarnedInv' /\ locks' = locks
  <2>1. /\ locks' = locks /\ user'.failedLogins = 0 /\ user'.lockedUntil = Never
        /\ registered' \in [Times -> Nat]
    BY <1>2 DEF Reset, IInv, TypesInv
  <2>2. MaxTime + 1 \in Int /\ Never \in Int
    BY LockoutAssumption DEF Never
  <2>3. Since(registered', user'.lockedUntil) \in Nat
    BY <2>1, <2>2, TotalNat DEF Since
  <2>4. user'.failedLogins <= Since(registered', user'.lockedUntil)
    BY <2>1, <2>3
  <2> QED BY <2>1, <2>4 DEF EarnedInv
<1>3. CASE UNCHANGED accountSide
  BY <1>3 DEF accountSide, EarnedInv
<1>4. \/ UNCHANGED accountSide
      \/ \E h \in Guessers : Register(h) \/ Reset(h)
  BY DEF Next, vars, UnknownEmail, WhileLocked, WrongPassword, RightPassword, Found, IpFind,
         IpStart, IpCount, Emit, EmitFails, Die, Tick
<1> QED BY <1>1, <1>2, <1>3, <1>4

\* Nobody is locked out for less than maxFails wrong guesses: every lock has
\* its own, made after the lock before was over.
THEOREM LocksEarned == Spec => LocksAreEarned
<1>1. Init => EarnedInv
  <2> SUFFICES ASSUME Init PROVE EarnedInv OBVIOUS
  <2>1. /\ user.failedLogins = 0 /\ user.lockedUntil = Never
        /\ registered \in [Times -> Nat]
    BY DEF Init
  <2>2. MaxTime + 1 \in Int /\ Never \in Int
    BY LockoutAssumption DEF Never
  <2>3. Since(registered, user.lockedUntil) \in Nat
    BY <2>1, <2>2, TotalNat DEF Since
  <2>4. user.failedLogins <= Since(registered, user.lockedUntil)
    BY <2>1, <2>3
  <2> QED BY <2>4 DEF EarnedInv
<1>2. IInv /\ SInv /\ EarnedInv /\ [Next]_vars => EarnedInv'
  BY EarnedKept
<1>3. IInv /\ SInv /\ EarnedInv /\ [Next]_vars =>
        [locks' # locks /\ ~raced' => Since(registered', user.lockedUntil) >= MaxFails]_vars
  BY EarnedKept
<1> QED BY <1>1, <1>2, <1>3, Invariant, SumsInvariant, PTL DEF Spec, LocksAreEarned
=============================================================================
