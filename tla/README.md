# Verification of the multi-account backend

TLA+ models, TLC runs and TLAPS proofs for the Node.js service in this
repository: accounts and sessions, a remote-command queue, and two
append-only, hash-chained ledgers with signed anchors, on MongoDB or on an
in-memory repository.

## 1. The system

One Node.js process per instance (or one warm serverless function) runs
`routes.js`: every request is an async handler, and the only points where
another handler can run are the awaited repository calls. Several instances, and
`cli.js`, share one MongoDB. Nothing locks; correctness rests on
compare-and-swap updates (`updateOne` with a filter), on unique indexes, and on
an optimistic append. The models take exactly this granularity: **one awaited
repository call is one step**, and everything else interleaves between two steps.

| component | state | operations | what makes it correct |
|---|---|---|---|
| audit ledger (`lib/audit.js`, `lib/hashchain.js`) | `audit_events`, `audit_anchors` | recordEvent, anchorNow, verifyAuditChain, exportSigned | the chain verifies at all times; append-only; a retry does not duplicate |
| maintenance (`lib/scheduler.js`, `lib/retention.js`) | none of its own | runMaintenance: anchor, verify, alert, prune | prunes only expired prefixes that end at an anchor; terminates; anchors everything eventually |
| repository (`lib/repo.js`, `mongoRepo.js`) | the collections | insert, find, updateById, updateOne, deleteBelowSeq | unique indexes, atomic single calls |
| sessions (`lib/auth.js`) | `sessions`, `users.status`, the password | login, webLogin, refresh, logout, changePassword, three revocations | one holder per token family; nothing stamped at login changes; revocations reach everything |
| lockout (`lib/auth.js`, `lib/anomaly.js`) | `users.failedLogins/lockedUntil`, `login_attempts` | registerFailedLogin, verifyAgainstUser | a bounded number of guesses per window |
| accounts and codes (`lib/signup.js`, `lib/users.js`, `lib/admin.js`, `lib/otp.js`) | `users`, `otps` | sign-up, createManagedUser, createAdmin, approve, reject, issueOtp, verifyOtp, verifySignup | one account per address; every authority has an entry or a code behind it; guesses and sends are bounded |
| commands (`lib/commands.js`) | `commands`, `devices.status` | enqueue, poll, ack | effects before delivery; one terminal status; at-least-once delivery |
| entitlements (`lib/entitlements.js`) | `users` flags, `permission_changes`, `perm_anchors` | setEntitlement, requireAdmin, assertCan | every applied change is in the ledger first |
| transfers, watermarks (`lib/transfer.js`, `lib/watermark.js`) | `watermarks`, `watermark_imports`, `users.exportQuota` | authorizeExport, authorizeImport, mint, recordImport, trace | a retry is answered alike; the quota counts; imports are traced |
| devices (`lib/presence.js`, `lib/devicecreds.js`) | `devices` | recordPresence, recordHeartbeat, deadManScan, storeClaudeCred, readClaudeCred | a device has one owner; travel and silence are flagged |
| access control (`lib/access.js`, `lib/netip.js`, `lib/geo.js`) | `ip_rules`, `users.geoFence`, `users.blockedCountries` | addIpRule, removeIpRule, setGeoFence, setBlockedCountries; the enforcement in front of every handler | no blocked address gets in, however it is written |
| routes (`routes.js`) | none | the table of guards and the pipeline in front of a handler | a view-only token changes nothing |
| usage (`lib/usagestore.js`) | `usage` | recordUsageSnapshot, myUsage | a merge neither loses nor duplicates a point |
| reports (`lib/reporting.js`, `public/adminviews.js`) | none | the reports and the view models made of them | what is shown is what is enforced |
| start-up (`context.js`, `api/index.js`, `mongoRepo.js`) | the cached connection and context | getDb, ensureIndexes, getWarmContext | indexes exist before writes |
| web console (`public/admin.js`) | tokens and rows in the tab | api with its refresh and retry, the loaders, decide, sign-in, sign-out | a session ends for a reason; the tokens belong to the name shown; the newest answer is shown |

`PROJECT.json` lists under *hazards*, line by line, where these go wrong in ways
a unit test would hardly reach.

## 2. Modules

### The ledger

* `ChainVerify` - the hash chain and `verifyEvents` as pure operators. An entry
  hash *is* the tuple it is computed from, a signature *is* the domain it was made
  for: HMAC and Ed25519 are idealised as injective. All seven fault reasons and
  the order of the checks are the code's.
* `Ledger` - one ledger under concurrent `recordEvent` calls (`Writers`) and
  maintenance ticks (`Tickers`). `pc[p]` names the repository call the handler
  makes next, `op[p]` holds its local variables (the head it read, the stamp it
  took, the events it read for verification ...). `rows`, `headSeq` and `anchors`
  are the collections; `log` is a history variable: the row first inserted at
  each seq. `Die(p)` is a rejected repository call or a killed process.
* `AbstractLedger` - what the ledger promises: a log that only grows, positions
  of it that get pinned, and proper prefixes, ending at a pin, that are forgotten.
* `LedgerProps` - the properties, the refinement mapping to `AbstractLedger`, the
  fairness and the liveness properties.
* `LedgerMongo` - the ledger on MongoDB where it differs: `deleteMany` may be
  interrupted half way, and the unique index on `anchors.seqHigh` rejects a
  second anchor of the same head, which ends the tick with an error.
* `StorageFaults` - the verifier against a damaged store: rows lost, altered or
  transplanted from the other ledger, anchors lost or transplanted.

The two ledgers (`audit_events` and `permission_changes`) run through the same
functions on disjoint collections, so one is modelled; `Domain` is its tag.

### Sessions

* `Sessions` - the `sessions` rows of one user, with `users.status` and the
  password, under concurrent handlers. Tokens are numbered in the order they are
  generated, a token stands for its hash, a family is named after its first token.
  `refresh` is five calls: find the row, find the replacement (if the row was
  rotated), find the user, the compare-and-swap, the insert of the child; each
  revocation is one find and one update per row found. `TtlDelete` is MongoDB's
  TTL index, `AdminSetsStatus` is `setEntitlement` on the status field.
* `AbstractFamilies` - a family is unused, live, rotating or closed.
* `SessionProps` - the properties and the refinement mapping. The history variables
  of `Sessions` remember what finished revocations and password changes have reached.

### Lockout

* `Lockout` - sign-ins that guess at one account from one address: what
  `verifyAgainstUser` decides on the row it found, `registerFailedLogin` and the reset
  after a success as one write each, and `recordLoginFailure` with its find, its
  write and its alarm. The clock is read in the step of the call that follows.
* `LockoutProps` - the properties. `registered` and `counted` (history) hold the
  failures by the time stamp they were charged with.

### Commands and entitlements

* `Commands` - the command queue of one device, the effects that enqueueing has on
  account and device before the row is inserted, polls with redelivery,
  acknowledgements, and admins who set the account's status directly. An admin
  request carries its remaining calls in `todo`, in the order `applyServerEffects`
  and `setEntitlement` make them. `inbox` is what the device has been sent; a
  response may get lost.
* `CommandProps` - the properties; `effects`, `reached`, `unwritten` and `tangled`
  are the history they speak of.

### Transfers and watermarks

* `Transfers` - `authorizeExport` and `authorizeImport` with the quota, the mint, the
  tracer row and the cross-user alarm. `recordEvent` is taken as `Ledger` shows it:
  a keyed event is recorded once. `assertCan` answers either way at any time, as an
  admin may have changed the flags just before. `charges`, `lost`, `overlapped` and
  `raced` are history. New accounts get `maxPerDay` 0 (no cap) and no route of
  this repository sets it; the cap is modelled as `lib/transfer.js` would enforce it.
* `TransferProps` - the properties; `TransferProofs` - their proofs.

### The service: one pipeline, many handlers

Six modules share the state of one process in front of one store; each EXTENDS the one
before, and the last puts their handlers into one `Next`.

* `Service` - the collections (`db`), the process, the clock, and the handlers in flight; `op[p]`
  is a record with the route, the token, the address and the body of the request, and what its
  last find returned. `hist` is only read by properties. `Die` is the process that dies at a call, or
  a call that rejects and takes its handler with it. A behaviour serves one *load*, a record
  of the store it starts from, the requests that arrive, and what may fail.
* `Access` - pure operators: canonical addresses and ranges, the evaluation of rules, country
  lists, and what the geolocation provider may answer. An address is a form (IPv4, IPv6, mapped)
  and a number of 2 or 3 bits instead of 32 or 128.
* `Gate` - `handleRequest`: global rules, token, user, device, the user's rules, countries, and
  then the handler; the routes with their flags; the handlers that edit rules and fences. Here is
  `Emit`, the alarm of every handler: `anomaly.emit` swallows the failure of any call it makes
  (lib/anomaly.js:113-135), so the alarm is raised, or lost and its caller goes on (`LoseAlarm`).
* `Accounts` - sign-up, verification and codes, creation by an administrator or by the CLI,
  approval, rejection, grants; `getWarmContext`, `getDb`, `ensureIndexes`, the TTL index, a restart.
* `Devices` - presence, heartbeat, travel, the dead-man scan, credentials, usage snapshots (a batch is
  cut to `MaxAccounts`, a percentage clamped from both sides) and the TTL index over them. `op.unheard`
  remembers that the alarm of a report was lost; a report has three ways past its travel
  alarm: none is due, it is raised, it is lost.
* `ServiceProps`, `MCService` - the composition with its properties, and the loads.

### The web console

* `Reports` - each report of `lib/reporting.js` and `watermark.trace` as an operator of one state of
  the store, and the view models of `public/adminviews.js` as operators of a report. A row has its key, the
  address joined to it, and what a window, an order, a button or a property reads; other columns are left out.
* `Console` - one tab (`page`: screen, tokens, `sessionStorage`, the rows of each view, its calls in
  flight) and the back end behind it (`families`: the state of each session as `Sessions`
  has it; `db`). A call is sent, is served, and its answer arrives; in between anything may happen.
  `api` refreshes when a call is refused and sends it a second time.
* `ConsoleProps`, `MCConsole` - the properties and the loads. `PolicyIsEnforced` compares what the
  directory says with the operators of `Access` and `assertCan`.

### Proofs

`LedgerProofs`, `StorageProofs`, `SessionProofs`, `LockoutProofs`, `CommandProofs`, `TransferProofs`,
`ServiceProofs`, `ConsoleProofs`: section 5.

## 3. Runs

| run | asks | result |
|---|---|---|
| `LedgerCore` | two writers, one tick: soundness, history, duplicates, retries, prune window, refinement | holds |
| `LedgerLive` | do all calls return, is every event anchored | holds |
| `LedgerMongo` | overlapping ticks, interrupted deletes, rejected anchors | holds |
| `StorageFaults` | does the verifier accept exactly the genuine windows | holds |
| `SessionsRace` | fork, drift of what the login stamped, lifetime, refinement, under racing refreshes from two devices with two scopes | holds |
| `SessionsCuts` | what escapes a revocation or a password change | only what was under way |
| `SessionsForceLogout` | is a revocation complete (lib/auth.js) | **violated** |
| `Lockout` | guesses capped, locks kept, sprees on record, with two sign-ins at a time | holds |
| `Commands` | queue, redelivery, audit, effects and ledger with two admins, two polls, one acknowledgement | holds |
| `Transfers` | retries, quota (charges that race included) and tracer with two exports or two imports, deaths and a new day | holds |
| `Service` | seven loads: gate, accounts, codes, start-up, devices, silence, usage, two or three requests each; calls reject, alarms are lost, rows expire | holds |
| `Console` | nine loads: refreshing, rotating, losing, reloading, signing, deciding, windows, views, policy | holds |

Bounds. `LedgerCore`: two writers are the smallest number that contend for a head
and the tick's own alarm is a third; a clock of 4 with `Retention` 2 lets rows
expire and others not; 3 events give a prefix, a boundary and a head; one retry is
enough to see a retry succeed and a retry be refused. `SessionsRace`: 3 tokens are
a login, a rotation and a second rotation, the clock reaches
past the lifetime cap; one family is enough there (`MaxFamilies` 1), as every property of that run speaks
of one, and what families share, revocations and password changes, is the subject of `SessionsCuts`. `SessionsCuts`: 2 tokens are one family rotated or two
families; time stands still there, since only the order of calls matters (`MaxFamilies` 2).
`StorageFaults`: 3 events and 2 damages. `Lockout`: 4 guesses and a clock of 3 let
an account be locked, the lock expire and guessing begin again; `MaxFails` and
`Threshold` are 2, the smallest at which a count differs from a flag. `Commands`: one
command, so that both admins, both polls and the acknowledgement meet on it, and
two changes of the status. `Transfers`: one key and two handlers are a request and
its retry; a cap of 2 and a clock of 1 fill a window and open the next; an export
and an import share nothing but watermarks, which imports only read, so `Loads` has
either two exports or two imports busy, the latter with a watermark from before
(`Earlier`). `Service`: two handlers, and at
most 3 requests in a load (4 in `codes`: an issue and three guesses, one more than the cap; 2 in
`startup`), so that a request meets each pair of others half way; a range of
2 bits has addresses inside and outside at each prefix length; `SeriesCap` 2 makes a third bucket push out the first;
`MaxAccounts` 2 cuts a batch of three, one value of it below 0 and one above 100; `UsageTtl` 3 in a load of 5 units
lets a row expire and be reported again;
`MinTravel` 1 and `TravelWindow` 2 with a clock of 2 have fixes apart by nothing and by both ends. `Console`: an access token lives 2 units, so a load of 3 refreshes
twice; the window of 7 days is the code's; `TransferLimit` 2 against 3 watermarks cuts the
feed. `Console` assumes (in `Elapse`) that a call is answered, and retried, within the life of
the token it was refreshed with. All bounds are guards on the environment (`Room`, `MaxTime`, `MaxTokens`, `MaxFamilies`,
`MaxGuesses`, `MaxChanges`, `MaxMarks`, `MaxEvents`, `load.most`, `load.time`); because they stop the system, the configurations set `CHECK_DEADLOCK FALSE`.

One assumption deserves its name: `StallAssumption`, 2 * MaxStall <= Retention.
An append that hangs between reading the head and inserting for longer than half
the retention window (days) could insert its row at a seq that has been
recorded, anchored and pruned meanwhile; without the assumption TLC
finds that `LedgerVerifies` fails. `Elapse` therefore lets no append hang
beyond `MaxStall`.

### Where the code and its documentation differ

`SessionsForceLogout`: the child of a refresh in flight survives a revocation of
"every live session" (lib/auth.js:178-180).

Two more are understood but have no run, since the code they contradict is a remark on a
failure the code does not handle: an interrupted `deleteMany` leaves a tail that does not start at an anchor
(README.md:204-209 against mongoRepo.js:209), verification then reports `no_anchor_for_start` on
every tick, and as such a tick does not prune, the state does not heal (`SuffixSurvives` is
what holds instead); and an export whose first attempt ended after the charge and before its event is
charged again by its retry, because the short-circuit of transfer.js:12-13 looks for the
last write (`ChargedOncePerLoss` is what holds instead).

Weaker forms of other claims hold: retries that overlap may mint two watermarks
for one key, as `mintKey` has no unique index (`RetriesAgree` excludes the overlap,
`AnswersAreRecorded` says what is left); of charges that overlap one is lost, though none is counted
that was not made (`QuotaCountsCharges`), and failures that overlap are lost (`GuessesAreCapped`,
`IncidentsAreReported`), because these are a find and an update; and status changes that overlap
can leave the ledger's last row different from the account, though no
status is in force that was not recorded (`LedgerEndsRight` and `NeverUnrecorded`, the two
halves of `LedgerKnowsStatus`). In the ledger, an
idempotency key can be recorded again once its row was pruned (`DuplicatesAreOld`
bounds how late); a prune can take rows up to a stall inside the window, because
`serverTs` is stamped before the append (`PruneWithinWindow`); and a tick can
raise a false `anchor_ahead_of_head` alarm, because it reads events before anchors
(`AlarmsAreStaleReads`, `AlarmsSpareTheLinks`).

### What else the modelling showed

Behaviour that a property had to make room for, or that a reader of the code may not expect:

* Addresses. A mapped IPv6 range keeps a prefix that counts 128 bits while its address becomes one
  of 32, so the range is invalid and matches nothing (netip.js:130-146); the entry
  `::ffff:127.0.0.0/104` of `PRIVATE_CIDRS` is therefore idle. The guard against locking oneself out
  looks at block rules only, so an administrator can exclude himself with an allow rule.
* Accounts. An account whose grants say it is not to be active is active until that grant is
  written, and stays so if the process dies before (admin.js:63). `createAdmin` that dies half way leaves
  a pending administrator (admin.js:19). Confirming a code activates an account that was
  suspended or rejected meanwhile (signup.js:60). A suspended member's access token is good until it expires.
* Start-up. A failed `ensureIndexes` leaves its connection cached, and the next start uses it
  without indexes (mongoRepo.js:65), which is why `AccountsAreUnique` excludes it.
* Codes. The TTL index removes expired rows, so the send limit counts too little over its window;
  `CodesAreBounded` therefore counts over the life of a code.
* Devices. A heartbeat without coordinates erases the last fix, and with it the next travel alarm. "Fail-open on logging"
  (anomaly.js:11-14): a travel alarm whose append failed is lost for good, as the report goes on and replaces the fix it
  was about; so is the alarm of a new device, which is not new the next time. Those of a refusal, an ownership
  conflict, an unreported address and a silent device come again with the next such request or scan. Two reports of
  one device that overlap are each held to the fix both found; nobody assesses the way from one to the other.
  `TravelIsFlagged` says what is left: a report that came from too far from the fix it found replaces the stored one
  with its alarm in the store, or lost by `emit`.
* Usage. Of two batches of a user that overlap one loses its points, or writes older ones over newer, which
  `SeriesIsFaithful` excludes.
* Routes. An idempotency key is scoped to the user and not to the route (routes.js:166).
* Console. Any failed refresh, be it the answer "retry" (409) or a network error, ends a session
  that the back end keeps; a late answer to a refresh or a sign-out reaches into the next
  session; of two loads of a view the one answered last is shown, be it the older; the rows
  of a view stay in memory over a sign-out. `raced`, `lost`, `crossed` and
  `overlapped` of the page mark exactly these.
* Reports. `expiresAt < now` here and `<=` where it is enforced differ at one moment
  (reporting.js:292, entitlements.js:34); the directory calls sign-in "Blocked" for an expired
  entitlement, which sign-in does not look at, and import "Allowed" in columns of accounts that
  cannot sign in. `PolicyIsEnforced` reads the columns together: then what is enforced as allowed is
  shown so at every moment, and what is shown so is allowed but at that one.

Some properties leave out an overlap because the code goes wrong in it; `PROJECT.json` says so in the note of
the hazard. These are lost charges, uncounted failures and guesses, a sign-in past the check when a lock
comes, codes issued together, overlapping usage batches, and of the console raced refreshes, calls that crossed a
sign-in and loads that overlap. Each such exception is a history variable set by exactly that overlap, so
everything else, deaths and retries included, is held to the property.

## 4. Fairness

`LiveSpec` assumes weak fairness of the handlers' own steps (an awaited call
settles, Node.js goes on with the continuation) and of the tick's timer
(`setInterval`). Callers' requests are never fair. Writers may die at any time;
the tick does not die in `LiveSpec`, as a tick that fails for ever anchors nothing.
The retry loop is bounded by `MaxRetries`, so no strong fairness is needed.

## 5. Proofs

Every property of every passing run is proved as well as checked, but for the two liveness
properties of `LedgerLive`.

`LedgerProofs` proves for every number of writers and ticks, every key set and
every bound, from `ProcsAssumption`, `BoundsAssumption` and `StallAssumption`:

* `LedgerAlwaysVerifies`, `HistoryIsKept`, `DuplicatesComeLate`,
  `RetriesAreBounded`, `AlarmsAreOnlyStaleReads`, `TypeCorrect`;
* `PruningIsInWindow`, an action property;
* `SuffixAlwaysSurvives`, `AlarmsNeverAccuseTheLinks` and `MongoKeepsTheHistory`, of `MongoSpec`;
* `Refinement`: the ledger implements `AbstractLedger`.

The argument is one inductive invariant, `IInv`. Besides types it says that the
history is a chain (each row's hash is over its predecessor's), that each anchor
is the signature of a row of the history, that the stored rows are the history
from some position on, that what handlers hold (heads, events read,
boundaries) are facts about the history that remain true as it grows, and that
stamps are ordered up to `MaxStall`: what a row's stamp says of its predecessors is what makes the
prune safe and the duplicates late. Frame lemmas say what each kind of step
leaves alone, so that most conjuncts are checked against few actions.

`IInv` is the invariant of `MongoSpec` too, where ticks overlap and a delete may stop half way: what
is stored is then still a suffix of the history, from whatever position. That it starts at
an anchor is lost, so this is a part of its own, `StartInv`, proved of `Spec`; without
it a tick can report a missing anchor at the start or an anchor ahead of its head, never a broken link.

`StorageProofs` proves `VerificationIsExact`: for any length of the ledger and any number of damages,
`verifyEvents` accepts exactly the windows of the history that a legal prune leaves (`Genuine`).
`StoreInv` says what the store may hold. `RowTrue` is the heart: a stored hash was computed by the server, so a row
whose hash is that of its own place, domain, link and content is the row the server wrote there.
The recursion of the truth is unfolded one row at a time, and the first wrong row is a least element.

`TransferProofs` proves all properties of the run `Transfers`, for any number of requests in
flight, users, keys, watermarks, any cap and day, from `TransfersAssumption`
alone. Three invariants carry it:

* `LocalsInv`: what a handler read or wrote before an await (its mark, its tracer row, its
  alarm) is still so after it, because watermarks, tracer rows and events only accumulate. It
  gives `ImportsTraced`, `AnswersRecorded` and, with the next one, `TransfersTyped`.
* `QuotaInv`: no patch about to be written counts more than its window was charged and one more, whatever
  raced; and until two requests charged at once it is the quota as it is and one more. It gives `QuotaCounts`.
* `OrderInv`: under a key never in flight twice at once there is at most one
  request, no event before its last call, no watermark before its insert, and the
  charges exceed the losses by one at most, and only if the event is on record or a
  charged request is on its way to it. It gives `RetriesAlwaysAgree` and `ChargedOnceEach`.

`SessionProofs` proves every property of the runs `SessionsRace` and `SessionsCuts`, and that
`Sessions` implements `AbstractFamilies`, for any number of requests in flight, devices and scopes, any
lifetimes and bounds, from `RequestsAssumption` and `ConfigAssumption`. Its invariant has six parts:

* `TypesInv` and `HandlersInv`: what a handler holds fits the call it is about to make; the token it is about to
  insert is nobody else's and is not stored.
* `RowsInv`: rows of a family agree in what its login stamped, and so do the rows that refreshes hold after the
  TTL index removed them (`KnownRows`). It gives `LoginStampsHold`.
* `ForkInv`: one live row of a family or one handler about to insert one. It gives `FamiliesNeverFork` and,
  with each step as a step of one family, `SessionsImplementFamilies`.
* `CutInv` and `PasswordInv`: of what a revocation under way is to reach, all that lives is on its list
  or overlapped it; of what a finished one reached, nothing lives and no refresh is under way. They give
  `RevocationsLast` and `OldPasswordsAreShutOut`.

Most steps make nothing live (`Dimming`) and keep the last three parts by one lemma; a login, a won
compare-and-swap, the insert of a child and the find of a revocation have proofs of their own.
The proof is why `Reached` and `Refreshing` speak of `KnownRows`: a revocation that comes when the TTL index has
taken the parent of a refresh in flight finds no row of the family at all, and the child
is inserted after it.

`LockoutProofs` proves `LocksHold` (a lock in force is ended early only by a request that found
the account before the lock) and types. Its invariant: a handler about to write the account that has seen
every lock found it open, and it is open still. `GuessesCapped` and `IncidentsReported` rest on a second, `SInv`:

* `GuessInv`: unless two handlers overlapped, the account counts at least the failures since some moment, and all
  others are a stretch before it or before a lock; no stretch holds more than `MaxFails`.
* `CountInv`: the record of the address counts exactly the failures charged in its window, and
  at the threshold it has its alarm or a handler that is about to raise it.

`LocksEarned` is the other side of `GuessesCapped`: nobody is locked out for less than `MaxFails` wrong guesses made
since the last lock was over and the password was last given, unless two requests were writing the account
(`EarnedInv`: the failures it counts are all such guesses).

These speak of sums over stretches of time. The lemmas on sums unfold the recursion of
`MapThenSumSet` at one point, so that a failure adds one to each stretch it is in.

`CommandProofs` proves every property of the run `Commands`, for any number of admins, polls, acknowledgements and commands.
Its invariant has four parts: types; the audit trail of each command is what its status
implies and what handlers in flight still owe; what a poll found is what its answer will have; and the ledger
of permission changes ends with the status unless changes overlapped.

`ServiceProofs` proves all eight properties of the run `Service` for any loads, any number of requests
in flight and any constants. `AddressesAreUnique`, `DevicesKeepOwners`, `ViewersReadOnly` and
`TravellersAreFlagged` come first. It assumes what a behaviour may start from and hear of: all collections are
there (`StoresAssumption`), addresses are distinct and, if the process has its context, indexed, and the ids of
its accounts are not issued again (`AccountsAssumption`), and fixes have a time (`ReportsAssumption`);
TLC evaluates the three on the loads of the run. The invariant is

* `StoreInv`: what the collections hold, `AccountsAreUnique` among it;
* `StartInv`: until the addresses are indexed, or a start-up failed at it, no request is under way. This is
  why two sign-ups that both found the address free cannot both insert it;
* `HandlersInv`: what a handler holds fits the call it is about to make (`LocalOk`): a view-only token got past
  its check for the one route that is a read (`ViewOk`); a report writes to no device, or to one
  of its user (`Owned`); the alarm a report owes is raised, or lost by `emit`, before it writes (`ReportOk`).

Since other handlers may run at each await, each part of `LocalOk` must survive their steps:
`StaysOk` says it does while devices keep their owners and alarms stay raised (`DevicesKept`), which
every step is shown to keep.

`ServiceProofs` also proves `AuthorityRecorded` (`AuthorityIsOnLedger` always holds) on top of it, with
one invariant more: `Known`, that a handler about to make a rule, a country list or a grant come into force
knows its entry to be on the ledger, whoever else has written since, and that one which provisions
an account has an administrator behind it; and `AuthorityInv`, the property itself with the ids not
yet issued. A step that writes neither accounts nor rules is `Quiet` and keeps all of it by one
lemma; each write of an account or a rule has a proof of its own.

It proves `NobodyKeptOutPasses` (`GateIsTight` always holds) on top of both, for addresses
of any width. `RangesCover` is the arithmetic: two numbers have the same quotient by a power of two exactly if
one is in the other's span, so the comparison of masked numbers is the one of intervals. `GateOk` says
what a request has passed at each call of the gate (`ScopeClear`, `FenceClear`); it must survive
whatever others do meanwhile, and does because each step is `Tame`: a rule comes under an id nobody had
when the request arrived, and no rule or fence changes without being counted as an edit.
`RulesAssumption` (evaluated by TLC too) says the rules of a store, and those asked for, are such as `addIpRule`
lets through, and that a token names an account.

It proves `CodesBounded` (`CodesAreBounded`) from `CodesAssumption`: no store starts with codes, and a code
expires within the window its sends are counted over (`CodeTtl <= SendWindow`), which is why the count an
issuing handler makes covers all codes in force. `CInv` adds to `IInv` that rows agree with their histories
(`RowsInv`), the claim itself (`LimitsInv`), and what an issuing handler found (`IssueOk`): fewer
codes in force than the limit, then no other live code. Expiring, consuming and guessing are `Fading`
and keep all of it by one lemma; codes issued while another issue of that user was under way are
left out, as in the property.

And `UsageIsFaithful` (`SeriesIsFaithful`) from `UsageAssumption`: buckets follow the clock, and no store starts with usage.
The property speaks of the last report of each bucket, in order; `UInv` says that some enumeration of them has the
stored series as its newest `SeriesCap`; a row that expires takes its history along. `NextReport` is the induction step: a report of the newest bucket
replaces the last point, one of a later bucket is appended; `SameNewest` says that what
was pushed out before makes no difference to what is kept after.

`ConsoleProofs` proves all four properties of the run `Console`, `SessionEnds`, `TokensAreHis`, `PolicyIsTrue`
and `ViewsShowTheNewest`, for any loads, lifetimes and number of calls, from `ConsoleAssumption` (what a load is). Two invariants:

* `IInv`: what is stored is that of the load but for decisions (`StoreInv`, `FamiliesInv`), the page and its
  calls (`PageInv`), and what the back end answered to a refresh or a sign-in (`GrantInv`); unless a call
  outlived its session, the tokens are of one login of the account shown (`SessionInv`); and unless the page
  is marked as raced, lost or crossed, `CleanInv`: who refreshes is alone and goes with the newest token of its
  family (`RefreshOk`), the token held is the newest when nobody refreshes (`CurrentOk`) and of a family that was
  not ended as stolen (`HeldOk`), and
  a sign-in on its way is of a family that is nobody else's (`SignInOk`, `Apart`).
* `VInv`: for each view, the newest load is shown or under way (`ShownOk`), its answers are not older than
  the moment it was asked (`AnswersOk`, `LoadOk`), and calls of a task go through its stages together (`TasksOk`).
  Steps that send, serve or retry calls are `Continues` and keep it by one lemma.

`ConsoleServesFamilies` ties the two halves of the system together: whatever the tabs do, each step of the back
end in `Console` takes the sessions through a step of `AbstractFamilies` or leaves them as they are, which is
what `Sessions` is proved to implement with its rows, crashes and races.

Induction theorems that take an operator cannot be used with the installed provers. Where a proof needs
induction over data it argues by a least element (`Least`, from the library's `WFMin`).

Only model-checked: the liveness of `LedgerLive` (`HandlersReturn`, `EventsGetAnchored`), which needs
ENABLED and fairness, out of the provers' reach. What of it holds step by step is proved, of `Spec` and of
`MongoSpec`, and only that a handler takes its next step at all is left to the run:

* `HandlersComeToAnEnd`: `Rank`, a number of at most `2 * MaxRetries + 10`, falls with each step a handler takes,
  but in the scan of a prune, which each time has one anchor less of the finitely many it read. A retry of the
  append pays for its second round with its count; the append of an alarm comes after all the verifying.
* `TicksLeaveAnAnchor`: a tick that sets out when `s` events have been appended gets to its verification only
  with an anchor over them. The promise (`Covering`) survives whatever the other handlers do, as
  heads only rise and anchors are never deleted.

## 6. Not modelled

* `find()` on MongoDB as a cursor that is not a snapshot; the model's read of a
  collection is atomic. A report reads its collections one after the other; the model reads one state.
* Cryptography, tokens, passwords and configuration (`Primitives`), idealised as `Service` and
  `Sessions` say; e-mail; DNS beyond "has a mail host or not"; HTTP and the adapters; files that
  `webconsole.js` serves; themes, escaping, CSV and wording in `public/`.
* The provider's time-out and cache (`geo.js`): an unknown country stands for a time-out.
* The storage percentage is truncated to whole percents; the code keeps a decimal.
* The access token as an object of its own: `Gate` has it with its expiry, `Sessions` leaves it out.
* Expiry and monitoring flags of `setEntitlement`: they take the two calls of the fields that are modelled.

## 7. What is left

1. The idempotency key across routes: `Transfers` and `Commands` composed over one ledger of keys.
2. The mail of an alarm, with a death between the ledger and the mail (`anomaly.js`).
3. The permission chain's own maintenance beside the audit chain's (`scheduler.js`).
