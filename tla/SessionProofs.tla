---------------------------- MODULE SessionProofs ----------------------------
(***************************************************************************)
(* Proofs about Sessions, for any number of requests in flight, devices    *)
(* and scopes, any lifetimes and any bounds on tokens, passwords and time. *)
(*                                                                         *)
(* One inductive invariant in parts: what every handler holds (HandlerOk), *)
(* what rows of one family share (RowsInv), that a family has one holder   *)
(* (ForkInv), and what finished revocations (CutInv) and password changes  *)
(* (PasswordInv) leave alive.                                              *)
(***************************************************************************)
EXTENDS SessionProps, FiniteSetTheorems, TLAPS

USE RequestsAssumption, ConfigAssumption

Kinds == {"none", "login", "refresh", "logout", "change",
          "force_logout", "disable_account", "set_status"}

Row == [family : Nat, device : Devices \cup {NoDevice}, scope : Scopes \cup {"full"},
        password : Nat, issuedAt : Nat, startedAt : Nat, expiresAt : Nat,
        revokedAt : Nat \cup {NotRevoked}, replacedBy : Nat]

Locals == [request : Kinds, at : Nat, token : Nat, device : Devices \cup {NoDevice},
           scope : Scopes \cup {"full"}, password : Nat, row : Row, new : Nat,
           aim : [families : SUBSET Nat, devices : SUBSET Devices],
           members : SUBSET Nat, reached : SUBSET Nat, upto : Nat]

TypesInv ==
    /\ issued \in 0..MaxTokens /\ password \in Nat /\ now \in Nat
    /\ status \in {"active", "suspended"}
    /\ DOMAIN sessions \subseteq 1..issued
    /\ \A t \in DOMAIN sessions : sessions[t] \in Row
    /\ pc \in [Handlers -> Steps] /\ op \in [Handlers -> Locals]
    /\ opened \subseteq 1..issued /\ cut \subseteq opened
    /\ \A c \in changes : c.upto \in 0..issued /\ c.password \in Nat

RefreshSteps == {"refreshUser", "rotate", "insertChild"}
ChangeSteps == {"changeFind", "changeUpdate", "revokeFind", "revokeEach"}

\* What holds of a handler with locals o about to make the call "step".
LocalOk(step, o) ==
    /\ o.at \in 0..now /\ o.new \in 0..issued /\ o.upto \in 0..issued
    /\ o.members \subseteq 1..issued /\ o.reached \subseteq opened
    /\ step \in {"loginFind", "loginInsert"} => o.device \in Devices /\ o.scope \in Scopes
    /\ o.request = "change" => step \in ChangeSteps
    /\ o.request = "change" /\ step = "revokeFind" => o.aim = AllExcept(o.device)
    /\ step = "insertChild" => o.new \in 1..issued \ DOMAIN sessions
    /\ step \in RefreshSteps =>
          o.row.device = o.device /\ o.at - o.row.startedAt <= Lifetime
    /\ step \in {"refreshUser", "rotate"} =>
          /\ o.token \in 1..issued
          /\ Stored(o.token) => sessions[o.token].family = o.row.family

Inserting(p) == pc[p] = "insertChild"

HandlersInv ==
    /\ \A p \in Handlers : LocalOk(pc[p], op[p])
    /\ \A p, q \in Handlers :
          /\ Inserting(p) /\ Inserting(q) /\ op[p].new = op[q].new => p = q
          /\ Inserting(p) /\ pc[q] \in {"refreshUser", "rotate"} => op[p].new # op[q].token

RowOk(r) ==
    /\ r.family \in opened /\ r.device \in Devices /\ r.scope \in Scopes
    /\ r.issuedAt \in 0..now /\ r.replacedBy \in 0..issued
    /\ r.revokedAt \in {NotRevoked} \cup 0..now
    /\ r.issuedAt <= r.startedAt + Lifetime

Akin(r, s) ==
    r.family = s.family =>
        /\ r.device = s.device /\ r.scope = s.scope
        /\ r.startedAt = s.startedAt /\ r.password = s.password

RowsInv ==
    /\ \A r \in KnownRows : RowOk(r)
    /\ \A r, s \in KnownRows : Akin(r, s)

\* A family has one live token, or one handler about to insert one.
ForkInv ==
    /\ \A s, t : Live(s) /\ Live(t) /\ sessions[s].family = sessions[t].family => s = t
    /\ \A p, q \in Handlers :
          Inserting(p) /\ Inserting(q) /\ op[p].row.family = op[q].row.family => p = q
    /\ \A p \in Handlers : \A t :
          Inserting(p) /\ Live(t) => sessions[t].family # op[p].row.family

\* Of a family that a revocation reached, and no refresh overlapped, what is
\* live is still on the revocation's list, and no refresh is under way.
CutInv ==
    /\ \A t : Live(t) => sessions[t].family \notin cut \ overlapped
    /\ \A p \in Handlers : \A t :
          /\ pc[p] = "revokeEach" /\ Live(t)
          /\ sessions[t].family \in op[p].reached \ overlapped
          => t \in op[p].members
    /\ \A q \in Refreshers :
          /\ op[q].row.family \in cut => op[q].row.family \in overlapped
          /\ \A p \in Handlers :
                op[q].row.family \in op[p].reached => op[q].row.family \in overlapped

\* The row is older than the change c and on another device.
Outdated(r, c) ==
    /\ r.password < c.password /\ r.family \in 1..c.upto \ overlapped
    /\ r.device # c.device

Shutting(p) == pc[p] = "revokeEach" /\ op[p].request = "change"

PasswordInv ==
    /\ \A c \in changes : /\ \A t : Live(t) => ~Outdated(sessions[t], c)
                          /\ \A q \in Refreshers : ~Outdated(op[q].row, c)
    /\ \A p \in Handlers : Shutting(p) =>
          /\ \A t : Live(t) /\ Outdated(sessions[t], op[p]) =>
                       t \in op[p].members /\ sessions[t].family \in op[p].reached
          /\ \A q \in Refreshers : ~Outdated(op[q].row, op[p])

IInv == TypesInv /\ HandlersInv /\ RowsInv /\ ForkInv /\ CutInv /\ PasswordInv

----------------------------------------------------------------------------
(* What a handler's step does to the handlers. *)

\* Only handler p moved.
Alone(p) ==
    /\ pc' \in [Handlers -> Steps] /\ op' \in [Handlers -> Locals]
    /\ \A q \in Handlers \ {p} : pc'[q] = pc[q] /\ op'[q] = op[q]

\* A handler that goes to a call is there, alone.
LEMMA Going ==
    ASSUME TypesInv, NEW p \in Handlers, NEW step \in Steps, NEW o \in Locals,
           Goto(p, step, o)
    PROVE  Alone(p) /\ pc'[p] = step /\ op'[p] = o
BY DEF TypesInv, Goto, Alone

\* The locals of a handler at rest, and of no row, have their types.
LEMMA IdleOk == Idle \in Locals /\ NoRow \in Row /\ Nothing.devices = {}
BY DEF Idle, Locals, NoRow, Row, Nothing, Kinds, NoToken, NoDevice, NotRevoked

\* A handler at rest holds nothing.
LEMMA RestingOk == ASSUME TypesInv PROVE LocalOk("idle", Idle) /\ Idle.reached = {}
BY DEF TypesInv, LocalOk, Idle, NoToken, RefreshSteps

\* What a handler holds stays right when rows are added elsewhere, change
\* nothing but their revocation, or go.
LEMMA StaysOk ==
    ASSUME TypesInv, NEW step, NEW o, LocalOk(step, o),
           now' \in Nat, now <= now', issued' \in Nat, issued <= issued', opened \subseteq opened',
           step = "insertChild" => o.new \notin DOMAIN sessions',
           step \in {"refreshUser", "rotate"} /\ o.token \in DOMAIN sessions' =>
               Stored(o.token) /\ sessions'[o.token].family = sessions[o.token].family
    PROVE  LocalOk(step, o)'
<1>1. 0..now \subseteq 0..now' /\ 0..issued \subseteq 0..issued' /\ 1..issued \subseteq 1..issued'
  BY DEF TypesInv
<1>2. step \in {"refreshUser", "rotate"} =>
         /\ o.token \in 1..issued'
         /\ o.token \in DOMAIN sessions' => sessions'[o.token].family = o.row.family
  BY <1>1 DEF LocalOk
<1> QED BY <1>1, <1>2 DEF LocalOk, Stored, AllExcept

----------------------------------------------------------------------------
(* Steps that make nothing live. *)

SameBirth(r, s) ==
    /\ r.family = s.family /\ r.device = s.device /\ r.scope = s.scope
    /\ r.startedAt = s.startedAt /\ r.password = s.password

\* Every row there is goes back to one there was.
LEMMA RowsKept ==
    ASSUME RowsInv,
           \A r \in KnownRows' : RowOk(r)' /\ \E k \in KnownRows : SameBirth(r, k)
    PROVE  RowsInv'
<1>1. \A r, s \in KnownRows' : Akin(r, s)
  BY DEF RowsInv, Akin, SameBirth
<1>2. \A r, s : Akin(r, s)' <=> Akin(r, s) BY DEF Akin
<1> QED BY <1>1, <1>2 DEF RowsInv

\* A row that is right stays right.
LEMMA StaysRowOk ==
    ASSUME TypesInv, NEW r, RowOk(r), now' \in Nat, now <= now',
           issued' \in Nat, issued <= issued', opened \subseteq opened'
    PROVE  RowOk(r)'
<1>1. 0..now \subseteq 0..now' /\ 0..issued \subseteq 0..issued'
  BY DEF TypesInv
<1> QED BY <1>1 DEF RowOk

\* No token becomes live, no refresh or revocation gets under way, and
\* revocations under way forget no live token.
Dimming ==
    /\ \A t : Live(t)' => Live(t) /\ SameBirth(sessions'[t], sessions[t])
    /\ \A q \in Refreshers' : q \in Refreshers /\ op'[q].row = op[q].row
    /\ \A p \in Handlers :
          /\ op'[p].reached \subseteq op[p].reached
          /\ pc'[p] = "revokeEach" =>
                /\ pc[p] = "revokeEach"
                /\ op'[p].reached = op[p].reached /\ op'[p].request = op[p].request
                /\ op'[p].password = op[p].password /\ op'[p].device = op[p].device
                /\ op'[p].upto = op[p].upto
                /\ \A t \in op[p].members : Live(t)' => t \in op'[p].members
    /\ overlapped \subseteq overlapped'
    /\ cut' = cut /\ changes' = changes

\* Then what revocations and password changes shut stays shut.
LEMMA DimmingCuts ==
    ASSUME CutInv, PasswordInv, Dimming
    PROVE  CutInv' /\ PasswordInv'
<1>1. Refreshers' \subseteq Handlers /\ Refreshers \subseteq Handlers BY DEF Refreshers
<1>2. CutInv'
  <2>1. \A t : Live(t)' => sessions'[t].family \notin cut' \ overlapped'
    BY DEF Dimming, CutInv, SameBirth
  <2>2. \A p \in Handlers : \A t :
           /\ pc'[p] = "revokeEach" /\ Live(t)'
           /\ sessions'[t].family \in op'[p].reached \ overlapped'
           => t \in op'[p].members
    BY DEF Dimming, CutInv, SameBirth
  <2>3. \A q \in Refreshers' :
           /\ op'[q].row.family \in cut' => op'[q].row.family \in overlapped'
           /\ \A p \in Handlers :
                 op'[q].row.family \in op'[p].reached => op'[q].row.family \in overlapped'
    BY DEF Dimming, CutInv
  <2> QED BY <2>1, <2>2, <2>3 DEF CutInv
<1>3. PasswordInv'
  <2>1. \A r, c : Outdated(r, c)' => Outdated(r, c) BY DEF Outdated, Dimming
  <2>2. \A t, c : Live(t)' /\ Outdated(sessions'[t], c) => Outdated(sessions[t], c)
    BY DEF Outdated, Dimming, SameBirth
  <2>3. \A c \in changes' : /\ \A t : Live(t)' => ~Outdated(sessions[t], c)'
                            /\ \A q \in Refreshers' : ~Outdated(op[q].row, c)'
    <3> TAKE c \in changes'
    <3>1. c \in changes BY DEF Dimming
    <3>2. \A t : Outdated(sessions[t], c)' => Outdated(sessions'[t], c)
      BY DEF Outdated, Dimming
    <3>3. \A q \in Refreshers' : Outdated(op[q].row, c)' => Outdated(op[q].row, c)
      BY DEF Outdated, Dimming
    <3> QED BY <2>2, <3>1, <3>2, <3>3 DEF Dimming, PasswordInv
  <2>4. ASSUME NEW p \in Handlers, Shutting(p)'
        PROVE  /\ \A t : Live(t)' /\ Outdated(sessions[t], op[p])' =>
                             t \in op'[p].members /\ sessions'[t].family \in op'[p].reached
               /\ \A q \in Refreshers' : ~Outdated(op[q].row, op[p])'
    <3>1. Shutting(p) /\ \A r : Outdated(r, op'[p]) <=> Outdated(r, op[p])
      BY <2>4 DEF Dimming, Shutting, Outdated
    <3>2. \A t : Live(t)' /\ Outdated(sessions[t], op[p])' => Live(t) /\ Outdated(sessions[t], op[p])
      BY <2>1, <2>2, <3>1 DEF Dimming
    <3>3. \A t : Live(t)' /\ Outdated(sessions[t], op[p])' =>
             t \in op'[p].members /\ sessions'[t].family \in op'[p].reached
      BY <2>4, <3>1, <3>2 DEF Dimming, PasswordInv, Shutting, SameBirth
    <3>4. \A q \in Refreshers' : Outdated(op[q].row, op[p])' => Outdated(op[q].row, op[p])
      BY <2>1, <3>1 DEF Dimming
    <3> QED BY <3>1, <3>3, <3>4 DEF Dimming, PasswordInv
  <2> QED BY <2>3, <2>4 DEF PasswordInv
<1> QED BY <1>2, <1>3

\* And a family has one holder still, unless a rotation began.
LEMMA DimmingFork ==
    ASSUME ForkInv, Dimming, \A p \in Handlers : Inserting(p)' => Inserting(p)
    PROVE  ForkInv'
<1>1. \A p \in Handlers : Inserting(p)' => p \in Refreshers' /\ p \in Refreshers
  BY DEF Inserting, Refreshers
<1> QED BY <1>1 DEF ForkInv, Dimming, SameBirth

\* Handler p alone moves, stores nothing, and is neither refreshing nor
\* revoking afterwards.
LEMMA Quiet ==
    ASSUME IInv, NEW p \in Handlers, NEW step \in Steps \ (RefreshSteps \cup {"revokeEach"}),
           NEW o \in Locals, Goto(p, step, o), LocalOk(step, o), o.reached \subseteq op[p].reached,
           UNCHANGED <<sessions, issued, now, history>>,
           status' \in {"active", "suspended"}, password' \in Nat
    PROVE  IInv'
<1> USE DEF IInv
<1>1. Alone(p) /\ pc'[p] = step /\ op'[p] = o BY Going
<1>2. /\ sessions' = sessions /\ issued' = issued /\ now' = now /\ opened' = opened
      /\ cut' = cut /\ overlapped' = overlapped /\ changes' = changes
  BY DEF history
<1>3. TypesInv' BY <1>1, <1>2 DEF TypesInv, Alone
<1>4. HandlersInv'
  <2>1. \A st, l : LocalOk(st, l) => LocalOk(st, l)'
    BY <1>2 DEF LocalOk, Stored, AllExcept
  <2>2. LocalOk(pc[p], op[p])' BY <1>1, <2>1
  <2>3. \A q \in Handlers \ {p} : LocalOk(pc[q], op[q])'
    BY <1>1, <2>1 DEF HandlersInv, Alone
  <2>4. ~Inserting(p)' /\ pc'[p] \notin {"refreshUser", "rotate"}
    BY <1>1 DEF RefreshSteps, Inserting
  <2> QED BY <1>1, <2>2, <2>3, <2>4 DEF HandlersInv, Alone, Inserting
<1>5. \A q \in Refreshers' : q \in Refreshers /\ op'[q] = op[q] /\ pc'[q] = pc[q]
  BY <1>1 DEF Refreshers, Alone, RefreshSteps
<1>6. RowsInv'
  <2>1. KnownRows' \subseteq KnownRows BY <1>2, <1>5 DEF KnownRows
  <2>2. \A r : RowOk(r) => RowOk(r)' BY <1>2 DEF RowOk
  <2> QED BY <2>1, <2>2, RowsKept DEF RowsInv, SameBirth
<1>7. Dimming
  <2>1. \A t : Live(t)' => Live(t) /\ SameBirth(sessions'[t], sessions[t])
    BY <1>2 DEF Live, Stored, SameBirth
  <2>2. ASSUME NEW q \in Handlers
        PROVE  /\ op'[q].reached \subseteq op[q].reached
               /\ pc'[q] = "revokeEach" => pc[q] = "revokeEach" /\ op'[q] = op[q]
    BY <1>1 DEF Alone
  <2> QED BY <1>2, <1>5, <2>1, <2>2 DEF Dimming
<1>8. ForkInv'
  <2>1. \A q \in Handlers : Inserting(q)' => Inserting(q)
    BY <1>1 DEF Inserting, Alone, RefreshSteps
  <2> QED BY <1>7, <2>1, DimmingFork
<1> QED BY <1>3, <1>4, <1>6, <1>7, <1>8, DimmingCuts

\* Every invariant holds at first.
LEMMA InitInv == Init => IInv
<1> SUFFICES ASSUME Init PROVE IInv OBVIOUS
<1> USE DEF Init
<1>1. DOMAIN sessions = {} OBVIOUS
<1>2. \A p \in Handlers : pc[p] = "idle" /\ op[p] = Idle OBVIOUS
<1>3. TypesInv BY <1>1, IdleOk DEF TypesInv, Steps
<1>4. HandlersInv BY <1>2, <1>3, RestingOk DEF HandlersInv, Inserting
<1>5. KnownRows = {} /\ Refreshers = {} BY <1>1, <1>2 DEF KnownRows, Refreshers
<1>6. \A t : ~Live(t) BY <1>1 DEF Live, Stored
<1>7. RowsInv /\ ForkInv BY <1>2, <1>5, <1>6 DEF RowsInv, ForkInv, Inserting
<1>8. CutInv /\ PasswordInv BY <1>2, <1>5, <1>6 DEF CutInv, PasswordInv, Shutting
<1> QED BY <1>3, <1>4, <1>7, <1>8 DEF IInv

\* A handler that is not changing the password goes on to revoke.
LEMMA ToRevoke ==
    ASSUME IInv, NEW p \in Handlers, NEW at \in 0..now,
           NEW aim \in [families : SUBSET Nat, devices : SUBSET Devices],
           RevokeNext(p, at, aim), op[p].request # "change",
           UNCHANGED <<sessions, issued, now, history>>,
           status' \in {"active", "suspended"}, password' \in Nat
    PROVE  IInv'
<1> DEFINE o == [Idle EXCEPT !.request = op[p].request, !.at = at, !.aim = aim]
<1>1. TypesInv /\ op[p] \in Locals BY DEF IInv, TypesInv
<1>2. op[p].request \in Kinds /\ at \in Nat BY <1>1 DEF Locals, TypesInv
<1>3. /\ o \in Locals /\ o.request = op[p].request /\ o.at = at /\ o.aim = aim
      /\ o.new = NoToken /\ o.upto = NoToken /\ o.members = {} /\ o.reached = {}
  BY <1>2, IdleOk DEF Locals, Idle
<1> HIDE DEF o
<1>4. LocalOk("revokeFind", o)
  BY <1>1, <1>3 DEF LocalOk, NoToken, RefreshSteps, TypesInv
<1>5. Goto(p, "revokeFind", o) BY DEF RevokeNext, o
<1> QED BY <1>3, <1>4, <1>5, Quiet DEF Steps, RefreshSteps

\* A handler that returns, whatever it came to.
LEMMA KeepsReturn ==
    ASSUME IInv, NEW p \in Handlers, Return(p),
           UNCHANGED <<sessions, issued, now, history, status, password>>
    PROVE  IInv'
<1>1. TypesInv BY DEF IInv
<1>2. status' \in {"active", "suspended"} /\ password' \in Nat BY <1>1 DEF TypesInv
<1> QED BY <1>1, <1>2, IdleOk, RestingOk, Quiet DEF Return, Steps, RefreshSteps

\* A request arrives.
LEMMA KeepsBegin ==
    ASSUME IInv, NEW p \in Handlers, NEW step \in {"loginFind", "refreshFind", "logoutFind",
                                                  "changeFind", "revokeFind", "setStatus"},
           NEW o, [o EXCEPT !.at = now] \in Locals, Begin(p, step, o),
           o.new = NoToken, o.upto = NoToken, o.members = {}, o.reached = {},
           step = "loginFind" => o.device \in Devices /\ o.scope \in Scopes,
           o.request = "change" => step = "changeFind"
    PROVE  IInv'
<1> DEFINE l == [o EXCEPT !.at = now]
<1>1. TypesInv BY DEF IInv
<1>2. /\ l.at = now /\ l.new = NoToken /\ l.upto = NoToken /\ l.members = {} /\ l.reached = {}
      /\ l.device = o.device /\ l.scope = o.scope /\ l.request = o.request
  OBVIOUS
<1>3. /\ Goto(p, step, l) /\ UNCHANGED <<sessions, issued, now, history>>
      /\ status' = status /\ password' = password
  BY DEF Begin, store
<1> HIDE DEF l
<1>4. LocalOk(step, l)
  BY <1>1, <1>2 DEF LocalOk, NoToken, RefreshSteps, ChangeSteps, TypesInv
<1>5. l \in Locals BY DEF l
<1> QED BY <1>1, <1>2, <1>3, <1>4, <1>5, Quiet DEF Steps, RefreshSteps, TypesInv

\* Whatever arrives.
LEMMA KeepsArrive ==
    ASSUME IInv, NEW p \in Handlers, Arrive(p)
    PROVE  IInv'
<1>1. TypesInv BY DEF IInv
<1>2. 1..issued \subseteq Nat /\ 0..password \subseteq Nat /\ now \in Nat BY <1>1 DEF TypesInv
<1>3. Idle \in Locals /\ Idle.new = NoToken /\ Idle.upto = NoToken /\ Idle.members = {}
      /\ Idle.reached = {}
  BY IdleOk DEF Idle
<1>4. CASE BeginLogin(p)
  <2>1. PICK d \in Devices, s \in Scopes, pw \in 0..password :
           Begin(p, "loginFind", [Idle EXCEPT !.request = "login", !.device = d,
                                              !.scope = s, !.password = pw])
    BY <1>4 DEF BeginLogin
  <2> DEFINE o == [Idle EXCEPT !.request = "login", !.device = d, !.scope = s, !.password = pw]
  <2>2. /\ o.new = NoToken /\ o.upto = NoToken /\ o.members = {} /\ o.reached = {}
        /\ o.device = d /\ o.scope = s /\ o.request = "login" /\ [o EXCEPT !.at = now] \in Locals
    BY <1>2, <1>3 DEF Locals, Kinds, Idle
  <2> QED BY <2>1, <2>2, KeepsBegin
<1>5. CASE BeginRefresh(p)
  <2>1. PICK t \in 1..issued, d \in Devices :
           Begin(p, "refreshFind",
                 [Idle EXCEPT !.request = "refresh", !.token = t, !.device = d])
    BY <1>5 DEF BeginRefresh
  <2> DEFINE o == [Idle EXCEPT !.request = "refresh", !.token = t, !.device = d]
  <2>2. /\ o.new = NoToken /\ o.upto = NoToken /\ o.members = {} /\ o.reached = {}
        /\ o.request = "refresh" /\ [o EXCEPT !.at = now] \in Locals
    BY <1>2, <1>3 DEF Locals, Kinds, Idle
  <2> QED BY <2>1, <2>2, KeepsBegin
<1>6. CASE BeginLogout(p)
  <2>1. PICK t \in 1..issued :
           Begin(p, "logoutFind", [Idle EXCEPT !.request = "logout", !.token = t])
    BY <1>6 DEF BeginLogout
  <2> DEFINE o == [Idle EXCEPT !.request = "logout", !.token = t]
  <2>2. /\ o.new = NoToken /\ o.upto = NoToken /\ o.members = {} /\ o.reached = {}
        /\ o.request = "logout" /\ [o EXCEPT !.at = now] \in Locals
    BY <1>2, <1>3 DEF Locals, Kinds, Idle
  <2> QED BY <2>1, <2>2, KeepsBegin
<1>7. CASE BeginChange(p)
  <2>1. PICK d \in Devices, pw \in 0..password :
           Begin(p, "changeFind", [Idle EXCEPT !.request = "change", !.device = d,
                                               !.password = pw])
    BY <1>7 DEF BeginChange
  <2> DEFINE o == [Idle EXCEPT !.request = "change", !.device = d, !.password = pw]
  <2>2. /\ o.new = NoToken /\ o.upto = NoToken /\ o.members = {} /\ o.reached = {}
        /\ o.request = "change" /\ [o EXCEPT !.at = now] \in Locals
    BY <1>2, <1>3 DEF Locals, Kinds, Idle
  <2> QED BY <2>1, <2>2, KeepsBegin
<1>8. CASE BeginForceLogout(p)
  <2> DEFINE o == [Idle EXCEPT !.request = "force_logout", !.aim = AllOfUser]
  <2>1. Begin(p, "revokeFind", o) BY <1>8 DEF BeginForceLogout
  <2>2. AllOfUser \in [families : SUBSET Nat, devices : SUBSET Devices]
    BY DEF AllOfUser, Tokens
  <2>3. /\ o.new = NoToken /\ o.upto = NoToken /\ o.members = {} /\ o.reached = {}
        /\ o.request = "force_logout" /\ [o EXCEPT !.at = now] \in Locals
    BY <1>2, <1>3, <2>2 DEF Locals, Kinds, Idle
  <2> QED BY <2>1, <2>3, KeepsBegin
<1>9. CASE BeginDisable(p)
  <2> DEFINE o == [Idle EXCEPT !.request = "disable_account"]
  <2>1. Begin(p, "setStatus", o) BY <1>9 DEF BeginDisable
  <2>2. /\ o.new = NoToken /\ o.upto = NoToken /\ o.members = {} /\ o.reached = {}
        /\ o.request = "disable_account" /\ [o EXCEPT !.at = now] \in Locals
    BY <1>2, <1>3 DEF Locals, Kinds, Idle
  <2> QED BY <2>1, <2>2, KeepsBegin
<1> QED BY <1>4, <1>5, <1>6, <1>7, <1>8, <1>9 DEF Arrive

\* The aims of revocations have their types.
LEMMA AimsOk ==
    /\ AllOfUser \in [families : SUBSET Nat, devices : SUBSET Devices]
    /\ \A d : AllExcept(d) \in [families : SUBSET Nat, devices : SUBSET Devices]
    /\ \A f \in Nat : Family(f) \in [families : SUBSET Nat, devices : SUBSET Devices]
BY DEF AllOfUser, AllExcept, Family, Tokens

\* What a handler holds, at its call, and that it is not changing a password
\* unless its call is one of a change's.
LEMMA Holding ==
    ASSUME IInv, NEW p \in Handlers
    PROVE  /\ op[p] \in Locals /\ LocalOk(pc[p], op[p]) /\ op[p].at \in 0..now
           /\ op[p].row.family \in Nat
           /\ pc[p] \notin ChangeSteps => op[p].request # "change"
BY DEF IInv, TypesInv, HandlersInv, LocalOk, Locals, Row

\* The steps of a login, a logout and a change that store no session.
LEMMA KeepsLoginFind ==
    ASSUME IInv, NEW p \in Handlers, LoginFind(p)
    PROVE  IInv'
<1>1. /\ pc[p] = "loginFind" /\ UNCHANGED <<sessions, issued, now, history>>
      /\ status' = status /\ password' = password /\ TypesInv
  BY DEF LoginFind, store, IInv
<1>2. CASE Return(p) BY <1>1, <1>2, KeepsReturn
<1>3. CASE Goto(p, "loginInsert", op[p])
  <2>1. op[p] \in Locals /\ LocalOk("loginInsert", op[p])
    BY <1>1, Holding DEF LocalOk, RefreshSteps, ChangeSteps
  <2> QED BY <1>1, <1>3, <2>1, Quiet DEF Steps, RefreshSteps, TypesInv
<1> QED BY <1>2, <1>3 DEF LoginFind

\* The family of the token, if there is one.
LEMMA KeepsLogoutFind ==
    ASSUME IInv, NEW p \in Handlers, LogoutFind(p)
    PROVE  IInv'
<1>1. /\ pc[p] = "logoutFind" /\ UNCHANGED <<sessions, issued, now, history>>
      /\ status' = status /\ password' = password /\ TypesInv
  BY DEF LogoutFind, store, IInv
<1>2. CASE Return(p) BY <1>1, <1>2, KeepsReturn
<1>3. CASE Stored(op[p].token) /\ RevokeNext(p, now, Family(sessions[op[p].token].family))
  <2>1. sessions[op[p].token].family \in Nat /\ now \in 0..now
    BY <1>1, <1>3 DEF Stored, TypesInv, Row
  <2>2. op[p].request # "change" BY <1>1, Holding DEF ChangeSteps
  <2> QED BY <1>1, <1>3, <2>1, <2>2, AimsOk, ToRevoke DEF TypesInv
<1> QED BY <1>2, <1>3 DEF LogoutFind

\* The password that was given is the current one, or not.
LEMMA KeepsChangeFind ==
    ASSUME IInv, NEW p \in Handlers, ChangeFind(p)
    PROVE  IInv'
<1>1. /\ pc[p] = "changeFind" /\ UNCHANGED <<sessions, issued, now, history>>
      /\ status' = status /\ password' = password /\ TypesInv
  BY DEF ChangeFind, store, IInv
<1>2. CASE Return(p) BY <1>1, <1>2, KeepsReturn
<1>3. CASE Goto(p, "changeUpdate", op[p])
  <2>1. op[p] \in Locals /\ LocalOk("changeUpdate", op[p])
    BY <1>1, Holding DEF LocalOk, RefreshSteps, ChangeSteps
  <2> QED BY <1>1, <1>3, <2>1, Quiet DEF Steps, RefreshSteps, TypesInv
<1> QED BY <1>2, <1>3 DEF ChangeFind

\* The password changes, and everything elsewhere is to be revoked.
LEMMA KeepsChangeUpdate ==
    ASSUME IInv, NEW p \in Handlers, ChangeUpdate(p)
    PROVE  IInv'
<1> DEFINE o == [op[p] EXCEPT !.password = password + 1, !.aim = AllExcept(op[p].device)]
<1>1. /\ pc[p] = "changeUpdate" /\ UNCHANGED <<sessions, issued, now, history>>
      /\ status' = status /\ password' = password + 1 /\ TypesInv
      /\ Goto(p, "revokeFind", o)
  BY DEF ChangeUpdate, IInv
<1>2. op[p] \in Locals /\ LocalOk("changeUpdate", op[p]) BY <1>1, Holding
<1>3. password + 1 \in Nat BY <1>1 DEF TypesInv
<1>4. /\ o \in Locals /\ o.aim = AllExcept(o.device) /\ o.at = op[p].at /\ o.new = op[p].new
      /\ o.upto = op[p].upto /\ o.members = op[p].members /\ o.reached = op[p].reached
      /\ o.device = op[p].device /\ o.request = op[p].request
  BY <1>2, <1>3, AimsOk DEF Locals
<1> HIDE DEF o
<1>5. LocalOk("revokeFind", o) BY <1>2, <1>4 DEF LocalOk, RefreshSteps, ChangeSteps
<1> QED BY <1>1, <1>3, <1>4, <1>5, Quiet DEF Steps, RefreshSteps, TypesInv

\* The account is suspended before its sessions are revoked.
LEMMA KeepsSetStatus ==
    ASSUME IInv, NEW p \in Handlers, SetStatus(p)
    PROVE  IInv'
<1>1. /\ pc[p] = "setStatus" /\ UNCHANGED <<sessions, issued, now, history>>
      /\ status' = "suspended" /\ password' = password /\ TypesInv
      /\ RevokeNext(p, op[p].at, AllOfUser)
  BY DEF SetStatus, IInv
<1>2. op[p].request # "change" /\ op[p].at \in 0..now BY <1>1, Holding DEF ChangeSteps
<1> QED BY <1>1, <1>2, AimsOk, ToRevoke DEF TypesInv

\* A rotated token again.
LEMMA KeepsRefreshChild ==
    ASSUME IInv, NEW p \in Handlers, RefreshChild(p)
    PROVE  IInv'
<1>1. /\ pc[p] = "refreshChild" /\ UNCHANGED <<sessions, issued, now, history>>
      /\ status' = status /\ password' = password /\ TypesInv
  BY DEF RefreshChild, store, IInv
<1>2. /\ op[p].request # "change" /\ op[p].at \in 0..now /\ op[p].row.family \in Nat
  BY <1>1, Holding DEF ChangeSteps
<1>3. Return(p) \/ RevokeNext(p, op[p].at, Family(op[p].row.family)) BY DEF RefreshChild
<1> QED BY <1>1, <1>2, <1>3, AimsOk, ToRevoke, KeepsReturn DEF TypesInv

----------------------------------------------------------------------------
(* A refresh. *)

\* All handlers hold what is right when p's locals are, and the token p is
\* about to insert is nobody else's.
LEMMA HandlersKept ==
    ASSUME TypesInv, HandlersInv, NEW p \in Handlers, Alone(p), now' \in Nat, now <= now',
           issued' \in Nat, issued <= issued', opened \subseteq opened', LocalOk(pc[p], op[p])',
           \A q \in Handlers \ {p} :
              /\ Inserting(q) => op[q].new \notin DOMAIN sessions'
              /\ pc[q] \in {"refreshUser", "rotate"} /\ op[q].token \in DOMAIN sessions' =>
                    /\ Stored(op[q].token)
                    /\ sessions'[op[q].token].family = sessions[op[q].token].family
              /\ Inserting(p)' => /\ Inserting(q) => op'[p].new # op[q].new
                                  /\ pc[q] \in {"refreshUser", "rotate"} => op'[p].new # op[q].token
              /\ pc'[p] \in {"refreshUser", "rotate"} /\ Inserting(q) => op[q].new # op'[p].token
    PROVE  HandlersInv'
<1>1. \A q \in Handlers \ {p} : LocalOk(pc[q], op[q])'
  <2> TAKE q \in Handlers \ {p}
  <2>1. LocalOk(pc[q], op[q]) /\ pc'[q] = pc[q] /\ op'[q] = op[q] BY DEF HandlersInv, Alone
  <2> QED BY <2>1, StaysOk DEF Inserting
<1>2. \A q, r \in Handlers :
         /\ Inserting(q)' /\ Inserting(r)' /\ op'[q].new = op'[r].new => q = r
         /\ Inserting(q)' /\ pc'[r] \in {"refreshUser", "rotate"} => op'[q].new # op'[r].token
  <2>1. \A q \in Handlers \ {p} : pc'[q] = pc[q] /\ op'[q] = op[q] /\ (Inserting(q)' <=> Inserting(q))
    BY DEF Alone, Inserting
  <2>2. Inserting(p)' => pc'[p] \notin {"refreshUser", "rotate"} BY DEF Inserting
  <2> QED BY <2>1, <2>2 DEF HandlersInv
<1> QED BY <1>1, <1>2 DEF HandlersInv

\* A stored row is right, and a token about to be inserted is not stored.
LEMMA StoredOk ==
    ASSUME IInv, NEW t \in DOMAIN sessions
    PROVE  /\ sessions[t] \in Row /\ RowOk(sessions[t]) /\ sessions[t] \in KnownRows
           /\ t \in 1..issued /\ sessions[t].family \in Nat
           /\ \A q \in Handlers : Inserting(q) => op[q].new # t
<1>1. sessions[t] \in Row /\ sessions[t].family \in Nat /\ t \in 1..issued
  BY DEF IInv, TypesInv, Row
<1>2. sessions[t] \in KnownRows BY DEF KnownRows
<1>3. \A q \in Handlers : Inserting(q) => op[q].new \notin DOMAIN sessions
  BY DEF IInv, HandlersInv, LocalOk, Inserting
<1> QED BY <1>1, <1>2, <1>3 DEF IInv, RowsInv

\* A refresh whose row is fit to be rotated.
LEMMA KeepsProceed ==
    ASSUME IInv, NEW p \in Handlers, NEW t, NEW row, pc[p] = "refreshFind",
           t = op[p].token, Stored(t), row = sessions[t], Answer(p, row) = "proceed",
           Goto(p, "refreshUser", [op[p] EXCEPT !.row = row]),
           overlapped' = overlapped \cup ({row.family} \cap UNION {op[q].reached : q \in Handlers}),
           UNCHANGED <<store, now, opened, cut, changes>>
    PROVE  IInv'
<1> USE DEF IInv
<1> DEFINE o == [op[p] EXCEPT !.row = row]
           f == row.family
<1>1. /\ row.revokedAt = NotRevoked /\ row.device = op[p].device
      /\ op[p].at - row.startedAt <= Lifetime
  <2>1. row \in Row /\ op[p] \in Locals BY Holding, StoredOk DEF Stored
  <2> QED BY <2>1 DEF Answer, PastLifetime, Row, Locals
<1>2. /\ row \in Row /\ RowOk(row) /\ row \in KnownRows /\ t \in 1..issued /\ Live(t)
      /\ \A q \in Handlers : Inserting(q) => op[q].new # t
  BY <1>1, StoredOk DEF Stored, Live
<1>3. op[p] \in Locals /\ LocalOk("refreshFind", op[p]) /\ op[p].request # "change"
  BY Holding DEF ChangeSteps
<1>4. /\ o \in Locals /\ o.row = row /\ o.token = t /\ o.device = op[p].device
      /\ o.at = op[p].at /\ o.new = op[p].new /\ o.upto = op[p].upto /\ o.members = op[p].members
      /\ o.reached = op[p].reached /\ o.request = op[p].request
  BY <1>2, <1>3 DEF Locals
<1>5. Alone(p) /\ pc'[p] = "refreshUser" /\ op'[p] = o
  BY <1>4, Going DEF Steps
<1>6. /\ sessions' = sessions /\ issued' = issued /\ now' = now /\ opened' = opened /\ cut' = cut
      /\ changes' = changes /\ status' = status /\ password' = password
  BY DEF store
<1> HIDE DEF o
<1>7. TypesInv' BY <1>5, <1>6 DEF TypesInv, Alone
<1>8. HandlersInv'
  <2>1. LocalOk("refreshUser", o)
    BY <1>1, <1>2, <1>3, <1>4 DEF LocalOk, RefreshSteps, ChangeSteps
  <2>2. LocalOk(pc[p], op[p])' BY <1>5, <1>6, <2>1 DEF LocalOk, Stored, AllExcept
  <2>3. \A q \in Handlers : Inserting(q) => op[q].new \notin DOMAIN sessions
    BY StoredOk
  <2>4. ~Inserting(p)' BY <1>5 DEF Inserting
  <2>5. now <= now' /\ issued <= issued' /\ now' \in Nat /\ issued' \in Nat
    BY <1>6 DEF TypesInv
  <2> QED BY <1>2, <1>4, <1>5, <1>6, <2>2, <2>3, <2>4, <2>5, HandlersKept DEF Stored
<1>9. Refreshers' = Refreshers \cup {p} /\ \A q \in Refreshers \ {p} : op'[q] = op[q]
  BY <1>5 DEF Refreshers, Alone
<1>10. RowsInv'
  <2>1. KnownRows' \subseteq KnownRows
    BY <1>2, <1>4, <1>5, <1>6, <1>9 DEF KnownRows
  <2>2. \A r : RowOk(r) => RowOk(r)' BY <1>6 DEF RowOk
  <2> QED BY <2>1, <2>2, RowsKept DEF RowsInv, SameBirth
<1>11. ForkInv'
  <2>1. \A q \in Handlers : Inserting(q)' => Inserting(q) /\ op'[q] = op[q]
    BY <1>5 DEF Inserting, Alone
  <2>2. \A s : Live(s)' <=> Live(s) BY <1>6 DEF Live, Stored
  <2> QED BY <1>6, <2>1, <2>2 DEF ForkInv
<1>12. overlapped \subseteq overlapped' /\ \A s : Live(s)' <=> Live(s)
  BY <1>6 DEF Live, Stored
<1>13. \A q \in Handlers :
          /\ op'[q].reached = op[q].reached
          /\ pc'[q] = "revokeEach" => q # p /\ op'[q] = op[q] /\ pc[q] = pc'[q]
  BY <1>4, <1>5 DEF Alone
<1>14. CutInv'
  <2>1. f \in cut => f \in overlapped' BY <1>2, <1>12 DEF CutInv
  <2>2. \A q \in Handlers : f \in op[q].reached => f \in overlapped' OBVIOUS
  <2>3. \A s : Live(s)' => sessions'[s].family \notin cut' \ overlapped'
    BY <1>6, <1>12 DEF CutInv
  <2>4. \A q \in Handlers : \A s :
           /\ pc'[q] = "revokeEach" /\ Live(s)'
           /\ sessions'[s].family \in op'[q].reached \ overlapped'
           => s \in op'[q].members
    <3> TAKE q \in Handlers
    <3> TAKE s
    <3>1. pc'[q] = "revokeEach" => pc[q] = "revokeEach" /\ op'[q] = op[q] BY <1>13
    <3> QED BY <1>6, <1>12, <3>1 DEF CutInv
  <2>5. \A q \in Refreshers' :
           /\ op'[q].row.family \in cut' => op'[q].row.family \in overlapped'
           /\ \A r \in Handlers :
                 op'[q].row.family \in op'[r].reached => op'[q].row.family \in overlapped'
    <3> TAKE q \in Refreshers'
    <3>1. CASE q = p BY <1>4, <1>5, <1>6, <1>13, <2>1, <2>2, <3>1
    <3>2. CASE q # p BY <1>6, <1>9, <1>12, <1>13, <3>2 DEF CutInv
    <3> QED BY <3>1, <3>2
  <2> QED BY <2>3, <2>4, <2>5 DEF CutInv
<1>15. PasswordInv'
  <2>1. \A r, c : Outdated(r, c)' => Outdated(r, c) BY <1>12 DEF Outdated
  <2>2. \A q \in Handlers : Shutting(q)' => Shutting(q) /\ op'[q] = op[q]
    BY <1>13 DEF Shutting
  <2>3. \A c \in changes : ~Outdated(row, c) BY <1>2 DEF PasswordInv
  <2>4. \A q \in Handlers : Shutting(q) /\ Outdated(row, op[q]) => f \in op[q].reached
    BY <1>2 DEF PasswordInv
  <2>5. \A q \in Handlers : Shutting(q) => ~Outdated(row, op[q])'
    <3> TAKE q \in Handlers
    <3>1. Outdated(row, op[q])' => f \notin overlapped' BY <1>6 DEF Outdated
    <3>2. f \in op[q].reached => f \in overlapped' OBVIOUS
    <3>3. Shutting(q) /\ Outdated(row, op[q])' => Outdated(row, op[q])
      BY <1>5, <1>6, <1>12 DEF Shutting, Outdated, Alone
    <3> QED BY <2>4, <3>1, <3>2, <3>3
  <2>6. \A c \in changes' : /\ \A s : Live(s)' => ~Outdated(sessions[s], c)'
                            /\ \A q \in Refreshers' : ~Outdated(op[q].row, c)'
    <3> TAKE c \in changes'
    <3>1. \A s : Live(s)' => ~Outdated(sessions[s], c)'
      BY <1>6, <1>12 DEF PasswordInv, Outdated
    <3>2. ASSUME NEW q \in Refreshers' PROVE ~Outdated(op[q].row, c)'
      <4>1. CASE q = p
        BY <1>4, <1>5, <1>6, <1>12, <2>3, <4>1 DEF Outdated
      <4>2. CASE q # p
        <5>1. q \in Refreshers /\ op'[q] = op[q] /\ c \in changes BY <1>6, <1>9, <4>2
        <5>2. ~Outdated(op[q].row, c) BY <5>1 DEF PasswordInv
        <5> QED BY <1>12, <5>1, <5>2 DEF Outdated
      <4> QED BY <4>1, <4>2
    <3> QED BY <3>1, <3>2
  <2>7. ASSUME NEW q \in Handlers, Shutting(q)'
        PROVE  /\ \A s : Live(s)' /\ Outdated(sessions[s], op[q])' =>
                             s \in op'[q].members /\ sessions'[s].family \in op'[q].reached
               /\ \A r \in Refreshers' : ~Outdated(op[r].row, op[q])'
    <3>1. Shutting(q) /\ op'[q] = op[q] BY <2>2, <2>7
    <3>2. \A s : Live(s)' /\ Outdated(sessions[s], op[q])' =>
                    s \in op'[q].members /\ sessions'[s].family \in op'[q].reached
      BY <1>6, <1>12, <3>1 DEF PasswordInv, Outdated
    <3>3. ASSUME NEW r \in Refreshers' PROVE ~Outdated(op[r].row, op[q])'
      <4>1. CASE r = p BY <1>4, <1>5, <1>6, <2>5, <3>1, <4>1 DEF Outdated
      <4>2. CASE r # p BY <1>9, <1>12, <3>1, <4>2 DEF PasswordInv, Outdated
      <4> QED BY <4>1, <4>2
    <3> QED BY <3>2, <3>3
  <2> QED BY <2>6, <2>7 DEF PasswordInv
<1> QED BY <1>7, <1>8, <1>10, <1>11, <1>14, <1>15

\* A refresh finds its row, or none.
LEMMA KeepsRefreshFind ==
    ASSUME IInv, NEW p \in Handlers, RefreshFind(p)
    PROVE  IInv'
<1>1. /\ pc[p] = "refreshFind" /\ UNCHANGED <<store, now, opened, cut, changes>> /\ TypesInv
  BY DEF RefreshFind, IInv
<1>2. /\ op[p].request # "change" /\ op[p].at \in 0..now /\ op[p] \in Locals
      /\ LocalOk("refreshFind", op[p])
  BY <1>1, Holding DEF ChangeSteps
<1>3. CASE Return(p) /\ UNCHANGED overlapped
  BY <1>1, <1>3, KeepsReturn DEF store, history
<1> DEFINE row == sessions[op[p].token]
<1>4. CASE Stored(op[p].token) /\ RevokeNext(p, op[p].at, Family(row.family)) /\ UNCHANGED overlapped
  <2>1. row.family \in Nat BY <1>4, StoredOk DEF Stored
  <2> QED BY <1>1, <1>2, <1>4, <2>1, AimsOk, ToRevoke DEF store, history, TypesInv
<1>5. CASE Stored(op[p].token) /\ Goto(p, "refreshChild", [op[p] EXCEPT !.row = row])
             /\ UNCHANGED overlapped
  <2> DEFINE o == [op[p] EXCEPT !.row = row]
  <2>1. row \in Row BY <1>5, StoredOk DEF Stored
  <2>2. /\ o \in Locals /\ o.at = op[p].at /\ o.new = op[p].new /\ o.upto = op[p].upto
        /\ o.members = op[p].members /\ o.reached = op[p].reached /\ o.request = op[p].request
    BY <1>2, <2>1 DEF Locals
  <2> HIDE DEF o
  <2>3. LocalOk("refreshChild", o) BY <1>2, <2>2 DEF LocalOk, RefreshSteps, ChangeSteps
  <2>4. Goto(p, "refreshChild", o) BY <1>5 DEF o
  <2> QED BY <1>1, <1>5, <2>2, <2>3, <2>4, Quiet DEF store, history, Steps, RefreshSteps, TypesInv
<1>6. CASE /\ Stored(op[p].token) /\ Answer(p, row) = "proceed"
           /\ Goto(p, "refreshUser", [op[p] EXCEPT !.row = row])
           /\ overlapped' = overlapped \cup ({row.family} \cap UNION {op[q].reached : q \in Handlers})
  BY <1>1, <1>6, KeepsProceed
<1> QED BY <1>3, <1>4, <1>5, <1>6 DEF RefreshFind

\* The account is active and the rotation may begin, or all is revoked.
LEMMA KeepsRefreshUser ==
    ASSUME IInv, NEW p \in Handlers, RefreshUser(p)
    PROVE  IInv'
<1> USE DEF IInv
<1>1. /\ pc[p] = "refreshUser" /\ sessions' = sessions /\ issued' = issued /\ now' = now
      /\ opened' = opened /\ cut' = cut /\ overlapped' = overlapped /\ changes' = changes
      /\ status' = status /\ password' = password
  BY DEF RefreshUser, store, history
<1>2. /\ op[p].request # "change" /\ op[p].at \in 0..now /\ op[p] \in Locals
      /\ op[p].row.family \in Nat /\ LocalOk("refreshUser", op[p])
  BY <1>1, Holding DEF ChangeSteps
<1>3. CASE RevokeNext(p, op[p].at, Family(op[p].row.family))
  BY <1>1, <1>2, <1>3, AimsOk, ToRevoke DEF history, TypesInv
<1>4. CASE Goto(p, "rotate", op[p])
  <2>1. Alone(p) /\ pc'[p] = "rotate" /\ op'[p] = op[p] BY <1>2, <1>4, Going DEF Steps
  <2>2. \A q \in Handlers : op'[q] = op[q] /\ (Inserting(q)' <=> Inserting(q))
    BY <1>1, <2>1 DEF Alone, Inserting
  <2>3. Refreshers' = Refreshers BY <1>1, <2>1 DEF Refreshers, Alone
  <2>4. TypesInv' BY <1>1, <2>1 DEF TypesInv, Alone
  <2>5. HandlersInv'
    <3>1. \A st, l : LocalOk(st, l) => LocalOk(st, l)' BY <1>1 DEF LocalOk, Stored, AllExcept
    <3>2. LocalOk("rotate", op[p]) BY <1>2 DEF LocalOk, RefreshSteps, ChangeSteps
    <3>3. \A q \in Handlers : LocalOk(pc[q], op[q])'
      BY <2>1, <3>1, <3>2 DEF HandlersInv, Alone
    <3>4. \A q \in Handlers : pc'[q] \in {"refreshUser", "rotate"} =>
                                 pc[q] \in {"refreshUser", "rotate"}
      BY <1>1, <2>1 DEF Alone
    <3> QED BY <2>2, <3>3, <3>4 DEF HandlersInv
  <2>6. RowsInv'
    <3>1. KnownRows' = KnownRows
      <4>1. \A q \in Refreshers : op'[q] = op[q] BY <2>2 DEF Refreshers
      <4> QED BY <1>1, <2>3, <4>1 DEF KnownRows
    <3>2. \A r : RowOk(r) => RowOk(r)' BY <1>1 DEF RowOk
    <3> QED BY <3>1, <3>2, RowsKept DEF RowsInv, SameBirth
  <2>7. Dimming
    <3>1. \A t : Live(t)' => Live(t) /\ SameBirth(sessions'[t], sessions[t])
      BY <1>1 DEF Live, Stored, SameBirth
    <3>2. \A q \in Handlers : pc'[q] = "revokeEach" => pc[q] = "revokeEach"
      BY <2>1 DEF Alone
    <3>3. \A q \in Refreshers : q \in Handlers BY DEF Refreshers
    <3> QED BY <1>1, <2>2, <2>3, <3>1, <3>2, <3>3 DEF Dimming
  <2> QED BY <2>2, <2>4, <2>5, <2>6, <2>7, DimmingCuts, DimmingFork
<1> QED BY <1>3, <1>4 DEF RefreshUser

\* The compare-and-swap is won: the row is retired, its child not stored yet.
LEMMA KeepsWon ==
    ASSUME IInv, NEW p \in Handlers, NEW t, t = op[p].token, pc[p] = "rotate", Live(t),
           issued < MaxTokens, issued' = issued + 1,
           sessions' = [sessions EXCEPT ![t].revokedAt = op[p].at, ![t].replacedBy = issued + 1],
           Goto(p, "insertChild", [op[p] EXCEPT !.new = issued + 1]),
           UNCHANGED <<status, password, now, history>>
    PROVE  IInv'
<1> USE DEF IInv
<1> DEFINE o == [op[p] EXCEPT !.new = issued + 1]
           row == [sessions[t] EXCEPT !.revokedAt = op[p].at, !.replacedBy = issued + 1]
<1>1. /\ now' = now /\ opened' = opened /\ cut' = cut /\ overlapped' = overlapped
      /\ changes' = changes /\ status' = status /\ password' = password
  BY DEF history
<1>2. /\ op[p] \in Locals /\ LocalOk("rotate", op[p]) /\ op[p].at \in 0..now
      /\ t \in DOMAIN sessions /\ sessions[t] \in Row /\ RowOk(sessions[t])
      /\ sessions[t] \in KnownRows /\ t \in 1..issued
      /\ sessions[t].family = op[p].row.family
  <2>1. t \in DOMAIN sessions BY DEF Live, Stored
  <2> QED BY <2>1, Holding, StoredOk DEF LocalOk, Stored
<1>3. issued \in Nat /\ issued' \in 0..MaxTokens /\ issued' \in 1..issued' /\ now \in Nat
  BY DEF TypesInv
<1>4. /\ o \in Locals /\ o.new = issued' /\ o.at = op[p].at /\ o.upto = op[p].upto
      /\ o.members = op[p].members /\ o.reached = op[p].reached /\ o.row = op[p].row
      /\ o.device = op[p].device /\ o.request = op[p].request
  BY <1>2, <1>3 DEF Locals
<1>5. Alone(p) /\ pc'[p] = "insertChild" /\ op'[p] = o BY <1>4, Going DEF Steps
<1>6. /\ row \in Row /\ SameBirth(row, sessions[t]) /\ row.revokedAt = op[p].at
      /\ row.replacedBy = issued' /\ row.issuedAt = sessions[t].issuedAt
  BY <1>2, <1>3 DEF Row, SameBirth
<1>7. /\ DOMAIN sessions' = DOMAIN sessions /\ sessions'[t] = row
      /\ \A s \in DOMAIN sessions \ {t} : sessions'[s] = sessions[s]
  BY <1>2
<1> HIDE DEF o, row
<1>8. \A q \in Handlers : op'[q].row = op[q].row /\ op'[q].reached = op[q].reached
  BY <1>4, <1>5 DEF Alone
<1>9. Refreshers' = Refreshers BY <1>5 DEF Refreshers, Alone
<1>10. TypesInv'
  <2>1. \A s \in DOMAIN sessions' : sessions'[s] \in Row BY <1>6, <1>7 DEF TypesInv
  <2>2. opened' \subseteq 1..issued' /\ DOMAIN sessions' \subseteq 1..issued'
    BY <1>1, <1>3, <1>7 DEF TypesInv
  <2>3. \A c \in changes' : c.upto \in 0..issued' /\ c.password \in Nat
    BY <1>1, <1>3 DEF TypesInv
  <2> QED BY <1>1, <1>3, <1>5, <2>1, <2>2, <2>3 DEF TypesInv, Alone
<1>11. HandlersInv'
  <2>1. issued' \notin DOMAIN sessions' BY <1>3, <1>7 DEF TypesInv
  <2>3. LocalOk(pc[p], op[p])'
    BY <1>1, <1>2, <1>3, <1>4, <1>5, <2>1 DEF LocalOk, RefreshSteps, ChangeSteps, TypesInv
  <2>4. \A q \in Handlers \ {p} :
           /\ Inserting(q) => op[q].new \notin DOMAIN sessions' /\ op[q].new # issued'
           /\ pc[q] \in {"refreshUser", "rotate"} => op[q].token # issued'
    <3> TAKE q \in Handlers \ {p}
    <3>1. LocalOk(pc[q], op[q]) BY DEF HandlersInv
    <3>2. Inserting(q) => op[q].new \in 1..issued \ DOMAIN sessions
      BY <3>1 DEF LocalOk, Inserting
    <3>3. pc[q] \in {"refreshUser", "rotate"} => op[q].token \in 1..issued
      BY <3>1 DEF LocalOk
    <3> QED BY <1>3, <1>7, <3>2, <3>3
  <2>5. \A q \in Handlers \ {p} : Stored(op[q].token) =>
           sessions'[op[q].token].family = sessions[op[q].token].family
    BY <1>6, <1>7 DEF Stored, SameBirth
  <2>6. \A q \in Handlers \ {p} :
           /\ Inserting(q) => op[q].new \notin DOMAIN sessions'
           /\ pc[q] \in {"refreshUser", "rotate"} /\ op[q].token \in DOMAIN sessions' =>
                 /\ Stored(op[q].token)
                 /\ sessions'[op[q].token].family = sessions[op[q].token].family
           /\ Inserting(p)' => /\ Inserting(q) => op'[p].new # op[q].new
                               /\ pc[q] \in {"refreshUser", "rotate"} => op'[p].new # op[q].token
           /\ pc'[p] \in {"refreshUser", "rotate"} /\ Inserting(q) => op[q].new # op'[p].token
    BY <1>4, <1>5, <1>7, <2>4, <2>5 DEF Stored
  <2>7. opened \subseteq opened' /\ now <= now' /\ issued <= issued' /\ now' \in Nat /\ issued' \in Nat
    BY <1>1, <1>3
  <2> QED BY <1>5, <2>3, <2>6, <2>7, HandlersKept
<1>12. RowsInv'
  <2>1. \A r \in KnownRows' : r = row \/ r \in KnownRows
    <3>1. \A q \in Refreshers' : q \in Refreshers /\ op'[q].row = op[q].row
      BY <1>8, <1>9 DEF Refreshers
    <3>2. \A s \in DOMAIN sessions' : sessions'[s] = row \/ sessions'[s] \in KnownRows
      BY <1>7 DEF KnownRows
    <3>3. \A q \in Refreshers' : op'[q].row \in KnownRows BY <3>1 DEF KnownRows
    <3> TAKE r \in KnownRows'
    <3>4. CASE \E u \in DOMAIN sessions' : r = sessions'[u] BY <3>2, <3>4
    <3>5. CASE \E q \in Refreshers' : r = op'[q].row BY <3>3, <3>5
    <3> QED BY <3>4, <3>5 DEF KnownRows
  <2>2. \A r \in KnownRows : RowOk(r)'
    <3>1. now <= now' /\ issued <= issued' /\ now' \in Nat /\ issued' \in Nat BY <1>1, <1>3
    <3> QED BY <1>1, <3>1, StaysRowOk DEF RowsInv
  <2>3. \A r : r = row => RowOk(r)'
    BY <1>1, <1>2, <1>3, <1>6 DEF RowOk, SameBirth
  <2>4. \A r \in KnownRows : SameBirth(r, r) BY DEF SameBirth
  <2> QED BY <1>2, <1>6, <2>1, <2>2, <2>3, <2>4, RowsKept
<1>13. \A s : Live(s)' => s # t /\ Live(s) /\ sessions'[s] = sessions[s]
  BY <1>2, <1>6, <1>7 DEF Live, Stored, NotRevoked
<1>14. Dimming
  <2>1. \A s : Live(s)' => Live(s) /\ SameBirth(sessions'[s], sessions[s])
    BY <1>13 DEF SameBirth
  <2>2. \A q \in Handlers : pc'[q] = "revokeEach" => pc[q] = "revokeEach" /\ op'[q] = op[q]
    BY <1>5 DEF Alone
  <2>3. \A q \in Refreshers : q \in Handlers BY DEF Refreshers
  <2> QED BY <1>1, <1>8, <1>9, <2>1, <2>2, <2>3 DEF Dimming
<1>15. ForkInv'
  <2>1. \A q \in Handlers : Inserting(q)' => q = p \/ (q # p /\ Inserting(q))
    BY <1>5 DEF Inserting, Alone
  <2>2. \A q \in Handlers : Inserting(q) => op[q].row.family # op[p].row.family
    BY <1>2 DEF ForkInv
  <2>3. \A s : Live(s)' => sessions'[s].family # op[p].row.family
    <3> TAKE s
    <3>1. Live(s)' => Live(s) /\ Live(t) /\ s # t /\ sessions'[s] = sessions[s] BY <1>13
    <3>2. \A u, v : Live(u) /\ Live(v) /\ sessions[u].family = sessions[v].family => u = v
      BY DEF ForkInv
    <3> QED BY <1>2, <3>1, <3>2
  <2>4. \A s, u : Live(s)' /\ Live(u)' /\ sessions'[s].family = sessions'[u].family => s = u
    <3>1. \A u, v : Live(u) /\ Live(v) /\ sessions[u].family = sessions[v].family => u = v
      BY DEF ForkInv
    <3> TAKE s, u
    <3>2. Live(s)' => Live(s) /\ sessions'[s] = sessions[s] BY <1>13
    <3>3. Live(u)' => Live(u) /\ sessions'[u] = sessions[u] BY <1>13
    <3> QED BY <3>1, <3>2, <3>3
  <2>5. \A q, r \in Handlers :
           Inserting(q)' /\ Inserting(r)' /\ op'[q].row.family = op'[r].row.family => q = r
    BY <1>8, <2>1, <2>2 DEF ForkInv
  <2>6. \A q \in Handlers : \A s :
           Inserting(q)' /\ Live(s)' => sessions'[s].family # op'[q].row.family
    <3> TAKE q \in Handlers
    <3> TAKE s
    <3>1. CASE q = p BY <1>8, <2>3, <3>1
    <3>2. CASE q # p
      <4>1. Inserting(q)' => Inserting(q) BY <2>1, <3>2
      <4>2. Live(s)' => Live(s) /\ sessions'[s] = sessions[s] BY <1>13
      <4>3. Inserting(q) /\ Live(s) => sessions[s].family # op[q].row.family BY DEF ForkInv
      <4> QED BY <1>8, <4>1, <4>2, <4>3
    <3> QED BY <3>1, <3>2
  <2> QED BY <2>4, <2>5, <2>6 DEF ForkInv
<1> QED BY <1>10, <1>11, <1>12, <1>14, <1>15, DimmingCuts

\* The compare-and-swap, won or lost.
LEMMA KeepsRotate ==
    ASSUME IInv, NEW p \in Handlers, Rotate(p)
    PROVE  IInv'
<1>1. pc[p] = "rotate" /\ issued < MaxTokens /\ UNCHANGED <<status, password, now, history>>
  BY DEF Rotate
<1>2. CASE Live(op[p].token) BY <1>1, <1>2, KeepsWon DEF Rotate
<1>3. CASE ~Live(op[p].token) BY <1>1, <1>3, KeepsReturn DEF Rotate
<1> QED BY <1>2, <1>3

\* The child is stored, live: the family has its one holder again.
LEMMA KeepsInsertChild ==
    ASSUME IInv, NEW p \in Handlers, InsertChild(p)
    PROVE  IInv'
<1> USE DEF IInv
<1>0. PICK n, old, at : n = op[p].new /\ old = op[p].row /\ at = op[p].at
  OBVIOUS
<1> DEFINE child == [old EXCEPT !.device = op[p].device, !.issuedAt = at, !.expiresAt = at + Ttl]
<1>1. /\ pc[p] = "insertChild" /\ PutRow(n, child) /\ Return(p)
      /\ issued' = issued /\ now' = now /\ opened' = opened /\ cut' = cut
      /\ overlapped' = overlapped /\ changes' = changes /\ status' = status /\ password' = password
  BY <1>0 DEF InsertChild, history
<1>2. /\ old \in Row /\ n \in 1..issued /\ n \notin DOMAIN sessions
      /\ at \in 0..now /\ at \in Nat /\ old.device = op[p].device
      /\ at - old.startedAt <= Lifetime
  <2>1. op[p] \in Locals /\ LocalOk("insertChild", op[p]) BY <1>1, Holding
  <2> QED BY <1>0, <2>1 DEF Locals, LocalOk, RefreshSteps, TypesInv
<1>3. p \in Refreshers /\ Inserting(p) /\ old \in KnownRows
  BY <1>0, <1>1 DEF Refreshers, Inserting, KnownRows
<1>4. RowOk(old) BY <1>3 DEF RowsInv
<1>5. /\ child \in Row /\ SameBirth(child, old) /\ child.issuedAt = at
      /\ child.revokedAt = old.revokedAt /\ child.replacedBy = old.replacedBy
  <2>1. at + Ttl \in Nat /\ old.device \in Devices \cup {NoDevice} BY <1>2 DEF Row
  <2>2. child = [old EXCEPT !.device = old.device, !.issuedAt = at, !.expiresAt = at + Ttl]
    BY <1>2
  <2> QED BY <1>2, <2>1, <2>2 DEF Row, SameBirth
<1>6. PICK new : new = child OBVIOUS
<1> HIDE DEF child
<1>7. /\ DOMAIN sessions' = DOMAIN sessions \cup {n} /\ sessions'[n] = new
      /\ \A s \in DOMAIN sessions : sessions'[s] = sessions[s]
  BY <1>1, <1>2, <1>6 DEF PutRow
<1>8. Alone(p) /\ pc'[p] = "idle" /\ op'[p] = Idle
  BY <1>1, IdleOk, Going DEF Return, Steps
<1>9. \A q \in Refreshers' : q \in Refreshers /\ q # p /\ op'[q] = op[q]
  BY <1>8 DEF Refreshers, Alone
<1>10. \A q \in Handlers :
          /\ op'[q].reached \subseteq op[q].reached
          /\ q # p => pc'[q] = pc[q] /\ op'[q] = op[q]
  BY <1>8, RestingOk DEF Alone
<1>11. \A s : Live(s)' => (s = n \/ (Live(s) /\ sessions'[s] = sessions[s]))
  BY <1>7 DEF Live, Stored
<1>12. TypesInv'
  <2>1. \A s \in DOMAIN sessions' : sessions'[s] \in Row BY <1>5, <1>6, <1>7 DEF TypesInv
  <2> QED BY <1>1, <1>2, <1>7, <1>8, <2>1 DEF TypesInv, Alone
<1>13. HandlersInv'
  <2>1. LocalOk("idle", Idle) BY RestingOk
  <2>2. LocalOk(pc[p], op[p])'
    BY <1>1, <1>8, <2>1 DEF LocalOk, RefreshSteps, ChangeSteps, Idle, NoToken
  <2>3. ~Inserting(p)' /\ pc'[p] \notin {"refreshUser", "rotate"} BY <1>8 DEF Inserting
  <2>4. \A q \in Handlers \ {p} :
           /\ Inserting(q) => op[q].new # n /\ op[q].new \notin DOMAIN sessions
           /\ pc[q] \in {"refreshUser", "rotate"} => op[q].token # n
    BY <1>0, <1>3 DEF HandlersInv, LocalOk, Inserting
  <2>5. now' \in Nat /\ now <= now' /\ issued' \in Nat /\ issued <= issued' /\ opened \subseteq opened'
    BY <1>1 DEF TypesInv
  <2> QED BY <1>7, <1>8, <2>2, <2>3, <2>4, <2>5, HandlersKept DEF Stored
<1>14. RowsInv'
  <2>1. \A r \in KnownRows' : r = new \/ r \in KnownRows
    <3>1. \A s \in DOMAIN sessions' : sessions'[s] = new \/ sessions'[s] \in KnownRows
      BY <1>7 DEF KnownRows
    <3>2. \A q \in Refreshers' : op'[q].row \in KnownRows BY <1>9 DEF KnownRows
    <3> QED BY <3>1, <3>2 DEF KnownRows
  <2>2. \A r : RowOk(r) => RowOk(r)' BY <1>1 DEF RowOk
  <2>3. RowOk(new)
    BY <1>2, <1>4, <1>5, <1>6 DEF RowOk, SameBirth, Row, TypesInv
  <2>4. \A r \in KnownRows : SameBirth(r, r) BY DEF SameBirth
  <2>5. SameBirth(new, old) BY <1>5, <1>6
  <2>6. \A r \in KnownRows' : RowOk(r)' /\ \E k \in KnownRows : SameBirth(r, k)
    <3> TAKE r \in KnownRows'
    <3>1. CASE r = new BY <1>3, <2>2, <2>3, <2>5, <3>1
    <3>2. CASE r \in KnownRows BY <2>2, <2>4, <3>2 DEF RowsInv
    <3> QED BY <2>1, <3>1, <3>2
  <2> QED BY <2>6, RowsKept
<1>15. new.family = old.family /\ new.device = old.device /\ new.password = old.password
  BY <1>5, <1>6 DEF SameBirth
<1>16. ForkInv'
  <2>1. \A q \in Handlers : Inserting(q)' => q # p /\ Inserting(q) /\ op'[q] = op[q]
    BY <1>8 DEF Inserting, Alone
  <2>2. \A s : Live(s) => sessions[s].family # old.family BY <1>0, <1>3 DEF ForkInv
  <2>3. \A q \in Handlers \ {p} : Inserting(q) => op[q].row.family # old.family
    BY <1>0, <1>3 DEF ForkInv
  <2>4. \A s, u : Live(s)' /\ Live(u)' /\ sessions'[s].family = sessions'[u].family => s = u
    BY <1>7, <1>11, <1>15, <2>2 DEF ForkInv
  <2>5. \A q, r \in Handlers :
           Inserting(q)' /\ Inserting(r)' /\ op'[q].row.family = op'[r].row.family => q = r
    BY <2>1 DEF ForkInv
  <2>6. \A q \in Handlers : \A s :
           Inserting(q)' /\ Live(s)' => sessions'[s].family # op'[q].row.family
    <3> TAKE q \in Handlers
    <3> TAKE s
    <3>1. CASE s = n BY <1>7, <1>15, <2>1, <2>3, <3>1
    <3>2. CASE s # n BY <1>11, <2>1, <3>2 DEF ForkInv
    <3> QED BY <3>1, <3>2
  <2> QED BY <2>4, <2>5, <2>6 DEF ForkInv
<1>17. CutInv'
  <2>1. /\ old.family \in cut => old.family \in overlapped
        /\ \A q \in Handlers : old.family \in op[q].reached => old.family \in overlapped
    BY <1>0, <1>3 DEF CutInv
  <2>2. \A s : Live(s)' => sessions'[s].family \notin cut' \ overlapped'
    BY <1>1, <1>7, <1>11, <1>15, <2>1 DEF CutInv
  <2>3. \A q \in Handlers : \A s :
           /\ pc'[q] = "revokeEach" /\ Live(s)'
           /\ sessions'[s].family \in op'[q].reached \ overlapped'
           => s \in op'[q].members
    <3> TAKE q \in Handlers
    <3> TAKE s
    <3>1. pc'[q] = "revokeEach" => pc[q] = "revokeEach" /\ op'[q] = op[q] BY <1>8, <1>10
    <3>2. CASE s = n BY <1>1, <1>7, <1>15, <2>1, <3>1, <3>2
    <3>3. CASE s # n BY <1>1, <1>11, <3>1, <3>3 DEF CutInv
    <3> QED BY <3>2, <3>3
  <2>4. \A q \in Refreshers' :
           /\ op'[q].row.family \in cut' => op'[q].row.family \in overlapped'
           /\ \A r \in Handlers :
                 op'[q].row.family \in op'[r].reached => op'[q].row.family \in overlapped'
    <3> TAKE q \in Refreshers'
    <3>1. /\ op[q].row.family \in cut => op[q].row.family \in overlapped
          /\ \A r \in Handlers :
                op[q].row.family \in op[r].reached => op[q].row.family \in overlapped
      BY <1>9 DEF CutInv
    <3> QED BY <1>1, <1>9, <1>10, <3>1
  <2> QED BY <2>2, <2>3, <2>4 DEF CutInv
<1>18. PasswordInv'
  <2>1. \A r, c : Outdated(r, c)' <=> Outdated(r, c) BY <1>1 DEF Outdated
  <2>2. \A c : Outdated(new, c) <=> Outdated(old, c) BY <1>15 DEF Outdated
  <2>3. \A s, c : Outdated(sessions[s], c)' <=> Outdated(sessions'[s], c) BY <1>1 DEF Outdated
  <2>4. \A c \in changes' : /\ \A s : Live(s)' => ~Outdated(sessions[s], c)'
                            /\ \A q \in Refreshers' : ~Outdated(op[q].row, c)'
    <3> TAKE c \in changes'
    <3>1. ~Outdated(old, c) BY <1>0, <1>1, <1>3 DEF PasswordInv
    <3>2. \A s : Live(s)' => ~Outdated(sessions'[s], c)
      BY <1>1, <1>7, <1>11, <2>2, <3>1 DEF PasswordInv
    <3>3. ASSUME NEW q \in Refreshers' PROVE ~Outdated(op[q].row, c)'
      BY <1>1, <1>9 DEF PasswordInv, Outdated
    <3> QED BY <2>3, <3>2, <3>3
  <2>5. ASSUME NEW q \in Handlers, Shutting(q)'
        PROVE  /\ \A s : Live(s)' /\ Outdated(sessions[s], op[q])' =>
                             s \in op'[q].members /\ sessions'[s].family \in op'[q].reached
               /\ \A r \in Refreshers' : ~Outdated(op[r].row, op[q])'
    <3>1. Shutting(q) /\ op'[q] = op[q] BY <1>8, <1>10, <2>5 DEF Shutting
    <3>2. ~Outdated(old, op[q]) BY <1>0, <1>3, <3>1 DEF PasswordInv
    <3>3. \A s : Outdated(sessions[s], op[q])' => Outdated(sessions'[s], op[q])
      BY <1>1, <3>1 DEF Outdated
    <3>4. \A s : Live(s)' /\ Outdated(sessions[s], op[q])' =>
                    s \in op'[q].members /\ sessions'[s].family \in op'[q].reached
      BY <1>7, <1>11, <2>2, <3>1, <3>2, <3>3 DEF PasswordInv
    <3>5. ASSUME NEW r \in Refreshers' PROVE ~Outdated(op[r].row, op[q])'
      BY <1>1, <1>9, <3>1 DEF PasswordInv, Outdated
    <3> QED BY <3>4, <3>5
  <2> QED BY <2>4, <2>5 DEF PasswordInv
<1> QED BY <1>12, <1>13, <1>14, <1>16, <1>17, <1>18

----------------------------------------------------------------------------
(* A login, the revocations, and what happens by itself. *)

\* A new family: no revocation and no change can have been aimed at it.
LEMMA KeepsLoginInsert ==
    ASSUME IInv, NEW p \in Handlers, LoginInsert(p)
    PROVE  IInv'
<1> USE DEF IInv
<1> DEFINE child == [NoRow EXCEPT !.family = issued + 1, !.device = op[p].device,
                                  !.scope = op[p].scope, !.password = op[p].password,
                                  !.issuedAt = now, !.startedAt = now, !.expiresAt = now + Ttl]
<1>0. PICK n, new : n = issued + 1 /\ new = child OBVIOUS
<1>1. /\ pc[p] = "loginInsert" /\ issued < MaxTokens /\ PutRow(n, new) /\ Return(p)
      /\ issued' = n /\ now' = now /\ opened' = opened \cup {n} /\ cut' = cut
      /\ overlapped' = overlapped /\ changes' = changes /\ status' = status /\ password' = password
  BY <1>0 DEF LoginInsert
<1>2. /\ op[p] \in Locals /\ op[p].device \in Devices /\ op[p].scope \in Scopes
      /\ op[p].password \in Nat /\ now \in Nat /\ issued \in Nat /\ n \in 1..MaxTokens
  BY <1>0, <1>1, Holding DEF Locals, LocalOk, TypesInv
<1>3. /\ new \in Row /\ new.family = n /\ new.device = op[p].device /\ new.scope = op[p].scope
      /\ new.issuedAt = now /\ new.startedAt = now /\ new.revokedAt = NotRevoked
      /\ new.replacedBy = NoToken
  <2>1. n \in Nat /\ now + Ttl \in Nat BY <1>0, <1>2
  <2>2. NoRow \in Row BY IdleOk
  <2>3. /\ new.family = n /\ new.device = op[p].device /\ new.scope = op[p].scope
        /\ new.issuedAt = now /\ new.startedAt = now /\ new.revokedAt = NotRevoked
        /\ new.replacedBy = NoToken
    BY <1>0 DEF NoRow
  <2>4. new \in Row BY <1>0, <1>2, <2>1, <2>2 DEF Row
  <2> QED BY <2>3, <2>4
<1> HIDE DEF child
<1>4. n \notin DOMAIN sessions /\ n \notin opened BY <1>0, <1>2 DEF TypesInv
<1>5. /\ DOMAIN sessions' = DOMAIN sessions \cup {n} /\ sessions'[n] = new
      /\ \A s \in DOMAIN sessions : sessions'[s] = sessions[s]
  BY <1>1, <1>4 DEF PutRow
<1>6. Alone(p) /\ pc'[p] = "idle" /\ op'[p] = Idle
  BY <1>1, IdleOk, Going DEF Return, Steps
<1>7. \A q \in Refreshers' : q \in Refreshers /\ q # p /\ op'[q] = op[q]
  BY <1>6 DEF Refreshers, Alone
<1>8. \A q \in Handlers :
          /\ op'[q].reached \subseteq op[q].reached
          /\ q # p => pc'[q] = pc[q] /\ op'[q] = op[q]
  BY <1>6, RestingOk DEF Alone
<1>9. \A s : Live(s)' => (s = n \/ (Live(s) /\ sessions'[s] = sessions[s]))
  BY <1>5 DEF Live, Stored
<1>10. /\ now' \in Nat /\ now <= now' /\ issued' \in Nat /\ issued <= issued'
       /\ opened \subseteq opened'
  BY <1>0, <1>1, <1>2
<1>11. TypesInv'
  <2>1. \A s \in DOMAIN sessions' : sessions'[s] \in Row BY <1>3, <1>5 DEF TypesInv
  <2>2. DOMAIN sessions' \subseteq 1..issued' /\ opened' \subseteq 1..issued' /\ cut' \subseteq opened'
    <3>1. n \in 1..issued' /\ 1..issued \subseteq 1..issued' BY <1>0, <1>1, <1>2
    <3> QED BY <1>1, <1>5, <3>1 DEF TypesInv
  <2>3. \A c \in changes' : c.upto \in 0..issued' /\ c.password \in Nat
    BY <1>0, <1>1, <1>2 DEF TypesInv
  <2> QED BY <1>1, <1>2, <1>6, <2>1, <2>2, <2>3 DEF TypesInv, Alone
<1>12. HandlersInv'
  <2>1. LocalOk("idle", Idle) BY RestingOk
  <2>2. LocalOk(pc[p], op[p])'
    BY <1>6, <1>10, <2>1 DEF LocalOk, RefreshSteps, ChangeSteps, Idle, NoToken
  <2>3. ~Inserting(p)' /\ pc'[p] \notin {"refreshUser", "rotate"} BY <1>6 DEF Inserting
  <2>4. \A q \in Handlers \ {p} :
           /\ Inserting(q) => op[q].new # n /\ op[q].new \notin DOMAIN sessions
           /\ pc[q] \in {"refreshUser", "rotate"} => op[q].token # n
    BY <1>0, <1>2 DEF HandlersInv, LocalOk, Inserting
  <2> QED BY <1>5, <1>6, <1>10, <2>2, <2>3, <2>4, HandlersKept DEF Stored
<1>13. RowsInv'
  <2>1. \A r \in KnownRows' : r = new \/ r \in KnownRows
    <3>1. \A s \in DOMAIN sessions' : sessions'[s] = new \/ sessions'[s] \in KnownRows
      BY <1>5 DEF KnownRows
    <3>2. \A q \in Refreshers' : op'[q].row \in KnownRows BY <1>7 DEF KnownRows
    <3> QED BY <3>1, <3>2 DEF KnownRows
  <2>2. \A r \in KnownRows : RowOk(r)' BY <1>10, StaysRowOk DEF RowsInv
  <2>3. RowOk(new)' BY <1>1, <1>2, <1>3, <1>10 DEF RowOk, NoToken
  <2>4. \A r \in KnownRows : r.family # new.family BY <1>3, <1>4 DEF RowsInv, RowOk
  <2>5. \A r, s : Akin(r, s)' <=> Akin(r, s) BY DEF Akin
  <2>6. \A r, s \in KnownRows' : Akin(r, s)
    BY <2>1, <2>4 DEF RowsInv, Akin
  <2>7. \A r \in KnownRows' : RowOk(r)' BY <2>1, <2>2, <2>3
  <2> QED BY <2>5, <2>6, <2>7 DEF RowsInv
<1>14. /\ \A s : Live(s) => sessions[s].family # n
       /\ \A q \in Refreshers : op[q].row.family # n
  <2>1. \A s : Live(s) => sessions[s].family \in opened BY StoredOk DEF Live, Stored, RowOk
  <2>2. \A q \in Refreshers : op[q].row.family \in opened BY DEF RowsInv, RowOk, KnownRows
  <2> QED BY <1>4, <2>1, <2>2
<1>15. ForkInv'
  <2>1. \A q \in Handlers : Inserting(q)' => q \in Refreshers /\ Inserting(q) /\ op'[q] = op[q]
    BY <1>6 DEF Inserting, Alone, Refreshers
  <2>2. \A s, u : Live(s)' /\ Live(u)' /\ sessions'[s].family = sessions'[u].family => s = u
    BY <1>3, <1>5, <1>9, <1>14 DEF ForkInv
  <2>3. \A q, r \in Handlers :
           Inserting(q)' /\ Inserting(r)' /\ op'[q].row.family = op'[r].row.family => q = r
    BY <2>1 DEF ForkInv
  <2>4. \A q \in Handlers : \A s :
           Inserting(q)' /\ Live(s)' => sessions'[s].family # op'[q].row.family
    <3> TAKE q \in Handlers
    <3> TAKE s
    <3>1. CASE s = n BY <1>3, <1>5, <1>14, <2>1, <3>1
    <3>2. CASE s # n BY <1>9, <2>1, <3>2 DEF ForkInv
    <3> QED BY <3>1, <3>2
  <2> QED BY <2>2, <2>3, <2>4 DEF ForkInv
<1>16. CutInv'
  <2>1. n \notin cut /\ \A q \in Handlers : n \notin op[q].reached
    BY <1>4 DEF TypesInv, HandlersInv, LocalOk
  <2>2. \A s : Live(s)' => sessions'[s].family \notin cut' \ overlapped'
    BY <1>1, <1>3, <1>5, <1>9, <2>1 DEF CutInv
  <2>3. \A q \in Handlers : \A s :
           /\ pc'[q] = "revokeEach" /\ Live(s)'
           /\ sessions'[s].family \in op'[q].reached \ overlapped'
           => s \in op'[q].members
    <3> TAKE q \in Handlers
    <3> TAKE s
    <3>1. pc'[q] = "revokeEach" => pc[q] = "revokeEach" /\ op'[q] = op[q] BY <1>6, <1>8
    <3>2. CASE s = n BY <1>3, <1>5, <1>8, <2>1, <3>2
    <3>3. CASE s # n BY <1>1, <1>9, <3>1, <3>3 DEF CutInv
    <3> QED BY <3>2, <3>3
  <2>4. \A q \in Refreshers' :
           /\ op'[q].row.family \in cut' => op'[q].row.family \in overlapped'
           /\ \A r \in Handlers :
                 op'[q].row.family \in op'[r].reached => op'[q].row.family \in overlapped'
    <3> TAKE q \in Refreshers'
    <3>1. /\ op[q].row.family \in cut => op[q].row.family \in overlapped
          /\ \A r \in Handlers :
                op[q].row.family \in op[r].reached => op[q].row.family \in overlapped
      BY <1>7 DEF CutInv
    <3> QED BY <1>1, <1>7, <1>8, <3>1
  <2> QED BY <2>2, <2>3, <2>4 DEF CutInv
<1>17. PasswordInv'
  <2>1. \A s, c : Outdated(sessions[s], c)' <=> Outdated(sessions'[s], c) BY <1>1 DEF Outdated
  <2>2. \A c \in changes' : /\ \A s : Live(s)' => ~Outdated(sessions[s], c)'
                            /\ \A q \in Refreshers' : ~Outdated(op[q].row, c)'
    <3> TAKE c \in changes'
    <3>1. ~Outdated(new, c)
      <4>1. c.upto \in 0..issued BY <1>1 DEF TypesInv
      <4>2. n \notin 1..c.upto BY <1>0, <1>2, <4>1
      <4> QED BY <1>3, <4>2 DEF Outdated
    <3>2. \A s : Live(s)' => ~Outdated(sessions'[s], c)
      BY <1>1, <1>5, <1>9, <3>1 DEF PasswordInv
    <3>3. ASSUME NEW q \in Refreshers' PROVE ~Outdated(op[q].row, c)'
      BY <1>1, <1>7 DEF PasswordInv, Outdated
    <3> QED BY <2>1, <3>2, <3>3
  <2>3. ASSUME NEW q \in Handlers, Shutting(q)'
        PROVE  /\ \A s : Live(s)' /\ Outdated(sessions[s], op[q])' =>
                             s \in op'[q].members /\ sessions'[s].family \in op'[q].reached
               /\ \A r \in Refreshers' : ~Outdated(op[r].row, op[q])'
    <3>1. Shutting(q) /\ op'[q] = op[q] BY <1>6, <1>8, <2>3 DEF Shutting
    <3>2. ~Outdated(new, op[q])
      <4>1. op[q].upto \in 0..issued BY DEF HandlersInv, LocalOk
      <4>2. n \notin 1..op[q].upto BY <1>0, <1>2, <4>1
      <4> QED BY <1>3, <4>2 DEF Outdated
    <3>3. \A s : Outdated(sessions[s], op[q])' => Outdated(sessions'[s], op[q])
      BY <1>1, <3>1 DEF Outdated
    <3>4. \A s : Live(s)' /\ Outdated(sessions[s], op[q])' =>
                    s \in op'[q].members /\ sessions'[s].family \in op'[q].reached
      BY <1>5, <1>9, <3>1, <3>2, <3>3 DEF PasswordInv
    <3>5. ASSUME NEW r \in Refreshers' PROVE ~Outdated(op[r].row, op[q])'
      BY <1>1, <1>7, <3>1 DEF PasswordInv, Outdated
    <3> QED BY <3>4, <3>5
  <2> QED BY <2>2, <2>3 DEF PasswordInv
<1> QED BY <1>11, <1>12, <1>13, <1>15, <1>16, <1>17

\* A revocation lists the live rows it is aimed at.
LEMMA KeepsRevokeFind ==
    ASSUME IInv, NEW p \in Handlers, RevokeFind(p)
    PROVE  IInv'
<1> USE DEF IInv
<1>0. PICK found, reached, aim :
         /\ aim = op[p].aim /\ reached = Reached(aim)
         /\ found = {t \in DOMAIN sessions : Live(t) /\ Matches(sessions[t], aim)}
  OBVIOUS
<1> DEFINE o == [op[p] EXCEPT !.aim = Nothing, !.members = found, !.reached = reached, !.upto = issued]
<1>1. /\ pc[p] = "revokeFind" /\ Goto(p, "revokeEach", o)
      /\ overlapped' = overlapped \cup {f \in reached : Refreshing(f)}
      /\ sessions' = sessions /\ issued' = issued /\ now' = now /\ opened' = opened /\ cut' = cut
      /\ changes' = changes /\ status' = status /\ password' = password
  BY <1>0 DEF RevokeFind, Listed, store
<1>2. op[p] \in Locals /\ LocalOk("revokeFind", op[p]) BY <1>1, Holding
<1>3. found \subseteq 1..issued /\ reached \subseteq opened /\ opened \subseteq 1..issued
      /\ issued \in Nat
  <2>1. \A r \in KnownRows : r.family \in opened BY DEF RowsInv, RowOk
  <2> QED BY <1>0, <2>1 DEF Reached, TypesInv
<1>4. /\ o \in Locals /\ o.members = found /\ o.reached = reached /\ o.upto = issued
      /\ o.at = op[p].at /\ o.new = op[p].new /\ o.request = op[p].request
      /\ o.device = op[p].device /\ o.password = op[p].password
  <2>1. Nothing \in [families : SUBSET Nat, devices : SUBSET Devices] BY DEF Nothing
  <2>2. found \in SUBSET Nat /\ reached \in SUBSET Nat BY <1>3
  <2> QED BY <1>2, <1>3, <2>1, <2>2 DEF Locals
<1>5. PICK l : l = o OBVIOUS
<1> HIDE DEF o
<1>6. Alone(p) /\ pc'[p] = "revokeEach" /\ op'[p] = l BY <1>1, <1>4, <1>5, Going DEF Steps
<1>7. \A q \in Refreshers' : q \in Refreshers /\ q # p /\ op'[q] = op[q]
  BY <1>6 DEF Refreshers, Alone
<1>8. TypesInv' BY <1>1, <1>6 DEF TypesInv, Alone
<1>9. HandlersInv'
  <2>1. LocalOk("revokeEach", l)
    <3>1. /\ l.members = found /\ l.reached = reached /\ l.upto \in 0..issued
          /\ l.at \in 0..now /\ l.new \in 0..issued
      BY <1>2, <1>3, <1>4, <1>5 DEF LocalOk
    <3> QED BY <1>3, <3>1 DEF LocalOk, RefreshSteps, ChangeSteps
  <2>2. \A st, k : LocalOk(st, k) => LocalOk(st, k)' BY <1>1 DEF LocalOk, Stored, AllExcept
  <2>3. \A q \in Handlers : LocalOk(pc[q], op[q])'
    BY <1>6, <2>1, <2>2 DEF HandlersInv, Alone
  <2>4. ~Inserting(p)' /\ pc'[p] \notin {"refreshUser", "rotate"} BY <1>6 DEF Inserting
  <2> QED BY <1>6, <2>3, <2>4 DEF HandlersInv, Alone, Inserting
<1>10. RowsInv'
  <2>1. KnownRows' \subseteq KnownRows BY <1>1, <1>7 DEF KnownRows
  <2>2. \A r : RowOk(r) => RowOk(r)' BY <1>1 DEF RowOk
  <2> QED BY <2>1, <2>2, RowsKept DEF RowsInv, SameBirth
<1>11. \A s : Live(s)' <=> Live(s) BY <1>1 DEF Live, Stored
<1>12. ForkInv'
  <2>1. \A q \in Handlers : Inserting(q)' => Inserting(q) /\ op'[q] = op[q]
    BY <1>6 DEF Inserting, Alone
  <2> QED BY <1>1, <1>11, <2>1 DEF ForkInv
<1>13. \A r, s \in KnownRows : r.family = s.family /\ Matches(s, aim) => Matches(r, aim)
  BY DEF RowsInv, Akin, Matches
<1>14. \A r \in KnownRows : Matches(r, aim) => r.family \in reached
  BY <1>0 DEF Reached
<1>15. \A f \in reached : \E r \in KnownRows : r.family = f /\ Matches(r, aim)
  BY <1>0 DEF Reached
<1>16. \A q \in Refreshers : op[q].row \in KnownRows BY DEF KnownRows
<1>17. \A q \in Refreshers : op[q].row.family \in reached => op[q].row.family \in overlapped'
  BY <1>1 DEF Refreshing
<1>18. CutInv'
  <2>1. \A s : Live(s)' => sessions'[s].family \notin cut' \ overlapped'
    BY <1>1, <1>11 DEF CutInv
  <2>2. \A q \in Handlers : \A s :
           /\ pc'[q] = "revokeEach" /\ Live(s)'
           /\ sessions'[s].family \in op'[q].reached \ overlapped'
           => s \in op'[q].members
    <3> TAKE q \in Handlers
    <3> TAKE s
    <3>1. CASE q = p
      <4> SUFFICES ASSUME Live(s), sessions[s].family \in reached
                   PROVE  s \in found
        BY <1>1, <1>4, <1>5, <1>6, <1>11, <3>1
      <4>1. s \in DOMAIN sessions /\ sessions[s] \in KnownRows BY StoredOk DEF Live, Stored
      <4>2. Matches(sessions[s], aim) BY <1>13, <1>15, <4>1
      <4> QED BY <1>0, <4>1, <4>2
    <3>2. CASE q # p
      <4>1. pc'[q] = pc[q] /\ op'[q] = op[q] BY <1>6, <3>2 DEF Alone
      <4> QED BY <1>1, <1>11, <4>1 DEF CutInv
    <3> QED BY <3>1, <3>2
  <2>3. \A q \in Refreshers' :
           /\ op'[q].row.family \in cut' => op'[q].row.family \in overlapped'
           /\ \A r \in Handlers :
                 op'[q].row.family \in op'[r].reached => op'[q].row.family \in overlapped'
    <3> TAKE q \in Refreshers'
    <3>1. q \in Refreshers /\ op'[q] = op[q] BY <1>7
    <3>2. op[q].row.family \in cut => op[q].row.family \in overlapped' BY <1>1, <3>1 DEF CutInv
    <3>3. \A r \in Handlers :
             op[q].row.family \in op'[r].reached => op[q].row.family \in overlapped'
      <4> TAKE r \in Handlers
      <4>1. CASE r = p BY <1>4, <1>5, <1>6, <1>17, <3>1, <4>1
      <4>2. CASE r # p
        <5>1. op'[r] = op[r] BY <1>6, <4>2 DEF Alone
        <5> QED BY <1>1, <3>1, <5>1 DEF CutInv
      <4> QED BY <4>1, <4>2
    <3> QED BY <1>1, <3>1, <3>2, <3>3
  <2> QED BY <2>1, <2>2, <2>3 DEF CutInv
<1>19. PasswordInv'
  <2>1. overlapped \subseteq overlapped' BY <1>1
  <2>2. \A c \in changes' : /\ \A s : Live(s)' => ~Outdated(sessions[s], c)'
                            /\ \A q \in Refreshers' : ~Outdated(op[q].row, c)'
    <3> TAKE c \in changes'
    <3>1. \A s : Live(s)' => ~Outdated(sessions[s], c)'
      BY <1>1, <1>11, <2>1 DEF PasswordInv, Outdated
    <3>2. ASSUME NEW q \in Refreshers' PROVE ~Outdated(op[q].row, c)'
      BY <1>1, <1>7, <2>1 DEF PasswordInv, Outdated
    <3> QED BY <3>1, <3>2
  <2>3. ASSUME NEW q \in Handlers, Shutting(q)'
        PROVE  /\ \A s : Live(s)' /\ Outdated(sessions[s], op[q])' =>
                             s \in op'[q].members /\ sessions'[s].family \in op'[q].reached
               /\ \A r \in Refreshers' : ~Outdated(op[r].row, op[q])'
    <3>1. CASE q = p
      <4>1. op[p].request = "change" BY <1>4, <1>5, <1>6, <2>3, <3>1 DEF Shutting
      <4>2. aim = AllExcept(op[p].device) BY <1>0, <1>2, <4>1 DEF LocalOk
      <4>3. ASSUME NEW r \in KnownRows, r.family \in 1..issued, r.device # op[p].device
            PROVE  Matches(r, aim)
        <5>1. r.device \in Devices BY DEF RowsInv, RowOk
        <5>2. r.family \in Tokens BY <4>3 DEF Tokens, TypesInv
        <5> QED BY <4>2, <4>3, <5>1, <5>2 DEF Matches, AllExcept
      <4>4. \A s : Outdated(sessions[s], op[q])' =>
               sessions[s].family \in 1..issued /\ sessions[s].device # op[p].device
        BY <1>1, <1>4, <1>5, <1>6, <3>1 DEF Outdated
      <4>5. \A s : Live(s)' /\ Outdated(sessions[s], op[q])' =>
                       s \in op'[q].members /\ sessions'[s].family \in op'[q].reached
        <5> SUFFICES ASSUME NEW s, Live(s), Outdated(sessions[s], op[q])'
                     PROVE  s \in found /\ sessions[s].family \in reached
          BY <1>1, <1>4, <1>5, <1>6, <1>11, <3>1
        <5>1. s \in DOMAIN sessions /\ sessions[s] \in KnownRows BY StoredOk DEF Live, Stored
        <5>2. Matches(sessions[s], aim) BY <4>3, <4>4, <5>1
        <5> QED BY <1>0, <1>14, <5>1, <5>2
      <4>6. ASSUME NEW r \in Refreshers', Outdated(op[r].row, op[q])' PROVE FALSE
        <5>1. r \in Refreshers /\ op'[r] = op[r] BY <1>7
        <5>2. /\ op[r].row.family \in 1..issued /\ op[r].row.device # op[p].device
              /\ op[r].row.family \notin overlapped'
          BY <1>4, <1>5, <1>6, <3>1, <4>6, <5>1 DEF Outdated
        <5>3. op[r].row.family \in reached BY <1>14, <1>16, <4>3, <5>1, <5>2
        <5> QED BY <1>17, <5>1, <5>2, <5>3
      <4> QED BY <4>5, <4>6
    <3>2. CASE q # p
      <4>1. Shutting(q) /\ op'[q] = op[q] BY <1>6, <2>3, <3>2 DEF Shutting, Alone
      <4>2. \A s : Live(s)' /\ Outdated(sessions[s], op[q])' =>
                       s \in op'[q].members /\ sessions'[s].family \in op'[q].reached
        BY <1>1, <1>11, <2>1, <4>1 DEF PasswordInv, Outdated
      <4>3. ASSUME NEW r \in Refreshers' PROVE ~Outdated(op[r].row, op[q])'
        BY <1>7, <2>1, <4>1 DEF PasswordInv, Outdated
      <4> QED BY <4>2, <4>3
    <3> QED BY <3>1, <3>2
  <2> QED BY <2>2, <2>3 DEF PasswordInv
<1> QED BY <1>8, <1>9, <1>10, <1>12, <1>18, <1>19

\* A revocation strikes one row off its list, dead from now on.
LEMMA KeepsRevokeOne ==
    ASSUME IInv, NEW p \in Handlers, RevokeOne(p)
    PROVE  IInv'
<1> USE DEF IInv
<1>0. PICK t \in op[p].members :
         /\ sessions' = IF Stored(t) THEN [sessions EXCEPT ![t].revokedAt = op[p].at] ELSE sessions
         /\ Goto(p, "revokeEach", [op[p] EXCEPT !.members = @ \ {t}])
  BY DEF RevokeOne
<1> DEFINE o == [op[p] EXCEPT !.members = @ \ {t}]
           row == [sessions[t] EXCEPT !.revokedAt = op[p].at]
<1>1. /\ pc[p] = "revokeEach" /\ issued' = issued /\ now' = now /\ opened' = opened /\ cut' = cut
      /\ changes' = changes /\ status' = status /\ password' = password /\ overlapped' = overlapped
  BY DEF RevokeOne, history
<1>2. op[p] \in Locals /\ LocalOk("revokeEach", op[p]) /\ op[p].at \in 0..now /\ now \in Nat
  BY <1>1, Holding DEF TypesInv
<1>3. /\ o \in Locals /\ o.members = op[p].members \ {t} /\ o.reached = op[p].reached
      /\ o.upto = op[p].upto /\ o.at = op[p].at /\ o.new = op[p].new /\ o.request = op[p].request
      /\ o.device = op[p].device /\ o.password = op[p].password
  BY <1>2 DEF Locals
<1>4. Stored(t) => /\ row \in Row /\ SameBirth(row, sessions[t]) /\ row.revokedAt = op[p].at
                   /\ row.replacedBy = sessions[t].replacedBy
                   /\ row.issuedAt = sessions[t].issuedAt
  <2> HAVE Stored(t)
  <2>1. sessions[t] \in Row BY DEF TypesInv, Stored
  <2> QED BY <1>2, <2>1 DEF Row, SameBirth
<1>5. /\ DOMAIN sessions' = DOMAIN sessions
      /\ Stored(t) => sessions'[t] = row
      /\ \A s \in DOMAIN sessions \ {t} : sessions'[s] = sessions[s]
  BY <1>0 DEF Stored
<1> HIDE DEF o, row
<1>6. Alone(p) /\ pc'[p] = "revokeEach" /\ op'[p] = o
  <2>1. Goto(p, "revokeEach", o) BY <1>0 DEF o
  <2> QED BY <1>3, <2>1, Going DEF Steps
<1>7. \A q \in Refreshers' : q \in Refreshers /\ q # p /\ op'[q] = op[q]
  BY <1>6 DEF Refreshers, Alone
<1>8. TypesInv'
  <2>1. \A s \in DOMAIN sessions' : sessions'[s] \in Row BY <1>4, <1>5 DEF TypesInv, Stored
  <2> QED BY <1>1, <1>5, <1>6, <2>1 DEF TypesInv, Alone
<1>9. HandlersInv'
  <2>1. LocalOk(pc[p], op[p])'
    BY <1>1, <1>2, <1>3, <1>6 DEF LocalOk, RefreshSteps, ChangeSteps
  <2>2. \A q \in Handlers \ {p} :
           /\ Inserting(q) => op[q].new \notin DOMAIN sessions'
           /\ Stored(op[q].token) => sessions'[op[q].token].family = sessions[op[q].token].family
    BY <1>4, <1>5 DEF HandlersInv, LocalOk, Inserting, Stored, SameBirth
  <2>3. ~Inserting(p)' /\ pc'[p] \notin {"refreshUser", "rotate"} BY <1>6 DEF Inserting
  <2>4. now' \in Nat /\ now <= now' /\ issued' \in Nat /\ issued <= issued' BY <1>1 DEF TypesInv
  <2> QED BY <1>1, <1>5, <1>6, <2>1, <2>2, <2>3, <2>4, HandlersKept DEF Stored
<1>10. RowsInv'
  <2>1. ASSUME NEW r \in KnownRows' PROVE r \in KnownRows \/ (Stored(t) /\ r = row)
    <3>1. \A s \in DOMAIN sessions' : sessions'[s] \in KnownRows \/ (Stored(t) /\ sessions'[s] = row)
      BY <1>5 DEF KnownRows, Stored
    <3>2. \A q \in Refreshers' : op'[q].row \in KnownRows BY <1>7 DEF KnownRows
    <3> QED BY <3>1, <3>2 DEF KnownRows
  <2>2. \A r : RowOk(r) => RowOk(r)' BY <1>1 DEF RowOk
  <2>3. Stored(t) => sessions[t] \in KnownRows /\ RowOk(sessions[t]) BY StoredOk DEF Stored
  <2>4. Stored(t) => RowOk(row)
    BY <1>2, <1>4, <2>3 DEF RowOk, SameBirth
  <2>5. \A r \in KnownRows : SameBirth(r, r) BY DEF SameBirth
  <2>6. \A r \in KnownRows' : RowOk(r)' /\ \E k \in KnownRows : SameBirth(r, k)
    <3> TAKE r \in KnownRows'
    <3>1. CASE r \in KnownRows BY <2>2, <2>5, <3>1 DEF RowsInv
    <3>2. CASE Stored(t) /\ r = row BY <1>4, <2>2, <2>3, <2>4, <3>2
    <3> QED BY <2>1, <3>1, <3>2
  <2> QED BY <2>6, RowsKept
<1>11. \A s : Live(s)' => s # t /\ Live(s) /\ sessions'[s] = sessions[s]
  <2>1. Stored(t) => row.revokedAt # NotRevoked BY <1>2, <1>4 DEF NotRevoked
  <2> QED BY <1>5, <2>1 DEF Live, Stored
<1>12. Dimming
  <2>1. \A s : Live(s)' => Live(s) /\ SameBirth(sessions'[s], sessions[s])
    BY <1>11 DEF SameBirth
  <2>2. ASSUME NEW q \in Handlers
        PROVE  /\ op'[q].reached \subseteq op[q].reached
               /\ pc'[q] = "revokeEach" =>
                     /\ pc[q] = "revokeEach"
                     /\ op'[q].reached = op[q].reached /\ op'[q].request = op[q].request
                     /\ op'[q].password = op[q].password /\ op'[q].device = op[q].device
                     /\ op'[q].upto = op[q].upto
                     /\ \A s \in op[q].members : Live(s)' => s \in op'[q].members
    <3>1. CASE q = p BY <1>1, <1>3, <1>6, <1>11, <3>1
    <3>2. CASE q # p BY <1>6, <3>2 DEF Alone
    <3> QED BY <3>1, <3>2
  <2> QED BY <1>1, <1>7, <2>1, <2>2 DEF Dimming
<1>13. ForkInv'
  <2>1. \A q \in Handlers : Inserting(q)' => Inserting(q)
    BY <1>6 DEF Inserting, Alone
  <2> QED BY <1>12, <2>1, DimmingFork
<1> QED BY <1>8, <1>9, <1>10, <1>12, <1>13, DimmingCuts

\* A revocation comes to its end: what it reached is cut off.
LEMMA KeepsRevokeDone ==
    ASSUME IInv, NEW p \in Handlers, RevokeDone(p)
    PROVE  IInv'
<1> USE DEF IInv
<1>1. /\ pc[p] = "revokeEach" /\ op[p].members = {} /\ cut' = cut \cup op[p].reached
      /\ changes' = IF op[p].request # "change" THEN changes
                    ELSE changes \cup {[password |-> op[p].password,
                                        device |-> op[p].device, upto |-> op[p].upto]}
      /\ Return(p) /\ sessions' = sessions /\ issued' = issued /\ now' = now /\ opened' = opened
      /\ status' = status /\ password' = password /\ overlapped' = overlapped
  BY DEF RevokeDone, store
<1>2. op[p] \in Locals /\ LocalOk("revokeEach", op[p]) BY <1>1, Holding
<1>3. op[p].reached \subseteq opened /\ op[p].upto \in 0..issued /\ op[p].password \in Nat
  BY <1>2 DEF LocalOk, Locals
<1>4. Alone(p) /\ pc'[p] = "idle" /\ op'[p] = Idle
  BY <1>1, IdleOk, Going DEF Return, Steps
<1>5. \A q \in Refreshers' : q \in Refreshers /\ q # p /\ op'[q] = op[q]
  BY <1>4 DEF Refreshers, Alone
<1>6. TypesInv'
  <2>1. \A c \in changes' : c.upto \in 0..issued' /\ c.password \in Nat
    BY <1>1, <1>3 DEF TypesInv
  <2> QED BY <1>1, <1>3, <1>4, <2>1 DEF TypesInv, Alone
<1>7. HandlersInv'
  <2>1. \A st, k : LocalOk(st, k) => LocalOk(st, k)' BY <1>1 DEF LocalOk, Stored, AllExcept
  <2>2. \A q \in Handlers : LocalOk(pc[q], op[q])'
    BY <1>4, <2>1, RestingOk DEF HandlersInv, Alone
  <2>3. ~Inserting(p)' /\ pc'[p] \notin {"refreshUser", "rotate"} BY <1>4 DEF Inserting
  <2> QED BY <1>4, <2>2, <2>3 DEF HandlersInv, Alone, Inserting
<1>8. RowsInv'
  <2>1. KnownRows' \subseteq KnownRows BY <1>1, <1>5 DEF KnownRows
  <2>2. \A r : RowOk(r) => RowOk(r)' BY <1>1 DEF RowOk
  <2> QED BY <2>1, <2>2, RowsKept DEF RowsInv, SameBirth
<1>9. \A s : Live(s)' <=> Live(s) BY <1>1 DEF Live, Stored
<1>10. ForkInv'
  <2>1. \A q \in Handlers : Inserting(q)' => Inserting(q) /\ op'[q] = op[q]
    BY <1>4 DEF Inserting, Alone
  <2> QED BY <1>1, <1>9, <2>1 DEF ForkInv
<1>11. \A q \in Handlers : op'[q].reached \subseteq op[q].reached
                          /\ (pc'[q] = "revokeEach" => q # p /\ pc[q] = "revokeEach" /\ op'[q] = op[q])
  BY <1>4, RestingOk DEF Alone
<1>12. CutInv'
  <2>1. \A s : Live(s)' => sessions'[s].family \notin cut' \ overlapped'
    BY <1>1, <1>9 DEF CutInv
  <2>2. \A q \in Handlers : \A s :
           /\ pc'[q] = "revokeEach" /\ Live(s)'
           /\ sessions'[s].family \in op'[q].reached \ overlapped'
           => s \in op'[q].members
    BY <1>1, <1>9, <1>11 DEF CutInv
  <2>3. \A q \in Refreshers' :
           /\ op'[q].row.family \in cut' => op'[q].row.family \in overlapped'
           /\ \A r \in Handlers :
                 op'[q].row.family \in op'[r].reached => op'[q].row.family \in overlapped'
    <3> TAKE q \in Refreshers'
    <3>1. /\ op[q].row.family \in cut => op[q].row.family \in overlapped
          /\ \A r \in Handlers :
                op[q].row.family \in op[r].reached => op[q].row.family \in overlapped
      BY <1>5 DEF CutInv
    <3> QED BY <1>1, <1>5, <1>11, <3>1
  <2> QED BY <2>1, <2>2, <2>3 DEF CutInv
<1>13. PasswordInv'
  <2>1. \A r, c : Outdated(r, c)' <=> Outdated(r, c) BY <1>1 DEF Outdated
  <2>2. ASSUME NEW c \in changes'
        PROVE  c \in changes \/ (Shutting(p) /\ \A r : Outdated(r, c) <=> Outdated(r, op[p]))
    <3>1. CASE op[p].request # "change" BY <1>1, <3>1
    <3>2. CASE op[p].request = "change" BY <1>1, <3>2 DEF Shutting, Outdated
    <3> QED BY <3>1, <3>2
  <2>3. \A c \in changes' : /\ \A s : Live(s)' => ~Outdated(sessions[s], c)'
                            /\ \A q \in Refreshers' : ~Outdated(op[q].row, c)'
    <3> TAKE c \in changes'
    <3>1. \A s : Outdated(sessions[s], c)' => Outdated(sessions[s], c) BY <1>1 DEF Outdated
    <3>2. \A q \in Refreshers' : Outdated(op[q].row, c)' => Outdated(op[q].row, c)
      BY <1>1, <1>5 DEF Outdated
    <3>3. CASE c \in changes BY <1>5, <1>9, <3>1, <3>2, <3>3 DEF PasswordInv
    <3>4. CASE Shutting(p) /\ \A r : Outdated(r, c) <=> Outdated(r, op[p])
      BY <1>1, <1>5, <1>9, <3>1, <3>2, <3>4 DEF PasswordInv
    <3> QED BY <2>2, <3>3, <3>4
  <2>4. ASSUME NEW q \in Handlers, Shutting(q)'
        PROVE  /\ \A s : Live(s)' /\ Outdated(sessions[s], op[q])' =>
                             s \in op'[q].members /\ sessions'[s].family \in op'[q].reached
               /\ \A r \in Refreshers' : ~Outdated(op[r].row, op[q])'
    <3>1. Shutting(q) /\ op'[q] = op[q] BY <1>11, <2>4 DEF Shutting
    <3>2. \A s : Live(s)' /\ Outdated(sessions[s], op[q])' =>
                    s \in op'[q].members /\ sessions'[s].family \in op'[q].reached
      BY <1>1, <1>9, <3>1 DEF PasswordInv, Outdated
    <3>3. ASSUME NEW r \in Refreshers' PROVE ~Outdated(op[r].row, op[q])'
      BY <1>1, <1>5, <3>1 DEF PasswordInv, Outdated
    <3> QED BY <3>2, <3>3
  <2> QED BY <2>3, <2>4 DEF PasswordInv
<1> QED BY <1>6, <1>7, <1>8, <1>10, <1>12, <1>13

\* No handler moves, and of the rows there are, none changes.
LEMMA KeepsAside ==
    ASSUME IInv, UNCHANGED <<pc, op, issued, password, history>>,
           now' \in Nat, now <= now', status' \in {"active", "suspended"},
           DOMAIN sessions' \subseteq DOMAIN sessions,
           \A s \in DOMAIN sessions' : sessions'[s] = sessions[s]
    PROVE  IInv'
<1> USE DEF IInv
<1>1. /\ pc' = pc /\ op' = op /\ issued' = issued /\ opened' = opened /\ cut' = cut
      /\ password' = password /\ overlapped' = overlapped /\ changes' = changes
  BY DEF history
<1>2. issued' \in Nat /\ issued <= issued' BY <1>1 DEF TypesInv
<1>3. TypesInv' BY <1>1 DEF TypesInv
<1>4. HandlersInv'
  <2>1. ASSUME NEW q \in Handlers PROVE LocalOk(pc[q], op[q])'
    <3>1. PICK st, k : st = pc[q] /\ k = op[q] OBVIOUS
    <3>2. LocalOk(st, k) BY <3>1 DEF HandlersInv
    <3>3. st = "insertChild" => k.new \notin DOMAIN sessions' BY <3>2 DEF LocalOk
    <3>4. LocalOk(st, k)' BY <1>1, <1>2, <3>2, <3>3, StaysOk DEF Stored
    <3> QED BY <1>1, <3>1, <3>4
  <2> QED BY <1>1, <2>1 DEF HandlersInv, Inserting
<1>5. RowsInv'
  <2>1. KnownRows' \subseteq KnownRows BY <1>1 DEF KnownRows, Refreshers
  <2>2. \A r : RowOk(r) => RowOk(r)' BY <1>1, <1>2, StaysRowOk
  <2> QED BY <2>1, <2>2, RowsKept DEF RowsInv, SameBirth
<1>6. Dimming
  <2>1. \A s : Live(s)' => Live(s) /\ SameBirth(sessions'[s], sessions[s])
    BY DEF Live, Stored, SameBirth
  <2>2. Refreshers' = Refreshers BY <1>1 DEF Refreshers
  <2> QED BY <1>1, <2>1, <2>2 DEF Dimming
<1>7. ForkInv' BY <1>1, <1>6, DimmingFork DEF Inserting
<1> QED BY <1>3, <1>4, <1>5, <1>6, <1>7, DimmingCuts

----------------------------------------------------------------------------
(* The invariant. *)

\* Every step keeps every invariant.
LEMMA NextInv == IInv /\ [Next]_vars => IInv'
<1> SUFFICES ASSUME IInv, [Next]_vars PROVE IInv' OBVIOUS
<1>0. TypesInv BY DEF IInv
<1>1. ASSUME NEW p \in Handlers, Arrive(p) PROVE IInv' BY <1>1, KeepsArrive
<1>2. ASSUME NEW p \in Handlers, Step(p) PROVE IInv'
  <2>1. CASE LoginFind(p) BY <2>1, KeepsLoginFind
  <2>2. CASE LoginInsert(p) BY <2>2, KeepsLoginInsert
  <2>3. CASE RefreshFind(p) BY <2>3, KeepsRefreshFind
  <2>4. CASE RefreshChild(p) BY <2>4, KeepsRefreshChild
  <2>5. CASE RefreshUser(p) BY <2>5, KeepsRefreshUser
  <2>6. CASE Rotate(p) BY <2>6, KeepsRotate
  <2>7. CASE InsertChild(p) BY <2>7, KeepsInsertChild
  <2>8. CASE LogoutFind(p) BY <2>8, KeepsLogoutFind
  <2>9. CASE ChangeFind(p) BY <2>9, KeepsChangeFind
  <2>10. CASE ChangeUpdate(p) BY <2>10, KeepsChangeUpdate
  <2>11. CASE SetStatus(p) BY <2>11, KeepsSetStatus
  <2>12. CASE RevokeFind(p) BY <2>12, KeepsRevokeFind
  <2>13. CASE RevokeOne(p) BY <2>13, KeepsRevokeOne
  <2>14. CASE RevokeDone(p) BY <2>14, KeepsRevokeDone
  <2> QED BY <1>2, <2>1, <2>2, <2>3, <2>4, <2>5, <2>6, <2>7, <2>8, <2>9, <2>10, <2>11,
             <2>12, <2>13, <2>14 DEF Step
<1>3. ASSUME NEW p \in Handlers, Die(p) PROVE IInv'
  BY <1>3, KeepsReturn DEF Die, store
<1>4. CASE AdminSetsStatus BY <1>0, <1>4, KeepsAside DEF AdminSetsStatus, TypesInv
<1>5. CASE TtlDelete
  <2>1. /\ DOMAIN sessions' \subseteq DOMAIN sessions
        /\ \A s \in DOMAIN sessions' : sessions'[s] = sessions[s]
    BY <1>5 DEF TtlDelete
  <2> QED BY <1>0, <1>5, <2>1, KeepsAside DEF TtlDelete, TypesInv
<1>6. CASE Elapse
  <2>1. now' \in Nat /\ now <= now' BY <1>0, <1>6 DEF Elapse, TypesInv
  <2> QED BY <1>0, <1>6, <2>1, KeepsAside DEF Elapse, store, TypesInv
<1>7. CASE UNCHANGED vars
  <2>1. now' \in Nat /\ now <= now' BY <1>0, <1>7 DEF vars, TypesInv
  <2> QED BY <1>0, <1>7, <2>1, KeepsAside DEF vars, store, TypesInv
<1> QED BY <1>1, <1>2, <1>3, <1>4, <1>5, <1>6, <1>7 DEF Next

\* The invariant that the theorems below are read off.
LEMMA Invariant == Spec => []IInv
BY InitInv, NextInv, PTL DEF Spec

----------------------------------------------------------------------------
(* The theorems. *)

\* Rows and handlers' locals have their types: tokens held across awaits were
\* issued, and every row belongs to a family some login opened.
THEOREM SessionsTyped == Spec => []TypeOK
<1>1. ASSUME IInv PROVE TypeOK
  <2> USE <1>1
  <2>1. \A t \in DOMAIN sessions : RowOk(sessions[t]) BY StoredOk
  <2>2. \A p \in Handlers : /\ op[p].new \in 0..issued /\ op[p].members \subseteq 1..issued
                            /\ op[p].at \in 0..now
    BY DEF IInv, HandlersInv, LocalOk
  <2> QED BY <2>1, <2>2 DEF IInv, TypesInv, RowOk, TypeOK
<1> QED BY <1>1, Invariant, PTL

\* What rows are live of a family, and who is rotating it: at most one in all.
LEMMA OneHolder ==
    ASSUME IInv, NEW f
    PROVE  /\ LiveRows(f) = {} \/ \E t : LiveRows(f) = {t}
           /\ Rotating(f) = {} \/ \E p : Rotating(f) = {p}
           /\ LiveRows(f) = {} \/ Rotating(f) = {}
<1>1. \A s, t \in LiveRows(f) : s = t BY DEF IInv, ForkInv, LiveRows
<1>2. \A p, q \in Rotating(f) : p = q BY DEF IInv, ForkInv, Rotating, Inserting
<1>3. \A t \in LiveRows(f), p \in Rotating(f) : FALSE
  BY DEF IInv, ForkInv, LiveRows, Rotating, Inserting
<1>4. \A S : S = {} \/ (\E x \in S : S = {x}) \/ (\E x, y \in S : x # y) OBVIOUS
<1>5. LiveRows(f) = {} \/ \E t : LiveRows(f) = {t} BY <1>1, <1>4
<1>6. Rotating(f) = {} \/ \E p : Rotating(f) = {p} BY <1>2, <1>4
<1> QED BY <1>3, <1>5, <1>6

\* Racing refreshes never mint two live siblings (lib/auth.js, refresh).
THEOREM FamiliesNeverFork == Spec => []NoFork
<1>1. ASSUME IInv PROVE NoFork
  <2> SUFFICES ASSUME NEW f \in opened
               PROVE  Cardinality(LiveRows(f)) + Cardinality(Rotating(f)) <= 1
    BY DEF NoFork
  <2>1. Cardinality({}) = 0 /\ \A x : Cardinality({x}) = 1 BY FS_EmptySet, FS_Singleton
  <2>2. /\ Cardinality(LiveRows(f)) = 0 \/ Cardinality(LiveRows(f)) = 1
        /\ Cardinality(Rotating(f)) = 0 \/ Cardinality(Rotating(f)) = 1
        /\ Cardinality(LiveRows(f)) = 0 \/ Cardinality(Rotating(f)) = 0
    BY <1>1, <2>1, OneHolder
  <2> QED BY <2>2
<1> QED BY <1>1, Invariant, PTL

\* Device, scope and start of a family survive every rotation (lib/auth.js).
THEOREM FamiliesKeepTheirStamp == Spec => []FamilyFixed
<1>1. ASSUME IInv PROVE FamilyFixed
  BY <1>1 DEF IInv, RowsInv, Akin, KnownRows, FamilyFixed
<1> QED BY <1>1, Invariant, PTL

\* What its login stamped holds for every row of a family: the device, the
\* scope and the start, and no token is minted past the lifetime that counts
\* from it (lib/auth.js, refresh).
THEOREM LoginStampsHold == Spec => []LoginStampHolds
<1>1. ASSUME IInv PROVE LifetimeCapped
  BY <1>1 DEF IInv, RowsInv, RowOk, KnownRows, LifetimeCapped
<1>2. IInv => LifetimeCapped BY <1>1
<1>. QED BY <1>2, FamiliesKeepTheirStamp, Invariant, PTL DEF LoginStampHolds

\* Of what a finished revocation reached, only a refresh that overlapped it
\* leaves something alive (lib/auth.js, revokeFamily and revokeAllForUser).
THEOREM RevocationsLast == Spec => []OnlyRefreshesEscape
<1>1. ASSUME IInv PROVE OnlyRefreshesEscape
  BY <1>1 DEF IInv, CutInv, OnlyRefreshesEscape
<1> QED BY <1>1, Invariant, PTL

\* What an older password opened stays shut out of every device but the one
\* that changed it, overlapping refreshes aside (lib/auth.js, changePassword).
THEOREM OldPasswordsAreShutOut == Spec => []OldPasswordShutOut
<1>1. ASSUME IInv PROVE OldPasswordShutOut
  BY <1>1 DEF IInv, PasswordInv, Outdated, OldPasswordShutOut
<1> QED BY <1>1, Invariant, PTL

----------------------------------------------------------------------------
(* Every step is one of the abstract family's, of one family, or none. *)

Edges == {<<"unused", "live">>, <<"live", "rotating">>, <<"rotating", "live">>,
          <<"rotating", "closed">>, <<"live", "closed">>}

AbstractStep == [Abstract!Next]_([f \in Tokens |-> FamilyState(f)])

\* One family takes a step of its life and the others none.
LEMMA OneMoves ==
    ASSUME NEW f \in Tokens, <<FamilyState(f), FamilyState(f)'>> \in Edges,
           \A g \in Tokens \ {f} : FamilyState(g)' = FamilyState(g)
    PROVE  AbstractStep
<1> DEFINE old == [g \in Tokens |-> FamilyState(g)]
           new == [g \in Tokens |-> FamilyState(g)']
<1>1. new = [old EXCEPT ![f] = FamilyState(f)'] OBVIOUS
<1>2. \A from, to : FamilyState(f) = from /\ FamilyState(f)' = to => Abstract!Becomes(f, from, to)
  BY <1>1 DEF Abstract!Becomes
<1>3. Abstract!Next
  BY <1>2 DEF Abstract!Next, Abstract!Open, Abstract!BeginRotation, Abstract!EndRotation,
              Abstract!LoseRotation, Abstract!Close, Edges
<1> QED BY <1>3 DEF AbstractStep

\* No family takes a step.
LEMMA NoneMoves ==
    ASSUME \A g \in Tokens : FamilyState(g)' = FamilyState(g)
    PROVE  AbstractStep
BY DEF AbstractStep

\* What is live of a family and who rotates it is all its state depends on.
LEMMA SameState ==
    ASSUME NEW g, g \in opened' <=> g \in opened,
           LiveRows(g)' = {} <=> LiveRows(g) = {}, Rotating(g)' = {} <=> Rotating(g) = {}
    PROVE  FamilyState(g)' = FamilyState(g)
BY DEF FamilyState

\* The sessions stay as they are, and nobody begins or ends an insertion.
LEMMA StutterStep ==
    ASSUME sessions' = sessions, opened' = opened,
           \A p \in Handlers : /\ Inserting(p)' <=> Inserting(p)
                               /\ Inserting(p) => op'[p].row = op[p].row
    PROVE  AbstractStep
<1> SUFFICES ASSUME NEW g PROVE FamilyState(g)' = FamilyState(g) BY NoneMoves
<1>1. LiveRows(g)' = LiveRows(g) BY DEF LiveRows, Live, Stored
<1>2. Rotating(g)' = Rotating(g) BY DEF Rotating, Inserting
<1> QED BY <1>1, <1>2, SameState

\* So does a handler's step from a call that inserts no child to another.
LEMMA StutterGoto ==
    ASSUME IInv, NEW p \in Handlers, NEW step \in Steps, NEW o, Goto(p, step, o),
           pc[p] # "insertChild", step # "insertChild", sessions' = sessions, opened' = opened
    PROVE  AbstractStep
<1>1. pc \in [Handlers -> Steps] /\ op \in [Handlers -> Locals] BY DEF IInv, TypesInv
<1>2. \A q \in Handlers : /\ Inserting(q)' <=> Inserting(q)
                          /\ Inserting(q) => op'[q].row = op[q].row
  BY <1>1 DEF Goto, Inserting
<1> QED BY <1>2, StutterStep

\* A family that has a row was opened, and its name is a token.
LEMMA FamilyOpened ==
    ASSUME IInv
    PROVE  /\ opened \subseteq Tokens /\ issued \in Nat
           /\ \A t \in DOMAIN sessions : sessions[t].family \in opened
           /\ \A q \in Handlers : Inserting(q) => op[q].row.family \in opened
<1>1. opened \subseteq 1..issued /\ issued \in 0..MaxTokens BY DEF IInv, TypesInv
<1>2. \A q \in Handlers : Inserting(q) => op[q].row \in KnownRows
  BY DEF Inserting, KnownRows, Refreshers
<1>3. \A t \in DOMAIN sessions : sessions[t] \in KnownRows BY DEF KnownRows
<1> QED BY <1>1, <1>2, <1>3 DEF IInv, RowsInv, RowOk, Tokens

\* A login opens a family.
LEMMA OpenStep ==
    ASSUME IInv, NEW p \in Handlers, LoginInsert(p)
    PROVE  AbstractStep
<1>0. PICK n : n = issued + 1 OBVIOUS
<1>1. /\ pc[p] = "loginInsert" /\ issued < MaxTokens /\ opened' = opened \cup {n}
      /\ DOMAIN sessions' = DOMAIN sessions \cup {n}
      /\ sessions'[n].family = n /\ sessions'[n].revokedAt = NotRevoked
      /\ \A s \in DOMAIN sessions \ {n} : sessions'[s] = sessions[s]
      /\ Goto(p, "idle", Idle)
  BY <1>0 DEF LoginInsert, PutRow, Return, NoRow
<1>2. n \in Tokens /\ n \notin opened /\ n \notin DOMAIN sessions
  BY <1>0, <1>1 DEF IInv, TypesInv, Tokens
<1>3. pc \in [Handlers -> Steps] /\ op \in [Handlers -> Locals] BY DEF IInv, TypesInv
<1>4. FamilyState(n) = "unused" BY <1>2 DEF FamilyState
<1>5. FamilyState(n)' = "live"
  <2>1. n \in LiveRows(n)' BY <1>1 DEF LiveRows, Live, Stored
  <2>2. LiveRows(n)' # {} BY <2>1
  <2> QED BY <1>1, <2>2 DEF FamilyState
<1>6. ASSUME NEW g \in Tokens \ {n} PROVE FamilyState(g)' = FamilyState(g)
  <2>1. LiveRows(g)' = LiveRows(g)
    BY <1>1, <1>2 DEF LiveRows, Live, Stored
  <2>2. Rotating(g)' = Rotating(g) BY <1>1, <1>3 DEF Rotating, Goto
  <2> QED BY <1>1, <2>1, <2>2, SameState
<1> QED BY <1>2, <1>4, <1>5, <1>6, OneMoves DEF Edges

\* The compare-and-swap that is won begins a rotation.
LEMMA BeginStep ==
    ASSUME IInv, NEW p \in Handlers, NEW t, t = op[p].token, pc[p] = "rotate", Live(t),
           sessions' = [sessions EXCEPT ![t].revokedAt = op[p].at, ![t].replacedBy = issued + 1],
           Goto(p, "insertChild", [op[p] EXCEPT !.new = issued + 1]), opened' = opened
    PROVE  AbstractStep
<1>1. PICK f : f = op[p].row.family OBVIOUS
<1>2. /\ t \in DOMAIN sessions /\ sessions[t].family = f /\ sessions[t] \in Row
      /\ op[p] \in Locals /\ op[p].at \in Nat
  <2>1. t \in DOMAIN sessions /\ LocalOk("rotate", op[p]) /\ op[p] \in Locals
    BY Holding DEF Live, Stored
  <2> QED BY <1>1, <2>1, StoredOk DEF LocalOk, Stored, Locals
<1>3. f \in opened /\ f \in Tokens BY <1>2, FamilyOpened
<1>4. pc \in [Handlers -> Steps] /\ op \in [Handlers -> Locals] BY DEF IInv, TypesInv
<1>5. pc'[p] = "insertChild" /\ op'[p].row.family = f BY <1>1, <1>2, <1>4 DEF Goto, Locals
<1>6. \A q \in Handlers \ {p} : pc'[q] = pc[q] /\ op'[q] = op[q] BY <1>4 DEF Goto
<1>7. /\ DOMAIN sessions' = DOMAIN sessions /\ sessions'[t].revokedAt = op[p].at
      /\ sessions'[t].family = f
      /\ \A s \in DOMAIN sessions \ {t} : sessions'[s] = sessions[s]
  BY <1>2 DEF Row
<1>8. \A s : Live(s)' => s # t /\ Live(s) /\ sessions'[s] = sessions[s]
  BY <1>2, <1>7 DEF Live, Stored, NotRevoked
<1>9. FamilyState(f) = "live"
  <2>1. t \in LiveRows(f) BY <1>2 DEF LiveRows
  <2>2. LiveRows(f) # {} BY <2>1
  <2> QED BY <1>3, <2>2 DEF FamilyState
<1>10. FamilyState(f)' = "rotating"
  <2>1. p \in Rotating(f)' BY <1>5 DEF Rotating
  <2>2. LiveRows(f)' = {}
    <3> SUFFICES ASSUME NEW s \in LiveRows(f)' PROVE FALSE OBVIOUS
    <3>1. s # t /\ Live(s) /\ sessions[s].family = f BY <1>8 DEF LiveRows
    <3> QED BY <1>2, <3>1 DEF IInv, ForkInv
  <2>3. Rotating(f)' # {} BY <2>1
  <2> QED BY <1>3, <2>2, <2>3 DEF FamilyState
<1>11. ASSUME NEW g \in Tokens \ {f} PROVE FamilyState(g)' = FamilyState(g)
  <2>1. LiveRows(g)' = LiveRows(g)
    BY <1>2, <1>7, <1>8 DEF LiveRows, Live, Stored
  <2>2. Rotating(g)' = Rotating(g) BY <1>5, <1>6 DEF Rotating
  <2> QED BY <2>1, <2>2, SameState
<1> QED BY <1>3, <1>9, <1>10, <1>11, OneMoves DEF Edges

\* The child's row ends it.
LEMMA EndStep ==
    ASSUME IInv, NEW p \in Handlers, InsertChild(p)
    PROVE  AbstractStep
<1>1. PICK f, n, new : /\ f = op[p].row.family /\ n = op[p].new
                       /\ new = [op[p].row EXCEPT !.device = op[p].device, !.issuedAt = op[p].at,
                                                  !.expiresAt = op[p].at + Ttl]
  OBVIOUS
<1>2. /\ pc[p] = "insertChild" /\ PutRow(n, new) /\ Goto(p, "idle", Idle) /\ opened' = opened
  BY <1>1 DEF InsertChild, Return, history
<1>3. op[p] \in Locals /\ n \notin DOMAIN sessions
  BY <1>1, <1>2, Holding DEF LocalOk
<1>4. /\ DOMAIN sessions' = DOMAIN sessions \cup {n} /\ sessions'[n] = new
      /\ \A s \in DOMAIN sessions : sessions'[s] = sessions[s]
  BY <1>2, <1>3 DEF PutRow
<1>5. f \in opened /\ f \in Tokens BY <1>1, <1>2, FamilyOpened DEF Inserting
<1>6. new.family = f BY <1>1, <1>3 DEF Locals, Row
<1>7. pc \in [Handlers -> Steps] /\ op \in [Handlers -> Locals] BY DEF IInv, TypesInv
<1>8. /\ pc'[p] = "idle" /\ \A q \in Handlers \ {p} : pc'[q] = pc[q] /\ op'[q] = op[q]
  BY <1>2, <1>7 DEF Goto
<1>9. FamilyState(f) = "rotating"
  <2>1. p \in Rotating(f) BY <1>1, <1>2 DEF Rotating
  <2>2. Rotating(f) # {} /\ LiveRows(f) = {} BY <2>1, OneHolder
  <2> QED BY <1>5, <2>2 DEF FamilyState
<1>10. CASE new.revokedAt = NotRevoked
  <2>1. FamilyState(f)' = "live"
    <3>1. n \in LiveRows(f)' BY <1>4, <1>6, <1>10 DEF LiveRows, Live, Stored
    <3>2. LiveRows(f)' # {} BY <3>1
    <3> QED BY <1>2, <1>5, <3>2 DEF FamilyState
  <2>2. ASSUME NEW g \in Tokens \ {f} PROVE FamilyState(g)' = FamilyState(g)
    <3>1. LiveRows(g)' = LiveRows(g) BY <1>3, <1>4, <1>6 DEF LiveRows, Live, Stored
    <3>2. Rotating(g)' = Rotating(g) BY <1>1, <1>8 DEF Rotating
    <3> QED BY <1>2, <3>1, <3>2, SameState
  <2> QED BY <1>5, <1>9, <2>1, <2>2, OneMoves DEF Edges
<1>11. CASE new.revokedAt # NotRevoked
  <2>1. FamilyState(f)' = "closed"
    <3>1. LiveRows(f)' = {}
      <4> SUFFICES ASSUME NEW s \in LiveRows(f)' PROVE FALSE OBVIOUS
      <4>1. s \in LiveRows(f) BY <1>4, <1>11 DEF LiveRows, Live, Stored
      <4>2. p \in Rotating(f) BY <1>1, <1>2 DEF Rotating
      <4> QED BY <4>1, <4>2, OneHolder
    <3>2. Rotating(f)' = {}
      <4> SUFFICES ASSUME NEW q \in Rotating(f)' PROVE FALSE OBVIOUS
      <4>1. q # p /\ q \in Rotating(f) BY <1>8 DEF Rotating
      <4>2. p \in Rotating(f) BY <1>1, <1>2 DEF Rotating
      <4> QED BY <4>1, <4>2, OneHolder
    <3> QED BY <1>2, <1>5, <3>1, <3>2 DEF FamilyState
  <2>2. ASSUME NEW g \in Tokens \ {f} PROVE FamilyState(g)' = FamilyState(g)
    <3>1. LiveRows(g)' = LiveRows(g) BY <1>3, <1>4, <1>6 DEF LiveRows, Live, Stored
    <3>2. Rotating(g)' = Rotating(g) BY <1>1, <1>8 DEF Rotating
    <3> QED BY <1>2, <3>1, <3>2, SameState
  <2> QED BY <1>5, <1>9, <2>1, <2>2, OneMoves DEF Edges
<1> QED BY <1>10, <1>11

\* A live row that goes, or is revoked, closes its family.
LEMMA CloseStep ==
    ASSUME IInv, NEW t, opened' = opened,
           \A s : Live(s)' <=> Live(s) /\ s # t,
           \A s : Live(s)' => sessions'[s].family = sessions[s].family,
           \A q \in Handlers : /\ Inserting(q)' <=> Inserting(q)
                               /\ Inserting(q) => op'[q].row = op[q].row
    PROVE  AbstractStep
<1>1. \A g : Rotating(g)' = Rotating(g) BY DEF Rotating, Inserting
<1>2. \A g : LiveRows(g)' = LiveRows(g) \ {t} BY DEF LiveRows, Live, Stored
<1>3. CASE ~Live(t)
  <2>1. \A g : LiveRows(g)' = LiveRows(g) BY <1>2, <1>3 DEF LiveRows
  <2> QED BY <1>1, <2>1, SameState, NoneMoves
<1>4. CASE Live(t)
  <2>1. PICK f : f = sessions[t].family OBVIOUS
  <2>2. f \in opened /\ f \in Tokens /\ t \in LiveRows(f)
    BY <1>4, <2>1, FamilyOpened DEF Live, Stored, LiveRows
  <2>3. LiveRows(f) = {t} /\ Rotating(f) = {} BY <2>2, OneHolder
  <2>4. FamilyState(f) = "live" BY <2>2, <2>3 DEF FamilyState
  <2>5. FamilyState(f)' = "closed"
    <3>1. LiveRows(f)' = {} /\ Rotating(f)' = {} BY <1>1, <1>2, <2>3
    <3> QED BY <2>2, <3>1 DEF FamilyState
  <2>6. ASSUME NEW g \in Tokens \ {f} PROVE FamilyState(g)' = FamilyState(g)
    <3>1. t \notin LiveRows(g) BY <2>1, <2>6 DEF LiveRows
    <3>2. LiveRows(g)' = LiveRows(g) BY <1>2, <3>1
    <3> QED BY <1>1, <3>2, SameState
  <2> QED BY <2>2, <2>4, <2>5, <2>6, OneMoves DEF Edges
<1> QED BY <1>3, <1>4

\* A handler that dies between the swap and the insert loses the rotation.
LEMMA LoseStep ==
    ASSUME IInv, NEW p \in Handlers, pc[p] = "insertChild", Return(p),
           sessions' = sessions, opened' = opened
    PROVE  AbstractStep
<1>1. PICK f : f = op[p].row.family OBVIOUS
<1>2. f \in opened /\ f \in Tokens BY <1>1, FamilyOpened DEF Inserting
<1>3. pc \in [Handlers -> Steps] /\ op \in [Handlers -> Locals] BY DEF IInv, TypesInv
<1>4. /\ pc'[p] = "idle" /\ \A q \in Handlers \ {p} : pc'[q] = pc[q] /\ op'[q] = op[q]
  BY <1>3 DEF Goto, Return
<1>5. \A g : LiveRows(g)' = LiveRows(g) BY DEF LiveRows, Live, Stored
<1>6. p \in Rotating(f) BY <1>1 DEF Rotating
<1>7. LiveRows(f) = {} /\ Rotating(f) = {p} BY <1>6, OneHolder
<1>8. Rotating(f)' = {} BY <1>4, <1>7 DEF Rotating
<1>9. FamilyState(f) = "rotating" BY <1>2, <1>7 DEF FamilyState
<1>10. FamilyState(f)' = "closed"
  <2>1. LiveRows(f)' = {} BY <1>5, <1>7
  <2> QED BY <1>2, <1>8, <2>1 DEF FamilyState
<1>11. ASSUME NEW g \in Tokens \ {f} PROVE FamilyState(g)' = FamilyState(g)
  <2>1. Rotating(g)' = Rotating(g) BY <1>1, <1>4, <1>11 DEF Rotating
  <2> QED BY <1>5, <2>1, SameState
<1> QED BY <1>2, <1>9, <1>10, <1>11, OneMoves DEF Edges

\* Every step of Sessions is a step of one family's life, or of none.
LEMMA StepsRefine == IInv /\ [Next]_vars => AbstractStep
<1> SUFFICES ASSUME IInv, [Next]_vars PROVE AbstractStep OBVIOUS
<1>0. pc \in [Handlers -> Steps] /\ op \in [Handlers -> Locals] BY DEF IInv, TypesInv
<1>1. ASSUME NEW p \in Handlers, Arrive(p) PROVE AbstractStep
  BY <1>1, StutterGoto DEF Arrive, BeginLogin, BeginRefresh, BeginLogout, BeginChange,
       BeginForceLogout, BeginDisable, Begin, store, history, Steps
<1>2. ASSUME NEW p \in Handlers, Step(p) PROVE AbstractStep
  <2>1. CASE LoginFind(p) \/ RefreshFind(p) \/ RefreshChild(p) \/ RefreshUser(p)
    BY <2>1, StutterGoto DEF LoginFind, RefreshFind, RefreshChild, RefreshUser, RevokeNext,
         Return, store, history, Steps
  <2>2. CASE LogoutFind(p) \/ ChangeFind(p) \/ ChangeUpdate(p) \/ SetStatus(p)
    BY <2>2, StutterGoto DEF LogoutFind, ChangeFind, ChangeUpdate, SetStatus, RevokeNext,
         Return, store, history, Steps
  <2>3. CASE RevokeFind(p) \/ RevokeDone(p)
    BY <2>3, StutterGoto DEF RevokeFind, RevokeDone, Listed, Return, store, history, Steps
  <2>4. CASE LoginInsert(p) BY <2>4, OpenStep
  <2>5. CASE Rotate(p)
    <3>1. CASE Live(op[p].token) BY <2>5, <3>1, BeginStep DEF Rotate, history
    <3>2. CASE ~Live(op[p].token)
      BY <2>5, <3>2, StutterGoto DEF Rotate, Return, history, Steps
    <3> QED BY <3>1, <3>2
  <2>6. CASE InsertChild(p) BY <2>6, EndStep
  <2>7. CASE RevokeOne(p)
    <3>1. PICK t, at, o :
             /\ at = op[p].at
             /\ sessions' = IF Stored(t) THEN [sessions EXCEPT ![t].revokedAt = at] ELSE sessions
             /\ Goto(p, "revokeEach", o)
      BY <2>7 DEF RevokeOne
    <3>2. pc[p] = "revokeEach" /\ opened' = opened BY <2>7 DEF RevokeOne, history
    <3>3. at \in Nat /\ \A s \in DOMAIN sessions : sessions[s] \in Row
      BY <1>0, <3>1 DEF Locals, IInv, TypesInv
    <3>4. /\ DOMAIN sessions' = DOMAIN sessions
          /\ \A s \in DOMAIN sessions : sessions'[s].family = sessions[s].family
          /\ \A s \in DOMAIN sessions \ {t} : sessions'[s] = sessions[s]
          /\ t \in DOMAIN sessions => sessions'[t].revokedAt = at
      BY <3>1, <3>3 DEF Stored, Row
    <3>5. \A s : Live(s)' <=> Live(s) /\ s # t BY <3>3, <3>4 DEF Live, Stored, NotRevoked
    <3>6. \A q \in Handlers : /\ Inserting(q)' <=> Inserting(q)
                              /\ Inserting(q) => op'[q].row = op[q].row
      BY <1>0, <3>1, <3>2 DEF Goto, Inserting
    <3>7. \A s : Live(s)' => sessions'[s].family = sessions[s].family
      BY <3>4 DEF Live, Stored
    <3> QED BY <3>2, <3>5, <3>6, <3>7, CloseStep
  <2> QED BY <1>2, <2>1, <2>2, <2>3, <2>4, <2>5, <2>6, <2>7 DEF Step
<1>3. ASSUME NEW p \in Handlers, Die(p) PROVE AbstractStep
  <2>1. Return(p) /\ sessions' = sessions /\ opened' = opened BY <1>3 DEF Die, store, history
  <2>2. CASE pc[p] = "insertChild" BY <2>1, <2>2, LoseStep
  <2>3. CASE pc[p] # "insertChild" BY <2>1, <2>3, StutterGoto DEF Return, Steps
  <2> QED BY <2>2, <2>3
<1>4. CASE TtlDelete
  <2>1. PICK t \in DOMAIN sessions : sessions' = [s \in DOMAIN sessions \ {t} |-> sessions[s]]
    BY <1>4 DEF TtlDelete
  <2>2. pc' = pc /\ op' = op /\ opened' = opened BY <1>4 DEF TtlDelete, history
  <2>3. \A s : Live(s)' <=> Live(s) /\ s # t BY <2>1 DEF Live, Stored
  <2>4. \A s : Live(s)' => sessions'[s].family = sessions[s].family
    BY <2>1 DEF Live, Stored
  <2> QED BY <2>2, <2>3, <2>4, CloseStep DEF Inserting
<1>5. CASE AdminSetsStatus \/ Elapse \/ UNCHANGED vars
  BY <1>5, StutterStep DEF AdminSetsStatus, Elapse, vars, store, history, Inserting
<1> QED BY <1>1, <1>2, <1>3, <1>4, <1>5 DEF Next

\* Rows, revocations, crashes and the TTL index implement the life of the
\* abstract family (lib/auth.js): one holder at a time, and closed for good.
THEOREM SessionsImplementFamilies == Spec => ImplementsAbstract
<1>1. Init => Abstract!Init
  <2> SUFFICES ASSUME Init PROVE Abstract!Init OBVIOUS
  <2>1. \A f \in Tokens : FamilyState(f) = "unused" BY DEF Init, FamilyState
  <2> QED BY <2>1 DEF Abstract!Init
<1>2. IInv /\ [Next]_vars => [Abstract!Next]_([f \in Tokens |-> FamilyState(f)])
  BY StepsRefine DEF AbstractStep
<1> QED BY <1>1, <1>2, Invariant, PTL DEF Spec, ImplementsAbstract, Abstract!Spec
=============================================================================
