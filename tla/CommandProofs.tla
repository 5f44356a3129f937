---------------------------- MODULE CommandProofs ----------------------------
(***************************************************************************)
(* Proofs about Commands, for any number of admins, polls and              *)
(* acknowledgements in flight, any ids and any number of changes.          *)
(*                                                                         *)
(* One inductive invariant in four parts: what the queue and its           *)
(* transitions have to do with each other (QueueInv), what an admin's      *)
(* request has done by the call it is at (AdminInv), what a poll or an     *)
(* acknowledgement still has to do (DeviceInv), and where the account is   *)
(* with respect to the ledger (AuthorityInv).                              *)
(***************************************************************************)
EXTENDS CommandProps, FiniteSetTheorems, TLAPS

USE CommandsAssumption

\* What is left of the plan of a request of each type, at the earliest call
\* first.
Todos(type) ==
    CASE type = "force_logout" -> {<<"insert", "audit">>, <<"audit">>}
      [] type = "wipe_claude_creds" ->
             {<<"device", "insert", "audit">>, <<"insert", "audit">>, <<"audit">>}
      [] type = "disable_account" ->
             {<<"ledger", "status", "insert", "audit">>, <<"status", "insert", "audit">>,
              <<"insert", "audit">>, <<"audit">>}
      [] type = "deprovision" ->
             {<<"ledger", "status", "device", "insert", "audit">>,
              <<"status", "device", "insert", "audit">>,
              <<"device", "insert", "audit">>, <<"insert", "audit">>, <<"audit">>}
      [] type = "set_status" -> {<<"ledger", "status">>, <<"status">>}

AdminSteps == {"idle", "ledger", "status", "device", "insert", "audit"}
Steps == AdminSteps \cup {"poll", "auditSent", "ack", "auditAck"}

Locals == [id : Ids \cup {NoId}, type : Types \cup {"none", "set_status"},
           to : AccountStatuses \cup Final \cup {"none"}, todo : Seq(Steps),
           waiting : SUBSET (Ids \X Statuses), out : SUBSET Ids, listed : SUBSET Ids]

Inv0 ==
    /\ pc \in [Procs -> Steps] /\ op \in [Procs -> Locals]
    /\ unused \subseteq Ids
    /\ permissionChanges \in Seq(AccountStatuses)
    /\ account \in AccountStatuses
    /\ device \in {"active", "wiped", "deprovisioned"}

\* Every transition is on record, given up, or about to be recorded by one
\* handler.
TransitionsInv ==
    /\ audited \cup unwritten \subseteq reached
    /\ \A p \in Procs : InFlight(p) \subseteq reached
    /\ \A x \in reached : x \in audited \cup unwritten \/ \E p \in Procs : x \in InFlight(p)
    /\ \A p, q \in Procs : p # q => InFlight(p) \cap InFlight(q) = {}

QueueInv ==
    /\ DOMAIN commands \subseteq Ids \ unused
    /\ \A id \in DOMAIN commands : commands[id].type \in Types /\ commands[id].status \in Statuses
    /\ reached \subseteq (DOMAIN commands) \X Statuses
    /\ \A id \in DOMAIN commands :
          /\ <<id, "sent">> \in reached => commands[id].status # "pending"
          /\ \A s \in Final : <<id, s>> \in reached => commands[id].status = s
    /\ TransitionsInv

\* What holds of an admin's request at its call.
Admitted(a) ==
    LET o == op[a]
    IN  /\ pc[a] \in AdminSteps
        /\ pc[a] # "idle" =>
              /\ o.type \in Types \cup {"set_status"}
              /\ o.to \in AccountStatuses
              /\ o.todo \in Todos(o.type)
              /\ pc[a] = o.todo[1]
              /\ o.type # "set_status" => o.id \in Ids \ unused
        /\ pc[a] # "idle" /\ pc[a] # "audit" /\ o.type # "set_status" => o.id \notin DOMAIN commands
        /\ pc[a] \in {"device", "insert"} /\ o.type \in {"deprovision", "disable_account"} =>
              <<o.id, "status">> \in effects
        /\ pc[a] = "insert" /\ o.type \in {"deprovision", "wipe_claude_creds"} =>
              <<o.id, "device">> \in effects

Enqueues(a) == pc[a] # "idle" /\ op[a].type # "set_status"

AdminInv ==
    /\ \A a \in Admins : Admitted(a)
    /\ \A a, b \in Admins : a # b /\ Enqueues(a) /\ Enqueues(b) => op[a].id # op[b].id
    /\ EffectsComeFirst

DeviceInv ==
    /\ inbox \subseteq DOMAIN commands
    /\ \A p \in Pollers :
          /\ pc[p] \in {"idle", "poll", "auditSent"}
          /\ op[p].listed \cup op[p].out \subseteq DOMAIN commands
          /\ \A w \in op[p].waiting : w[1] \in DOMAIN commands
          /\ pc[p] = "auditSent" => op[p].id \in DOMAIN commands
          /\ \A id \in op[p].listed : id \in op[p].out \/ \E w \in op[p].waiting : w[1] = id
    /\ \A k \in Ackers :
          /\ pc[k] \in {"idle", "ack", "auditAck"}
          /\ op[k].listed = {} /\ op[k].out = {}
          /\ pc[k] # "idle" => op[k].id \in DOMAIN commands /\ op[k].to \in Final

Last == IF permissionChanges = <<>> THEN "active" ELSE permissionChanges[Len(permissionChanges)]

AuthorityInv ==
    /\ ~tangled =>
          /\ Changing = {} => account = Last
          /\ \A a \in Changing : Changing = {a} /\ op[a].to = Last
    /\ NeverUnrecorded
    /\ \A a \in Changing : \E i \in DOMAIN permissionChanges : permissionChanges[i] = op[a].to

IInv == Inv0 /\ QueueInv /\ AdminInv /\ DeviceInv /\ AuthorityInv

\* The next call of a request, by its type and the call it has made.
Following(type, step) ==
    CASE step = "ledger" -> "status"
      [] step = "status" /\ type = "set_status" -> "idle"
      [] step = "status" /\ type = "deprovision" -> "device"
      [] step = "status" /\ type = "disable_account" -> "insert"
      [] step = "device" -> "insert"
      [] step = "insert" -> "audit"
      [] step = "audit" -> "idle"

AccountTypes == {"deprovision", "disable_account", "set_status"}

\* Which requests make which call.
LEMMA CallsByType ==
    ASSUME NEW a \in Admins, Admitted(a), pc[a] # "idle"
    PROVE  /\ pc[a] \in {"ledger", "status"} => op[a].type \in AccountTypes
           /\ pc[a] = "device" => op[a].type \in {"deprovision", "wipe_claude_creds"}
           /\ pc[a] \in {"insert", "audit"} => op[a].type \in Types
<1> DEFINE o == op[a]
<1>1. o.todo \in Todos(o.type) /\ pc[a] = o.todo[1] /\ o.type \in Types \cup {"set_status"}
  BY DEF Admitted
<1>2. CASE o.type = "force_logout"
  BY <1>1, <1>2 DEF Todos, Types, AccountTypes
<1>3. CASE o.type = "wipe_claude_creds"
  BY <1>1, <1>3 DEF Todos, Types, AccountTypes
<1>4. CASE o.type = "disable_account"
  BY <1>1, <1>4 DEF Todos, Types, AccountTypes
<1>5. CASE o.type = "deprovision"
  BY <1>1, <1>5 DEF Todos, Types, AccountTypes
<1>6. CASE o.type = "set_status"
  BY <1>1, <1>6 DEF Todos, Types, AccountTypes
<1> QED BY <1>1, <1>2, <1>3, <1>4, <1>5, <1>6 DEF Types

\* The rest of a plan: nothing after its last call, or the plan that begins
\* with the call that follows.
LEMMA Remaining ==
    ASSUME NEW type \in Types \cup {"set_status"}, NEW todo \in Todos(type)
    PROVE  \/ /\ Len(todo) = 1 /\ Following(type, todo[1]) = "idle"
           \/ /\ Len(todo) # 1 /\ todo # <<>>
              /\ Following(type, todo[1]) = todo[2]
              /\ Tail(todo) \in Todos(type) /\ Tail(todo)[1] = todo[2]
              /\ todo[2] \in AdminSteps \ {"idle"}
<1>1. CASE type = "force_logout"
  <2>1. \/ todo = <<"insert", "audit">>
        \/ todo = <<"audit">>
    BY <1>1 DEF Todos
  <2>2. CASE todo = <<"insert", "audit">>
    BY <1>1, <2>2 DEF Todos, Following, AdminSteps
  <2>3. CASE todo = <<"audit">>
    BY <1>1, <2>3 DEF Todos, Following, AdminSteps
  <2> QED BY <2>1, <2>2, <2>3
<1>2. CASE type = "wipe_claude_creds"
  <2>1. \/ todo = <<"device", "insert", "audit">>
        \/ todo = <<"insert", "audit">>
        \/ todo = <<"audit">>
    BY <1>2 DEF Todos
  <2>2. CASE todo = <<"device", "insert", "audit">>
    BY <1>2, <2>2 DEF Todos, Following, AdminSteps
  <2>3. CASE todo = <<"insert", "audit">>
    BY <1>2, <2>3 DEF Todos, Following, AdminSteps
  <2>4. CASE todo = <<"audit">>
    BY <1>2, <2>4 DEF Todos, Following, AdminSteps
  <2> QED BY <2>1, <2>2, <2>3, <2>4
<1>3. CASE type = "disable_account"
  <2>1. \/ todo = <<"ledger", "status", "insert", "audit">>
        \/ todo = <<"status", "insert", "audit">>
        \/ todo = <<"insert", "audit">>
        \/ todo = <<"audit">>
    BY <1>3 DEF Todos
  <2>2. CASE todo = <<"ledger", "status", "insert", "audit">>
    BY <1>3, <2>2 DEF Todos, Following, AdminSteps
  <2>3. CASE todo = <<"status", "insert", "audit">>
    BY <1>3, <2>3 DEF Todos, Following, AdminSteps
  <2>4. CASE todo = <<"insert", "audit">>
    BY <1>3, <2>4 DEF Todos, Following, AdminSteps
  <2>5. CASE todo = <<"audit">>
    BY <1>3, <2>5 DEF Todos, Following, AdminSteps
  <2> QED BY <2>1, <2>2, <2>3, <2>4, <2>5
<1>4. CASE type = "deprovision"
  <2>1. \/ todo = <<"ledger", "status", "device", "insert", "audit">>
        \/ todo = <<"status", "device", "insert", "audit">>
        \/ todo = <<"device", "insert", "audit">>
        \/ todo = <<"insert", "audit">>
        \/ todo = <<"audit">>
    BY <1>4 DEF Todos
  <2>2. CASE todo = <<"ledger", "status", "device", "insert", "audit">>
    BY <1>4, <2>2 DEF Todos, Following, AdminSteps
  <2>3. CASE todo = <<"status", "device", "insert", "audit">>
    BY <1>4, <2>3 DEF Todos, Following, AdminSteps
  <2>4. CASE todo = <<"device", "insert", "audit">>
    BY <1>4, <2>4 DEF Todos, Following, AdminSteps
  <2>5. CASE todo = <<"insert", "audit">>
    BY <1>4, <2>5 DEF Todos, Following, AdminSteps
  <2>6. CASE todo = <<"audit">>
    BY <1>4, <2>6 DEF Todos, Following, AdminSteps
  <2> QED BY <2>1, <2>2, <2>3, <2>4, <2>5, <2>6
<1>5. CASE type = "set_status"
  <2>1. \/ todo = <<"ledger", "status">>
        \/ todo = <<"status">>
    BY <1>5 DEF Todos
  <2>2. CASE todo = <<"ledger", "status">>
    BY <1>5, <2>2 DEF Todos, Following, AdminSteps
  <2>3. CASE todo = <<"status">>
    BY <1>5, <2>3 DEF Todos, Following, AdminSteps
  <2> QED BY <2>1, <2>2, <2>3
<1> QED BY <1>1, <1>2, <1>3, <1>4, <1>5 DEF Types

----------------------------------------------------------------------------
(* What a handler's step does to the handlers. *)

\* Only process p moved.
Alone(p) ==
    /\ pc' \in [Procs -> Steps] /\ op' \in [Procs -> Locals]
    /\ \A q \in Procs \ {p} : pc'[q] = pc[q] /\ op'[q] = op[q]

\* A handler that goes to a call is there, alone.
LEMMA Going ==
    ASSUME Inv0, NEW p \in Procs, NEW step \in Steps, NEW o \in Locals,
           Goto(p, step, o)
    PROVE  Alone(p) /\ pc'[p] = step /\ op'[p] = o
BY DEF Inv0, Goto, Alone

\* The locals of a handler at rest have their types.
LEMMA IdleOk == Idle \in Locals
<1>1. <<>> \in Seq(Steps) OBVIOUS
<1> QED BY <1>1 DEF Idle, Locals

\* A handler that returns keeps nothing.
LEMMA Returning ==
    ASSUME Inv0, NEW p \in Procs, Return(p)
    PROVE  Alone(p) /\ pc'[p] = "idle" /\ op'[p] = Idle
BY IdleOk, Going DEF Return, Steps, AdminSteps

\* A request goes on to the call that follows in its plan.
LEMMA Advancing ==
    ASSUME Inv0, NEW a \in Admins, Admitted(a), pc[a] # "idle", Advance(a)
    PROVE  /\ Alone(a)
           /\ pc'[a] = Following(op[a].type, pc[a])
           /\ pc'[a] = "idle" => op'[a] = Idle
           /\ pc'[a] # "idle" =>
                 /\ op'[a].id = op[a].id /\ op'[a].type = op[a].type /\ op'[a].to = op[a].to
                 /\ op'[a].todo \in Todos(op[a].type) /\ pc'[a] = op'[a].todo[1]
           /\ pc'[a] \in AdminSteps
<1> DEFINE o == op[a]
<1>1. /\ o.todo \in Todos(o.type) /\ pc[a] = o.todo[1]
      /\ o.type \in Types \cup {"set_status"} /\ o \in Locals /\ a \in Procs
  BY DEF Admitted, Inv0, Procs
<1>2. CASE Len(o.todo) = 1
  <2>1. Return(a) BY <1>2 DEF Advance
  <2>2. Following(o.type, o.todo[1]) = "idle" BY <1>1, <1>2, Remaining
  <2> QED BY <1>1, <2>1, <2>2, Returning DEF AdminSteps
<1>3. CASE Len(o.todo) # 1
  <2> DEFINE rest == Tail(o.todo)
             l == [o EXCEPT !.todo = rest]
  <2>1. Goto(a, o.todo[2], l) BY <1>3 DEF Advance
  <2>2. /\ Following(o.type, o.todo[1]) = o.todo[2]
        /\ rest \in Todos(o.type) /\ rest[1] = o.todo[2]
        /\ o.todo[2] \in AdminSteps \ {"idle"}
    BY <1>1, <1>3, Remaining
  <2>3. o.todo # <<>> BY <1>1, <1>3, Remaining
  <2>4. rest \in Seq(Steps) BY <1>1, <2>3 DEF Locals
  <2>5. /\ l \in Locals /\ l.id = o.id /\ l.type = o.type /\ l.to = o.to /\ l.todo = rest
    BY <1>1, <2>4 DEF Locals
  <2>6. o.todo[2] \in Steps BY <2>2 DEF Steps
  <2>7. Alone(a) /\ pc'[a] = o.todo[2] /\ op'[a] = l
    BY <1>1, <2>1, <2>5, <2>6, Going
  <2> QED BY <1>1, <2>2, <2>5, <2>7
<1> QED BY <1>2, <1>3

----------------------------------------------------------------------------
(* The transitions of the queue and their audit events. *)

\* What the others have to record is theirs still.
LEMMA SameInFlight ==
    ASSUME NEW p, NEW q \in Procs \ {p}, Alone(p)
    PROVE  InFlight(q)' = InFlight(q)
BY DEF Alone, InFlight

\* A transition nobody has made before is now p's to record.
LEMMA Transition ==
    ASSUME TransitionsInv, NEW p \in Procs, NEW x, x \notin reached, Alone(p),
           InFlight(p) = {}, InFlight(p)' = {x}, reached' = reached \cup {x},
           UNCHANGED <<audited, unwritten>>
    PROVE  TransitionsInv'
<1>1. \A q \in Procs \ {p} : InFlight(q)' = InFlight(q) BY SameInFlight
<1> QED BY <1>1 DEF TransitionsInv

\* p records the transition it made.
LEMMA Recording ==
    ASSUME TransitionsInv, NEW p \in Procs, NEW x, Alone(p),
           InFlight(p) = {x}, InFlight(p)' = {}, audited' = audited \cup {x},
           UNCHANGED <<reached, unwritten>>
    PROVE  TransitionsInv'
<1>1. \A q \in Procs \ {p} : InFlight(q)' = InFlight(q) BY SameInFlight
<1> QED BY <1>1 DEF TransitionsInv

\* p dies with the transition it made.
LEMMA GivingUp ==
    ASSUME TransitionsInv, NEW p \in Procs, Alone(p),
           InFlight(p)' = {}, unwritten' = unwritten \cup InFlight(p),
           UNCHANGED <<reached, audited>>
    PROVE  TransitionsInv'
<1>1. \A q \in Procs \ {p} : InFlight(q)' = InFlight(q) BY SameInFlight
<1> QED BY <1>1 DEF TransitionsInv

\* p moves on and has nothing to record.
LEMMA Bystanding ==
    ASSUME TransitionsInv, NEW p \in Procs, Alone(p),
           InFlight(p) = {}, InFlight(p)' = {},
           UNCHANGED <<reached, audited, unwritten>>
    PROVE  TransitionsInv'
<1>1. \A q \in Procs \ {p} : InFlight(q)' = InFlight(q) BY SameInFlight
<1> QED BY <1>1 DEF TransitionsInv

\* A step of p that neither changes the queue nor makes p record anything.
LEMMA QuietQueue ==
    ASSUME QueueInv, NEW p \in Procs, Alone(p), unused' \subseteq unused,
           pc[p] \notin {"audit", "auditSent", "auditAck"},
           pc'[p] \notin {"audit", "auditSent", "auditAck"}, UNCHANGED queue
    PROVE  QueueInv'
<1>1. InFlight(p) = {} /\ InFlight(p)' = {} BY DEF InFlight
<1>2. TransitionsInv' BY <1>1, Bystanding DEF QueueInv, queue
<1> QED BY <1>2 DEF QueueInv, queue

----------------------------------------------------------------------------
(* What a step leaves alone. *)

\* The account's side: nobody recorded or applied a change.
LEMMA QuietAuthority ==
    ASSUME AuthorityInv, NEW p \in Procs, Alone(p), UNCHANGED authority,
           pc[p] # "status" \/ p \notin Admins, pc'[p] # "status" \/ p \notin Admins
    PROVE  AuthorityInv'
<1>1. Changing' = Changing /\ \A a \in Changing : op'[a] = op[a]
  BY DEF Changing, Alone, Procs
<1> QED BY <1>1 DEF AuthorityInv, NeverUnrecorded, Last, authority

\* An admin's request whose turn it is not.
LEMMA QuietAdmin ==
    ASSUME NEW a \in Admins, Admitted(a), pc'[a] = pc[a], op'[a] = op[a],
           effects \subseteq effects', unused' \subseteq unused,
           op[a].id \in (DOMAIN commands)' => op[a].id \in DOMAIN commands
                \/ pc[a] \in {"idle", "audit"} \/ op[a].type = "set_status"
    PROVE  Admitted(a)'
BY DEF Admitted

\* All admins' requests, when a device's handler moves.
LEMMA QuietAdmins ==
    ASSUME AdminInv, NEW p \in Pollers \cup Ackers, Alone(p), UNCHANGED <<effects, unused>>,
           DOMAIN commands' = DOMAIN commands,
           \A id \in DOMAIN commands : commands'[id].type = commands[id].type
    PROVE  AdminInv'
<1>1. \A a \in Admins : pc'[a] = pc[a] /\ op'[a] = op[a]
  BY CommandsAssumption DEF Alone, Procs
<1>2. \A a \in Admins : Admitted(a)'
  BY <1>1, QuietAdmin DEF AdminInv
<1>3. EffectsComeFirst' BY DEF AdminInv, EffectsComeFirst
<1> QED BY <1>1, <1>2, <1>3 DEF AdminInv, Enqueues

\* The device's handlers, when an admin's moves.
LEMMA QuietDevice ==
    ASSUME DeviceInv, NEW a \in Admins, Alone(a), UNCHANGED inbox,
           DOMAIN commands \subseteq DOMAIN commands'
    PROVE  DeviceInv'
<1>1. \A p \in Pollers \cup Ackers : pc'[p] = pc[p] /\ op'[p] = op[p]
  BY CommandsAssumption DEF Alone, Procs
<1> QED BY <1>1 DEF DeviceInv

----------------------------------------------------------------------------
(* The invariant holds at first and is kept by every step. *)

\* The invariant holds of the initial state.
LEMMA InitInv == Init => IInv
<1> SUFFICES ASSUME Init PROVE IInv OBVIOUS
<1> USE DEF Init
<1>1. Inv0
  <2>1. <<>> \in Seq(AccountStatuses) OBVIOUS
  <2> QED BY <2>1, IdleOk DEF Inv0, AccountStatuses, Steps, AdminSteps
<1>2. QueueInv
  <2>1. \A p \in Procs : InFlight(p) = {} BY DEF InFlight
  <2>2. DOMAIN commands = {} OBVIOUS
  <2> QED BY <2>1, <2>2 DEF QueueInv, TransitionsInv
<1>3. AdminInv
  <2>1. \A a \in Admins : pc[a] = "idle" BY DEF Procs
  <2>2. DOMAIN commands = {} OBVIOUS
  <2> QED BY <2>1, <2>2 DEF AdminInv, Admitted, Enqueues, EffectsComeFirst, AdminSteps
<1>4. DeviceInv
  <2>1. \A p \in Procs : pc[p] = "idle" /\ op[p] = Idle OBVIOUS
  <2> QED BY <2>1 DEF DeviceInv, Idle, Procs
<1>5. AuthorityInv
  <2>1. Changing = {} BY DEF Changing, Procs
  <2> QED BY <2>1 DEF AuthorityInv, Last, NeverUnrecorded
<1> QED BY <1>1, <1>2, <1>3, <1>4, <1>5 DEF IInv

\* What a request that begins has before it.
LEMMA Beginning ==
    ASSUME Inv0, NEW a \in Admins, NEW id \in Ids \cup {NoId},
           NEW type \in Types \cup {"set_status"}, NEW to \in AccountStatuses,
           Begin(a, id, type, to)
    PROVE  /\ Alone(a) /\ op'[a].id = id /\ op'[a].type = type /\ op'[a].to = to
           /\ op'[a].todo \in Todos(type) /\ pc'[a] = op'[a].todo[1]
           /\ pc'[a] \in {"ledger", "device", "insert"}
           /\ pc'[a] = "device" => type = "wipe_claude_creds"
           /\ pc'[a] = "insert" => type = "force_logout"
<1> DEFINE l == [Idle EXCEPT !.id = id, !.type = type, !.to = to, !.todo = Plan(type)]
<1>1. /\ Plan(type) \in Seq(Steps) /\ Plan(type) \in Todos(type)
      /\ Plan(type)[1] \in {"ledger", "device", "insert"}
      /\ Plan(type)[1] = "device" => type = "wipe_claude_creds"
      /\ Plan(type)[1] = "insert" => type = "force_logout"
  <2>1. CASE type = "force_logout"
    BY <2>1 DEF Plan, Todos, Steps, AdminSteps
  <2>2. CASE type = "wipe_claude_creds"
    BY <2>2 DEF Plan, Todos, Steps, AdminSteps
  <2>3. CASE type = "disable_account"
    BY <2>3 DEF Plan, Todos, Steps, AdminSteps
  <2>4. CASE type = "deprovision"
    BY <2>4 DEF Plan, Todos, Steps, AdminSteps
  <2>5. CASE type = "set_status"
    BY <2>5 DEF Plan, Todos, Steps, AdminSteps
  <2> QED BY <2>1, <2>2, <2>3, <2>4, <2>5 DEF Types
<1>2. l \in Locals /\ l.id = id /\ l.type = type /\ l.to = to /\ l.todo = Plan(type)
  BY <1>1, IdleOk DEF Locals, Idle
<1>3. Alone(a) /\ pc'[a] = Plan(type)[1] /\ op'[a] = l
  <2>1. Goto(a, Plan(type)[1], l) BY DEF Begin
  <2>2. a \in Procs /\ Plan(type)[1] \in Steps BY <1>1 DEF Procs, Steps, AdminSteps
  <2> QED BY <1>2, <2>1, <2>2, Going
<1> QED BY <1>1, <1>2, <1>3

\* A request passed its checks: its command has an id nobody else has.
LEMMA KeepsBegin ==
    ASSUME IInv, NEW a \in Admins, BeginEnqueue(a) \/ BeginSetStatus(a)
    PROVE  IInv'
<1> USE DEF IInv
<1>1. PICK id \in Ids \cup {NoId}, type \in Types \cup {"set_status"}, to \in AccountStatuses :
        /\ Begin(a, id, type, to)
        /\ \/ type = "set_status" /\ unused' = unused
           \/ type # "set_status" /\ id \in unused /\ unused' = unused \ {id}
  <2>1. CASE BeginEnqueue(a)
    <3>1. PICK id \in unused, type \in Types :
            /\ Begin(a, id, type, IF type = "deprovision" THEN "deprovisioned" ELSE "suspended")
            /\ unused' = unused \ {id}
      BY <2>1 DEF BeginEnqueue
    <3>2. id \in Ids /\ type # "set_status" BY DEF Inv0, Types
    <3> QED BY <3>1, <3>2 DEF AccountStatuses
  <2>2. CASE BeginSetStatus(a)
    BY <2>2 DEF BeginSetStatus, AccountStatuses
  <2> QED BY <2>1, <2>2
<1>2. /\ Alone(a) /\ op'[a].id = id /\ op'[a].type = type /\ op'[a].to = to
      /\ op'[a].todo \in Todos(type) /\ pc'[a] = op'[a].todo[1]
      /\ pc'[a] \in {"ledger", "device", "insert"}
      /\ pc'[a] = "device" => type = "wipe_claude_creds"
      /\ pc'[a] = "insert" => type = "force_logout"
  BY <1>1, Beginning
<1>3. pc[a] = "idle" /\ UNCHANGED <<queue, authority, deviceSide, effects>> /\ a \in Procs
  BY <1>1 DEF Begin, Procs
<1>4. Inv0'
  BY <1>1, <1>2, <1>3 DEF Inv0, Alone, authority, deviceSide
<1>5. QueueInv'
  <2>1. QueueInv /\ unused' \subseteq unused BY <1>1
  <2> QED BY <1>2, <1>3, <2>1, QuietQueue
<1>6. AdminInv'
  <2>1. Admitted(a)'
    BY <1>1, <1>2, <1>3 DEF Admitted, AdminSteps, QueueInv, Inv0, queue
  <2>2. \A b \in Admins \ {a} : Admitted(b)' /\ op'[b] = op[b] /\ pc'[b] = pc[b]
    <3> TAKE b \in Admins \ {a}
    <3>1. Admitted(b) /\ pc'[b] = pc[b] /\ op'[b] = op[b] BY <1>2 DEF AdminInv, Alone, Procs
    <3>2. /\ Enqueues(b) /\ type # "set_status" => op[b].id # id
      BY <1>1, <3>1 DEF Enqueues, Admitted
    <3>3. Admitted(b)'
      BY <1>1, <1>3, <3>1, <3>2 DEF Admitted, Enqueues, queue
    <3> QED BY <3>1, <3>3
  <2>3. \A b \in Admins \ {a} : Enqueues(b) /\ type # "set_status" => op[b].id # id
    BY <1>1 DEF AdminInv, Admitted, Enqueues
  <2>4. EffectsComeFirst'
    BY <1>3 DEF AdminInv, EffectsComeFirst, queue
  <2> QED BY <1>2, <2>1, <2>2, <2>3, <2>4 DEF AdminInv, Enqueues
<1>7. DeviceInv'
  BY <1>2, <1>3, QuietDevice DEF queue, deviceSide
<1>8. AuthorityInv'
  BY <1>2, <1>3, QuietAuthority
<1> QED BY <1>4, <1>5, <1>6, <1>7, <1>8

\* An admin's request makes its call and goes on: what it has done by then.
LEMMA AdminAdvances ==
    ASSUME IInv, NEW a \in Admins, pc[a] # "idle", Advance(a),
           unused' = unused, effects \subseteq effects', EffectsComeFirst',
           pc[a] = "status" => <<op[a].id, "status">> \in effects',
           pc[a] = "device" => <<op[a].id, "device">> \in effects',
           \A id \in DOMAIN commands' :
               id \in DOMAIN commands \/ (pc[a] = "insert" /\ id = op[a].id)
    PROVE  AdminInv'
<1>1. Inv0 /\ AdminInv /\ Admitted(a) BY DEF IInv, AdminInv
<1>2. /\ Alone(a)
      /\ pc'[a] = Following(op[a].type, pc[a])
      /\ pc'[a] # "idle" =>
            /\ op'[a].id = op[a].id /\ op'[a].type = op[a].type /\ op'[a].to = op[a].to
            /\ op'[a].todo \in Todos(op[a].type) /\ pc'[a] = op'[a].todo[1]
      /\ pc'[a] \in AdminSteps
  BY <1>1, Advancing
<1>3. Admitted(a)'
  <2> DEFINE o == op[a]
  <2>1. CASE pc'[a] = "idle"
    BY <1>2, <2>1 DEF Admitted
  <2>2. CASE pc'[a] # "idle"
    <3>1. /\ o.type \in Types \cup {"set_status"} /\ o.to \in AccountStatuses
          /\ o.type # "set_status" => o.id \in Ids \ unused'
      BY <1>1 DEF Admitted
    <3>2. pc[a] \in {"ledger", "status", "device", "insert"}
      BY <1>1, <1>2, <2>2 DEF Admitted, AdminSteps, Following
    <3>3. pc'[a] # "audit" /\ o.type # "set_status" => o.id \notin DOMAIN commands'
      <4>1. pc[a] = "insert" => pc'[a] = "audit" BY <1>2 DEF Following
      <4> QED BY <1>1, <3>2, <4>1 DEF Admitted
    <3>4. pc'[a] = "device" => pc[a] = "status" BY <1>2, <3>2 DEF Following
    <3>5. pc'[a] = "insert" => pc[a] = "device" \/ (pc[a] = "status" /\ o.type = "disable_account")
      <4>1. pc[a] = "status" => o.type \in AccountTypes BY <1>1, CallsByType
      <4> QED BY <1>2, <3>2, <4>1 DEF Following, AccountTypes
    <3>6. pc'[a] \in {"device", "insert"} /\ o.type \in {"deprovision", "disable_account"} =>
             <<o.id, "status">> \in effects'
      BY <1>1, <3>4, <3>5 DEF Admitted
    <3>7. pc'[a] = "insert" /\ o.type \in {"deprovision", "wipe_claude_creds"} =>
             <<o.id, "device">> \in effects'
      BY <3>5
    <3> QED BY <1>2, <2>2, <3>1, <3>3, <3>6, <3>7 DEF Admitted
  <2> QED BY <2>1, <2>2
<1>4. \A b \in Admins \ {a} : pc'[b] = pc[b] /\ op'[b] = op[b]
  BY <1>2 DEF Alone, Procs
<1>5. \A b \in Admins \ {a} : Admitted(b)'
  <2> TAKE b \in Admins \ {a}
  <2>1. pc[a] = "insert" /\ Enqueues(b) => op[b].id # op[a].id
    <3>1. pc[a] = "insert" => op[a].type \in Types BY <1>1, CallsByType
    <3> QED BY <1>1, <3>1 DEF AdminInv, Enqueues, Types
  <2> QED BY <1>1, <1>4, <2>1, QuietAdmin DEF AdminInv, Enqueues
<1>6. Enqueues(a)' => Enqueues(a) /\ op'[a].id = op[a].id
  BY <1>2 DEF Enqueues
<1> QED BY <1>1, <1>3, <1>4, <1>5, <1>6 DEF AdminInv, Enqueues

\* A change is recorded: from now on it is the last one.
LEMMA KeepsRecordChange ==
    ASSUME IInv, NEW a \in Admins, RecordChange(a)
    PROVE  IInv'
<1> USE DEF IInv
<1>1. /\ pc[a] = "ledger" /\ permissionChanges' = Append(permissionChanges, op[a].to)
      /\ tangled' = (Changing # {}) /\ Advance(a) /\ a \in Procs
      /\ UNCHANGED <<queue, account, deviceSide, unused, effects>>
  BY DEF RecordChange, Procs
<1>2. Admitted(a) BY DEF AdminInv
<1>3. Alone(a) /\ pc'[a] = "status" /\ op'[a].to = op[a].to /\ op[a].to \in AccountStatuses
  BY <1>1, <1>2, Advancing DEF Following, Admitted
<1>4. /\ permissionChanges' \in Seq(AccountStatuses)
      /\ Len(permissionChanges') = Len(permissionChanges) + 1
      /\ permissionChanges'[Len(permissionChanges')] = op[a].to
      /\ \A i \in DOMAIN permissionChanges :
            i \in DOMAIN permissionChanges' /\ permissionChanges'[i] = permissionChanges[i]
      /\ Len(permissionChanges') \in DOMAIN permissionChanges'
  BY <1>1, <1>3 DEF Inv0
<1>5. Inv0' BY <1>1, <1>3, <1>4 DEF Inv0, Alone, deviceSide
<1>6. QueueInv' BY <1>1, <1>3, QuietQueue
<1>7. AdminInv'
  <2>1. EffectsComeFirst' BY <1>1 DEF AdminInv, EffectsComeFirst, queue
  <2> QED BY <1>1, <2>1, AdminAdvances DEF queue
<1>8. DeviceInv' BY <1>1, <1>3, QuietDevice DEF queue, deviceSide
<1>9. AuthorityInv'
  <2>1. /\ Changing' = Changing \cup {a} /\ a \notin Changing
        /\ \A b \in Changing : op'[b].to = op[b].to
    BY <1>1, <1>3 DEF Changing, Alone, Procs
  <2>2. Last' = op[a].to BY <1>4 DEF Last
  <2>3. NeverUnrecorded' BY <1>1, <1>4 DEF AuthorityInv, NeverUnrecorded
  <2>4. ~tangled' => Changing' = {a} BY <1>1, <2>1
  <2>5. \A b \in Changing' :
           \E i \in DOMAIN permissionChanges' : permissionChanges'[i] = op'[b].to
    BY <1>3, <1>4, <2>1 DEF AuthorityInv
  <2> QED BY <1>3, <2>2, <2>3, <2>4, <2>5 DEF AuthorityInv
<1> QED BY <1>5, <1>6, <1>7, <1>8, <1>9

\* A recorded change reaches the account.
LEMMA KeepsApplyChange ==
    ASSUME IInv, NEW a \in Admins, ApplyChange(a)
    PROVE  IInv'
<1> USE DEF IInv
<1>1. /\ pc[a] = "status" /\ account' = op[a].to
      /\ effects' = effects \cup {<<op[a].id, "status">>} /\ Advance(a) /\ a \in Procs
      /\ UNCHANGED <<queue, permissionChanges, tangled, deviceSide, unused>>
  BY DEF ApplyChange, Procs
<1>2. Admitted(a) BY DEF AdminInv
<1>3. Alone(a) /\ pc'[a] \in {"idle", "device", "insert"}
  <2>1. op[a].type \in AccountTypes BY <1>1, <1>2, CallsByType
  <2> QED BY <1>1, <1>2, <2>1, Advancing DEF Following, AccountTypes
<1>4. Inv0' BY <1>1, <1>2, <1>3 DEF Inv0, Alone, deviceSide, Admitted
<1>5. QueueInv' BY <1>1, <1>3, QuietQueue
<1>6. AdminInv'
  <2>1. EffectsComeFirst' BY <1>1 DEF AdminInv, EffectsComeFirst, queue
  <2> QED BY <1>1, <2>1, AdminAdvances DEF queue
<1>7. DeviceInv' BY <1>1, <1>3, QuietDevice DEF queue, deviceSide
<1>8. AuthorityInv'
  <2>1. /\ Changing' = Changing \ {a} /\ a \in Changing
        /\ \A b \in Changing \ {a} : op'[b].to = op[b].to
    BY <1>1, <1>3 DEF Changing, Alone, Procs
  <2>2. Last' = Last BY <1>1 DEF Last
  <2>3. ~tangled' => Changing' = {} /\ account' = Last'
    BY <1>1, <2>1, <2>2 DEF AuthorityInv
  <2>4. NeverUnrecorded' BY <1>1, <2>1 DEF AuthorityInv, NeverUnrecorded
  <2>5. \A b \in Changing' :
           \E i \in DOMAIN permissionChanges' : permissionChanges'[i] = op'[b].to
    BY <1>1, <2>1 DEF AuthorityInv
  <2> QED BY <2>3, <2>4, <2>5 DEF AuthorityInv
<1> QED BY <1>4, <1>5, <1>6, <1>7, <1>8

\* The device is wiped or deprovisioned before its command is queued.
LEMMA KeepsMarkDevice ==
    ASSUME IInv, NEW a \in Admins, MarkDevice(a)
    PROVE  IInv'
<1> USE DEF IInv
<1>1. /\ pc[a] = "device" /\ device' \in {"deprovisioned", "wiped"}
      /\ effects' = effects \cup {<<op[a].id, "device">>} /\ Advance(a) /\ a \in Procs
      /\ UNCHANGED <<queue, authority, inbox, unused>>
  BY DEF MarkDevice, Procs
<1>2. Admitted(a) BY DEF AdminInv
<1>3. Alone(a) /\ pc'[a] = "insert" BY <1>1, <1>2, Advancing DEF Following
<1>4. Inv0' BY <1>1, <1>3 DEF Inv0, Alone, authority
<1>5. QueueInv' BY <1>1, <1>3, QuietQueue
<1>6. AdminInv'
  <2>1. EffectsComeFirst' BY <1>1 DEF AdminInv, EffectsComeFirst, queue
  <2> QED BY <1>1, <2>1, AdminAdvances DEF queue
<1>7. DeviceInv' BY <1>1, <1>3, QuietDevice DEF queue
<1>8. AuthorityInv' BY <1>1, <1>3, QuietAuthority
<1> QED BY <1>4, <1>5, <1>6, <1>7, <1>8

\* A command is queued, its effects done.
LEMMA KeepsInsertCommand ==
    ASSUME IInv, NEW a \in Admins, InsertCommand(a)
    PROVE  IInv'
<1> USE DEF IInv
<1> DEFINE id == op[a].id
           type == op[a].type
<1>1. /\ pc[a] = "insert" /\ SetCommand(id, type, "pending") /\ Advance(a) /\ a \in Procs
      /\ UNCHANGED <<audited, unwritten, authority, deviceSide, unused, effects>>
  BY DEF InsertCommand, Procs
<1>2. Admitted(a) BY DEF AdminInv
<1>3. Alone(a) /\ pc'[a] = "audit" /\ op'[a].id = id
  BY <1>1, <1>2, Advancing DEF Following
<1>4. type \in Types BY <1>1, <1>2, CallsByType
<1>5. id \in Ids \ unused /\ id \notin DOMAIN commands
  BY <1>1, <1>2, <1>4 DEF Admitted, Types
<1>6. /\ DOMAIN commands' = DOMAIN commands \cup {id}
      /\ commands'[id] = [type |-> type, status |-> "pending"]
      /\ \A c \in DOMAIN commands : commands'[c] = commands[c]
      /\ reached' = reached \cup {<<id, "pending">>}
  BY <1>1, <1>5 DEF SetCommand
<1>7. Inv0' BY <1>1, <1>3 DEF Inv0, Alone, authority, deviceSide
<1>8. QueueInv'
  <2>1. \A s : <<id, s>> \notin reached BY <1>5 DEF QueueInv
  <2>2. TransitionsInv'
    <3>1. InFlight(a) = {} /\ InFlight(a)' = {<<id, "pending">>}
      BY <1>1, <1>3 DEF InFlight
    <3> QED BY <1>1, <1>3, <1>6, <2>1, <3>1, Transition DEF QueueInv
  <2>3. \A c \in DOMAIN commands' :
          /\ commands'[c].type \in Types /\ commands'[c].status \in Statuses
          /\ <<c, "sent">> \in reached' => commands'[c].status # "pending"
          /\ \A s \in Final : <<c, s>> \in reached' => commands'[c].status = s
    <3> TAKE c \in DOMAIN commands'
    <3>1. CASE c = id
      <4>1. \A s : <<c, s>> \in reached' => s = "pending" BY <1>6, <2>1, <3>1
      <4>2. commands'[c].type = type /\ commands'[c].status = "pending" BY <1>6, <3>1
      <4> QED BY <1>4, <4>1, <4>2 DEF Final, Statuses
    <3>2. CASE c # id
      <4>1. c \in DOMAIN commands /\ commands'[c] = commands[c] BY <1>6, <3>2
      <4>2. \A s : <<c, s>> \in reached' => <<c, s>> \in reached BY <1>6, <3>2
      <4> QED BY <4>1, <4>2 DEF QueueInv
    <3> QED BY <3>1, <3>2
  <2>4. reached' \subseteq (DOMAIN commands') \X Statuses /\ DOMAIN commands' \subseteq Ids \ unused'
    BY <1>1, <1>5, <1>6 DEF QueueInv, Statuses
  <2> QED BY <2>2, <2>3, <2>4 DEF QueueInv
<1>9. AdminInv'
  <2>1. EffectsComeFirst'
    <3>1. commands'[id].type = type BY <1>6
    <3>2. /\ type \in {"deprovision", "disable_account"} => <<id, "status">> \in effects'
          /\ type \in {"deprovision", "wipe_claude_creds"} => <<id, "device">> \in effects'
      BY <1>1, <1>2 DEF Admitted
    <3>3. \A c \in DOMAIN commands :
             LET t == commands'[c].type
             IN  /\ t \in {"deprovision", "disable_account"} => <<c, "status">> \in effects'
                 /\ t \in {"deprovision", "wipe_claude_creds"} => <<c, "device">> \in effects'
      BY <1>1, <1>6 DEF AdminInv, EffectsComeFirst
    <3> QED BY <1>6, <3>1, <3>2, <3>3 DEF EffectsComeFirst
  <2> QED BY <1>1, <1>6, <2>1, AdminAdvances
<1>10. DeviceInv' BY <1>1, <1>3, <1>6, QuietDevice DEF deviceSide
<1>11. AuthorityInv' BY <1>1, <1>3, QuietAuthority
<1> QED BY <1>7, <1>8, <1>9, <1>10, <1>11

\* The enqueueing is recorded.
LEMMA KeepsAuditEnqueue ==
    ASSUME IInv, NEW a \in Admins, AuditEnqueue(a)
    PROVE  IInv'
<1> USE DEF IInv
<1>1. /\ pc[a] = "audit" /\ audited' = audited \cup {<<op[a].id, "pending">>}
      /\ Advance(a) /\ a \in Procs
      /\ UNCHANGED <<commands, reached, unwritten, authority, deviceSide, unused, effects>>
  BY DEF AuditEnqueue, Write, Procs
<1>2. Admitted(a) BY DEF AdminInv
<1>3. Alone(a) /\ pc'[a] = "idle" BY <1>1, <1>2, Advancing DEF Following
<1>4. Inv0' BY <1>1, <1>3 DEF Inv0, Alone, authority, deviceSide
<1>5. QueueInv'
  <2>1. InFlight(a) = {<<op[a].id, "pending">>} /\ InFlight(a)' = {}
    BY <1>1, <1>3 DEF InFlight
  <2>2. TransitionsInv' BY <1>1, <1>3, <2>1, Recording DEF QueueInv
  <2> QED BY <1>1, <2>2 DEF QueueInv
<1>6. AdminInv'
  <2>1. EffectsComeFirst' BY <1>1 DEF AdminInv, EffectsComeFirst
  <2> QED BY <1>1, <2>1, AdminAdvances
<1>7. DeviceInv' BY <1>1, <1>3, QuietDevice DEF deviceSide
<1>8. AuthorityInv' BY <1>1, <1>3, QuietAuthority
<1> QED BY <1>4, <1>5, <1>6, <1>7, <1>8

\* The device's handlers that p leaves alone.
LEMMA QuietHandlers ==
    ASSUME DeviceInv, NEW p \in Procs, Alone(p), DOMAIN commands' = DOMAIN commands,
           inbox' \subseteq DOMAIN commands,
           p \in Pollers =>
              /\ pc'[p] \in {"idle", "poll", "auditSent"}
              /\ op'[p].listed \cup op'[p].out \subseteq DOMAIN commands
              /\ \A w \in op'[p].waiting : w[1] \in DOMAIN commands
              /\ pc'[p] = "auditSent" => op'[p].id \in DOMAIN commands
              /\ \A id \in op'[p].listed :
                    id \in op'[p].out \/ \E w \in op'[p].waiting : w[1] = id,
           p \in Ackers =>
              /\ pc'[p] \in {"idle", "ack", "auditAck"}
              /\ op'[p].listed = {} /\ op'[p].out = {}
              /\ pc'[p] # "idle" => op'[p].id \in DOMAIN commands /\ op'[p].to \in Final
    PROVE  DeviceInv'
<1>1. \A q \in Procs \ {p} : pc'[q] = pc[q] /\ op'[q] = op[q] BY DEF Alone
<1>2. Pollers \subseteq Procs /\ Ackers \subseteq Procs BY DEF Procs
<1> QED BY <1>1, <1>2 DEF DeviceInv

\* A handler dies, and with it the event it had not written.
LEMMA KeepsDie ==
    ASSUME IInv, NEW p \in Procs, Die(p)
    PROVE  IInv'
<1> USE DEF IInv
<1>1. /\ unwritten' = unwritten \cup InFlight(p)
      /\ tangled' = (tangled \/ pc[p] = "status") /\ Return(p)
      /\ UNCHANGED <<commands, reached, audited, account, permissionChanges,
                     deviceSide, unused, effects>>
  BY DEF Die
<1>2. Alone(p) /\ pc'[p] = "idle" /\ op'[p] = Idle BY <1>1, Returning
<1>3. Inv0' BY <1>1, <1>2 DEF Inv0, Alone, deviceSide
<1>4. QueueInv'
  <2>1. InFlight(p)' = {} BY <1>2 DEF InFlight
  <2>2. TransitionsInv' BY <1>1, <1>2, <2>1, GivingUp DEF QueueInv
  <2> QED BY <1>1, <2>2 DEF QueueInv
<1>5. AdminInv'
  <2>1. \A a \in Admins \ {p} : pc'[a] = pc[a] /\ op'[a] = op[a]
    BY <1>2 DEF Alone, Procs
  <2>2. \A a \in Admins : Admitted(a)'
    <3> TAKE a \in Admins
    <3>1. CASE a = p BY <1>2, <3>1 DEF Admitted, AdminSteps
    <3>2. CASE a # p BY <1>1, <2>1, <3>2, QuietAdmin DEF AdminInv
    <3> QED BY <3>1, <3>2
  <2>3. EffectsComeFirst' BY <1>1 DEF AdminInv, EffectsComeFirst
  <2> QED BY <1>2, <2>1, <2>2, <2>3 DEF AdminInv, Enqueues
<1>6. DeviceInv'
  BY <1>1, <1>2, QuietHandlers DEF deviceSide, DeviceInv, Idle
<1>7. AuthorityInv'
  <2>1. /\ Changing' = Changing \ {p} /\ \A a \in Changing' : op'[a] = op[a]
        /\ p \in Changing => tangled'
    BY <1>1, <1>2 DEF Changing, Alone, Procs
  <2>2. Last' = Last /\ account' = account /\ permissionChanges' = permissionChanges
    BY <1>1 DEF Last
  <2>3. ~tangled' => Changing' = Changing /\ ~tangled BY <1>1, <2>1
  <2> QED BY <2>1, <2>2, <2>3 DEF AuthorityInv, NeverUnrecorded
<1> QED BY <1>3, <1>4, <1>5, <1>6, <1>7

\* A command the queue knows takes a later status: what becomes of the rest.
LEMMA Advanced ==
    ASSUME QueueInv, NEW id \in DOMAIN commands, NEW s \in {"sent"} \cup Final,
           commands[id].status \notin Final, s = "sent" => commands[id].status = "pending",
           SetCommand(id, commands[id].type, s), unused' = unused
    PROVE  /\ DOMAIN commands' = DOMAIN commands
           /\ \A c \in DOMAIN commands : commands'[c].type = commands[c].type
           /\ <<id, s>> \notin reached /\ reached' = reached \cup {<<id, s>>}
           /\ TransitionsInv' => QueueInv'
<1>1. /\ DOMAIN commands' = DOMAIN commands
      /\ commands'[id] = [type |-> commands[id].type, status |-> s]
      /\ \A c \in DOMAIN commands \ {id} : commands'[c] = commands[c]
      /\ reached' = reached \cup {<<id, s>>}
  BY DEF SetCommand
<1>2. s \in Statuses /\ s # "pending" BY DEF Statuses, Final
<1>3. <<id, s>> \notin reached BY DEF QueueInv, Final
<1>4. \A c \in DOMAIN commands' :
         /\ commands'[c].type \in Types /\ commands'[c].status \in Statuses
         /\ <<c, "sent">> \in reached' => commands'[c].status # "pending"
         /\ \A t \in Final : <<c, t>> \in reached' => commands'[c].status = t
  <2> TAKE c \in DOMAIN commands'
  <2>1. CASE c = id
    <3>1. commands'[c].status = s /\ commands'[c].type = commands[id].type BY <1>1, <2>1
    <3>2. \A t \in Final : <<c, t>> \in reached' => t = s
      BY <1>1, <2>1 DEF QueueInv
    <3> QED BY <1>2, <3>1, <3>2 DEF QueueInv
  <2>2. CASE c # id
    <3>1. c \in DOMAIN commands /\ commands'[c] = commands[c] BY <1>1, <2>2
    <3>2. \A t : <<c, t>> \in reached' => <<c, t>> \in reached BY <1>1, <2>2
    <3> QED BY <3>1, <3>2 DEF QueueInv
  <2> QED BY <2>1, <2>2
<1>5. reached' \subseteq (DOMAIN commands') \X Statuses BY <1>1, <1>2 DEF QueueInv
<1> QED
  BY <1>1, <1>3, <1>4, <1>5 DEF QueueInv

\* A step of the device's side that leaves the queue as it is and has nothing
\* to record.
LEMMA QuietStep ==
    ASSUME IInv, NEW p \in Pollers \cup Ackers, Alone(p),
           pc[p] \notin {"auditSent", "auditAck"}, pc'[p] \notin {"audit", "auditSent", "auditAck"},
           UNCHANGED <<queue, authority, device, unused, effects>>
    PROVE  Inv0' /\ QueueInv' /\ AdminInv' /\ AuthorityInv'
<1> USE DEF IInv
<1>1. p \in Procs /\ p \notin Admins BY DEF Procs
<1>2. pc[p] # "audit" BY DEF DeviceInv
<1>3. Inv0' BY DEF Inv0, Alone, authority
<1>4. QueueInv' BY <1>1, <1>2, QuietQueue
<1>5. AdminInv' BY QuietAdmins DEF queue
<1>6. AuthorityInv' BY <1>1, QuietAuthority
<1> QED BY <1>3, <1>4, <1>5, <1>6

\* What delivering a command does to a poll.
LEMMA Delivered ==
    ASSUME IInv, NEW p \in Pollers, NEW id \in DOMAIN commands
    PROVE  /\ Delivering(p, id) \in Locals
           /\ [Delivering(p, id) EXCEPT !.id = NoId] \in Locals
           /\ Delivering(p, id).listed = op[p].listed
           /\ Delivering(p, id).out = op[p].out \cup {id}
           /\ Delivering(p, id).waiting = {w \in op[p].waiting : w[1] # id}
           /\ LET l == [Delivering(p, id) EXCEPT !.id = NoId]
              IN  /\ l.listed = op[p].listed /\ l.out = op[p].out \cup {id}
                  /\ l.waiting = {w \in op[p].waiting : w[1] # id}
<1>1. op[p] \in Locals BY DEF IInv, Inv0, Procs
<1>2. id \in Ids BY DEF IInv, QueueInv
<1>3. {w \in op[p].waiting : w[1] # id} \in SUBSET (Ids \X Statuses) BY <1>1 DEF Locals
<1>4. op[p].out \cup {id} \in SUBSET Ids BY <1>1, <1>2 DEF Locals
<1> QED BY <1>1, <1>3, <1>4 DEF Delivering, Locals

\* A poll whose command is delivered keeps its promises.
LEMMA KeepsPoll ==
    ASSUME IInv, NEW p \in Pollers, NEW id \in DOMAIN commands, NEW l, Alone(p),
           pc'[p] = "poll", op'[p] = l, l.listed = op[p].listed,
           l.out = op[p].out \cup {id}, l.waiting = {w \in op[p].waiting : w[1] # id},
           DOMAIN commands' = DOMAIN commands, inbox' = inbox
    PROVE  DeviceInv'
<1>1. DeviceInv /\ p \in Procs /\ p \notin Ackers BY DEF IInv, Procs
<1>2. \A i \in l.listed : i \in l.out \/ \E w \in l.waiting : w[1] = i
  BY <1>1 DEF DeviceInv
<1>3. l.listed \cup l.out \subseteq DOMAIN commands /\ \A w \in l.waiting : w[1] \in DOMAIN commands
  BY <1>1 DEF DeviceInv
<1> QED BY <1>1, <1>2, <1>3, QuietHandlers DEF DeviceInv

\* A poll has found the commands without an answer.
LEMMA KeepsBeginPoll ==
    ASSUME IInv, NEW p \in Pollers, BeginPoll(p)
    PROVE  IInv'
<1> USE DEF IInv
<1> DEFINE active == {id \in DOMAIN commands : commands[id].status \notin Final}
           l == [Idle EXCEPT !.waiting = {<<id, commands[id].status>> : id \in active},
                             !.listed = active]
<1>1. /\ pc[p] = "idle" /\ Goto(p, "poll", l) /\ p \in Procs
      /\ UNCHANGED <<queue, authority, deviceSide, unused, effects>>
  BY DEF BeginPoll, Procs
<1>2. active \subseteq DOMAIN commands /\ active \subseteq Ids
  BY DEF QueueInv
<1>3. l.waiting = {<<id, commands[id].status>> : id \in active} /\ l.listed = active /\ l.out = {}
  BY DEF Idle
<1>4. l \in Locals
  <2>1. {<<id, commands[id].status>> : id \in active} \in SUBSET (Ids \X Statuses)
    BY <1>2 DEF QueueInv
  <2> QED BY <1>2, <2>1, IdleOk DEF Idle, Locals
<1>5. Alone(p) /\ pc'[p] = "poll" /\ op'[p] = l
  BY <1>1, <1>4, Going DEF Steps
<1>6. Inv0' /\ QueueInv' /\ AdminInv' /\ AuthorityInv'
  BY <1>1, <1>5, QuietStep DEF deviceSide
<1>7. DeviceInv'
  <2>1. \A w \in l.waiting : w[1] \in active BY <1>3
  <2>2. \A id \in active : <<id, commands[id].status>> \in l.waiting BY <1>3
  <2>3. \A id \in active : \E w \in l.waiting : w[1] = id
    <3> TAKE id \in active
    <3> QED BY <2>2
  <2>4. DOMAIN commands' = DOMAIN commands /\ inbox' \subseteq DOMAIN commands /\ p \notin Ackers
    BY <1>1 DEF queue, deviceSide, DeviceInv
  <2> HIDE DEF l, active
  <2>5. /\ op'[p].listed \cup op'[p].out \subseteq DOMAIN commands
        /\ \A w \in op'[p].waiting : w[1] \in DOMAIN commands
        /\ \A id \in op'[p].listed : \E w \in op'[p].waiting : w[1] = id
    BY <1>2, <1>3, <1>5, <2>1, <2>3
  <2> QED BY <1>1, <1>5, <2>4, <2>5, QuietHandlers
<1> QED BY <1>6, <1>7

\* A command that was sent before is delivered again.
LEMMA KeepsRedeliver ==
    ASSUME IInv, NEW p \in Pollers, Redeliver(p)
    PROVE  IInv'
<1> USE DEF IInv
<1>1. PICK w \in op[p].waiting : Goto(p, "poll", Delivering(p, w[1]))
  BY DEF Redeliver
<1>2. /\ pc[p] = "poll" /\ p \in Procs /\ w[1] \in DOMAIN commands
      /\ UNCHANGED <<queue, authority, deviceSide, unused, effects>>
  BY DEF Redeliver, Procs, DeviceInv
<1>3. Alone(p) /\ pc'[p] = "poll" /\ op'[p] = Delivering(p, w[1])
  BY <1>1, <1>2, Delivered, Going DEF Steps
<1>4. Inv0' /\ QueueInv' /\ AdminInv' /\ AuthorityInv'
  BY <1>2, <1>3, QuietStep DEF deviceSide
<1>5. DeviceInv'
  <2> DEFINE id == w[1]
             l == Delivering(p, id)
  <2>1. /\ l.listed = op[p].listed /\ l.out = op[p].out \cup {id}
        /\ l.waiting = {v \in op[p].waiting : v[1] # id} /\ id \in DOMAIN commands
    BY <1>2, Delivered
  <2>2. op'[p] = l BY <1>3
  <2>3. DOMAIN commands' = DOMAIN commands /\ inbox' = inbox BY <1>2 DEF queue, deviceSide
  <2> HIDE DEF l, id
  <2> QED BY <1>3, <2>1, <2>2, <2>3, KeepsPoll
<1> QED BY <1>4, <1>5

\* One poll marks a command as sent; all that found it deliver it.
LEMMA KeepsSend ==
    ASSUME IInv, NEW p \in Pollers, Send(p)
    PROVE  IInv'
<1> USE DEF IInv
<1>1. PICK w \in op[p].waiting :
         IF commands[w[1]].status = "pending"
         THEN /\ SetCommand(w[1], commands[w[1]].type, "sent")
              /\ Goto(p, "auditSent", [op[p] EXCEPT !.id = w[1]])
         ELSE /\ Goto(p, "poll", Delivering(p, w[1]))
              /\ UNCHANGED <<commands, reached>>
  BY DEF Send
<1> DEFINE id == w[1]
<1>2. /\ pc[p] = "poll" /\ p \in Procs /\ p \notin Admins /\ p \notin Ackers /\ id \in DOMAIN commands
      /\ UNCHANGED <<audited, unwritten, authority, deviceSide, unused, effects>>
  BY DEF Send, Procs, DeviceInv
<1>3. CASE commands[id].status = "pending"
  <2> DEFINE l == [op[p] EXCEPT !.id = id]
  <2>1. /\ l \in Locals /\ l.id = id /\ l.listed = op[p].listed /\ l.out = op[p].out
        /\ l.waiting = op[p].waiting
    <3>1. id \in Ids /\ op[p] \in Locals BY <1>2 DEF QueueInv, Inv0
    <3> QED BY <3>1 DEF Locals
  <2>2. Alone(p) /\ pc'[p] = "auditSent" /\ op'[p] = l
    BY <1>1, <1>2, <1>3, <2>1, Going DEF Steps
  <2>3. /\ SetCommand(id, commands[id].type, "sent") /\ commands[id].status \notin Final
    BY <1>1, <1>3 DEF Final
  <2>4. /\ DOMAIN commands' = DOMAIN commands
        /\ \A c \in DOMAIN commands : commands'[c].type = commands[c].type
        /\ <<id, "sent">> \notin reached /\ reached' = reached \cup {<<id, "sent">>}
        /\ TransitionsInv' => QueueInv'
    BY <1>2, <1>3, <2>3, Advanced
  <2>5. Inv0' BY <1>2, <2>2 DEF Inv0, Alone, authority, deviceSide
  <2>6. QueueInv'
    <3>1. InFlight(p) = {} /\ InFlight(p)' = {<<id, "sent">>}
      BY <1>2, <2>1, <2>2 DEF InFlight
    <3>2. TransitionsInv' BY <1>2, <2>2, <2>4, <3>1, Transition DEF QueueInv
    <3> QED BY <2>4, <3>2
  <2>7. AdminInv' BY <1>2, <2>2, <2>4, QuietAdmins
  <2>8. DeviceInv'
    <3>1. inbox' \subseteq DOMAIN commands BY <1>2 DEF deviceSide, DeviceInv
    <3> HIDE DEF l, id
    <3> QED BY <1>2, <2>1, <2>2, <2>4, <3>1, QuietHandlers DEF DeviceInv
  <2>9. AuthorityInv' BY <1>2, <2>2, QuietAuthority
  <2> QED BY <2>5, <2>6, <2>7, <2>8, <2>9
<1>4. CASE commands[id].status # "pending"
  <2> DEFINE l == Delivering(p, id)
  <2>1. /\ l \in Locals /\ l.listed = op[p].listed /\ l.out = op[p].out \cup {id}
        /\ l.waiting = {v \in op[p].waiting : v[1] # id}
    BY <1>2, Delivered
  <2>2. /\ Alone(p) /\ pc'[p] = "poll" /\ op'[p] = l /\ UNCHANGED <<commands, reached>>
    BY <1>1, <1>2, <1>4, <2>1, Going DEF Steps
  <2>3. Inv0' /\ QueueInv' /\ AdminInv' /\ AuthorityInv'
    BY <1>2, <2>2, QuietStep DEF queue, deviceSide
  <2>4. DOMAIN commands' = DOMAIN commands /\ inbox' = inbox BY <1>2, <2>2 DEF deviceSide
  <2>5. DeviceInv'
    <3> HIDE DEF l, id
    <3> QED BY <1>2, <2>1, <2>2, <2>4, KeepsPoll
  <2> QED BY <2>3, <2>5
<1> QED BY <1>3, <1>4

\* The delivery is recorded by the poll that marked it.
LEMMA KeepsAuditSent ==
    ASSUME IInv, NEW p \in Pollers, AuditSent(p)
    PROVE  IInv'
<1> USE DEF IInv
<1> DEFINE id == op[p].id
           l == [Delivering(p, id) EXCEPT !.id = NoId]
<1>1. /\ pc[p] = "auditSent" /\ audited' = audited \cup {<<id, "sent">>} /\ Goto(p, "poll", l)
      /\ p \in Procs /\ p \notin Admins /\ id \in DOMAIN commands
      /\ UNCHANGED <<commands, reached, unwritten, authority, deviceSide, unused, effects>>
  BY DEF AuditSent, Write, Procs, DeviceInv
<1>2. /\ l \in Locals /\ l.listed = op[p].listed /\ l.out = op[p].out \cup {id}
      /\ l.waiting = {w \in op[p].waiting : w[1] # id}
  BY <1>1, Delivered
<1>3. Alone(p) /\ pc'[p] = "poll" /\ op'[p] = l BY <1>1, <1>2, Going DEF Steps
<1>4. Inv0' BY <1>1, <1>3 DEF Inv0, Alone, authority, deviceSide
<1>5. QueueInv'
  <2>1. InFlight(p) = {<<id, "sent">>} /\ InFlight(p)' = {} BY <1>1, <1>3 DEF InFlight
  <2>2. TransitionsInv' BY <1>1, <1>3, <2>1, Recording DEF QueueInv
  <2> QED BY <1>1, <2>2 DEF QueueInv
<1>6. AdminInv' BY <1>1, <1>3, QuietAdmins
<1>7. DeviceInv'
  <2>1. DOMAIN commands' = DOMAIN commands /\ inbox' = inbox BY <1>1 DEF deviceSide
  <2> HIDE DEF l, id
  <2> QED BY <1>1, <1>2, <1>3, <2>1, KeepsPoll
<1>8. AuthorityInv' BY <1>1, <1>3, QuietAuthority
<1> QED BY <1>4, <1>5, <1>6, <1>7, <1>8

\* The device has what the poll found.
LEMMA KeepsReply ==
    ASSUME IInv, NEW p \in Pollers, Reply(p)
    PROVE  IInv'
<1> USE DEF IInv
<1>1. /\ pc[p] = "poll" /\ inbox' = inbox \cup op[p].out /\ Return(p)
      /\ p \in Procs /\ p \notin Ackers
      /\ UNCHANGED <<queue, authority, device, unused, effects>>
  BY DEF Reply, Procs
<1>2. Alone(p) /\ pc'[p] = "idle" /\ op'[p] = Idle BY <1>1, Returning
<1>3. Inv0' /\ QueueInv' /\ AdminInv' /\ AuthorityInv' BY <1>1, <1>2, QuietStep
<1>4. DeviceInv'
  <2>1. inbox' \subseteq DOMAIN commands /\ DOMAIN commands' = DOMAIN commands
    BY <1>1 DEF DeviceInv, queue
  <2>2. op'[p].listed = {} /\ op'[p].out = {} /\ op'[p].waiting = {}
    BY <1>2 DEF Idle
  <2> QED BY <1>1, <1>2, <2>1, <2>2, QuietHandlers
<1> QED BY <1>3, <1>4

\* The device answers a command it was sent.
LEMMA KeepsBeginAck ==
    ASSUME IInv, NEW k \in Ackers, BeginAck(k)
    PROVE  IInv'
<1> USE DEF IInv
<1>1. PICK id \in inbox, to \in Final : Goto(k, "ack", [Idle EXCEPT !.id = id, !.to = to])
  BY DEF BeginAck
<1> DEFINE l == [Idle EXCEPT !.id = id, !.to = to]
<1>2. /\ pc[k] = "idle" /\ k \in Procs /\ k \notin Pollers /\ id \in DOMAIN commands
      /\ UNCHANGED <<queue, authority, deviceSide, unused, effects>>
  BY DEF BeginAck, Procs, DeviceInv
<1>3. l \in Locals /\ l.id = id /\ l.to = to /\ l.listed = {} /\ l.out = {}
  <2>1. id \in Ids BY <1>2 DEF QueueInv
  <2> QED BY <2>1, IdleOk DEF Locals, Idle
<1>4. Alone(k) /\ pc'[k] = "ack" /\ op'[k] = l BY <1>1, <1>2, <1>3, Going DEF Steps
<1>5. Inv0' /\ QueueInv' /\ AdminInv' /\ AuthorityInv'
  BY <1>2, <1>4, QuietStep DEF deviceSide
<1>6. DeviceInv'
  <2>1. inbox' \subseteq DOMAIN commands /\ DOMAIN commands' = DOMAIN commands
    BY <1>2 DEF DeviceInv, queue, deviceSide
  <2> HIDE DEF l
  <2> QED BY <1>2, <1>3, <1>4, <2>1, QuietHandlers
<1> QED BY <1>5, <1>6

\* Of several answers the first is the answer.
LEMMA KeepsAck ==
    ASSUME IInv, NEW k \in Ackers, Ack(k)
    PROVE  IInv'
<1> USE DEF IInv
<1> DEFINE id == op[k].id
           to == op[k].to
<1>1. /\ pc[k] = "ack" /\ k \in Procs /\ k \notin Pollers /\ k \notin Admins
      /\ id \in DOMAIN commands /\ to \in Final /\ op[k].listed = {} /\ op[k].out = {}
      /\ UNCHANGED <<audited, unwritten, authority, device, unused, effects>>
  BY DEF Ack, Procs, DeviceInv
<1>2. CASE commands[id].status \notin Final
  <2>1. /\ SetCommand(id, commands[id].type, to) /\ Goto(k, "auditAck", op[k])
        /\ UNCHANGED inbox
    BY <1>2 DEF Ack
  <2>2. op[k] \in Locals BY <1>1 DEF Inv0
  <2>3. Alone(k) /\ pc'[k] = "auditAck" /\ op'[k] = op[k]
    BY <1>1, <2>1, <2>2, Going DEF Steps
  <2>4. /\ DOMAIN commands' = DOMAIN commands
        /\ \A c \in DOMAIN commands : commands'[c].type = commands[c].type
        /\ <<id, to>> \notin reached /\ reached' = reached \cup {<<id, to>>}
        /\ TransitionsInv' => QueueInv'
    <3>1. to \in {"sent"} \cup Final /\ to # "sent" BY <1>1 DEF Final
    <3> QED BY <1>1, <1>2, <2>1, <3>1, Advanced
  <2>5. Inv0' BY <1>1, <2>3 DEF Inv0, Alone, authority
  <2>6. QueueInv'
    <3>1. InFlight(k) = {} /\ InFlight(k)' = {<<id, to>>} BY <1>1, <2>3 DEF InFlight
    <3>2. TransitionsInv' BY <1>1, <2>3, <2>4, <3>1, Transition DEF QueueInv
    <3> QED BY <2>4, <3>2
  <2>7. AdminInv' BY <1>1, <2>3, <2>4, QuietAdmins
  <2>8. DeviceInv'
    <3>1. inbox' \subseteq DOMAIN commands BY <2>1 DEF DeviceInv
    <3> QED BY <1>1, <2>3, <2>4, <3>1, QuietHandlers
  <2>9. AuthorityInv' BY <1>1, <2>3, QuietAuthority
  <2> QED BY <2>5, <2>6, <2>7, <2>8, <2>9
<1>3. CASE commands[id].status \in Final
  <2>1. Return(k) /\ inbox' = inbox \ {id} /\ UNCHANGED <<commands, reached>>
    BY <1>3 DEF Ack
  <2>2. Alone(k) /\ pc'[k] = "idle" /\ op'[k] = Idle BY <1>1, <2>1, Returning
  <2>3. Inv0' /\ QueueInv' /\ AdminInv' /\ AuthorityInv'
    BY <1>1, <2>1, <2>2, QuietStep DEF queue
  <2>4. DeviceInv'
    <3>1. inbox' \subseteq DOMAIN commands /\ DOMAIN commands' = DOMAIN commands
      BY <2>1 DEF DeviceInv
    <3>2. op'[k].listed = {} /\ op'[k].out = {} BY <2>2 DEF Idle
    <3> QED BY <1>1, <2>2, <3>1, <3>2, QuietHandlers
  <2> QED BY <2>3, <2>4
<1> QED BY <1>2, <1>3

\* The answer is recorded by the acknowledgement that won.
LEMMA KeepsAuditAck ==
    ASSUME IInv, NEW k \in Ackers, AuditAck(k)
    PROVE  IInv'
<1> USE DEF IInv
<1> DEFINE id == op[k].id
           to == op[k].to
<1>1. /\ pc[k] = "auditAck" /\ audited' = audited \cup {<<id, to>>} /\ Return(k)
      /\ inbox' = inbox \ {id} /\ k \in Procs /\ k \notin Pollers
      /\ UNCHANGED <<commands, reached, unwritten, authority, device, unused, effects>>
  BY DEF AuditAck, Write, Procs
<1>2. Alone(k) /\ pc'[k] = "idle" /\ op'[k] = Idle BY <1>1, Returning
<1>3. Inv0' BY <1>1, <1>2 DEF Inv0, Alone, authority
<1>4. QueueInv'
  <2>1. InFlight(k) = {<<id, to>>} /\ InFlight(k)' = {} BY <1>1, <1>2 DEF InFlight
  <2>2. TransitionsInv' BY <1>1, <1>2, <2>1, Recording DEF QueueInv
  <2> QED BY <1>1, <2>2 DEF QueueInv
<1>5. AdminInv' BY <1>1, <1>2, QuietAdmins
<1>6. DeviceInv'
  <2>1. inbox' \subseteq DOMAIN commands /\ DOMAIN commands' = DOMAIN commands
    BY <1>1 DEF DeviceInv
  <2>2. op'[k].listed = {} /\ op'[k].out = {} BY <1>2 DEF Idle
  <2> QED BY <1>1, <1>2, <2>1, <2>2, QuietHandlers
<1>7. AuthorityInv'
  <2>1. k \notin Admins BY DEF Procs
  <2> QED BY <1>1, <1>2, <2>1, QuietAuthority
<1> QED BY <1>3, <1>4, <1>5, <1>6, <1>7

\* Every step keeps the invariant.
LEMMA NextInv == IInv /\ [Next]_vars => IInv'
<1> SUFFICES ASSUME IInv, [Next]_vars PROVE IInv' OBVIOUS
<1>1. CASE UNCHANGED vars
  <2>1. \A p : InFlight(p)' = InFlight(p) BY <1>1 DEF vars, InFlight
  <2>2. TransitionsInv' = TransitionsInv BY <1>1, <2>1 DEF vars, TransitionsInv
  <2>3. Inv0' BY <1>1 DEF IInv, Inv0, vars
  <2>4. QueueInv' BY <1>1, <2>2 DEF IInv, QueueInv, vars
  <2>5. AdminInv'
    BY <1>1 DEF IInv, AdminInv, Admitted, Enqueues, EffectsComeFirst, vars
  <2>6. DeviceInv' BY <1>1 DEF IInv, DeviceInv, vars
  <2>7. AuthorityInv'
    <3>1. Changing' = Changing /\ Last' = Last BY <1>1 DEF vars, Changing, Last
    <3> QED BY <1>1, <3>1 DEF IInv, AuthorityInv, NeverUnrecorded, vars
  <2> QED BY <2>3, <2>4, <2>5, <2>6, <2>7 DEF IInv
<1>2. ASSUME NEW a \in Admins,
             \/ BeginEnqueue(a) \/ BeginSetStatus(a) \/ RecordChange(a) \/ ApplyChange(a)
             \/ MarkDevice(a) \/ InsertCommand(a) \/ AuditEnqueue(a)
      PROVE  IInv'
  BY <1>2, KeepsBegin, KeepsRecordChange, KeepsApplyChange, KeepsMarkDevice,
     KeepsInsertCommand, KeepsAuditEnqueue
<1>3. ASSUME NEW p \in Pollers,
             BeginPoll(p) \/ Redeliver(p) \/ Send(p) \/ AuditSent(p) \/ Reply(p)
      PROVE  IInv'
  BY <1>3, KeepsBeginPoll, KeepsRedeliver, KeepsSend, KeepsAuditSent, KeepsReply
<1>4. ASSUME NEW k \in Ackers, BeginAck(k) \/ Ack(k) \/ AuditAck(k)
      PROVE  IInv'
  BY <1>4, KeepsBeginAck, KeepsAck, KeepsAuditAck
<1>5. ASSUME NEW p \in Procs, Die(p)
      PROVE  IInv'
  BY <1>5, KeepsDie
<1> QED BY <1>1, <1>2, <1>3, <1>4, <1>5 DEF Next

\* The invariant holds in every state.
LEMMA Invariant == Spec => []IInv
BY InitInv, NextInv, PTL DEF Spec

----------------------------------------------------------------------------
(* What follows. *)

\* The queue, the ledger and the locals of every handler stay what the code
\* takes them to be (lib/commands.js).
THEOREM CommandsTyped == Spec => []TypeOK
<1>1. IInv => TypeOK
  <2> SUFFICES ASSUME IInv PROVE TypeOK OBVIOUS
  <2> USE DEF IInv
  <2>1. audited \subseteq (DOMAIN commands) \X Statuses
    BY DEF QueueInv, TransitionsInv
  <2>2. \A p \in Pollers \cup Ackers :
           /\ op[p].listed \cup op[p].out \subseteq DOMAIN commands
           /\ pc[p] # "poll" /\ pc[p] # "idle" => op[p].id \in DOMAIN commands
    BY DEF DeviceInv
  <2>3. inbox \subseteq DOMAIN commands BY DEF DeviceInv
  <2>4. /\ DOMAIN commands \subseteq Ids \ unused
        /\ \A id \in DOMAIN commands : /\ commands[id].type \in Types
                                       /\ commands[id].status \in Statuses
    BY DEF QueueInv
  <2>5. /\ account \in AccountStatuses /\ device \in {"active", "wiped", "deprovisioned"}
        /\ permissionChanges \in Seq(AccountStatuses)
    BY DEF Inv0
  <2> QED BY <2>1, <2>2, <2>3, <2>4, <2>5 DEF TypeOK
<1> QED BY <1>1, Invariant, PTL

\* A command has one answer at most, however polls and acknowledgements race,
\* and every step it took is on record or was lost with its handler, once
\* (lib/commands.js, ackCommand: "a replayed ack is a no-op").
THEOREM AuditedOnce == Spec => []AuditMatchesQueue
<1>1. IInv => AuditMatchesQueue
  <2> SUFFICES ASSUME IInv PROVE AuditMatchesQueue OBVIOUS
  <2>1. QueueInv /\ TransitionsInv BY DEF IInv, QueueInv
  <2>2. audited \cup unwritten \cup UNION {InFlight(p) : p \in Procs} = reached
    <3>1. UNION {InFlight(p) : p \in Procs} \subseteq reached BY <2>1 DEF TransitionsInv
    <3>2. \A x \in reached : x \in audited \cup unwritten
                                \/ x \in UNION {InFlight(p) : p \in Procs}
      BY <2>1 DEF TransitionsInv
    <3> QED BY <2>1, <3>1, <3>2 DEF TransitionsInv
  <2>3. \A p, q \in Procs : p # q => InFlight(p) \cap InFlight(q) = {}
    BY <2>1 DEF TransitionsInv
  <2>4. \A id \in Ids : Cardinality({s \in Final : <<id, s>> \in reached}) <= 1
    <3> TAKE id \in Ids
    <3> DEFINE answers == {s \in Final : <<id, s>> \in reached}
               one == {commands[id].status}
    <3>1. answers \subseteq one BY <2>1 DEF QueueInv
    <3>2. IsFiniteSet(one) /\ Cardinality(one) = 1 BY FS_Singleton
    <3>3. Cardinality(answers) <= Cardinality(one) BY <3>1, <3>2, FS_Subset
    <3>4. IsFiniteSet(answers) BY <3>1, <3>2, FS_Subset
    <3>5. Cardinality(answers) \in Nat BY <3>4, FS_CardinalityType
    <3> QED BY <3>2, <3>3, <3>5
  <2> QED BY <2>2, <2>3, <2>4 DEF AuditMatchesQueue
<1> QED BY <1>1, Invariant, PTL

\* A poll delivers every command it found that is still unanswered, whichever
\* of the polls in flight marked it as sent, and a command that can be polled
\* has had its effects on the account and on the device (lib/commands.js,
\* pollCommands and enqueueCommand).
THEOREM PollsDeliver == Spec => []DeliveryIsSound
<1>1. IInv => NothingSkipped
  BY DEF IInv, DeviceInv, NothingSkipped
<1>2. IInv => EffectsComeFirst BY DEF IInv, AdminInv
<1>3. IInv => DeliveryIsSound BY <1>1, <1>2 DEF DeliveryIsSound
<1> QED BY <1>3, Invariant, PTL

\* In whatever order changes overlap and die, the status of the account is in
\* the ledger; and as long as they do not overlap and none dies half way, the
\* ledger ends with it (lib/entitlements.js, setEntitlement: a change is
\* recorded before it is applied).
THEOREM LedgerKnows == Spec => []LedgerKnowsStatus
<1>1. IInv => NeverUnrecorded BY DEF IInv, AuthorityInv
<1>2. IInv => LedgerEndsRight
  BY DEF IInv, AuthorityInv, LedgerEndsRight, Last
<1>3. IInv => LedgerKnowsStatus BY <1>1, <1>2 DEF LedgerKnowsStatus
<1> QED BY <1>3, Invariant, PTL

\* The queue's own changes: a new command, or a later status of one that has
\* no answer yet.
LEMMA QueueSteps ==
    ASSUME IInv, [Next]_vars
    PROVE  \/ commands' = commands
           \/ \E id, type : id \notin DOMAIN commands /\ SetCommand(id, type, "pending")
           \/ \E id \in DOMAIN commands, s \in {"sent"} \cup Final :
                 /\ commands[id].status \notin Final
                 /\ SetCommand(id, commands[id].type, s)
<1>1. ASSUME NEW a \in Admins, InsertCommand(a)
      PROVE  op[a].id \notin DOMAIN commands /\ SetCommand(op[a].id, op[a].type, "pending")
  <2>1. Admitted(a) /\ pc[a] = "insert" BY <1>1 DEF IInv, AdminInv, InsertCommand
  <2>2. op[a].type # "set_status" BY <2>1, CallsByType DEF Types
  <2> QED BY <1>1, <2>1, <2>2 DEF InsertCommand, Admitted
<1>2. ASSUME NEW p \in Pollers, Send(p)
      PROVE  \/ commands' = commands
             \/ \E id \in DOMAIN commands : /\ commands[id].status \notin Final
                                            /\ SetCommand(id, commands[id].type, "sent")
  BY <1>2 DEF IInv, DeviceInv, Send, Final
<1>3. ASSUME NEW k \in Ackers, Ack(k)
      PROVE  \/ commands' = commands
             \/ \E id \in DOMAIN commands, s \in Final :
                   /\ commands[id].status \notin Final
                   /\ SetCommand(id, commands[id].type, s)
  BY <1>3 DEF IInv, DeviceInv, Ack
<1>4. CASE UNCHANGED vars BY <1>4 DEF vars
<1>5. ASSUME NEW a \in Admins,
             \/ BeginEnqueue(a) \/ BeginSetStatus(a) \/ RecordChange(a) \/ ApplyChange(a)
             \/ MarkDevice(a) \/ AuditEnqueue(a)
      PROVE  commands' = commands
  BY <1>5 DEF BeginEnqueue, BeginSetStatus, Begin, RecordChange, ApplyChange, MarkDevice,
              AuditEnqueue, queue
<1>6. ASSUME NEW p \in Pollers, BeginPoll(p) \/ Redeliver(p) \/ AuditSent(p) \/ Reply(p)
      PROVE  commands' = commands
  BY <1>6 DEF BeginPoll, Redeliver, AuditSent, Reply, queue
<1>7. ASSUME NEW k \in Ackers, BeginAck(k) \/ AuditAck(k)
      PROVE  commands' = commands
  BY <1>7 DEF BeginAck, AuditAck, queue
<1>8. ASSUME NEW p \in Procs, Die(p)
      PROVE  commands' = commands
  BY <1>8 DEF Die
<1> QED BY <1>1, <1>2, <1>3, <1>4, <1>5, <1>6, <1>7, <1>8 DEF Next

\* A command only moves forward, and its answer is never replaced, whatever
\* polls and acknowledgements are in flight (lib/commands.js).
THEOREM AnswersAreFinal == Spec => FinalIsFinal
<1> DEFINE A == \A id \in DOMAIN commands :
                   LET old == commands[id].status
                       new == commands'[id].status
                   IN  /\ old \in Final => new = old
                       /\ old = "sent" => new # "pending"
<1>1. IInv /\ [Next]_vars => [A]_vars
  <2> SUFFICES ASSUME IInv, [Next]_vars, NEW c \in DOMAIN commands
               PROVE  /\ commands[c].status \in Final => commands'[c].status = commands[c].status
                      /\ commands[c].status = "sent" => commands'[c].status # "pending"
    OBVIOUS
  <2>1. CASE commands' = commands BY <2>1
  <2>2. ASSUME NEW id, NEW type, id \notin DOMAIN commands, SetCommand(id, type, "pending")
        PROVE  commands'[c] = commands[c]
    BY <2>2 DEF SetCommand
  <2>3. ASSUME NEW id \in DOMAIN commands, NEW s \in {"sent"} \cup Final,
               commands[id].status \notin Final, SetCommand(id, commands[id].type, s)
        PROVE  \/ commands'[c] = commands[c]
               \/ commands[c].status \notin Final /\ commands'[c].status = s
    BY <2>3 DEF SetCommand
  <2>4. \A s \in {"sent"} \cup Final : s # "pending" BY DEF Final
  <2> QED BY <2>1, <2>2, <2>3, <2>4, QueueSteps DEF Final
<1> HIDE DEF A
<1>2. Spec => [][A]_vars BY <1>1, Invariant, PTL DEF Spec
<1> QED BY <1>2 DEF FinalIsFinal, A
=============================================================================
