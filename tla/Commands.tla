------------------------------ MODULE Commands ------------------------------
(***************************************************************************)
(* The remote-command queue (lib/commands.js) of one user's device, with   *)
(* what enqueueing does to the account and to the ledger of permission     *)
(* changes, beside admins who set the account's status directly            *)
(* (lib/entitlements.js, setEntitlement; lib/admin.js, approve, reject).   *)
(*                                                                         *)
(* One awaited repository call is one step.  What a revocation does to the *)
(* sessions is module Sessions; the checks that a device polls and         *)
(* acknowledges for itself only are left out, there being one device.      *)
(***************************************************************************)
EXTENDS Integers, Sequences

CONSTANTS
    Admins,        \* admin requests in flight
    Pollers,       \* polls of the device in flight, time-outs overlapping
    Ackers,        \* acknowledgements of the device in flight
    Ids,           \* command ids
    MaxChanges     \* bound on the ledger of permission changes

ASSUME CommandsAssumption ==
    /\ Admins \cap Pollers = {} /\ Admins \cap Ackers = {}
    /\ Pollers \cap Ackers = {}
    /\ MaxChanges \in Nat

VARIABLES
    commands,      \* the queue: a function from id to [type, status]
    account,       \* users.status
    device,        \* devices.status
    permissionChanges,  \* the statuses recorded in the ledger, in order
    audited,       \* the audit events of commands: <<id, status>>
    inbox,         \* ids the device was sent and has no answer for
    pc, op,        \* each handler's next call and locals
    unused,        \* bound: the ids no command has had yet
    effects,       \* history: <<id, step>> for the effects that happened
    reached,       \* history: every <<id, status>> a command has had
    unwritten,     \* history: transitions whose handler died before the audit
    tangled        \* history: status changes overlapped, or one died half way

vars == <<commands, account, device, permissionChanges, audited, inbox, pc, op, unused,
          effects, reached, unwritten, tangled>>

Procs == Admins \cup Pollers \cup Ackers
NoId == "no id"

Types == {"wipe_claude_creds", "deprovision", "force_logout", "disable_account"}
Final == {"acked", "failed"}
Statuses == {"pending", "sent"} \cup Final
AccountStatuses == {"active", "suspended", "deprovisioned", "rejected"}

Idle == [id |-> NoId, type |-> "none", to |-> "none", todo |-> <<>>,
         waiting |-> {}, out |-> {},
         listed |-> {}]    \* history: the ids BeginPoll found

Init ==
    /\ commands = <<>>
    /\ account = "active"
    /\ device = "active"
    /\ permissionChanges = <<>>
    /\ audited = {} /\ inbox = {}
    /\ pc = [p \in Procs |-> "idle"]
    /\ op = [p \in Procs |-> Idle]
    /\ unused = Ids
    /\ effects = {} /\ reached = {} /\ unwritten = {} /\ tangled = FALSE

Goto(p, step, locals) ==
    /\ pc' = [pc EXCEPT ![p] = step]
    /\ op' = [op EXCEPT ![p] = locals]

Return(p) == Goto(p, "idle", Idle)

\* On to the next call of a request that knows its calls in advance.
Advance(a) ==
    IF Len(op[a].todo) = 1 THEN Return(a)
    ELSE Goto(a, op[a].todo[2], [op[a] EXCEPT !.todo = Tail(@)])

queue == <<commands, reached, audited, unwritten>>
authority == <<account, permissionChanges, tangled>>
deviceSide == <<device, inbox>>

SetCommand(id, type, status) ==
    /\ commands' = [c \in DOMAIN commands \cup {id} |->
                       IF c = id THEN [type |-> type, status |-> status]
                       ELSE commands[c]]
    /\ reached' = reached \cup {<<id, status>>}

Write(id, status) == audited' = audited \cup {<<id, status>>}

----------------------------------------------------------------------------
(* enqueueCommand, and setEntitlement on the status field. *)

\* Mutant: applied before it is recorded.
PlanApplyFirst(type) ==
    CASE type = "wipe_claude_creds" -> <<"device", "insert", "audit">>
      [] type = "force_logout" -> <<"insert", "audit">>
      [] type = "deprovision" -> <<"status", "ledger", "device", "insert", "audit">>
      [] type = "disable_account" -> <<"status", "ledger", "insert", "audit">>
      [] type = "set_status" -> <<"status", "ledger">>

\* The calls that change something, in their order.
Plan(type) ==
    CASE type = "wipe_claude_creds" -> <<"device", "insert", "audit">>
      [] type = "force_logout" -> <<"insert", "audit">>
      [] type = "deprovision" -> <<"ledger", "status", "device", "insert", "audit">>
      [] type = "disable_account" -> <<"ledger", "status", "insert", "audit">>
      [] type = "set_status" -> <<"ledger", "status">>

\* A request after its checks; "to" is the status it gives the account.
Begin(a, id, type, to) ==
    /\ pc[a] = "idle"
    /\ Goto(a, Plan(type)[1], [Idle EXCEPT !.id = id, !.type = type, !.to = to,
                                           !.todo = Plan(type)])
    /\ UNCHANGED <<queue, authority, deviceSide, effects>>

BeginEnqueue(a) ==
    \E id \in unused, type \in Types :
        /\ Begin(a, id, type,
                 IF type = "deprovision" THEN "deprovisioned" ELSE "suspended")
        /\ unused' = unused \ {id}

BeginSetStatus(a) ==
    \E to \in {"active", "rejected"} :
        Begin(a, NoId, "set_status", to) /\ UNCHANGED unused

Changing == {a \in Admins : pc[a] = "status"}

\* appendPermissionChange; which request appends first is all that matters.
RecordChange(a) ==
    /\ pc[a] = "ledger"
    /\ Len(permissionChanges) < MaxChanges
    /\ permissionChanges' = Append(permissionChanges, op[a].to)
    /\ tangled' = (Changing # {})
    /\ Advance(a)
    /\ UNCHANGED <<queue, account, deviceSide, unused, effects>>

ApplyChange(a) ==
    /\ pc[a] = "status"
    /\ account' = op[a].to
    /\ effects' = effects \cup {<<op[a].id, "status">>}
    /\ Advance(a)
    /\ UNCHANGED <<queue, permissionChanges, tangled, deviceSide, unused>>

MarkDevice(a) ==
    /\ pc[a] = "device"
    /\ device' = IF op[a].type = "deprovision" THEN "deprovisioned" ELSE "wiped"
    /\ effects' = effects \cup {<<op[a].id, "device">>}
    /\ Advance(a)
    /\ UNCHANGED <<queue, authority, inbox, unused>>

InsertCommand(a) ==
    /\ pc[a] = "insert"
    /\ SetCommand(op[a].id, op[a].type, "pending")
    /\ Advance(a)
    /\ UNCHANGED <<audited, unwritten, authority, deviceSide, unused, effects>>

AuditEnqueue(a) ==
    /\ pc[a] = "audit"
    /\ Write(op[a].id, "pending")
    /\ Advance(a)
    /\ UNCHANGED <<commands, reached, unwritten, authority, deviceSide, unused, effects>>

----------------------------------------------------------------------------
(* pollCommands. *)

\* find: the commands not acknowledged yet, as they are now.
BeginPoll(p) ==
    /\ pc[p] = "idle"
    /\ LET active == {id \in DOMAIN commands : commands[id].status \notin Final}
       IN  Goto(p, "poll",
                [Idle EXCEPT !.waiting = {<<id, commands[id].status>> : id \in active},
                             !.listed = active])
    /\ UNCHANGED <<queue, authority, deviceSide, unused, effects>>

Delivering(p, id) == [op[p] EXCEPT !.out = @ \cup {id},
                                   !.waiting = {w \in @ : w[1] # id}]

\* Already sent when it was found: delivered again.
Redeliver(p) ==
    /\ pc[p] = "poll"
    /\ \E w \in op[p].waiting :
          /\ w[2] = "sent"
          /\ Goto(p, "poll", Delivering(p, w[1]))
    /\ UNCHANGED <<queue, authority, deviceSide, unused, effects>>

\* Mutants: update by id; and nothing delivered by whoever lost the race.
SendAnyway(p) ==
    /\ pc[p] = "poll"
    /\ \E w \in op[p].waiting :
          /\ w[2] = "pending"
          /\ SetCommand(w[1], commands[w[1]].type, "sent")
          /\ Goto(p, "auditSent", [op[p] EXCEPT !.id = w[1]])
    /\ UNCHANGED <<audited, unwritten, authority, deviceSide, unused, effects>>

SendOrSkip(p) ==
    /\ pc[p] = "poll"
    /\ \E w \in op[p].waiting :
          /\ w[2] = "pending"
          /\ IF commands[w[1]].status = "pending"
             THEN /\ SetCommand(w[1], commands[w[1]].type, "sent")
                  /\ Goto(p, "auditSent", [op[p] EXCEPT !.id = w[1]])
             ELSE /\ Goto(p, "poll", [op[p] EXCEPT !.waiting = @ \ {w}])
                  /\ UNCHANGED <<commands, reached>>
    /\ UNCHANGED <<audited, unwritten, authority, deviceSide, unused, effects>>

\* updateOne: pending -> sent for whoever comes first; both deliver it.
Send(p) ==
    /\ pc[p] = "poll"
    /\ \E w \in op[p].waiting :
          /\ w[2] = "pending"
          /\ IF commands[w[1]].status = "pending"
             THEN /\ SetCommand(w[1], commands[w[1]].type, "sent")
                  /\ Goto(p, "auditSent", [op[p] EXCEPT !.id = w[1]])
             ELSE /\ Goto(p, "poll", Delivering(p, w[1]))
                  /\ UNCHANGED <<commands, reached>>
    /\ UNCHANGED <<audited, unwritten, authority, deviceSide, unused, effects>>

AuditSent(p) ==
    /\ pc[p] = "auditSent"
    /\ Write(op[p].id, "sent")
    /\ Goto(p, "poll", [Delivering(p, op[p].id) EXCEPT !.id = NoId])
    /\ UNCHANGED <<commands, reached, unwritten, authority, deviceSide, unused, effects>>

\* The device's lastSeen is of no concern here; the reply reaches it.
Reply(p) ==
    /\ pc[p] = "poll"
    /\ op[p].waiting = {}
    /\ inbox' = inbox \cup op[p].out
    /\ Return(p)
    /\ UNCHANGED <<queue, authority, device, unused, effects>>

----------------------------------------------------------------------------
(* ackCommand.  The device acknowledges what it was sent until it gets an   *)
(* answer, possibly twice at once and with different results.               *)

\* status = result === 'failed' ? 'failed' : 'acked'.
BeginAck(k) ==
    /\ pc[k] = "idle"
    /\ \E id \in inbox, to \in Final :
          Goto(k, "ack", [Idle EXCEPT !.id = id, !.to = to])
    /\ UNCHANGED <<queue, authority, deviceSide, unused, effects>>

\* Mutant: audits whether or not it won.
AckAuditsAlways(k) ==
    /\ pc[k] = "ack"
    /\ IF commands[op[k].id].status \notin Final
       THEN SetCommand(op[k].id, commands[op[k].id].type, op[k].to)
       ELSE UNCHANGED <<commands, reached>>
    /\ Goto(k, "auditAck", op[k])
    /\ UNCHANGED <<inbox, audited, unwritten, authority, device, unused, effects>>

\* updateOne: pending or sent -> acked or failed, once.
Ack(k) ==
    /\ pc[k] = "ack"
    /\ IF commands[op[k].id].status \notin Final
       THEN /\ SetCommand(op[k].id, commands[op[k].id].type, op[k].to)
            /\ Goto(k, "auditAck", op[k])
            /\ UNCHANGED inbox
       ELSE /\ Return(k)
            /\ inbox' = inbox \ {op[k].id}
            /\ UNCHANGED <<commands, reached>>
    /\ UNCHANGED <<audited, unwritten, authority, device, unused, effects>>

AuditAck(k) ==
    /\ pc[k] = "auditAck"
    /\ Write(op[k].id, op[k].to)
    /\ inbox' = inbox \ {op[k].id}
    /\ Return(k)
    /\ UNCHANGED <<commands, reached, unwritten, authority, device, unused, effects>>

----------------------------------------------------------------------------
\* The transition a handler has made and not audited yet.
InFlight(p) ==
    CASE pc[p] = "audit" -> {<<op[p].id, "pending">>}
      [] pc[p] = "auditSent" -> {<<op[p].id, "sent">>}
      [] pc[p] = "auditAck" -> {<<op[p].id, op[p].to>>}
      [] OTHER -> {}

\* A repository call rejects, or the process dies: the handler is gone.
Die(p) ==
    /\ pc[p] # "idle"
    /\ unwritten' = unwritten \cup InFlight(p)
    /\ tangled' = (tangled \/ pc[p] = "status")
    /\ Return(p)
    /\ UNCHANGED <<commands, reached, audited, account, permissionChanges,
                   deviceSide, unused, effects>>

Next ==
    \/ \E a \in Admins :
          \/ BeginEnqueue(a) \/ BeginSetStatus(a) \/ RecordChange(a) \/ ApplyChange(a)
          \/ MarkDevice(a) \/ InsertCommand(a) \/ AuditEnqueue(a)
    \/ \E p \in Pollers :
          \/ BeginPoll(p) \/ Redeliver(p) \/ Send(p) \/ AuditSent(p) \/ Reply(p)
    \/ \E k \in Ackers : BeginAck(k) \/ Ack(k) \/ AuditAck(k)
    \/ \E p \in Procs : Die(p)

Spec == Init /\ [][Next]_vars
============================================================================
