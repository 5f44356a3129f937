------------------------------ MODULE Service ------------------------------
(***************************************************************************)
(* What the request handlers of the back end share: the collections, the   *)
(* clock, and the handlers in flight.  Modules Access, Gate, Accounts and  *)
(* Devices add the handlers; ServiceProps puts them together.              *)
(*                                                                         *)
(* A handler runs up to its next awaited call on the repository: one call  *)
(* is one step.  A behaviour serves one load: the kinds of requests that   *)
(* arrive and the store they find.                                         *)
(***************************************************************************)
EXTENDS Integers, Sequences

CONSTANTS
    Handlers,      \* requests in flight
    Loads,         \* the loads: a function to [store, arrivals, most, time, ...]
    Nobody         \* null, where an account is asked for

VARIABLES
    served,        \* which load this behaviour serves
    db,            \* the collections, and which indexes there are
    hist,          \* history, only read by properties
    process,       \* what the process holds: [context, cached]
    now,
    begun,         \* requests begun so far, at most load.most
    pc, op         \* each handler's next call and locals

vars == <<served, db, hist, process, now, begun, pc, op>>

load == Loads[served]

\* The collections these handlers use, the ids issued and the indexes.
Collections == {"users", "rules", "ledger", "alarms", "codes", "devices", "usage",
                "indexes", "issued"}

\* A behaviour starts with all of them, and with a process that has its
\* context or none.
ASSUME StoresAssumption ==
    \A l \in DOMAIN Loads :
        DOMAIN Loads[l].store = Collections /\ Loads[l].process \in {"none", "ready"}

\* A collection with the row of this id put in or replaced.
Put(coll, id, row) ==
    [i \in DOMAIN coll \cup {id} |-> IF i = id THEN row ELSE coll[i]]

Idle == [route |-> "none"]

Goto(p, step, locals) ==
    /\ pc' = [pc EXCEPT ![p] = step]
    /\ op' = [op EXCEPT ![p] = locals]

Return(p) == Goto(p, "idle", Idle)

\* A handler goes on to its next call and has only read.
Read(p, step, locals) == Goto(p, step, locals) /\ UNCHANGED <<served, db, hist, process, now, begun>>

\* It returns an answer or an error, which its caller sees.
Answer(p) == Read(p, "idle", Idle)

\* It has written, and history may note what.
Write(newDb, newHist) ==
    /\ db' = newDb
    /\ hist' = newHist
    /\ UNCHANGED <<served, process, now, begun>>

\* An idle handler takes a request, or a job.
Begin(p, step, locals) ==
    /\ pc[p] = "idle"
    /\ process.context = "ready"
    /\ begun < load.most
    /\ begun' = begun + 1
    /\ Goto(p, step, locals)
    /\ UNCHANGED <<served, db, hist, process, now>>

\* The process dies, at any call, or a call rejects outside anomaly.emit: the
\* handler is gone.  (A call that rejects in emit is swallowed: Gate!Emit.)
Die(p) ==
    /\ pc[p] # "idle"
    /\ load.mayDie
    /\ Answer(p)

Elapse ==
    /\ now < load.time
    /\ now' = now + 1
    /\ UNCHANGED <<served, db, hist, process, begun, pc, op>>

\* Somebody else is between two of these calls.
Others(p, steps) == {q \in Handlers \ {p} : pc[q] \in steps}
============================================================================
