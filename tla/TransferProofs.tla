--------------------------- MODULE TransferProofs ---------------------------
(***************************************************************************)
(* Proofs about Transfers, for any number of requests in flight, any       *)
(* users, keys, cap, day and number of watermarks.                         *)
(*                                                                         *)
(* Three invariants, each inductive with the help of those before it:      *)
(*   LocalsInv  what a handler found or wrote before an await is still     *)
(*              there, because watermarks, tracer rows and events only     *)
(*              accumulate;                                                *)
(*   QuotaInv   what a request is about to write is at most one more than  *)
(*              was charged in its window, and, as long as no two requests *)
(*              charged at once, the quota as it is, and one more;         *)
(*   OrderInv   of a key never used twice at once, one request at most is  *)
(*              between its lookup and its event.                          *)
(***************************************************************************)
EXTENDS TransferProps, FiniteSetTheorems, TLAPS

USE TransfersAssumption

ExportKeys == {ExportKey(k) : k \in Keys}
ImportKeys == {ImportKey(u, m) : u \in Users, m \in Int}

ExportSteps == {"quota", "charge", "mint", "mintInsert", "auditExport"}
ImportSteps == {"findImport", "insertImport", "findMark", "importAlarm", "auditImport"}
Steps == {"idle", "lookup", "check"} \cup ExportSteps \cup ImportSteps

Quotas == [used : Nat, windowStart : Nat]
Locals == [action : {"none", "export", "import"}, user : Users,
           key : {NoKey} \cup ExportKeys \cup ImportKeys, mark : Int,
           patch : Quotas, charged : BOOLEAN]

Named == {NoMark, Forged} \cup DOMAIN marks

Alarmed(mark, u) ==
    mark \in DOMAIN marks /\ u # Owner =>
        Recorded(CrossUser(u, mark)) \/ <<mark, u>> \in muffled

\* What holds of a handler with locals o about to make the call "step".
Held(o, step) ==
    /\ o.mark \in Named
    /\ step \in {"lookup", "check"} => o.action # "none"
    /\ step = "lookup" => o.key # NoKey
    /\ o.action = "export" => o.key \in {NoKey} \cup ExportKeys
    /\ o.action = "import" => o.key \notin ExportKeys
    /\ step \in ExportSteps => o.action = "export"
    /\ step \in ImportSteps => o.action = "import"
    /\ step \in ImportSteps \ {"auditImport"} => o.mark # NoMark
    /\ step = "auditExport" => o.mark \in DOMAIN marks /\ marks[o.mark] = o.key
    /\ step \in {"findMark", "importAlarm", "auditImport"} /\ o.mark # NoMark =>
          <<o.mark, o.user>> \in imports
    /\ step = "auditImport" => Alarmed(o.mark, o.user)
    /\ o.charged => step \in {"mint", "mintInsert", "auditExport"}

EventOk(e) ==
    /\ e.type \in EventTypes /\ e.user \in Users /\ e.mark \in Named
    /\ e.type = "export" => e.mark \in DOMAIN marks
    /\ e.key \in ExportKeys => e.type = "export" /\ marks[e.mark] = e.key
    /\ e.type = "import" /\ e.mark # NoMark =>
          <<e.mark, e.user>> \in imports /\ Alarmed(e.mark, e.user)

ReplyOk(r) ==
    /\ r[2] \in DOMAIN marks /\ marks[r[2]] = r[1] /\ r[1] \in ExportKeys
    /\ Recorded(r[1])

LocalsInv ==
    /\ marks \in Seq({NoKey} \cup ExportKeys)
    /\ quota \in Quotas /\ now \in Nat
    /\ pc \in [Procs -> Steps] /\ op \in [Procs -> Locals]
    /\ imports \subseteq ({Forged} \cup DOMAIN marks) \X Users
    /\ \A h \in Procs : Held(op[h], pc[h])
    /\ \A e \in events : EventOk(e)
    /\ \A r \in replies : ReplyOk(r)

\* Keys of different kinds differ, and keys name what they are made of.
LEMMA KeysApart ==
    /\ NoKey \notin ExportKeys
    /\ \A u, m : ImportKey(u, m) \notin ExportKeys /\ ImportKey(u, m) # NoKey
    /\ \A u, m : CrossUser(u, m) \notin ExportKeys /\ CrossUser(u, m) # NoKey
    /\ \A j, k : ExportKey(j) = ExportKey(k) => j = k
<1>1. \A k : ExportKey(k) # NoKey
  BY DEF ExportKey, NoKey
<1>2. \A k, u, m : ImportKey(u, m) # ExportKey(k)
  BY DEF ExportKey, ImportKey
<1>3. \A k, u, m : CrossUser(u, m) # ExportKey(k)
  BY DEF ExportKey, CrossUser
<1>4. \A u, m : ImportKey(u, m) # NoKey /\ CrossUser(u, m) # NoKey
  BY DEF ImportKey, CrossUser, NoKey
<1>5. \A j, k : ExportKey(j) = ExportKey(k) => j = k
  <2> TAKE j, k
  <2>1. ExportKey(j)[2] = j /\ ExportKey(k)[2] = k
    BY DEF ExportKey
  <2> QED BY <2>1
<1> QED BY <1>1, <1>2, <1>3, <1>4, <1>5 DEF ExportKeys

----------------------------------------------------------------------------
(* Everything a handler may have seen only accumulates. *)

Grown ==
    /\ marks' \in Seq({NoKey} \cup ExportKeys)
    /\ DOMAIN marks \subseteq DOMAIN marks'
    /\ \A m \in DOMAIN marks : marks'[m] = marks[m]
    /\ imports \subseteq imports' /\ muffled \subseteq muffled'
    /\ events \subseteq events'
    /\ quota' \in Quotas /\ now' \in Nat

\* A watermark a handler or an event names goes on existing.
LEMMA StaysNamed ==
    ASSUME LocalsInv, Grown, NEW m \in Named
    PROVE  m \in Named' /\ (m \in DOMAIN marks <=> m \in DOMAIN marks')
BY DEF LocalsInv, Grown, Named, NoMark, Forged

\* An alarm once raised, or muffled, stays so.
LEMMA StaysAlarmed ==
    ASSUME LocalsInv, Grown, NEW m \in Named, NEW u, Alarmed(m, u)
    PROVE  Alarmed(m, u)'
BY StaysNamed DEF Grown, Alarmed, Recorded

\* What a waiting handler relies on is still so when others have moved.
LEMMA StaysHeld ==
    ASSUME LocalsInv, Grown, NEW o, NEW step, Held(o, step)
    PROVE  Held(o, step)'
<1>1. o.mark \in Named BY DEF Held
<1>2. o.mark \in Named' /\ (o.mark \in DOMAIN marks <=> o.mark \in DOMAIN marks')
  BY <1>1, StaysNamed
<1>3. Alarmed(o.mark, o.user) => Alarmed(o.mark, o.user)'
  BY <1>1, StaysAlarmed
<1> QED BY <1>2, <1>3 DEF Held, Grown

\* What an event claims stays true, since nothing it names is removed.
LEMMA StaysEventOk ==
    ASSUME LocalsInv, Grown, NEW e, EventOk(e)
    PROVE  EventOk(e)'
<1>1. e.mark \in Named BY DEF EventOk
<1>2. e.mark \in Named' /\ (e.mark \in DOMAIN marks <=> e.mark \in DOMAIN marks')
  BY <1>1, StaysNamed
<1>3. Alarmed(e.mark, e.user) => Alarmed(e.mark, e.user)'
  BY <1>1, StaysAlarmed
<1> QED BY <1>2, <1>3 DEF EventOk, Grown

\* What an answer claims stays true.
LEMMA StaysReplyOk ==
    ASSUME LocalsInv, Grown, NEW r, ReplyOk(r)
    PROVE  ReplyOk(r)'
BY DEF ReplyOk, Grown, Recorded

\* It is enough to look at what is new: the handler that moved, the event it
\* recorded, the answer it gave, the tracer row it wrote.
LEMMA OnlyTheNew ==
    ASSUME LocalsInv, Grown,
           pc' \in [Procs -> Steps], op' \in [Procs -> Locals],
           imports' \subseteq ({Forged} \cup DOMAIN marks) \X Users,
           \A h \in Procs : \/ pc'[h] = pc[h] /\ op'[h] = op[h]
                            \/ Held(op[h], pc[h])',
           \A e \in events' : e \in events \/ EventOk(e)',
           \A r \in replies' : r \in replies \/ ReplyOk(r)'
    PROVE  LocalsInv'
<1>1. \A h \in Procs : Held(op[h], pc[h])'
  <2> TAKE h \in Procs
  <2>1. Held(op[h], pc[h]) BY DEF LocalsInv
  <2> QED BY <2>1, StaysHeld
<1>2. \A e \in events' : EventOk(e)'
  BY StaysEventOk DEF LocalsInv
<1>3. \A r \in replies' : ReplyOk(r)'
  BY StaysReplyOk DEF LocalsInv
<1> QED BY <1>1, <1>2, <1>3 DEF LocalsInv, Grown

\* A step that reads, charges or returns.
Quiet ==
    /\ UNCHANGED <<marks, imports, muffled, events, replies>>
    /\ quota' \in Quotas /\ now' \in Nat

\* A step that stores nothing is a special case of growing.
LEMMA QuietGrows ==
    ASSUME LocalsInv, Quiet
    PROVE  Grown
BY DEF LocalsInv, Quiet, Grown

\* The quota as it would be written is a quota.
LEMMA PatchTyped ==
    ASSUME LocalsInv
    PROVE  Patch \in Quotas
BY DEF LocalsInv, Quotas, Patch

\* The first step of most cases: the handler that goes on has locals of the
\* right type, and the others have what they had.
LEMMA GotoTypes ==
    ASSUME LocalsInv, NEW h \in Procs,
           \E s \in Steps, o \in Locals : Goto(h, s, o)
    PROVE  /\ pc' \in [Procs -> Steps] /\ op' \in [Procs -> Locals]
           /\ \A g \in Procs \ {h} : pc'[g] = pc[g] /\ op'[g] = op[g]
BY DEF LocalsInv, Goto

\* An idle handler relies on nothing.
LEMMA IdleHeld == Idle \in Locals /\ Held(Idle, "idle")
BY DEF Idle, Locals, Held, Named, NoMark, Quotas, ExportSteps, ImportSteps

\* A request that ends without storing anything keeps the invariant.
LEMMA ReturnKeeps ==
    ASSUME LocalsInv, NEW h \in Procs, Return(h),
           Quiet
    PROVE  LocalsInv'
<1>1. Grown BY QuietGrows
<1>2. /\ pc' \in [Procs -> Steps] /\ op' \in [Procs -> Locals]
      /\ \A g \in Procs \ {h} : pc'[g] = pc[g] /\ op'[g] = op[g]
  BY GotoTypes, IdleHeld DEF Return, Steps
<1>3. pc'[h] = "idle" /\ op'[h] = Idle
  BY DEF Return, Goto, LocalsInv
<1>4. Held(op[h], pc[h])'
  BY <1>3, IdleHeld DEF Held, Idle, Named, ExportSteps, ImportSteps
<1> QED BY <1>1, <1>2, <1>4, OnlyTheNew DEF LocalsInv, Quiet

\* A request that only reads goes on with locals of which Held holds.
LEMMA GoingOn ==
    ASSUME LocalsInv, NEW h \in Procs,
           \E s \in Steps, o \in Locals : Goto(h, s, o) /\ Held(o, s),
           Quiet
    PROVE  LocalsInv'
<1>1. Grown BY QuietGrows
<1>2. /\ pc' \in [Procs -> Steps] /\ op' \in [Procs -> Locals]
      /\ \A g \in Procs \ {h} : pc'[g] = pc[g] /\ op'[g] = op[g]
  BY GotoTypes
<1>3. PICK s \in Steps, o \in Locals : Goto(h, s, o) /\ Held(o, s)
  OBVIOUS
<1>4. pc'[h] = s /\ op'[h] = o
  BY <1>3 DEF Goto, LocalsInv
<1>5. Held(op[h], pc[h])'
  BY <1>1, <1>3, <1>4, StaysHeld
<1> QED BY <1>1, <1>2, <1>5, OnlyTheNew DEF LocalsInv, Quiet

\* recordEvent adds the event, unless its key is on record; then it is.
LEMMA RecordAdds ==
    ASSUME NEW e, Record(e)
    PROVE  /\ events \subseteq events'
           /\ \A f \in events' : f \in events \/ f = e
           /\ e.key # NoKey => Recorded(e.key)'
BY DEF Record, Recorded

\* LocalsInv holds before the first request.
LEMMA LocalsInit == Init => LocalsInv
<1> SUFFICES ASSUME Init PROVE LocalsInv OBVIOUS
<1>1. marks \in Seq({NoKey} \cup ExportKeys)
  <2>1. marks \in [1..Earlier -> {NoKey} \cup ExportKeys] /\ Earlier \in Nat
    BY DEF Init
  <2> QED BY <2>1
<1>2. pc \in [Procs -> Steps] /\ op \in [Procs -> Locals]
  BY IdleHeld DEF Init, Steps
<1>3. \A h \in Procs : Held(op[h], pc[h])
  BY IdleHeld DEF Init
<1>4. quota \in Quotas /\ now \in Nat
  BY DEF Init, Quotas
<1>5. imports = {} /\ events = {} /\ replies = {}
  BY DEF Init
<1> QED BY <1>1, <1>2, <1>3, <1>4, <1>5 DEF LocalsInv

\* Every step keeps LocalsInv: one case per action.
LEMMA LocalsStep == LocalsInv /\ [Next]_vars => LocalsInv'
<1> SUFFICES ASSUME LocalsInv, [Next]_vars PROVE LocalsInv' OBVIOUS
<1> USE DEF Procs
<1>1. ASSUME NEW h \in Exporters, BeginExport(h) PROVE LocalsInv'
  <2>1. PICK key \in {NoKey} \cup ExportKeys :
           Goto(h, IF key = NoKey THEN "check" ELSE "lookup",
                [Idle EXCEPT !.action = "export", !.key = key])
    BY <1>1 DEF BeginExport, ExportKeys
  <2> DEFINE o == [Idle EXCEPT !.action = "export", !.key = key]
             s == IF key = NoKey THEN "check" ELSE "lookup"
  <2>2. o \in Locals /\ s \in Steps
    BY IdleHeld DEF Idle, Locals, Steps, Quotas
  <2>3. Held(o, s)
    BY DEF Idle, Held, Named, ExportSteps, ImportSteps
  <2> QED BY <1>1, <2>1, <2>2, <2>3, GoingOn DEF BeginExport, importSide, Quiet, LocalsInv
<1>2. ASSUME NEW h \in Importers, BeginImport(h) PROVE LocalsInv'
  <2>1. PICK u \in Users, m \in Named : \E key \in {NoKey, ImportKey(u, m)} :
           Goto(h, IF key = NoKey THEN "check" ELSE "lookup",
                [Idle EXCEPT !.action = "import", !.user = u, !.key = key, !.mark = m])
    BY <1>2 DEF BeginImport, Named
  <2>2. PICK key \in {NoKey, ImportKey(u, m)} :
           Goto(h, IF key = NoKey THEN "check" ELSE "lookup",
                [Idle EXCEPT !.action = "import", !.user = u, !.key = key, !.mark = m])
    BY <2>1
  <2> DEFINE o == [Idle EXCEPT !.action = "import", !.user = u, !.key = key, !.mark = m]
             s == IF key = NoKey THEN "check" ELSE "lookup"
  <2>3. m \in Int
    BY DEF Named, NoMark, Forged, LocalsInv
  <2>4. o \in Locals /\ s \in Steps
    <3>1. key \in {NoKey} \cup ImportKeys
      BY <2>3 DEF ImportKeys
    <3> QED BY <2>3, <3>1, IdleHeld DEF Locals, Steps
  <2>5. Held(o, s)
    BY KeysApart DEF Idle, Held, ExportSteps, ImportSteps
  <2> QED BY <1>2, <2>2, <2>4, <2>5, GoingOn DEF BeginImport, importSide, ownerSide, Quiet, LocalsInv
<1>3. ASSUME NEW h \in Procs, Lookup(h) PROVE LocalsInv'
  <2>0. op[h] \in Locals /\ Held(op[h], "lookup") /\ pc[h] = "lookup"
    BY <1>3 DEF Lookup, LocalsInv
  <2>1. CASE Recorded(op[h].key)
    <3>1. PICK e \in events : e.key = op[h].key /\ Answer(h, e.mark)
      BY <1>3, <2>1 DEF Lookup
    <3>2. Grown
      BY <1>3 DEF Lookup, importSide, Grown, LocalsInv
    <3>3. /\ pc' \in [Procs -> Steps] /\ op' \in [Procs -> Locals]
          /\ \A g \in Procs \ {h} : pc'[g] = pc[g] /\ op'[g] = op[g]
      BY <3>1, GotoTypes, IdleHeld DEF Answer, Return, Steps
    <3>4. Held(op[h], pc[h])'
      <4>1. pc'[h] = "idle" /\ op'[h] = Idle
        BY <3>1 DEF Answer, Return, Goto, LocalsInv
      <4> QED BY <3>2, <4>1, IdleHeld, StaysHeld
    <3>5. ASSUME NEW r \in replies', r \notin replies PROVE ReplyOk(r)'
      <4>1. r = <<op[h].key, e.mark>> /\ op[h].action = "export" /\ op[h].key # NoKey
        BY <3>1, <3>5 DEF Answer
      <4>2. op[h].key \in ExportKeys
        BY <2>0, <4>1 DEF Held
      <4>3. e.type = "export" /\ e.mark \in DOMAIN marks /\ marks[e.mark] = e.key
        BY <3>1, <4>2 DEF LocalsInv, EventOk
      <4>4. ReplyOk(r)
        BY <2>1, <3>1, <4>1, <4>2, <4>3 DEF ReplyOk
      <4> QED BY <3>2, <4>4, StaysReplyOk
    <3> QED BY <1>3, <3>2, <3>3, <3>4, <3>5, OnlyTheNew DEF Lookup, importSide, LocalsInv
  <2>2. CASE ~Recorded(op[h].key)
    <3>1. Goto(h, "check", op[h])
      BY <1>3, <2>2 DEF Lookup, Step
    <3>2. Held(op[h], "check")
      BY <2>0 DEF Held, ExportSteps, ImportSteps
    <3>3. "check" \in Steps BY DEF Steps
    <3>4. Quiet
      BY <1>3, <2>2 DEF Lookup, importSide, Quiet, LocalsInv
    <3> QED BY <2>0, <3>1, <3>2, <3>3, <3>4, GoingOn
  <2> QED BY <2>1, <2>2
<1>4. ASSUME NEW h \in Procs, Check(h) PROVE LocalsInv'
  <2>0. op[h] \in Locals /\ Held(op[h], "check") /\ pc[h] = "check"
    BY <1>4 DEF Check, LocalsInv
  <2>1. op[h].action \in {"export", "import"}
    BY <2>0 DEF Held, Locals
  <2> DEFINE s == CASE op[h].action = "export" -> "quota"
                    [] op[h].action = "import" /\ op[h].mark = NoMark -> "auditImport"
                    [] op[h].action = "import" /\ op[h].mark # NoMark -> "findImport"
  <2>2. s \in Steps /\ Held(op[h], s)
    <3>1. CASE op[h].action = "export"
      BY <2>0, <3>1 DEF Held, Steps, ExportSteps, ImportSteps
    <3>2. CASE op[h].action = "import" /\ op[h].mark = NoMark
      <4>1. s = "auditImport" BY <3>2
      <4>2. op[h].mark \notin DOMAIN marks BY <3>2 DEF NoMark, LocalsInv
      <4> QED BY <2>0, <3>2, <4>1, <4>2 DEF Held, Alarmed, Steps, ExportSteps, ImportSteps
    <3>3. CASE op[h].action = "import" /\ op[h].mark # NoMark
      BY <2>0, <3>3 DEF Held, Steps, ExportSteps, ImportSteps
    <3> QED BY <2>1, <3>1, <3>2, <3>3
  <2>3. Goto(h, s, op[h]) BY <1>4 DEF Check, Step
  <2>4. Quiet
    BY <1>4 DEF Check, importSide, ownerSide, Quiet, LocalsInv
  <2> HIDE DEF s
  <2> QED BY <2>0, <2>2, <2>3, <2>4, GoingOn
<1>5. ASSUME NEW h \in Procs, Refuse(h) PROVE LocalsInv'
  BY <1>5, ReturnKeeps DEF Refuse, importSide, ownerSide, Quiet, LocalsInv
<1>6. ASSUME NEW h \in Procs, Die(h) PROVE LocalsInv'
  BY <1>6, ReturnKeeps DEF Die, importSide, ownerSide, Quiet, LocalsInv
<1>7. ASSUME NEW h \in Exporters, QuotaRead(h) PROVE LocalsInv'
  <2>0. op[h] \in Locals /\ Held(op[h], "quota") /\ pc[h] = "quota"
    BY <1>7 DEF QuotaRead, LocalsInv
  <2>1. Quiet
    BY <1>7 DEF QuotaRead, importSide, ownerSide, Quiet, LocalsInv
  <2>2. Held(op[h], "mint")
    BY <2>0 DEF Held, ExportSteps, ImportSteps
  <2>3. CASE Goto(h, "mint", op[h])
    BY <2>0, <2>1, <2>2, <2>3, GoingOn DEF Steps, ExportSteps
  <2>4. CASE Return(h)
    BY <2>1, <2>4, ReturnKeeps
  <2>5. CASE Goto(h, "charge", [op[h] EXCEPT !.patch = Patch])
    <3>1. Held([op[h] EXCEPT !.patch = Patch], "charge")
      BY <2>0 DEF Held, Locals, ExportSteps, ImportSteps
    <3>2. [op[h] EXCEPT !.patch = Patch] \in Locals
      BY <2>0, PatchTyped DEF Locals
    <3> QED BY <2>1, <2>5, <3>1, <3>2, GoingOn DEF Steps, ExportSteps
  <2> QED BY <1>7, <2>3, <2>4, <2>5 DEF QuotaRead, Step
<1>8. ASSUME NEW h \in Exporters, QuotaWrite(h) PROVE LocalsInv'
  <2>0. op[h] \in Locals /\ Held(op[h], "charge") /\ pc[h] = "charge"
    BY <1>8 DEF QuotaWrite, LocalsInv
  <2>1. Quiet
    BY <1>8, <2>0 DEF QuotaWrite, importSide, Quiet, LocalsInv, Locals
  <2>2. Held([op[h] EXCEPT !.charged = TRUE], "mint")
    BY <2>0 DEF Held, Locals, ExportSteps, ImportSteps
  <2>3. [op[h] EXCEPT !.charged = TRUE] \in Locals
    BY <2>0 DEF Locals
  <2>4. Goto(h, "mint", [op[h] EXCEPT !.charged = TRUE])
    BY <1>8 DEF QuotaWrite
  <2> QED BY <2>1, <2>2, <2>3, <2>4, GoingOn DEF Steps, ExportSteps
<1>9. ASSUME NEW h \in Exporters, MintFind(h) PROVE LocalsInv'
  <2>0. op[h] \in Locals /\ Held(op[h], "mint") /\ pc[h] = "mint"
    BY <1>9 DEF MintFind, LocalsInv
  <2>1. Quiet
    BY <1>9 DEF MintFind, importSide, ownerSide, Quiet, LocalsInv
  <2>2. CASE Goto(h, "mintInsert", op[h])
    <3>1. Held(op[h], "mintInsert")
      BY <2>0 DEF Held, ExportSteps, ImportSteps
    <3> QED BY <2>0, <2>1, <2>2, <3>1, GoingOn DEF Steps, ExportSteps
  <2>3. ASSUME NEW m \in DOMAIN marks, marks[m] = op[h].key,
               Goto(h, "auditExport", [op[h] EXCEPT !.mark = m])
        PROVE  LocalsInv'
    <3>0. m \in Int
      BY DEF LocalsInv
    <3>1. [op[h] EXCEPT !.mark = m] \in Locals
      BY <2>0, <3>0 DEF Locals
    <3>2. Held([op[h] EXCEPT !.mark = m], "auditExport")
      BY <2>0, <2>3 DEF Held, Locals, Named, ExportSteps, ImportSteps
    <3> QED BY <2>1, <2>3, <3>1, <3>2, GoingOn DEF Steps, ExportSteps
  <2> QED BY <1>9, <2>2, <2>3 DEF MintFind, Step
<1>10. ASSUME NEW h \in Exporters, MintInsert(h) PROVE LocalsInv'
  <2>0. op[h] \in Locals /\ Held(op[h], "mintInsert") /\ pc[h] = "mintInsert"
    BY <1>10 DEF MintInsert, LocalsInv
  <2>1. op[h].key \in {NoKey} \cup ExportKeys
    BY <2>0 DEF Held, ExportSteps
  <2>2. /\ Grown
        /\ Len(marks) + 1 \in DOMAIN marks'
        /\ marks'[Len(marks) + 1] = op[h].key
    <3>1. marks' = Append(marks, op[h].key) /\ marks \in Seq({NoKey} \cup ExportKeys)
      BY <1>10 DEF MintInsert, LocalsInv
    <3>2. marks' \in Seq({NoKey} \cup ExportKeys)
      BY <2>1, <3>1
    <3>3. Len(marks') = Len(marks) + 1 /\ Len(marks) \in Nat
      BY <2>1, <3>1
    <3>4. DOMAIN marks = 1..Len(marks) /\ DOMAIN marks' = 1..Len(marks')
      BY <3>1, <3>2
    <3>5. \A m \in 1..Len(marks) : marks'[m] = marks[m]
      BY <2>1, <3>1
    <3>6. marks'[Len(marks) + 1] = op[h].key
      BY <2>1, <3>1
    <3> QED BY <1>10, <3>2, <3>3, <3>4, <3>5, <3>6 DEF MintInsert, Grown, importSide, LocalsInv
  <2> DEFINE o == [op[h] EXCEPT !.mark = Len(marks) + 1]
  <2>3. o \in Locals
    BY <2>0 DEF Locals, LocalsInv
  <2>4. /\ pc' \in [Procs -> Steps] /\ op' \in [Procs -> Locals]
        /\ \A g \in Procs \ {h} : pc'[g] = pc[g] /\ op'[g] = op[g]
    BY <1>10, <2>3, GotoTypes DEF MintInsert, Steps, ExportSteps
  <2>5. pc'[h] = "auditExport" /\ op'[h] = o
    BY <1>10 DEF MintInsert, Goto, LocalsInv
  <2>6. Held(op[h], pc[h])'
    BY <2>0, <2>2, <2>5 DEF Held, Locals, Named, ExportSteps, ImportSteps
  <2> QED BY <1>10, <2>2, <2>4, <2>6, OnlyTheNew DEF MintInsert, importSide, LocalsInv
<1>11. ASSUME NEW h \in Exporters, AuditExport(h) PROVE LocalsInv'
  <2>0. op[h] \in Locals /\ Held(op[h], "auditExport") /\ pc[h] = "auditExport"
    BY <1>11 DEF AuditExport, LocalsInv
  <2>1. PICK e : e = EventOf(h, "export") OBVIOUS
  <2>2. /\ events \subseteq events'
        /\ \A f \in events' : f \in events \/ f = e
        /\ e.key # NoKey => Recorded(e.key)'
    BY <1>11, <2>1, RecordAdds DEF AuditExport
  <2>3. UNCHANGED <<marks, imports, muffled>>
    BY <1>11 DEF AuditExport, importSide
  <2>4. Grown BY <1>11, <2>2, <2>3 DEF AuditExport, Grown, LocalsInv
  <2>5. /\ e.type = "export" /\ e.key = op[h].key /\ e.user = op[h].user
        /\ e.mark = op[h].mark
    BY <2>1 DEF EventOf
  <2>6. EventOk(e)
    BY <2>0, <2>5 DEF EventOk, EventTypes, Held, Locals
  <2>7. EventOk(e)'
    BY <2>4, <2>6, StaysEventOk
  <2>8. /\ pc' \in [Procs -> Steps] /\ op' \in [Procs -> Locals]
        /\ \A g \in Procs \ {h} : pc'[g] = pc[g] /\ op'[g] = op[g]
    BY <1>11, GotoTypes, IdleHeld DEF AuditExport, Answer, Return, Steps
  <2>9. Held(op[h], pc[h])'
    <3>1. pc'[h] = "idle" /\ op'[h] = Idle
      BY <1>11 DEF AuditExport, Answer, Return, Goto, LocalsInv
    <3> QED BY <2>4, <3>1, IdleHeld, StaysHeld
  <2>10. ASSUME NEW r \in replies', r \notin replies PROVE ReplyOk(r)'
    <3>1. r = <<e.key, e.mark>> /\ op[h].action = "export" /\ e.key # NoKey
      BY <1>11, <2>5, <2>10 DEF AuditExport, Answer
    <3>2. e.key \in ExportKeys
      BY <2>0, <2>5, <3>1 DEF Held
    <3>3. e.mark \in DOMAIN marks /\ marks[e.mark] = e.key
      BY <2>0, <2>5 DEF Held
    <3> QED BY <2>2, <2>3, <3>1, <3>2, <3>3 DEF ReplyOk
  <2> QED BY <2>3, <2>4, <2>2, <2>7, <2>8, <2>9, <2>10, OnlyTheNew DEF LocalsInv
<1>12. ASSUME NEW h \in Importers, FindImport(h) PROVE LocalsInv'
  <2>0. op[h] \in Locals /\ Held(op[h], "findImport") /\ pc[h] = "findImport"
    BY <1>12 DEF FindImport, LocalsInv
  <2> DEFINE s == IF Row(h) \in imports THEN "findMark" ELSE "insertImport"
  <2>1. s \in Steps /\ Held(op[h], s)
    BY <2>0 DEF Held, Row, Steps, ExportSteps, ImportSteps
  <2>2. Goto(h, s, op[h])
    BY <1>12 DEF FindImport, Step
  <2>3. Quiet
    BY <1>12 DEF FindImport, importSide, ownerSide, Quiet, LocalsInv
  <2> QED BY <2>0, <2>1, <2>2, <2>3, GoingOn
<1>13. ASSUME NEW h \in Importers, InsertImport(h) PROVE LocalsInv'
  <2>0. op[h] \in Locals /\ Held(op[h], "insertImport") /\ pc[h] = "insertImport"
    BY <1>13 DEF InsertImport, LocalsInv
  <2>1. UNCHANGED <<marks, muffled, events, replies, quota, now>>
    BY <1>13 DEF InsertImport, ownerSide
  <2>2. imports' = imports \cup {<<op[h].mark, op[h].user>>}
    BY <1>13 DEF InsertImport, Row
  <2>3. Grown
    BY <2>1, <2>2 DEF Grown, LocalsInv
  <2>4. imports' \subseteq ({Forged} \cup DOMAIN marks) \X Users
    <3>1. op[h].mark \in {Forged} \cup DOMAIN marks /\ op[h].user \in Users
      BY <2>0 DEF Held, Named, Locals, ImportSteps
    <3> QED BY <2>2, <3>1 DEF LocalsInv
  <2>5. PICK s \in {"findImport", "findMark"} : Goto(h, s, op[h])
    BY <1>13 DEF InsertImport, Step
  <2>6. /\ pc' \in [Procs -> Steps] /\ op' \in [Procs -> Locals]
        /\ \A g \in Procs \ {h} : pc'[g] = pc[g] /\ op'[g] = op[g]
    BY <2>0, <2>5, GotoTypes DEF Steps, ImportSteps
  <2>7. pc'[h] = s /\ op'[h] = op[h]
    BY <2>5 DEF Goto, LocalsInv
  <2>8. Held(op[h], pc[h])'
    BY <2>0, <2>1, <2>2, <2>7 DEF Held, Named, ExportSteps, ImportSteps
  <2> QED BY <2>1, <2>3, <2>4, <2>6, <2>8, OnlyTheNew
<1>14. ASSUME NEW h \in Importers, FindMark(h) PROVE LocalsInv'
  <2>0. op[h] \in Locals /\ Held(op[h], "findMark") /\ pc[h] = "findMark"
    BY <1>14 DEF FindMark, LocalsInv
  <2> DEFINE s == IF CrossUserImport(h) THEN "importAlarm" ELSE "auditImport"
  <2>1. s \in Steps /\ Held(op[h], s)
    BY <2>0 DEF Held, CrossUserImport, Alarmed, Steps, ExportSteps, ImportSteps
  <2>2. Goto(h, s, op[h])
    BY <1>14 DEF FindMark, Step
  <2>3. Quiet
    BY <1>14 DEF FindMark, importSide, ownerSide, Quiet, LocalsInv
  <2> QED BY <2>0, <2>1, <2>2, <2>3, GoingOn
<1>15. ASSUME NEW h \in Importers, ImportAlarm(h) PROVE LocalsInv'
  <2>0. op[h] \in Locals /\ Held(op[h], "importAlarm") /\ pc[h] = "importAlarm"
    BY <1>15 DEF ImportAlarm, LocalsInv
  <2>1. PICK e : e = [EventOf(h, "anomaly") EXCEPT
                         !.key = CrossUser(op[h].user, op[h].mark)]
    OBVIOUS
  <2>2. /\ events \subseteq events'
        /\ \A f \in events' : f \in events \/ f = e
        /\ e.key # NoKey => Recorded(e.key)'
    BY <1>15, <2>1, RecordAdds DEF ImportAlarm
  <2>3. UNCHANGED <<marks, imports, muffled, replies, quota, now>>
    BY <1>15 DEF ImportAlarm, importSide, ownerSide
  <2>4. Grown BY <2>2, <2>3 DEF Grown, LocalsInv
  <2>5. /\ e.type = "anomaly" /\ e.user = op[h].user /\ e.mark = op[h].mark
        /\ e.key = CrossUser(op[h].user, op[h].mark)
    BY <2>1 DEF EventOf
  <2>6. EventOk(e)
    BY <2>0, <2>5, KeysApart DEF EventOk, EventTypes, Held, Locals
  <2>7. EventOk(e)'
    BY <2>4, <2>6, StaysEventOk
  <2>8. Goto(h, "auditImport", op[h])
    BY <1>15 DEF ImportAlarm, Step
  <2>9. /\ pc' \in [Procs -> Steps] /\ op' \in [Procs -> Locals]
        /\ \A g \in Procs \ {h} : pc'[g] = pc[g] /\ op'[g] = op[g]
    BY <2>0, <2>8, GotoTypes DEF Steps, ImportSteps
  <2>10. pc'[h] = "auditImport" /\ op'[h] = op[h]
    BY <2>8 DEF Goto, LocalsInv
  <2>11. Recorded(CrossUser(op[h].user, op[h].mark))'
    <3>1. e.key # NoKey BY <2>5, KeysApart
    <3>2. \E f \in events' : f.key = e.key BY <2>2, <3>1 DEF Recorded
    <3> QED BY <2>5, <2>10, <3>2 DEF Recorded
  <2>12. Held(op[h], pc[h])'
    BY <2>0, <2>3, <2>10, <2>11 DEF Held, Named, Alarmed, ExportSteps, ImportSteps
  <2> QED BY <2>2, <2>3, <2>4, <2>7, <2>9, <2>12, OnlyTheNew DEF LocalsInv
<1>16. ASSUME NEW h \in Importers, ImportAlarmFails(h) PROVE LocalsInv'
  <2>0. op[h] \in Locals /\ Held(op[h], "importAlarm") /\ pc[h] = "importAlarm"
    BY <1>16 DEF ImportAlarmFails, LocalsInv
  <2>1. UNCHANGED <<marks, imports, events, replies, quota, now>>
    BY <1>16 DEF ImportAlarmFails, ownerSide
  <2>2. muffled' = muffled \cup {<<op[h].mark, op[h].user>>}
    BY <1>16 DEF ImportAlarmFails, Row
  <2>3. Grown BY <2>1, <2>2 DEF Grown, LocalsInv
  <2>4. Goto(h, "auditImport", op[h])
    BY <1>16 DEF ImportAlarmFails, Step
  <2>5. /\ pc' \in [Procs -> Steps] /\ op' \in [Procs -> Locals]
        /\ \A g \in Procs \ {h} : pc'[g] = pc[g] /\ op'[g] = op[g]
    BY <2>0, <2>4, GotoTypes DEF Steps, ImportSteps
  <2>6. pc'[h] = "auditImport" /\ op'[h] = op[h]
    BY <2>4 DEF Goto, LocalsInv
  <2>7. Held(op[h], pc[h])'
    BY <2>0, <2>1, <2>2, <2>6 DEF Held, Named, Alarmed, ExportSteps, ImportSteps
  <2> QED BY <2>1, <2>3, <2>5, <2>7, OnlyTheNew DEF LocalsInv
<1>17. ASSUME NEW h \in Importers, AuditImport(h) PROVE LocalsInv'
  <2>0. op[h] \in Locals /\ Held(op[h], "auditImport") /\ pc[h] = "auditImport"
    BY <1>17 DEF AuditImport, LocalsInv
  <2>1. PICK e : e = EventOf(h, "import") OBVIOUS
  <2>2. events \subseteq events' /\ \A f \in events' : f \in events \/ f = e
    BY <1>17, <2>1, RecordAdds DEF AuditImport
  <2>3. UNCHANGED <<marks, imports, muffled, replies, quota, now>>
    BY <1>17 DEF AuditImport, importSide, ownerSide
  <2>4. Grown BY <2>2, <2>3 DEF Grown, LocalsInv
  <2>5. /\ e.type = "import" /\ e.key = op[h].key /\ e.user = op[h].user
        /\ e.mark = op[h].mark
    BY <2>1 DEF EventOf
  <2>6. EventOk(e)
    BY <2>0, <2>5 DEF EventOk, EventTypes, Held, Locals, ExportSteps, ImportSteps
  <2>7. EventOk(e)'
    BY <2>4, <2>6, StaysEventOk
  <2>8. /\ pc' \in [Procs -> Steps] /\ op' \in [Procs -> Locals]
        /\ \A g \in Procs \ {h} : pc'[g] = pc[g] /\ op'[g] = op[g]
    BY <1>17, GotoTypes, IdleHeld DEF AuditImport, Return, Steps
  <2>9. Held(op[h], pc[h])'
    <3>1. pc'[h] = "idle" /\ op'[h] = Idle
      BY <1>17 DEF AuditImport, Return, Goto, LocalsInv
    <3> QED BY <2>4, <3>1, IdleHeld, StaysHeld
  <2> QED BY <2>2, <2>3, <2>4, <2>7, <2>8, <2>9, OnlyTheNew DEF LocalsInv
<1>18. ASSUME Tick \/ UNCHANGED vars PROVE LocalsInv'
  <2>1. Quiet /\ UNCHANGED <<pc, op>>
    BY <1>18 DEF Tick, vars, Quiet, importSide, ownerSide, LocalsInv
  <2>2. Grown BY <2>1, QuietGrows
  <2> QED BY <2>1, <2>2, OnlyTheNew DEF Quiet, LocalsInv
<1> QED
  BY <1>1, <1>2, <1>3, <1>4, <1>5, <1>6, <1>7, <1>8, <1>9, <1>10, <1>11, <1>12,
     <1>13, <1>14, <1>15, <1>16, <1>17, <1>18 DEF Next

\* What a handler found or wrote before an await is still there when it goes
\* on: LocalsInv holds of every reachable state.
THEOREM LocalsInvariant == Spec => []LocalsInv
<1>1. LocalsInv /\ [Next]_vars => LocalsInv' BY LocalsStep
<1> QED BY <1>1, LocalsInit, PTL DEF Spec

\* Whatever the first attempts of an import died in, and however many users
\* import the same file at once, a recorded import is in the tracer and its
\* crossing from one user to another was announced (lib/watermark.js).
THEOREM ImportsTraced == Spec => []ImportsAreTraced
<1>1. LocalsInv => ImportsAreTraced
  BY DEF LocalsInv, EventOk, Alarmed, ImportsAreTraced
<1> QED BY <1>1, LocalsInvariant, PTL

\* However retries overlap, every answer to an export names a watermark minted
\* for its key, and an export is on record under that key (lib/transfer.js).
THEOREM AnswersRecorded == Spec => []AnswersAreRecorded
<1>1. LocalsInv => AnswersAreRecorded
  <2> SUFFICES ASSUME LocalsInv, NEW r \in replies
               PROVE  /\ marks[r[2]] = r[1]
                      /\ \E e \in events : /\ e.type = "export" /\ e.key = r[1]
                                           /\ marks[e.mark] = r[1]
    BY DEF AnswersAreRecorded
  <2>1. ReplyOk(r) BY DEF LocalsInv
  <2>2. PICK e \in events : e.key = r[1] BY <2>1 DEF ReplyOk, Recorded
  <2>3. EventOk(e) BY DEF LocalsInv
  <2> QED BY <2>1, <2>2, <2>3 DEF ReplyOk, EventOk
<1> QED BY <1>1, LocalsInvariant, PTL

----------------------------------------------------------------------------
(* The quota: a patch is at most one more than was charged in its window,   *)
(* and while charges do not race, one more than the quota it will replace.  *)

Follows(patch) ==
    \/ patch.windowStart = quota.windowStart /\ patch.used = quota.used + 1
    \/ patch.windowStart > quota.windowStart /\ patch.used = 1

ChargeOk(patch) ==
    /\ patch.used \in 1..MaxPerDay /\ patch.windowStart <= now
    /\ patch.used <= inWindow[patch.windowStart] + 1
    /\ ~raced => Follows(patch)

QuotaInv ==
    /\ inWindow \in [0..MaxTime -> Nat] /\ now <= MaxTime
    /\ quota.used <= MaxPerDay /\ quota.windowStart <= now
    /\ quota.used <= inWindow[quota.windowStart]
    /\ ~raced => /\ quota.used = inWindow[quota.windowStart]
                 /\ \A t \in 0..MaxTime : t > quota.windowStart => inWindow[t] = 0
    /\ \A h \in Procs : pc[h] = "charge" => ChargeOk(op[h].patch)

\* A step that writes no quota and starts no charge keeps QuotaInv.
LEMMA NoOtherCharge ==
    ASSUME QuotaInv, UNCHANGED <<quota, inWindow, raced, now>>,
           \A h \in Procs : pc'[h] = "charge" => /\ pc[h] = "charge"
                                                /\ op'[h].patch = op[h].patch
    PROVE  QuotaInv'
BY DEF QuotaInv, ChargeOk, Follows

\* QuotaInv holds before the first request.
LEMMA QuotaInit == Init => QuotaInv
BY DEF Init, QuotaInv

\* Every step keeps QuotaInv: reading, writing and the clock matter.
LEMMA QuotaStep == LocalsInv /\ QuotaInv /\ [Next]_vars => QuotaInv'
<1> SUFFICES ASSUME LocalsInv, QuotaInv, [Next]_vars PROVE QuotaInv' OBVIOUS
<1> USE DEF Procs
<1>0. pc \in [Procs -> Steps] /\ op \in [Procs -> Locals]
  BY DEF LocalsInv
<1>1. ASSUME NEW h \in Exporters, QuotaRead(h) PROVE QuotaInv'
  <2>0. UNCHANGED <<quota, inWindow, raced, now>>
    BY <1>1 DEF QuotaRead, ownerSide
  <2>1. CASE Goto(h, "mint", op[h]) \/ Return(h)
    BY <1>0, <2>0, <2>1, NoOtherCharge DEF Goto, Return
  <2>2. CASE /\ MaxPerDay # 0 /\ ~(Patch.used > MaxPerDay)
             /\ Goto(h, "charge", [op[h] EXCEPT !.patch = Patch])
    <3>1. PICK patch : patch = Patch OBVIOUS
    <3>2. patch \in Quotas /\ quota \in Quotas /\ now \in Nat
      BY <3>1, PatchTyped DEF LocalsInv
    <3>3. ChargeOk(patch)
      BY <2>2, <3>1, <3>2 DEF QuotaInv, ChargeOk, Follows, Patch, NewDay, Quotas
    <3>4. op'[h].patch = patch /\ \A g \in Procs \ {h} : pc'[g] = pc[g] /\ op'[g] = op[g]
      BY <1>0, <2>2, <3>1 DEF Goto, Locals
    <3>5. ChargeOk(patch)'
      BY <2>0, <3>3 DEF ChargeOk, Follows
    <3>6. ASSUME NEW g \in Procs, pc'[g] = "charge" PROVE ChargeOk(op[g].patch)'
      <4>1. CASE g = h BY <3>4, <3>5, <4>1 DEF ChargeOk, Follows
      <4>2. CASE g # h
        BY <2>0, <3>4, <3>6, <4>2 DEF QuotaInv, ChargeOk, Follows
      <4> QED BY <4>1, <4>2
    <3> QED BY <2>0, <3>6 DEF QuotaInv
  <2> QED BY <1>1, <2>1, <2>2 DEF QuotaRead, Step
<1>2. ASSUME NEW h \in Exporters, QuotaWrite(h) PROVE QuotaInv'
  <2>1. PICK patch : patch = op[h].patch OBVIOUS
  <2>2. /\ patch \in Quotas /\ quota \in Quotas /\ now \in Nat /\ now' = now
        /\ ChargeOk(patch)
    BY <1>2, <2>1 DEF QuotaWrite, LocalsInv, QuotaInv, Locals
  <2>3. /\ quota' = patch
        /\ inWindow' = [inWindow EXCEPT ![patch.windowStart] = @ + 1]
    BY <1>2, <2>1 DEF QuotaWrite
  <2>4. /\ raced => raced'
        /\ ~raced' => \A g \in Procs \ {h} : pc[g] # "charge"
    BY <1>2 DEF QuotaWrite
  <2>5. pc'[h] = "mint" /\ \A g \in Procs \ {h} : pc'[g] = pc[g] /\ op'[g] = op[g]
    BY <1>0, <1>2 DEF QuotaWrite, Goto
  <2>6. /\ patch.windowStart \in 0..MaxTime /\ patch.used \in Nat
        /\ inWindow \in [0..MaxTime -> Nat] /\ now \in 0..MaxTime
    BY <2>2 DEF QuotaInv, ChargeOk, Quotas
  <2>7. /\ inWindow' \in [0..MaxTime -> Nat]
        /\ inWindow'[patch.windowStart] = inWindow[patch.windowStart] + 1
        /\ \A t \in 0..MaxTime \ {patch.windowStart} : inWindow'[t] = inWindow[t]
    BY <2>3, <2>6
  <2>8. quota'.used <= inWindow'[quota'.windowStart]
    BY <2>2, <2>3, <2>7 DEF ChargeOk
  <2>9. ASSUME ~raced'
        PROVE  /\ quota'.used = inWindow'[quota'.windowStart]
               /\ \A t \in 0..MaxTime : t > quota'.windowStart => inWindow'[t] = 0
    <3>1. /\ Follows(patch) /\ quota.used = inWindow[quota.windowStart]
          /\ \A t \in 0..MaxTime : t > quota.windowStart => inWindow[t] = 0
      BY <2>2, <2>4, <2>9 DEF QuotaInv, ChargeOk
    <3>2. quota.used \in Nat /\ quota.windowStart \in Nat BY <2>2 DEF Quotas
    <3>3. quota'.used = inWindow'[quota'.windowStart]
      BY <2>3, <2>6, <2>7, <3>1, <3>2 DEF Follows
    <3>4. ASSUME NEW t \in 0..MaxTime, t > quota'.windowStart PROVE inWindow'[t] = 0
      <4>1. t > quota.windowStart /\ t # patch.windowStart
        BY <2>3, <2>6, <3>1, <3>2, <3>4 DEF Follows
      <4> QED BY <2>7, <3>1, <4>1
    <3> QED BY <3>3, <3>4
  <2>10. ASSUME NEW g \in Procs, pc'[g] = "charge" PROVE ChargeOk(op[g].patch)'
    <3>1. g \in Procs \ {h} /\ pc[g] = "charge" /\ op'[g] = op[g] BY <2>5, <2>10
    <3>2. ~ ~raced' BY <2>4, <3>1
    <3>3. ChargeOk(op[g].patch) /\ op[g].patch \in Quotas
      BY <1>0, <3>1 DEF QuotaInv, Locals
    <3>4. op[g].patch.windowStart \in 0..MaxTime /\ op[g].patch.used \in Nat
      BY <2>6, <3>3 DEF ChargeOk, Quotas
    <3>5. ASSUME NEW t \in 0..MaxTime, NEW used \in Nat, used <= inWindow[t] + 1
          PROVE  used <= inWindow'[t] + 1
      <4>1. inWindow[t] \in Nat /\ inWindow'[t] \in Nat BY <2>6, <2>7
      <4>2. CASE t = patch.windowStart BY <2>7, <3>5, <4>1, <4>2
      <4>3. CASE t # patch.windowStart BY <2>7, <3>5, <4>3
      <4> QED BY <4>2, <4>3
    <3>6. op[g].patch.used <= inWindow'[op[g].patch.windowStart] + 1
      <4>1. op[g].patch.used <= inWindow[op[g].patch.windowStart] + 1 BY <3>3 DEF ChargeOk
      <4>. QED BY <3>4, <3>5, <4>1
    <3> QED BY <2>2, <3>1, <3>2, <3>3, <3>6 DEF ChargeOk
  <2> QED BY <2>2, <2>3, <2>6, <2>7, <2>8, <2>9, <2>10 DEF QuotaInv, ChargeOk, Quotas
<1>3. ASSUME Tick PROVE QuotaInv'
  BY <1>3 DEF Tick, QuotaInv, ChargeOk, Follows, LocalsInv, Locals, Quotas, ownerSide
<1>4. ASSUME UNCHANGED vars PROVE QuotaInv'
  BY <1>4, NoOtherCharge DEF vars, ownerSide
<1>5. ASSUME NEW h \in Procs, Lookup(h) \/ Check(h) \/ Refuse(h) \/ Die(h)
      PROVE  QuotaInv'
  <2>1. UNCHANGED <<quota, inWindow, raced, now>>
    BY <1>5 DEF Lookup, Check, Refuse, Die, ownerSide
  <2>2. \E s \in Steps \ {"charge"}, o \in Locals : Goto(h, s, o)
    <3>1. Idle \in Locals /\ "idle" \in Steps \ {"charge"}
      BY IdleHeld DEF Steps
    <3>2. op[h] \in Locals BY <1>0
    <3>3. CASE Return(h) BY <3>1, <3>3 DEF Return
    <3>4. CASE Lookup(h)
      BY <3>2, <3>3, <3>4 DEF Lookup, Answer, Step, Steps
    <3>5. CASE Check(h)
      <4>1. pc[h] = "check" /\ Held(op[h], "check") BY <3>5 DEF Check, LocalsInv
      <4>2. op[h].action \in {"export", "import"} BY <3>2, <4>1 DEF Held, Locals
      <4>3. \E s \in {"quota", "auditImport", "findImport"} : Goto(h, s, op[h])
        BY <3>5, <4>2 DEF Check, Step
      <4> QED BY <3>2, <4>3 DEF Steps, ExportSteps, ImportSteps
    <3> QED BY <1>5, <3>3, <3>4, <3>5 DEF Refuse, Die
  <2> QED BY <1>0, <2>1, <2>2, NoOtherCharge DEF Goto
<1>6. ASSUME NEW h \in Exporters, BeginExport(h) \/ MintFind(h) \/ MintInsert(h) \/ AuditExport(h)
      PROVE  QuotaInv'
  <2>1. UNCHANGED <<quota, inWindow, raced, now>>
    BY <1>6 DEF BeginExport, MintFind, MintInsert, AuditExport, ownerSide
  <2>2. \E s \in Steps \ {"charge"} : pc' = [pc EXCEPT ![h] = s]
                                   /\ \A g \in Procs \ {h} : op'[g] = op[g]
    BY <1>0, <1>6 DEF BeginExport, MintFind, MintInsert, AuditExport, Answer,
                      Return, Step, Goto, Steps, ExportSteps
  <2> QED BY <1>0, <2>1, <2>2, NoOtherCharge
<1>7. ASSUME NEW h \in Importers,
             \/ BeginImport(h) \/ FindImport(h) \/ InsertImport(h) \/ FindMark(h)
             \/ ImportAlarm(h) \/ ImportAlarmFails(h) \/ AuditImport(h)
      PROVE  QuotaInv'
  <2>1. UNCHANGED <<quota, inWindow, raced, now>>
    BY <1>7 DEF BeginImport, FindImport, InsertImport, FindMark, ImportAlarm,
                ImportAlarmFails, AuditImport, ownerSide
  <2>2. \E s \in Steps \ {"charge"} : pc' = [pc EXCEPT ![h] = s]
                                   /\ \A g \in Procs \ {h} : op'[g] = op[g]
    BY <1>0, <1>7 DEF BeginImport, FindImport, InsertImport, FindMark, ImportAlarm,
                      ImportAlarmFails, AuditImport, Return, Step, Goto, Steps, ImportSteps
  <2> QED BY <1>0, <2>1, <2>2, NoOtherCharge
<1> QED
  BY <1>1, <1>2, <1>3, <1>4, <1>5, <1>6, <1>7 DEF Next

\* QuotaInv holds of every reachable state: a charge in flight is at most one
\* more than its window has had, and an unraced one the quota and one more.
THEOREM QuotaInvariant == Spec => [](LocalsInv /\ QuotaInv)
<1>1. LocalsInv /\ QuotaInv /\ [Next]_vars => LocalsInv' /\ QuotaInv'
  BY LocalsStep, QuotaStep
<1> QED BY <1>1, LocalsInit, QuotaInit, PTL DEF Spec

\* The quota never counts more than was charged in its window, and, unless two
\* requests were charging at the same time, it counts every charge, and so caps
\* them (lib/transfer.js, enforceExportQuota).
THEOREM QuotaCounts == Spec => []QuotaCountsCharges
<1>1. LocalsInv /\ QuotaInv => QuotaCountsCharges
  BY DEF QuotaInv, QuotaCountsCharges
<1> QED BY <1>1, QuotaInvariant, PTL

\* Type correctness of what transfers store and answer.
THEOREM TransfersTyped == Spec => []TypeOK
<1>1. LocalsInv /\ QuotaInv => TypeOK
  <2> SUFFICES ASSUME LocalsInv, QuotaInv PROVE TypeOK OBVIOUS
  <2>1. quota.used \in 0..MaxPerDay /\ quota.windowStart \in 0..now
    BY DEF LocalsInv, QuotaInv, Quotas
  <2>2. \A e \in events : EventOk(e) BY DEF LocalsInv
  <2>3. \A r \in replies : ReplyOk(r) BY DEF LocalsInv
  <2> QED BY <2>1, <2>2, <2>3 DEF TypeOK, LocalsInv, EventOk, ReplyOk, Named
<1> QED BY <1>1, QuotaInvariant, PTL
----------------------------------------------------------------------------
(* The retries of a key that is never in flight twice at once.             *)

OrderOf(k) ==
    LET key == ExportKey(k) IN
    /\ \A g, h \in InFlight(key) : g = h
    /\ \A m, n \in MarksOf(key) : m = n
    /\ \A h \in InFlight(key) :
          /\ pc[h] # "lookup" => ~Recorded(key)
          /\ pc[h] = "mintInsert" => MarksOf(key) = {}
    /\ charges[k] <= 1 + lost[k]
    /\ Recorded(key) \/ charges[k] <= lost[k] \/ \E h \in InFlight(key) : op[h].charged

OrderInv ==
    /\ charges \in [Keys -> Nat] /\ lost \in [Keys -> Nat]
    /\ \A k \in Orderly : OrderOf(k)

\* Nothing was stored, recorded, charged or lost under the key.
Untouched(k) ==
    /\ MarksOf(ExportKey(k))' = MarksOf(ExportKey(k))
    /\ Recorded(ExportKey(k))' <=> Recorded(ExportKey(k))
    /\ charges'[k] = charges[k] /\ lost'[k] = lost[k]

\* The requests under a key go on without touching it, or leave it.
LEMMA OrderKept ==
    ASSUME NEW k \in Keys, OrderOf(k), Untouched(k),
           InFlight(ExportKey(k))' \subseteq InFlight(ExportKey(k)),
           \A g \in InFlight(ExportKey(k))' :
              /\ pc'[g] # "lookup" => pc[g] # "lookup" \/ ~Recorded(ExportKey(k))
              /\ pc'[g] = "mintInsert" =>
                    pc[g] = "mintInsert" \/ MarksOf(ExportKey(k)) = {}
              /\ op'[g].charged = op[g].charged,
           \A g \in InFlight(ExportKey(k)) :
              g \in InFlight(ExportKey(k))' \/ ~op[g].charged
    PROVE  OrderOf(k)'
<1> DEFINE key == ExportKey(k)
           F == InFlight(ExportKey(k))
           M == MarksOf(ExportKey(k))
           R == Recorded(ExportKey(k))
<1>1. \A g, h \in F' : g = h BY DEF OrderOf
<1>2. \A m, n \in M' : m = n BY DEF OrderOf, Untouched
<1>3. \A h \in F' : (pc'[h] # "lookup" => ~R') /\ (pc'[h] = "mintInsert" => M' = {})
  BY DEF OrderOf, Untouched
<1>4. charges'[k] <= 1 + lost'[k] BY DEF OrderOf, Untouched
<1>5. R' \/ charges'[k] <= lost'[k] \/ \E h \in F' : op'[h].charged
  BY DEF OrderOf, Untouched
<1> QED BY <1>1, <1>2, <1>3, <1>4, <1>5 DEF OrderOf

\* A request moves, and no other: who is in flight under a key.
LEMMA InFlightAfter ==
    ASSUME LocalsInv, NEW h \in Procs, NEW s, NEW o, Goto(h, s, o), NEW key
    PROVE  /\ InFlight(key)' = IF s # "idle" /\ o.key = key
                               THEN InFlight(key) \cup {h} ELSE InFlight(key) \ {h}
           /\ pc'[h] = s /\ op'[h] = o
           /\ \A g \in Procs \ {h} : pc'[g] = pc[g] /\ op'[g] = op[g]
BY DEF LocalsInv, Goto, InFlight

\* A request goes on, under the same key, with nothing charged or minted.
LEMMA OrderGoesOn ==
    ASSUME LocalsInv, NEW k \in Keys, OrderOf(k), Untouched(k), NEW h \in Procs,
           NEW s, NEW o, Goto(h, s, o),
           pc[h] # "idle", s \notin {"idle", "lookup"},
           o.key = op[h].key, o.charged = op[h].charged,
           pc[h] = "lookup" => ~Recorded(op[h].key),
           s = "mintInsert" => MarksOf(op[h].key) = {} \/ op[h].key = NoKey
    PROVE  OrderOf(k)'
<1> DEFINE key == ExportKey(k)
<1>1. InFlight(key)' = InFlight(key)
  BY InFlightAfter DEF InFlight
<1>2. key # NoKey
  BY KeysApart DEF ExportKeys
<1>3. ASSUME NEW g \in InFlight(key)'
      PROVE  /\ pc'[g] # "lookup" => pc[g] # "lookup" \/ ~Recorded(key)
             /\ pc'[g] = "mintInsert" => pc[g] = "mintInsert" \/ MarksOf(key) = {}
             /\ op'[g].charged = op[g].charged
  <2>1. g \in Procs /\ op[g].key = key BY <1>1, <1>3 DEF InFlight
  <2>2. CASE g = h BY <1>2, <2>1, <2>2, InFlightAfter
  <2>3. CASE g # h BY <2>1, <2>3, InFlightAfter
  <2> QED BY <2>2, <2>3
<1> QED BY <1>1, <1>3, OrderKept

\* A request ends without a charge.
LEMMA OrderLeaves ==
    ASSUME LocalsInv, NEW k \in Keys, OrderOf(k), Untouched(k), NEW h \in Procs,
           Return(h), ~op[h].charged \/ op[h].key # ExportKey(k)
    PROVE  OrderOf(k)'
<1> DEFINE key == ExportKey(k)
<1>1. Goto(h, "idle", Idle) BY DEF Return
<1>2. InFlight(key)' = InFlight(key) \ {h}
  BY <1>1, InFlightAfter
<1>3. \A g \in InFlight(key)' : pc'[g] = pc[g] /\ op'[g] = op[g]
  <2>1. InFlight(key)' \subseteq Procs \ {h} BY <1>2 DEF InFlight
  <2> QED BY <1>1, <2>1, InFlightAfter
<1>4. ASSUME NEW g \in InFlight(key) PROVE g \in InFlight(key)' \/ ~op[g].charged
  BY <1>2 DEF InFlight
<1> QED BY <1>2, <1>3, <1>4, OrderKept

\* A request that is not in flight under the key changes only where it is.
LEMMA OrderElsewhere ==
    ASSUME LocalsInv, NEW k \in Keys, OrderOf(k), Untouched(k), NEW h \in Procs,
           NEW s, NEW o, Goto(h, s, o), h \notin InFlight(ExportKey(k)),
           o.key # ExportKey(k)
    PROVE  OrderOf(k)'
<1> DEFINE key == ExportKey(k)
<1>1. InFlight(key)' = InFlight(key)
  <2>1. InFlight(key)' = InFlight(key) \ {h} BY InFlightAfter
  <2> QED BY <2>1
<1>2. \A g \in InFlight(key)' : pc'[g] = pc[g] /\ op'[g] = op[g]
  <2>1. InFlight(key)' \subseteq Procs \ {h} BY <1>1 DEF InFlight
  <2> QED BY <2>1, InFlightAfter
<1> QED BY <1>1, <1>2, OrderKept

\* An event under another key leaves this one as it was.
LEMMA RecordElsewhere ==
    ASSUME NEW e, NEW key, Record(e), e.key # key
    PROVE  Recorded(key)' <=> Recorded(key)
BY DEF Record, Recorded
\* OrderInv holds before the first request.
LEMMA OrderInit == Init => OrderInv
<1> SUFFICES ASSUME Init PROVE OrderInv OBVIOUS
<1>1. charges \in [Keys -> Nat] /\ lost \in [Keys -> Nat] BY DEF Init
<1>2. ASSUME NEW k \in Keys PROVE OrderOf(k)
  <2>1. InFlight(ExportKey(k)) = {} BY DEF Init, InFlight
  <2>2. MarksOf(ExportKey(k)) = {}
    BY KeysApart DEF Init, MarksOf, ExportKeys
  <2>3. charges[k] = 0 /\ lost[k] = 0 BY DEF Init
  <2> QED BY <2>1, <2>2, <2>3 DEF OrderOf
<1> QED BY <1>1, <1>2 DEF OrderInv, Orderly

\* What a request starts with.
LEMMA OrderBegins ==
    ASSUME LocalsInv, NEW k \in Keys, OrderOf(k), Untouched(k), NEW h \in Procs,
           NEW o, Goto(h, "lookup", o), o.key = ExportKey(k), ~o.charged,
           InFlight(ExportKey(k)) = {}
    PROVE  OrderOf(k)'
<1> DEFINE key == ExportKey(k)
<1>1. InFlight(key)' = {h}
  <2>1. InFlight(key)' = InFlight(key) \cup {h} BY InFlightAfter
  <2> QED BY <2>1
<1>2. pc'[h] = "lookup" BY InFlightAfter
<1>3. \A m, n \in MarksOf(key)' : m = n BY DEF OrderOf, Untouched
<1>4. charges'[k] <= 1 + lost'[k] /\ (Recorded(key)' \/ charges'[k] <= lost'[k])
  BY DEF OrderOf, Untouched
<1> QED BY <1>1, <1>2, <1>3, <1>4 DEF OrderOf

\* The charge: the only request under the key, not charged before.
LEMMA OrderCharge ==
    ASSUME LocalsInv, NEW k \in Keys, OrderOf(k), NEW h \in Exporters, QuotaWrite(h),
           charges \in [Keys -> Nat], lost \in [Keys -> Nat]
    PROVE  OrderOf(k)'
<1> DEFINE key == ExportKey(k)
<1>0. h \in Procs /\ op[h] \in Locals /\ Held(op[h], "charge") /\ pc[h] = "charge"
  BY DEF QuotaWrite, Procs, LocalsInv
<1>1. PICK o : Goto(h, "mint", o) /\ o.key = op[h].key /\ o.charged
  BY <1>0 DEF QuotaWrite, Locals
<1>2. MarksOf(key)' = MarksOf(key) /\ (Recorded(key)' <=> Recorded(key)) /\ lost'[k] = lost[k]
  BY DEF QuotaWrite, MarksOf, Recorded
<1>3. CASE op[h].key = key
  <2>1. h \in InFlight(key) /\ InFlight(key)' = InFlight(key)
    <3>1. h \in InFlight(key) BY <1>0, <1>3 DEF InFlight
    <3>2. InFlight(key)' = InFlight(key) \cup {h} BY <1>0, <1>1, <1>3, InFlightAfter
    <3> QED BY <3>1, <3>2
  <2>2. \A g \in InFlight(key)' : g = h BY <2>1 DEF OrderOf
  <2>3. pc'[h] = "mint" /\ op'[h].charged BY <1>0, <1>1, InFlightAfter
  <2>4. ~Recorded(key) BY <1>0, <2>1 DEF OrderOf
  <2>5. \A g \in InFlight(key) : ~op[g].charged
    BY <1>0, <2>1, <2>2 DEF Held
  <2>6. charges[k] <= lost[k] BY <2>4, <2>5 DEF OrderOf
  <2>7. charges'[k] = charges[k] + 1 BY <1>3 DEF QuotaWrite, Counted
  <2>8. charges'[k] <= 1 + lost'[k] BY <1>2, <2>6, <2>7
  <2>9. \A m, n \in MarksOf(key)' : m = n BY <1>2 DEF OrderOf
  <2> QED BY <1>2, <2>1, <2>2, <2>3, <2>4, <2>8, <2>9 DEF OrderOf
<1>4. CASE op[h].key # key
  <2>1. charges'[k] = charges[k] BY <1>4 DEF QuotaWrite, Counted
  <2>2. Untouched(k) BY <1>2, <2>1 DEF Untouched
  <2>3. h \notin InFlight(key) BY <1>4 DEF InFlight
  <2> QED BY <1>0, <1>1, <1>4, <2>2, <2>3, OrderElsewhere
<1> QED BY <1>3, <1>4

\* The insert of the watermark: there was none, and no other request mints.
LEMMA OrderMint ==
    ASSUME LocalsInv, NEW k \in Keys, OrderOf(k), NEW h \in Exporters, MintInsert(h)
    PROVE  OrderOf(k)'
<1> DEFINE key == ExportKey(k)
<1>0. h \in Procs /\ op[h] \in Locals /\ pc[h] = "mintInsert"
      /\ marks \in Seq({NoKey} \cup ExportKeys) /\ key # NoKey
  BY KeysApart DEF MintInsert, Procs, LocalsInv, ExportKeys
<1>1. PICK o : Goto(h, "auditExport", o) /\ o.key = op[h].key /\ o.charged = op[h].charged
  BY <1>0 DEF MintInsert, Locals
<1>2. (Recorded(key)' <=> Recorded(key)) /\ lost'[k] = lost[k] /\ charges'[k] = charges[k]
  BY DEF MintInsert, Recorded
<1>3. CASE op[h].key = key
  <2>1. h \in InFlight(key) /\ InFlight(key)' = InFlight(key)
    <3>1. h \in InFlight(key) BY <1>0, <1>3 DEF InFlight
    <3>2. InFlight(key)' = InFlight(key) \cup {h} BY <1>0, <1>1, <1>3, InFlightAfter
    <3> QED BY <3>1, <3>2
  <2>2. \A g \in InFlight(key)' : g = h BY <2>1 DEF OrderOf
  <2>3. pc'[h] = "auditExport" /\ op'[h].charged = op[h].charged
    BY <1>0, <1>1, InFlightAfter
  <2>4. ~Recorded(key) /\ MarksOf(key) = {} BY <1>0, <2>1 DEF OrderOf
  <2>5. \A m \in MarksOf(key)' : m = Len(marks) + 1
    BY <1>0, <2>4 DEF MintInsert, MarksOf
  <2>6. charges'[k] <= 1 + lost'[k] BY <1>2 DEF OrderOf
  <2>7. charges'[k] <= lost'[k] \/ \E g \in InFlight(key)' : op'[g].charged
    BY <1>2, <2>1, <2>2, <2>3, <2>4 DEF OrderOf
  <2> QED BY <1>2, <2>2, <2>3, <2>4, <2>5, <2>6, <2>7 DEF OrderOf
<1>4. CASE op[h].key # key
  <2>1. MarksOf(key)' = MarksOf(key) BY <1>0, <1>4 DEF MintInsert, MarksOf
  <2>2. Untouched(k) BY <1>2, <2>1 DEF Untouched
  <2>3. h \notin InFlight(key) BY <1>4 DEF InFlight
  <2> QED BY <1>0, <1>1, <1>4, <2>2, <2>3, OrderElsewhere
<1> QED BY <1>3, <1>4

\* The event: from now on a retry is answered by its lookup.
LEMMA OrderRecord ==
    ASSUME LocalsInv, NEW k \in Keys, OrderOf(k), NEW h \in Exporters, AuditExport(h)
    PROVE  OrderOf(k)'
<1> DEFINE key == ExportKey(k)
<1>0. h \in Procs /\ Goto(h, "idle", Idle) /\ key # NoKey /\ Idle.key = NoKey
  BY KeysApart DEF AuditExport, Answer, Return, Procs, ExportKeys, Idle
<1>1. PICK e : Record(e) /\ e.key = op[h].key
  BY DEF AuditExport, EventOf
<1>2. MarksOf(key)' = MarksOf(key) /\ lost'[k] = lost[k] /\ charges'[k] = charges[k]
  BY DEF AuditExport, MarksOf
<1>3. CASE op[h].key = key
  <2>1. InFlight(key)' = {}
    <3>1. h \in InFlight(key) BY <1>3 DEF InFlight, AuditExport, Procs
    <3>2. InFlight(key)' = InFlight(key) \ {h} BY <1>0, InFlightAfter
    <3> QED BY <3>1, <3>2 DEF OrderOf
  <2>2. Recorded(key)' BY <1>0, <1>1, <1>3, RecordAdds
  <2>3. charges'[k] <= 1 + lost'[k] /\ \A m, n \in MarksOf(key)' : m = n
    BY <1>2 DEF OrderOf
  <2> QED BY <2>1, <2>2, <2>3 DEF OrderOf
<1>4. CASE op[h].key # key
  <2>1. Untouched(k) BY <1>1, <1>2, <1>4, RecordElsewhere DEF Untouched
  <2>2. h \notin InFlight(key) BY <1>4 DEF InFlight
  <2> QED BY <1>0, <2>1, <2>2, OrderElsewhere
<1> QED BY <1>3, <1>4

\* A death: after a charge it counts as a loss.
LEMMA OrderLoss ==
    ASSUME LocalsInv, NEW k \in Keys, OrderOf(k), NEW h \in Procs, Die(h),
           charges \in [Keys -> Nat], lost \in [Keys -> Nat]
    PROVE  OrderOf(k)'
<1> DEFINE key == ExportKey(k)
<1>1. MarksOf(key)' = MarksOf(key) /\ (Recorded(key)' <=> Recorded(key))
      /\ charges'[k] = charges[k]
  BY DEF Die, MarksOf, Recorded, ownerSide
<1>2. CASE op[h].charged /\ op[h].key = key
  <2>1. InFlight(key)' = {}
    <3>1. h \in InFlight(key) BY <1>2 DEF InFlight, Die
    <3>2. InFlight(key)' = InFlight(key) \ {h} BY InFlightAfter DEF Die, Return
    <3> QED BY <3>1, <3>2 DEF OrderOf
  <2>2. lost'[k] = lost[k] + 1 BY <1>2 DEF Die
  <2>3. charges'[k] <= lost'[k] /\ lost'[k] \in Nat /\ charges'[k] \in Nat
    BY <1>1, <2>2 DEF OrderOf
  <2>4. \A m, n \in MarksOf(key)' : m = n BY <1>1 DEF OrderOf
  <2>5. charges'[k] <= 1 + lost'[k] BY <2>3
  <2> QED BY <2>1, <2>3, <2>4, <2>5 DEF OrderOf
<1>3. CASE ~op[h].charged \/ op[h].key # key
  <2>1. lost'[k] = lost[k]
    <3>1. ExportKey(k) = key OBVIOUS
    <3> QED BY <1>3, <3>1 DEF Die
  <2>2. Untouched(k) BY <1>1, <2>1 DEF Untouched
  <2> QED BY <1>3, <2>2, OrderLeaves DEF Die
<1> QED BY <1>2, <1>3
\* Every step keeps OrderInv: one case per action.
LEMMA OrderStep == LocalsInv /\ OrderInv /\ [Next]_vars => OrderInv'
<1> SUFFICES ASSUME LocalsInv, OrderInv, [Next]_vars PROVE OrderInv' OBVIOUS
<1> USE DEF Procs
<1>1. charges' \in [Keys -> Nat] /\ lost' \in [Keys -> Nat]
  <2>1. charges' = charges \/ \E h \in Exporters : QuotaWrite(h)
    BY DEF Next, vars, ownerSide, BeginExport, QuotaRead, MintFind, MintInsert, AuditExport,
           BeginImport, FindImport, InsertImport, FindMark, ImportAlarm,
           ImportAlarmFails, AuditImport, Lookup, Check, Refuse, Die, Tick
  <2>2. lost' = lost \/ \E h \in Procs : Die(h)
    BY DEF Next, vars, BeginExport, QuotaRead, QuotaWrite, MintFind, MintInsert, AuditExport,
           BeginImport, FindImport, InsertImport, FindMark, ImportAlarm,
           ImportAlarmFails, AuditImport, Lookup, Check, Refuse, Tick
  <2>3. charges' \in [Keys -> Nat]
    <3>1. \A h : Counted(op[h].key) \in [Keys -> Nat] BY DEF OrderInv, Counted
    <3> QED BY <2>1, <3>1 DEF OrderInv, QuotaWrite
  <2>4. lost' \in [Keys -> Nat]
    BY <2>2 DEF OrderInv, Die
  <2> QED BY <2>3, <2>4
<1>2. ASSUME NEW k \in Orderly' PROVE OrderOf(k)'
  <2>1. ExportKey(k) \notin overlapped' /\ k \in Keys BY <1>2 DEF Orderly
  <2>2. overlapped \subseteq overlapped'
    BY DEF Next, vars, ownerSide, BeginExport, QuotaRead, QuotaWrite, MintFind, MintInsert, AuditExport,
           BeginImport, FindImport, InsertImport, FindMark, ImportAlarm,
           ImportAlarmFails, AuditImport, Lookup, Check, Refuse, Die, Tick
  <2>3. OrderOf(k) BY <2>1, <2>2 DEF OrderInv, Orderly
  <2>4. ASSUME UNCHANGED <<marks, events, charges, lost>> PROVE Untouched(k)
    BY <2>4 DEF Untouched, MarksOf, Recorded
  <2>5. ASSUME NEW h \in Exporters, BeginExport(h) PROVE OrderOf(k)'
    <3>1. PICK key, o : /\ Goto(h, IF key = NoKey THEN "check" ELSE "lookup", o)
                        /\ o.key = key /\ ~o.charged
                        /\ overlapped' = IF key # NoKey /\ InFlight(key) # {}
                                         THEN overlapped \cup {key} ELSE overlapped
      <4>1. PICK key : /\ Goto(h, IF key = NoKey THEN "check" ELSE "lookup",
                               [Idle EXCEPT !.action = "export", !.key = key])
                       /\ overlapped' = IF key # NoKey /\ InFlight(key) # {}
                                        THEN overlapped \cup {key} ELSE overlapped
        BY <2>5 DEF BeginExport
      <4>2. PICK o : o = [Idle EXCEPT !.action = "export", !.key = key] OBVIOUS
      <4>3. o.key = key /\ ~o.charged BY <4>2 DEF Idle
      <4> QED BY <4>1, <4>2, <4>3
    <3>2. Untouched(k) BY <2>4, <2>5 DEF BeginExport
    <3>3. CASE key = ExportKey(k)
      <4>1. key # NoKey BY <2>1, <3>3, KeysApart DEF ExportKeys
      <4>2. InFlight(key) = {} BY <2>1, <3>1, <3>3, <4>1
      <4> QED BY <2>1, <2>3, <3>1, <3>2, <3>3, <4>1, <4>2, OrderBegins
    <3>4. CASE key # ExportKey(k)
      <4>1. h \notin InFlight(ExportKey(k)) BY <2>5 DEF BeginExport, InFlight
      <4> QED BY <2>1, <2>3, <3>1, <3>2, <3>4, <4>1, OrderElsewhere
    <3> QED BY <3>3, <3>4
  <2>6. ASSUME NEW h \in Procs, Lookup(h) PROVE OrderOf(k)'
    <3>1. Untouched(k) BY <2>4, <2>6 DEF Lookup
    <3>2. Held(op[h], "lookup") /\ pc[h] = "lookup" BY <2>6 DEF Lookup, LocalsInv
    <3>3. CASE Recorded(op[h].key)
      <4>1. Return(h) BY <2>6, <3>3 DEF Lookup, Answer
      <4>2. ~op[h].charged BY <3>2 DEF Held
      <4> QED BY <2>1, <2>3, <3>1, <4>1, <4>2, OrderLeaves
    <3>4. CASE ~Recorded(op[h].key)
      <4>1. Goto(h, "check", op[h]) BY <2>6, <3>4 DEF Lookup, Step
      <4> QED BY <2>1, <2>3, <3>1, <3>2, <3>4, <4>1, OrderGoesOn
    <3> QED BY <3>3, <3>4
  <2>7. ASSUME NEW h \in Procs, Check(h) PROVE OrderOf(k)'
    <3>1. Untouched(k) BY <2>4, <2>7 DEF Check, ownerSide
    <3>2. op[h] \in Locals /\ Held(op[h], "check") /\ pc[h] = "check"
      BY <2>7 DEF Check, LocalsInv
    <3>3. op[h].action \in {"export", "import"} BY <3>2 DEF Held, Locals
    <3>4. \E s \in {"quota", "auditImport", "findImport"} : Goto(h, s, op[h])
      BY <2>7, <3>3 DEF Check, Step
    <3> QED BY <2>1, <2>3, <3>1, <3>2, <3>4, OrderGoesOn
  <2>8. ASSUME NEW h \in Procs, Refuse(h) PROVE OrderOf(k)'
    <3>1. Untouched(k) BY <2>4, <2>8 DEF Refuse, ownerSide
    <3>2. Held(op[h], "check") BY <2>8 DEF Refuse, LocalsInv
    <3>3. ~op[h].charged /\ Return(h) BY <2>8, <3>2 DEF Refuse, Held
    <3> QED BY <2>1, <2>3, <3>1, <3>3, OrderLeaves
  <2>9. ASSUME NEW h \in Exporters, QuotaRead(h) PROVE OrderOf(k)'
    <3>1. Untouched(k) BY <2>4, <2>9 DEF QuotaRead, ownerSide
    <3>2. op[h] \in Locals /\ Held(op[h], "quota") /\ pc[h] = "quota" /\ h \in Procs
      BY <2>9 DEF QuotaRead, LocalsInv
    <3>3. PICK patch : patch = Patch OBVIOUS
    <3>4. \/ Return(h) \/ Goto(h, "mint", op[h])
          \/ Goto(h, "charge", [op[h] EXCEPT !.patch = patch])
      BY <2>9, <3>3 DEF QuotaRead, Step
    <3>5. CASE Return(h)
      BY <2>1, <2>3, <3>1, <3>2, <3>5, OrderLeaves DEF Held
    <3>6. CASE ~Return(h)
      <4>1. \E s \in {"mint", "charge"} : \E o :
               Goto(h, s, o) /\ o.key = op[h].key /\ o.charged = op[h].charged
        BY <3>2, <3>4, <3>6 DEF Locals
      <4> QED BY <2>1, <2>3, <3>1, <3>2, <4>1, OrderGoesOn
    <3> QED BY <3>5, <3>6
  <2>10. ASSUME NEW h \in Exporters, MintFind(h) PROVE OrderOf(k)'
    <3>1. Untouched(k) BY <2>4, <2>10 DEF MintFind, ownerSide
    <3>2. op[h] \in Locals /\ pc[h] = "mint" /\ h \in Procs
      BY <2>10 DEF MintFind, LocalsInv
    <3>3. CASE op[h].key # NoKey /\ \E m \in DOMAIN marks : marks[m] = op[h].key
      <4>1. \E o : /\ Goto(h, "auditExport", o) /\ o.key = op[h].key
                   /\ o.charged = op[h].charged
        <5>1. PICK m : Goto(h, "auditExport", [op[h] EXCEPT !.mark = m])
          BY <2>10, <3>3 DEF MintFind
        <5>2. PICK o : o = [op[h] EXCEPT !.mark = m] OBVIOUS
        <5>3. o.key = op[h].key /\ o.charged = op[h].charged BY <3>2, <5>2 DEF Locals
        <5> QED BY <5>1, <5>2, <5>3
      <4> QED BY <2>1, <2>3, <3>1, <3>2, <4>1, OrderGoesOn
    <3>4. CASE ~(op[h].key # NoKey /\ \E m \in DOMAIN marks : marks[m] = op[h].key)
      <4>1. Goto(h, "mintInsert", op[h]) BY <2>10, <3>4 DEF MintFind, Step
      <4>2. MarksOf(op[h].key) = {} \/ op[h].key = NoKey BY <3>4 DEF MarksOf
      <4> QED BY <2>1, <2>3, <3>1, <3>2, <4>1, <4>2, OrderGoesOn
    <3> QED BY <3>3, <3>4
  <2>11. ASSUME NEW h \in Importers,
                \/ BeginImport(h) \/ FindImport(h) \/ InsertImport(h) \/ FindMark(h)
                \/ ImportAlarm(h) \/ ImportAlarmFails(h) \/ AuditImport(h)
         PROVE  OrderOf(k)'
    <3>1. ExportKey(k) # NoKey /\ ExportKey(k) \in ExportKeys
          /\ \A u, m : ImportKey(u, m) # ExportKey(k) /\ CrossUser(u, m) # ExportKey(k)
      BY <2>1, KeysApart DEF ExportKeys
    <3>2. \/ BeginImport(h) /\ h \notin InFlight(ExportKey(k))
          \/ pc[h] \in ImportSteps /\ ~BeginImport(h)
      BY <2>11 DEF BeginImport, FindImport, InsertImport, FindMark, ImportAlarm,
                   ImportAlarmFails, AuditImport, InFlight, ImportSteps
    <3>3. pc[h] \in ImportSteps => op[h].key # ExportKey(k)
      BY <3>1 DEF LocalsInv, Held
    <3>4. h \notin InFlight(ExportKey(k)) BY <3>2, <3>3 DEF InFlight
    <3>5. \E s, o : Goto(h, s, o) /\ o.key # ExportKey(k)
      <4>1. CASE BeginImport(h)
        <5>1. PICK u, m, key : /\ key \in {NoKey, ImportKey(u, m)}
                               /\ \E o : /\ o = [Idle EXCEPT !.action = "import", !.user = u,
                                                            !.key = key, !.mark = m]
                                        /\ Goto(h, IF key = NoKey THEN "check" ELSE "lookup", o)
          BY <4>1 DEF BeginImport
        <5>2. PICK o : /\ o = [Idle EXCEPT !.action = "import", !.user = u,
                                           !.key = key, !.mark = m]
                       /\ Goto(h, IF key = NoKey THEN "check" ELSE "lookup", o)
          BY <5>1
        <5>3. o.key = key BY <5>2 DEF Idle
        <5> QED BY <3>1, <5>1, <5>2, <5>3
      <4>2. CASE ~BeginImport(h)
        <5>1. \E s : Goto(h, s, op[h]) \/ Return(h)
          BY <2>11, <4>2 DEF FindImport, InsertImport, FindMark, ImportAlarm,
                     ImportAlarmFails, AuditImport, Step
        <5>2. Idle.key = NoKey BY DEF Idle
        <5> QED BY <3>1, <3>2, <3>3, <4>2, <5>1, <5>2 DEF Return
      <4> QED BY <4>1, <4>2
    <3>6. UNCHANGED <<marks, charges, lost>>
      BY <2>11 DEF BeginImport, FindImport, InsertImport, FindMark, ImportAlarm,
                   ImportAlarmFails, AuditImport, ownerSide
    <3>7. events' = events \/ \E e : Record(e) /\ e.key # ExportKey(k)
      <4>1. CASE ImportAlarm(h) BY <3>1, <4>1 DEF ImportAlarm, EventOf
      <4>2. CASE AuditImport(h)
        <5>1. op[h].key # ExportKey(k) BY <3>3, <4>2 DEF AuditImport, ImportSteps
        <5> QED BY <4>2, <5>1 DEF AuditImport, EventOf
      <4> QED BY <2>11, <4>1, <4>2
            DEF BeginImport, FindImport, InsertImport, FindMark, ImportAlarmFails
    <3>8. Recorded(ExportKey(k))' <=> Recorded(ExportKey(k))
      BY <3>7, RecordElsewhere DEF Recorded
    <3>9. Untouched(k) BY <3>6, <3>8 DEF Untouched, MarksOf
    <3> QED BY <2>1, <2>3, <3>4, <3>5, <3>9, OrderElsewhere
  <2>12. ASSUME Tick \/ UNCHANGED vars PROVE OrderOf(k)'
    <3>1. UNCHANGED <<marks, events, charges, lost, pc, op>>
      BY <2>12 DEF Tick, vars, ownerSide
    <3> QED BY <2>1, <2>3, <2>4, <3>1, OrderKept DEF InFlight
  <2> QED
    BY <2>1, <2>3, <2>5, <2>6, <2>7, <2>8, <2>9, <2>10, <2>11, <2>12,
       OrderCharge, OrderMint, OrderRecord, OrderLoss DEF Next, OrderInv
<1> QED BY <1>1, <1>2 DEF OrderInv

\* OrderInv holds of every reachable state: an orderly key has one request
\* between lookup and event, one watermark, and a charge per loss and one.
THEOREM OrderInvariant == Spec => [](LocalsInv /\ OrderInv)
<1>1. LocalsInv /\ OrderInv /\ [Next]_vars => LocalsInv' /\ OrderInv'
  BY LocalsStep, OrderStep
<1> QED BY <1>1, LocalsInit, OrderInit, PTL DEF Spec

\* As long as a client waits for a request to end before it asks again, all
\* its attempts are given one and the same watermark, and no second one is
\* minted, whatever calls they died in (lib/transfer.js, lib/watermark.js).
THEOREM RetriesAlwaysAgree == Spec => []RetriesAgree
<1>1. LocalsInv /\ OrderInv => RetriesAgree
  <2> SUFFICES ASSUME LocalsInv, OrderInv, NEW k \in Orderly
               PROVE  /\ Cardinality(MarksOf(ExportKey(k))) <= 1
                      /\ AnswersTo(ExportKey(k)) \subseteq MarksOf(ExportKey(k))
    BY DEF RetriesAgree
  <2>1. \A m, n \in MarksOf(ExportKey(k)) : m = n BY DEF OrderInv, OrderOf
  <2>2. Cardinality(MarksOf(ExportKey(k))) <= 1
    <3>1. CASE MarksOf(ExportKey(k)) = {}
      BY <3>1, FS_EmptySet
    <3>2. CASE MarksOf(ExportKey(k)) # {}
      <4>1. PICK m : MarksOf(ExportKey(k)) = {m} BY <2>1, <3>2
      <4>2. Cardinality({m}) = 1 BY FS_Singleton
      <4> QED BY <4>1, <4>2
    <3> QED BY <3>1, <3>2
  <2>3. AnswersTo(ExportKey(k)) \subseteq MarksOf(ExportKey(k))
    BY DEF LocalsInv, ReplyOk, AnswersTo, MarksOf
  <2> QED BY <2>2, <2>3
<1> QED BY <1>1, OrderInvariant, PTL

\* Under the same condition an export is charged once, and once more for each
\* attempt that died between its charge and its event (lib/transfer.js).
THEOREM ChargedOnceEach == Spec => []ChargedOncePerLoss
<1>1. OrderInv => ChargedOncePerLoss
  BY DEF OrderInv, OrderOf, ChargedOncePerLoss
<1> QED BY <1>1, OrderInvariant, PTL
=============================================================================
