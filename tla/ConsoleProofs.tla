--------------------------- MODULE ConsoleProofs ---------------------------
(***************************************************************************)
(* Proofs about Console: its four properties, for any loads, any number of *)
(* sessions, requests in flight and clicks, and any life of a token.       *)
(*                                                                         *)
(* The session rests on IInv: types; what a granted answer that is on its  *)
(* way carries (GrantInv); whose the tokens are (SessionInv); and, as long *)
(* as no two refreshes raced, no answer was lost and no call outlived its  *)
(* session, that whoever refreshes is alone and goes with the newest token *)
(* of its family (CleanInv: HeldOk, CurrentOk, RefreshOk, SignInOk, Apart).*)
(* Operators from page to page are shown to keep Good, the parts of it     *)
(* about a page, one by one.                                               *)
(*                                                                         *)
(* The views rest on VInv: no answer is older than the load it is for, and *)
(* the newest load of a view that met no other is shown or under way       *)
(* (LoadOk, ShownOk).  Most steps only let calls go on (Continues), which  *)
(* keeps all of it by one lemma.                                           *)
(*                                                                         *)
(* The last part shows the back end of the page to serve its sessions as   *)
(* AbstractFamilies does, which Sessions implements.                       *)
(***************************************************************************)
EXTENDS ConsoleProps, TLAPS, WellFoundedInduction

PageFields == DOMAIN Fresh \cup DOMAIN Storage
CallFields == {"view", "stage", "body", "step", "tab", "token", "answer"}
Tokens == [login : Nat, n : Nat, exp : Int]
Statuses == {"pending", "200", "401", "403", "404", "409", "failed"}
Steps == {"first", "refresh", "second", "login", "logout", "done", "failed"}

\* A call, as far as the session goes.
CallOk(pg, c) ==
    LET call == pg.calls[c]
    IN  /\ DOMAIN call = CallFields
        /\ c = <<c[1], c[2]>> /\ c[1] \in 1..pg.begun
        /\ call.step \in Steps
        /\ call.tab \in 0..pg.tab
        /\ call.token \in Tokens
        /\ call.answer.status \in Statuses
        /\ call.answer.status = "pending" => call.answer = Pending
        /\ IF call.step \in {"login", "logout"} THEN call.view \notin DOMAIN Stages
           ELSE /\ call.view \in DOMAIN Stages
                /\ call.stage \in DOMAIN Stages[call.view]
                /\ c[2] \in Stages[call.view][call.stage]

\* The calls of a task belong together.
SameTask(pg, c, d) ==
    /\ pg.calls[c].view = pg.calls[d].view
    /\ pg.calls[c].tab = pg.calls[d].tab
    /\ pg.calls[c].body = pg.calls[d].body

PageInv(pg) ==
    /\ DOMAIN pg = PageFields
    /\ pg.screen \in {"login", "app"}
    /\ pg.access \in Tokens /\ pg.refresh \in Tokens
    /\ pg.tab \in Nat /\ pg.begun \in Nat
    /\ pg.raced \in BOOLEAN /\ pg.lost \in BOOLEAN /\ pg.crossed \in BOOLEAN
    /\ \A c \in DOMAIN pg.calls : CallOk(pg, c)
    /\ \A c, d \in DOMAIN pg.calls : c[1] = d[1] => SameTask(pg, c, d)

\* What the back end answered to a refresh or a sign-in.
GrantOk(tab, fams, call) ==
    LET answer == call.answer
    IN  /\ call.step = "refresh" => call.token.login \in DOMAIN fams
        /\ call.step \in {"refresh", "login"} /\ answer.status = "200" =>
              /\ answer.access \in Tokens /\ answer.refresh \in Tokens
              /\ answer.access.login = answer.refresh.login
              /\ answer.refresh.login \in DOMAIN fams
        /\ call.step = "refresh" /\ answer.status = "200" =>
              /\ answer.refresh.login = call.token.login
              /\ call.tab = tab => answer.access.exp > now
        /\ call.step = "login" /\ answer.status = "200" =>
              answer.email = db.users[fams[answer.refresh.login].user].email
        /\ call.step = "login" => call.body \in DOMAIN db.users
        /\ call.step = "second" /\ call.tab = tab =>
              /\ answer.status # "401"
              /\ answer = Pending => call.token.login # 0 /\ call.token.exp > now

GrantInv(pg, fams) == \A c \in DOMAIN pg.calls : GrantOk(pg.tab, fams, pg.calls[c])

\* Whom the tokens of the tab are of, unless a call outlived its session.
SessionInv(pg, fams) ==
    ~pg.crossed =>
        /\ pg.screen = "login" => pg.access = NoToken /\ pg.refresh = NoToken
        /\ pg.screen = "app" =>
              /\ pg.refresh.login \in DOMAIN fams
              /\ pg.access.login = pg.refresh.login
              /\ pg.email = db.users[fams[pg.refresh.login].user].email
        /\ \A c \in DOMAIN pg.calls :
              pg.calls[c].step = "refresh" /\ pg.calls[c].tab = pg.tab =>
                  pg.calls[c].token.login = pg.refresh.login

Clean(pg) == ~pg.raced /\ ~pg.lost /\ ~pg.crossed

Refreshing(pg) == {c \in DOMAIN pg.calls : pg.calls[c].step = "refresh"}

SignedIn(pg) ==
    {c \in DOMAIN pg.calls : pg.calls[c].step = "login" /\ pg.calls[c].answer.status = "200"}

\* The family of the tokens held, and those the page gave up.
HeldOk(pg, fams) ==
    /\ pg.refresh.login \in DOMAIN fams => fams[pg.refresh.login].end # "reuse"
    /\ \A login \in pg.givenUp : login \in DOMAIN fams /\ fams[login].end \in {"logout", "inactive"}

\* When nobody refreshes, the token held is the newest of its family.
CurrentOk(pg, fams) ==
    /\ pg.refresh.login \in DOMAIN fams /\ Refreshing(pg) = {}
    /\ fams[pg.refresh.login].end = "live"
    => pg.refresh.n = fams[pg.refresh.login].current

\* Who refreshes goes with the token held, and gets the newest.
RefreshOk(pg, fams, call) ==
    LET family == fams[call.token.login]
    IN  /\ call.tab = pg.tab /\ call.token = pg.refresh
        /\ call.answer.status \in {"pending", "200", "401"}
        /\ call.answer.status = "401" => family.end \in {"logout", "inactive"}
        /\ call.answer.status = "pending" /\ family.end = "live" => call.token.n = family.current
        /\ call.answer.status = "200" /\ family.end = "live" => call.answer.refresh.n = family.current

\* A token granted to a sign-in is the newest of a family of its own.
SignInOk(pg, fams, token) ==
    /\ fams[token.login].end # "reuse"
    /\ fams[token.login].end = "live" => token.n = fams[token.login].current
    /\ token.login # pg.refresh.login

Apart(pg) ==
    \A c, d \in SignedIn(pg) :
        pg.calls[c].answer.refresh.login = pg.calls[d].answer.refresh.login => c = d

\* Unless one of the three things happened: who refreshes is alone, and goes
\* with the newest token of its family.
CleanInv(pg, fams) ==
    Clean(pg) =>
        /\ HeldOk(pg, fams) /\ CurrentOk(pg, fams)
        /\ \A c, d \in Refreshing(pg) : c = d
        /\ \A c \in Refreshing(pg) : RefreshOk(pg, fams, pg.calls[c])
        /\ \A c \in SignedIn(pg) : SignInOk(pg, fams, pg.calls[c].answer.refresh)
        /\ Apart(pg)

FamiliesInv == families \in Families(db.users) /\ now \in Nat

\* Of a user only the status changes, and with it whether the e-mail is good.
SameUsers(users, vsers) ==
    /\ DOMAIN vsers = DOMAIN users
    /\ \A id \in DOMAIN users :
          /\ DOMAIN vsers[id] = DOMAIN users[id]
          /\ \A f \in DOMAIN users[id] \ {"status", "emailVerified"} : vsers[id][f] = users[id][f]

\* The store is that of the load, but for the status of its users.
StoreInv ==
    /\ served \in DOMAIN Loads
    /\ {"users", "version"} \subseteq DOMAIN db
    /\ db.version \in Nat \ {0}
    /\ SameUsers(load.store.users, db.users)

\* pg.refresh.login is 0 or of a family.
RefreshIsOfAFamily(pg, fams) == pg.refresh = NoToken \/ pg.refresh.login \in DOMAIN fams

IInv ==
    /\ StoreInv /\ FamiliesInv
    /\ PageInv(page) /\ GrantInv(page, families) /\ RefreshIsOfAFamily(page, families)
    /\ SessionInv(page, families) /\ CleanInv(page, families)

----------------------------------------------------------------------------
\* The fields, one by one.
LEMMA Fields ==
    PageFields = {"screen", "view", "calls", "days", "shown", "asked", "overlapped", "decided", "access",
                  "refresh", "email", "tab", "begun", "raced", "lost", "crossed", "givenUp"}
BY DEF PageFields, Fresh, Storage

\* The session and its history are as they were.
SameSession(pg, qg) ==
    /\ DOMAIN qg = PageFields
    /\ qg.screen = pg.screen /\ qg.access = pg.access /\ qg.refresh = pg.refresh
    /\ qg.email = pg.email /\ qg.tab = pg.tab
    /\ qg.raced = pg.raced /\ qg.lost = pg.lost /\ qg.crossed = pg.crossed
    /\ qg.givenUp = pg.givenUp

\* Calls were sent, came to their end or were forgotten; refreshes were not.
Extends(pg, qg) ==
    /\ SameSession(pg, qg)
    /\ \A d \in DOMAIN qg.calls :
          \/ d \in DOMAIN pg.calls /\ qg.calls[d] = pg.calls[d]
          \/ qg.calls[d].step \in {"first", "done", "failed"}
    /\ \A d \in DOMAIN pg.calls :
          pg.calls[d].step = "refresh" /\ pg.calls[d].tab = pg.tab =>
              d \in DOMAIN qg.calls /\ qg.calls[d] = pg.calls[d]

\* The page without a call.
Without(pg, c) == [pg EXCEPT !.calls = [d \in DOMAIN pg.calls \ {c} |-> pg.calls[d]]]

\* Extensions can be chained.
LEMMA ExtendsFurther ==
    ASSUME NEW pg, NEW qg, NEW rg, Extends(pg, qg), Extends(qg, rg)
    PROVE  Extends(pg, rg)
BY DEF Extends, SameSession

\* What a call without one of the calls has.
LEMMA WithoutOk ==
    ASSUME NEW pg, NEW c, PageInv(pg)
    PROVE  /\ PageInv(Without(pg, c)) /\ SameSession(pg, Without(pg, c))
           /\ Without(pg, c).begun = pg.begun
           /\ DOMAIN Without(pg, c).calls = DOMAIN pg.calls \ {c}
           /\ \A d \in DOMAIN pg.calls \ {c} : Without(pg, c).calls[d] = pg.calls[d]
<1> DEFINE qg == Without(pg, c)
<1>1. /\ DOMAIN qg = PageFields
      /\ qg.calls = [d \in DOMAIN pg.calls \ {c} |-> pg.calls[d]]
      /\ \A f \in PageFields \ {"calls"} : qg[f] = pg[f]
  BY Fields DEF PageInv, Without
<1>. HIDE DEF qg
<1>2. SameSession(pg, qg) /\ qg.begun = pg.begun
  BY <1>1, Fields DEF SameSession
<1>3. \A d \in DOMAIN qg.calls : CallOk(qg, d)
  BY <1>1, <1>2 DEF PageInv, SameSession, CallOk
<1>4. \A d, e \in DOMAIN qg.calls : d[1] = e[1] => SameTask(qg, d, e)
  BY <1>1 DEF PageInv, SameTask
<1>5. PageInv(qg)
  BY <1>1, <1>2, <1>3, <1>4 DEF PageInv, SameSession
<1>. QED BY <1>1, <1>2, <1>5 DEF qg

\* Sending a stage.
LEMMA SendStageOk ==
    ASSUME NEW pg, PageInv(pg), NEW task \in 1..pg.begun,
           NEW view \in DOMAIN Stages, NEW stage \in DOMAIN Stages[view], NEW body,
           \A d \in DOMAIN pg.calls : d[1] = task =>
               /\ pg.calls[d].view = view /\ pg.calls[d].tab = pg.tab /\ pg.calls[d].body = body
               /\ pg.calls[d].step # "refresh"
    PROVE  /\ PageInv(SendStage(pg, task, view, stage, body))
           /\ Extends(pg, SendStage(pg, task, view, stage, body))
           /\ SendStage(pg, task, view, stage, body).begun = pg.begun
<1> DEFINE qg == SendStage(pg, task, view, stage, body)
<1> DEFINE sent == {<<task, path>> : path \in Stages[view][stage]}
<1> DEFINE call == [view |-> view, stage |-> stage, body |-> body, step |-> "first",
                    tab |-> pg.tab, token |-> pg.access, answer |-> Pending]
<1>1. /\ DOMAIN qg = PageFields
      /\ qg.calls = [c \in DOMAIN pg.calls \cup sent |-> IF c \in sent THEN call ELSE pg.calls[c]]
      /\ \A f \in PageFields \ {"calls"} : qg[f] = pg[f]
  BY Fields DEF PageInv, SendStage
<1>. HIDE DEF qg
<1>2. SameSession(pg, qg) /\ qg.begun = pg.begun
  BY <1>1, Fields DEF SameSession
<1>3. ASSUME NEW d \in sent PROVE CallOk(qg, d) /\ qg.calls[d] = call /\ d[1] = task
  <2>1. PICK path \in Stages[view][stage] : d = <<task, path>>
    OBVIOUS
  <2>2. /\ qg.calls[d] = call /\ d[1] = task /\ d[2] \in Stages[view][stage]
        /\ d = <<d[1], d[2]>>
    BY <1>1, <2>1
  <2>3. call.view = view /\ call.stage = stage /\ call.step = "first" /\ call.tab = pg.tab
        /\ call.token = pg.access /\ call.answer = Pending /\ DOMAIN call = CallFields
    BY DEF CallFields
  <2>. QED BY <1>2, <2>2, <2>3 DEF CallOk, Pending, Steps, Statuses, PageInv, SameSession
<1>4. ASSUME NEW d \in DOMAIN pg.calls \ sent PROVE CallOk(qg, d) /\ qg.calls[d] = pg.calls[d]
  BY <1>1, <1>2 DEF PageInv, CallOk, SameSession
<1>5. \A d, e \in DOMAIN qg.calls : d[1] = e[1] => SameTask(qg, d, e)
  BY <1>1, <1>3, <1>4 DEF PageInv, SameTask
<1>6. PageInv(qg)
  BY <1>1, <1>2, <1>3, <1>4, <1>5 DEF PageInv, SameSession
<1>7. Extends(pg, qg)
  BY <1>1, <1>2, <1>3, <1>4 DEF Extends, PageInv
<1>. QED BY <1>2, <1>6, <1>7 DEF qg

\* Loading a view: a task of its own.
LEMMA LoadViewOk ==
    ASSUME NEW pg, PageInv(pg), NEW view \in Views, NEW body
    PROVE  /\ PageInv(LoadView(pg, view, body)) /\ Extends(pg, LoadView(pg, view, body))
           /\ LoadView(pg, view, body).begun = pg.begun + 1
<1> DEFINE task == pg.begun + 1
<1> DEFINE meets == \E c \in InFlight(pg) : pg.calls[c].view = view
<1> DEFINE qg == [pg EXCEPT !.begun = task,
                            !.asked[view] = [task |-> task, days |-> body, version |-> db.version],
                            !.overlapped[view] = meets]
<1>1. DOMAIN qg = PageFields /\ qg.begun = task /\ qg.calls = pg.calls
      /\ \A f \in PageFields \ {"asked", "overlapped", "begun"} : qg[f] = pg[f]
  BY Fields DEF PageInv
<1>. HIDE DEF qg
<1>2. SameSession(pg, qg)
  BY <1>1, Fields DEF SameSession
<1>3. pg.begun \in Nat
  BY DEF PageInv
<1>4. ASSUME NEW d \in DOMAIN qg.calls PROVE CallOk(qg, d) /\ d[1] # task
  BY <1>1, <1>2, <1>3 DEF PageInv, CallOk, SameSession
<1>5. \A d, e \in DOMAIN qg.calls : d[1] = e[1] => SameTask(qg, d, e)
  BY <1>1 DEF PageInv, SameTask
<1>6. PageInv(qg)
  BY <1>1, <1>2, <1>3, <1>4, <1>5 DEF PageInv, SameSession
<1>7. view \in DOMAIN Stages /\ 1 \in DOMAIN Stages[view]
  BY DEF Views, Stages
<1>8. task \in 1..qg.begun
  BY <1>1, <1>3
<1>9. Extends(pg, qg)
  BY <1>1, <1>2 DEF Extends
<1>10. LoadView(pg, view, body) = SendStage(qg, task, view, 1, body)
  BY DEF LoadView, qg
<1>11. /\ PageInv(SendStage(qg, task, view, 1, body)) /\ Extends(qg, SendStage(qg, task, view, 1, body))
       /\ SendStage(qg, task, view, 1, body).begun = task
  BY <1>1, <1>4, <1>6, <1>7, <1>8, SendStageOk
<1>. QED BY <1>9, <1>10, <1>11, ExtendsFurther

\* What a view shows, and what the history says of it, is no part of the rest.
OnlyShows(pg, qg) ==
    /\ DOMAIN qg = PageFields
    /\ \A f \in PageFields \ {"shown", "asked", "overlapped", "decided"} : qg[f] = pg[f]

\* Showing leaves the calls and the session alone.
LEMMA OnlyShowsOk ==
    ASSUME NEW pg, NEW qg, PageInv(pg), OnlyShows(pg, qg)
    PROVE  PageInv(qg) /\ SameSession(pg, qg) /\ qg.calls = pg.calls /\ qg.begun = pg.begun
<1>1. SameSession(pg, qg) /\ qg.calls = pg.calls /\ qg.begun = pg.begun
  BY Fields DEF OnlyShows, SameSession
<1>2. \A d \in DOMAIN qg.calls : CallOk(qg, d)
  BY <1>1 DEF PageInv, CallOk, SameSession
<1>3. \A d, e \in DOMAIN qg.calls : d[1] = e[1] => SameTask(qg, d, e)
  BY <1>1 DEF PageInv, SameTask
<1>. QED BY <1>1, <1>2, <1>3 DEF PageInv, SameSession

\* Rendering a stage only shows.
LEMMA RenderShows ==
    ASSUME NEW pg, DOMAIN pg = PageFields, NEW view, NEW stage, NEW got, NEW body
    PROVE  OnlyShows(pg, Render(pg, view, stage, got, body))
<1>1. ASSUME NEW pane, NEW rows, NEW days, NEW version
      PROVE  OnlyShows(pg, Put(pg, pane, rows, days, version))
  BY Fields DEF OnlyShows, Put
<1>2. OnlyShows(pg, pg)
  BY DEF OnlyShows
<1>3. OnlyShows(pg, LoadIntegrity(pg, stage, got, body))
  BY <1>1, <1>2, Zenon DEF LoadIntegrity
<1>4. OnlyShows(pg, LoadIpGeo(pg, stage, got, body))
  BY <1>1, <1>2, Zenon DEF LoadIpGeo
<1>5. CASE view = "integrity"
  BY <1>3, <1>5 DEF Render
<1>6. CASE view = "ipgeo"
  BY <1>4, <1>6 DEF Render
<1>7. CASE view \notin {"integrity", "ipgeo"}
  <2>1. Render(pg, view, stage, got, body)
          = IF HasFailed(got) THEN pg ELSE Put(pg, view, RowsFor(view, got), body, Oldest(got))
    BY <1>7 DEF Render
  <2>. QED BY <1>1, <1>2, <2>1
<1>. QED BY <1>5, <1>6, <1>7

\* A task is forgotten, no part of which is a refresh.
LEMMA ForgetOk ==
    ASSUME NEW pg, PageInv(pg), NEW task
    PROVE  /\ PageInv(Forget(pg, task)) /\ SameSession(pg, Forget(pg, task))
           /\ Forget(pg, task).begun = pg.begun
           /\ DOMAIN Forget(pg, task).calls = {d \in DOMAIN pg.calls : d[1] # task}
           /\ \A d \in DOMAIN Forget(pg, task).calls : Forget(pg, task).calls[d] = pg.calls[d]
<1> DEFINE qg == Forget(pg, task)
<1>1. /\ DOMAIN qg = PageFields
      /\ qg.calls = [c \in {c \in DOMAIN pg.calls : c[1] # task} |-> pg.calls[c]]
      /\ \A f \in PageFields \ {"calls"} : qg[f] = pg[f]
  BY Fields DEF PageInv, Forget
<1>. HIDE DEF qg
<1>2. SameSession(pg, qg) /\ qg.begun = pg.begun
  BY <1>1, Fields DEF SameSession
<1>3. \A d \in DOMAIN qg.calls : CallOk(qg, d)
  BY <1>1, <1>2 DEF PageInv, SameSession, CallOk
<1>4. \A d, e \in DOMAIN qg.calls : d[1] = e[1] => SameTask(qg, d, e)
  BY <1>1 DEF PageInv, SameTask
<1>5. PageInv(qg)
  BY <1>1, <1>2, <1>3, <1>4 DEF PageInv, SameSession
<1>. QED BY <1>1, <1>2, <1>5 DEF qg

\* A call has come to its end.
Ended(pg, c, step, answer) ==
    [pg EXCEPT !.calls[c] = [pg.calls[c] EXCEPT !.step = step, !.answer = answer]]

\* A call comes to its end.
LEMMA EndedOk ==
    ASSUME NEW pg, PageInv(pg), NEW c \in DOMAIN pg.calls, NEW answer,
           pg.calls[c].step \notin {"login", "logout"},
           answer.status \in Statuses \ {"pending"}, NEW step \in {"done", "failed"},
           NEW qg, qg = Ended(pg, c, step, answer)
    PROVE  /\ PageInv(qg) /\ SameSession(pg, qg) /\ qg.begun = pg.begun
           /\ DOMAIN qg.calls = DOMAIN pg.calls
           /\ \A d \in DOMAIN pg.calls \ {c} : qg.calls[d] = pg.calls[d]
           /\ qg.calls[c].step = step /\ qg.calls[c].answer = answer
           /\ \A d \in DOMAIN pg.calls :
                 /\ qg.calls[d].view = pg.calls[d].view /\ qg.calls[d].tab = pg.calls[d].tab
                 /\ qg.calls[d].body = pg.calls[d].body /\ qg.calls[d].stage = pg.calls[d].stage
                 /\ qg.calls[d].token = pg.calls[d].token
<1>1. /\ DOMAIN qg = PageFields
      /\ qg.calls = [pg.calls EXCEPT ![c] = [pg.calls[c] EXCEPT !.step = step, !.answer = answer]]
      /\ \A f \in PageFields \ {"calls"} : qg[f] = pg[f]
  BY Fields DEF PageInv, Ended
<1>2. SameSession(pg, qg) /\ qg.begun = pg.begun
  BY <1>1, Fields DEF SameSession
<1>3. /\ DOMAIN pg.calls[c] = CallFields
      /\ qg.calls[c] = [pg.calls[c] EXCEPT !.step = step, !.answer = answer]
      /\ \A d \in DOMAIN pg.calls \ {c} : qg.calls[d] = pg.calls[d]
      /\ DOMAIN qg.calls = DOMAIN pg.calls
  BY <1>1 DEF PageInv, CallOk
<1>4. /\ DOMAIN qg.calls[c] = CallFields
      /\ qg.calls[c].step = step /\ qg.calls[c].answer = answer
      /\ qg.calls[c].view = pg.calls[c].view /\ qg.calls[c].tab = pg.calls[c].tab
      /\ qg.calls[c].body = pg.calls[c].body /\ qg.calls[c].stage = pg.calls[c].stage
      /\ qg.calls[c].token = pg.calls[c].token
  BY <1>3 DEF CallFields
<1>5. CallOk(qg, c)
  BY <1>2, <1>3, <1>4 DEF PageInv, CallOk, SameSession, Steps, Statuses
<1>6. \A d \in DOMAIN qg.calls \ {c} : CallOk(qg, d)
  BY <1>2, <1>3 DEF PageInv, CallOk, SameSession
<1>7. \A d \in DOMAIN pg.calls :
         /\ qg.calls[d].view = pg.calls[d].view /\ qg.calls[d].tab = pg.calls[d].tab
         /\ qg.calls[d].body = pg.calls[d].body /\ qg.calls[d].stage = pg.calls[d].stage
         /\ qg.calls[d].token = pg.calls[d].token
  BY <1>3, <1>4
<1>8. \A d, e \in DOMAIN qg.calls : d[1] = e[1] => SameTask(qg, d, e)
  BY <1>3, <1>7 DEF PageInv, SameTask
<1>9. PageInv(qg)
  BY <1>1, <1>2, <1>3, <1>5, <1>6, <1>8 DEF PageInv, SameSession
<1>. QED BY <1>2, <1>3, <1>4, <1>7, <1>9

\* A call of this tab is settled: the others go on as they were.
LEMMA SettleOk ==
    ASSUME NEW pg, PageInv(pg), NEW c \in DOMAIN pg.calls, NEW answer,
           pg.calls[c].step \notin {"login", "logout"}, pg.calls[c].tab = pg.tab,
           answer.status \in Statuses \ {"pending"}
    PROVE  PageInv(Settle(pg, c, answer)) /\ Extends(Without(pg, c), Settle(pg, c, answer))
<1> DEFINE call == pg.calls[c]
           task == c[1]
           step == IF answer.status = "200" THEN "done" ELSE "failed"
           settled == [pg EXCEPT !.calls[c] = [call EXCEPT !.step = step, !.answer = answer]]
           mine == {d \in DOMAIN settled.calls : d[1] = task}
           got == [path \in {d[2] : d \in mine} |-> settled.calls[<<task, path>>].answer]
           complete == mine \cap InFlight(settled) = {}
           noted == IF step = "failed" /\ call.view # "decide" /\ pg.asked[call.view].task = task
                    THEN [settled EXCEPT !.asked[call.view] = NotAsked] ELSE settled
           rendered == Render(noted, call.view, call.stage, got, call.body)
<1>1. /\ PageInv(settled) /\ SameSession(pg, settled) /\ settled.begun = pg.begun
      /\ DOMAIN settled.calls = DOMAIN pg.calls
      /\ \A d \in DOMAIN pg.calls \ {c} : settled.calls[d] = pg.calls[d]
      /\ settled.calls[c].step = step /\ settled.calls[c].answer = answer
      /\ \A d \in DOMAIN pg.calls :
            /\ settled.calls[d].view = pg.calls[d].view /\ settled.calls[d].tab = pg.calls[d].tab
            /\ settled.calls[d].body = pg.calls[d].body
  <2>1. step \in {"done", "failed"}
    OBVIOUS
  <2>. HIDE DEF step
  <2>2. settled = Ended(pg, c, step, answer)
    BY DEF Ended
  <2>. HIDE DEF settled
  <2>. QED BY <2>1, <2>2, EndedOk
<1>2. Settle(pg, c, answer) =
        IF call.view = "decide" THEN AfterDecision(Forget(settled, task), answer)
        ELSE IF ~complete THEN noted
        ELSE IF call.stage < Len(Stages[call.view])
             THEN SendStage(rendered, task, call.view, call.stage + 1, call.body)
             ELSE Forget(rendered, task)
  BY DEF Settle
<1>3. step \in {"done", "failed"}
  OBVIOUS
<1>4. OnlyShows(settled, noted)
  BY <1>1, Fields DEF OnlyShows, PageInv
<1>. HIDE DEF settled, noted, got, step
<1>5. OnlyShows(noted, rendered)
  BY <1>4, RenderShows DEF OnlyShows
<1>6. OnlyShows(settled, rendered)
  BY <1>4, <1>5 DEF OnlyShows
<1>. HIDE DEF rendered
<1>7. Extends(Without(pg, c), settled)
  BY <1>1, <1>3, WithoutOk DEF Extends, SameSession
<1>8. \A qg : OnlyShows(settled, qg) => PageInv(qg) /\ Extends(Without(pg, c), qg)
              /\ qg.calls = settled.calls /\ qg.begun = settled.begun /\ qg.tab = settled.tab
  BY <1>1, <1>7, OnlyShowsOk DEF Extends, SameSession
<1>9. call.view \in DOMAIN Stages /\ call.stage \in DOMAIN Stages[call.view]
      /\ c[2] \in Stages[call.view][call.stage] /\ task \in 1..pg.begun /\ settled.tab = pg.tab
  BY <1>1 DEF PageInv, CallOk, SameSession
<1>10. CASE call.view = "decide"
  <2> DEFINE fg == Forget(settled, task)
  <2>1. \A d \in DOMAIN pg.calls : d[1] = task => d = c
    BY <1>9, <1>10 DEF PageInv, CallOk, SameTask, Stages
  <2>2. /\ PageInv(fg) /\ SameSession(settled, fg)
        /\ DOMAIN fg.calls = DOMAIN pg.calls \ {c}
        /\ \A d \in DOMAIN fg.calls : fg.calls[d] = pg.calls[d]
    BY <1>1, <2>1, ForgetOk
  <2>. HIDE DEF fg
  <2>3. Extends(Without(pg, c), fg)
    BY <1>1, <2>2, WithoutOk DEF Extends, SameSession
  <2>4. CASE answer.status = "200"
    <3> DEFINE dg == [fg EXCEPT !.decided = answer.version]
    <3>1. OnlyShows(fg, dg)
      BY <2>2, Fields DEF OnlyShows, PageInv
    <3>2. AfterDecision(fg, answer) = LoadView(dg, "users", Null)
      BY <2>4 DEF AfterDecision, Reload
    <3>. HIDE DEF dg
    <3>3. PageInv(dg) /\ SameSession(fg, dg) /\ dg.calls = fg.calls
      BY <2>2, <3>1, OnlyShowsOk
    <3>4. Extends(Without(pg, c), dg)
      BY <2>3, <3>3 DEF Extends, SameSession
    <3>5. "users" \in Views
      BY DEF Views, Stages
    <3>. QED BY <1>2, <1>10, <3>2, <3>3, <3>4, <3>5, LoadViewOk, ExtendsFurther DEF fg
  <2>5. CASE answer.status # "200"
    BY <1>2, <1>10, <2>2, <2>3, <2>5 DEF AfterDecision, fg
  <2>. QED BY <2>4, <2>5
<1>11. CASE call.view # "decide" /\ ~complete
  <2>1. Settle(pg, c, answer) = noted
    BY <1>2, <1>11
  <2>. QED BY <1>4, <1>8, <2>1
<1>12. CASE call.view # "decide" /\ complete
  <2>1. /\ PageInv(rendered) /\ Extends(Without(pg, c), rendered)
        /\ rendered.calls = settled.calls /\ rendered.begun = settled.begun /\ rendered.tab = settled.tab
    BY <1>6, <1>8
  <2>2. \A d \in DOMAIN rendered.calls : d[1] = task =>
            /\ rendered.calls[d].view = call.view /\ rendered.calls[d].tab = pg.tab
            /\ rendered.calls[d].body = call.body
            /\ rendered.calls[d].step \in {"done", "failed"}
    BY <1>1, <1>9, <1>12, <2>1 DEF InFlight, PageInv, SameTask
  <2>3. CASE call.stage < Len(Stages[call.view])
    <3>1. call.stage + 1 \in DOMAIN Stages[call.view]
      BY <1>9, <2>3 DEF Stages
    <3>2. task \in 1..rendered.begun
      BY <1>1, <1>9, <2>1
    <3> DEFINE sg == SendStage(rendered, task, call.view, call.stage + 1, call.body)
    <3>3. PageInv(sg) /\ Extends(rendered, sg)
      BY <1>9, <2>1, <2>2, <3>1, <3>2, SendStageOk
    <3>4. Settle(pg, c, answer) = sg
      BY <1>2, <1>12, <2>3
    <3>. HIDE DEF sg
    <3>. QED BY <2>1, <3>3, <3>4, ExtendsFurther
  <2>4. CASE ~(call.stage < Len(Stages[call.view]))
    <3> DEFINE fg == Forget(rendered, task)
    <3>1. Settle(pg, c, answer) = fg
      BY <1>2, <1>12, <2>4
    <3>2. /\ PageInv(fg) /\ SameSession(rendered, fg)
          /\ DOMAIN fg.calls = {d \in DOMAIN rendered.calls : d[1] # task}
          /\ \A d \in DOMAIN fg.calls : fg.calls[d] = rendered.calls[d]
      BY <2>1, ForgetOk
    <3>. HIDE DEF fg
    <3>3. Extends(rendered, fg)
      BY <2>2, <3>2 DEF Extends
    <3>. QED BY <2>1, <3>1, <3>2, <3>3, ExtendsFurther
  <2>. QED BY <2>3, <2>4
<1>. QED BY <1>10, <1>11, <1>12

\* The invariant of a page, given the families of the back end.
Good(pg, fams) ==
    /\ PageInv(pg) /\ GrantInv(pg, fams) /\ RefreshIsOfAFamily(pg, fams)
    /\ SessionInv(pg, fams) /\ CleanInv(pg, fams)

\* Sign-ins that are under way are as far apart as they were.
LEMMA ApartKept ==
    ASSUME NEW pg, NEW qg, Apart(pg),
           \A d \in SignedIn(qg) : d \in SignedIn(pg) /\ qg.calls[d] = pg.calls[d]
    PROVE  Apart(qg)
BY DEF Apart

\* The token and the tab are all that the parts look at of a page.
LEMMA PartsKept ==
    ASSUME NEW pg, NEW qg, NEW fams, qg.refresh = pg.refresh, qg.tab = pg.tab
    PROVE  /\ qg.givenUp = pg.givenUp /\ HeldOk(pg, fams) => HeldOk(qg, fams)
           /\ \A call : RefreshOk(pg, fams, call) => RefreshOk(qg, fams, call)
           /\ \A token : SignInOk(pg, fams, token) => SignInOk(qg, fams, token)
<1>1. qg.givenUp = pg.givenUp /\ HeldOk(pg, fams) => HeldOk(qg, fams)
  BY DEF HeldOk
<1>2. ASSUME NEW call, RefreshOk(pg, fams, call) PROVE RefreshOk(qg, fams, call)
  BY <1>2 DEF RefreshOk
<1>3. ASSUME NEW token, SignInOk(pg, fams, token) PROVE SignInOk(qg, fams, token)
  BY <1>3 DEF SignInOk
<1>. QED BY <1>1, <1>2, <1>3

\* A grant stays good when families begin or end.
LEMMA GrantStays ==
    ASSUME NEW tab, NEW fams, NEW gams, NEW call, GrantOk(tab, fams, call),
           DOMAIN fams \subseteq DOMAIN gams, \A l \in DOMAIN fams : gams[l].user = fams[l].user
    PROVE  GrantOk(tab, gams, call)
BY DEF GrantOk

\* What the parts say of who refreshes.
LEMMA WhoRefreshes ==
    ASSUME NEW pg, NEW fams, Good(pg, fams), Clean(pg), NEW c \in DOMAIN pg.calls,
           pg.calls[c].step = "refresh"
    PROVE  /\ pg.calls[c].tab = pg.tab /\ pg.calls[c].token = pg.refresh
           /\ RefreshOk(pg, fams, pg.calls[c])
           /\ \A d \in DOMAIN pg.calls : pg.calls[d].step = "refresh" => d = c
<1>1. c \in Refreshing(pg)
  BY DEF Refreshing
<1>2. RefreshOk(pg, fams, pg.calls[c])
  BY <1>1 DEF Good, CleanInv
<1>3. \A d \in Refreshing(pg) : d = c
  BY <1>1 DEF Good, CleanInv
<1>4. pg.calls[c].tab = pg.tab /\ pg.calls[c].token = pg.refresh
  BY <1>2 DEF RefreshOk
<1>. QED BY <1>2, <1>3, <1>4 DEF Refreshing

\* A page that refreshes as it did, and in which nobody else has signed in.
LEMMA CleanKept ==
    ASSUME NEW pg, NEW qg, NEW fams, Good(pg, fams), Clean(pg),
           qg.refresh = pg.refresh, qg.tab = pg.tab, qg.givenUp = pg.givenUp,
           Refreshing(qg) = Refreshing(pg),
           \A d \in Refreshing(pg) : qg.calls[d] = pg.calls[d],
           \A d \in SignedIn(qg) : d \in SignedIn(pg) /\ qg.calls[d] = pg.calls[d]
    PROVE  CleanInv(qg, fams)
<1>1. /\ HeldOk(pg, fams) /\ CurrentOk(pg, fams) /\ Apart(pg)
      /\ \A c, d \in Refreshing(pg) : c = d
      /\ \A c \in Refreshing(pg) : RefreshOk(pg, fams, pg.calls[c])
      /\ \A c \in SignedIn(pg) : SignInOk(pg, fams, pg.calls[c].answer.refresh)
  BY DEF Good, CleanInv
<1>2. HeldOk(qg, fams) /\ Apart(qg)
  BY <1>1, PartsKept, ApartKept
<1>3. CurrentOk(qg, fams)
  BY <1>1 DEF CurrentOk
<1>4. ASSUME NEW c \in Refreshing(qg) PROVE RefreshOk(qg, fams, qg.calls[c])
  <2>1. c \in Refreshing(pg) /\ qg.calls[c] = pg.calls[c]
    OBVIOUS
  <2>. QED BY <1>1, <2>1, PartsKept
<1>5. ASSUME NEW c \in SignedIn(qg) PROVE SignInOk(qg, fams, qg.calls[c].answer.refresh)
  <2>1. c \in SignedIn(pg) /\ qg.calls[c] = pg.calls[c]
    OBVIOUS
  <2>. QED BY <1>1, <2>1, PartsKept
<1>. QED BY <1>1, <1>2, <1>3, <1>4, <1>5 DEF CleanInv

\* A page that holds no token, and in which nobody refreshes.
LEMMA CleanEnded ==
    ASSUME NEW pg, NEW qg, NEW fams \in Families(db.users), Good(pg, fams), Clean(pg),
           qg.refresh = NoToken, Refreshing(qg) = {},
           \A l \in qg.givenUp : l \in DOMAIN fams /\ fams[l].end \in {"logout", "inactive"},
           \A d \in SignedIn(qg) : d \in SignedIn(pg) /\ qg.calls[d] = pg.calls[d]
    PROVE  CleanInv(qg, fams)
<1>1. qg.refresh.login = 0 /\ 0 \notin DOMAIN fams
  BY DEF NoToken, Families
<1>2. HeldOk(qg, fams) /\ CurrentOk(qg, fams)
  BY <1>1 DEF HeldOk, CurrentOk
<1>3. Apart(pg) /\ \A c \in SignedIn(pg) : SignInOk(pg, fams, pg.calls[c].answer.refresh)
  BY DEF Good, CleanInv
<1>4. Apart(qg)
  BY <1>3, ApartKept
<1>5. ASSUME NEW c \in SignedIn(qg) PROVE SignInOk(qg, fams, qg.calls[c].answer.refresh)
  <2>1. c \in SignedIn(pg) /\ qg.calls[c] = pg.calls[c]
    OBVIOUS
  <2>2. pg.calls[c].answer.refresh.login \in DOMAIN fams
    BY <2>1 DEF SignedIn, Good, GrantInv, GrantOk
  <2>3. SignInOk(pg, fams, pg.calls[c].answer.refresh)
    BY <1>3, <2>1
  <2>. QED BY <1>1, <2>1, <2>2, <2>3 DEF SignInOk
<1>. QED BY <1>2, <1>4, <1>5 DEF CleanInv

\* Families end by a sign-out, or begin.
LEMMA FamiliesMove ==
    ASSUME NEW pg, NEW fams, NEW gams, Good(pg, fams), Clean(pg),
           0 \notin DOMAIN gams, DOMAIN fams \subseteq DOMAIN gams,
           \A l \in DOMAIN fams :
              \/ gams[l] = fams[l]
              \/ gams[l].end = "logout" /\ fams[l].end = "live"
    PROVE  CleanInv(pg, gams)
<1>1. /\ HeldOk(pg, fams) /\ CurrentOk(pg, fams) /\ Apart(pg)
      /\ \A c, d \in Refreshing(pg) : c = d
      /\ \A c \in Refreshing(pg) : RefreshOk(pg, fams, pg.calls[c])
      /\ \A c \in SignedIn(pg) : SignInOk(pg, fams, pg.calls[c].answer.refresh)
  BY DEF Good, CleanInv
<1>2. pg.refresh.login \in DOMAIN gams => pg.refresh.login \in DOMAIN fams
  BY DEF Good, RefreshIsOfAFamily, NoToken
<1>3. HeldOk(pg, gams)
  BY <1>1, <1>2 DEF HeldOk
<1>4. CurrentOk(pg, gams)
  BY <1>1, <1>2 DEF CurrentOk
<1>5. ASSUME NEW c \in Refreshing(pg) PROVE RefreshOk(pg, gams, pg.calls[c])
  <2>1. pg.calls[c].token.login \in DOMAIN fams
    BY DEF Refreshing, Good, GrantInv, GrantOk
  <2>2. RefreshOk(pg, fams, pg.calls[c])
    BY <1>1
  <2>. QED BY <2>1, <2>2 DEF RefreshOk
<1>6. ASSUME NEW c \in SignedIn(pg) PROVE SignInOk(pg, gams, pg.calls[c].answer.refresh)
  <2>1. pg.calls[c].answer.refresh.login \in DOMAIN fams
    BY DEF SignedIn, Good, GrantInv, GrantOk
  <2>2. SignInOk(pg, fams, pg.calls[c].answer.refresh)
    BY <1>1
  <2>. QED BY <2>1, <2>2 DEF SignInOk
<1>. QED BY <1>1, <1>3, <1>4, <1>5, <1>6 DEF CleanInv

\* Sending, ending and forgetting calls keeps the invariant.
LEMMA ExtendsKeeps ==
    ASSUME NEW pg, NEW qg, NEW fams, Good(pg, fams), PageInv(qg), Extends(pg, qg)
    PROVE  Good(qg, fams)
<1>1. SameSession(pg, qg)
  BY DEF Extends
<1>2. \A d \in DOMAIN qg.calls :
         \/ d \in DOMAIN pg.calls /\ qg.calls[d] = pg.calls[d]
         \/ qg.calls[d].step \in {"first", "done", "failed"}
  BY DEF Extends
<1>3. GrantInv(qg, fams)
  <2> SUFFICES ASSUME NEW d \in DOMAIN qg.calls,
                      d \in DOMAIN pg.calls, qg.calls[d] = pg.calls[d]
               PROVE  GrantOk(qg.tab, fams, qg.calls[d])
    <3>1. ASSUME NEW d \in DOMAIN qg.calls, qg.calls[d].step \in {"first", "done", "failed"}
          PROVE  GrantOk(qg.tab, fams, qg.calls[d])
      BY <3>1 DEF GrantOk
    <3>. QED BY <1>2, <3>1 DEF GrantInv
  <2>. QED BY <1>1 DEF Good, GrantInv, SameSession
<1>4. RefreshIsOfAFamily(qg, fams)
  BY <1>1 DEF Good, RefreshIsOfAFamily, SameSession
<1>5. SessionInv(qg, fams)
  BY <1>1, <1>2 DEF Good, SessionInv, SameSession
<1>6. CleanInv(qg, fams)
  <2> SUFFICES ASSUME Clean(qg) PROVE CleanInv(qg, fams)
    BY DEF CleanInv
  <2>1. Clean(pg)
    BY <1>1 DEF Clean, SameSession
  <2>2. \A d \in Refreshing(qg) : d \in Refreshing(pg) /\ qg.calls[d] = pg.calls[d]
    BY <1>2 DEF Refreshing
  <2>3. \A d \in SignedIn(qg) : d \in SignedIn(pg) /\ qg.calls[d] = pg.calls[d]
    BY <1>2 DEF SignedIn
  <2>4. \A d \in Refreshing(pg) : d \in Refreshing(qg)
    <3> SUFFICES ASSUME NEW d \in Refreshing(pg) PROVE d \in Refreshing(qg)
      OBVIOUS
    <3>1. d \in DOMAIN pg.calls /\ pg.calls[d].step = "refresh"
      BY DEF Refreshing
    <3>2. pg.calls[d].tab = pg.tab
      BY <2>1, <3>1, WhoRefreshes
    <3>. QED BY <3>1, <3>2 DEF Refreshing, Extends
  <2>5. Refreshing(qg) = Refreshing(pg) /\ \A d \in Refreshing(pg) : qg.calls[d] = pg.calls[d]
    BY <2>2, <2>4
  <2>6. qg.refresh = pg.refresh /\ qg.tab = pg.tab /\ qg.givenUp = pg.givenUp
    BY <1>1 DEF SameSession
  <2>. QED BY <2>1, <2>3, <2>5, <2>6, CleanKept
<1>. QED BY <1>3, <1>4, <1>5, <1>6 DEF Good

\* So does leaving out a call that does not refresh.
LEMMA WithoutKeeps ==
    ASSUME NEW pg, NEW fams, NEW c, Good(pg, fams), pg.calls[c].step # "refresh"
    PROVE  Good(Without(pg, c), fams)
<1>1. PageInv(pg)
  BY DEF Good
<1>2. Extends(pg, Without(pg, c)) /\ PageInv(Without(pg, c))
  BY <1>1, WithoutOk DEF Extends
<1>. QED BY <1>2, ExtendsKeeps

\* A session is given up by a call that is its last, or that overtakes others.
LEMMA ExpiredOk ==
    ASSUME NEW pg, NEW fams, fams \in Families(db.users), Good(pg, fams),
           NEW c \in InFlight(pg),
           Clean(pg) /\ pg.refresh.login \in DOMAIN fams =>
               fams[pg.refresh.login].end \in {"logout", "inactive"}
    PROVE  /\ Good(Without(SessionExpired(pg, c), c), fams)
           /\ PageInv(SessionExpired(pg, c))
           /\ SessionExpired(pg, c).calls = pg.calls /\ SessionExpired(pg, c).tab = pg.tab
<1> DEFINE eg == SessionExpired(pg, c)
           others == AtStep(pg, {"refresh"}) \ {c}
<1>1. /\ DOMAIN eg = PageFields
      /\ eg.access = NoToken /\ eg.refresh = NoToken /\ eg.screen = "login"
      /\ eg.crossed = (pg.crossed \/ others # {})
      /\ eg.givenUp = pg.givenUp \cup ({pg.refresh.login} \ {0})
      /\ \A f \in PageFields \ {"access", "refresh", "email", "screen", "crossed", "givenUp"} : eg[f] = pg[f]
  BY Fields DEF Good, PageInv, SessionExpired, EndSession, ClearSession
<1>. HIDE DEF eg
<1>2. eg.calls = pg.calls /\ eg.tab = pg.tab /\ eg.begun = pg.begun /\ eg.raced = pg.raced /\ eg.lost = pg.lost
  BY <1>1, Fields
<1>3. PageInv(eg)
  <2>1. NoToken \in Tokens
    BY DEF NoToken, Tokens
  <2>2. \A d \in DOMAIN eg.calls : CallOk(eg, d)
    BY <1>2 DEF Good, PageInv, CallOk
  <2>3. \A d, e \in DOMAIN eg.calls : d[1] = e[1] => SameTask(eg, d, e)
    BY <1>2 DEF Good, PageInv, SameTask
  <2>4. eg.crossed \in BOOLEAN
    BY <1>1
  <2>. QED BY <1>1, <1>2, <2>1, <2>2, <2>3, <2>4 DEF Good, PageInv
<1> DEFINE wg == Without(eg, c)
<1>4. /\ PageInv(wg) /\ SameSession(eg, wg) /\ DOMAIN wg.calls = DOMAIN pg.calls \ {c}
      /\ \A d \in DOMAIN wg.calls : wg.calls[d] = pg.calls[d]
  BY <1>2, <1>3, WithoutOk
<1>. HIDE DEF wg
<1>5. DOMAIN fams = 1..Len(fams) /\ Len(fams) \in Nat
  BY DEF Families
<1>6. wg.refresh = NoToken /\ wg.access = NoToken /\ wg.screen = "login" /\ wg.tab = pg.tab
      /\ wg.raced = pg.raced /\ wg.lost = pg.lost /\ wg.crossed = eg.crossed /\ wg.givenUp = eg.givenUp
  BY <1>1, <1>2, <1>4 DEF SameSession
<1>7. GrantInv(wg, fams)
  <2> SUFFICES ASSUME NEW d \in DOMAIN wg.calls PROVE GrantOk(wg.tab, fams, wg.calls[d])
    BY DEF GrantInv
  <2>. QED BY <1>4, <1>6 DEF Good, GrantInv
<1>8. ~wg.crossed => \A d \in DOMAIN wg.calls : ~(wg.calls[d].step = "refresh" /\ wg.calls[d].tab = wg.tab)
  BY <1>1, <1>4, <1>6 DEF AtStep, InFlight
<1>9. SessionInv(wg, fams)
  BY <1>6, <1>8 DEF SessionInv
<1>10. CleanInv(wg, fams)
  <2> SUFFICES ASSUME Clean(wg) PROVE CleanInv(wg, fams)
    BY DEF CleanInv
  <2>1. Clean(pg)
    BY <1>1, <1>6 DEF Clean, Good, PageInv
  <2>2. Refreshing(wg) = {}
    <3> SUFFICES ASSUME NEW d \in DOMAIN wg.calls, wg.calls[d].step = "refresh" PROVE FALSE
      BY DEF Refreshing
    <3>1. d \in DOMAIN pg.calls /\ pg.calls[d].step = "refresh"
      BY <1>4
    <3>2. pg.calls[d].tab = pg.tab
      BY <2>1, <3>1, WhoRefreshes
    <3>. QED BY <1>4, <1>6, <1>8, <3>2 DEF Clean
  <2>3. \A login \in wg.givenUp : login \in DOMAIN fams /\ fams[login].end \in {"logout", "inactive"}
    <3>1. pg.refresh.login = 0 \/ pg.refresh.login \in DOMAIN fams
      BY DEF Good, RefreshIsOfAFamily, NoToken
    <3>2. \A login \in pg.givenUp : login \in DOMAIN fams /\ fams[login].end \in {"logout", "inactive"}
      BY <2>1 DEF Good, CleanInv, HeldOk
    <3>. QED BY <1>1, <1>6, <2>1, <3>1, <3>2
  <2>4. \A d \in SignedIn(wg) : d \in SignedIn(pg) /\ wg.calls[d] = pg.calls[d]
    BY <1>4 DEF SignedIn
  <2>. QED BY <1>6, <2>1, <2>2, <2>3, <2>4, CleanEnded
<1>11. RefreshIsOfAFamily(wg, fams)
  BY <1>6 DEF RefreshIsOfAFamily
<1>. QED BY <1>2, <1>3, <1>4, <1>7, <1>9, <1>10, <1>11 DEF Good, wg, eg

\* A session is ended by a call that is no refresh.
LEMMA EndOk ==
    ASSUME NEW pg, NEW fams, fams \in Families(db.users), Good(pg, fams),
           NEW c, c \in DOMAIN pg.calls => pg.calls[c].step # "refresh"
    PROVE  Good(EndSession(pg, c), fams) /\ EndSession(pg, c).calls = pg.calls
           /\ EndSession(pg, c).tab = pg.tab
<1> DEFINE eg == EndSession(pg, c)
           others == AtStep(pg, {"refresh"}) \ {c}
<1>1. /\ DOMAIN eg = PageFields
      /\ eg.access = NoToken /\ eg.refresh = NoToken /\ eg.screen = "login"
      /\ eg.crossed = (pg.crossed \/ others # {})
      /\ \A f \in PageFields \ {"access", "refresh", "email", "screen", "crossed"} : eg[f] = pg[f]
  BY Fields DEF Good, PageInv, EndSession, ClearSession
<1>. HIDE DEF eg
<1>2. eg.calls = pg.calls /\ eg.tab = pg.tab /\ eg.begun = pg.begun /\ eg.raced = pg.raced
      /\ eg.lost = pg.lost /\ eg.givenUp = pg.givenUp
  BY <1>1, Fields
<1>3. PageInv(eg)
  <2>1. NoToken \in Tokens
    BY DEF NoToken, Tokens
  <2>2. \A d \in DOMAIN eg.calls : CallOk(eg, d)
    BY <1>2 DEF Good, PageInv, CallOk
  <2>3. \A d, e \in DOMAIN eg.calls : d[1] = e[1] => SameTask(eg, d, e)
    BY <1>2 DEF Good, PageInv, SameTask
  <2>4. eg.crossed \in BOOLEAN
    BY <1>1
  <2>. QED BY <1>1, <1>2, <2>1, <2>2, <2>3, <2>4 DEF Good, PageInv
<1>5. DOMAIN fams = 1..Len(fams) /\ Len(fams) \in Nat
  BY DEF Families
<1>7. GrantInv(eg, fams)
  <2> SUFFICES ASSUME NEW d \in DOMAIN eg.calls PROVE GrantOk(eg.tab, fams, eg.calls[d])
    BY DEF GrantInv
  <2>. QED BY <1>2 DEF Good, GrantInv
<1>8. ~eg.crossed => \A d \in DOMAIN eg.calls : ~(eg.calls[d].step = "refresh" /\ eg.calls[d].tab = eg.tab)
  BY <1>1, <1>2 DEF AtStep, InFlight
<1>9. SessionInv(eg, fams)
  BY <1>1, <1>8 DEF SessionInv
<1>10. CleanInv(eg, fams)
  <2> SUFFICES ASSUME Clean(eg) PROVE CleanInv(eg, fams)
    BY DEF CleanInv
  <2>1. Clean(pg)
    BY <1>1, <1>2 DEF Clean, Good, PageInv
  <2>2. Refreshing(eg) = {}
    <3> SUFFICES ASSUME NEW d \in DOMAIN eg.calls, eg.calls[d].step = "refresh" PROVE FALSE
      BY DEF Refreshing
    <3>1. d \in DOMAIN pg.calls /\ pg.calls[d].step = "refresh"
      BY <1>2
    <3>2. pg.calls[d].tab = pg.tab
      BY <2>1, <3>1, WhoRefreshes
    <3>. QED BY <1>2, <1>8, <3>2 DEF Clean
  <2>3. \A l \in eg.givenUp : l \in DOMAIN fams /\ fams[l].end \in {"logout", "inactive"}
    BY <1>2, <2>1 DEF Good, CleanInv, HeldOk
  <2>4. \A d \in SignedIn(eg) : d \in SignedIn(pg) /\ eg.calls[d] = pg.calls[d]
    BY <1>2 DEF SignedIn
  <2>. QED BY <1>1, <2>1, <2>2, <2>3, <2>4, CleanEnded
<1>11. RefreshIsOfAFamily(eg, fams)
  BY <1>1 DEF RefreshIsOfAFamily
<1>. QED BY <1>2, <1>3, <1>7, <1>9, <1>10, <1>11 DEF Good, eg

\* A call goes out again.
LEMMA AgainOk ==
    ASSUME NEW pg, PageInv(pg), NEW c \in DOMAIN pg.calls, pg.calls[c].step \notin {"login", "logout"},
           NEW step \in {"refresh", "second"}, NEW token \in Tokens
    PROVE  /\ PageInv(Again(pg, c, step, token)) /\ SameSession(pg, Again(pg, c, step, token))
           /\ Again(pg, c, step, token).begun = pg.begun
           /\ DOMAIN Again(pg, c, step, token).calls = DOMAIN pg.calls
           /\ \A d \in DOMAIN pg.calls \ {c} : Again(pg, c, step, token).calls[d] = pg.calls[d]
           /\ Again(pg, c, step, token).calls[c].step = step
           /\ Again(pg, c, step, token).calls[c].token = token
           /\ Again(pg, c, step, token).calls[c].answer = Pending
           /\ Again(pg, c, step, token).calls[c].tab = pg.calls[c].tab
<1> DEFINE qg == Again(pg, c, step, token)
<1>1. /\ DOMAIN qg = PageFields
      /\ qg.calls = [pg.calls EXCEPT ![c] =
                        [pg.calls[c] EXCEPT !.step = step, !.token = token, !.answer = Pending]]
      /\ \A f \in PageFields \ {"calls"} : qg[f] = pg[f]
  BY Fields DEF PageInv, Again
<1>. HIDE DEF qg
<1>2. SameSession(pg, qg) /\ qg.begun = pg.begun
  BY <1>1, Fields DEF SameSession
<1>3. /\ DOMAIN pg.calls[c] = CallFields
      /\ qg.calls[c] = [pg.calls[c] EXCEPT !.step = step, !.token = token, !.answer = Pending]
      /\ \A d \in DOMAIN pg.calls \ {c} : qg.calls[d] = pg.calls[d]
      /\ DOMAIN qg.calls = DOMAIN pg.calls
  BY <1>1 DEF PageInv, CallOk
<1>4. /\ DOMAIN qg.calls[c] = CallFields
      /\ qg.calls[c].step = step /\ qg.calls[c].answer = Pending /\ qg.calls[c].token = token
      /\ qg.calls[c].view = pg.calls[c].view /\ qg.calls[c].tab = pg.calls[c].tab
      /\ qg.calls[c].body = pg.calls[c].body /\ qg.calls[c].stage = pg.calls[c].stage
  BY <1>3 DEF CallFields
<1>5. CallOk(qg, c)
  <2>1. Pending.status = "pending"
    BY DEF Pending
  <2>. QED BY <1>2, <1>3, <1>4, <2>1 DEF PageInv, CallOk, SameSession, Steps, Statuses
<1>6. \A d \in DOMAIN qg.calls \ {c} : CallOk(qg, d)
  BY <1>2, <1>3 DEF PageInv, CallOk, SameSession
<1>7. \A d \in DOMAIN pg.calls :
         /\ qg.calls[d].view = pg.calls[d].view /\ qg.calls[d].tab = pg.calls[d].tab
         /\ qg.calls[d].body = pg.calls[d].body
  BY <1>3, <1>4
<1>8. \A d, e \in DOMAIN qg.calls : d[1] = e[1] => SameTask(qg, d, e)
  BY <1>3, <1>7 DEF PageInv, SameTask
<1>9. PageInv(qg)
  BY <1>1, <1>2, <1>3, <1>5, <1>6, <1>8 DEF PageInv, SameSession
<1>. QED BY <1>2, <1>3, <1>4, <1>9 DEF qg

\* doTokenRefresh.
LEMMA DoTokenRefreshOk ==
    ASSUME NEW pg, NEW fams, fams \in Families(db.users), Good(pg, fams),
           NEW c \in InFlight(pg), pg.calls[c].step = "first"
    PROVE  Good(DoTokenRefresh(pg, c), fams)
<1>1. CASE pg.refresh = NoToken
  <2>1. pg.refresh.login \notin DOMAIN fams
    BY <1>1 DEF NoToken, Families
  <2> DEFINE eg == SessionExpired(pg, c)
  <2>2. Good(Without(eg, c), fams) /\ PageInv(eg) /\ eg.calls = pg.calls /\ eg.tab = pg.tab
    BY <2>1, ExpiredOk
  <2>3. DoTokenRefresh(pg, c) = Settle(eg, c, Failed)
    BY <1>1 DEF DoTokenRefresh
  <2>. HIDE DEF eg
  <2>4. /\ c \in DOMAIN eg.calls /\ eg.calls[c].step \notin {"login", "logout"}
        /\ eg.calls[c].tab = eg.tab /\ Failed.status \in Statuses \ {"pending"}
    BY <2>2 DEF InFlight, Failed, Statuses
  <2>5. PageInv(Settle(eg, c, Failed)) /\ Extends(Without(eg, c), Settle(eg, c, Failed))
    BY <2>2, <2>4, SettleOk
  <2>. QED BY <2>2, <2>3, <2>5, ExtendsKeeps
<1>2. CASE pg.refresh # NoToken
  <2> DEFINE ag == Again(pg, c, "refresh", pg.refresh)
             races == AtStep(pg, {"refresh"}) # {}
             qg == [ag EXCEPT !.raced = @ \/ races]
  <2>1. DoTokenRefresh(pg, c) = qg
    BY <1>2 DEF DoTokenRefresh
  <2>2. /\ PageInv(ag) /\ SameSession(pg, ag) /\ DOMAIN ag.calls = DOMAIN pg.calls
        /\ \A d \in DOMAIN pg.calls \ {c} : ag.calls[d] = pg.calls[d]
        /\ ag.calls[c].step = "refresh" /\ ag.calls[c].token = pg.refresh
        /\ ag.calls[c].answer = Pending /\ ag.calls[c].tab = pg.calls[c].tab
    <3>1. /\ PageInv(pg) /\ pg.refresh \in Tokens /\ c \in DOMAIN pg.calls
          /\ pg.calls[c].step \notin {"login", "logout"} /\ "refresh" \in {"refresh", "second"}
      BY DEF Good, PageInv, InFlight
    <3>. QED BY <3>1, AgainOk
  <2>. HIDE DEF ag
  <2>3. /\ DOMAIN qg = PageFields /\ qg.raced = (pg.raced \/ races)
        /\ \A f \in PageFields \ {"raced"} : qg[f] = ag[f]
    BY <2>2, Fields DEF PageInv, SameSession
  <2>. HIDE DEF qg, races
  <2>4. /\ qg.calls = ag.calls /\ qg.tab = pg.tab /\ qg.begun = ag.begun /\ qg.refresh = pg.refresh
        /\ qg.access = pg.access /\ qg.screen = pg.screen /\ qg.email = pg.email
        /\ qg.crossed = pg.crossed /\ qg.lost = pg.lost /\ qg.givenUp = pg.givenUp
    BY <2>2, <2>3, Fields DEF SameSession
  <2>5. PageInv(qg)
    <3>1. \A d \in DOMAIN qg.calls : CallOk(qg, d)
      BY <2>2, <2>4 DEF PageInv, CallOk, SameSession
    <3>2. \A d, e \in DOMAIN qg.calls : d[1] = e[1] => SameTask(qg, d, e)
      BY <2>2, <2>4 DEF PageInv, SameTask
    <3>3. qg.raced \in BOOLEAN
      BY <2>3 DEF races, Good, PageInv
    <3>. QED BY <2>2, <2>3, <2>4, <3>1, <3>2, <3>3 DEF Good, PageInv
  <2>6. pg.refresh.login \in DOMAIN fams
    BY <1>2 DEF Good, RefreshIsOfAFamily
  <2>7. GrantInv(qg, fams)
    <3> SUFFICES ASSUME NEW d \in DOMAIN qg.calls PROVE GrantOk(qg.tab, fams, qg.calls[d])
      BY DEF GrantInv
    <3>1. CASE d = c
      <4>1. /\ qg.calls[d].step = "refresh" /\ qg.calls[d].token = pg.refresh
            /\ qg.calls[d].answer.status = "pending"
        BY <2>2, <2>4, <3>1 DEF Pending
      <4>. QED BY <2>6, <4>1 DEF GrantOk
    <3>2. CASE d # c
      <4>1. d \in DOMAIN pg.calls /\ qg.calls[d] = pg.calls[d] /\ qg.tab = pg.tab
        BY <2>2, <2>4, <3>2
      <4>. QED BY <4>1 DEF Good, GrantInv
    <3>. QED BY <3>1, <3>2
  <2>8. RefreshIsOfAFamily(qg, fams)
    BY <2>4 DEF Good, RefreshIsOfAFamily
  <2>9. SessionInv(qg, fams)
    BY <2>2, <2>4 DEF Good, SessionInv
  <2>10. CleanInv(qg, fams)
    <3> SUFFICES ASSUME Clean(qg) PROVE CleanInv(qg, fams)
      BY DEF CleanInv
    <3>1. Clean(pg) /\ ~races
      BY <2>3, <2>4 DEF Clean, Good, PageInv
    <3>2. Refreshing(pg) = {}
      BY <3>1, WhoRefreshes DEF races, AtStep, InFlight, Refreshing
    <3>3. Refreshing(qg) = {c}
      BY <2>2, <2>4, <3>2 DEF Refreshing, InFlight
    <3>4. \A d \in SignedIn(qg) : d \in SignedIn(pg) /\ qg.calls[d] = pg.calls[d]
      BY <2>2, <2>4 DEF SignedIn
    <3>5. fams[pg.refresh.login].end = "live" => pg.refresh.n = fams[pg.refresh.login].current
      <4>1. CurrentOk(pg, fams)
        BY <3>1 DEF Good, CleanInv
      <4>. QED BY <2>6, <3>2, <4>1 DEF CurrentOk
    <3>6. qg.calls[c].answer.status = "pending" /\ qg.calls[c].token = pg.refresh /\ qg.calls[c].tab = qg.tab
      BY <2>2, <2>4 DEF Pending, InFlight
    <3>7. /\ HeldOk(pg, fams) /\ Apart(pg)
          /\ \A d \in SignedIn(pg) : SignInOk(pg, fams, pg.calls[d].answer.refresh)
      BY <3>1 DEF Good, CleanInv
    <3>8. HeldOk(qg, fams) /\ \A d \in SignedIn(qg) : SignInOk(qg, fams, qg.calls[d].answer.refresh)
      BY <2>4, <3>4, <3>7, PartsKept
    <3>9. CurrentOk(qg, fams) /\ Apart(qg)
      BY <3>3, <3>4, <3>7, ApartKept DEF CurrentOk
    <3>10. RefreshOk(qg, fams, qg.calls[c])
      BY <2>4, <3>5, <3>6 DEF RefreshOk
    <3>. QED BY <3>3, <3>8, <3>9, <3>10 DEF CleanInv
  <2>. QED BY <2>1, <2>5, <2>7, <2>8, <2>9, <2>10 DEF Good
<1>. QED BY <1>1, <1>2

\* Settling a call that does not refresh.
LEMMA SettleKeeps ==
    ASSUME NEW pg, NEW fams, Good(pg, fams), NEW c \in InFlight(pg), NEW answer,
           pg.calls[c].step \in {"first", "second"}, answer.status \in Statuses \ {"pending"}
    PROVE  Good(Settle(pg, c, answer), fams)
<1>1. PageInv(pg) /\ c \in DOMAIN pg.calls /\ pg.calls[c].tab = pg.tab
      /\ pg.calls[c].step \notin {"login", "logout", "refresh"}
  BY DEF Good, InFlight
<1>2. PageInv(Settle(pg, c, answer)) /\ Extends(Without(pg, c), Settle(pg, c, answer))
  BY <1>1, SettleOk
<1>3. Good(Without(pg, c), fams)
  BY <1>1, WithoutKeeps
<1>. QED BY <1>2, <1>3, ExtendsKeeps

\* An answer to the first attempt.
LEMMA FirstAnswerOk ==
    ASSUME NEW pg, NEW fams, fams \in Families(db.users), Good(pg, fams),
           NEW c \in InFlight(pg), pg.calls[c].step = "first",
           NEW answer, answer.status \in Statuses \ {"pending"}
    PROVE  Good(FirstAnswer(pg, c, answer), fams)
<1>1. CASE answer.status = "401"
  BY <1>1, DoTokenRefreshOk DEF FirstAnswer
<1>2. CASE answer.status # "401"
  BY <1>2, SettleKeeps DEF FirstAnswer
<1>. QED BY <1>1, <1>2

\* An answer to a refresh.
LEMMA RefreshAnswerOk ==
    ASSUME NEW pg, NEW fams, fams \in Families(db.users), Good(pg, fams),
           NEW c \in InFlight(pg), pg.calls[c].step = "refresh",
           NEW answer, answer = pg.calls[c].answer, answer.status # "pending"
    PROVE  Good(RefreshAnswer(pg, c, answer), fams)
<1>1. /\ PageInv(pg) /\ c \in DOMAIN pg.calls /\ pg.calls[c].tab = pg.tab
      /\ pg.calls[c].step \notin {"login", "logout"} /\ c \in Refreshing(pg)
  BY DEF Good, InFlight, Refreshing
<1>2. CASE answer.status # "200"
  <2> DEFINE eg == SessionExpired(pg, c)
  <2>1. Clean(pg) => fams[pg.refresh.login].end \in {"logout", "inactive"}
    <3> SUFFICES ASSUME Clean(pg) PROVE fams[pg.refresh.login].end \in {"logout", "inactive"}
      OBVIOUS
    <3>1. pg.calls[c].token = pg.refresh /\ RefreshOk(pg, fams, pg.calls[c])
      BY <1>1, WhoRefreshes
    <3>. QED BY <1>2, <3>1 DEF RefreshOk
  <2>2. Good(Without(eg, c), fams) /\ PageInv(eg) /\ eg.calls = pg.calls /\ eg.tab = pg.tab
    BY <2>1, ExpiredOk
  <2>3. RefreshAnswer(pg, c, answer) = Settle(eg, c, Failed)
    BY <1>2 DEF RefreshAnswer
  <2>. HIDE DEF eg
  <2>4. /\ c \in DOMAIN eg.calls /\ eg.calls[c].step \notin {"login", "logout"}
        /\ eg.calls[c].tab = eg.tab /\ Failed.status \in Statuses \ {"pending"}
    BY <1>1, <2>2 DEF Failed, Statuses
  <2>5. PageInv(Settle(eg, c, Failed)) /\ Extends(Without(eg, c), Settle(eg, c, Failed))
    BY <2>2, <2>4, SettleOk
  <2>. QED BY <2>2, <2>3, <2>5, ExtendsKeeps
<1>3. CASE answer.status = "200"
  <2> DEFINE stored == StoreTokens(pg, answer)
             qg == Again(stored, c, "second", answer.access)
  <2>1. /\ answer.access \in Tokens /\ answer.refresh \in Tokens
        /\ answer.access.login = answer.refresh.login /\ answer.refresh.login \in DOMAIN fams
        /\ answer.refresh.login = pg.calls[c].token.login /\ answer.access.exp > now
    BY <1>1, <1>3 DEF Good, GrantInv, GrantOk
  <2>2. /\ DOMAIN stored = PageFields
        /\ stored.access = answer.access /\ stored.refresh = answer.refresh
        /\ \A f \in PageFields \ {"access", "refresh"} : stored[f] = pg[f]
    BY <1>1, Fields DEF PageInv, StoreTokens
  <2>3. RefreshAnswer(pg, c, answer) = qg
    BY <1>3, <2>2 DEF RefreshAnswer
  <2>. HIDE DEF stored
  <2>4. /\ stored.calls = pg.calls /\ stored.tab = pg.tab /\ stored.begun = pg.begun
        /\ stored.screen = pg.screen /\ stored.email = pg.email /\ stored.givenUp = pg.givenUp
        /\ stored.raced = pg.raced /\ stored.lost = pg.lost /\ stored.crossed = pg.crossed
    BY <2>2, Fields
  <2>5. PageInv(stored)
    <3>1. \A d \in DOMAIN stored.calls : CallOk(stored, d)
      BY <1>1, <2>4 DEF PageInv, CallOk
    <3>2. \A d, e \in DOMAIN stored.calls : d[1] = e[1] => SameTask(stored, d, e)
      BY <1>1, <2>4 DEF PageInv, SameTask
    <3>. QED BY <1>1, <2>1, <2>2, <2>4, <3>1, <3>2 DEF PageInv
  <2>6. /\ PageInv(qg) /\ SameSession(stored, qg) /\ DOMAIN qg.calls = DOMAIN pg.calls
        /\ \A d \in DOMAIN pg.calls \ {c} : qg.calls[d] = pg.calls[d]
        /\ qg.calls[c].step = "second" /\ qg.calls[c].token = answer.access
        /\ qg.calls[c].answer = Pending /\ qg.calls[c].tab = pg.tab
    BY <1>1, <2>1, <2>4, <2>5, AgainOk
  <2>. HIDE DEF qg
  <2>7. /\ qg.tab = pg.tab /\ qg.access = answer.access /\ qg.refresh = answer.refresh
        /\ qg.screen = pg.screen /\ qg.email = pg.email /\ qg.givenUp = pg.givenUp
        /\ qg.raced = pg.raced /\ qg.lost = pg.lost /\ qg.crossed = pg.crossed
    BY <2>2, <2>4, <2>6 DEF SameSession
  <2>8. DOMAIN fams = 1..Len(fams)
    BY DEF Families
  <2>9. GrantInv(qg, fams)
    <3> SUFFICES ASSUME NEW d \in DOMAIN qg.calls PROVE GrantOk(qg.tab, fams, qg.calls[d])
      BY DEF GrantInv
    <3>1. CASE d = c
      <4>1. /\ qg.calls[d].step = "second" /\ qg.calls[d].token = answer.access
            /\ qg.calls[d].answer = Pending /\ qg.calls[d].answer.status = "pending"
        BY <2>6, <3>1 DEF Pending
      <4>2. answer.access.login # 0 /\ answer.access.exp > now
        BY <2>1, <2>8
      <4>. QED BY <4>1, <4>2 DEF GrantOk
    <3>2. CASE d # c
      <4>1. d \in DOMAIN pg.calls /\ qg.calls[d] = pg.calls[d] /\ qg.tab = pg.tab
        BY <2>6, <2>7, <3>2
      <4>. QED BY <4>1 DEF Good, GrantInv
    <3>. QED BY <3>1, <3>2
  <2>10. SessionInv(qg, fams)
    <3> SUFFICES ASSUME ~qg.crossed PROVE SessionInv(qg, fams)
      BY DEF SessionInv
    <3>1. answer.refresh.login = pg.refresh.login
      BY <1>1, <2>1, <2>7 DEF Good, SessionInv, Refreshing
    <3>2. pg.screen = "app"
      BY <1>1, <2>1, <2>7, <2>8, <3>1 DEF Good, SessionInv, PageInv, NoToken
    <3>3. \A d \in DOMAIN qg.calls : qg.calls[d].step = "refresh" /\ qg.calls[d].tab = qg.tab =>
             qg.calls[d].token.login = qg.refresh.login
      BY <2>6, <2>7, <3>1 DEF Good, SessionInv
    <3>. QED BY <2>1, <2>7, <3>1, <3>2, <3>3 DEF Good, SessionInv
  <2>11. CleanInv(qg, fams)
    <3> SUFFICES ASSUME Clean(qg) PROVE CleanInv(qg, fams)
      BY DEF CleanInv
    <3>1. Clean(pg)
      BY <2>7 DEF Clean
    <3>2. Refreshing(qg) = {}
      <4> SUFFICES ASSUME NEW d \in DOMAIN qg.calls, qg.calls[d].step = "refresh" PROVE FALSE
        BY DEF Refreshing
      <4>1. d # c /\ d \in DOMAIN pg.calls /\ pg.calls[d].step = "refresh"
        BY <2>6
      <4>. QED BY <1>1, <3>1, <4>1, WhoRefreshes
    <3>3. \A d \in SignedIn(qg) : d \in SignedIn(pg) /\ qg.calls[d] = pg.calls[d]
      BY <2>6 DEF SignedIn
    <3>4. answer.refresh.login = pg.refresh.login
      BY <1>1, <2>1, <3>1, WhoRefreshes
    <3>5. fams[answer.refresh.login].end = "live" => answer.refresh.n = fams[answer.refresh.login].current
      <4>1. RefreshOk(pg, fams, pg.calls[c])
        BY <1>1, <3>1, WhoRefreshes
      <4>. QED BY <1>3, <2>1, <4>1 DEF RefreshOk
    <3>6. /\ HeldOk(pg, fams) /\ Apart(pg)
          /\ \A d \in SignedIn(pg) : SignInOk(pg, fams, pg.calls[d].answer.refresh)
      BY <3>1 DEF Good, CleanInv
    <3>7. HeldOk(qg, fams)
      BY <2>7, <3>4, <3>6 DEF HeldOk
    <3>8. CurrentOk(qg, fams) /\ Apart(qg)
      BY <2>7, <3>3, <3>5, <3>6, ApartKept DEF CurrentOk
    <3>9. ASSUME NEW d \in SignedIn(qg) PROVE SignInOk(qg, fams, qg.calls[d].answer.refresh)
      <4>1. SignInOk(pg, fams, qg.calls[d].answer.refresh)
        BY <3>3, <3>6
      <4>. QED BY <2>7, <3>4, <4>1 DEF SignInOk
    <3>. QED BY <3>2, <3>7, <3>8, <3>9 DEF CleanInv
  <2>12. RefreshIsOfAFamily(qg, fams)
    BY <2>1, <2>7 DEF RefreshIsOfAFamily
  <2>. QED BY <2>3, <2>6, <2>9, <2>10, <2>11, <2>12 DEF Good
<1>. QED BY <1>2, <1>3

\* An answer to the second attempt, which is never that the token is no good.
LEMMA SecondAnswerOk ==
    ASSUME NEW pg, NEW fams, Good(pg, fams),
           NEW c \in InFlight(pg), pg.calls[c].step = "second",
           NEW answer, answer = pg.calls[c].answer, answer.status # "pending"
    PROVE  Good(SecondAnswer(pg, c, answer), fams)
<1>1. answer.status # "401" /\ answer.status \in Statuses \ {"pending"}
  BY DEF Good, GrantInv, GrantOk, InFlight, PageInv, CallOk
<1>2. SecondAnswer(pg, c, answer) = Settle(pg, c, answer)
  BY <1>1 DEF SecondAnswer
<1>. QED BY <1>1, <1>2, SettleKeeps

\* Forgetting the task of a sign-in or a sign-out.
LEMMA ForgetKeeps ==
    ASSUME NEW pg, NEW fams, Good(pg, fams), NEW c \in DOMAIN pg.calls,
           pg.calls[c].step \in {"login", "logout"}
    PROVE  Good(Forget(pg, c[1]), fams) /\ Extends(pg, Forget(pg, c[1]))
           /\ c \notin DOMAIN Forget(pg, c[1]).calls
<1> DEFINE qg == Forget(pg, c[1])
<1>1. /\ PageInv(qg) /\ SameSession(pg, qg)
      /\ DOMAIN qg.calls = {d \in DOMAIN pg.calls : d[1] # c[1]}
      /\ \A d \in DOMAIN qg.calls : qg.calls[d] = pg.calls[d]
  BY ForgetOk DEF Good
<1>. HIDE DEF qg
<1>2. \A d \in DOMAIN pg.calls : pg.calls[d].step = "refresh" => d[1] # c[1]
  BY DEF Good, PageInv, CallOk, SameTask
<1>3. Extends(pg, qg)
  BY <1>1, <1>2 DEF Extends
<1>. QED BY <1>1, <1>3, ExtendsKeeps DEF qg

\* A view is shown, whatever else is under way.
LEMMA ShowViewOk ==
    ASSUME NEW pg, NEW fams, Good(pg, fams), NEW view \in Views
    PROVE  Good(ShowView(pg, view), fams)
<1> DEFINE turned == [pg EXCEPT !.view = view]
<1>1. DOMAIN turned = PageFields /\ \A f \in PageFields \ {"view"} : turned[f] = pg[f]
  BY Fields DEF Good, PageInv
<1>2. ShowView(pg, view) = IF view = "tracer" THEN turned ELSE LoadView(turned, view, WindowOf(pg, view))
  BY DEF ShowView
<1>. HIDE DEF turned
<1>3. SameSession(pg, turned) /\ turned.calls = pg.calls /\ turned.begun = pg.begun
  BY <1>1, Fields DEF SameSession
<1>4. \A d \in DOMAIN turned.calls : CallOk(turned, d)
  BY <1>3 DEF Good, PageInv, SameSession, CallOk
<1>5. \A d, e \in DOMAIN turned.calls : d[1] = e[1] => SameTask(turned, d, e)
  BY <1>3 DEF Good, PageInv, SameTask
<1>6. PageInv(turned)
  BY <1>1, <1>3, <1>4, <1>5 DEF Good, PageInv, SameSession
<1>7. Extends(pg, turned)
  BY <1>3 DEF Extends
<1>8. Good(turned, fams)
  BY <1>6, <1>7, ExtendsKeeps
<1>9. PageInv(LoadView(turned, view, WindowOf(pg, view))) /\ Extends(turned, LoadView(turned, view, WindowOf(pg, view)))
  BY <1>6, LoadViewOk
<1>10. Good(LoadView(turned, view, WindowOf(pg, view)), fams)
  BY <1>8, <1>9, ExtendsKeeps
<1>. QED BY <1>2, <1>8, <1>10

\* The answer to a sign-in.
LEMMA LoginAnswerOk ==
    ASSUME NEW pg, NEW fams, fams \in Families(db.users), Good(pg, fams),
           NEW c \in InFlight(pg), pg.calls[c].step = "login",
           NEW answer, answer = pg.calls[c].answer, answer.status # "pending"
    PROVE  Good(LoginAnswer(pg, c, answer), fams)
<1> DEFINE fg == Forget(pg, c[1])
           others == AtStep(pg, {"refresh", "second", "logout"}) # {}
           stored == [StoreTokens(fg, answer) EXCEPT !.email = answer.email, !.screen = "app",
                                                     !.crossed = @ \/ others]
<1>1. c \in DOMAIN pg.calls /\ pg.calls[c].tab = pg.tab
  BY DEF InFlight
<1>2. Good(fg, fams) /\ Extends(pg, fg) /\ c \notin DOMAIN fg.calls
  BY <1>1, ForgetKeeps
<1>3. LoginAnswer(pg, c, answer) = IF answer.status # "200" THEN fg ELSE ShowView(stored, "overview")
  BY DEF LoginAnswer
<1>4. CASE answer.status = "200"
  <2>1. /\ answer.access \in Tokens /\ answer.refresh \in Tokens
        /\ answer.access.login = answer.refresh.login /\ answer.refresh.login \in DOMAIN fams
        /\ answer.email = db.users[fams[answer.refresh.login].user].email
        /\ c \in SignedIn(pg)
    BY <1>1, <1>4 DEF Good, GrantInv, GrantOk, SignedIn
  <2>. HIDE DEF fg, others
  <2>2. /\ DOMAIN stored = PageFields
        /\ stored.access = answer.access /\ stored.refresh = answer.refresh
        /\ stored.email = answer.email /\ stored.screen = "app"
        /\ stored.crossed = (fg.crossed \/ others)
        /\ \A f \in PageFields \ {"access", "refresh", "email", "screen", "crossed"} : stored[f] = fg[f]
    BY <1>2, Fields DEF Good, PageInv, StoreTokens
  <2>. HIDE DEF stored
  <2>3. /\ stored.calls = fg.calls /\ stored.tab = fg.tab /\ stored.begun = fg.begun
        /\ stored.raced = fg.raced /\ stored.lost = fg.lost /\ stored.givenUp = fg.givenUp
    BY <2>2, Fields
  <2>4. PageInv(stored)
    <3>1. \A d \in DOMAIN stored.calls : CallOk(stored, d)
      BY <1>2, <2>3 DEF Good, PageInv, CallOk
    <3>2. \A d, e \in DOMAIN stored.calls : d[1] = e[1] => SameTask(stored, d, e)
      BY <1>2, <2>3 DEF Good, PageInv, SameTask
    <3>3. stored.crossed \in BOOLEAN
      BY <1>2, <2>2 DEF Good, PageInv, others
    <3>. QED BY <1>2, <2>1, <2>2, <2>3, <3>1, <3>2, <3>3 DEF Good, PageInv
  <2>5. GrantInv(stored, fams)
    <3> SUFFICES ASSUME NEW d \in DOMAIN stored.calls PROVE GrantOk(stored.tab, fams, stored.calls[d])
      BY DEF GrantInv
    <3>1. d \in DOMAIN fg.calls /\ stored.calls[d] = fg.calls[d] /\ stored.tab = fg.tab
      BY <2>3
    <3>2. GrantInv(fg, fams)
      BY <1>2 DEF Good
    <3>. QED BY <3>1, <3>2 DEF GrantInv
  <2>6. ~others => \A d \in DOMAIN pg.calls : ~(pg.calls[d].step = "refresh" /\ pg.calls[d].tab = pg.tab)
    BY DEF others, AtStep, InFlight
  <2>7. /\ \A d \in DOMAIN fg.calls : fg.calls[d].step \notin {"first", "done", "failed"} =>
              d \in DOMAIN pg.calls /\ fg.calls[d] = pg.calls[d]
        /\ fg.tab = pg.tab
    BY <1>2 DEF Extends, SameSession
  <2>8. SessionInv(stored, fams)
    <3> SUFFICES ASSUME ~stored.crossed PROVE SessionInv(stored, fams)
      BY DEF SessionInv
    <3>1. ~others
      BY <2>2 DEF others, Good, PageInv
    <3>2. \A d \in DOMAIN stored.calls : ~(stored.calls[d].step = "refresh" /\ stored.calls[d].tab = stored.tab)
      BY <2>3, <2>6, <2>7, <3>1
    <3>. QED BY <2>1, <2>2, <3>2 DEF SessionInv
  <2>9. CleanInv(stored, fams)
    <3> SUFFICES ASSUME Clean(stored) PROVE CleanInv(stored, fams)
      BY DEF CleanInv
    <3>1. ~others /\ Clean(fg) /\ Clean(pg)
      BY <1>2, <2>2, <2>3 DEF Clean, Extends, SameSession
    <3>2. Refreshing(stored) = {}
      <4> SUFFICES ASSUME NEW d \in DOMAIN stored.calls, stored.calls[d].step = "refresh" PROVE FALSE
        BY DEF Refreshing
      <4>1. d \in DOMAIN pg.calls /\ pg.calls[d].step = "refresh"
        BY <2>3, <2>7
      <4>2. pg.calls[d].tab = pg.tab
        BY <3>1, <4>1, WhoRefreshes
      <4>. QED BY <2>6, <3>1, <4>1, <4>2
    <3>3. \A d \in SignedIn(stored) : d \in SignedIn(pg) /\ stored.calls[d] = pg.calls[d] /\ d # c
      BY <1>2, <2>3, <2>7 DEF SignedIn
    <3>4. pg.calls[c].answer.refresh = stored.refresh
      BY <2>2
    <3>5. \A d \in SignedIn(stored) : pg.calls[d].answer.refresh.login # stored.refresh.login
      <4>1. Apart(pg)
        BY <3>1 DEF Good, CleanInv
      <4>. QED BY <2>1, <3>3, <3>4, <4>1 DEF Apart
    <3>6. fams[stored.refresh.login].end = "live" => stored.refresh.n = fams[stored.refresh.login].current
      <4>1. SignInOk(pg, fams, pg.calls[c].answer.refresh)
        BY <2>1, <3>1 DEF Good, CleanInv
      <4>. QED BY <3>4, <4>1 DEF SignInOk
    <3>7. stored.givenUp = pg.givenUp
      BY <1>2, <2>3 DEF Extends, SameSession
    <3>8. fams[stored.refresh.login].end # "reuse"
      <4>1. SignInOk(pg, fams, pg.calls[c].answer.refresh)
        BY <2>1, <3>1 DEF Good, CleanInv
      <4>. QED BY <3>4, <4>1 DEF SignInOk
    <3>9. /\ HeldOk(pg, fams) /\ Apart(pg)
          /\ \A d \in SignedIn(pg) : SignInOk(pg, fams, pg.calls[d].answer.refresh)
      BY <3>1 DEF Good, CleanInv
    <3>10. HeldOk(stored, fams)
      BY <3>7, <3>8, <3>9 DEF HeldOk
    <3>11. CurrentOk(stored, fams) /\ Apart(stored)
      BY <3>3, <3>6, <3>9, ApartKept DEF CurrentOk
    <3>12. ASSUME NEW d \in SignedIn(stored) PROVE SignInOk(stored, fams, stored.calls[d].answer.refresh)
      <4>1. SignInOk(pg, fams, pg.calls[d].answer.refresh) /\ stored.calls[d] = pg.calls[d]
        BY <3>3, <3>9
      <4>. QED BY <3>3, <3>5, <4>1 DEF SignInOk
    <3>. QED BY <3>2, <3>10, <3>11, <3>12 DEF CleanInv
  <2>10. Good(stored, fams)
    BY <2>1, <2>2, <2>4, <2>5, <2>8, <2>9 DEF Good, RefreshIsOfAFamily
  <2>11. "overview" \in Views
    BY DEF Views, Stages
  <2>. QED BY <1>3, <1>4, <2>10, <2>11, ShowViewOk DEF stored
<1>5. CASE answer.status # "200"
  BY <1>2, <1>3, <1>5
<1>. QED BY <1>4, <1>5

\* The answer to a sign-out.
LEMMA LogoutAnswerOk ==
    ASSUME NEW pg, NEW fams, fams \in Families(db.users), Good(pg, fams),
           NEW c \in InFlight(pg), pg.calls[c].step = "logout"
    PROVE  Good(LogoutAnswer(pg, c), fams)
<1>1. c \in DOMAIN pg.calls
  BY DEF InFlight
<1>2. Good(EndSession(pg, c), fams) /\ EndSession(pg, c).calls = pg.calls
  BY <1>1, EndOk
<1>. QED BY <1>1, <1>2, ForgetKeeps DEF LogoutAnswer

----------------------------------------------------------------------------
(* What the user clicks. *)

\* A view is loaded.
LEMMA LoadViewKeeps ==
    ASSUME NEW pg, NEW fams, Good(pg, fams), NEW view \in Views, NEW body
    PROVE  Good(LoadView(pg, view, body), fams)
<1>1. PageInv(LoadView(pg, view, body)) /\ Extends(pg, LoadView(pg, view, body))
  BY LoadViewOk DEF Good
<1>. QED BY <1>1, ExtendsKeeps

\* A decision is sent.
LEMMA DecideKeeps ==
    ASSUME NEW pg, NEW fams, Good(pg, fams), NEW body
    PROVE  Good(SendStage([pg EXCEPT !.begun = @ + 1], pg.begun + 1, "decide", 1, body), fams)
<1> DEFINE qg == [pg EXCEPT !.begun = @ + 1]
           task == pg.begun + 1
<1>1. DOMAIN qg = PageFields /\ qg.begun = task /\ \A f \in PageFields \ {"begun"} : qg[f] = pg[f]
  BY Fields DEF Good, PageInv
<1>. HIDE DEF qg
<1>2. SameSession(pg, qg) /\ qg.calls = pg.calls /\ pg.begun \in Nat
  BY <1>1, Fields DEF SameSession, Good, PageInv
<1>3. ASSUME NEW d \in DOMAIN qg.calls PROVE CallOk(qg, d) /\ d[1] # task
  BY <1>1, <1>2 DEF Good, PageInv, CallOk, SameSession
<1>4. \A d, e \in DOMAIN qg.calls : d[1] = e[1] => SameTask(qg, d, e)
  BY <1>2 DEF Good, PageInv, SameTask
<1>5. PageInv(qg)
  BY <1>1, <1>2, <1>3, <1>4 DEF Good, PageInv, SameSession
<1>6. Extends(pg, qg)
  BY <1>2 DEF Extends
<1>7. Good(qg, fams)
  BY <1>5, <1>6, ExtendsKeeps
<1>8. "decide" \in DOMAIN Stages /\ 1 \in DOMAIN Stages["decide"] /\ task \in 1..qg.begun
  BY <1>1, <1>2 DEF Stages
<1>9. PageInv(SendStage(qg, task, "decide", 1, body)) /\ Extends(qg, SendStage(qg, task, "decide", 1, body))
  BY <1>3, <1>5, <1>8, SendStageOk
<1>. QED BY <1>7, <1>9, ExtendsKeeps DEF qg

\* A request without a bearer is sent.
LEMMA SendBareKeeps ==
    ASSUME NEW pg, NEW fams, Good(pg, fams), NEW what \in {"login", "logout"},
           NEW token \in Tokens, NEW body, what = "login" => body \in DOMAIN db.users
    PROVE  Good(SendBare(pg, what, token, body), fams)
<1> DEFINE qg == SendBare(pg, what, token, body)
           sent == <<pg.begun + 1, what>>
           call == [view |-> what, stage |-> 1, body |-> body, step |-> what, tab |-> pg.tab,
                    token |-> token, answer |-> Pending]
<1>1. /\ DOMAIN qg = PageFields /\ qg.begun = pg.begun + 1
      /\ qg.calls = [c \in DOMAIN pg.calls \cup {sent} |-> IF c = sent THEN call ELSE pg.calls[c]]
      /\ \A f \in PageFields \ {"calls", "begun"} : qg[f] = pg[f]
  BY Fields DEF Good, PageInv, SendBare
<1>. HIDE DEF qg
<1>2. SameSession(pg, qg) /\ pg.begun \in Nat
  BY <1>1, Fields DEF SameSession, Good, PageInv
<1>3. \A d \in DOMAIN pg.calls : d[1] # pg.begun + 1 /\ d # sent
  BY <1>2 DEF Good, PageInv, CallOk
<1>4. /\ DOMAIN qg.calls = DOMAIN pg.calls \cup {sent} /\ qg.calls[sent] = call
      /\ \A d \in DOMAIN pg.calls : qg.calls[d] = pg.calls[d]
  BY <1>1, <1>3
<1>5. /\ call.view = what /\ call.step = what /\ call.tab = pg.tab /\ call.token = token
      /\ call.answer.status = "pending" /\ call.body = body /\ DOMAIN call = CallFields
      /\ call.answer = Pending /\ what \notin DOMAIN Stages
      /\ sent[1] = pg.begun + 1 /\ sent[2] = what
  BY DEF CallFields, Pending, Stages
<1>. HIDE DEF call, sent
<1>6. CallOk(qg, sent)
  <2>1. sent = <<sent[1], sent[2]>> /\ sent[1] \in 1..qg.begun
    BY <1>1, <1>2, <1>5 DEF sent
  <2>2. qg.calls[sent].tab \in 0..qg.tab
    BY <1>2, <1>4, <1>5 DEF Good, PageInv, SameSession
  <2>. QED BY <1>4, <1>5, <2>1, <2>2 DEF CallOk, Steps, Statuses
<1>7. ASSUME NEW d \in DOMAIN pg.calls PROVE CallOk(qg, d)
  <2>1. CallOk(pg, d) /\ qg.calls[d] = pg.calls[d] /\ qg.begun = pg.begun + 1 /\ qg.tab = pg.tab
    BY <1>1, <1>2, <1>4 DEF Good, PageInv, SameSession
  <2>. QED BY <1>2, <2>1 DEF CallOk
<1>8. \A d, e \in DOMAIN qg.calls : d[1] = e[1] => SameTask(qg, d, e)
  BY <1>3, <1>4, <1>5 DEF Good, PageInv, SameTask
<1>9. PageInv(qg)
  BY <1>1, <1>2, <1>4, <1>6, <1>7, <1>8 DEF Good, PageInv, SameSession
<1>10. GrantInv(qg, fams)
  <2> SUFFICES ASSUME NEW d \in DOMAIN qg.calls PROVE GrantOk(qg.tab, fams, qg.calls[d])
    BY DEF GrantInv
  <2>1. CASE d = sent
    <3>1. /\ qg.calls[d].step = what /\ qg.calls[d].body = body
          /\ qg.calls[d].answer.status = "pending"
      BY <1>4, <1>5, <2>1
    <3>. QED BY <3>1 DEF GrantOk
  <2>2. CASE d # sent
    <3>1. d \in DOMAIN pg.calls /\ qg.calls[d] = pg.calls[d] /\ qg.tab = pg.tab
      BY <1>2, <1>4, <2>2 DEF SameSession
    <3>. QED BY <3>1 DEF Good, GrantInv, GrantOk
  <2>. QED BY <2>1, <2>2
<1>11. RefreshIsOfAFamily(qg, fams)
  BY <1>2 DEF SameSession, Good, RefreshIsOfAFamily
<1>12. SessionInv(qg, fams)
  BY <1>2, <1>4, <1>5 DEF SameSession, Good, SessionInv
<1>13. CleanInv(qg, fams)
  <2> SUFFICES ASSUME Clean(qg) PROVE CleanInv(qg, fams)
    BY DEF CleanInv
  <2>1. Clean(pg)
    BY <1>2 DEF Clean, SameSession
  <2>2. Refreshing(qg) = Refreshing(pg) /\ \A d \in Refreshing(pg) : qg.calls[d] = pg.calls[d]
    BY <1>4, <1>5 DEF Refreshing
  <2>3. \A d \in SignedIn(qg) : d \in SignedIn(pg) /\ qg.calls[d] = pg.calls[d]
    BY <1>4, <1>5 DEF SignedIn
  <2>4. qg.refresh = pg.refresh /\ qg.tab = pg.tab /\ qg.givenUp = pg.givenUp
    BY <1>2 DEF SameSession
  <2>. QED BY <2>1, <2>2, <2>3, <2>4, CleanKept
<1>. QED BY <1>9, <1>10, <1>11, <1>12, <1>13 DEF Good, qg

\* The script starts over: nothing of its tab is under way any more.
LEMMA BootKeeps ==
    ASSUME NEW fams, fams \in Families(db.users), Good(page, fams), Boot
    PROVE  Good(page', fams)
<1> DEFINE loaded == [f \in DOMAIN page |-> IF f \in DOMAIN Storage THEN page[f] ELSE Fresh[f]]
           unheard == {c \in DOMAIN page.calls : page.calls[c].answer = Pending}
           lost == page.lost \/ AtStep(page, {"refresh"}) # {}
           booted == [loaded EXCEPT !.tab = @ + 1, !.calls = [c \in unheard |-> page.calls[c]],
                                    !.lost = @ \/ AtStep(page, {"refresh"}) # {}]
<1>1. /\ DOMAIN loaded = PageFields /\ loaded.screen = "login" /\ loaded.tab = page.tab
      /\ loaded.lost = page.lost /\ loaded.begun = page.begun /\ loaded.access = page.access
      /\ loaded.refresh = page.refresh /\ loaded.email = page.email /\ loaded.raced = page.raced
      /\ loaded.crossed = page.crossed /\ loaded.givenUp = page.givenUp
  BY Fields DEF Good, PageInv, Fresh, Storage
<1>2. page' = IF page.access = NoToken THEN booted ELSE ShowView([booted EXCEPT !.screen = "app"], "overview")
  BY DEF Boot
<1>. HIDE DEF loaded
<1>3. /\ DOMAIN booted = PageFields /\ booted.screen = "login" /\ booted.tab = page.tab + 1
      /\ booted.lost = lost /\ booted.begun = page.begun /\ booted.access = page.access
      /\ booted.refresh = page.refresh /\ booted.email = page.email /\ booted.raced = page.raced
      /\ booted.crossed = page.crossed /\ booted.givenUp = page.givenUp
      /\ booted.calls = [c \in unheard |-> page.calls[c]]
  BY <1>1, Fields
<1>. HIDE DEF booted
<1>4. ASSUME NEW qg, DOMAIN qg = PageFields, \A f \in PageFields \ {"screen"} : qg[f] = booted[f],
             qg.screen \in {"login", "app"},
             page.access = NoToken <=> qg.screen = "login"
      PROVE  Good(qg, fams)
  <2>1. /\ qg.tab = page.tab + 1 /\ qg.lost = lost /\ qg.begun = page.begun /\ qg.access = page.access
        /\ qg.refresh = page.refresh /\ qg.email = page.email /\ qg.raced = page.raced
        /\ qg.crossed = page.crossed /\ qg.givenUp = page.givenUp
        /\ DOMAIN qg.calls = unheard /\ \A d \in unheard : qg.calls[d] = page.calls[d]
    BY <1>3, <1>4, Fields
  <2>2. page.tab \in Nat /\ lost \in BOOLEAN
    BY DEF Good, PageInv
  <2>. HIDE DEF lost
  <2>3. \A d \in DOMAIN qg.calls : CallOk(qg, d)
    BY <2>1, <2>2 DEF Good, PageInv, CallOk
  <2>4. \A d, e \in DOMAIN qg.calls : d[1] = e[1] => SameTask(qg, d, e)
    BY <2>1 DEF Good, PageInv, SameTask
  <2>5. PageInv(qg)
    BY <1>4, <2>1, <2>2, <2>3, <2>4 DEF Good, PageInv
  <2>6. \A d \in DOMAIN qg.calls : qg.calls[d].tab # qg.tab /\ qg.calls[d].answer.status = "pending"
    BY <2>1, <2>2 DEF Good, PageInv, CallOk, Pending
  <2>7. GrantInv(qg, fams)
    <3> SUFFICES ASSUME NEW d \in DOMAIN qg.calls PROVE GrantOk(qg.tab, fams, qg.calls[d])
      BY DEF GrantInv
    <3>1. d \in DOMAIN page.calls /\ qg.calls[d] = page.calls[d]
      BY <2>1
    <3>. QED BY <2>6, <3>1 DEF Good, GrantInv, GrantOk
  <2>8. RefreshIsOfAFamily(qg, fams)
    BY <2>1 DEF Good, RefreshIsOfAFamily
  <2>9. SessionInv(qg, fams)
    <3> SUFFICES ASSUME ~qg.crossed PROVE SessionInv(qg, fams)
      BY DEF SessionInv
    <3>1. DOMAIN fams = 1..Len(fams)
      BY DEF Families
    <3>2. page.screen = "app" => page.access # NoToken
      BY <2>1, <3>1 DEF Good, SessionInv, NoToken
    <3>. QED BY <1>4, <2>1, <2>6, <3>2 DEF Good, SessionInv, PageInv
  <2>10. CleanInv(qg, fams)
    <3> SUFFICES ASSUME Clean(qg) PROVE CleanInv(qg, fams)
      BY DEF CleanInv
    <3>1. Clean(page) /\ AtStep(page, {"refresh"}) = {}
      BY <2>1, <2>2 DEF Clean, lost, Good, PageInv
    <3>2. Refreshing(page) = {}
      BY <3>1 DEF AtStep, InFlight, Refreshing, Good, CleanInv, HeldOk, CurrentOk, RefreshOk, SignInOk, Apart
    <3>3. Refreshing(qg) = {}
      BY <2>1, <3>2 DEF Refreshing
    <3>4. SignedIn(qg) = {}
      BY <2>6 DEF SignedIn
    <3>. QED BY <2>1, <3>1, <3>2, <3>3, <3>4 DEF Good, CleanInv, HeldOk, CurrentOk, RefreshOk, SignInOk, Apart
  <2>. QED BY <2>5, <2>7, <2>8, <2>9, <2>10 DEF Good
<1>5. CASE page.access = NoToken
  BY <1>2, <1>3, <1>4, <1>5
<1>6. CASE page.access # NoToken
  <2> DEFINE app == [booted EXCEPT !.screen = "app"]
  <2>1. DOMAIN app = PageFields /\ app.screen = "app" /\ \A f \in PageFields \ {"screen"} : app[f] = booted[f]
    BY <1>3, Fields
  <2>2. page' = ShowView(app, "overview") /\ "overview" \in Views
    BY <1>2, <1>6 DEF Views, Stages
  <2>. HIDE DEF app
  <2>3. Good(app, fams)
    BY <1>4, <1>6, <2>1
  <2>. QED BY <2>2, <2>3, ShowViewOk
<1>. QED BY <1>5, <1>6

----------------------------------------------------------------------------
(* What the back end answers. *)

\* An answer is delivered, or nobody is there to hear it.
LEMMA DeliverOk ==
    ASSUME PageInv(page), NEW c \in DOMAIN page.calls, NEW answer, Deliver(c, answer),
           answer.status \in Statuses \ {"pending"}
    PROVE  /\ PageInv(page') /\ SameSession(page, page') /\ page'.begun = page.begun
           /\ IF page.calls[c].tab = page.tab
              THEN /\ DOMAIN page'.calls = DOMAIN page.calls
                   /\ page'.calls[c].answer = answer
                   /\ \A f \in CallFields \ {"answer"} : page'.calls[c][f] = page.calls[c][f]
              ELSE DOMAIN page'.calls = DOMAIN page.calls \ {c}
           /\ \A d \in DOMAIN page.calls \ {c} : page'.calls[d] = page.calls[d]
<1>1. CASE page.calls[c].tab = page.tab
  <2>1. /\ DOMAIN page' = PageFields
        /\ page'.calls = [page.calls EXCEPT ![c] = [page.calls[c] EXCEPT !.answer = answer]]
        /\ \A f \in PageFields \ {"calls"} : page'[f] = page[f]
    BY <1>1, Fields DEF Deliver, PageInv
  <2>2. SameSession(page, page') /\ page'.begun = page.begun
    BY <2>1, Fields DEF SameSession
  <2>3. /\ DOMAIN page.calls[c] = CallFields
        /\ DOMAIN page'.calls = DOMAIN page.calls
        /\ page'.calls[c] = [page.calls[c] EXCEPT !.answer = answer]
        /\ \A d \in DOMAIN page.calls \ {c} : page'.calls[d] = page.calls[d]
    BY <2>1 DEF PageInv, CallOk
  <2>4. /\ DOMAIN page'.calls[c] = CallFields /\ page'.calls[c].answer = answer
        /\ \A f \in CallFields \ {"answer"} : page'.calls[c][f] = page.calls[c][f]
    BY <2>3 DEF CallFields
  <2>5. /\ page'.calls[c].step = page.calls[c].step /\ page'.calls[c].tab = page.calls[c].tab
        /\ page'.calls[c].token = page.calls[c].token /\ page'.calls[c].view = page.calls[c].view
        /\ page'.calls[c].stage = page.calls[c].stage /\ page'.calls[c].body = page.calls[c].body
    BY <2>4 DEF CallFields
  <2>6. CallOk(page', c)
    <3>1. CallOk(page, c) /\ page'.begun = page.begun /\ page'.tab = page.tab
      BY <2>2 DEF PageInv, SameSession
    <3>. QED BY <2>4, <2>5, <3>1 DEF CallOk
  <2>7. ASSUME NEW d \in DOMAIN page.calls \ {c} PROVE CallOk(page', d)
    <3>1. CallOk(page, d) /\ page'.calls[d] = page.calls[d] /\ page'.begun = page.begun /\ page'.tab = page.tab
      BY <2>2, <2>3 DEF PageInv, SameSession
    <3>. QED BY <3>1 DEF CallOk
  <2>8. \A d, e \in DOMAIN page'.calls : d[1] = e[1] => SameTask(page', d, e)
    <3>1. \A d \in DOMAIN page.calls :
             /\ page'.calls[d].view = page.calls[d].view /\ page'.calls[d].tab = page.calls[d].tab
             /\ page'.calls[d].body = page.calls[d].body
      BY <2>3, <2>5
    <3>. QED BY <2>3, <3>1 DEF PageInv, SameTask
  <2>9. PageInv(page')
    BY <2>1, <2>2, <2>3, <2>6, <2>7, <2>8 DEF PageInv, SameSession
  <2>. QED BY <1>1, <2>2, <2>3, <2>4, <2>9
<1>2. CASE page.calls[c].tab # page.tab
  <2>1. page' = Without(page, c)
    BY <1>2 DEF Deliver, Without
  <2>. QED BY <1>2, <2>1, WithoutOk
<1>. QED BY <1>1, <1>2

\* The named fields of a call that was answered.
Answered(pg, qg, c, answer) ==
    /\ qg.calls[c].view = pg.calls[c].view /\ qg.calls[c].stage = pg.calls[c].stage
    /\ qg.calls[c].body = pg.calls[c].body /\ qg.calls[c].step = pg.calls[c].step
    /\ qg.calls[c].tab = pg.calls[c].tab /\ qg.calls[c].token = pg.calls[c].token
    /\ qg.calls[c].answer = answer

\* The same, as it is used.
LEMMA Delivered ==
    ASSUME PageInv(page), NEW c \in DOMAIN page.calls, NEW answer, Deliver(c, answer),
           answer.status \in Statuses \ {"pending"}
    PROVE  /\ PageInv(page') /\ SameSession(page, page') /\ page'.begun = page.begun
           /\ c \in DOMAIN page'.calls => page.calls[c].tab = page.tab /\ Answered(page, page', c, answer)
           /\ page.calls[c].tab = page.tab => c \in DOMAIN page'.calls
           /\ \A d \in DOMAIN page'.calls : d \in DOMAIN page.calls
           /\ \A d \in DOMAIN page.calls : d # c => d \in DOMAIN page'.calls /\ page'.calls[d] = page.calls[d]
<1>1. {"view", "stage", "body", "step", "tab", "token"} \subseteq CallFields \ {"answer"}
  BY DEF CallFields
<1>. QED BY <1>1, DeliverOk DEF Answered

\* Calls with a bearer, and sign-outs, are answered.
LEMMA AnswerKeeps ==
    ASSUME NEW fams, Good(page, fams), NEW c \in DOMAIN page.calls, NEW answer, Deliver(c, answer),
           page.calls[c].step \in {"first", "second", "logout"},
           answer.status \in Statuses \ {"pending"},
           page.calls[c].step = "second" /\ page.calls[c].tab = page.tab => answer.status # "401"
    PROVE  Good(page', fams)
<1>1. /\ PageInv(page') /\ SameSession(page, page')
      /\ c \in DOMAIN page'.calls => page.calls[c].tab = page.tab /\ Answered(page, page', c, answer)
      /\ \A d \in DOMAIN page'.calls : d \in DOMAIN page.calls
      /\ \A d \in DOMAIN page.calls : d # c => d \in DOMAIN page'.calls /\ page'.calls[d] = page.calls[d]
  BY Delivered DEF Good
<1>2. GrantInv(page', fams)
  <2> SUFFICES ASSUME NEW d \in DOMAIN page'.calls PROVE GrantOk(page'.tab, fams, page'.calls[d])
    BY DEF GrantInv
  <2>1. CASE d = c
    <3>1. answer # Pending
      BY DEF Pending
    <3>2. /\ page'.calls[d].step \in {"first", "second", "logout"} /\ page'.calls[d].answer = answer
          /\ page'.calls[d].step = "second" => answer.status # "401"
      BY <1>1, <2>1 DEF Answered
    <3>. QED BY <3>1, <3>2 DEF GrantOk
  <2>2. CASE d # c
    <3>1. d \in DOMAIN page.calls /\ page'.calls[d] = page.calls[d] /\ page'.tab = page.tab
      BY <1>1, <2>2 DEF SameSession
    <3>. QED BY <3>1 DEF Good, GrantInv, GrantOk
  <2>. QED BY <2>1, <2>2
<1>3. RefreshIsOfAFamily(page', fams)
  BY <1>1 DEF Good, RefreshIsOfAFamily, SameSession
<1>4. \A d \in DOMAIN page'.calls : page'.calls[d].step \in {"refresh", "login"} =>
         d \in DOMAIN page.calls /\ page'.calls[d] = page.calls[d]
  BY <1>1 DEF Answered
<1>5. SessionInv(page', fams)
  BY <1>1, <1>4 DEF Good, SessionInv, SameSession
<1>6. CleanInv(page', fams)
  <2> SUFFICES ASSUME Clean(page') PROVE CleanInv(page', fams)
    BY DEF CleanInv
  <2>1. Clean(page)
    BY <1>1 DEF Clean, SameSession
  <2>2. Refreshing(page') = Refreshing(page) /\ \A d \in Refreshing(page) : page'.calls[d] = page.calls[d]
    BY <1>1, <1>4 DEF Refreshing
  <2>3. \A d \in SignedIn(page') : d \in SignedIn(page) /\ page'.calls[d] = page.calls[d]
    BY <1>1, <1>4 DEF SignedIn
  <2>4. page'.refresh = page.refresh /\ page'.tab = page.tab /\ page'.givenUp = page.givenUp
    BY <1>1 DEF SameSession
  <2>. QED BY <2>1, <2>2, <2>3, <2>4, CleanKept
<1>. QED BY <1>1, <1>2, <1>3, <1>5, <1>6 DEF Good

\* Families end by a sign-out, or not at all.
LEMMA LogoutKeeps ==
    ASSUME NEW pg, NEW fams, NEW gams, Good(pg, fams), fams \in Families(db.users),
           DOMAIN gams = DOMAIN fams,
           \A l \in DOMAIN fams :
              \/ gams[l] = fams[l]
              \/ gams[l].user = fams[l].user /\ gams[l].end = "logout" /\ fams[l].end = "live"
    PROVE  Good(pg, gams)
<1>1. \A l \in DOMAIN fams : gams[l].user = fams[l].user
  OBVIOUS
<1>2. GrantInv(pg, gams)
  <2> SUFFICES ASSUME NEW d \in DOMAIN pg.calls PROVE GrantOk(pg.tab, gams, pg.calls[d])
    BY DEF GrantInv
  <2>. QED BY <1>1 DEF Good, GrantInv, GrantOk
<1>3. RefreshIsOfAFamily(pg, gams)
  BY DEF Good, RefreshIsOfAFamily
<1>4. SessionInv(pg, gams)
  BY <1>1 DEF Good, SessionInv
<1>5. CleanInv(pg, gams)
  <2> SUFFICES ASSUME Clean(pg) PROVE CleanInv(pg, gams)
    BY DEF CleanInv
  <2>1. 0 \notin DOMAIN gams
    BY DEF Families
  <2>. QED BY <2>1, FamiliesMove
<1>. QED BY <1>2, <1>3, <1>4, <1>5 DEF Good

\* One family.
Family(users) == [user : DOMAIN users, current : Nat, rotatedAt : Int,
                  end : {"live", "logout", "inactive", "reuse"}]

\* What a family has.
LEMMA FamilyOk ==
    ASSUME NEW users, NEW fams \in Families(users), NEW l \in DOMAIN fams
    PROVE  /\ fams[l] \in Family(users)
           /\ fams[l].current \in Nat /\ fams[l].user \in DOMAIN users /\ fams[l].rotatedAt \in Int
           /\ fams[l].end \in {"live", "logout", "inactive", "reuse"}
           /\ DOMAIN fams[l] = {"user", "current", "rotatedAt", "end"}
<1>1. fams \in Seq(Family(users))
  BY DEF Families, Family
<1>2. fams[l] \in Family(users)
  BY <1>1
<1>. QED BY <1>2 DEF Family

\* One family changes.
LEMMA FamilyChanges ==
    ASSUME NEW users, NEW fams \in Families(users), NEW l \in DOMAIN fams, NEW f \in Family(users),
           NEW gams, gams = [fams EXCEPT ![l] = f]
    PROVE  gams \in Families(users)
<1>1. fams \in Seq(Family(users))
  BY DEF Families, Family
<1>2. gams \in Seq(Family(users))
  BY <1>1
<1>. QED BY <1>2 DEF Families, Family

\* A family is revoked.
LEMMA RevokeOk ==
    ASSUME families \in Families(db.users), NEW login \in DOMAIN families,
           NEW reason \in {"logout", "inactive", "reuse"}, Revoke(login, reason)
    PROVE  /\ families' \in Families(db.users) /\ DOMAIN families' = DOMAIN families
           /\ \A l \in DOMAIN families : families'[l].user = families[l].user
           /\ \A l \in DOMAIN families : l # login => families'[l] = families[l]
           /\ families'[login].end = reason
<1> DEFINE f == [families[login] EXCEPT !.end = reason]
<1>1. families' = [families EXCEPT ![login] = f]
  BY DEF Revoke
<1>2. f \in Family(db.users) /\ f.user = families[login].user /\ f.end = reason
  BY FamilyOk DEF Family
<1>. HIDE DEF f
<1>3. families' \in Families(db.users)
  BY <1>1, <1>2, FamilyChanges
<1>. QED BY <1>1, <1>2, <1>3

\* The answer to a refresh of login, which makes gams of the families.
AnswerFits(login, fams, gams, answer) ==
    /\ answer.status \in {"200", "401", "409"}
    /\ fams[login].end # "live" => gams[login] = fams[login]
    /\ answer.status = "200" =>
          /\ answer.access \in Tokens /\ answer.refresh \in Tokens
          /\ answer.access.login = login /\ answer.refresh.login = login
          /\ answer.access.exp > now
    /\ Clean(page) =>
          /\ answer.status \in {"200", "401"} /\ gams[login].end # "reuse"
          /\ answer.status = "401" => gams[login].end \in {"logout", "inactive"}
          /\ answer.status = "200" /\ gams[login].end = "live" =>
                answer.refresh.n = gams[login].current

\* A refresh is answered, and its family is as the answer says.
LEMMA RefreshKeeps ==
    ASSUME NEW fams, NEW gams, Good(page, fams), fams \in Families(db.users),
           NEW c \in DOMAIN page.calls, NEW answer, Deliver(c, answer),
           page.calls[c].step = "refresh", page.calls[c].answer = Pending,
           DOMAIN gams = DOMAIN fams,
           \A l \in DOMAIN fams : gams[l].user = fams[l].user,
           \A l \in DOMAIN fams : l # page.calls[c].token.login => gams[l] = fams[l],
           AnswerFits(page.calls[c].token.login, fams, gams, answer)
    PROVE  Good(page', gams)
<1> DEFINE login == page.calls[c].token.login
<1>1. /\ PageInv(page') /\ SameSession(page, page')
      /\ c \in DOMAIN page'.calls => page.calls[c].tab = page.tab /\ Answered(page, page', c, answer)
      /\ page.calls[c].tab = page.tab => c \in DOMAIN page'.calls
      /\ \A d \in DOMAIN page'.calls : d \in DOMAIN page.calls
      /\ \A d \in DOMAIN page.calls : d # c => d \in DOMAIN page'.calls /\ page'.calls[d] = page.calls[d]
  <2>1. answer.status \in Statuses \ {"pending"} /\ PageInv(page)
    BY DEF AnswerFits, Statuses, Good
  <2>. QED BY <2>1, Delivered
<1>2. login \in DOMAIN fams
  BY DEF Good, GrantInv, GrantOk
<1>3. GrantInv(page', gams)
  <2> SUFFICES ASSUME NEW d \in DOMAIN page'.calls PROVE GrantOk(page'.tab, gams, page'.calls[d])
    BY DEF GrantInv
  <2>1. CASE d = c
    <3>1. /\ page'.calls[d].step = "refresh" /\ page'.calls[d].answer = answer
          /\ page'.calls[d].token.login = login
      BY <1>1, <2>1 DEF Answered
    <3>. QED BY <1>2, <3>1 DEF AnswerFits, GrantOk
  <2>2. CASE d # c
    <3>1. d \in DOMAIN page.calls /\ page'.calls[d] = page.calls[d] /\ page'.tab = page.tab
      BY <1>1, <2>2 DEF SameSession
    <3>2. GrantOk(page.tab, fams, page.calls[d])
      BY <3>1 DEF Good, GrantInv
    <3>. QED BY <3>1, <3>2, GrantStays
  <2>. QED BY <2>1, <2>2
<1>4. RefreshIsOfAFamily(page', gams)
  BY <1>1 DEF Good, RefreshIsOfAFamily, SameSession
<1>5. SessionInv(page', gams)
  <2> SUFFICES ASSUME ~page'.crossed PROVE SessionInv(page', gams)
    BY DEF SessionInv
  <2>1. SessionInv(page, gams)
    BY DEF Good, SessionInv
  <2>2. \A d \in DOMAIN page'.calls : page'.calls[d].step = "refresh" /\ page'.calls[d].tab = page'.tab =>
           page'.calls[d].token.login = page'.refresh.login
    <3> SUFFICES ASSUME NEW d \in DOMAIN page'.calls, page'.calls[d].step = "refresh",
                        page'.calls[d].tab = page'.tab
                 PROVE  page'.calls[d].token.login = page'.refresh.login
      OBVIOUS
    <3>1. /\ d \in DOMAIN page.calls /\ page'.calls[d].step = page.calls[d].step
          /\ page'.calls[d].tab = page.calls[d].tab /\ page'.calls[d].token = page.calls[d].token
      BY <1>1 DEF Answered
    <3>. QED BY <1>1, <2>1, <3>1 DEF SameSession, SessionInv
  <2>. QED BY <1>1, <2>1, <2>2 DEF SessionInv, SameSession
<1>6. CleanInv(page', gams)
  <2> SUFFICES ASSUME Clean(page') PROVE CleanInv(page', gams)
    BY DEF CleanInv
  <2>1. Clean(page)
    BY <1>1 DEF Clean, SameSession
  <2>2. c \in Refreshing(page)
    BY DEF Refreshing
  <2>3. /\ Refreshing(page) = {c} /\ page.calls[c].tab = page.tab /\ page.calls[c].token = page.refresh
    BY <2>1, <2>2 DEF Good, CleanInv, HeldOk, CurrentOk, RefreshOk, SignInOk, Apart
  <2>4. Refreshing(page') = {c} /\ Answered(page, page', c, answer)
    BY <1>1, <2>3 DEF Refreshing, Answered
  <2>5. SignedIn(page') = SignedIn(page) /\ \A d \in SignedIn(page) : page'.calls[d] = page.calls[d]
    BY <1>1 DEF SignedIn, Answered
  <2>6. \A d \in SignedIn(page) : LET l == page.calls[d].answer.refresh.login
                                  IN  l \in DOMAIN fams /\ l # login /\ gams[l] = fams[l]
    <3>1. \A d \in SignedIn(page) : page.calls[d].answer.refresh.login \in DOMAIN fams
      BY DEF SignedIn, Good, GrantInv, GrantOk
    <3>2. \A d \in SignedIn(page) : page.calls[d].answer.refresh.login # page.refresh.login
      BY <2>1 DEF Good, CleanInv, HeldOk, CurrentOk, RefreshOk, SignInOk, Apart
    <3>. QED BY <2>3, <3>1, <3>2
  <2>7. /\ HeldOk(page, fams) /\ Apart(page) /\ RefreshOk(page, fams, page.calls[c])
        /\ \A d \in SignedIn(page) : SignInOk(page, fams, page.calls[d].answer.refresh)
    BY <2>1, <2>2 DEF Good, CleanInv
  <2>8. page'.refresh = page.refresh /\ page'.tab = page.tab /\ page'.givenUp = page.givenUp
        /\ page.refresh.login = login
    BY <1>1, <2>3 DEF SameSession
  <2>9. HeldOk(page', gams)
    <3>1. gams[login].end # "reuse"
      BY <2>1 DEF AnswerFits
    <3>2. \A l \in DOMAIN fams : fams[l].end \in {"logout", "inactive"} => gams[l] = fams[l]
      BY DEF AnswerFits
    <3>. QED BY <2>7, <2>8, <3>1, <3>2 DEF HeldOk
  <2>10. ASSUME NEW d \in SignedIn(page') PROVE SignInOk(page', gams, page'.calls[d].answer.refresh)
    <3>1. d \in SignedIn(page) /\ page'.calls[d] = page.calls[d]
      BY <2>5
    <3>2. SignInOk(page, fams, page.calls[d].answer.refresh)
      BY <2>7, <3>1
    <3>3. gams[page.calls[d].answer.refresh.login] = fams[page.calls[d].answer.refresh.login]
      BY <2>6, <3>1
    <3>. QED BY <2>8, <3>1, <3>2, <3>3 DEF SignInOk
  <2>11. Apart(page') /\ CurrentOk(page', gams)
    BY <2>4, <2>5, <2>7, ApartKept DEF CurrentOk
  <2>12. RefreshOk(page', gams, page'.calls[c])
    <3>1. /\ page'.calls[c].answer = answer /\ page'.calls[c].token = page.calls[c].token
          /\ page'.calls[c].tab = page.calls[c].tab
      BY <2>4 DEF Answered
    <3>2. /\ answer.status \in {"200", "401"}
          /\ answer.status = "401" => gams[login].end \in {"logout", "inactive"}
          /\ answer.status = "200" /\ gams[login].end = "live" => answer.refresh.n = gams[login].current
      BY <2>1 DEF AnswerFits
    <3>. QED BY <2>3, <2>8, <3>1, <3>2 DEF RefreshOk
  <2>. QED BY <2>4, <2>9, <2>10, <2>11, <2>12 DEF CleanInv
<1>. QED BY <1>1, <1>3, <1>4, <1>5, <1>6 DEF Good

\* Each answer to a refresh.
LEMMA ServeRefreshOk ==
    ASSUME FamiliesInv, Good(page, families), AccessLife \in Nat \ {0},
           NEW c \in DOMAIN page.calls, ServeRefresh(c)
    PROVE  Good(page', families') /\ families' \in Families(db.users)
<1> DEFINE token == page.calls[c].token
           family == families[token.login]
<1>1. /\ page.calls[c].answer = Pending /\ page.calls[c].step = "refresh"
      /\ families \in Families(db.users) /\ now \in Nat
      /\ Pending.status = "pending"
  BY DEF ServeRefresh, IsPending, FamiliesInv, Pending
<1>2. token.login \in DOMAIN families /\ token \in Tokens
  BY <1>1 DEF Good, GrantInv, GrantOk, PageInv, CallOk
<1>3. /\ family.current \in Nat /\ family.user \in DOMAIN db.users
      /\ family.end \in {"live", "logout", "inactive", "reuse"}
      /\ DOMAIN family = {"user", "current", "rotatedAt", "end"}
  BY <1>1, <1>2, FamilyOk
<1>4. Clean(page) => /\ family.end # "reuse"
                     /\ family.end = "live" => token.n = family.current
  BY <1>1, <1>2 DEF Good, CleanInv, HeldOk, CurrentOk, RefreshOk, SignInOk, Apart, Refreshing
<1>5. CASE /\ family.end # "live"
           /\ Deliver(c, Refused("401"))
           /\ UNCHANGED families
  <2>1. Refused("401").status = "401"
    BY DEF Refused
  <2>2. AnswerFits(token.login, families, families', Refused("401"))
    BY <1>3, <1>4, <1>5, <2>1 DEF AnswerFits
  <2>. QED BY <1>1, <1>5, <2>2, RefreshKeeps
<1>6. CASE /\ family.end = "live" /\ token.n = family.current - 1
           /\ Deliver(c, Refused("409"))
           /\ UNCHANGED families
  <2>1. Refused("409").status = "409"
    BY DEF Refused
  <2>2. ~Clean(page)
    BY <1>3, <1>4, <1>6
  <2>3. AnswerFits(token.login, families, families', Refused("409"))
    BY <1>6, <2>1, <2>2 DEF AnswerFits
  <2>. QED BY <1>1, <1>6, <2>3, RefreshKeeps
<1>7. CASE /\ family.end = "live" /\ token.n < family.current
           /\ Deliver(c, Refused("401"))
           /\ Revoke(token.login, "reuse")
  <2>1. Refused("401").status = "401"
    BY DEF Refused
  <2>2. ~Clean(page)
    BY <1>2, <1>3, <1>4, <1>7 DEF Tokens
  <2>3. /\ families' \in Families(db.users) /\ DOMAIN families' = DOMAIN families
        /\ \A l \in DOMAIN families : families'[l].user = families[l].user
        /\ \A l \in DOMAIN families : l # token.login => families'[l] = families[l]
    BY <1>1, <1>2, <1>7, RevokeOk
  <2>4. AnswerFits(token.login, families, families', Refused("401"))
    BY <1>7, <2>1, <2>2 DEF AnswerFits
  <2>. QED BY <1>1, <1>7, <2>3, <2>4, RefreshKeeps
<1>8. CASE /\ family.end = "live" /\ token.n = family.current
           /\ Deliver(c, Refused("401"))
           /\ Revoke(token.login, "inactive")
  <2>1. Refused("401").status = "401"
    BY DEF Refused
  <2>3. /\ families' \in Families(db.users) /\ DOMAIN families' = DOMAIN families
        /\ \A l \in DOMAIN families : families'[l].user = families[l].user
        /\ \A l \in DOMAIN families : l # token.login => families'[l] = families[l]
        /\ families'[token.login].end = "inactive"
    BY <1>1, <1>2, <1>8, RevokeOk
  <2>4. AnswerFits(token.login, families, families', Refused("401"))
    BY <1>8, <2>1, <2>3 DEF AnswerFits
  <2>. QED BY <1>1, <1>8, <2>3, <2>4, RefreshKeeps
<1>9. CASE /\ family.end = "live" /\ token.n = family.current
           /\ Deliver(c, Granted(token.login, token.n + 1, db.users[family.user].email))
           /\ families' = [families EXCEPT ![token.login].current = @ + 1,
                                          ![token.login].rotatedAt = now]
  <2> DEFINE answer == Granted(token.login, token.n + 1, db.users[family.user].email)
  <2>1. /\ answer.status = "200"
        /\ answer.access = [login |-> token.login, n |-> token.n + 1, exp |-> now + AccessLife]
        /\ answer.refresh = [login |-> token.login, n |-> token.n + 1, exp |-> 0]
    BY DEF Granted
  <2>2. /\ answer.access \in Tokens /\ answer.refresh \in Tokens
        /\ answer.access.login = token.login /\ answer.refresh.login = token.login
        /\ answer.access.exp > now /\ answer.refresh.n = token.n + 1
    <3>1. /\ token.login \in Nat /\ token.n + 1 \in Nat /\ now + AccessLife \in Int
          /\ now + AccessLife > now
      BY <1>1, <1>2 DEF Tokens
    <3>. HIDE DEF token, answer
    <3>. QED BY <2>1, <3>1 DEF Tokens
  <2>3. /\ families' \in Families(db.users) /\ DOMAIN families' = DOMAIN families
        /\ \A l \in DOMAIN families : families'[l].user = families[l].user
        /\ \A l \in DOMAIN families : l # token.login => families'[l] = families[l]
        /\ families'[token.login].end = "live"
        /\ families'[token.login].current = family.current + 1
    <3> DEFINE rotated == [family EXCEPT !.current = @ + 1, !.rotatedAt = now]
    <3>1. rotated.user = family.user /\ rotated.end = "live" /\ rotated.current = family.current + 1
      BY <1>3, <1>9
    <3>2. /\ DOMAIN families' = DOMAIN families /\ families'[token.login] = rotated
          /\ \A l \in DOMAIN families : l # token.login => families'[l] = families[l]
      BY <1>2, <1>9
    <3>3. rotated \in Family(db.users)
      <4>1. family \in Family(db.users) /\ family.current + 1 \in Nat /\ now \in Int
        BY <1>1, <1>2, <1>3, FamilyOk
      <4>. QED BY <4>1 DEF Family
    <3>4. families' = [families EXCEPT ![token.login] = rotated]
      BY <1>2, <1>9
    <3>. HIDE DEF rotated
    <3>5. families' \in Families(db.users)
      BY <1>1, <1>2, <3>3, <3>4, FamilyChanges
    <3>. QED BY <3>1, <3>2, <3>5
  <2>. HIDE DEF answer
  <2>4. Deliver(c, answer)
    BY <1>9 DEF answer
  <2>5. answer.refresh.n = families'[token.login].current
    BY <1>9, <2>2, <2>3
  <2>6. answer.status = "200" /\ family.end = "live"
    BY <1>9, <2>1
  <2>7. AnswerFits(token.login, families, families', answer)
    BY <2>2, <2>3, <2>5, <2>6 DEF AnswerFits
  <2>8. Good(page', families')
    <3>1. DOMAIN families' = DOMAIN families
          /\ page.calls[c].step = "refresh" /\ page.calls[c].answer = Pending
          /\ families \in Families(db.users)
      BY <1>1, <2>3
    <3>2. /\ \A l \in DOMAIN families : families'[l].user = families[l].user
          /\ \A l \in DOMAIN families : l # token.login => families'[l] = families[l]
      BY <2>3
    <3>. QED BY ONLY FamiliesInv, Good(page, families), c \in DOMAIN page.calls,
                    <2>4, <2>7, <3>1, <3>2, RefreshKeeps
  <2>. QED BY <2>3, <2>8
<1>10. \/ /\ family.end # "live"
          /\ Deliver(c, Refused("401"))
          /\ UNCHANGED families
       \/ /\ family.end = "live" /\ token.n = family.current - 1
          /\ Deliver(c, Refused("409"))
          /\ UNCHANGED families
       \/ /\ family.end = "live" /\ token.n < family.current
          /\ Deliver(c, Refused("401"))
          /\ Revoke(token.login, "reuse")
       \/ /\ family.end = "live" /\ token.n = family.current
          /\ Deliver(c, Refused("401"))
          /\ Revoke(token.login, "inactive")
       \/ /\ family.end = "live" /\ token.n = family.current
          /\ Deliver(c, Granted(token.login, token.n + 1, db.users[family.user].email))
          /\ families' = [families EXCEPT ![token.login].current = @ + 1,
                                         ![token.login].rotatedAt = now]
  BY Zenon DEF ServeRefresh
<1>. QED BY <1>5, <1>6, <1>7, <1>8, <1>9, <1>10

\* The invariant of the next page, said of the next state: of the users only
\* the e-mails matter.
LEMMA Unprime ==
    ASSUME Good(page', families'), families' \in Families(db.users), now' = now,
           DOMAIN db'.users = DOMAIN db.users,
           \A id \in DOMAIN db.users : db'.users[id].email = db.users[id].email
    PROVE  Good(page, families)'
<1>1. \A l \in DOMAIN families' : db'.users[families'[l].user].email = db.users[families'[l].user].email
  BY FamilyOk
<1>2. PageInv(page)'
  BY DEF Good, PageInv, CallOk, SameTask
<1>3. GrantInv(page, families)'
  BY <1>1 DEF Good, GrantInv, GrantOk
<1>4. RefreshIsOfAFamily(page, families)'
  BY DEF Good, RefreshIsOfAFamily
<1>5. SessionInv(page, families)'
  BY <1>1 DEF Good, SessionInv
<1>6. CleanInv(page, families)'
  BY DEF Good, CleanInv, HeldOk, CurrentOk, RefreshOk, SignInOk, Apart, Clean, Refreshing, SignedIn
<1>. QED BY <1>2, <1>3, <1>4, <1>5, <1>6 DEF Good

\* A user gets another status.
LEMMA StoreChanges ==
    ASSUME StoreInv, NEW user, NEW status, db' = SetStatus(user, status), UNCHANGED served
    PROVE  /\ StoreInv' /\ db'.version = db.version + 1
           /\ DOMAIN db'.users = DOMAIN db.users
           /\ \A id \in DOMAIN db.users : db'.users[id].email = db.users[id].email
<1>1. /\ DOMAIN db' = DOMAIN db /\ db'.version = db.version + 1
      /\ DOMAIN db'.users = DOMAIN db.users
  BY DEF SetStatus, StoreInv
<1>2. ASSUME NEW id \in DOMAIN db.users
      PROVE  /\ DOMAIN db'.users[id] = DOMAIN db.users[id]
             /\ \A f \in DOMAIN db.users[id] \ {"status", "emailVerified"} : db'.users[id][f] = db.users[id][f]
  BY DEF SetStatus, StoreInv
<1>3. SameUsers(load.store.users, db'.users)
  BY <1>1, <1>2 DEF StoreInv, SameUsers
<1>4. StoreInv'
  BY <1>1, <1>3 DEF StoreInv, SameUsers, load
<1>5. \A id \in DOMAIN db.users : "email" \in DOMAIN db.users[id]
  BY ConsoleAssumption DEF StoreInv, SameUsers, load, IsLoad, IsUser
<1>. QED BY <1>1, <1>2, <1>4, <1>5

\* A sign-in is answered.
LEMMA ServeLoginOk ==
    ASSUME FamiliesInv, Good(page, families), AccessLife \in Nat \ {0},
           NEW c \in DOMAIN page.calls, ServeLogin(c)
    PROVE  Good(page', families') /\ families' \in Families(db.users)
<1> DEFINE user == page.calls[c].body
           answer == IF ActiveAdmin(user) THEN Granted(Len(families) + 1, 1, db.users[user].email)
                     ELSE Refused("403")
<1>1. /\ page.calls[c].answer = Pending /\ page.calls[c].step = "login"
      /\ families \in Families(db.users) /\ now \in Nat
      /\ Pending.status = "pending" /\ user \in DOMAIN db.users
  BY DEF ServeLogin, IsPending, FamiliesInv, Pending, Good, GrantInv, GrantOk
<1>2. Deliver(c, answer)
  BY DEF ServeLogin
<1>3. /\ families' \in Families(db.users) /\ DOMAIN families \subseteq DOMAIN families'
      /\ \A l \in DOMAIN families : families'[l] = families[l]
      /\ Len(families) + 1 \notin DOMAIN families /\ 0 \notin DOMAIN families
      /\ Len(families) + 1 \in Nat
      /\ ActiveAdmin(user) => /\ DOMAIN families' = DOMAIN families \cup {Len(families) + 1}
                              /\ families'[Len(families) + 1] =
                                    [user |-> user, current |-> 1, rotatedAt |-> 0, end |-> "live"]
      /\ ~ActiveAdmin(user) => families' = families
  <2> DEFINE f == [user |-> user, current |-> 1, rotatedAt |-> 0, end |-> "live"]
  <2>1. f \in Family(db.users) /\ families \in Seq(Family(db.users))
    BY <1>1 DEF Family, Families
  <2>2. CASE ActiveAdmin(user)
    <3>1. families' = Append(families, f)
      BY <2>2 DEF ServeLogin
    <3>. HIDE DEF f
    <3>2. families' \in Seq(Family(db.users)) /\ Len(families') = Len(families) + 1
          /\ families'[Len(families) + 1] = f
          /\ \A l \in 1..Len(families) : families'[l] = families[l]
      BY <2>1, <3>1
    <3>3. DOMAIN families' = 1..Len(families) + 1 /\ DOMAIN families = 1..Len(families)
          /\ Len(families) \in Nat
      BY <2>1, <3>2
    <3>. QED BY <2>2, <3>2, <3>3 DEF Families, Family, f
  <2>3. CASE ~ActiveAdmin(user)
    <3>1. DOMAIN families = 1..Len(families) /\ Len(families) \in Nat
      BY <2>1
    <3>. QED BY <1>1, <2>3, <3>1 DEF ServeLogin
  <2>. QED BY <2>2, <2>3
<1>4. /\ answer.status \in {"200", "403"}
      /\ answer.status = "200" <=> ActiveAdmin(user)
      /\ answer.status = "200" =>
            /\ answer.access = [login |-> Len(families) + 1, n |-> 1, exp |-> now + AccessLife]
            /\ answer.refresh = [login |-> Len(families) + 1, n |-> 1, exp |-> 0]
            /\ answer.email = db.users[user].email
  BY DEF Granted, Refused
<1>. HIDE DEF answer
<1>5. answer.status = "200" =>
         /\ answer.access \in Tokens /\ answer.refresh \in Tokens
         /\ answer.access.login = Len(families) + 1 /\ answer.refresh.login = Len(families) + 1
         /\ answer.refresh.n = 1 /\ answer.refresh.login \in DOMAIN families'
         /\ families'[answer.refresh.login].user = user
         /\ families'[answer.refresh.login].current = 1 /\ families'[answer.refresh.login].end = "live"
  <2>1. Len(families) + 1 \in Nat /\ now + AccessLife \in Int
    BY <1>1, <1>3
  <2>. QED BY <1>3, <1>4, <2>1 DEF Tokens
<1>6. /\ PageInv(page') /\ SameSession(page, page')
      /\ c \in DOMAIN page'.calls => page.calls[c].tab = page.tab /\ Answered(page, page', c, answer)
      /\ \A d \in DOMAIN page'.calls : d \in DOMAIN page.calls
      /\ \A d \in DOMAIN page.calls : d # c => d \in DOMAIN page'.calls /\ page'.calls[d] = page.calls[d]
  <2>1. answer.status \in Statuses \ {"pending"} /\ PageInv(page)
    BY <1>4 DEF Statuses, Good
  <2>. QED BY <1>2, <2>1, Delivered
<1>7. GrantInv(page', families')
  <2> SUFFICES ASSUME NEW d \in DOMAIN page'.calls PROVE GrantOk(page'.tab, families', page'.calls[d])
    BY DEF GrantInv
  <2>1. CASE d = c
    <3>1. /\ page'.calls[d].step = "login" /\ page'.calls[d].body = page.calls[c].body
          /\ page'.calls[d].answer = answer
      BY <1>1, <1>6, <2>1 DEF Answered
    <3>. QED BY <1>1, <1>4, <1>5, <3>1 DEF GrantOk
  <2>2. CASE d # c
    <3>1. d \in DOMAIN page.calls /\ page'.calls[d] = page.calls[d] /\ page'.tab = page.tab
      BY <1>6, <2>2 DEF SameSession
    <3>2. GrantOk(page.tab, families, page.calls[d])
      BY <3>1 DEF Good, GrantInv
    <3>. QED BY <1>3, <3>1, <3>2, GrantStays
  <2>. QED BY <2>1, <2>2
<1>8. RefreshIsOfAFamily(page', families')
  BY <1>3, <1>6 DEF Good, RefreshIsOfAFamily, SameSession
<1>9. \A d \in DOMAIN page'.calls : page'.calls[d].step = "refresh" =>
         d \in DOMAIN page.calls /\ page'.calls[d] = page.calls[d]
  BY <1>1, <1>6 DEF Answered
<1>10. SessionInv(page', families')
  BY <1>3, <1>6, <1>9 DEF Good, SessionInv, SameSession
<1>11. CleanInv(page', families')
  <2> SUFFICES ASSUME Clean(page') PROVE CleanInv(page', families')
    BY DEF CleanInv
  <2>1. Clean(page)
    BY <1>6 DEF Clean, SameSession
  <2>2. Refreshing(page') = Refreshing(page) /\ \A d \in Refreshing(page) : page'.calls[d] = page.calls[d]
    BY <1>1, <1>6, <1>9 DEF Refreshing
  <2>3. /\ \A d \in SignedIn(page') : d # c => d \in SignedIn(page) /\ page'.calls[d] = page.calls[d]
        /\ c \in SignedIn(page') => page'.calls[c].answer = answer /\ answer.status = "200"
    BY <1>6 DEF SignedIn, Answered
  <2>4. \A d \in SignedIn(page) : page.calls[d].answer.refresh.login \in DOMAIN families
    BY DEF SignedIn, Good, GrantInv, GrantOk
  <2>5. \A d \in SignedIn(page') : page'.calls[d].answer.refresh.login =
                                      IF d = c THEN Len(families) + 1 ELSE page.calls[d].answer.refresh.login
    BY <1>5, <2>3
  <2>6. page.refresh.login # Len(families) + 1 /\ Len(families) + 1 \notin DOMAIN families
    <3>1. DOMAIN families = 1..Len(families) /\ Len(families) \in Nat
      BY <1>1 DEF Families
    <3>. QED BY <3>1 DEF Good, RefreshIsOfAFamily, NoToken
  <2>7. page'.refresh = page.refresh /\ page'.tab = page.tab /\ page'.givenUp = page.givenUp
    BY <1>6 DEF SameSession
  <2>8. CleanInv(page, families')
    <3>1. 0 \notin DOMAIN families' /\ DOMAIN families \subseteq DOMAIN families'
      BY <1>3 DEF Families
    <3>. QED BY <1>3, <2>1, <3>1, FamiliesMove
  <2>9. /\ HeldOk(page, families') /\ CurrentOk(page, families') /\ Apart(page)
        /\ \A d, e \in Refreshing(page) : d = e
        /\ \A d \in Refreshing(page) : RefreshOk(page, families', page.calls[d])
        /\ \A d \in SignedIn(page) : SignInOk(page, families', page.calls[d].answer.refresh)
    BY <2>1, <2>8 DEF CleanInv
  <2>10. HeldOk(page', families') /\ \A d \in Refreshing(page') : RefreshOk(page', families', page'.calls[d])
    BY <2>2, <2>7, <2>9, PartsKept
  <2>11. CurrentOk(page', families')
    BY <2>2, <2>7, <2>9 DEF CurrentOk
  <2>12. ASSUME NEW d \in SignedIn(page') PROVE SignInOk(page', families', page'.calls[d].answer.refresh)
    <3>1. CASE d = c
      <4>1. page'.calls[d].answer = answer /\ answer.status = "200"
        BY <2>3, <3>1
      <4>. QED BY <1>5, <2>6, <2>7, <4>1 DEF SignInOk
    <3>2. CASE d # c
      <4>1. d \in SignedIn(page) /\ page'.calls[d] = page.calls[d]
        BY <2>3, <3>2
      <4>. QED BY <2>7, <2>9, <4>1, PartsKept
    <3>. QED BY <3>1, <3>2
  <2>13. Apart(page')
    <3> SUFFICES ASSUME NEW d \in SignedIn(page'), NEW e \in SignedIn(page'),
                        page'.calls[d].answer.refresh.login = page'.calls[e].answer.refresh.login
                 PROVE  d = e
      BY DEF Apart
    <3>1. \A f \in SignedIn(page') : f # c =>
             f \in SignedIn(page) /\ page.calls[f].answer.refresh.login # Len(families) + 1
      BY <2>3, <2>4, <2>6
    <3>2. CASE d = c \/ e = c
      BY <2>5, <3>1, <3>2
    <3>3. CASE d # c /\ e # c
      BY <2>5, <2>9, <3>1, <3>3 DEF Apart
    <3>. QED BY <3>2, <3>3
  <2>. QED BY <2>2, <2>9, <2>10, <2>11, <2>12, <2>13 DEF CleanInv
<1>. QED BY <1>3, <1>6, <1>7, <1>8, <1>10, <1>11 DEF Good

\* A sign-out is answered.
LEMMA ServeLogoutOk ==
    ASSUME FamiliesInv, Good(page, families), NEW c \in DOMAIN page.calls, ServeLogout(c)
    PROVE  Good(page', families') /\ families' \in Families(db.users)
<1> DEFINE login == page.calls[c].token.login
<1>1. families \in Families(db.users) /\ page.calls[c].step = "logout"
  BY DEF FamiliesInv, ServeLogout, IsPending
<1>2. Ok(Null).status \in Statuses \ {"pending"} /\ Deliver(c, Ok(Null))
  BY DEF Ok, Statuses, ServeLogout
<1>3. Good(page', families)
  BY <1>1, <1>2, AnswerKeeps
<1>4. CASE login \in DOMAIN families /\ families[login].end = "live"
  <2>1. Revoke(login, "logout")
    BY <1>4 DEF ServeLogout
  <2>2. /\ families' \in Families(db.users) /\ DOMAIN families' = DOMAIN families
        /\ \A l \in DOMAIN families : families'[l].user = families[l].user
        /\ \A l \in DOMAIN families : l # login => families'[l] = families[l]
        /\ families'[login].end = "logout"
    BY <1>1, <1>4, <2>1, RevokeOk
  <2>. QED BY <1>1, <1>3, <1>4, <2>2, LogoutKeeps
<1>5. CASE ~(login \in DOMAIN families /\ families[login].end = "live")
  <2>1. families' = families
    BY <1>1, <1>5 DEF ServeLogout, Revoke, Families
  <2>. QED BY <1>1, <1>3, <2>1
<1>. QED BY <1>4, <1>5

\* A report is an answer, or there is no such watermark.
LEMMA ReportOk ==
    ASSUME NEW view \in DOMAIN Stages \ {"decide"}, NEW stage \in DOMAIN Stages[view],
           NEW path \in Stages[view][stage], NEW body
    PROVE  /\ path # "decide"
           /\ Report(view, path, body).status \in {"200", "404"}
           /\ Report(view, path, body).status = "200" => Report(view, path, body).version = db.version
<1>1. path \in {"devices", "storage", "timeline", "users", "usage", "alerts", "transfers", "ipRules",
                "auditVerify", "permVerify", "trace"}
  BY DEF Stages
<1>2. \A rows : Ok(rows).status = "200" /\ Ok(rows).version = db.version
  BY DEF Ok
<1>3. Refused("404").status = "404"
  BY DEF Refused
<1>4. CASE path = "trace"
  <2>1. Report(view, path, body) = LET found == Trace(db, body)
                                   IN  IF found = Null THEN Refused("404") ELSE Ok(found)
    BY <1>4 DEF Report
  <2>. QED BY <1>2, <1>3, <1>4, <2>1
<1>5. CASE path # "trace"
  <2>1. \E rows : Report(view, path, body) = Ok(rows)
    BY <1>1, <1>5 DEF Report
  <2>. QED BY <1>1, <1>2, <2>1
<1>. QED BY <1>4, <1>5

\* What is served to a call with a bearer: an answer, and the store changes
\* for a decision only.
LEMMA ServeAuthorizedAnswers ==
    ASSUME Good(page, families), StoreInv, NEW c \in DOMAIN page.calls, ServeAuthorized(c)
    PROVE  \E answer :
              /\ Deliver(c, answer)
              /\ answer.status \in {"200", "401", "403", "404"}
              /\ answer.status = "401" => page.calls[c].token = NoToken \/ page.calls[c].token.exp <= now
              /\ answer.status = "200" => answer.version = db'.version
              /\ \/ db' = db
                 \/ /\ page.calls[c].view = "decide"
                    /\ \E user, status : db' = SetStatus(user, status)
<1> DEFINE call == page.calls[c]
<1>1. /\ call.step \in {"first", "second"} /\ call.view \in DOMAIN Stages
      /\ call.stage \in DOMAIN Stages[call.view] /\ c[2] \in Stages[call.view][call.stage]
  BY DEF ServeAuthorized, IsPending, Good, PageInv, CallOk
<1>2. Refused("401").status = "401" /\ Refused("403").status = "403"
  BY DEF Refused
<1>3. CASE /\ call.token = NoToken \/ call.token.exp <= now
           /\ Deliver(c, Refused("401"))
           /\ UNCHANGED db
  BY <1>2, <1>3
<1>4. CASE Deliver(c, Refused("403")) /\ UNCHANGED db
  BY <1>2, <1>4
<1>5. CASE /\ c[2] = "decide"
           /\ db' = SetStatus(call.body.user, call.body.decision)
           /\ Deliver(c, [Ok(Null) EXCEPT !.version = db'.version])
  <2>1. call.view = "decide"
    BY <1>1, <1>5 DEF Stages
  <2>2. [Ok(Null) EXCEPT !.version = db'.version].status = "200"
        /\ [Ok(Null) EXCEPT !.version = db'.version].version = db'.version
    BY DEF Ok
  <2>. QED BY <1>5, <2>1, <2>2
<1>6. CASE /\ c[2] # "decide"
           /\ Deliver(c, Report(call.view, c[2], call.body))
           /\ UNCHANGED db
  <2>1. call.view # "decide"
    BY <1>1, <1>6 DEF Stages
  <2>2. LET answer == Report(call.view, c[2], call.body)
        IN  /\ answer.status \in {"200", "404"}
            /\ answer.status = "200" => answer.version = db.version
    BY <1>1, <2>1, ReportOk
  <2>. QED BY <1>6, <2>2
<1>7. \/ /\ call.token = NoToken \/ call.token.exp <= now
         /\ Deliver(c, Refused("401"))
         /\ UNCHANGED db
      \/ Deliver(c, Refused("403")) /\ UNCHANGED db
      \/ /\ c[2] = "decide"
         /\ db' = SetStatus(call.body.user, call.body.decision)
         /\ Deliver(c, [Ok(Null) EXCEPT !.version = db'.version])
      \/ /\ c[2] # "decide"
         /\ Deliver(c, Report(call.view, c[2], call.body))
         /\ UNCHANGED db
  BY Zenon DEF ServeAuthorized
<1>. QED BY <1>3, <1>4, <1>5, <1>6, <1>7

\* So a second attempt is never told that its token is no good.
LEMMA ServeAuthorizedOk ==
    ASSUME StoreInv, FamiliesInv, Good(page, families), NEW c \in DOMAIN page.calls, ServeAuthorized(c)
    PROVE  Good(page', families)
<1>1. page.calls[c].step \in {"first", "second"} /\ page.calls[c].answer = Pending
  BY DEF ServeAuthorized, IsPending
<1>2. PICK answer :
         /\ Deliver(c, answer)
         /\ answer.status \in {"200", "401", "403", "404"}
         /\ answer.status = "401" => page.calls[c].token = NoToken \/ page.calls[c].token.exp <= now
  BY ServeAuthorizedAnswers
<1>3. page.calls[c].step = "second" /\ page.calls[c].tab = page.tab => answer.status # "401"
  <2>1. page.calls[c].step = "second" /\ page.calls[c].tab = page.tab =>
           page.calls[c].token.login # 0 /\ page.calls[c].token.exp > now
    BY <1>1 DEF Good, GrantInv, GrantOk
  <2>2. page.calls[c].token.exp > now => ~(page.calls[c].token.exp <= now)
    <3>1. page.calls[c].token \in Tokens /\ now \in Nat
      BY DEF Good, PageInv, CallOk, FamiliesInv
    <3>. QED BY <3>1 DEF Tokens
  <2>. QED BY <1>2, <2>1, <2>2 DEF NoToken
<1>. QED BY <1>1, <1>2, <1>3, AnswerKeeps DEF Statuses

\* An answer is lost, or the request was.
LEMMA LoseOk ==
    ASSUME Good(page, families), NEW c \in DOMAIN page.calls, Lose(c)
    PROVE  Good(page', families)
<1> DEFINE step == page.calls[c].step
<1>1. /\ DOMAIN page' = PageFields
      /\ page'.calls = [page.calls EXCEPT ![c] = [page.calls[c] EXCEPT !.answer = Failed]]
      /\ page'.lost = (page.lost \/ step = "refresh")
      /\ \A f \in PageFields \ {"calls", "lost"} : page'[f] = page[f]
  BY Fields DEF Lose, Good, PageInv
<1>2. /\ page'.screen = page.screen /\ page'.access = page.access /\ page'.refresh = page.refresh
      /\ page'.email = page.email /\ page'.tab = page.tab /\ page'.begun = page.begun
      /\ page'.raced = page.raced /\ page'.crossed = page.crossed /\ page'.givenUp = page.givenUp
  BY <1>1, Fields
<1>3. /\ DOMAIN page.calls[c] = CallFields
      /\ DOMAIN page'.calls = DOMAIN page.calls
      /\ page'.calls[c] = [page.calls[c] EXCEPT !.answer = Failed]
      /\ \A d \in DOMAIN page.calls \ {c} : page'.calls[d] = page.calls[d]
  BY <1>1 DEF Good, PageInv, CallOk
<1>4. /\ DOMAIN page'.calls[c] = CallFields /\ Answered(page, page', c, Failed)
  BY <1>3 DEF CallFields, Answered
<1>5. Failed.status = "failed" /\ Failed # Pending
  BY DEF Failed, Pending
<1>6. \A d \in DOMAIN page'.calls : CallOk(page', d)
  <2> SUFFICES ASSUME NEW d \in DOMAIN page.calls PROVE CallOk(page', d)
    BY <1>3
  <2>1. CallOk(page, d)
    BY DEF Good, PageInv
  <2>2. CASE d = c
    BY <1>2, <1>4, <1>5, <2>1, <2>2 DEF CallOk, Answered, Statuses
  <2>3. CASE d # c
    BY <1>2, <1>3, <2>1, <2>3 DEF CallOk
  <2>. QED BY <2>2, <2>3
<1>7. \A d, e \in DOMAIN page'.calls : d[1] = e[1] => SameTask(page', d, e)
  <2>1. \A d \in DOMAIN page.calls :
           /\ page'.calls[d].view = page.calls[d].view /\ page'.calls[d].tab = page.calls[d].tab
           /\ page'.calls[d].body = page.calls[d].body
    BY <1>3, <1>4 DEF Answered
  <2>. QED BY <1>3, <2>1 DEF Good, PageInv, SameTask
<1>8. PageInv(page')
  <2>1. page'.lost \in BOOLEAN
    BY <1>1 DEF Good, PageInv
  <2>. QED BY <1>1, <1>2, <1>3, <1>6, <1>7, <2>1 DEF Good, PageInv
<1>9. GrantInv(page', families)
  <2> SUFFICES ASSUME NEW d \in DOMAIN page'.calls PROVE GrantOk(page'.tab, families, page'.calls[d])
    BY DEF GrantInv
  <2>1. d \in DOMAIN page.calls
    BY <1>3
  <2>2. GrantOk(page.tab, families, page.calls[d])
    BY <2>1 DEF Good, GrantInv
  <2>3. CASE d = c
    <3>1. /\ page'.calls[d].step = page.calls[d].step /\ page'.calls[d].token = page.calls[d].token
          /\ page'.calls[d].body = page.calls[d].body /\ page'.calls[d].answer = Failed
      BY <1>4, <2>3 DEF Answered
    <3>. QED BY <1>5, <2>2, <3>1 DEF GrantOk
  <2>4. CASE d # c
    BY <1>2, <1>3, <2>2, <2>4
  <2>. QED BY <2>3, <2>4
<1>10. RefreshIsOfAFamily(page', families)
  BY <1>2 DEF Good, RefreshIsOfAFamily
<1>11. \A d \in DOMAIN page.calls :
          /\ page'.calls[d].step = page.calls[d].step /\ page'.calls[d].tab = page.calls[d].tab
          /\ page'.calls[d].token = page.calls[d].token
          /\ page'.calls[d].answer.status = "200" => page'.calls[d] = page.calls[d]
  BY <1>3, <1>4, <1>5 DEF Answered
<1>12. SessionInv(page', families)
  BY <1>2, <1>3, <1>11 DEF Good, SessionInv
<1>13. CleanInv(page', families)
  <2> SUFFICES ASSUME Clean(page') PROVE CleanInv(page', families)
    BY DEF CleanInv
  <2>1. Clean(page) /\ step # "refresh"
    BY <1>1, <1>2 DEF Clean
  <2>2. Refreshing(page') = Refreshing(page) /\ \A d \in Refreshing(page) : page'.calls[d] = page.calls[d]
    BY <1>3, <1>11, <2>1 DEF Refreshing
  <2>3. \A d \in SignedIn(page') : d \in SignedIn(page) /\ page'.calls[d] = page.calls[d]
    BY <1>3, <1>11 DEF SignedIn
  <2>4. page'.refresh = page.refresh /\ page'.tab = page.tab /\ page'.givenUp = page.givenUp
    BY <1>2
  <2>. QED BY <2>1, <2>2, <2>3, <2>4, CleanKept
<1>. QED BY <1>8, <1>9, <1>10, <1>12, <1>13 DEF Good

\* Time passes, but not over a retry.
LEMMA ElapseOk ==
    ASSUME FamiliesInv, Good(page, families), Elapse
    PROVE  Good(page, families)'
<1>1. UNCHANGED <<db, families, page>> /\ now' = now + 1 /\ now \in Nat
  BY DEF Elapse, FamiliesInv
<1>2. \A d \in DOMAIN page.calls :
         /\ page.calls[d].step = "refresh" /\ page.calls[d].answer.status = "200" /\ page.calls[d].tab = page.tab =>
               page.calls[d].answer.access.exp > now + 1
         /\ page.calls[d].step = "second" /\ page.calls[d].answer = Pending /\ page.calls[d].tab = page.tab =>
               page.calls[d].token.exp > now + 1
  <2> SUFFICES ASSUME NEW d \in DOMAIN page.calls, page.calls[d].tab = page.tab
               PROVE  /\ page.calls[d].step = "refresh" /\ page.calls[d].answer.status = "200" =>
                            page.calls[d].answer.access.exp > now + 1
                      /\ page.calls[d].step = "second" /\ page.calls[d].answer = Pending =>
                            page.calls[d].token.exp > now + 1
    OBVIOUS
  <2>1. ASSUME page.calls[d].step = "refresh", page.calls[d].answer.status = "200"
        PROVE  page.calls[d].answer.access.exp > now + 1
    <3>1. page.calls[d].answer.access \in Retrying
      BY <2>1 DEF Retrying, AtStep, InFlight
    <3>2. page.calls[d].answer.access \in Tokens
      BY <2>1 DEF Good, GrantInv, GrantOk
    <3>. QED BY <1>1, <3>1, <3>2 DEF Elapse, Tokens
  <2>2. ASSUME page.calls[d].step = "second", page.calls[d].answer = Pending
        PROVE  page.calls[d].token.exp > now + 1
    <3>1. page.calls[d].token \in Retrying
      BY <2>2 DEF Retrying, IsPending, InFlight
    <3>2. page.calls[d].token \in Tokens
      BY DEF Good, PageInv, CallOk
    <3>. QED BY <1>1, <3>1, <3>2 DEF Elapse, Tokens
  <2>. QED BY <2>1, <2>2
<1>3. PageInv(page)' /\ RefreshIsOfAFamily(page, families)'
  BY <1>1 DEF Good, PageInv, CallOk, SameTask, RefreshIsOfAFamily
<1>4. GrantInv(page, families)'
  BY <1>1, <1>2 DEF Good, GrantInv, GrantOk
<1>5. SessionInv(page, families)'
  BY <1>1 DEF Good, SessionInv
<1>6. CleanInv(page, families)'
  <2>1. CleanInv(page, families)
    BY DEF Good
  <2>2. page' = page /\ families' = families
    BY <1>1
  <2>3. CleanInv(page', families')
    BY ONLY <2>1, <2>2
  <2>. QED BY ONLY <2>3 DEF CleanInv, Clean, HeldOk, CurrentOk, Apart, RefreshOk, SignInOk, Refreshing, SignedIn
<1>. QED BY <1>3, <1>4, <1>5, <1>6 DEF Good

----------------------------------------------------------------------------
(* The invariant. *)

\* The invariant, with its parts about the page together.
LEMMA InvIs == IInv <=> StoreInv /\ FamiliesInv /\ Good(page, families)
BY DEF IInv, Good

\* An answer arrives.
LEMMA ArriveOk ==
    ASSUME FamiliesInv, Good(page, families), NEW c \in DOMAIN page.calls, Arrive(c)
    PROVE  Good(page', families)
<1> DEFINE call == page.calls[c]
<1>1. /\ c \in InFlight(page) /\ families \in Families(db.users)
      /\ call.answer.status \in Statuses \ {"pending"}
      /\ call.step \in {"first", "refresh", "second", "login", "logout"}
  BY DEF Arrive, FamiliesInv, Good, PageInv, CallOk, InFlight, Steps
<1>2. CASE call.step = "first"
  <2>1. page' = FirstAnswer(page, c, call.answer)
    BY <1>2 DEF Arrive
  <2>. QED BY <1>1, <1>2, <2>1, FirstAnswerOk
<1>3. CASE call.step = "refresh"
  <2>1. page' = RefreshAnswer(page, c, call.answer)
    BY <1>3 DEF Arrive
  <2>. QED BY <1>1, <1>3, <2>1, RefreshAnswerOk
<1>4. CASE call.step = "second"
  <2>1. page' = SecondAnswer(page, c, call.answer)
    BY <1>4 DEF Arrive
  <2>. QED BY <1>1, <1>4, <2>1, SecondAnswerOk
<1>5. CASE call.step = "login"
  <2>1. page' = LoginAnswer(page, c, call.answer)
    BY <1>5 DEF Arrive
  <2>. QED BY <1>1, <1>5, <2>1, LoginAnswerOk
<1>6. CASE call.step = "logout"
  <2>1. page' = LogoutAnswer(page, c)
    BY <1>6 DEF Arrive
  <2>. QED BY <1>1, <1>6, <2>1, LogoutAnswerOk
<1>. QED BY <1>1, <1>2, <1>3, <1>4, <1>5, <1>6

\* The users of the load are in the store.
LEMMA ClickOk ==
    ASSUME StoreInv, NEW click \in load.clicks
    PROVE  IsClick(click, db.users)
BY ConsoleAssumption DEF StoreInv, SameUsers, load, IsLoad, IsClick

\* Choosing a window.
LEMMA ChooseDaysOk ==
    ASSUME Good(page, families), NEW view, NEW days, ChooseDays(view, days)
    PROVE  Good(page', families)
<1>1. DOMAIN page' = PageFields /\ \A f \in PageFields \ {"days"} : page'[f] = page[f]
  BY Fields DEF ChooseDays, Good, PageInv
<1>2. SameSession(page, page') /\ page'.calls = page.calls /\ page'.begun = page.begun
  BY <1>1, Fields DEF SameSession
<1>3. \A d \in DOMAIN page'.calls : CallOk(page', d)
  BY <1>2 DEF Good, PageInv, SameSession, CallOk
<1>4. \A d, e \in DOMAIN page'.calls : d[1] = e[1] => SameTask(page', d, e)
  BY <1>2 DEF Good, PageInv, SameTask
<1>5. PageInv(page')
  BY <1>1, <1>2, <1>3, <1>4 DEF Good, PageInv, SameSession
<1>6. Extends(page, page')
  BY <1>2 DEF Extends
<1>. QED BY <1>5, <1>6, ExtendsKeeps

\* What is clicked.
LEMMA ClicksOk ==
    ASSUME StoreInv, FamiliesInv, Good(page, families), NEW click \in load.clicks,
           \/ click[1] = "view" /\ OpenView(click[2])
           \/ click[1] = "days" /\ ChooseDays(click[2], click[3])
           \/ click[1] = "trace" /\ DoTrace(click[2])
           \/ click[1] = "decide" /\ Decide(click[2], click[3])
           \/ click[1] = "signin" /\ HandleLoginSubmit(click[2])
    PROVE  Good(page', families) /\ UNCHANGED <<served, db, families, now>>
<1>1. IsClick(click, db.users)
  BY ClickOk
<1>2. CASE click[1] = "view" /\ OpenView(click[2])
  BY <1>1, <1>2, ShowViewOk DEF OpenView, IsClick, Click
<1>3. CASE click[1] = "days" /\ ChooseDays(click[2], click[3])
  BY <1>3, ChooseDaysOk DEF ChooseDays, Click
<1>4. CASE click[1] = "trace" /\ DoTrace(click[2])
  <2>1. "tracer" \in Views
    BY DEF Views, Stages
  <2>. QED BY <1>4, <2>1, LoadViewKeeps DEF DoTrace, Click
<1>5. CASE click[1] = "decide" /\ Decide(click[2], click[3])
  BY <1>5, DecideKeeps DEF Decide, Click
<1>6. CASE click[1] = "signin" /\ HandleLoginSubmit(click[2])
  <2>1. NoToken \in Tokens
    BY DEF NoToken, Tokens
  <2>. QED BY <1>1, <1>6, <2>1, SendBareKeeps DEF HandleLoginSubmit, IsClick, Click
<1>. QED BY <1>2, <1>3, <1>4, <1>5, <1>6

\* Signing out.
LEMMA DoSignOutOk ==
    ASSUME FamiliesInv, Good(page, families), DoSignOut
    PROVE  Good(page', families)
<1>1. CASE page.refresh = NoToken
  <2>1. <<0, "logout">> \notin DOMAIN page.calls
    BY DEF Good, PageInv, CallOk
  <2>. QED BY <1>1, <2>1, EndOk DEF DoSignOut, FamiliesInv
<1>2. CASE page.refresh # NoToken
  <2>1. page.refresh \in Tokens
    BY DEF Good, PageInv
  <2>. QED BY <1>2, <2>1, SendBareKeeps DEF DoSignOut
<1>. QED BY <1>1, <1>2

\* The invariant holds at first: the load says so.
LEMMA InitOk == Init => IInv
<1> SUFFICES ASSUME Init PROVE IInv
  OBVIOUS
<1>1. /\ served \in DOMAIN Loads /\ IsLoad(load) /\ db = load.store /\ families = load.families
      /\ page = load.page /\ now = 0
  BY ConsoleAssumption DEF Init, load
<1>2. StoreInv
  BY <1>1 DEF StoreInv, IsLoad, SameUsers
<1>3. FamiliesInv
  BY <1>1 DEF FamiliesInv, IsLoad
<1>4. /\ DOMAIN page = PageFields /\ page.screen \in {"login", "app"} /\ page.calls = <<>>
      /\ page.tab = 0 /\ page.begun = 0 /\ page.raced = FALSE /\ page.lost = FALSE
      /\ page.crossed = FALSE /\ page.givenUp = {}
  <2>1. DOMAIN page = PageFields /\ page.screen \in {"login", "app"}
    BY <1>1 DEF IsLoad, IsLoaded, PageFields
  <2>2. page.calls = <<>>
    BY <1>1 DEF IsLoad, IsLoaded, Fresh
  <2>3. /\ page.tab = 0 /\ page.begun = 0 /\ page.raced = FALSE /\ page.lost = FALSE
        /\ page.crossed = FALSE /\ page.givenUp = {}
    BY <1>1 DEF IsLoad, IsLoaded, Storage
  <2>. QED BY <2>1, <2>2, <2>3
<1>5. DOMAIN page.calls = {}
  BY <1>4
<1>6. HoldsTokensOf(page, families, db.users)
  BY <1>1 DEF IsLoad
<1>7. CASE page.screen = "login"
  <2>1. page.access = NoToken /\ page.refresh = NoToken /\ NoToken \in Tokens
    BY <1>6, <1>7 DEF HoldsTokensOf, NoToken, Tokens
  <2>2. PageInv(page)
    <3>1. page.tab \in Nat /\ page.begun \in Nat
      BY <1>4
    <3>2. page.raced \in BOOLEAN /\ page.lost \in BOOLEAN /\ page.crossed \in BOOLEAN
      BY <1>4
    <3>3. DOMAIN page = PageFields /\ page.screen \in {"login", "app"}
      BY <1>4
    <3>. QED BY <1>5, <2>1, <3>1, <3>2, <3>3 DEF PageInv
  <2>3. GrantInv(page, families) /\ RefreshIsOfAFamily(page, families)
    BY <1>5, <2>1 DEF GrantInv, GrantOk, RefreshIsOfAFamily
  <2>4. SessionInv(page, families)
    BY <1>5, <1>7, <2>1 DEF SessionInv
  <2>5. Refreshing(page) = {} /\ SignedIn(page) = {}
    BY <1>5 DEF Refreshing, SignedIn
  <2>6. page.refresh.login \notin DOMAIN families
    BY <1>3, <2>1 DEF NoToken, FamiliesInv, Families
  <2>7. CleanInv(page, families)
    BY <1>4, <2>5, <2>6 DEF CleanInv, HeldOk, CurrentOk, RefreshOk, SignInOk, Apart
  <2>. QED BY <1>2, <1>3, <2>2, <2>3, <2>4, <2>7 DEF IInv
<1>8. CASE page.screen = "app"
  <2>1. PICK l \in DOMAIN families :
           /\ families[l].end # "reuse"
           /\ page.refresh = [login |-> l, n |-> families[l].current, exp |-> 0]
           /\ page.access = [login |-> l, n |-> families[l].current, exp |-> page.access.exp]
           /\ page.access.exp \in Int
           /\ page.email = db.users[families[l].user].email
    BY <1>6, <1>8 DEF HoldsTokensOf
  <2>2. l \in Nat /\ families[l].current \in Nat
    <3>1. families \in Families(db.users)
      BY <1>3 DEF FamiliesInv
    <3>2. l \in Nat
      BY <3>1 DEF Families
    <3>. QED BY <3>1, <3>2, FamilyOk
  <2>3. page.access \in Tokens /\ page.refresh \in Tokens
    BY <2>1, <2>2 DEF Tokens
  <2>4. PageInv(page)
    <3>1. page.tab \in Nat /\ page.begun \in Nat
      BY <1>4
    <3>2. page.raced \in BOOLEAN /\ page.lost \in BOOLEAN /\ page.crossed \in BOOLEAN
      BY <1>4
    <3>3. DOMAIN page = PageFields /\ page.screen \in {"login", "app"}
      BY <1>4
    <3>. QED BY <1>5, <2>3, <3>1, <3>2, <3>3 DEF PageInv
  <2>5. page.refresh.login = l /\ page.access.login = l /\ page.refresh.n = families[l].current
    BY <2>1
  <2>6. GrantInv(page, families) /\ RefreshIsOfAFamily(page, families)
    BY <1>5, <2>5 DEF GrantInv, GrantOk, RefreshIsOfAFamily
  <2>7. SessionInv(page, families)
    BY <1>5, <1>8, <2>1, <2>5 DEF SessionInv
  <2>8. Refreshing(page) = {} /\ SignedIn(page) = {}
    BY <1>5 DEF Refreshing, SignedIn
  <2>10. CleanInv(page, families)
    BY <1>4, <2>1, <2>5, <2>8 DEF CleanInv, HeldOk, CurrentOk, RefreshOk, SignInOk, Apart
  <2>. QED BY <1>2, <1>3, <2>4, <2>6, <2>7, <2>10 DEF IInv
<1>. QED BY <1>4, <1>7, <1>8

\* And every step keeps it.
LEMMA StepOk == IInv /\ [Next]_vars => IInv'
<1> SUFFICES ASSUME IInv, [Next]_vars PROVE IInv'
  OBVIOUS
<1>. USE ConsoleAssumption
<1>1. StoreInv /\ FamiliesInv /\ Good(page, families) /\ families \in Families(db.users) /\ now \in Nat
  BY InvIs DEF FamiliesInv
<1>2. ASSUME Good(page', families'), families' \in Families(db.users),
             UNCHANGED <<served, db, now>>
      PROVE  IInv'
  <2>1. Good(page, families)'
    BY <1>2, Unprime
  <2>2. StoreInv' /\ FamiliesInv'
    BY <1>1, <1>2 DEF StoreInv, FamiliesInv, SameUsers, load
  <2>. QED BY <2>1, <2>2 DEF IInv, Good
<1>3. ASSUME Good(page', families'), UNCHANGED <<served, families, now>>,
             NEW user, NEW status, db' = SetStatus(user, status)
      PROVE  IInv'
  <2>1. /\ StoreInv' /\ DOMAIN db'.users = DOMAIN db.users
        /\ \A id \in DOMAIN db.users : db'.users[id].email = db.users[id].email
    BY <1>1, <1>3, StoreChanges
  <2>2. Good(page, families)'
    BY <1>1, <1>3, <2>1, Unprime
  <2>3. FamiliesInv'
    BY <1>1, <1>3, <2>1 DEF FamiliesInv, Families
  <2>. QED BY <2>1, <2>2, <2>3 DEF IInv, Good
<1>4. ASSUME NEW c \in DOMAIN page.calls, Arrive(c) PROVE IInv'
  BY <1>1, <1>2, <1>4, ArriveOk DEF Arrive
<1>5. ASSUME NEW c \in DOMAIN page.calls, ServeAuthorized(c) PROVE IInv'
  <2>1. Good(page', families) /\ UNCHANGED <<served, families, now>>
    BY <1>1, <1>5, ServeAuthorizedOk DEF ServeAuthorized
  <2>2. db' = db \/ \E user, status : db' = SetStatus(user, status)
    BY <1>1, <1>5, ServeAuthorizedAnswers
  <2>. QED BY <1>1, <1>2, <1>3, <2>1, <2>2
<1>6. ASSUME NEW c \in DOMAIN page.calls, ServeRefresh(c) PROVE IInv'
  BY <1>1, <1>2, <1>6, ServeRefreshOk DEF ServeRefresh
<1>7. ASSUME NEW c \in DOMAIN page.calls, ServeLogin(c) PROVE IInv'
  BY <1>1, <1>2, <1>7, ServeLoginOk DEF ServeLogin
<1>8. ASSUME NEW c \in DOMAIN page.calls, ServeLogout(c) PROVE IInv'
  BY <1>1, <1>2, <1>8, ServeLogoutOk DEF ServeLogout
<1>9. ASSUME NEW c \in DOMAIN page.calls, Lose(c) PROVE IInv'
  BY <1>1, <1>2, <1>9, LoseOk DEF Lose
<1>10. ASSUME NEW click \in load.clicks,
              \/ click[1] = "view" /\ OpenView(click[2])
              \/ click[1] = "days" /\ ChooseDays(click[2], click[3])
              \/ click[1] = "trace" /\ DoTrace(click[2])
              \/ click[1] = "decide" /\ Decide(click[2], click[3])
              \/ click[1] = "signin" /\ HandleLoginSubmit(click[2])
       PROVE IInv'
  <2>1. Good(page', families) /\ UNCHANGED <<served, db, families, now>>
    BY <1>1, <1>10, ClicksOk
  <2>. QED BY <1>1, <1>2, <2>1
<1>11. ASSUME NEW user, NEW status, OthersChange(user, status) PROVE IInv'
  BY <1>1, <1>3, <1>11 DEF OthersChange
<1>12. ASSUME DoSignOut PROVE IInv'
  BY <1>1, <1>2, <1>12, DoSignOutOk DEF DoSignOut, Click
<1>13. ASSUME Boot PROVE IInv'
  BY <1>1, <1>2, <1>13, BootKeeps DEF Boot, Click
<1>14. ASSUME Elapse PROVE IInv'
  <2>1. Good(page, families)'
    BY <1>1, <1>14, ElapseOk
  <2>2. StoreInv' /\ FamiliesInv'
    BY <1>1, <1>14 DEF StoreInv, FamiliesInv, SameUsers, load, Elapse
  <2>. QED BY <2>1, <2>2 DEF IInv, Good
<1>15. CASE UNCHANGED vars
  BY <1>1, <1>2, <1>15 DEF vars
<1>16. CASE Next
  BY <1>4, <1>5, <1>6, <1>7, <1>8, <1>9, <1>10, <1>11, <1>12, <1>13, <1>14, <1>16 DEF Next
<1>. QED BY <1>15, <1>16

\* The inductive invariant of the console.
THEOREM Invariant == Spec => []IInv
BY InitOk, StepOk, PTL DEF Spec

\* A session that the console gives up has been ended by the back end, unless
\* two refreshes raced, an answer was lost or a call outlived its session:
\* the refresh that is under way is the only one and goes with the newest token.
THEOREM SessionEnds == Spec => []SessionEndsForAReason
<1>1. IInv => SessionEndsForAReason
  BY DEF IInv, CleanInv, HeldOk, CurrentOk, RefreshOk, SignInOk, Apart, Clean, SessionEndsForAReason
<1>. QED BY <1>1, Invariant, PTL

\* The tokens in the tab are of who is named above the page.
THEOREM TokensAreHis == Spec => []TokensAreOfTheSession
<1>1. IInv => TokensAreOfTheSession
  BY DEF IInv, PageInv, SessionInv, TokensAreOfTheSession
<1>. QED BY <1>1, Invariant, PTL

----------------------------------------------------------------------------
(* The policy of a user. *)

\* The fields of a user that decide what he may do.
LEMMA UserOk ==
    ASSUME StoreInv, NEW id \in DOMAIN db.users
    PROVE  IsUser(db.users[id], load.countries)
<1>1. /\ id \in DOMAIN load.store.users /\ IsUser(load.store.users[id], load.countries)
      /\ DOMAIN db.users[id] = DOMAIN load.store.users[id]
      /\ \A f \in DOMAIN load.store.users[id] \ {"status", "emailVerified"} :
            db.users[id][f] = load.store.users[id][f]
  BY ConsoleAssumption DEF StoreInv, SameUsers, load, IsLoad
<1>. QED BY <1>1 DEF IsUser

\* The columns of the directory that the policy is computed from.
LEMMA RowOk ==
    ASSUME NEW id
    PROVE  LET row == DirectoryRow(db, id, now)
               user == db.users[id]
           IN  /\ row.status = user.status
               /\ row.importEnabled = user.importEnabled /\ row.exportEnabled = user.exportEnabled
               /\ row.entitlementExpired = EntitlementExpired(user, now)
               /\ row.geoFenceCountries = user.geoFence /\ row.blockedCountries = user.blockedCountries
BY DEF DirectoryRow

\* What the policy shows of an action is what its gate decides, or, when the
\* entitlement expires at this very moment, more.
LEMMA GateIsShown ==
    ASSUME StoreInv, FamiliesInv, NEW id \in DOMAIN db.users
    PROVE  LET user == db.users[id]
               policy == EffectivePolicyModel(DirectoryRow(db, id, now))
               Shows(word) == policy.signIn = "Allowed" /\ word = "Allowed"
           IN  /\ AssertCan(user, "import", now) => Shows(policy.import)
               /\ AssertCan(user, "export", now) => Shows(policy.export)
               /\ user.entitlementExpiresAt # now =>
                     /\ Shows(policy.import) => AssertCan(user, "import", now)
                     /\ Shows(policy.export) => AssertCan(user, "export", now)
<1> DEFINE user == db.users[id]
           row == DirectoryRow(db, id, now)
           policy == EffectivePolicyModel(row)
           shown == EntitlementExpired(user, now)
           expired == user.entitlementExpiresAt # Null /\ user.entitlementExpiresAt <= now
<1>1. /\ user.importEnabled \in BOOLEAN /\ user.exportEnabled \in BOOLEAN
      /\ user.entitlementExpiresAt \in Int \cup {Null}
  BY UserOk DEF IsUser
<1>2. /\ shown \in BOOLEAN /\ shown => expired
      /\ user.entitlementExpiresAt # now => (expired => shown)
  BY <1>1 DEF EntitlementExpired, FamiliesInv
<1>3. /\ policy.signIn = Word(user.status = "active" /\ ~shown)
      /\ policy.import = Word(user.importEnabled) /\ policy.export = Word(user.exportEnabled)
  BY RowOk DEF EffectivePolicyModel
<1>4. \A allowed \in BOOLEAN : Word(allowed) = "Allowed" <=> allowed
  BY DEF Word
<1>5. AssertCan(user, "import", now) <=> user.status = "active" /\ user.importEnabled /\ ~expired
  BY <1>1 DEF AssertCan, GetLiveEntitlements
<1>6. AssertCan(user, "export", now) <=> user.status = "active" /\ user.exportEnabled /\ ~expired
  BY <1>1 DEF AssertCan, GetLiveEntitlements
<1>7. policy.signIn = "Allowed" <=> user.status = "active" /\ ~shown
  BY <1>2, <1>3, <1>4
<1>8. (policy.import = "Allowed" <=> user.importEnabled) /\ (policy.export = "Allowed" <=> user.exportEnabled)
  BY <1>1, <1>3, <1>4
<1>. HIDE DEF user, policy, expired, shown
<1>9. /\ AssertCan(user, "import", now) => policy.signIn = "Allowed" /\ policy.import = "Allowed"
      /\ AssertCan(user, "export", now) => policy.signIn = "Allowed" /\ policy.export = "Allowed"
  BY <1>2, <1>5, <1>6, <1>7, <1>8, Zenon
<1>10. user.entitlementExpiresAt # now =>
          /\ policy.signIn = "Allowed" /\ policy.import = "Allowed" => AssertCan(user, "import", now)
          /\ policy.signIn = "Allowed" /\ policy.export = "Allowed" => AssertCan(user, "export", now)
  BY <1>2, <1>5, <1>6, <1>7, <1>8, Zenon
<1>. QED BY <1>9, <1>10, Zenon DEF user, policy, row

\* "Anywhere" is shown exactly if every country is admitted, the unknown one too.
LEMMA PlaceIsShown ==
    ASSUME StoreInv, NEW id \in DOMAIN db.users
    PROVE  EffectivePolicyModel(DirectoryRow(db, id, now)).location = "Anywhere" <=>
              \A country \in load.countries \cup {Rules!NoCountry} :
                 /\ Rules!EnforceCountryBlock(db.users[id], country) = "ok"
                 /\ Rules!EnforceGeoFence(db.users[id], country) = "ok"
<1> DEFINE user == db.users[id]
           admitted == \A country \in load.countries \cup {Rules!NoCountry} :
                          /\ Rules!EnforceCountryBlock(user, country) = "ok"
                          /\ Rules!EnforceGeoFence(user, country) = "ok"
<1>1. user.blockedCountries \subseteq load.countries
  BY UserOk DEF IsUser
<1>2. EffectivePolicyModel(DirectoryRow(db, id, now)).location = "Anywhere" <=>
         user.blockedCountries = {} /\ user.geoFence = {}
  BY RowOk DEF EffectivePolicyModel
<1>3. \A country : Rules!EnforceCountryBlock(user, country) = "ok" <=> country \notin user.blockedCountries
  BY DEF Rules!EnforceCountryBlock
<1>4. /\ Rules!EnforceGeoFence(user, Rules!NoCountry) = "ok" <=> user.geoFence = {}
  BY DEF Rules!EnforceGeoFence
<1>5. user.geoFence = {} => \A country : Rules!EnforceGeoFence(user, country) = "ok"
  BY DEF Rules!EnforceGeoFence
<1>6. ASSUME user.blockedCountries = {}, user.geoFence = {} PROVE admitted
  BY <1>3, <1>5, <1>6
<1>7. ASSUME admitted PROVE user.blockedCountries = {} /\ user.geoFence = {}
  BY <1>1, <1>3, <1>4, <1>7
<1>. QED BY <1>2, <1>6, <1>7

\* The policy that the directory shows of a user is the one the gates enforce.
THEOREM PolicyIsTrue == Spec => []PolicyIsEnforced
<1>1. IInv => PolicyIsEnforced
  <2> SUFFICES ASSUME IInv, NEW id \in DOMAIN db.users
               PROVE  PolicyIsEnforced!(id)
    BY DEF PolicyIsEnforced
  <2>. QED BY GateIsShown, PlaceIsShown DEF IInv
<1>. QED BY <1>1, Invariant, PTL

----------------------------------------------------------------------------
(* What the views show.  These parts are told from the session's: none of  *)
(* them depends on a token.                                                *)

IsAsked(pg, view) == pg.asked[view] # NotAsked

\* A request with a bearer that has been answered, with the version of the answer.
HasVersion(call) == call.step \in {"first", "second", "done"} /\ call.answer.status = "200"

AskedOk(pg, view, version) ==
    IsAsked(pg, view) => /\ pg.asked[view].task \in 1..pg.begun
                         /\ pg.asked[view].version \in 1..version

\* The answers are no newer than the store.
AnswersOk(pg, version) ==
    \A c \in DOMAIN pg.calls :
        /\ pg.calls[c].step = "done" => pg.calls[c].answer.status = "200"
        /\ HasVersion(pg.calls[c]) => pg.calls[c].answer.version \in 0..version

\* The calls of the newest load of a view carry its window, none of them has
\* failed, and no answer is older than the load; they are all there is of the
\* view, if the load met no other.
LoadOk(pg, c) ==
    LET call == pg.calls[c]
        asked == pg.asked[call.view]
    IN  call.tab = pg.tab /\ call.view \in Views =>
           /\ asked.task = c[1] =>
                 /\ call.body = asked.days
                 /\ call.step # "failed"
                 /\ HasVersion(call) => call.answer.version >= asked.version
           /\ IsAsked(pg, call.view) /\ ~pg.overlapped[call.view] => asked.task = c[1]

\* What has come to its end waits for another call of its task, and what is
\* under way of a task is of one stage.
TasksOk(pg) ==
    /\ \A c \in DOMAIN pg.calls : pg.calls[c].tab = pg.tab /\ pg.calls[c].step \in {"done", "failed"} =>
          \E d \in InFlight(pg) : d[1] = c[1]
    /\ \A c, d \in InFlight(pg) : c[1] = d[1] => pg.calls[c].stage = pg.calls[d].stage

IsShown(pg, view) ==
    /\ pg.shown[view] # NothingShown
    /\ pg.shown[view].days = pg.asked[view].days
    /\ pg.shown[view].version \in Nat /\ pg.shown[view].version >= pg.asked[view].version

\* The newest load of a view is shown or under way: the devices of the view of
\* rules are shown after its first stage.
ShownOk(pg, view) ==
    IsAsked(pg, view) /\ ~pg.overlapped[view] =>
        \/ IsShown(pg, view)
        \/ \E c \in InFlight(pg) : pg.calls[c].view = view /\ (view = "ipgeo" => pg.calls[c].stage = 1)

ViewBase(pg, version) ==
    /\ DOMAIN pg.asked = Views /\ DOMAIN pg.overlapped = Views /\ DOMAIN pg.shown = Panes
    /\ pg.decided \in 0..version
    /\ \A view \in Views : AskedOk(pg, view, version) /\ ShownOk(pg, view)
    /\ AnswersOk(pg, version)
    /\ \A c \in DOMAIN pg.calls : LoadOk(pg, c)
    /\ TasksOk(pg)

\* The list of users has been asked for since the last decision.
ListOk(pg) == IsAsked(pg, "users") => pg.decided <= pg.asked["users"].version

ViewInv(pg, version) == ViewBase(pg, version) /\ ListOk(pg)

VInv == ViewInv(page, db.version)

----------------------------------------------------------------------------
(* What the views show. *)

\* Every non-empty set of naturals has a least element.
LEMMA Least ==
    ASSUME NEW T, T \subseteq Nat, T # {}
    PROVE  \E x \in T : \A y \in T : x <= y
<1>1. \E x \in T : \A y \in T : ~(<<y, x>> \in OpToRel(<, Nat))
  BY NatLessThanWellFounded, WFMin, Zenon
<1>2. PICK x \in T : \A y \in T : ~(<<y, x>> \in OpToRel(<, Nat))
  BY <1>1
<1>3. \A y \in T : <<y, x>> \in OpToRel(<, Nat) <=> y < x
  BY DEF OpToRel
<1>4. \A y \in T : ~(y < x)
  BY <1>2, <1>3, Zenon
<1>5. \A y \in T : x <= y
  BY <1>4
<1>. QED BY <1>5

\* The oldest of the answers is one of them.
LEMMA OldestOk ==
    ASSUME NEW got, \A path \in DOMAIN got : got[path].version \in Nat, DOMAIN got # {}
    PROVE  \E path \in DOMAIN got : Oldest(got) = got[path].version
<1> DEFINE versions == {got[path].version : path \in DOMAIN got}
           P(v) == v \in versions /\ \A path \in DOMAIN got : v <= got[path].version
<1>1. versions \subseteq Nat /\ versions # {}
  OBVIOUS
<1>2. PICK v \in versions : \A w \in versions : v <= w
  <2>. HIDE DEF versions
  <2>. QED BY <1>1, Least
<1>3. P(v)
  BY <1>2
<1>4. Oldest(got) = CHOOSE w \in versions : \A path \in DOMAIN got : w <= got[path].version
  BY DEF Oldest
<1>5. Oldest(got) \in versions
  BY <1>3, <1>4
<1>. QED BY <1>5

\* Rendering fills the pane of the view, and that of the rules.
LEMMA RenderOthers ==
    ASSUME NEW pg, DOMAIN pg = PageFields, DOMAIN pg.shown = Panes,
           NEW view \in Views, NEW stage, NEW got, NEW body
    PROVE  LET rg == Render(pg, view, stage, got, body)
           IN  /\ DOMAIN rg = PageFields /\ DOMAIN rg.shown = Panes
               /\ \A f \in PageFields \ {"shown"} : rg[f] = pg[f]
               /\ \A w \in Views \ {view} : rg.shown[w] = pg.shown[w]
               /\ view = "ipgeo" /\ stage # 1 => rg.shown[view] = pg.shown[view]
<1> DEFINE Fills(rg, pane) == /\ DOMAIN rg = PageFields /\ DOMAIN rg.shown = Panes
                              /\ \A f \in PageFields \ {"shown"} : rg[f] = pg[f]
                              /\ \A w \in Panes \ {pane} : rg.shown[w] = pg.shown[w]
<1>1. ASSUME NEW pane, NEW rows, NEW days, NEW version PROVE Fills(Put(pg, pane, rows, days, version), pane)
  BY Fields DEF Put
<1>2. \A pane : Fills(pg, pane)
  OBVIOUS
<1>. HIDE DEF Fills
<1>3. CASE view = "integrity"
  <2>1. Fills(LoadIntegrity(pg, stage, got, body), view)
    BY <1>1, <1>2, <1>3, Zenon DEF LoadIntegrity
  <2>. QED BY <1>3, <2>1 DEF Fills, Render, Panes
<1>4. CASE view = "ipgeo"
  <2>1. CASE stage = 1
    <3>1. Fills(LoadIpGeo(pg, stage, got, body), view)
      BY <1>1, <1>2, <1>4, <2>1, Zenon DEF LoadIpGeo
    <3>. QED BY <1>4, <2>1, <3>1 DEF Fills, Render, Panes
  <2>2. CASE stage # 1
    <3>1. Fills(LoadIpGeo(pg, stage, got, body), "ipRules")
      BY <1>1, <1>2, <1>4, <2>2, Zenon DEF LoadIpGeo
    <3>. QED BY <1>4, <2>2, <3>1 DEF Fills, Render, Panes, Views, Stages
  <2>. QED BY <2>1, <2>2
<1>5. CASE view \notin {"integrity", "ipgeo"}
  <2>1. Render(pg, view, stage, got, body)
          = IF HasFailed(got) THEN pg ELSE Put(pg, view, RowsFor(view, got), body, Oldest(got))
    BY <1>5 DEF Render
  <2>2. Fills(Render(pg, view, stage, got, body), view)
    BY <1>1, <1>2, <2>1
  <2>. QED BY <1>5, <2>2 DEF Fills, Panes
<1>. QED BY <1>3, <1>4, <1>5

\* A view whose requests have all been answered is shown, as of the oldest of
\* the answers or later: after the last of its stages, the view of rules after
\* its first.
LEMMA RenderFills ==
    ASSUME NEW pg, DOMAIN pg = PageFields, DOMAIN pg.shown = Panes,
           NEW view \in Views, NEW stage, NEW got, NEW body, NEW version \in Nat \ {0},
           DOMAIN got # {}, "devices" \in DOMAIN got \/ view # "ipgeo",
           \A path \in DOMAIN got : /\ got[path].status = "200" /\ got[path].version \in Nat
                                    /\ got[path].version >= version,
           view = "ipgeo" => stage = 1, view = "integrity" => stage # 1
    PROVE  LET shown == Render(pg, view, stage, got, body).shown[view]
           IN  shown # NothingShown /\ shown.days = body /\ shown.version \in Nat /\ shown.version >= version
<1>1. ~HasFailed(got)
  BY DEF HasFailed
<1>2. Oldest(got) \in Nat /\ Oldest(got) >= version
  BY OldestOk
<1>3. ASSUME NEW rows, NEW old \in Nat, old >= version, Render(pg, view, stage, got, body) = Put(pg, view, rows, body, old)
      PROVE  LET shown == Render(pg, view, stage, got, body).shown[view]
             IN  shown # NothingShown /\ shown.days = body /\ shown.version \in Nat /\ shown.version >= version
  <2>1. Render(pg, view, stage, got, body).shown[view] = [rows |-> rows, days |-> body, version |-> old]
    BY <1>3, Fields DEF Put, Panes
  <2>2. NothingShown.version = 0
    BY DEF NothingShown
  <2>. QED BY <1>3, <2>1, <2>2
<1>4. CASE view = "integrity"
  BY <1>1, <1>2, <1>3, <1>4 DEF Render, LoadIntegrity
<1>5. CASE view = "ipgeo"
  BY <1>3, <1>5 DEF Render, LoadIpGeo
<1>6. CASE view \notin {"integrity", "ipgeo"}
  BY <1>1, <1>2, <1>3, <1>6 DEF Render
<1>. QED BY <1>4, <1>5, <1>6

\* The calls go on: some have got an answer, which is of this moment, or went
\* out again; requests without a bearer came and went, and decisions.
Continues(pg, qg, version) ==
    /\ qg.asked = pg.asked /\ qg.overlapped = pg.overlapped /\ qg.shown = pg.shown
    /\ qg.decided = pg.decided /\ qg.tab = pg.tab /\ qg.begun >= pg.begun
    /\ \A c \in DOMAIN qg.calls :
          \/ /\ c \in DOMAIN pg.calls
             /\ qg.calls[c].view = pg.calls[c].view /\ qg.calls[c].stage = pg.calls[c].stage
             /\ qg.calls[c].body = pg.calls[c].body /\ qg.calls[c].tab = pg.calls[c].tab
             /\ \/ qg.calls[c] = pg.calls[c]
                \/ /\ qg.calls[c].step \notin {"done", "failed"}
                   /\ pg.calls[c].step \notin {"done", "failed"}
                   /\ HasVersion(qg.calls[c]) => qg.calls[c].answer.version = version
          \/ /\ \A d \in DOMAIN pg.calls : d[1] # c[1]
             /\ qg.calls[c].view \notin Views /\ qg.calls[c].stage = 1
             /\ qg.calls[c].step \notin {"done", "failed"} /\ qg.calls[c].answer = Pending
    /\ \A c \in InFlight(pg) :
          \/ c \in InFlight(qg)
          \/ pg.calls[c].view \notin Views /\ \A d \in DOMAIN qg.calls : d[1] # c[1]

\* What the views show does not change by that.
LEMMA ContinuesKeeps ==
    ASSUME NEW pg, NEW qg, NEW v \in Nat, NEW w \in Nat, v <= w, PageInv(pg), PageInv(qg),
           ViewBase(pg, v), Continues(pg, qg, w)
    PROVE  ViewBase(qg, w) /\ (ListOk(pg) => ListOk(qg))
<1>1. /\ qg.asked = pg.asked /\ qg.overlapped = pg.overlapped /\ qg.shown = pg.shown
      /\ qg.decided = pg.decided /\ qg.tab = pg.tab /\ qg.begun >= pg.begun
      /\ pg.begun \in Nat /\ qg.begun \in Nat
  BY DEF Continues, PageInv
<1>2. ASSUME NEW c \in DOMAIN qg.calls, c \in DOMAIN pg.calls => qg.calls[c] # pg.calls[c], HasVersion(qg.calls[c])
      PROVE  qg.calls[c].answer.version = w
  BY <1>2 DEF Continues, HasVersion, Pending
<1>3. \A c \in InFlight(pg) : pg.calls[c].view \in Views =>
         c \in InFlight(qg) /\ qg.calls[c].view = pg.calls[c].view /\ qg.calls[c].stage = pg.calls[c].stage
  <2> SUFFICES ASSUME NEW c \in InFlight(pg), pg.calls[c].view \in Views
               PROVE  c \in InFlight(qg) /\ qg.calls[c].view = pg.calls[c].view
                      /\ qg.calls[c].stage = pg.calls[c].stage
    OBVIOUS
  <2>1. c \in InFlight(qg) /\ c \in DOMAIN qg.calls /\ c \in DOMAIN pg.calls
    BY DEF Continues, InFlight
  <2>. QED BY <2>1 DEF Continues
<1>4. \A view \in Views : AskedOk(qg, view, w)
  BY <1>1 DEF ViewBase, AskedOk, IsAsked
<1>5. \A view \in Views : ShownOk(qg, view)
  BY <1>1, <1>3 DEF ViewBase, ShownOk, IsAsked, IsShown
<1>6. AnswersOk(qg, w)
  <2> SUFFICES ASSUME NEW c \in DOMAIN qg.calls
               PROVE  /\ qg.calls[c].step = "done" => qg.calls[c].answer.status = "200"
                      /\ HasVersion(qg.calls[c]) => qg.calls[c].answer.version \in 0..w
    BY DEF AnswersOk
  <2>1. CASE c \in DOMAIN pg.calls /\ qg.calls[c] = pg.calls[c]
    BY <2>1 DEF ViewBase, AnswersOk
  <2>2. CASE ~(c \in DOMAIN pg.calls /\ qg.calls[c] = pg.calls[c])
    <3>1. qg.calls[c].step # "done"
      BY <2>2 DEF Continues
    <3>. QED BY <1>2, <2>2, <3>1
  <2>. QED BY <2>1, <2>2
<1>7. ASSUME NEW c \in DOMAIN qg.calls PROVE LoadOk(qg, c)
  <2> SUFFICES ASSUME qg.calls[c].tab = qg.tab, qg.calls[c].view \in Views PROVE LoadOk(qg, c)
    BY DEF LoadOk
  <2>1. /\ c \in DOMAIN pg.calls
        /\ qg.calls[c].view = pg.calls[c].view /\ qg.calls[c].body = pg.calls[c].body
        /\ qg.calls[c].tab = pg.calls[c].tab
        /\ qg.calls[c] = pg.calls[c] \/ qg.calls[c].step # "failed"
    BY DEF Continues
  <2>2. LoadOk(pg, c) /\ AskedOk(pg, pg.calls[c].view, v)
    BY <2>1 DEF ViewBase
  <2>3. CASE qg.calls[c] = pg.calls[c]
    BY <1>1, <2>1, <2>2, <2>3 DEF LoadOk, IsAsked
  <2>4. CASE qg.calls[c] # pg.calls[c]
    <3>1. HasVersion(qg.calls[c]) => qg.calls[c].answer.version = w
      BY <1>2, <2>4
    <3>2. pg.asked[pg.calls[c].view].task = c[1] => pg.asked[pg.calls[c].view].version <= w
      <4>1. c[1] # 0
        BY <2>1 DEF PageInv, CallOk
      <4>2. NotAsked.task = 0
        BY DEF NotAsked
      <4>. QED BY <2>2, <4>1, <4>2 DEF AskedOk, IsAsked
    <3>. QED BY <1>1, <2>1, <2>2, <2>4, <3>1, <3>2 DEF LoadOk, IsAsked, ViewBase, AskedOk
  <2>. QED BY <2>3, <2>4
<1>8. TasksOk(qg)
  <2>1. ASSUME NEW c \in DOMAIN qg.calls, qg.calls[c].tab = qg.tab, qg.calls[c].step \in {"done", "failed"}
        PROVE  \E d \in InFlight(qg) : d[1] = c[1]
    <3>1. c \in DOMAIN pg.calls /\ qg.calls[c] = pg.calls[c]
      BY <2>1 DEF Continues
    <3>2. PICK d \in InFlight(pg) : d[1] = c[1]
      BY <1>1, <2>1, <3>1 DEF ViewBase, TasksOk
    <3>. QED BY <3>2 DEF Continues
  <2>2. \A c \in InFlight(qg) : \/ c \in InFlight(pg) /\ qg.calls[c].stage = pg.calls[c].stage
                                \/ qg.calls[c].stage = 1 /\ \A d \in DOMAIN pg.calls : d[1] # c[1]
    BY <1>1 DEF Continues, InFlight
  <2>3. \A c, d \in InFlight(qg) : c[1] = d[1] => qg.calls[c].stage = qg.calls[d].stage
    BY <2>2 DEF ViewBase, TasksOk, InFlight
  <2>. QED BY <2>1, <2>3 DEF TasksOk
<1>9. /\ DOMAIN qg.asked = Views /\ DOMAIN qg.overlapped = Views /\ DOMAIN qg.shown = Panes
      /\ qg.decided \in 0..w
  BY <1>1 DEF ViewBase
<1>10. ViewBase(qg, w)
  BY <1>4, <1>5, <1>6, <1>7, <1>8, <1>9 DEF ViewBase
<1>11. ListOk(pg) => ListOk(qg)
  BY <1>1 DEF ListOk, IsAsked
<1>. QED BY <1>10, <1>11

\* A view is loaded: its newest load is under way.
LEMMA LoadViewShows ==
    ASSUME NEW pg, PageInv(pg), db.version \in Nat \ {0}, ViewBase(pg, db.version),
           NEW view \in Views, NEW body, view # "users" => ListOk(pg)
    PROVE  ViewInv(LoadView(pg, view, body), db.version)
<1> DEFINE task == pg.begun + 1
           meets == \E c \in InFlight(pg) : pg.calls[c].view = view
           asked == [task |-> task, days |-> body, version |-> db.version]
           qg == LoadView(pg, view, body)
           sent == {<<task, path>> : path \in Stages[view][1]}
           call == [view |-> view, stage |-> 1, body |-> body, step |-> "first",
                    tab |-> pg.tab, token |-> pg.access, answer |-> Pending]
<1>1. /\ DOMAIN qg = PageFields
      /\ qg.calls = [c \in DOMAIN pg.calls \cup sent |-> IF c \in sent THEN call ELSE pg.calls[c]]
      /\ qg.begun = task
      /\ qg.asked = [pg.asked EXCEPT ![view] = asked]
      /\ qg.overlapped = [pg.overlapped EXCEPT ![view] = meets]
      /\ \A f \in PageFields \ {"calls", "begun", "asked", "overlapped"} : qg[f] = pg[f]
  BY Fields DEF PageInv, LoadView, SendStage
<1>. HIDE DEF qg
<1>2. qg.shown = pg.shown /\ qg.decided = pg.decided /\ qg.tab = pg.tab /\ pg.begun \in Nat
  BY <1>1, Fields DEF PageInv
<1>3. /\ DOMAIN qg.asked = Views /\ DOMAIN qg.overlapped = Views /\ DOMAIN qg.shown = Panes
      /\ qg.asked[view] = asked /\ qg.overlapped[view] = meets
      /\ \A w \in Views \ {view} : qg.asked[w] = pg.asked[w] /\ qg.overlapped[w] = pg.overlapped[w]
  BY <1>1, <1>2 DEF ViewBase
<1>4. asked.task = task /\ asked.days = body /\ asked.version = db.version /\ asked # NotAsked
  BY <1>2 DEF NotAsked
<1>5. /\ call.view = view /\ call.stage = 1 /\ call.body = body /\ call.step = "first" /\ call.tab = pg.tab
      /\ call.answer.status = "pending"
  BY DEF Pending
<1>. HIDE DEF asked, call
<1>6. \A d \in DOMAIN pg.calls : d[1] # task /\ d \notin sent /\ d[1] # 0
  BY <1>2 DEF PageInv, CallOk
<1>7. \A d \in sent : d[1] = task /\ d \in DOMAIN qg.calls /\ qg.calls[d] = call
  BY <1>1
<1>8. \A d \in DOMAIN pg.calls : d \in DOMAIN qg.calls /\ qg.calls[d] = pg.calls[d]
  BY <1>1, <1>6
<1>9. DOMAIN qg.calls = DOMAIN pg.calls \cup sent
  BY <1>1
<1>10. \E d \in sent : TRUE
  <2>1. \E path : path \in Stages[view][1]
    BY DEF Views, Stages
  <2>. QED BY <2>1
<1>. HIDE DEF sent, meets
<1>11. /\ \A d \in InFlight(qg) : d \in sent \/ d \in InFlight(pg)
       /\ sent \subseteq InFlight(qg) /\ InFlight(pg) \subseteq InFlight(qg)
  BY <1>2, <1>5, <1>7, <1>8, <1>9 DEF InFlight
<1>12. ASSUME NEW w \in Views PROVE AskedOk(qg, w, db.version) /\ ShownOk(qg, w)
  <2>1. CASE w = view
    <3>1. PICK d \in sent : TRUE
      BY <1>10
    <3>2. d \in InFlight(qg) /\ qg.calls[d].view = view /\ qg.calls[d].stage = 1
      BY <1>5, <1>7, <1>11
    <3>. QED BY <1>1, <1>2, <1>3, <1>4, <2>1, <3>2 DEF AskedOk, ShownOk
  <2>2. CASE w # view
    <3>1. AskedOk(pg, w, db.version) /\ ShownOk(pg, w)
      BY DEF ViewBase
    <3>2. qg.asked[w] = pg.asked[w] /\ qg.overlapped[w] = pg.overlapped[w] /\ qg.shown[w] = pg.shown[w]
      BY <1>2, <1>3, <2>2
    <3>3. \A c \in InFlight(pg) : c \in InFlight(qg) /\ qg.calls[c] = pg.calls[c]
      BY <1>8, <1>11 DEF InFlight
    <3>4. AskedOk(qg, w, db.version)
      BY <1>1, <1>2, <3>1, <3>2 DEF AskedOk, IsAsked
    <3>5. ShownOk(qg, w)
      BY <3>1, <3>2, <3>3 DEF ShownOk, IsAsked, IsShown
    <3>. QED BY <3>4, <3>5
  <2>. QED BY <2>1, <2>2
<1>13. AnswersOk(qg, db.version)
  BY <1>5, <1>7, <1>8, <1>9 DEF ViewBase, AnswersOk, HasVersion
<1>14. ASSUME NEW d \in DOMAIN qg.calls PROVE LoadOk(qg, d)
  <2>1. CASE d \in sent
    BY <1>3, <1>4, <1>5, <1>7, <2>1 DEF LoadOk, HasVersion
  <2>2. CASE d \in DOMAIN pg.calls /\ pg.calls[d].view # view
    <3>1. LoadOk(pg, d) /\ qg.calls[d] = pg.calls[d]
      BY <1>8, <2>2 DEF ViewBase
    <3>. QED BY <1>2, <1>3, <2>2, <3>1 DEF LoadOk, IsAsked
  <2>3. CASE d \in DOMAIN pg.calls /\ pg.calls[d].view = view
    <3>1. qg.calls[d] = pg.calls[d] /\ d[1] # task
      BY <1>6, <1>8, <2>3
    <3>2. pg.calls[d].tab = pg.tab => meets
      <4> SUFFICES ASSUME pg.calls[d].tab = pg.tab, d \notin InFlight(pg) PROVE meets
        BY <2>3 DEF meets
      <4>1. pg.calls[d].step \in {"done", "failed"}
        BY <2>3 DEF InFlight
      <4>2. PICK e \in InFlight(pg) : e[1] = d[1]
        BY <2>3, <4>1 DEF ViewBase, TasksOk
      <4>3. pg.calls[e].view = view
        BY <2>3, <4>2 DEF PageInv, SameTask, InFlight
      <4>. QED BY <4>3 DEF meets
    <3>. QED BY <1>2, <1>3, <1>4, <2>3, <3>1, <3>2 DEF LoadOk
  <2>. QED BY <1>9, <2>1, <2>2, <2>3
<1>15. TasksOk(qg)
  <2>1. \A d \in DOMAIN qg.calls : qg.calls[d].tab = qg.tab /\ qg.calls[d].step \in {"done", "failed"} =>
           \E e \in InFlight(qg) : e[1] = d[1]
    BY <1>2, <1>5, <1>7, <1>8, <1>9, <1>11 DEF ViewBase, TasksOk
  <2>2. \A d \in InFlight(qg) : \/ d[1] = task /\ qg.calls[d].stage = 1
                                \/ d[1] # task /\ d \in InFlight(pg) /\ qg.calls[d] = pg.calls[d]
    BY <1>5, <1>6, <1>7, <1>8, <1>11 DEF InFlight
  <2>3. \A d, e \in InFlight(qg) : d[1] = e[1] => qg.calls[d].stage = qg.calls[e].stage
    BY <2>2 DEF ViewBase, TasksOk
  <2>. QED BY <2>1, <2>3 DEF TasksOk
<1>16. ListOk(qg)
  BY <1>2, <1>3, <1>4 DEF ListOk, IsAsked, ViewBase, Views, Stages
<1>17. ViewBase(qg, db.version)
  BY <1>2, <1>3, <1>12, <1>13, <1>14, <1>15 DEF ViewBase
<1>. QED BY <1>16, <1>17 DEF ViewInv, qg

\* A call comes to its end, and if it failed, its load with it.
Noted(pg, c, answer) ==
    LET call == pg.calls[c]
        step == IF answer.status = "200" THEN "done" ELSE "failed"
        settled == Ended(pg, c, step, answer)
    IN  IF step = "failed" /\ call.view # "decide" /\ pg.asked[call.view].task = c[1]
        THEN [settled EXCEPT !.asked[call.view] = NotAsked] ELSE settled

\* A request stays in order while nothing of its view is asked anew.
LEMMA LoadStays ==
    ASSUME NEW pg, NEW qg, NEW d, LoadOk(pg, d),
           qg.calls[d] = pg.calls[d], qg.tab = pg.tab, qg.overlapped = pg.overlapped,
           pg.calls[d].view \in Views => qg.asked[pg.calls[d].view] = pg.asked[pg.calls[d].view]
    PROVE  LoadOk(qg, d)
<1>1. CASE pg.calls[d].view \notin Views
  BY <1>1 DEF LoadOk
<1>2. CASE pg.calls[d].view \in Views
  BY <1>2 DEF LoadOk, IsAsked
<1>. QED BY <1>1, <1>2

\* What is left then to say of the other calls, and of its view.
LEMMA NotedOk ==
    ASSUME NEW pg, PageInv(pg), NEW version \in Nat, ViewInv(pg, version), NEW c \in InFlight(pg),
           pg.calls[c].view \in Views, NEW answer, answer.status \in Statuses \ {"pending"},
           answer.status = "200" => HasVersion(pg.calls[c]) /\ answer = pg.calls[c].answer
    PROVE  LET ng == Noted(pg, c, answer)
               view == pg.calls[c].view
           IN  /\ DOMAIN ng = PageFields /\ ng.shown = pg.shown /\ ng.tab = pg.tab /\ ng.begun = pg.begun
               /\ ng.decided = pg.decided /\ ng.overlapped = pg.overlapped
               /\ DOMAIN ng.calls = DOMAIN pg.calls
               /\ \A d \in DOMAIN pg.calls \ {c} : ng.calls[d] = pg.calls[d]
               /\ ng.calls[c].step \in {"done", "failed"} /\ ng.calls[c].answer = answer
               /\ ng.calls[c].tab = pg.tab /\ ng.calls[c].view = view
               /\ InFlight(ng) = InFlight(pg) \ {c}
               /\ DOMAIN ng.asked = Views
               /\ \A w \in Views \ {view} : ng.asked[w] = pg.asked[w]
               /\ ng.asked[view] \in {pg.asked[view], NotAsked}
               /\ \A w \in Views : AskedOk(ng, w, version)
               /\ AnswersOk(ng, version)
               /\ \A d \in DOMAIN ng.calls : LoadOk(ng, d)
               /\ ListOk(ng)
<1> DEFINE call == pg.calls[c]
           view == pg.calls[c].view
           step == IF answer.status = "200" THEN "done" ELSE "failed"
           settled == Ended(pg, c, step, answer)
           ng == Noted(pg, c, answer)
<1>1. /\ c \in DOMAIN pg.calls /\ call.tab = pg.tab /\ call.step \notin {"done", "failed"}
      /\ view \in Views /\ view \notin {"decide"} /\ view \in DOMAIN Stages
  BY DEF InFlight, Views
<1>2. call.step \notin {"login", "logout"}
  BY <1>1 DEF PageInv, CallOk
<1>3. step \in {"done", "failed"} /\ (step = "done" <=> answer.status = "200")
  OBVIOUS
<1>4. ng = IF step = "failed" /\ pg.asked[view].task = c[1]
           THEN [settled EXCEPT !.asked[view] = NotAsked] ELSE settled
  BY <1>1 DEF Noted
<1>. HIDE DEF step, ng
<1>5. /\ DOMAIN settled = PageFields
      /\ DOMAIN settled.calls = DOMAIN pg.calls
      /\ \A d \in DOMAIN pg.calls \ {c} : settled.calls[d] = pg.calls[d]
      /\ settled.calls[c].step = step /\ settled.calls[c].answer = answer
      /\ settled.calls[c].view = call.view /\ settled.calls[c].tab = call.tab
      /\ settled.calls[c].body = call.body
      /\ \A f \in PageFields \ {"calls"} : settled[f] = pg[f]
  <2>1. /\ DOMAIN settled = PageFields
        /\ \A f \in PageFields \ {"calls"} : settled[f] = pg[f]
    BY Fields DEF PageInv, Ended
  <2>. HIDE DEF settled
  <2>2. settled = Ended(pg, c, step, answer)
    BY DEF settled
  <2>. QED BY <1>1, <1>2, <1>3, <2>1, <2>2, EndedOk
<1>. HIDE DEF settled
<1>6. /\ settled.shown = pg.shown /\ settled.tab = pg.tab /\ settled.begun = pg.begun
      /\ settled.decided = pg.decided /\ settled.overlapped = pg.overlapped /\ settled.asked = pg.asked
  BY <1>5, Fields
<1>7. /\ DOMAIN ng = PageFields /\ ng.calls = settled.calls
      /\ ng.shown = pg.shown /\ ng.tab = pg.tab /\ ng.begun = pg.begun
      /\ ng.decided = pg.decided /\ ng.overlapped = pg.overlapped
      /\ ng.asked = IF step = "failed" /\ pg.asked[view].task = c[1]
                    THEN [pg.asked EXCEPT ![view] = NotAsked] ELSE pg.asked
  BY <1>4, <1>5, <1>6, Fields
<1>8. /\ DOMAIN ng.asked = Views
      /\ \A w \in Views \ {view} : ng.asked[w] = pg.asked[w]
      /\ ng.asked[view] = IF step = "failed" /\ pg.asked[view].task = c[1] THEN NotAsked ELSE pg.asked[view]
  BY <1>1, <1>7 DEF ViewInv, ViewBase
<1>9. InFlight(ng) = InFlight(pg) \ {c}
  BY <1>1, <1>3, <1>5, <1>7 DEF InFlight
<1>10. \A w \in Views : AskedOk(ng, w, version)
  BY <1>7, <1>8 DEF ViewInv, ViewBase, AskedOk, IsAsked
<1>11. AnswersOk(ng, version)
  <2> SUFFICES ASSUME NEW d \in DOMAIN pg.calls
               PROVE  /\ ng.calls[d].step = "done" => ng.calls[d].answer.status = "200"
                      /\ HasVersion(ng.calls[d]) => ng.calls[d].answer.version \in 0..version
    BY <1>5, <1>7 DEF AnswersOk
  <2>1. CASE d = c
    BY <1>3, <1>5, <1>7, <2>1 DEF ViewInv, ViewBase, AnswersOk, HasVersion
  <2>2. CASE d # c
    BY <1>5, <1>7, <2>2 DEF ViewInv, ViewBase, AnswersOk
  <2>. QED BY <2>1, <2>2
<1>12. \A d \in DOMAIN pg.calls : d[1] # 0
  BY DEF PageInv, CallOk
<1>13. NotAsked.task = 0
  BY DEF NotAsked
<1>14. ASSUME NEW d \in DOMAIN ng.calls PROVE LoadOk(ng, d)
  <2>1. d \in DOMAIN pg.calls /\ LoadOk(pg, d)
    BY <1>5, <1>7 DEF ViewInv, ViewBase
  <2>2. CASE d = c
    <3>1. HasVersion(ng.calls[c]) => HasVersion(call) /\ ng.calls[c].answer = call.answer
      BY <1>3, <1>5, <1>7 DEF HasVersion
    <3>2. /\ ng.calls[d].tab = call.tab /\ ng.calls[d].view = view /\ ng.calls[d].body = call.body
          /\ ng.calls[d].step = step /\ ng.tab = pg.tab /\ ng.overlapped = pg.overlapped
          /\ d[1] = c[1] /\ d[1] # 0
      BY <1>5, <1>7, <1>12, <2>1, <2>2
    <3>3. CASE step = "failed" /\ pg.asked[view].task = c[1]
      <4>1. ng.asked[view] = NotAsked
        BY <1>8, <3>3
      <4>. QED BY <1>13, <3>2, <4>1 DEF LoadOk, IsAsked
    <3>4. CASE ~(step = "failed" /\ pg.asked[view].task = c[1])
      <4>1. ng.asked[view] = pg.asked[view]
        BY <1>8, <3>4
      <4>2. pg.asked[view].task = c[1] => call.body = pg.asked[view].days /\ step # "failed"
        BY <1>1, <2>1, <2>2, <3>4 DEF LoadOk
      <4>3. pg.asked[view].task = c[1] /\ HasVersion(ng.calls[d]) =>
               ng.calls[d].answer.version >= pg.asked[view].version
        BY <1>1, <2>1, <2>2, <3>1 DEF LoadOk
      <4>4. pg.asked[view] # NotAsked /\ ~pg.overlapped[view] => pg.asked[view].task = c[1]
        BY <1>1, <2>1, <2>2 DEF LoadOk, IsAsked
      <4>. QED BY <3>2, <4>1, <4>2, <4>3, <4>4 DEF LoadOk, IsAsked
    <3>. QED BY <3>3, <3>4
  <2>3. CASE d # c
    <3>1. ng.calls[d] = pg.calls[d]
      BY <1>5, <1>7, <2>1, <2>3
    <3>2. CASE pg.calls[d].view # view
      <4>1. pg.calls[d].view \in Views => ng.asked[pg.calls[d].view] = pg.asked[pg.calls[d].view]
        BY <1>8, <3>2
      <4>. QED BY <1>7, <2>1, <3>1, <4>1, LoadStays
    <3>3. CASE pg.calls[d].view = view
      <4>1. CASE ng.asked[view] = pg.asked[view]
        BY <1>7, <2>1, <3>1, <3>3, <4>1, LoadStays
      <4>2. CASE ng.asked[view] = NotAsked
        <5>1. ng.calls[d].view = view /\ d[1] # 0 /\ ng.asked[view].task = 0
          BY <1>12, <1>13, <2>1, <3>1, <3>3, <4>2
        <5>. QED BY <4>2, <5>1 DEF LoadOk, IsAsked
      <4>. QED BY <1>8, <4>1, <4>2
    <3>. QED BY <3>2, <3>3
  <2>. QED BY <2>2, <2>3
<1>15. ListOk(ng)
  <2>1. "users" \in Views
    BY DEF Views, Stages
  <2>2. ng.asked["users"] \in {pg.asked["users"], NotAsked}
    BY <1>8, <2>1
  <2>3. pg.asked["users"] # NotAsked => pg.decided <= pg.asked["users"].version
    BY DEF ViewInv, ListOk, IsAsked
  <2>. QED BY <1>7, <2>2, <2>3 DEF ListOk, IsAsked
<1>. QED BY <1>1, <1>3, <1>5, <1>7, <1>8, <1>9, <1>10, <1>11, <1>14, <1>15 DEF ng

\* A stage is complete, and not the last one: the next goes out.
LEMMA NextStageShows ==
    ASSUME NEW pg, PageInv(pg), NEW version \in Nat \ {0}, ViewInv(pg, version), NEW c \in InFlight(pg),
           NEW view \in Views, pg.calls[c].view = view, NEW ng, NEW rg,
           DOMAIN ng = PageFields, ng.shown = pg.shown, ng.tab = pg.tab, ng.begun = pg.begun,
           ng.decided = pg.decided, ng.overlapped = pg.overlapped,
           DOMAIN ng.calls = DOMAIN pg.calls,
           \A d \in DOMAIN pg.calls \ {c} : ng.calls[d] = pg.calls[d],
           InFlight(ng) = InFlight(pg) \ {c}, ng.calls[c].tab = pg.tab, ng.calls[c].view = view,
           ng.calls[c].step \in {"done", "failed"},
           DOMAIN ng.asked = Views, \A w \in Views \ {view} : ng.asked[w] = pg.asked[w],
           ng.asked[view] \in {pg.asked[view], NotAsked},
           \A w \in Views : AskedOk(ng, w, version), AnswersOk(ng, version),
           \A d \in DOMAIN ng.calls : LoadOk(ng, d), ListOk(ng),
           \A d \in InFlight(ng) : d[1] # c[1],
           \* what has been rendered
           DOMAIN rg = PageFields, DOMAIN rg.shown = Panes,
           \A f \in PageFields \ {"shown"} : rg[f] = ng[f],
           \A w \in Views \ {view} : rg.shown[w] = ng.shown[w],
           NEW next \in DOMAIN Stages[view],
           view = "ipgeo" /\ IsAsked(ng, view) /\ ~ng.overlapped[view] => IsShown(rg, view)
    PROVE  ViewInv(SendStage(rg, c[1], view, next, pg.calls[c].body), version)
<1> DEFINE body == pg.calls[c].body
           task == c[1]
           qg == SendStage(rg, task, view, next, body)
           sent == {<<task, path>> : path \in Stages[view][next]}
           call == [view |-> view, stage |-> next, body |-> body, step |-> "first",
                    tab |-> rg.tab, token |-> rg.access, answer |-> Pending]
<1>1. /\ rg.calls = ng.calls /\ rg.tab = pg.tab /\ rg.begun = pg.begun /\ rg.decided = pg.decided
      /\ rg.asked = ng.asked /\ rg.overlapped = pg.overlapped
  BY Fields
<1>2. /\ DOMAIN qg = PageFields
      /\ qg.calls = [d \in DOMAIN pg.calls \cup sent |-> IF d \in sent THEN call ELSE ng.calls[d]]
      /\ \A f \in PageFields \ {"calls"} : qg[f] = rg[f]
  BY <1>1, Fields DEF SendStage
<1>. HIDE DEF qg
<1>3. /\ qg.shown = rg.shown /\ qg.decided = pg.decided /\ qg.tab = pg.tab /\ qg.begun = pg.begun
      /\ qg.asked = ng.asked /\ qg.overlapped = pg.overlapped
  BY <1>1, <1>2, Fields
<1>4. /\ call.view = view /\ call.stage = next /\ call.body = body /\ call.step = "first" /\ call.tab = pg.tab
      /\ call.answer.status = "pending"
  BY <1>1 DEF Pending
<1>. HIDE DEF call
<1>5. /\ DOMAIN qg.calls = DOMAIN pg.calls \cup sent
      /\ \A d \in sent : d[1] = task /\ qg.calls[d] = call
      /\ \A d \in DOMAIN pg.calls : d \notin sent => qg.calls[d] = ng.calls[d]
  BY <1>2
<1>6. \E d \in sent : TRUE
  <2>1. PICK path : path \in Stages[view][next]
    BY DEF Views, Stages
  <2>2. <<task, path>> \in sent
    BY <2>1
  <2>. QED BY <2>2
<1>. HIDE DEF sent
<1>7. /\ \A d \in InFlight(qg) : d \in sent \/ (d \in InFlight(ng) /\ qg.calls[d] = ng.calls[d])
      /\ sent \subseteq InFlight(qg)
      /\ \A d \in InFlight(ng) : d \notin sent /\ d \in InFlight(qg) /\ qg.calls[d] = ng.calls[d]
  <2>1. ASSUME NEW d \in InFlight(ng) PROVE d \notin sent /\ d \in InFlight(qg) /\ qg.calls[d] = ng.calls[d]
    <3>1. d \notin sent /\ d \in DOMAIN pg.calls
      BY <1>5 DEF InFlight
    <3>. QED BY <1>3, <1>5, <3>1 DEF InFlight
  <2>2. ASSUME NEW d \in InFlight(qg), d \notin sent PROVE d \in InFlight(ng) /\ qg.calls[d] = ng.calls[d]
    <3>1. d \in DOMAIN pg.calls /\ qg.calls[d] = ng.calls[d]
      BY <1>5, <2>2 DEF InFlight
    <3>. QED BY <1>3, <3>1 DEF InFlight
  <2>3. sent \subseteq InFlight(qg)
    BY <1>3, <1>4, <1>5 DEF InFlight
  <2>4. \A d \in InFlight(qg) : d \in sent \/ (d \in InFlight(ng) /\ qg.calls[d] = ng.calls[d])
    BY ONLY <2>2
  <2>5. \A d \in InFlight(ng) : d \notin sent /\ d \in InFlight(qg) /\ qg.calls[d] = ng.calls[d]
    BY ONLY <2>1
  <2>. QED BY <2>3, <2>4, <2>5, Zenon
<1>8. c \in DOMAIN pg.calls /\ pg.calls[c].tab = pg.tab /\ LoadOk(pg, c) /\ LoadOk(ng, c)
      /\ c[1] # 0 /\ NotAsked.task = 0
  BY DEF InFlight, ViewInv, ViewBase, PageInv, CallOk, NotAsked
<1>9. ASSUME NEW w \in Views PROVE AskedOk(qg, w, version)
  <2>1. AskedOk(ng, w, version)
    OBVIOUS
  <2>. QED BY <1>3, <2>1 DEF AskedOk, IsAsked
<1>10. ASSUME NEW w \in Views PROVE ShownOk(qg, w)
  <2>1. CASE w = view /\ view = "ipgeo"
    BY <1>1, <1>3, <2>1 DEF ShownOk, IsAsked, IsShown
  <2>2. CASE w = view /\ view # "ipgeo"
    BY <1>4, <1>5, <1>6, <1>7, <2>2 DEF ShownOk
  <2>3. CASE w # view
    <3>1. ShownOk(pg, w)
      BY DEF ViewInv, ViewBase
    <3>2. \A d \in InFlight(pg) : pg.calls[d].view = w => d \in InFlight(qg) /\ qg.calls[d] = pg.calls[d]
      BY <1>7, <2>3 DEF InFlight
    <3>3. qg.asked[w] = pg.asked[w] /\ qg.overlapped[w] = pg.overlapped[w] /\ qg.shown[w] = pg.shown[w]
      BY <1>3, <2>3
    <3>. QED BY <3>1, <3>2, <3>3 DEF ShownOk, IsAsked, IsShown
  <2>. QED BY <2>1, <2>2, <2>3
<1>11. AnswersOk(qg, version)
  BY <1>4, <1>5 DEF AnswersOk, HasVersion
<1>12. ASSUME NEW d \in DOMAIN qg.calls PROVE LoadOk(qg, d)
  <2>1. CASE d \in sent
    BY <1>3, <1>4, <1>5, <1>8, <2>1 DEF LoadOk, HasVersion, IsAsked
  <2>2. CASE d \notin sent
    <3>1. LoadOk(ng, d) /\ qg.calls[d] = ng.calls[d]
      BY <1>5, <2>2
    <3>. QED BY <1>3, <3>1 DEF LoadOk, IsAsked
  <2>. QED BY <2>1, <2>2
<1>13. TasksOk(qg)
  <2>1. ASSUME NEW d \in DOMAIN qg.calls, qg.calls[d].tab = qg.tab, qg.calls[d].step \in {"done", "failed"}
        PROVE  \E e \in InFlight(qg) : e[1] = d[1]
    <3>1. d \notin sent /\ d \in DOMAIN pg.calls /\ qg.calls[d] = ng.calls[d]
      BY <1>4, <1>5, <2>1
    <3>2. CASE d[1] = task
      BY <1>5, <1>6, <1>7, <3>2
    <3>3. CASE d[1] # task
      <4>1. pg.calls[d] = ng.calls[d]
        BY <3>1, <3>3
      <4>2. PICK e \in InFlight(pg) : e[1] = d[1]
        BY <1>3, <2>1, <3>1, <4>1 DEF ViewInv, ViewBase, TasksOk
      <4>. QED BY <1>7, <3>3, <4>2
    <3>. QED BY <3>2, <3>3
  <2>2. \A d \in InFlight(qg) : \/ d[1] = task /\ qg.calls[d].stage = next
                                \/ d[1] # task /\ d \in InFlight(pg) /\ qg.calls[d] = pg.calls[d]
    BY <1>4, <1>5, <1>7 DEF InFlight
  <2>3. \A d, e \in InFlight(qg) : d[1] = e[1] => qg.calls[d].stage = qg.calls[e].stage
    BY <2>2 DEF ViewInv, ViewBase, TasksOk
  <2>. QED BY <2>1, <2>3 DEF TasksOk
<1>14. ListOk(qg)
  BY <1>3 DEF ListOk, IsAsked
<1>15. ViewBase(qg, version)
  <2>1. DOMAIN qg.overlapped = Views /\ qg.decided \in 0..version
    BY <1>3 DEF ViewInv, ViewBase
  <2>. QED BY <1>3, <1>9, <1>10, <1>11, <1>12, <1>13, <2>1 DEF ViewBase
<1>. QED BY <1>14, <1>15 DEF ViewInv, qg

\* The page pg once the call c has been noted in it, on behalf of a view.
Gone(pg, ng, c, view, version) ==
    /\ DOMAIN ng = PageFields /\ ng.shown = pg.shown /\ ng.tab = pg.tab /\ ng.begun = pg.begun
    /\ ng.decided = pg.decided /\ ng.overlapped = pg.overlapped
    /\ DOMAIN ng.calls = DOMAIN pg.calls
    /\ \A d \in DOMAIN pg.calls \ {c} : ng.calls[d] = pg.calls[d]
    /\ InFlight(ng) = InFlight(pg) \ {c}
    /\ DOMAIN ng.asked = Views
    /\ \A w \in Views \ {view} : ng.asked[w] = pg.asked[w]
    /\ \A w \in Views : AskedOk(ng, w, version)
    /\ AnswersOk(ng, version)
    /\ \A d \in DOMAIN ng.calls : LoadOk(ng, d)
    /\ ListOk(ng)

\* The page ng once the view has been rendered in it.
Filled(ng, rg, view) ==
    /\ DOMAIN rg = PageFields /\ DOMAIN rg.shown = Panes
    /\ \A f \in PageFields \ {"shown"} : rg[f] = ng[f]
    /\ \A w \in Views \ {view} : rg.shown[w] = ng.shown[w]
    /\ IsAsked(ng, view) /\ ~ng.overlapped[view] => IsShown(rg, view)

\* A stage is complete, and it is the last: the task is forgotten.
LEMMA LastStageShows ==
    ASSUME NEW pg, PageInv(pg), NEW version \in Nat \ {0}, ViewInv(pg, version), NEW c \in InFlight(pg),
           NEW view \in Views, pg.calls[c].view = view,
           NEW ng, Gone(pg, ng, c, view, version), NEW rg, Filled(ng, rg, view)
    PROVE  ViewInv(Forget(rg, c[1]), version)
<1>. USE DEF Gone, Filled
<1> DEFINE task == c[1]
           qg == Forget(rg, task)
<1>1. /\ rg.calls = ng.calls /\ rg.tab = pg.tab /\ rg.begun = pg.begun /\ rg.decided = pg.decided
      /\ rg.asked = ng.asked /\ rg.overlapped = pg.overlapped
  BY Fields
<1>2. /\ DOMAIN qg = PageFields
      /\ qg.calls = [d \in {d \in DOMAIN pg.calls : d[1] # task} |-> ng.calls[d]]
      /\ \A f \in PageFields \ {"calls"} : qg[f] = rg[f]
  BY <1>1, Fields DEF Forget
<1>. HIDE DEF qg
<1>3. /\ qg.shown = rg.shown /\ qg.decided = pg.decided /\ qg.tab = pg.tab /\ qg.begun = pg.begun
      /\ qg.asked = ng.asked /\ qg.overlapped = pg.overlapped
  BY <1>1, <1>2, Fields
<1>4. /\ DOMAIN qg.calls = {d \in DOMAIN pg.calls : d[1] # task}
      /\ \A d \in DOMAIN qg.calls : qg.calls[d] = pg.calls[d] /\ qg.calls[d] = ng.calls[d]
  BY <1>2
<1>5. \A d : d \in InFlight(qg) <=> d \in InFlight(pg) /\ d[1] # task
  BY <1>3, <1>4 DEF InFlight
<1>6. ASSUME NEW w \in Views PROVE AskedOk(qg, w, version)
  <2>1. AskedOk(ng, w, version)
    OBVIOUS
  <2>. QED BY <1>3, <2>1 DEF AskedOk, IsAsked
<1>7. ASSUME NEW w \in Views PROVE ShownOk(qg, w)
  <2>1. CASE w = view
    BY <1>1, <1>3, <2>1 DEF ShownOk, IsAsked, IsShown
  <2>2. CASE w # view
    <3>1. ShownOk(pg, w)
      BY DEF ViewInv, ViewBase
    <3>2. ASSUME NEW d \in InFlight(pg), pg.calls[d].view = w
          PROVE  d \in InFlight(qg) /\ qg.calls[d] = pg.calls[d]
      <4>1. d[1] # task
        BY <2>2, <3>2 DEF PageInv, SameTask, InFlight
      <4>. QED BY <1>4, <1>5, <4>1 DEF InFlight
    <3>3. qg.asked[w] = pg.asked[w] /\ qg.overlapped[w] = pg.overlapped[w] /\ qg.shown[w] = pg.shown[w]
      BY <1>3, <2>2
    <3>. QED BY <3>1, <3>2, <3>3 DEF ShownOk, IsAsked, IsShown
  <2>. QED BY <2>1, <2>2
<1>8. AnswersOk(qg, version)
  BY <1>4 DEF AnswersOk, HasVersion
<1>9. ASSUME NEW d \in DOMAIN qg.calls PROVE LoadOk(qg, d)
  <2>1. LoadOk(ng, d) /\ qg.calls[d] = ng.calls[d]
    BY <1>4
  <2>. QED BY <1>3, <2>1 DEF LoadOk, IsAsked
<1>10. TasksOk(qg)
  <2>1. ASSUME NEW d \in DOMAIN qg.calls, qg.calls[d].tab = qg.tab, qg.calls[d].step \in {"done", "failed"}
        PROVE  \E e \in InFlight(qg) : e[1] = d[1]
    <3>1. d \in DOMAIN pg.calls /\ d[1] # task /\ qg.calls[d] = pg.calls[d]
      BY <1>4
    <3>2. PICK e \in InFlight(pg) : e[1] = d[1]
      BY <1>3, <2>1, <3>1 DEF ViewInv, ViewBase, TasksOk
    <3>. QED BY <1>5, <3>1, <3>2
  <2>2. \A d, e \in InFlight(qg) : d[1] = e[1] => qg.calls[d].stage = qg.calls[e].stage
    <3>1. \A d \in InFlight(qg) : d \in InFlight(pg) /\ qg.calls[d] = pg.calls[d]
      BY <1>4, <1>5 DEF InFlight
    <3>. QED BY <3>1 DEF ViewInv, ViewBase, TasksOk
  <2>. QED BY <2>1, <2>2 DEF TasksOk
<1>11. ListOk(qg)
  BY <1>3 DEF ListOk, IsAsked
<1>12. ViewBase(qg, version)
  <2>1. DOMAIN qg.overlapped = Views /\ qg.decided \in 0..version
    BY <1>3 DEF ViewInv, ViewBase
  <2>. QED BY <1>3, <1>6, <1>7, <1>8, <1>9, <1>10, <2>1 DEF ViewBase
<1>. QED BY <1>11, <1>12 DEF ViewInv, qg

\* A view has one stage or two.
LEMMA StagesOk ==
    ASSUME NEW view \in Views
    PROVE  /\ DOMAIN Stages[view] = 1..Len(Stages[view])
           /\ Len(Stages[view]) = (IF view \in {"ipgeo", "integrity"} THEN 2 ELSE 1)
<1>1. CASE view \in {"ipgeo", "integrity"}
  <2>1. \E a, b : Stages[view] = <<a, b>>
    BY <1>1 DEF Stages
  <2>2. PICK a, b : Stages[view] = <<a, b>>
    BY <2>1
  <2>3. DOMAIN <<a, b>> = 1..2 /\ Len(<<a, b>>) = 2
    OBVIOUS
  <2>. QED BY <1>1, <2>2, <2>3
<1>2. CASE view \notin {"ipgeo", "integrity"}
  <2>1. \E a : Stages[view] = <<a>>
    BY <1>2 DEF Stages, Views
  <2>2. PICK a : Stages[view] = <<a>>
    BY <2>1
  <2>3. DOMAIN <<a>> = 1..1 /\ Len(<<a>>) = 1
    OBVIOUS
  <2>. QED BY <1>2, <2>2, <2>3
<1>. QED BY <1>1, <1>2

\* A call is settled.
LEMMA SettleShows ==
    ASSUME NEW pg, PageInv(pg), db.version \in Nat \ {0}, ViewInv(pg, db.version), NEW c \in InFlight(pg),
           pg.calls[c].step \notin {"login", "logout"}, NEW answer, answer.status \in Statuses \ {"pending"},
           answer.status = "200" => HasVersion(pg.calls[c]) /\ answer = pg.calls[c].answer
    PROVE  ViewInv(Settle(pg, c, answer), db.version)
<1> DEFINE call == pg.calls[c]
           view == call.view
           task == c[1]
           step == IF answer.status = "200" THEN "done" ELSE "failed"
           settled == Ended(pg, c, step, answer)
           mine == {d \in DOMAIN settled.calls : d[1] = task}
           got == [path \in {d[2] : d \in mine} |-> settled.calls[<<task, path>>].answer]
           complete == mine \cap InFlight(settled) = {}
           ng == Noted(pg, c, answer)
           rg == Render(ng, view, call.stage, got, call.body)
<1>1. Settle(pg, c, answer) =
        IF view = "decide" THEN AfterDecision(Forget(settled, task), answer)
        ELSE IF ~complete THEN ng
        ELSE IF call.stage < Len(Stages[view])
             THEN SendStage(rg, task, view, call.stage + 1, call.body)
             ELSE Forget(rg, task)
  BY DEF Settle, Ended, Noted
<1>2. /\ c \in DOMAIN pg.calls /\ call.tab = pg.tab /\ view \in DOMAIN Stages
      /\ call.stage \in DOMAIN Stages[view] /\ c[2] \in Stages[view][call.stage]
      /\ c = <<task, c[2]>> /\ call.step \notin {"done", "failed"} /\ task # 0
  BY DEF InFlight, PageInv, CallOk
<1>3. step \in {"done", "failed"}
  OBVIOUS
<1>4. /\ PageInv(settled) /\ SameSession(pg, settled) /\ settled.begun = pg.begun
      /\ DOMAIN settled.calls = DOMAIN pg.calls
      /\ \A d \in DOMAIN pg.calls \ {c} : settled.calls[d] = pg.calls[d]
      /\ settled.calls[c].step = step /\ settled.calls[c].answer = answer
      /\ settled.calls[c].tab = pg.tab
  <2>. HIDE DEF step
  <2>1. settled = Ended(pg, c, step, answer)
    OBVIOUS
  <2>. HIDE DEF settled
  <2>. QED BY <1>2, <1>3, <2>1, EndedOk
<1>. HIDE DEF step
<1>5. InFlight(settled) = InFlight(pg) \ {c}
  BY <1>3, <1>4 DEF InFlight, SameSession
<1>6. /\ DOMAIN settled = PageFields
      /\ \A f \in PageFields \ {"calls"} : settled[f] = pg[f]
  BY Fields DEF PageInv, Ended
<1>. HIDE DEF settled
<1>7. CASE view = "decide"
  <2> DEFINE fg == Forget(settled, task)
  <2>1. \A d \in DOMAIN pg.calls : d[1] = task => d = c
    BY <1>2, <1>7 DEF PageInv, CallOk, SameTask, Stages
  <2>2. /\ PageInv(fg)
        /\ DOMAIN fg.calls = DOMAIN pg.calls \ {c}
        /\ \A d \in DOMAIN fg.calls : fg.calls[d] = pg.calls[d]
    BY <1>4, <2>1, ForgetOk
  <2>3. DOMAIN fg = PageFields /\ \A f \in PageFields \ {"calls"} : fg[f] = pg[f]
    BY <1>6, Fields DEF Forget
  <2>. HIDE DEF fg
  <2>4. /\ fg.asked = pg.asked /\ fg.overlapped = pg.overlapped /\ fg.shown = pg.shown
        /\ fg.decided = pg.decided /\ fg.tab = pg.tab /\ fg.begun = pg.begun /\ pg.begun \in Nat
    BY <2>3, Fields DEF PageInv
  <2>5. Continues(pg, fg, db.version)
    <3>1. fg.begun >= pg.begun
      BY <2>4
    <3>2. \A d \in InFlight(pg) : d = c \/ d \in InFlight(fg)
      BY <2>2, <2>4 DEF InFlight
    <3>3. pg.calls[c].view \notin Views /\ \A d \in DOMAIN fg.calls : d[1] # c[1]
      BY <1>7, <2>1, <2>2 DEF Views
    <3>. QED BY <2>2, <2>4, <3>1, <3>2, <3>3 DEF Continues
  <2>6. ViewBase(fg, db.version) /\ ListOk(fg)
    BY <2>2, <2>5, ContinuesKeeps DEF ViewInv
  <2>7. CASE answer.status = "200"
    <3> DEFINE dg == [fg EXCEPT !.decided = answer.version]
    <3>1. DOMAIN dg = PageFields /\ dg.decided = answer.version
          /\ \A f \in PageFields \ {"decided"} : dg[f] = fg[f]
      BY <2>3, Fields
    <3>2. AfterDecision(fg, answer) = LoadView(dg, "users", Null)
      BY <2>7 DEF AfterDecision, Reload
    <3>. HIDE DEF dg
    <3>3. /\ dg.asked = fg.asked /\ dg.overlapped = fg.overlapped /\ dg.shown = fg.shown
          /\ dg.calls = fg.calls /\ dg.tab = fg.tab /\ dg.begun = fg.begun
      BY <3>1, Fields
    <3>4. PageInv(dg)
      <4>1. OnlyShows(fg, dg)
        BY <3>1 DEF OnlyShows
      <4>. QED BY <2>2, <4>1, OnlyShowsOk
    <3>5. answer.version \in 0..db.version
      BY <1>2, <2>7 DEF ViewInv, ViewBase, AnswersOk
    <3>6. ViewBase(dg, db.version)
      <4>1. \A w \in Views : AskedOk(dg, w, db.version) /\ ShownOk(dg, w)
        BY <2>6, <3>3 DEF ViewBase, AskedOk, ShownOk, IsAsked, IsShown, InFlight
      <4>2. AnswersOk(dg, db.version) /\ TasksOk(dg)
        BY <2>6, <3>3 DEF ViewBase, AnswersOk, TasksOk, InFlight
      <4>3. \A d \in DOMAIN dg.calls : LoadOk(dg, d)
        BY <2>6, <3>3 DEF ViewBase, LoadOk, IsAsked
      <4>. QED BY <2>6, <3>1, <3>3, <3>5, <4>1, <4>2, <4>3 DEF ViewBase
    <3>7. "users" \in Views
      BY DEF Views, Stages
    <3>8. ViewInv(LoadView(dg, "users", Null), db.version)
      BY <3>4, <3>6, <3>7, LoadViewShows
    <3>. QED BY <1>1, <1>7, <3>2, <3>8 DEF fg
  <2>8. CASE answer.status # "200"
    BY <1>1, <1>7, <2>6, <2>8 DEF AfterDecision, fg, ViewInv
  <2>. QED BY <2>7, <2>8
<1>8. CASE view # "decide"
  <2>1. view \in Views
    BY <1>2, <1>8 DEF Views
  <2>2. /\ DOMAIN ng = PageFields /\ ng.shown = pg.shown /\ ng.tab = pg.tab /\ ng.begun = pg.begun
        /\ ng.decided = pg.decided /\ ng.overlapped = pg.overlapped
        /\ DOMAIN ng.calls = DOMAIN pg.calls
        /\ \A d \in DOMAIN pg.calls \ {c} : ng.calls[d] = pg.calls[d]
        /\ ng.calls[c].step \in {"done", "failed"} /\ ng.calls[c].answer = answer
        /\ ng.calls[c].tab = pg.tab /\ ng.calls[c].view = view
        /\ InFlight(ng) = InFlight(pg) \ {c}
        /\ DOMAIN ng.asked = Views
        /\ \A w \in Views \ {view} : ng.asked[w] = pg.asked[w]
        /\ ng.asked[view] \in {pg.asked[view], NotAsked}
        /\ \A w \in Views : AskedOk(ng, w, db.version)
        /\ AnswersOk(ng, db.version)
        /\ \A d \in DOMAIN ng.calls : LoadOk(ng, d)
        /\ ListOk(ng)
    <3>1. db.version \in Nat
      OBVIOUS
    <3>. QED BY <2>1, <3>1, NotedOk
  <2>. HIDE DEF ng
  <2>3. CASE ~complete
    <3>1. PICK e \in InFlight(pg) : e # c /\ e[1] = task
      BY <1>5, <2>3
    <3>2. pg.calls[e].view = view /\ pg.calls[e].stage = call.stage
      BY <1>2, <3>1 DEF PageInv, SameTask, InFlight, ViewInv, ViewBase, TasksOk
    <3>3. e \in InFlight(ng) /\ ng.calls[e] = pg.calls[e]
      BY <2>2, <3>1 DEF InFlight
    <3>4. ASSUME NEW w \in Views PROVE ShownOk(ng, w)
      <4>1. ShownOk(pg, w)
        BY DEF ViewInv, ViewBase
      <4>2. \A d \in InFlight(pg) : d # c => d \in InFlight(ng) /\ ng.calls[d] = pg.calls[d]
        BY <2>2 DEF InFlight
      <4>3. IsAsked(ng, w) => ng.asked[w] = pg.asked[w]
        BY <2>2 DEF IsAsked
      <4>. QED BY <2>2, <3>2, <3>3, <4>1, <4>2, <4>3 DEF ShownOk, IsAsked, IsShown
    <3>5. TasksOk(ng)
      <4>1. ASSUME NEW d \in DOMAIN ng.calls, ng.calls[d].tab = ng.tab, ng.calls[d].step \in {"done", "failed"}
            PROVE  \E b \in InFlight(ng) : b[1] = d[1]
        <5>1. CASE d[1] = task
          BY <3>1, <3>3, <5>1
        <5>2. CASE d[1] # task
          <6>1. d \in DOMAIN pg.calls /\ ng.calls[d] = pg.calls[d]
            BY <2>2, <5>2
          <6>2. PICK b \in InFlight(pg) : b[1] = d[1]
            BY <2>2, <4>1, <6>1 DEF ViewInv, ViewBase, TasksOk
          <6>. QED BY <2>2, <5>2, <6>2
        <5>. QED BY <5>1, <5>2
      <4>2. \A d \in InFlight(ng) : d \in InFlight(pg) /\ ng.calls[d] = pg.calls[d]
        BY <2>2 DEF InFlight
      <4>. QED BY <4>1, <4>2 DEF ViewInv, ViewBase, TasksOk
    <3>6. DOMAIN ng.overlapped = Views /\ DOMAIN ng.shown = Panes /\ ng.decided \in 0..db.version
      BY <2>2 DEF ViewInv, ViewBase
    <3>7. ViewInv(ng, db.version)
      BY <2>2, <3>4, <3>5, <3>6 DEF ViewInv, ViewBase
    <3>. QED BY <1>1, <1>8, <2>3, <3>7
  <2>4. CASE complete
    <3>1. \A d \in InFlight(pg) : d # c => d[1] # task
      BY <1>4, <1>5, <2>4 DEF InFlight
    <3>2. DOMAIN ng.shown = Panes
      BY <2>2 DEF ViewInv, ViewBase
    <3>3. /\ DOMAIN rg = PageFields /\ DOMAIN rg.shown = Panes
          /\ \A f \in PageFields \ {"shown"} : rg[f] = ng[f]
          /\ \A w \in Views \ {view} : rg.shown[w] = ng.shown[w]
          /\ view = "ipgeo" /\ call.stage # 1 => rg.shown[view] = ng.shown[view]
      <4>1. view \in Views /\ DOMAIN ng = PageFields /\ DOMAIN ng.shown = Panes
        BY <2>1, <2>2, <3>2
      <4>. HIDE DEF got, view, call
      <4>. QED BY ONLY <4>1, RenderOthers
    <3>4. rg.asked = ng.asked
      BY <3>3, Fields
    <3>5. ASSUME IsAsked(ng, view), ~ng.overlapped[view], view = "ipgeo" => call.stage = 1,
                 view = "integrity" => call.stage # 1
          PROVE  IsShown(rg, view)
      <4>1. ng.asked[view] = pg.asked[view] /\ pg.asked[view].task = task
        <5>1. ng.asked[view] = pg.asked[view]
          BY <2>2, <3>5 DEF IsAsked
        <5>2. LoadOk(pg, c)
          BY <1>2 DEF ViewInv, ViewBase
        <5>. QED BY <1>2, <2>1, <2>2, <3>5, <5>1, <5>2 DEF LoadOk, IsAsked
      <4>2. call.body = ng.asked[view].days
        BY <1>2, <2>1, <4>1 DEF ViewInv, ViewBase, LoadOk
      <4>3. ASSUME NEW d \in mine
            PROVE  /\ settled.calls[d].answer.status = "200"
                   /\ settled.calls[d].answer.version \in Nat
                   /\ settled.calls[d].answer.version >= ng.asked[view].version
                   /\ d = <<task, d[2]>>
        <5>1. d \in DOMAIN pg.calls /\ d[1] = task /\ d = <<d[1], d[2]>>
          BY <1>4 DEF PageInv, CallOk
        <5>2. pg.calls[d].view = view /\ pg.calls[d].tab = pg.tab
          BY <1>2, <5>1 DEF PageInv, SameTask
        <5>3. ng.calls[d].view = view /\ ng.calls[d].tab = pg.tab /\ ng.calls[d].step \in {"done", "failed"}
          <6>1. CASE d = c
            BY <2>2, <6>1
          <6>2. CASE d # c
            BY <2>2, <3>1, <5>1, <5>2, <6>2 DEF InFlight
          <6>. QED BY <6>1, <6>2
        <5>4. LoadOk(ng, d)
          BY <2>2, <5>1
        <5>5. ng.calls[d].step = "done"
          BY <2>1, <2>2, <4>1, <5>1, <5>3, <5>4 DEF LoadOk
        <5>6. ng.calls[d].answer.status = "200" /\ HasVersion(ng.calls[d])
          BY <2>2, <5>1, <5>5 DEF AnswersOk, HasVersion
        <5>7. ng.calls[d].answer.version \in 0..db.version
          BY <2>2, <5>1, <5>6 DEF AnswersOk
        <5>8. ng.calls[d].answer.version >= ng.asked[view].version
          BY <2>1, <2>2, <4>1, <5>1, <5>3, <5>4, <5>6 DEF LoadOk
        <5>9. settled.calls[d].answer = ng.calls[d].answer
          BY <1>4, <2>2, <5>1
        <5>. QED BY <5>1, <5>6, <5>7, <5>8, <5>9
      <4>4. c \in mine /\ c[2] \in DOMAIN got
        BY <1>2, <1>4
      <4>5. \A path \in DOMAIN got : \E d \in mine : got[path] = settled.calls[d].answer
        <5>1. \A d \in mine : d = <<task, d[2]>>
          BY <4>3
        <5>. QED BY <5>1
      <4>6. \A path \in DOMAIN got : /\ got[path].status = "200" /\ got[path].version \in Nat
                                     /\ got[path].version >= ng.asked[view].version
        <5>. HIDE DEF mine, got
        <5>. QED BY <4>3, <4>5
      <4>7. view = "ipgeo" => c[2] = "devices"
        BY <1>2, <3>5 DEF Stages
      <4>8. ng.asked[view].version \in Nat \ {0}
        <5>1. AskedOk(ng, view, db.version)
          BY <2>1, <2>2
        <5>. QED BY <3>5, <5>1 DEF AskedOk
      <4>9. DOMAIN got # {} /\ ("devices" \in DOMAIN got \/ view # "ipgeo")
        BY <4>4, <4>7
      <4>. HIDE DEF got
      <4>10. LET shown == rg.shown[view]
             IN  /\ shown # NothingShown /\ shown.days = call.body
                 /\ shown.version \in Nat /\ shown.version >= ng.asked[view].version
        <5>1. /\ view \in Views /\ DOMAIN ng = PageFields /\ DOMAIN ng.shown = Panes
              /\ view = "ipgeo" => call.stage = 1
              /\ view = "integrity" => call.stage # 1
          BY <2>1, <2>2, <3>2, <3>5
        <5>. HIDE DEF view, call
        <5>. QED BY ONLY <4>6, <4>8, <4>9, <5>1, RenderFills
      <4>. QED BY <3>4, <4>2, <4>10 DEF IsShown
    <3>. HIDE DEF rg, got, mine
    <3>6. CASE call.stage < Len(Stages[view])
      <4>1. call.stage + 1 \in DOMAIN Stages[view] /\ call.stage = 1
        BY <1>2, <2>1, <3>6, StagesOk
      <4>2. view = "ipgeo" /\ IsAsked(ng, view) /\ ~ng.overlapped[view] => IsShown(rg, view)
        BY <3>5, <4>1
      <4>3. \A d \in InFlight(ng) : d[1] # task
        BY <2>2, <3>1
      <4>4. ViewInv(SendStage(rg, task, view, call.stage + 1, call.body), db.version)
        BY <2>1, <2>2, <3>3, <4>1, <4>2, <4>3, NextStageShows
      <4>. QED BY <1>1, <1>8, <2>4, <3>6, <4>4
    <3>7. CASE ~(call.stage < Len(Stages[view]))
      <4>1. view \in {"integrity", "ipgeo"} => call.stage = 2
        BY <1>2, <2>1, <3>7, StagesOk
      <4>2. ASSUME IsAsked(ng, view), ~ng.overlapped[view] PROVE IsShown(rg, view)
        <5>1. CASE view = "ipgeo"
          <6>1. ng.asked[view] = pg.asked[view]
            BY <2>2, <4>2 DEF IsAsked
          <6>2. ShownOk(pg, view) /\ LoadOk(pg, c)
            BY <1>2, <2>1 DEF ViewInv, ViewBase
          <6>3. pg.asked[view].task = task /\ IsAsked(pg, view) /\ ~pg.overlapped[view]
            BY <1>2, <2>1, <2>2, <4>2, <6>1, <6>2 DEF LoadOk, IsAsked
          <6>4. ASSUME NEW d \in InFlight(pg), pg.calls[d].view = view PROVE pg.calls[d].stage # 1
            <7>1. LoadOk(pg, d) /\ pg.calls[d].tab = pg.tab
              BY DEF ViewInv, ViewBase, InFlight
            <7>2. d[1] = task
              BY <2>1, <6>3, <6>4, <7>1 DEF LoadOk
            <7>. QED BY <3>1, <4>1, <5>1, <7>2
          <6>5. IsShown(pg, view)
            BY <5>1, <6>2, <6>3, <6>4 DEF ShownOk
          <6>. QED BY <2>2, <3>3, <3>4, <4>1, <5>1, <6>1, <6>5 DEF IsShown
        <5>2. CASE view # "ipgeo"
          BY <3>5, <4>1, <4>2, <5>2
        <5>. QED BY <5>1, <5>2
      <4>3. ViewInv(Forget(rg, task), db.version)
        <5>1. db.version \in Nat \ {0} /\ pg.calls[c].view = view
          OBVIOUS
        <5>. HIDE DEF call, view
        <5>2. IsAsked(ng, view) /\ ~ng.overlapped[view] => IsShown(rg, view)
          BY <4>2
        <5>3. \A w \in Views \ {view} : rg.shown[w] = ng.shown[w]
          BY <3>3
        <5>4. DOMAIN rg = PageFields /\ DOMAIN rg.shown = Panes
              /\ \A f \in PageFields \ {"shown"} : rg[f] = ng[f]
          BY <3>3
        <5>5. Gone(pg, ng, c, view, db.version)
          BY ONLY <2>2 DEF Gone
        <5>6. Filled(ng, rg, view)
          BY ONLY <5>2, <5>3, <5>4 DEF Filled
        <5>7. PageInv(pg) /\ ViewInv(pg, db.version) /\ c \in InFlight(pg)
          OBVIOUS
        <5>. HIDE DEF ng, task
        <5>8. ViewInv(Forget(rg, c[1]), db.version)
          BY ONLY <2>1, <5>1, <5>5, <5>6, <5>7, LastStageShows
        <5>. QED BY ONLY <5>8 DEF task
      <4>. QED BY <1>1, <1>8, <2>4, <3>7, <4>3
    <3>. QED BY <3>6, <3>7
  <2>. QED BY <2>3, <2>4
<1>. QED BY <1>7, <1>8

----------------------------------------------------------------------------
(* What the views show is kept by every step. *)

\* Only what is of the session changes.
SameViews(pg, qg) ==
    /\ DOMAIN qg = PageFields
    /\ qg.asked = pg.asked /\ qg.overlapped = pg.overlapped /\ qg.shown = pg.shown
    /\ qg.decided = pg.decided /\ qg.tab = pg.tab /\ qg.begun = pg.begun /\ qg.calls = pg.calls

\* So the views show what they did.
LEMMA SameViewsShow ==
    ASSUME NEW pg, NEW qg, PageInv(pg), SameViews(pg, qg), NEW version
    PROVE  /\ ViewInv(pg, version) => ViewInv(qg, version)
           /\ InFlight(qg) = InFlight(pg)
           /\ qg.screen \in {"login", "app"} /\ qg.access \in Tokens /\ qg.refresh \in Tokens
              /\ qg.raced \in BOOLEAN /\ qg.lost \in BOOLEAN /\ qg.crossed \in BOOLEAN => PageInv(qg)
<1>1. InFlight(qg) = InFlight(pg)
  BY DEF SameViews, InFlight
<1>2. ASSUME ViewInv(pg, version) PROVE ViewInv(qg, version)
  <2>1. \A w \in Views : AskedOk(qg, w, version) /\ ShownOk(qg, w)
    BY <1>1, <1>2 DEF SameViews, ViewInv, ViewBase, AskedOk, ShownOk, IsAsked, IsShown
  <2>2. AnswersOk(qg, version) /\ TasksOk(qg)
    BY <1>1, <1>2 DEF SameViews, ViewInv, ViewBase, AnswersOk, TasksOk
  <2>3. \A d \in DOMAIN qg.calls : LoadOk(qg, d)
    BY <1>2 DEF SameViews, ViewInv, ViewBase, LoadOk, IsAsked
  <2>. QED BY <1>2, <2>1, <2>2, <2>3 DEF SameViews, ViewInv, ViewBase, ListOk, IsAsked
<1>3. ASSUME qg.screen \in {"login", "app"}, qg.access \in Tokens, qg.refresh \in Tokens,
             qg.raced \in BOOLEAN, qg.lost \in BOOLEAN, qg.crossed \in BOOLEAN
      PROVE  PageInv(qg)
  <2>1. \A d \in DOMAIN qg.calls : CallOk(qg, d)
    BY DEF SameViews, PageInv, CallOk
  <2>2. \A d, e \in DOMAIN qg.calls : d[1] = e[1] => SameTask(qg, d, e)
    BY DEF SameViews, PageInv, SameTask
  <2>. QED BY <1>3, <2>1, <2>2 DEF SameViews, PageInv
<1>. QED BY <1>1, <1>2, <1>3

\* The calls go on, and the views show what they did.
LEMMA ContinuesShow ==
    ASSUME NEW pg, NEW qg, NEW v \in Nat, NEW w \in Nat, v <= w, PageInv(pg), PageInv(qg),
           ViewInv(pg, v), Continues(pg, qg, w)
    PROVE  ViewInv(qg, w)
BY ContinuesKeeps DEF ViewInv

\* A session ends.
LEMMA EndedShows ==
    ASSUME NEW pg, PageInv(pg), NEW c
    PROVE  SameViews(pg, EndSession(pg, c)) /\ PageInv(EndSession(pg, c))
<1> DEFINE eg == EndSession(pg, c)
<1>1. /\ DOMAIN eg = PageFields /\ eg.access = NoToken /\ eg.refresh = NoToken /\ eg.screen = "login"
      /\ eg.crossed = (pg.crossed \/ AtStep(pg, {"refresh"}) \ {c} # {})
      /\ \A f \in PageFields \ {"access", "refresh", "email", "screen", "crossed"} : eg[f] = pg[f]
  BY Fields DEF PageInv, EndSession, ClearSession
<1>. HIDE DEF eg
<1>2. SameViews(pg, eg)
  BY <1>1, Fields DEF SameViews
<1>3. eg.raced = pg.raced /\ eg.lost = pg.lost /\ eg.crossed \in BOOLEAN /\ NoToken \in Tokens
  BY <1>1, Fields DEF NoToken, Tokens
<1>. QED BY <1>1, <1>2, <1>3, SameViewsShow DEF PageInv, eg

\* And is given up.
LEMMA ExpiredShows ==
    ASSUME NEW pg, PageInv(pg), NEW c
    PROVE  SameViews(pg, SessionExpired(pg, c)) /\ PageInv(SessionExpired(pg, c))
<1> DEFINE eg == EndSession(pg, c)
           xg == SessionExpired(pg, c)
<1>1. SameViews(pg, eg) /\ PageInv(eg)
  BY EndedShows
<1>. HIDE DEF eg
<1>2. DOMAIN xg = PageFields /\ \A f \in PageFields \ {"givenUp"} : xg[f] = eg[f]
  BY <1>1, Fields DEF SessionExpired, eg, PageInv
<1>. HIDE DEF xg
<1>3. SameViews(eg, xg) /\ SameViews(pg, xg)
  BY <1>1, <1>2, Fields DEF SameViews
<1>4. /\ xg.screen = eg.screen /\ xg.access = eg.access /\ xg.refresh = eg.refresh
      /\ xg.raced = eg.raced /\ xg.lost = eg.lost /\ xg.crossed = eg.crossed
  BY <1>2, Fields
<1>. QED BY <1>1, <1>3, <1>4, SameViewsShow DEF PageInv, xg

\* A view is shown by loading it, but for the tracer.
LEMMA ShowViewShows ==
    ASSUME NEW pg, PageInv(pg), db.version \in Nat \ {0}, ViewInv(pg, db.version), NEW view \in Views
    PROVE  ViewInv(ShowView(pg, view), db.version)
<1> DEFINE turned == [pg EXCEPT !.view = view]
<1>1. DOMAIN turned = PageFields /\ \A f \in PageFields \ {"view"} : turned[f] = pg[f]
  BY Fields DEF PageInv
<1>2. ShowView(pg, view) = IF view = "tracer" THEN turned ELSE LoadView(turned, view, WindowOf(pg, view))
  BY DEF ShowView
<1>. HIDE DEF turned
<1>3. SameViews(pg, turned)
  BY <1>1, Fields DEF SameViews
<1>4. PageInv(turned) /\ ViewInv(turned, db.version)
  <2>1. /\ turned.screen = pg.screen /\ turned.access = pg.access /\ turned.refresh = pg.refresh
        /\ turned.raced = pg.raced /\ turned.lost = pg.lost /\ turned.crossed = pg.crossed
    BY <1>1, Fields
  <2>. QED BY <1>3, <2>1, SameViewsShow DEF PageInv
<1>5. ViewInv(LoadView(turned, view, WindowOf(pg, view)), db.version)
  BY <1>4, LoadViewShows DEF ViewInv
<1>. QED BY <1>2, <1>4, <1>5

\* A call goes out again.
LEMMA AgainShows ==
    ASSUME NEW pg, PageInv(pg), NEW version \in Nat, ViewInv(pg, version), NEW c \in InFlight(pg),
           pg.calls[c].step \notin {"login", "logout"},
           NEW step \in {"refresh", "second"}, NEW token \in Tokens
    PROVE  /\ ViewInv(Again(pg, c, step, token), version)
           /\ PageInv(Again(pg, c, step, token))
<1> DEFINE qg == Again(pg, c, step, token)
           call == [pg.calls[c] EXCEPT !.step = step, !.token = token, !.answer = Pending]
<1>1. c \in DOMAIN pg.calls /\ pg.calls[c].tab = pg.tab /\ pg.calls[c].step \notin {"done", "failed"}
      /\ DOMAIN pg.calls[c] = CallFields
  BY DEF InFlight, PageInv, CallOk
<1>2. PageInv(qg)
  BY <1>1, AgainOk
<1>3. /\ DOMAIN qg = PageFields
      /\ qg.calls = [pg.calls EXCEPT ![c] = call]
      /\ \A f \in PageFields \ {"calls"} : qg[f] = pg[f]
  BY Fields DEF PageInv, Again
<1>4. /\ call.view = pg.calls[c].view /\ call.stage = pg.calls[c].stage /\ call.body = pg.calls[c].body
      /\ call.tab = pg.calls[c].tab /\ call.step = step /\ call.answer = Pending
  BY <1>1 DEF CallFields
<1>. HIDE DEF qg, call
<1>5. /\ qg.asked = pg.asked /\ qg.overlapped = pg.overlapped /\ qg.shown = pg.shown
      /\ qg.decided = pg.decided /\ qg.tab = pg.tab /\ qg.begun = pg.begun /\ pg.begun \in Nat
  BY <1>3, Fields DEF PageInv
<1>6. /\ DOMAIN qg.calls = DOMAIN pg.calls /\ qg.calls[c] = call
      /\ \A d \in DOMAIN pg.calls : d # c => qg.calls[d] = pg.calls[d]
  BY <1>1, <1>3
<1>7. Pending.status = "pending"
  BY DEF Pending
<1>8. Continues(pg, qg, version)
  <2>1. ~HasVersion(call)
    BY <1>4, <1>7 DEF HasVersion
  <2>2. \A d \in InFlight(pg) : d \in InFlight(qg)
    BY <1>1, <1>4, <1>5, <1>6 DEF InFlight
  <2>3. qg.begun >= pg.begun
    BY <1>5
  <2>. QED BY <1>1, <1>4, <1>5, <1>6, <2>1, <2>2, <2>3 DEF Continues
<1>9. version <= version
  OBVIOUS
<1>. QED BY <1>2, <1>8, <1>9, ContinuesShow DEF qg

\* The task of a sign-in or a sign-out is forgotten.
LEMMA ForgetShows ==
    ASSUME NEW pg, PageInv(pg), NEW version \in Nat, ViewInv(pg, version), NEW c \in DOMAIN pg.calls,
           pg.calls[c].step \in {"login", "logout"}
    PROVE  ViewInv(Forget(pg, c[1]), version) /\ PageInv(Forget(pg, c[1]))
<1> DEFINE qg == Forget(pg, c[1])
<1>1. /\ PageInv(qg) /\ DOMAIN qg = PageFields
      /\ DOMAIN qg.calls = {d \in DOMAIN pg.calls : d[1] # c[1]}
      /\ \A d \in DOMAIN qg.calls : qg.calls[d] = pg.calls[d]
  BY ForgetOk DEF PageInv
<1>2. \A f \in PageFields \ {"calls"} : qg[f] = pg[f]
  BY Fields DEF PageInv, Forget
<1>. HIDE DEF qg
<1>3. /\ qg.asked = pg.asked /\ qg.overlapped = pg.overlapped /\ qg.shown = pg.shown
      /\ qg.decided = pg.decided /\ qg.tab = pg.tab /\ qg.begun = pg.begun /\ pg.begun \in Nat
  BY <1>2, Fields DEF PageInv
<1>4. Continues(pg, qg, version)
  <2>1. pg.calls[c].view \notin Views
    BY DEF PageInv, CallOk, Views
  <2>2. ASSUME NEW d \in InFlight(pg), d[1] = c[1]
        PROVE  pg.calls[d].view \notin Views /\ \A e \in DOMAIN qg.calls : e[1] # d[1]
    BY <1>1, <2>1, <2>2 DEF PageInv, SameTask, InFlight
  <2>3. \A d \in InFlight(pg) : d[1] # c[1] => d \in InFlight(qg)
    BY <1>1, <1>3 DEF InFlight
  <2>4. qg.begun >= pg.begun
    BY <1>3
  <2>. QED BY <1>1, <1>3, <2>2, <2>3, <2>4 DEF Continues
<1>5. version <= version
  OBVIOUS
<1>. QED BY <1>1, <1>4, <1>5, ContinuesShow DEF qg

\* An answer arrives.
LEMMA FirstAnswerShows ==
    ASSUME NEW pg, PageInv(pg), db.version \in Nat \ {0}, ViewInv(pg, db.version),
           NEW c \in InFlight(pg), pg.calls[c].step = "first",
           NEW answer, answer = pg.calls[c].answer, answer.status \in Statuses \ {"pending"}
    PROVE  ViewInv(FirstAnswer(pg, c, answer), db.version)
<1>1. CASE answer.status = "401" /\ pg.refresh = NoToken
  <2> DEFINE eg == SessionExpired(pg, c)
  <2>1. FirstAnswer(pg, c, answer) = Settle(eg, c, Failed)
    BY <1>1 DEF FirstAnswer, DoTokenRefresh
  <2>2. SameViews(pg, eg) /\ PageInv(eg)
    BY ExpiredShows
  <2>. HIDE DEF eg
  <2>3. ViewInv(eg, db.version) /\ c \in InFlight(eg) /\ eg.calls[c].step = "first"
    BY <2>2, SameViewsShow DEF SameViews
  <2>4. Failed.status = "failed"
    BY DEF Failed
  <2>. QED BY <2>1, <2>2, <2>3, <2>4, SettleShows DEF Statuses
<1>2. CASE answer.status = "401" /\ pg.refresh # NoToken
  <2> DEFINE ag == Again(pg, c, "refresh", pg.refresh)
             qg == [ag EXCEPT !.raced = @ \/ AtStep(pg, {"refresh"}) # {}]
  <2>1. FirstAnswer(pg, c, answer) = qg
    BY <1>2 DEF FirstAnswer, DoTokenRefresh
  <2>2. ViewInv(ag, db.version) /\ PageInv(ag)
    <3>1. pg.refresh \in Tokens /\ "refresh" \in {"refresh", "second"}
      BY DEF PageInv
    <3>. QED BY <3>1, AgainShows
  <2>. HIDE DEF ag
  <2>3. SameViews(ag, qg)
    BY <2>2, Fields DEF SameViews, PageInv
  <2>. QED BY <2>1, <2>2, <2>3, SameViewsShow
<1>3. CASE answer.status # "401"
  BY <1>3, SettleShows DEF FirstAnswer, HasVersion
<1>. QED BY <1>1, <1>2, <1>3

\* The answer to a refresh: the session ends, or the call goes out once more.
LEMMA RefreshAnswerShows ==
    ASSUME NEW pg, NEW fams, Good(pg, fams), db.version \in Nat \ {0}, ViewInv(pg, db.version),
           NEW c \in InFlight(pg), pg.calls[c].step = "refresh",
           NEW answer, answer = pg.calls[c].answer, answer.status \in Statuses \ {"pending"}
    PROVE  ViewInv(RefreshAnswer(pg, c, answer), db.version)
<1>1. PageInv(pg) /\ c \in DOMAIN pg.calls
  BY DEF Good, InFlight
<1>2. CASE answer.status # "200"
  <2> DEFINE eg == SessionExpired(pg, c)
  <2>1. RefreshAnswer(pg, c, answer) = Settle(eg, c, Failed)
    BY <1>2 DEF RefreshAnswer
  <2>2. SameViews(pg, eg) /\ PageInv(eg)
    BY <1>1, ExpiredShows
  <2>. HIDE DEF eg
  <2>3. ViewInv(eg, db.version) /\ c \in InFlight(eg) /\ eg.calls[c].step = "refresh"
    BY <1>1, <2>2, SameViewsShow DEF SameViews
  <2>4. Failed.status = "failed"
    BY DEF Failed
  <2>. QED BY <2>1, <2>2, <2>3, <2>4, SettleShows DEF Statuses
<1>3. CASE answer.status = "200"
  <2> DEFINE stored == StoreTokens(pg, answer)
  <2>1. RefreshAnswer(pg, c, answer) = Again(stored, c, "second", stored.access)
    BY <1>3 DEF RefreshAnswer
  <2>2. /\ DOMAIN stored = PageFields /\ stored.access = answer.access /\ stored.refresh = answer.refresh
        /\ \A f \in PageFields \ {"access", "refresh"} : stored[f] = pg[f]
    BY <1>1, Fields DEF PageInv, StoreTokens
  <2>. HIDE DEF stored
  <2>3. SameViews(pg, stored)
    BY <2>2, Fields DEF SameViews
  <2>4. answer.access \in Tokens /\ answer.refresh \in Tokens
    BY <1>1, <1>3 DEF Good, GrantInv, GrantOk
  <2>5. PageInv(stored) /\ ViewInv(stored, db.version) /\ InFlight(stored) = InFlight(pg)
    <3>1. /\ stored.screen = pg.screen /\ stored.raced = pg.raced /\ stored.lost = pg.lost
          /\ stored.crossed = pg.crossed
      BY <2>2, Fields
    <3>. QED BY <1>1, <2>2, <2>3, <2>4, <3>1, SameViewsShow DEF PageInv
  <2>6. stored.calls[c].step \notin {"login", "logout"} /\ "second" \in {"refresh", "second"}
    BY <2>3 DEF SameViews
  <2>. QED BY <2>1, <2>2, <2>4, <2>5, <2>6, AgainShows
<1>. QED BY <1>2, <1>3

\* The answer to the second attempt.
LEMMA SecondAnswerShows ==
    ASSUME NEW pg, NEW fams, Good(pg, fams), db.version \in Nat \ {0}, ViewInv(pg, db.version),
           NEW c \in InFlight(pg), pg.calls[c].step = "second",
           NEW answer, answer = pg.calls[c].answer, answer.status \in Statuses \ {"pending"}
    PROVE  ViewInv(SecondAnswer(pg, c, answer), db.version)
<1>1. answer.status # "401"
  BY DEF Good, GrantInv, GrantOk, InFlight
<1>2. SecondAnswer(pg, c, answer) = Settle(pg, c, answer)
  BY <1>1 DEF SecondAnswer
<1>3. answer.status = "200" => HasVersion(pg.calls[c])
  BY DEF HasVersion
<1>. QED BY <1>2, <1>3, SettleShows DEF Good

\* The answers to a sign-in and to a sign-out.
LEMMA LoginAnswerShows ==
    ASSUME NEW pg, NEW fams, Good(pg, fams), db.version \in Nat \ {0}, ViewInv(pg, db.version),
           NEW c \in InFlight(pg), pg.calls[c].step = "login",
           NEW answer, answer = pg.calls[c].answer, answer.status \in Statuses \ {"pending"}
    PROVE  ViewInv(LoginAnswer(pg, c, answer), db.version)
<1> DEFINE fg == Forget(pg, c[1])
           others == AtStep(pg, {"refresh", "second", "logout"}) # {}
           stored == [StoreTokens(fg, answer) EXCEPT !.email = answer.email, !.screen = "app",
                                                     !.crossed = @ \/ others]
<1>1. c \in DOMAIN pg.calls /\ PageInv(pg)
  BY DEF InFlight, Good
<1>2. ViewInv(fg, db.version) /\ PageInv(fg)
  BY <1>1, ForgetShows
<1>3. LoginAnswer(pg, c, answer) = IF answer.status # "200" THEN fg ELSE ShowView(stored, "overview")
  BY DEF LoginAnswer
<1>4. CASE answer.status = "200"
  <2>1. answer.access \in Tokens /\ answer.refresh \in Tokens
    BY <1>1, <1>4 DEF Good, GrantInv, GrantOk
  <2>. HIDE DEF fg, others
  <2>2. /\ DOMAIN stored = PageFields
        /\ stored.access = answer.access /\ stored.refresh = answer.refresh /\ stored.screen = "app"
        /\ stored.crossed = (fg.crossed \/ others)
        /\ \A f \in PageFields \ {"access", "refresh", "email", "screen", "crossed"} : stored[f] = fg[f]
    BY <1>2, Fields DEF PageInv, StoreTokens
  <2>. HIDE DEF stored
  <2>3. SameViews(fg, stored)
    BY <2>2, Fields DEF SameViews
  <2>4. PageInv(stored) /\ ViewInv(stored, db.version)
    <3>1. stored.raced = fg.raced /\ stored.lost = fg.lost /\ stored.crossed \in BOOLEAN
      BY <2>2, Fields DEF others
    <3>. QED BY <1>2, <2>1, <2>2, <2>3, <3>1, SameViewsShow DEF PageInv
  <2>5. "overview" \in Views
    BY DEF Views, Stages
  <2>. QED BY <1>3, <1>4, <2>4, <2>5, ShowViewShows DEF stored
<1>5. CASE answer.status # "200"
  BY <1>2, <1>3, <1>5
<1>. QED BY <1>4, <1>5

\* An answer arrives, whatever it is the answer to.
LEMMA ArriveShows ==
    ASSUME Good(page, families), db.version \in Nat \ {0}, VInv,
           NEW c \in DOMAIN page.calls, Arrive(c)
    PROVE  ViewInv(page', db.version)
<1> DEFINE call == page.calls[c]
<1>1. /\ c \in InFlight(page) /\ PageInv(page) /\ ViewInv(page, db.version)
      /\ call.answer.status \in Statuses \ {"pending"}
      /\ call.step \in {"first", "refresh", "second", "login", "logout"}
  BY DEF Arrive, Good, PageInv, CallOk, InFlight, Steps, VInv
<1>2. CASE call.step = "first"
  <2>1. page' = FirstAnswer(page, c, call.answer)
    BY <1>2 DEF Arrive
  <2>. QED BY <1>1, <1>2, <2>1, FirstAnswerShows
<1>3. CASE call.step = "refresh"
  <2>1. page' = RefreshAnswer(page, c, call.answer)
    BY <1>3 DEF Arrive
  <2>. QED BY <1>1, <1>3, <2>1, RefreshAnswerShows
<1>4. CASE call.step = "second"
  <2>1. page' = SecondAnswer(page, c, call.answer)
    BY <1>4 DEF Arrive
  <2>. QED BY <1>1, <1>4, <2>1, SecondAnswerShows
<1>5. CASE call.step = "login"
  <2>1. page' = LoginAnswer(page, c, call.answer)
    BY <1>5 DEF Arrive
  <2>. QED BY <1>1, <1>5, <2>1, LoginAnswerShows
<1>6. CASE call.step = "logout"
  <2> DEFINE eg == EndSession(page, c)
  <2>1. page' = Forget(eg, c[1])
    BY <1>6 DEF Arrive, LogoutAnswer
  <2>2. SameViews(page, eg) /\ PageInv(eg)
    BY <1>1, EndedShows
  <2>. HIDE DEF eg
  <2>3. ViewInv(eg, db.version) /\ c \in DOMAIN eg.calls /\ eg.calls[c].step = "logout"
    BY <1>1, <1>6, <2>2, SameViewsShow DEF SameViews
  <2>4. db.version \in Nat
    OBVIOUS
  <2>. QED BY <2>1, <2>2, <2>3, <2>4, ForgetShows
<1>. QED BY <1>1, <1>2, <1>3, <1>4, <1>5, <1>6

\* The back end answers: what it says is of this moment.
LEMMA AnswerShows ==
    ASSUME PageInv(page), db.version \in Nat, VInv, NEW version \in Nat, db.version <= version,
           NEW c \in DOMAIN page.calls, NEW answer, Deliver(c, answer),
           page.calls[c].step \notin {"done", "failed"}, page.calls[c].answer = Pending,
           answer.status \in Statuses \ {"pending"},
           page.calls[c].step \in {"first", "second"} /\ answer.status = "200" => answer.version = version
    PROVE  ViewInv(page', version)
<1>1. /\ PageInv(page') /\ SameSession(page, page') /\ page'.begun = page.begun
      /\ c \in DOMAIN page'.calls => page.calls[c].tab = page.tab /\ Answered(page, page', c, answer)
      /\ page.calls[c].tab = page.tab => c \in DOMAIN page'.calls
      /\ \A d \in DOMAIN page'.calls : d \in DOMAIN page.calls
      /\ \A d \in DOMAIN page.calls : d # c => d \in DOMAIN page'.calls /\ page'.calls[d] = page.calls[d]
  BY Delivered
<1>2. DOMAIN page' = PageFields /\ \A f \in PageFields \ {"calls"} : page'[f] = page[f]
  BY Fields DEF Deliver, PageInv
<1>3. /\ page'.asked = page.asked /\ page'.overlapped = page.overlapped /\ page'.shown = page.shown
      /\ page'.decided = page.decided /\ page'.tab = page.tab /\ page'.begun >= page.begun
  <2>1. page.begun \in Nat
    BY DEF PageInv
  <2>. QED BY <1>2, <2>1, Fields
<1>4. \A d \in InFlight(page) : d \in InFlight(page')
  BY <1>1, <1>3 DEF InFlight, Answered
<1>5. Continues(page, page', version)
  BY <1>1, <1>3, <1>4 DEF Continues, Answered, HasVersion
<1>. QED BY <1>1, <1>5, ContinuesShow DEF VInv

\* A request or its answer is lost.
LEMMA LoseShows ==
    ASSUME PageInv(page), PageInv(page'), db.version \in Nat, VInv, NEW c \in DOMAIN page.calls, Lose(c)
    PROVE  ViewInv(page', db.version)
<1> DEFINE call == [page.calls[c] EXCEPT !.answer = Failed]
<1>1. /\ c \in InFlight(page) /\ DOMAIN page.calls[c] = CallFields
      /\ page.calls[c].step \notin {"done", "failed"}
  BY DEF Lose, InFlight, PageInv, CallOk
<1>2. /\ DOMAIN page' = PageFields
      /\ page'.calls = [page.calls EXCEPT ![c] = call]
      /\ \A f \in PageFields \ {"calls", "lost"} : page'[f] = page[f]
  BY Fields DEF Lose, PageInv
<1>3. /\ call.view = page.calls[c].view /\ call.stage = page.calls[c].stage
      /\ call.body = page.calls[c].body /\ call.tab = page.calls[c].tab
      /\ call.step = page.calls[c].step /\ call.answer.status = "failed"
  BY <1>1 DEF CallFields, Failed
<1>. HIDE DEF call
<1>4. /\ page'.asked = page.asked /\ page'.overlapped = page.overlapped /\ page'.shown = page.shown
      /\ page'.decided = page.decided /\ page'.tab = page.tab /\ page'.begun >= page.begun
  <2>1. page.begun \in Nat
    BY DEF PageInv
  <2>. QED BY <1>2, <2>1, Fields
<1>5. /\ DOMAIN page'.calls = DOMAIN page.calls /\ page'.calls[c] = call
      /\ \A d \in DOMAIN page.calls : d # c => page'.calls[d] = page.calls[d]
  BY <1>2
<1>6. \A d \in InFlight(page) : d \in InFlight(page')
  BY <1>3, <1>4, <1>5 DEF InFlight
<1>7. ~HasVersion(call)
  BY <1>3 DEF HasVersion
<1>8. Continues(page, page', db.version)
  BY <1>1, <1>3, <1>4, <1>5, <1>6, <1>7 DEF Continues
<1>9. db.version <= db.version
  OBVIOUS
<1>. QED BY <1>8, <1>9, ContinuesShow DEF VInv

\* A decision is sent.
LEMMA DecideShows ==
    ASSUME NEW pg, PageInv(pg), NEW version \in Nat, ViewInv(pg, version), NEW body, NEW qg, PageInv(qg),
           qg = SendStage([pg EXCEPT !.begun = @ + 1], pg.begun + 1, "decide", 1, body)
    PROVE  ViewInv(qg, version)
<1> DEFINE task == pg.begun + 1
           sent == {<<task, path>> : path \in Stages["decide"][1]}
           bg == [pg EXCEPT !.begun = @ + 1]
           call == [view |-> "decide", stage |-> 1, body |-> body, step |-> "first",
                    tab |-> bg.tab, token |-> bg.access, answer |-> Pending]
<1>1. DOMAIN bg = PageFields /\ bg.begun = task /\ \A f \in PageFields \ {"begun"} : bg[f] = pg[f]
  BY Fields DEF PageInv
<1>2. /\ DOMAIN qg = PageFields
      /\ qg.calls = [c \in DOMAIN bg.calls \cup sent |-> IF c \in sent THEN call ELSE bg.calls[c]]
      /\ \A f \in PageFields \ {"calls"} : qg[f] = bg[f]
  <2>1. qg = SendStage(bg, task, "decide", 1, body)
    OBVIOUS
  <2>. HIDE DEF bg
  <2>. QED BY <1>1, <2>1, Fields DEF SendStage
<1>3. call.view \notin Views /\ call.stage = 1 /\ call.step = "first" /\ call.answer = Pending
  BY DEF Views
<1>. HIDE DEF bg, call
<1>4. /\ qg.asked = pg.asked /\ qg.overlapped = pg.overlapped /\ qg.shown = pg.shown
      /\ qg.decided = pg.decided /\ qg.tab = pg.tab /\ qg.begun = task /\ bg.calls = pg.calls
  BY <1>1, <1>2, Fields
<1>5. pg.begun \in Nat /\ \A d \in DOMAIN pg.calls : d[1] # task
  <2>1. pg.begun \in Nat
    BY DEF PageInv
  <2>2. ASSUME NEW d \in DOMAIN pg.calls PROVE d[1] # task
    <3>1. d[1] \in 1..pg.begun
      BY DEF PageInv, CallOk
    <3>. QED BY <2>1, <3>1
  <2>. QED BY <2>1, <2>2
<1>6. \A d \in sent : d[1] = task
  OBVIOUS
<1>. HIDE DEF sent
<1>7. /\ DOMAIN qg.calls = DOMAIN pg.calls \cup sent
      /\ \A d \in sent : qg.calls[d] = call
      /\ \A d \in DOMAIN pg.calls : qg.calls[d] = pg.calls[d]
  <2>1. \A d \in DOMAIN pg.calls : d \notin sent
    BY <1>5, <1>6
  <2>. QED BY <1>2, <1>4, <2>1
<1>8. \A d \in InFlight(pg) : d \in InFlight(qg)
  BY <1>4, <1>7 DEF InFlight
<1>9. Continues(pg, qg, version)
  BY <1>3, <1>4, <1>5, <1>6, <1>7, <1>8 DEF Continues
<1>10. version <= version
  OBVIOUS
<1>. QED BY <1>9, <1>10, ContinuesShow

\* A sign-in or a sign-out is sent.
LEMMA SendBareShows ==
    ASSUME NEW pg, PageInv(pg), NEW version \in Nat, ViewInv(pg, version), NEW what \in {"login", "logout"},
           NEW token, NEW body, NEW qg, PageInv(qg), qg = SendBare(pg, what, token, body)
    PROVE  ViewInv(qg, version)
<1> DEFINE sent == <<pg.begun + 1, what>>
           call == [view |-> what, stage |-> 1, body |-> body, step |-> what, tab |-> pg.tab,
                    token |-> token, answer |-> Pending]
<1>1. /\ DOMAIN qg = PageFields /\ qg.begun = pg.begun + 1
      /\ qg.calls = [c \in DOMAIN pg.calls \cup {sent} |-> IF c = sent THEN call ELSE pg.calls[c]]
      /\ \A f \in PageFields \ {"calls", "begun"} : qg[f] = pg[f]
  BY Fields DEF PageInv, SendBare
<1>2. call.view \notin Views /\ call.stage = 1 /\ call.step = what /\ call.answer = Pending
  BY DEF Views, Stages
<1>. HIDE DEF call
<1>3. /\ qg.asked = pg.asked /\ qg.overlapped = pg.overlapped /\ qg.shown = pg.shown
      /\ qg.decided = pg.decided /\ qg.tab = pg.tab
  BY <1>1, Fields
<1>4. pg.begun \in Nat /\ \A d \in DOMAIN pg.calls : d[1] # pg.begun + 1
  BY DEF PageInv, CallOk
<1>5. sent[1] = pg.begun + 1
  OBVIOUS
<1>. HIDE DEF sent
<1>6. /\ DOMAIN qg.calls = DOMAIN pg.calls \cup {sent} /\ qg.calls[sent] = call
      /\ \A d \in DOMAIN pg.calls : qg.calls[d] = pg.calls[d]
  BY <1>1, <1>4, <1>5
<1>7. \A d \in InFlight(pg) : d \in InFlight(qg)
  BY <1>3, <1>6 DEF InFlight
<1>8. qg.begun >= pg.begun
  BY <1>1, <1>4
<1>9. Continues(pg, qg, version)
  BY <1>2, <1>3, <1>4, <1>5, <1>6, <1>7, <1>8 DEF Continues
<1>10. version <= version
  OBVIOUS
<1>. QED BY <1>9, <1>10, ContinuesShow

\* The script starts over: it shows nothing, and what is under way is no
\* concern of its.
LEMMA BootShows ==
    ASSUME PageInv(page), db.version \in Nat \ {0}, VInv, Boot
    PROVE  ViewInv(page', db.version)
<1> DEFINE loaded == [f \in DOMAIN page |-> IF f \in DOMAIN Storage THEN page[f] ELSE Fresh[f]]
           unheard == {c \in DOMAIN page.calls : page.calls[c].answer = Pending}
           booted == [loaded EXCEPT !.tab = @ + 1, !.calls = [c \in unheard |-> page.calls[c]],
                                    !.lost = @ \/ AtStep(page, {"refresh"}) # {}]
<1>1. /\ DOMAIN loaded = PageFields /\ loaded.tab = page.tab /\ loaded.lost = page.lost
      /\ loaded.begun = page.begun /\ loaded.access = page.access /\ loaded.refresh = page.refresh
      /\ loaded.raced = page.raced /\ loaded.crossed = page.crossed
      /\ loaded.screen = "login" /\ loaded.decided = 0
      /\ loaded.asked = [v \in Views |-> NotAsked] /\ loaded.overlapped = [v \in Views |-> FALSE]
      /\ loaded.shown = [v \in Panes |-> NothingShown]
  BY Fields DEF PageInv, Fresh, Storage
<1>2. page' = IF page.access = NoToken THEN booted ELSE ShowView([booted EXCEPT !.screen = "app"], "overview")
  BY DEF Boot
<1>. HIDE DEF loaded
<1>3. /\ DOMAIN booted = PageFields /\ booted.tab = page.tab + 1 /\ booted.begun = page.begun
      /\ booted.access = page.access /\ booted.refresh = page.refresh /\ booted.raced = page.raced
      /\ booted.crossed = page.crossed /\ booted.screen = "login" /\ booted.decided = 0
      /\ booted.lost = (page.lost \/ AtStep(page, {"refresh"}) # {})
      /\ booted.asked = [v \in Views |-> NotAsked] /\ booted.overlapped = [v \in Views |-> FALSE]
      /\ booted.shown = [v \in Panes |-> NothingShown]
      /\ booted.calls = [c \in unheard |-> page.calls[c]]
  BY <1>1, Fields
<1>. HIDE DEF booted
<1>4. page.tab \in Nat /\ booted.lost \in BOOLEAN
  BY <1>3 DEF PageInv
<1>5. PageInv(booted)
  <2>1. \A d \in DOMAIN booted.calls : CallOk(booted, d)
    <3> SUFFICES ASSUME NEW d \in DOMAIN booted.calls PROVE CallOk(booted, d)
      OBVIOUS
    <3>1. CallOk(page, d) /\ booted.calls[d] = page.calls[d]
      BY <1>3 DEF PageInv
    <3>2. booted.begun = page.begun /\ 0..page.tab \subseteq 0..booted.tab
      BY <1>3, <1>4
    <3>. QED BY <3>1, <3>2 DEF CallOk
  <2>2. \A d, e \in DOMAIN booted.calls : d[1] = e[1] => SameTask(booted, d, e)
    BY <1>3 DEF PageInv, SameTask
  <2>. QED BY <1>3, <1>4, <2>1, <2>2 DEF PageInv
<1>6. \A d \in DOMAIN booted.calls : booted.calls[d].tab # booted.tab /\ booted.calls[d].answer.status = "pending"
  BY <1>3, <1>4 DEF PageInv, CallOk, Pending
<1>7. ViewInv(booted, db.version)
  <2>1. \A w \in Views : ~IsAsked(booted, w)
    BY <1>3 DEF IsAsked
  <2>2. \A w \in Views : AskedOk(booted, w, db.version) /\ ShownOk(booted, w)
    BY <2>1 DEF AskedOk, ShownOk
  <2>3. \A d \in DOMAIN booted.calls : LoadOk(booted, d)
    BY <1>6 DEF LoadOk
  <2>4. AnswersOk(booted, db.version)
    BY <1>3, <1>6 DEF VInv, ViewInv, ViewBase, AnswersOk, HasVersion
  <2>5. InFlight(booted) = {}
    BY <1>6 DEF InFlight
  <2>6. TasksOk(booted)
    BY <1>6, <2>5 DEF TasksOk
  <2>7. "users" \in Views
    BY DEF Views, Stages
  <2>. QED BY <1>3, <2>1, <2>2, <2>3, <2>4, <2>6, <2>7 DEF ViewInv, ViewBase, ListOk
<1>8. CASE page.access = NoToken
  BY <1>2, <1>7, <1>8
<1>9. CASE page.access # NoToken
  <2> DEFINE app == [booted EXCEPT !.screen = "app"]
  <2>1. DOMAIN app = PageFields /\ app.screen = "app" /\ \A f \in PageFields \ {"screen"} : app[f] = booted[f]
    BY <1>3, Fields
  <2>2. page' = ShowView(app, "overview") /\ "overview" \in Views
    BY <1>2, <1>9 DEF Views, Stages
  <2>. HIDE DEF app
  <2>3. SameViews(booted, app)
    BY <2>1, Fields DEF SameViews
  <2>4. /\ app.access = booted.access /\ app.refresh = booted.refresh /\ app.raced = booted.raced
        /\ app.lost = booted.lost /\ app.crossed = booted.crossed
    BY <2>1, Fields
  <2>5. PageInv(app) /\ ViewInv(app, db.version)
    BY <1>5, <1>7, <2>1, <2>3, <2>4, SameViewsShow DEF PageInv
  <2>. QED BY <2>2, <2>5, ShowViewShows
<1>. QED BY <1>8, <1>9

\* Nothing is shown at first, and nothing has been asked for.
LEMMA ViewInitOk == Init => VInv
<1> SUFFICES ASSUME Init PROVE VInv
  OBVIOUS
<1>1. IsLoad(load) /\ db = load.store /\ page = load.page
  BY ConsoleAssumption DEF Init, load
<1>2. /\ page.asked = [v \in Views |-> NotAsked] /\ page.overlapped = [v \in Views |-> FALSE]
      /\ page.shown = [v \in Panes |-> NothingShown] /\ page.decided = 0 /\ page.calls = <<>>
  BY <1>1 DEF IsLoad, IsLoaded, Fresh
<1>3. DOMAIN page.calls = {} /\ db.version \in Nat
  BY <1>1, <1>2 DEF IsLoad
<1>4. InFlight(page) = {}
  BY <1>3 DEF InFlight
<1>5. \A w \in Views : ~IsAsked(page, w)
  BY <1>2 DEF IsAsked
<1>6. \A w \in Views : AskedOk(page, w, db.version) /\ ShownOk(page, w)
  BY <1>5 DEF AskedOk, ShownOk
<1>7. "users" \in Views
  BY DEF Views, Stages
<1>. QED BY <1>2, <1>3, <1>4, <1>5, <1>6, <1>7
       DEF VInv, ViewInv, ViewBase, ListOk, AnswersOk, TasksOk

\* And every step keeps that.
LEMMA ViewStepOk == IInv /\ VInv /\ [Next]_vars => VInv'
<1> SUFFICES ASSUME IInv, VInv, [Next]_vars PROVE VInv'
  OBVIOUS
<1>. USE ConsoleAssumption
<1>1. /\ StoreInv /\ FamiliesInv /\ Good(page, families) /\ PageInv(page)
      /\ db.version \in Nat \ {0} /\ ViewInv(page, db.version)
  BY InvIs DEF StoreInv, Good, VInv
<1>2. PageInv(page')
  <2>1. IInv'
    BY StepOk
  <2>2. PageInv(page)'
    BY <2>1 DEF IInv
  <2>. QED BY <2>2 DEF PageInv, CallOk, SameTask
<1>3. ASSUME ViewInv(page', db.version), db' = db PROVE VInv'
  BY <1>3 DEF VInv
<1>4. ASSUME NEW c \in DOMAIN page.calls, NEW answer, Deliver(c, answer), db' = db,
             page.calls[c].step \in {"refresh", "login", "logout"}, page.calls[c].answer = Pending,
             answer.status \in Statuses \ {"pending"}
      PROVE  VInv'
  <2>1. db.version <= db.version /\ db.version \in Nat
    BY <1>1
  <2>2. ViewInv(page', db.version)
    BY <1>1, <1>4, <2>1, AnswerShows
  <2>. QED BY <1>3, <1>4, <2>2
<1>5. ASSUME NEW c \in DOMAIN page.calls, Arrive(c) PROVE VInv'
  BY <1>1, <1>3, <1>5, ArriveShows DEF Arrive
<1>6. ASSUME NEW c \in DOMAIN page.calls, ServeAuthorized(c) PROVE VInv'
  <2>1. PICK answer :
           /\ Deliver(c, answer)
           /\ answer.status \in {"200", "401", "403", "404"}
           /\ answer.status = "200" => answer.version = db'.version
           /\ db' = db \/ \E user, status : db' = SetStatus(user, status)
    BY <1>1, <1>6, ServeAuthorizedAnswers
  <2>2. db'.version \in Nat /\ db.version <= db'.version
    <3>1. CASE db' = db
      BY <1>1, <3>1
    <3>2. CASE \E user, status : db' = SetStatus(user, status)
      <4>1. UNCHANGED served
        BY <1>6 DEF ServeAuthorized
      <4>2. db'.version = db.version + 1
        BY <1>1, <3>2, <4>1, StoreChanges
      <4>. QED BY <1>1, <4>2
    <3>. QED BY <2>1, <3>1, <3>2
  <2>3. page.calls[c].answer = Pending /\ page.calls[c].step \in {"first", "second"}
    BY <1>6 DEF ServeAuthorized, IsPending
  <2>4. db.version \in Nat /\ answer.status \in Statuses \ {"pending"}
    BY <1>1, <2>1 DEF Statuses
  <2>5. ViewInv(page', db'.version)
    BY <1>1, <2>1, <2>2, <2>3, <2>4, AnswerShows
  <2>. QED BY <2>5 DEF VInv
<1>7. ASSUME NEW c \in DOMAIN page.calls, ServeRefresh(c) PROVE VInv'
  <2>1. /\ page.calls[c].answer = Pending /\ page.calls[c].step = "refresh" /\ db' = db
        /\ \E answer : Deliver(c, answer) /\ answer.status \in {"200", "401", "409"}
    <3>1. /\ Refused("401").status = "401" /\ Refused("409").status = "409"
          /\ \A l, n, email : Granted(l, n, email).status = "200"
      BY DEF Refused, Granted
    <3>2. \/ Deliver(c, Refused("401")) \/ Deliver(c, Refused("409"))
          \/ \E l, n, email : Deliver(c, Granted(l, n, email))
      BY <1>7, Zenon DEF ServeRefresh
    <3>3. \E answer : Deliver(c, answer) /\ answer.status \in {"200", "401", "409"}
      <4>1. CASE Deliver(c, Refused("401"))
        BY <3>1, <4>1
      <4>2. CASE Deliver(c, Refused("409"))
        BY <3>1, <4>2
      <4>3. CASE \E l, n, email : Deliver(c, Granted(l, n, email))
        BY <3>1, <4>3
      <4>. QED BY <3>2, <4>1, <4>2, <4>3
    <3>. QED BY <1>7, <3>3 DEF ServeRefresh, IsPending
  <2>. QED BY <1>4, <2>1 DEF Statuses
<1>8. ASSUME NEW c \in DOMAIN page.calls, ServeLogin(c) PROVE VInv'
  <2>1. /\ page.calls[c].answer = Pending /\ page.calls[c].step = "login" /\ db' = db
        /\ \E answer : Deliver(c, answer) /\ answer.status \in {"200", "403"}
    <3>1. /\ Refused("403").status = "403"
          /\ \A l, n, email : Granted(l, n, email).status = "200"
      BY DEF Refused, Granted
    <3>. QED BY <1>8, <3>1 DEF ServeLogin, IsPending
  <2>. QED BY <1>4, <2>1 DEF Statuses
<1>9. ASSUME NEW c \in DOMAIN page.calls, ServeLogout(c) PROVE VInv'
  <2>1. /\ page.calls[c].answer = Pending /\ page.calls[c].step = "logout" /\ db' = db
        /\ Deliver(c, Ok(Null)) /\ Ok(Null).status = "200"
    BY <1>9 DEF ServeLogout, IsPending, Ok
  <2>. QED BY <1>4, <2>1 DEF Statuses
<1>10. ASSUME NEW c \in DOMAIN page.calls, Lose(c) PROVE VInv'
  BY <1>1, <1>2, <1>3, <1>10, LoseShows DEF Lose
<1>11. ASSUME NEW click \in load.clicks,
              \/ click[1] = "view" /\ OpenView(click[2])
              \/ click[1] = "days" /\ ChooseDays(click[2], click[3])
              \/ click[1] = "trace" /\ DoTrace(click[2])
              \/ click[1] = "decide" /\ Decide(click[2], click[3])
              \/ click[1] = "signin" /\ HandleLoginSubmit(click[2])
       PROVE VInv'
  <2>1. IsClick(click, db.users) /\ db.version \in Nat
    BY <1>1, ClickOk
  <2>2. CASE click[1] = "view" /\ OpenView(click[2])
    BY <1>1, <1>3, <2>1, <2>2, ShowViewShows DEF OpenView, IsClick, Click
  <2>3. CASE click[1] = "days" /\ ChooseDays(click[2], click[3])
    <3>1. SameViews(page, page')
      BY <1>1, <2>3, Fields DEF ChooseDays, PageInv, SameViews
    <3>. QED BY <1>1, <1>3, <2>3, <3>1, SameViewsShow DEF ChooseDays, Click
  <2>4. CASE click[1] = "trace" /\ DoTrace(click[2])
    <3>1. "tracer" \in Views
      BY DEF Views, Stages
    <3>2. page' = LoadView(page, "tracer", click[2]) /\ db' = db
      BY <2>4 DEF DoTrace, Click
    <3>3. ViewInv(LoadView(page, "tracer", click[2]), db.version)
      BY <1>1, <3>1, LoadViewShows DEF ViewInv
    <3>. QED BY <1>3, <3>2, <3>3
  <2>5. CASE click[1] = "decide" /\ Decide(click[2], click[3])
    BY <1>1, <1>2, <1>3, <2>1, <2>5, DecideShows DEF Decide, Click
  <2>6. CASE click[1] = "signin" /\ HandleLoginSubmit(click[2])
    BY <1>1, <1>2, <1>3, <2>1, <2>6, SendBareShows DEF HandleLoginSubmit, Click
  <2>. QED BY <1>11, <2>2, <2>3, <2>4, <2>5, <2>6
<1>12. ASSUME NEW user, NEW status, OthersChange(user, status) PROVE VInv'
  <2>1. db'.version = db.version + 1 /\ page' = page
    BY <1>1, <1>12, StoreChanges DEF OthersChange
  <2>2. db'.version \in Nat /\ db.version <= db'.version /\ db.version \in Nat
    BY <1>1, <2>1
  <2>3. Continues(page, page, db'.version)
    <3>1. page.begun >= page.begun
      BY <1>1 DEF PageInv
    <3>. QED BY <3>1 DEF Continues
  <2>4. ViewInv(page, db'.version)
    BY <1>1, <2>2, <2>3, ContinuesShow
  <2>. QED BY <2>1, <2>4 DEF VInv
<1>13. ASSUME DoSignOut PROVE VInv'
  <2>1. db' = db /\ db.version \in Nat
    BY <1>1, <1>13 DEF DoSignOut, Click
  <2>2. CASE page.refresh = NoToken
    BY <1>1, <1>3, <1>13, <2>1, <2>2, EndedShows, SameViewsShow DEF DoSignOut
  <2>3. CASE page.refresh # NoToken
    BY <1>1, <1>2, <1>3, <1>13, <2>1, <2>3, SendBareShows DEF DoSignOut
  <2>. QED BY <2>2, <2>3
<1>14. ASSUME Boot PROVE VInv'
  BY <1>1, <1>3, <1>14, BootShows DEF Boot, Click
<1>15. ASSUME Elapse PROVE VInv'
  BY <1>1, <1>3, <1>15 DEF Elapse
<1>16. CASE UNCHANGED vars
  BY <1>1, <1>3, <1>16 DEF vars
<1>17. CASE Next
  BY <1>5, <1>6, <1>7, <1>8, <1>9, <1>10, <1>11, <1>12, <1>13, <1>14, <1>15, <1>17 DEF Next
<1>. QED BY <1>16, <1>17

\* A view at rest shows what was asked for last, and the list of users every
\* decision that was answered: whatever was on its way when the newest load was
\* begun is of another task, or has been noted as met.
THEOREM ViewsShowTheNewest == Spec => []ViewShowsNewest
<1>1. IInv /\ VInv => ViewShowsNewest
  <2> SUFFICES ASSUME IInv, VInv, NEW view \in Views, \A c \in InFlight(page) : page.calls[c].view # view,
                      page.asked[view] # NotAsked, ~page.overlapped[view]
               PROVE  LET asked == page.asked[view]
                          shown == page.shown[view]
                      IN  /\ shown # NothingShown
                          /\ shown.days = asked.days
                          /\ shown.version >= asked.version
                          /\ view = "users" => shown.version >= page.decided
    BY DEF ViewShowsNewest
  <2>1. IsAsked(page, view) /\ ShownOk(page, view) /\ AskedOk(page, view, db.version)
    BY DEF VInv, ViewInv, ViewBase, IsAsked
  <2>2. IsShown(page, view)
    BY <2>1 DEF ShownOk
  <2>3. /\ view = "users" => page.decided <= page.asked[view].version
        /\ page.decided \in Nat /\ page.asked[view].version \in Nat
    <3>1. db.version \in Nat
      BY DEF IInv, StoreInv
    <3>. QED BY <2>1, <3>1 DEF VInv, ViewInv, ViewBase, ListOk, AskedOk
  <2>4. page.shown[view].version \in Nat /\ page.shown[view].version >= page.asked[view].version
    BY <2>2 DEF IsShown
  <2>. QED BY <2>2, <2>3, <2>4 DEF IsShown
<1>2. Spec => []VInv
  BY ViewInitOk, ViewStepOk, Invariant, PTL DEF Spec
<1>. QED BY <1>1, <1>2, Invariant, PTL

----------------------------------------------------------------------------
(* The back end that the page is written against is the one of Sessions. *)

Logins == Nat \ {0}

\* What has become of each session.
SessionState ==
    [l \in Logins |->
        IF l \notin DOMAIN families THEN "unused"
        ELSE IF families[l].end = "live" THEN "live" ELSE "closed"]

\* The life of a family, which Sessions implements row by row.
Holders == INSTANCE AbstractFamilies WITH Names <- Logins, state <- SessionState

\* A session that is revoked is closed.
LEMMA RevokeCloses ==
    ASSUME FamiliesInv, NEW login \in DOMAIN families, families[login].end = "live",
           NEW reason \in {"logout", "inactive", "reuse"}, Revoke(login, reason)
    PROVE  Holders!Close(login)
<1>1. /\ DOMAIN families' = DOMAIN families /\ families'[login].end = reason
      /\ \A l \in DOMAIN families : l # login => families'[l] = families[l]
  BY RevokeOk DEF FamiliesInv
<1>2. login \in Logins
  BY DEF FamiliesInv, Families, Logins
<1>3. SessionState[login] = "live" /\ DOMAIN SessionState = Logins
  BY <1>2 DEF SessionState
<1>4. SessionState' = [SessionState EXCEPT ![login] = "closed"]
  BY <1>1, <1>2 DEF SessionState
<1>. QED BY <1>3, <1>4 DEF Holders!Close, Holders!Becomes

\* A sign-in opens a session that was not used.
LEMMA LoginOpens ==
    ASSUME FamiliesInv, NEW family, family.end = "live", families' = Append(families, family)
    PROVE  Holders!Open(Len(families) + 1)
<1> DEFINE new == Len(families) + 1
<1>1. DOMAIN families = 1..Len(families) /\ Len(families) \in Nat
  BY DEF FamiliesInv, Families
<1>2. /\ DOMAIN families' = DOMAIN families \cup {new} /\ families'[new] = family
      /\ \A l \in DOMAIN families : families'[l] = families[l]
      /\ new \in Logins /\ new \notin DOMAIN families
  BY <1>1 DEF FamiliesInv, Families, Logins
<1>. HIDE DEF new
<1>3. SessionState[new] = "unused" /\ DOMAIN SessionState = Logins
  BY <1>2 DEF SessionState
<1>4. SessionState' = [SessionState EXCEPT ![new] = "live"]
  BY <1>2 DEF SessionState
<1>5. Holders!Open(new)
  BY <1>3, <1>4 DEF Holders!Open, Holders!Becomes
<1>. QED BY <1>5 DEF new

\* A step that ends no session and begins none is not seen.
LEMMA SessionsStay ==
    ASSUME DOMAIN families' = DOMAIN families,
           \A l \in DOMAIN families : families'[l].end = families[l].end
    PROVE  UNCHANGED SessionState
BY DEF SessionState

\* What a refresh does to the sessions.
LEMMA RefreshMoves ==
    ASSUME FamiliesInv, NEW c \in DOMAIN page.calls, ServeRefresh(c)
    PROVE  UNCHANGED SessionState \/ Holders!Next
<1> DEFINE login == page.calls[c].token.login
<1>1. CASE login \notin DOMAIN families \/ families' = families
  <2>1. ASSUME NEW f, login \notin DOMAIN families PROVE [families EXCEPT ![login] = f] = families
    BY <2>1 DEF FamiliesInv, Families
  <2>2. \/ families' = families
        \/ \E f : families' = [families EXCEPT ![login] = f]
    <3>1. ASSUME NEW reason, Revoke(login, reason)
          PROVE  families' = [families EXCEPT ![login] = [@ EXCEPT !.end = reason]]
      BY <3>1 DEF Revoke
    <3>2. ASSUME families' = [families EXCEPT ![login].current = @ + 1, ![login].rotatedAt = now]
          PROVE  families' = [families EXCEPT ![login] =
                                [families[login] EXCEPT !.current = @ + 1, !.rotatedAt = now]]
      BY <3>2
    <3>3. \/ families' = families \/ Revoke(login, "reuse") \/ Revoke(login, "inactive")
          \/ families' = [families EXCEPT ![login].current = @ + 1, ![login].rotatedAt = now]
      BY DEF ServeRefresh
    <3>. QED BY <3>1, <3>2, <3>3
  <2>3. families' = families
    BY <1>1, <2>1, <2>2
  <2>. QED BY <2>3, SessionsStay
<1>2. CASE login \in DOMAIN families /\ families[login].end = "live"
           /\ (Revoke(login, "reuse") \/ Revoke(login, "inactive"))
  <2>1. Holders!Close(login)
    BY <1>2, RevokeCloses
  <2>2. login \in Logins
    BY <1>2 DEF FamiliesInv, Families, Logins
  <2>. QED BY <2>1, <2>2 DEF Holders!Next
<1>3. CASE login \in DOMAIN families
           /\ families' = [families EXCEPT ![login].current = @ + 1, ![login].rotatedAt = now]
  <2> DEFINE family == [families[login] EXCEPT !.current = @ + 1, !.rotatedAt = now]
  <2>1. families' = [families EXCEPT ![login] = family]
    BY <1>3
  <2>2. family.end = families[login].end
    BY <1>3, FamilyOk DEF FamiliesInv
  <2>. HIDE DEF family
  <2>3. /\ DOMAIN families' = DOMAIN families
        /\ \A l \in DOMAIN families : families'[l].end = families[l].end
    BY <2>1, <2>2 DEF FamiliesInv, Families
  <2>. QED BY <2>3, SessionsStay
<1>. QED BY <1>1, <1>2, <1>3 DEF ServeRefresh

\* Every session of the console's back end is opened once, and what ended it,
\* a sign-out, a reuse or a user no longer active, ended it for good: each
\* step serves the families as AbstractFamilies, and so Sessions, does.
THEOREM ConsoleServesFamilies == Spec => [][Holders!Next]_SessionState
<1>1. ASSUME IInv, [Next]_vars PROVE UNCHANGED SessionState \/ Holders!Next
  <2>1. FamiliesInv
    BY <1>1 DEF IInv
  <2>2. CASE UNCHANGED families
    BY <2>2, SessionsStay
  <2>3. ASSUME NEW c \in DOMAIN page.calls, ServeRefresh(c)
        PROVE  UNCHANGED SessionState \/ Holders!Next
    BY <2>1, <2>3, RefreshMoves
  <2>4. ASSUME NEW c \in DOMAIN page.calls, ServeLogin(c)
        PROVE  UNCHANGED SessionState \/ Holders!Next
    <3>1. CASE \E family : family.end = "live" /\ families' = Append(families, family)
      <4>1. Holders!Open(Len(families) + 1)
        BY <2>1, <3>1, LoginOpens
      <4>2. Len(families) + 1 \in Logins
        BY <2>1 DEF FamiliesInv, Families, Logins
      <4>. QED BY <4>1, <4>2 DEF Holders!Next
    <3>2. UNCHANGED families \/ \E family : family.end = "live" /\ families' = Append(families, family)
      BY <2>4 DEF ServeLogin
    <3>. QED BY <2>2, <3>1, <3>2
  <2>5. ASSUME NEW c \in DOMAIN page.calls, ServeLogout(c)
        PROVE  UNCHANGED SessionState \/ Holders!Next
    <3> DEFINE login == page.calls[c].token.login
    <3>1. CASE login \in DOMAIN families /\ families[login].end = "live"
      <4>1. Holders!Close(login)
        BY <2>1, <2>5, <3>1, RevokeCloses DEF ServeLogout
      <4>2. login \in Logins
        BY <2>1, <3>1 DEF FamiliesInv, Families, Logins
      <4>. QED BY <4>1, <4>2 DEF Holders!Next
    <3>2. CASE ~(login \in DOMAIN families /\ families[login].end = "live")
      <4>1. families' = families
        BY <2>1, <2>5, <3>2 DEF ServeLogout, Revoke, FamiliesInv, Families
      <4>. QED BY <2>2, <4>1
    <3>. QED BY <3>1, <3>2
  <2>6. CASE Next
    <3>1. \/ UNCHANGED families
          \/ \E c \in DOMAIN page.calls : ServeRefresh(c) \/ ServeLogin(c) \/ ServeLogout(c)
      BY <2>6 DEF Next, Arrive, ServeAuthorized, Lose, OpenView, ChooseDays, DoTrace, Decide,
                  HandleLoginSubmit, OthersChange, DoSignOut, Boot, Elapse, Click
    <3>. QED BY <2>2, <2>3, <2>4, <2>5, <3>1
  <2>. QED BY <1>1, <2>2, <2>6 DEF vars
<1>2. IInv /\ [Next]_vars => [Holders!Next]_SessionState
  BY <1>1
<1>. QED BY <1>2, Invariant, PTL DEF Spec
=============================================================================
