--------------------------- MODULE AppPlansProofs ---------------------------
(***************************************************************************)
(* For any tabs, contents and bounds: what is executed is what was shown;  *)
(* at rest the containers are those of the file, whichever plan wrote it   *)
(* last; what is removed was asked for; and the plans, their steps         *)
(* interleaved with each other and with crashes, are the whole operations  *)
(* of AppLife.                                                             *)
(*                                                                         *)
(* A plan that was built is its operation, its steps as shown and what was *)
(* observed, and the secrets it generated: the rest of what it writes,     *)
(* which the steps do not show in full since secrets are masked, follows   *)
(* from the first three.  Every answer on its way, every preview and every *)
(* plan that was clicked is such a plan, so the fingerprint tells two of   *)
(* them apart but for what they generated.                                 *)
(***************************************************************************)
EXTENDS AppPlans, SequenceTheorems, TLAPS

WrittenFrom(r, seen, secret) ==
    CASE Draws(r) -> [img |-> Catalog, rev |-> secret]
      [] r.op \in {"create", "save", "install"} /\ ~Draws(r) -> r.new
      [] r.op = "update" -> [seen[1] EXCEPT !.img = Catalog]
      [] r.op = "rollback" -> [seen[1] EXCEPT !.img = seen[2].img]
      [] OTHER -> None

IsPlan(p) ==
    \E secret : p = [req |-> p.req, observed |-> p.observed, steps |-> p.steps,
                     writes |-> WrittenFrom(p.req, p.observed, secret)]

\* p is q, but for what an install generates.
AsShown(p, q) ==
    p = [q EXCEPT !.writes = IF Draws(p.req) THEN [@ EXCEPT !.rev = p.writes.rev] ELSE @]

DialogFields == {"open", "req", "preview", "loading", "stale"}
ExecFields == {"at", "req", "shown", "plan", "life", "spoiled"}

\* The shape of what a tab holds.
Formed ==
    /\ DOMAIN dialog = Tabs /\ DOMAIN asks = Tabs /\ DOMAIN exec = Tabs
    /\ \A t \in Tabs : DOMAIN dialog[t] = DialogFields /\ DOMAIN exec[t] = ExecFields

\* Whatever is shown, or on its way to be, was built.
Built ==
    \A t \in Tabs :
        /\ \A a \in asks[t] : a.reply # None => "op" \in DOMAIN a.reply \/ IsPlan(a.reply)
        /\ dialog[t].preview # None => IsPlan(dialog[t].preview)
        /\ exec[t].shown # None => IsPlan(exec[t].shown)

IInv == Formed /\ Built /\ AppliedAsShown

\* What a plan writes is determined by its operation, by what it observed and by the secrets
\* it generated.
LEMMA BuildIsPlan ==
  ASSUME NEW r, NEW secret
  PROVE  IsPlan(Build(r, secret))
<1>1. Written(r, secret) = WrittenFrom(r, Observed(r), secret)
  <2>1. CASE r.op = "update"
    BY <2>1 DEF Written, WrittenFrom, Observed, Draws
  <2>2. CASE r.op = "rollback"
    BY <2>2 DEF Written, WrittenFrom, Observed, Draws
  <2>3. CASE r.op \notin {"update", "rollback"}
    BY <2>3 DEF Written, WrittenFrom, Observed, Draws
  <2>4. QED
    BY <2>1, <2>2, <2>3
<1>2. Build(r, secret) = [req |-> r, observed |-> Observed(r),
                          steps |-> Steps(r, Written(r, secret)), writes |-> Written(r, secret)]
  BY DEF Build
<1>3. QED
  BY <1>1, <1>2 DEF IsPlan

LEMMA PlansAreBuilt ==
  ASSUME NEW r, NEW p \in Plans(r)
  PROVE  ~Refused(r) /\ IsPlan(p) /\ \E secret \in Secrets(r) : p = Build(r, secret)
BY BuildIsPlan DEF Plans

\* The fingerprint tells plans apart, though it shows no secret.
LEMMA FingerprintTells ==
  ASSUME NEW p, NEW q, IsPlan(p), IsPlan(q), Fingerprint(p) = Fingerprint(q)
  PROVE  AsShown(p, q)
<1>1. PICK s : p = [req |-> p.req, observed |-> p.observed, steps |-> p.steps,
                    writes |-> WrittenFrom(p.req, p.observed, s)]
  BY DEF IsPlan
<1>2. PICK z : q = [req |-> q.req, observed |-> q.observed, steps |-> q.steps,
                    writes |-> WrittenFrom(q.req, q.observed, z)]
  BY DEF IsPlan
<1>3. p.req = q.req /\ p.steps = q.steps /\ p.observed = q.observed
  BY DEF Fingerprint
<1>4. CASE ~Draws(p.req)
  <2>1. WrittenFrom(p.req, p.observed, s) = WrittenFrom(q.req, q.observed, z)
    BY <1>3, <1>4 DEF WrittenFrom
  <2>2. p = q
    BY <1>1, <1>2, <1>3, <2>1
  <2>3. QED
    BY <1>2, <1>4, <2>2 DEF AsShown
<1>5. CASE Draws(p.req)
  <2>1. p.writes = [img |-> Catalog, rev |-> s]
    BY <1>1, <1>5 DEF WrittenFrom, Draws
  <2>2. q.writes = [img |-> Catalog, rev |-> z]
    BY <1>2, <1>3, <1>5 DEF WrittenFrom, Draws
  <2>3. p.writes = [q.writes EXCEPT !.rev = p.writes.rev]
    BY <2>1, <2>2
  <2>4. p = [req |-> q.req, observed |-> q.observed, steps |-> q.steps, writes |-> p.writes]
    BY <1>1, <1>3
  <2>5. p = [q EXCEPT !.writes = p.writes]
    BY <1>2, <2>4
  <2>6. QED
    BY <1>5, <2>3, <2>5 DEF AsShown
<1>6. QED
  BY <1>4, <1>5

\* A step that leaves the tabs alone but for where their executions are.
LEMMA Going ==
  ASSUME IInv,
         UNCHANGED <<dialog, asks>> \/ \E t \in Tabs : UNCHANGED asks /\ Leaves(t),
         DOMAIN exec' = Tabs,
         \A t \in Tabs :
             \/ exec'[t] = Idle
             \/ /\ Working(t)
                /\ DOMAIN exec'[t] = ExecFields
                /\ exec'[t].shown = exec[t].shown /\ exec'[t].plan = exec[t].plan
             \/ exec'[t] = exec[t]
  PROVE  IInv'
<1>1. DOMAIN dialog' = Tabs /\ DOMAIN asks' = Tabs /\ asks' = asks
  BY DEF IInv, Formed, Leaves
<1>2. \A t \in Tabs : dialog'[t] = dialog[t] \/ dialog'[t] = Closed
  BY DEF IInv, Formed, Leaves
<1>3. DOMAIN Closed = DialogFields /\ Closed.preview = None
  BY DEF Closed, DialogFields
<1>4. DOMAIN Idle = ExecFields /\ Idle.shown = None /\ Idle.at = "idle"
  BY DEF Idle, ExecFields
<1>5. Formed'
  BY <1>1, <1>2, <1>3, <1>4 DEF IInv, Formed
<1>6. Built'
  BY <1>1, <1>2, <1>3, <1>4 DEF IInv, Built
<1>7. AppliedAsShown'
  BY <1>4 DEF IInv, AppliedAsShown, Working
<1>8. QED
  BY <1>5, <1>6, <1>7 DEF IInv

LEMMA InitInv == Init => IInv
<1> SUFFICES ASSUME Init PROVE IInv
  OBVIOUS
<1>1. DOMAIN Closed = DialogFields /\ Closed.preview = None
  BY DEF Closed, DialogFields
<1>2. DOMAIN Idle = ExecFields /\ Idle.shown = None /\ Idle.at = "idle"
  BY DEF Idle, ExecFields
<1>3. QED
  BY <1>1, <1>2 DEF Init, IInv, Formed, Built, AppliedAsShown

\* A plan is asked for: nothing is shown yet.
LEMMA LoadInv ==
  ASSUME IInv, NEW t \in Tabs, NEW r, Load(t, r), UNCHANGED exec
  PROVE  IInv'
<1> USE DEF IInv, Formed
<1>1. /\ DOMAIN dialog' = Tabs
      /\ \A u \in Tabs : DOMAIN dialog'[u] = DialogFields /\ dialog'[u].preview = dialog[u].preview
  BY DEF Load, DialogFields
<1>2. /\ DOMAIN asks' = Tabs
      /\ \A u \in Tabs : \A a \in asks'[u] : a \in asks[u] \/ a.reply = None
  BY DEF Load
<1>3. Formed' /\ Built'
  BY <1>1, <1>2 DEF Built
<1>4. AppliedAsShown'
  BY DEF AppliedAsShown, Working
<1>5. QED
  BY <1>3, <1>4

LEMMA AnswerInv ==
  ASSUME IInv, NEW t \in Tabs, Answer(t)
  PROVE  IInv'
<1> USE DEF IInv, Formed
<1>1. PICK a \in asks[t] :
        \E p \in {Request("refused", FALSE, None)} \cup Plans(a.req) :
           a.reply = None /\ asks' = [asks EXCEPT ![t] = (@ \ {a}) \cup {[a EXCEPT !.reply = p]}]
  BY DEF Answer
<1>2. PICK p \in {Request("refused", FALSE, None)} \cup Plans(a.req) :
           asks' = [asks EXCEPT ![t] = (@ \ {a}) \cup {[a EXCEPT !.reply = p]}]
  BY <1>1
<1>3. "op" \in DOMAIN p \/ IsPlan(p)
  BY <1>2, PlansAreBuilt DEF Request
<1>4. \A b : b = [a EXCEPT !.reply = p] => b.reply = p \/ b = a
  OBVIOUS
<1>5. /\ DOMAIN asks' = Tabs
      /\ \A u \in Tabs : \A b \in asks'[u] : b \in asks[u] \/ b.reply = p
  BY <1>2, <1>4
<1>6. Formed' /\ AppliedAsShown'
  BY <1>5 DEF Answer, AppliedAsShown, Working
<1>7. Built'
  BY <1>3, <1>5 DEF Built, Answer
<1>8. QED
  BY <1>6, <1>7

\* What is shown is the answer that came, or nothing.
LEMMA ArriveInv ==
  ASSUME IInv, NEW t \in Tabs, Arrive(t)
  PROVE  IInv'
<1> USE DEF IInv, Formed
<1>1. PICK a \in asks[t] :
        /\ a.reply # None
        /\ asks' = [asks EXCEPT ![t] = @ \ {a}]
        /\ dialog' = [dialog EXCEPT ![t] =
                        IF ~@.open THEN @
                        ELSE [@ EXCEPT !.loading = FALSE,
                                       !.preview = IF "op" \in DOMAIN a.reply THEN None ELSE a.reply]]
  BY DEF Arrive
<1>2. /\ DOMAIN asks' = Tabs
      /\ \A u \in Tabs : asks'[u] \subseteq asks[u]
  BY <1>1
<1>3. /\ DOMAIN dialog' = Tabs
      /\ \A u \in Tabs :
            /\ DOMAIN dialog'[u] = DialogFields
            /\ \/ dialog'[u].preview = dialog[u].preview
               \/ dialog'[u].preview = IF "op" \in DOMAIN a.reply THEN None ELSE a.reply
  BY <1>1 DEF DialogFields
<1>4. "op" \in DOMAIN a.reply \/ IsPlan(a.reply)
  BY <1>1 DEF Built
<1>5. Formed' /\ AppliedAsShown'
  BY <1>2, <1>3 DEF Arrive, AppliedAsShown, Working
<1>6. Built'
  BY <1>2, <1>3, <1>4 DEF Built, Arrive
<1>7. QED
  BY <1>5, <1>6

\* The plan that is clicked is the one that is shown.
LEMMA ClickInv ==
  ASSUME IInv, NEW t \in Tabs, Click(t)
  PROVE  IInv'
<1> USE DEF IInv, Formed
<1>1. /\ DOMAIN exec' = Tabs
      /\ DOMAIN exec'[t] = ExecFields /\ exec'[t].at = "sent" /\ exec'[t].shown = dialog[t].preview
      /\ \A u \in Tabs \ {t} : exec'[u] = exec[u]
  BY DEF Click, Idle, ExecFields
<1>2. UNCHANGED <<dialog, asks>> /\ dialog[t].preview # None
  BY DEF Click, tabVars
<1>3. Formed' /\ Built'
  BY <1>1, <1>2 DEF Built
<1>4. AppliedAsShown'
  BY <1>1 DEF AppliedAsShown, Working
<1>5. QED
  BY <1>3, <1>4

\* The plan is executed only if it has the fingerprint of the one that was shown.
LEMMA CheckInv ==
  ASSUME IInv, NEW t \in Tabs, Check(t)
  PROVE  IInv'
<1> USE DEF IInv, Formed
<1>1. UNCHANGED asks
  BY DEF Check
<1>2. CASE Ended(t)
  <2>1. DOMAIN Idle = ExecFields /\ Idle.shown = None /\ Idle.at = "idle"
    BY DEF Idle, ExecFields
  <2>2. /\ DOMAIN exec' = Tabs
        /\ \A u \in Tabs : exec'[u] = Idle \/ exec'[u] = exec[u]
    BY <1>2 DEF Ended
  <2>3. /\ DOMAIN dialog' = Tabs
        /\ \A u \in Tabs : DOMAIN dialog'[u] = DialogFields /\ dialog'[u].preview = dialog[u].preview
    <3>1. UNCHANGED dialog \/ dialog' = [dialog EXCEPT ![t].stale = TRUE]
      BY DEF Check
    <3>2. QED
      BY <3>1 DEF DialogFields
  <2>4. Formed' /\ Built'
    BY <1>1, <2>1, <2>2, <2>3 DEF Built
  <2>5. AppliedAsShown'
    BY <2>1, <2>2 DEF AppliedAsShown, Working
  <2>6. QED
    BY <2>4, <2>5
<1>3. CASE ~Ended(t)
  <2>1. PICK p \in Plans(exec[t].req) :
        /\ Fingerprint(p) = Fingerprint(exec[t].shown)
        /\ exec' = [exec EXCEPT ![t] = [@ EXCEPT !.at = First(exec[t].req.op), !.plan = p, !.life = life]]
        /\ UNCHANGED dialog
    BY <1>3 DEF Check
  <2>2. /\ DOMAIN exec' = Tabs
        /\ DOMAIN exec'[t] = ExecFields /\ exec'[t].plan = p /\ exec'[t].shown = exec[t].shown
        /\ \A u \in Tabs \ {t} : exec'[u] = exec[u]
    BY <2>1 DEF ExecFields
  <2>3. exec[t].shown # None => AsShown(p, exec[t].shown)
    BY <2>1, PlansAreBuilt, FingerprintTells DEF Built
  <2>4. Formed' /\ Built'
    BY <1>1, <2>1, <2>2 DEF Built
  <2>5. AppliedAsShown'
    BY <2>2, <2>3 DEF AppliedAsShown, AsShown, Working
  <2>6. QED
    BY <2>4, <2>5
<1>4. QED
  BY <1>2, <1>3

\* A pin or an import was never shown.
LEMMA DirectInv ==
  ASSUME IInv, NEW t \in Tabs, Direct(t)
  PROVE  IInv'
<1> USE DEF IInv, Formed
<1>1. UNCHANGED <<dialog, asks>>
  BY DEF Direct, tabVars
<1>2. /\ DOMAIN exec' = Tabs
      /\ DOMAIN exec'[t] = ExecFields /\ exec'[t].shown = None
      /\ \A u \in Tabs \ {t} : exec'[u] = exec[u]
  BY DEF Direct, Idle, ExecFields
<1>3. Formed' /\ Built'
  BY <1>1, <1>2 DEF Built
<1>4. AppliedAsShown'
  BY <1>2 DEF AppliedAsShown, Working
<1>5. QED
  BY <1>3, <1>4

\* The steps that go on with what was checked.
LEMMA TabInv ==
  ASSUME IInv, NEW t \in Tabs, TabNext(t)
  PROVE  IInv'
<1> USE DEF IInv, Formed
<1> DEFINE Kept ==
      /\ DOMAIN exec' = Tabs
      /\ \A u \in Tabs :
             \/ exec'[u] = Idle
             \/ /\ Working(u)
                /\ DOMAIN exec'[u] = ExecFields
                /\ exec'[u].shown = exec[u].shown /\ exec'[u].plan = exec[u].plan
             \/ exec'[u] = exec[u]
           Seen == UNCHANGED <<dialog, asks>> \/ (UNCHANGED asks /\ Leaves(t))
<1>1. ASSUME Ended(t) PROVE Kept
  BY <1>1 DEF Ended
<1>2. ASSUME NEW at, Goes(t, at), Working(t) PROVE Kept
  BY <1>2 DEF Goes, ExecFields
<1>3. ASSUME NEW at, Changes(t, at), Working(t) PROVE Kept
  BY <1>3 DEF Changes, ExecFields
<1>4. ASSUME Kept, Seen PROVE IInv'
  BY <1>4, Going
<1>5. ASSUME UNCHANGED exec PROVE Kept
  BY <1>5
<1>6. CASE \E r \in Requests : Open(t, r)
  BY <1>6, LoadInv DEF Open
<1>7. CASE SetOption(t) \/ Review(t)
  BY <1>7, LoadInv DEF SetOption, Review
<1>8. CASE Answer(t) \/ Arrive(t) \/ Click(t) \/ Check(t) \/ Direct(t)
  BY <1>8, AnswerInv, ArriveInv, ClickInv, CheckInv, DirectInv
<1>9. CASE Close(t)
  <2>1. UNCHANGED <<exec, asks>> /\ Leaves(t)
    BY <1>9 DEF Close, Leaves
  <2>2. QED
    BY <2>1, <1>4, <1>5
<1>10. CASE Keep(t)
  <2>1. Working(t)
    BY <1>10 DEF Keep, Working
  <2>2. Seen
    BY <1>10 DEF Keep, Fails, tabVars
  <2>3. Changes(t, "write") \/ Ended(t)
    BY <1>10 DEF Keep, Fails
  <2>4. QED
    BY <2>1, <2>2, <2>3, <1>1, <1>3, <1>4
<1>11. CASE Write(t)
  <2>1. Working(t)
    BY <1>11 DEF Write, Working
  <2>2. Seen
    BY <1>11 DEF Write, Fails, tabVars
  <2>3. (\E at : Changes(t, at)) \/ Goes(t, "undo") \/ Ended(t)
    BY <1>11 DEF Write, Fails
  <2>4. QED
    BY <2>1, <2>2, <2>3, <1>1, <1>2, <1>3, <1>4
<1>12. CASE Validate(t)
  <2>1. Working(t)
    BY <1>12 DEF Validate, Working
  <2>2. Seen /\ ((\E at : Goes(t, at)) \/ Ended(t))
    BY <1>12 DEF Validate
  <2>3. QED
    BY <2>1, <2>2, <1>1, <1>2, <1>4
<1>13. CASE Undo(t)
  <2>1. Working(t)
    BY <1>13 DEF Undo, Working
  <2>2. Seen /\ ((\E at : Changes(t, at) \/ Goes(t, at)) \/ Ended(t))
    BY <1>13 DEF Undo
  <2>3. QED
    BY <2>1, <2>2, <1>1, <1>2, <1>3, <1>4
<1>14. CASE UndoKept(t)
  <2>1. Working(t)
    BY <1>14 DEF UndoKept, Working
  <2>2. Seen /\ (Changes(t, "idle") \/ Ended(t))
    BY <1>14 DEF UndoKept
  <2>3. QED
    BY <2>1, <2>2, <1>1, <1>3, <1>4
<1>15. CASE Drop(t)
  <2>1. Working(t) /\ Seen /\ (Changes(t, "publish") \/ Ended(t))
    BY <1>15 DEF Drop, Fails, Working, tabVars
  <2>2. QED
    BY <2>1, <1>1, <1>3, <1>4
<1>16. CASE Validated(t)
  <2>1. Working(t)
    BY <1>16 DEF Validated, Working
  <2>2. Seen /\ (Goes(t, "publish") \/ Ended(t))
    BY <1>16 DEF Validated
  <2>3. QED
    BY <2>1, <2>2, <1>1, <1>2, <1>4
<1>17. CASE Publish(t)
  <2>1. Seen /\ Ended(t)
    BY <1>17 DEF Publish
  <2>2. QED
    BY <2>1, <1>1, <1>4
<1>18. CASE Stop(t) \/ Settle(t)
  <2>1. UNCHANGED <<dialog, asks, exec>>
    BY <1>18 DEF Stop, Settle
  <2>2. QED
    BY <2>1, <1>4, <1>5
<1>19. QED
  BY <1>6, <1>7, <1>8, <1>9, <1>10, <1>11, <1>12, <1>13, <1>14, <1>15, <1>16, <1>17, <1>18 DEF TabNext

\* A restart forgets what was under way and what was asked for.
LEMMA RestartInv ==
  ASSUME IInv, Restart
  PROVE  IInv'
<1> USE DEF IInv, Formed
<1>1. DOMAIN Idle = ExecFields /\ Idle.shown = None /\ Idle.at = "idle"
  BY DEF Idle, ExecFields
<1>2. /\ DOMAIN exec' = Tabs /\ \A t \in Tabs : exec'[t] = Idle
      /\ DOMAIN asks' = Tabs /\ \A t \in Tabs : asks'[t] = {}
  BY DEF Restart
<1>3. /\ DOMAIN dialog' = Tabs
      /\ \A t \in Tabs :
            /\ DOMAIN dialog'[t] = DialogFields
            /\ dialog'[t].preview = dialog[t].preview \/ dialog'[t].preview = None
  BY DEF Restart, DialogFields
<1>4. QED
  BY <1>1, <1>2, <1>3 DEF Built, AppliedAsShown, Working

LEMMA NextInv == IInv /\ [Next]_vars => IInv'
<1> SUFFICES ASSUME IInv, [Next]_vars PROVE IInv'
  OBVIOUS
<1>1. CASE \E t \in Tabs : TabNext(t)
  BY <1>1, TabInv
<1>2. CASE RunUp \/ RunStop
  <2>1. UNCHANGED <<dialog, asks, exec>>
    BY <1>2 DEF RunUp, RunStop, tabVars
  <2>2. QED
    BY <2>1, Going DEF IInv, Formed
<1>3. CASE RunDown
  <2>1. UNCHANGED <<dialog, asks>>
    BY <1>3 DEF RunDown, tabVars
  <2>2. \/ UNCHANGED exec
        \/ exec' = [t \in Tabs |-> IF Working(t) THEN [exec[t] EXCEPT !.spoiled = TRUE] ELSE exec[t]]
    BY <1>3 DEF RunDown
  <2>3. QED
    BY <2>1, <2>2, Going DEF IInv, Formed, ExecFields
<1>4. CASE Restart
  BY <1>4, RestartInv
<1>5. CASE UNCHANGED vars
  BY <1>5, Going DEF IInv, Formed, vars, tabVars
<1>6. QED
  BY <1>1, <1>2, <1>3, <1>4, <1>5 DEF Next

\* What is executed is what the dialog showed when its button was clicked (apps.ts:88), but for
\* the secrets an install generates (app-plan.ts:504): for any number of tabs, whatever answer
\* came last and whatever changed meanwhile.
THEOREM AppliesWhatWasShown == Spec => []AppliedAsShown
<1>1. Init => IInv
  BY InitInv
<1>2. IInv /\ [Next]_vars => IInv'
  BY NextInv
<1>3. IInv => AppliedAsShown
  BY DEF IInv
<1>4. QED
  BY <1>1, <1>2, <1>3, PTL DEF Spec

----------------------------------------------------------------------------
(* What is known of a plan that is carried out.  AtFits: the step it is at    *)
(* belongs to its operation.  PlanFits: what it writes and observed, whoever  *)
(* changed the files since.  FreshAt: where nobody did, the files are those   *)
(* the plan left, step by step.                                               *)

Writers == {"create", "save", "install", "update", "rollback", "pin", "import"}

AtFits(e) ==
    \/ e.at = "keep" /\ e.req.op = "update"
    \/ e.at = "write" /\ e.req.op \in Writers
    \/ e.at \in {"validate", "undo"} /\ e.req.op \in {"update", "rollback", "install"}
    \/ e.at = "undoKept" /\ e.req.op = "update"
    \/ e.at = "drop" /\ e.req.op = "rollback"
    \/ e.at = "check" /\ e.req.op \in {"apply", "create"}
    \/ e.at = "publish" /\ e.req.op \notin {"save", "pin", "import"}

PlanFits(op, p) ==
    /\ Before(p) \in OptContents /\ KeptBefore(p) \in OptContents
    /\ op \in Writers => p.writes \in Contents
    /\ p.writes \in OptContents
    /\ op = "install" => Before(p) = None /\ KeptBefore(p) = None /\ p.steps.starts
    /\ op = "update" =>
        /\ Before(p) \in Contents /\ Before(p).img < Catalog
        /\ p.writes = [Before(p) EXCEPT !.img = Catalog]
        /\ p.steps.starts <=> p.observed[3] = "running"
    /\ op = "rollback" =>
        /\ Before(p) \in Contents /\ KeptBefore(p) \in Contents
        /\ p.writes = [Before(p) EXCEPT !.img = KeptBefore(p).img]

Askable(r) == r \in Requests \/ \E o \in BOOLEAN : r = Request("remove", o, None)

Asked ==
    \A t \in Tabs :
        /\ dialog[t].open => Askable(dialog[t].req)
        /\ exec[t].at = "sent" => Askable(exec[t].req)

FitsAt(t) ==
    Working(t) =>
        /\ AtFits(exec[t])
        /\ PlanFits(exec[t].req.op, exec[t].plan)
        /\ exec[t].life \in Nat

Data ==
    /\ file \in OptContents /\ kept \in OptContents
    /\ runs \in [of : OptContents, up : BOOLEAN]
    /\ jobCount \in Nat /\ life \in Nat
    /\ mode \in {"whole", "interrupted", "blurred"}
    /\ doubt \in BOOLEAN /\ behind \in BOOLEAN

Carried == Formed /\ Data /\ Asked /\ \A t \in Tabs : FitsAt(t)

----------------------------------------------------------------------------
(* What the three ways of going on do to the executions *)

LEMMA EndedDoes ==
  ASSUME Formed, NEW t \in Tabs, Ended(t)
  PROVE  /\ DOMAIN exec' = Tabs /\ exec'[t] = Idle
         /\ \A u \in Tabs \ {t} : exec'[u] = exec[u]
BY DEF Formed, Ended

LEMMA GoesDoes ==
  ASSUME Formed, NEW t \in Tabs, NEW at, Goes(t, at)
  PROVE  /\ DOMAIN exec' = Tabs /\ DOMAIN exec'[t] = ExecFields
         /\ exec'[t].at = at /\ exec'[t].req = exec[t].req /\ exec'[t].plan = exec[t].plan
         /\ exec'[t].life = exec[t].life /\ exec'[t].spoiled = exec[t].spoiled
         /\ \A u \in Tabs \ {t} : exec'[u] = exec[u]
BY DEF Formed, Goes, ExecFields

LEMMA ChangesDoes ==
  ASSUME Formed, NEW t \in Tabs, NEW at, at # "idle", Changes(t, at)
  PROVE  /\ DOMAIN exec' = Tabs /\ DOMAIN exec'[t] = ExecFields
         /\ exec'[t].at = at /\ exec'[t].req = exec[t].req /\ exec'[t].plan = exec[t].plan
         /\ exec'[t].life = exec[t].life /\ exec'[t].spoiled = exec[t].spoiled
BY DEF Formed, Changes, ExecFields

LEMMA ChangesEnds ==
  ASSUME Formed, NEW t \in Tabs, Changes(t, "idle")
  PROVE  DOMAIN exec' = Tabs /\ exec'[t] = Idle
BY DEF Formed, Changes

LEMMA ChangesSpoils ==
  ASSUME Formed, NEW t \in Tabs, NEW at, Changes(t, at), NEW u \in Tabs \ {t}
  PROVE  /\ exec'[u].at = exec[u].at /\ exec'[u].req = exec[u].req
         /\ exec'[u].plan = exec[u].plan /\ exec'[u].life = exec[u].life
         /\ IF Working(u) THEN exec'[u].spoiled ELSE exec'[u] = exec[u]
BY DEF Formed, Changes, ExecFields

LEMMA IdleRests == Idle.at = "idle" /\ Closed.open = FALSE
BY DEF Idle, Closed

\* What an execution is at and was built from, not whether it is spoiled.
SameRun(u) ==
    /\ exec'[u].at = exec[u].at /\ exec'[u].req = exec[u].req
    /\ exec'[u].plan = exec[u].plan /\ exec'[u].life = exec[u].life

LEMMA FitsStays ==
  ASSUME NEW u \in Tabs, FitsAt(u), SameRun(u)
  PROVE  FitsAt(u)'
BY DEF FitsAt, SameRun, Working, AtFits, PlanFits

\* The other tabs, whichever way t goes on.
LEMMA OthersFit ==
  ASSUME Formed, NEW t \in Tabs, NEW at, Ended(t) \/ Goes(t, at) \/ Changes(t, at),
         \A u \in Tabs : FitsAt(u), NEW u \in Tabs \ {t}
  PROVE  FitsAt(u)'
BY EndedDoes, GoesDoes, ChangesSpoils, FitsStays DEF SameRun

\* The tab itself: it ends, or its next step is one of its operation.
LEMMA SelfFits ==
  ASSUME Formed, NEW t \in Tabs, NEW at, FitsAt(t),
         \/ Ended(t)
         \/ Changes(t, "idle")
         \/ /\ at # "idle" /\ (Goes(t, at) \/ Changes(t, at))
            /\ Working(t) /\ (AtFits(exec[t]) => AtFits([at |-> at, req |-> exec[t].req]))
  PROVE  FitsAt(t)'
<1>1. CASE Ended(t) \/ Changes(t, "idle")
  BY <1>1, EndedDoes, ChangesEnds, IdleRests DEF FitsAt, Working
<1>2. CASE /\ at # "idle" /\ (Goes(t, at) \/ Changes(t, at))
           /\ Working(t) /\ (AtFits(exec[t]) => AtFits([at |-> at, req |-> exec[t].req]))
  <2>1. /\ exec'[t].at = at /\ exec'[t].req = exec[t].req
        /\ exec'[t].plan = exec[t].plan /\ exec'[t].life = exec[t].life
    BY <1>2, GoesDoes, ChangesDoes
  <2>2. AtFits(exec'[t]) <=> AtFits([at |-> at, req |-> exec[t].req])
    BY <2>1 DEF AtFits
  <2>3. PlanFits(exec[t].req.op, exec[t].plan)' = PlanFits(exec[t].req.op, exec[t].plan)
    BY <2>1 DEF PlanFits
  <2> QED BY <1>2, <2>1, <2>2, <2>3 DEF FitsAt
<1> QED BY <1>1, <1>2

\* A request the dialog may hold carries a content where its operation writes one.
LEMMA AskedWrites ==
  ASSUME NEW r, Askable(r)
  PROVE  /\ r.op \in {"create", "save", "install"} => r.new \in Contents
         /\ r.op \in {"create", "save", "install", "apply", "start", "update", "rollback", "remove"}
<1>1. Inputs \subseteq Contents /\ Catalog \in Images
  BY AppPlansAssumption
<1>2. \A c \in Inputs : [img |-> Catalog, rev |-> c.rev] \in Contents
  BY <1>1 DEF Contents
<1> QED BY <1>1, <1>2 DEF Askable, Requests, Request

LEMMA BuildFits ==
  ASSUME Data, NEW r, Askable(r), NEW p \in Plans(r)
  PROVE  /\ PlanFits(r.op, p)
         /\ Before(p) = file
         /\ r.op \in {"update", "rollback"} => KeptBefore(p) = kept
<1>0. PICK s \in Secrets(r) : p = Build(r, s) /\ ~Refused(r)
  BY PlansAreBuilt
<1>1. /\ p.req = r /\ p.observed = Observed(r) /\ p.writes = Written(r, s)
      /\ p.steps.starts <=> Starts(r)
  <2>1. /\ p.req = r /\ p.observed = Observed(r) /\ p.writes = Written(r, s)
        /\ p.steps = Steps(r, Written(r, s))
    BY <1>0 DEF Build
  <2>2. Steps(r, Written(r, s)).starts <=> Starts(r)
    BY DEF Steps
  <2> QED BY <2>1, <2>2
<1>2. None \notin Contents /\ Images \subseteq Nat /\ Catalog \in Images
  BY AppPlansAssumption
<1>3. r.op \in {"create", "save", "install"} => r.new \in Contents
  BY AskedWrites
<1>4. CASE r.op = "install"
  <2>1. file = None
    BY <1>0, <1>4 DEF Refused
  <2>2. Before(p) = None /\ KeptBefore(p) = None
    BY <1>1, <1>4 DEF Before, KeptBefore, Observed
  <2>3. p.writes \in Contents /\ p.steps.starts
    BY <1>1, <1>2, <1>3, <1>4 DEF Written, Starts, Secrets, Draws, Contents
  <2> QED BY <2>1, <2>2, <2>3, <1>4 DEF PlanFits, OptContents
<1>5. CASE r.op = "update"
  <2>1. file \in Contents /\ file.img < Catalog
    BY <1>0, <1>2, <1>5 DEF Refused, Data, OptContents, Contents
  <2>2. p.observed = <<file, kept, Status>> /\ (p.steps.starts <=> Status = "running")
    BY <1>1, <1>5 DEF Observed, Starts
  <2>3. Before(p) = file /\ KeptBefore(p) = kept /\ p.observed[3] = Status
    BY <2>2 DEF Before, KeptBefore
  <2>4. p.writes = [file EXCEPT !.img = Catalog]
    BY <1>1, <1>5 DEF Written, Draws
  <2>5. p.writes \in Contents
    BY <1>2, <2>1, <2>4 DEF Contents
  <2> QED BY <2>1, <2>2, <2>3, <2>4, <2>5, <1>5 DEF PlanFits, OptContents, Data
<1>6. CASE r.op = "rollback"
  <2>1. file \in Contents /\ kept \in Contents
    BY <1>0, <1>2, <1>6 DEF Refused, Data, OptContents
  <2>2. p.observed = <<file, kept>>
    BY <1>1, <1>6 DEF Observed
  <2>3. Before(p) = file /\ KeptBefore(p) = kept
    BY <2>2 DEF Before, KeptBefore
  <2>4. p.writes = [file EXCEPT !.img = kept.img]
    BY <1>1, <1>6 DEF Written, Draws
  <2>5. p.writes \in Contents
    BY <1>2, <2>1, <2>4 DEF Contents
  <2> QED BY <2>1, <2>3, <2>4, <2>5, <1>6 DEF PlanFits, OptContents, Data
<1>7. CASE r.op \notin {"install", "update", "rollback"}
  <2>1. p.observed = <<file>>
    BY <1>1, <1>7 DEF Observed
  <2>2. Before(p) = file /\ KeptBefore(p) = None
    BY <2>1 DEF Before, KeptBefore
  <2>3. r.op \in Writers => p.writes \in Contents
    BY <1>1, <1>3, <1>7, AskedWrites DEF Written, Writers, Draws
  <2>4. p.writes \in OptContents
    BY <1>1, <1>3, <1>7 DEF Written, OptContents, Draws
  <2> QED BY <2>2, <2>3, <2>4, <1>7 DEF PlanFits, OptContents, Data
<1> QED BY <1>4, <1>5, <1>6, <1>7

\* A pin or an import has the file it found as what was before.
LEMMA DirectFits ==
  ASSUME Data, NEW r, r.op \in {"pin", "import"}, r.new \in Contents
  PROVE  /\ PlanFits(r.op, [Build(r, None) EXCEPT !.writes = r.new])
         /\ Before([Build(r, None) EXCEPT !.writes = r.new]) = file
<1> DEFINE p == [Build(r, None) EXCEPT !.writes = r.new]
<1>1. p.observed = <<file>> /\ p.writes = r.new
  BY DEF Build, Observed
<1> HIDE DEF p
<1>2. Before(p) = file /\ KeptBefore(p) = None
  BY <1>1 DEF Before, KeptBefore
<1> QED BY <1>1, <1>2 DEF PlanFits, OptContents, Data, p

\* The steps of a plan keep to the contents.
LEMMA DiskStays ==
  ASSUME Carried, NEW t \in Tabs,
         Keep(t) \/ Write(t) \/ Validate(t) \/ Undo(t) \/ UndoKept(t) \/ Drop(t)
           \/ Validated(t) \/ Publish(t)
  PROVE  Data'
<1> USE DEF Carried, Data
<1>1. FitsAt(t)
  OBVIOUS
<1>2. None \in OptContents
  BY DEF OptContents
<1>3. \A at : Changes(t, at) => life' \in Nat /\ mode' \in {"whole", "interrupted", "blurred"}
  BY DEF Changes
<1>4. CASE Keep(t)
  BY <1>1, <1>3, <1>4 DEF Keep, Fails, FitsAt, PlanFits, Working, disk, history, counts
<1>5. CASE Write(t)
  BY <1>1, <1>3, <1>5 DEF Write, Fails, FitsAt, PlanFits, Working, disk, history, counts
<1>6. CASE Validate(t)
  BY <1>1, <1>6 DEF Validate, FitsAt, PlanFits, Working, disk, counts
<1>7. CASE Undo(t)
  BY <1>1, <1>2, <1>3, <1>7 DEF Undo, FitsAt, PlanFits, Working, disk
<1>8. CASE UndoKept(t)
  BY <1>1, <1>3, <1>8 DEF UndoKept, FitsAt, PlanFits, Working, disk
<1>9. CASE Drop(t)
  <2>1. CASE kept' = None /\ Changes(t, "publish")
    BY <1>2, <1>3, <1>9, <2>1 DEF Drop, Fails, disk, counts
  <2>2. CASE Fails(t)
    BY <1>2, <1>3, <1>9, <2>2 DEF Drop, Fails, disk, counts
  <2> QED BY <1>9, <2>1, <2>2 DEF Drop
<1>10. CASE Validated(t)
  BY <1>10 DEF Validated, disk, counts
<1>11. CASE Publish(t)
  <2>1. UNCHANGED <<file, kept, runs, life, mode>>
    BY <1>11 DEF Publish, disk
  <2>2. jobCount' \in Nat
    <3>1. jobCount' = jobCount + 1 \/ jobCount' = jobCount
      BY <1>11, Zenon DEF Publish, Queue
    <3> QED BY <3>1
  <2>3. doubt' \in BOOLEAN /\ behind' \in BOOLEAN
    BY <1>11, Zenon DEF Publish
  <2> QED BY <2>1, <2>2, <2>3
<1> QED BY <1>4, <1>5, <1>6, <1>7, <1>8, <1>9, <1>10, <1>11

\* They go to a step of the operation.
LEMMA StepFits ==
  ASSUME Carried, NEW t \in Tabs,
         Keep(t) \/ Write(t) \/ Validate(t) \/ Undo(t) \/ UndoKept(t) \/ Drop(t)
           \/ Validated(t) \/ Publish(t)
  PROVE  \A u \in Tabs : FitsAt(u)'
<1>1. PICK at : \/ Ended(t)
                \/ Changes(t, "idle")
                \/ /\ at # "idle" /\ (Goes(t, at) \/ Changes(t, at))
                   /\ Working(t) /\ (AtFits(exec[t]) => AtFits([at |-> at, req |-> exec[t].req]))
  <2> USE DEF Working, AtFits, Writers
  <2>1. CASE Keep(t)
    BY <2>1 DEF Keep, Fails
  <2>2. CASE Write(t)
    BY <2>2 DEF Write, Fails
  <2>3. CASE Validate(t)
    BY <2>3 DEF Validate
  <2>4. CASE Undo(t)
    BY <2>4 DEF Undo
  <2>5. CASE UndoKept(t) \/ Validated(t) \/ Publish(t)
    BY <2>5 DEF UndoKept, Validated, Publish
  <2>6. CASE Drop(t)
    BY <2>6 DEF Drop, Fails
  <2> QED BY <2>1, <2>2, <2>3, <2>4, <2>5, <2>6
<1>2. FitsAt(t)'
  BY <1>1, SelfFits DEF Carried
<1>3. \A u \in Tabs \ {t} : FitsAt(u)'
  BY <1>1, OthersFit DEF Carried
<1> QED BY <1>2, <1>3

\* The dialogs hold requests; an execution that is sent has one.
LEMMA AskedStays ==
  ASSUME Formed, Asked,
         \A t \in Tabs : (dialog'[t].open = dialog[t].open /\ dialog'[t].req = dialog[t].req)
                          \/ dialog'[t].open = FALSE \/ Askable(dialog'[t].req),
         \A t \in Tabs : (exec'[t].at = exec[t].at /\ exec'[t].req = exec[t].req)
                          \/ exec'[t].at # "sent" \/ Askable(exec'[t].req)
  PROVE  Asked'
BY DEF Asked, Askable

LEMMA LoadAsks ==
  ASSUME Formed, Asked, NEW t \in Tabs, NEW r, Askable(r), Load(t, r), UNCHANGED exec
  PROVE  Asked'
<1>1. \A u \in Tabs : dialog'[u].req = r \/ dialog'[u] = dialog[u]
  BY DEF Load, Formed, DialogFields
<1> QED BY <1>1, AskedStays

LEMMA RemoveAsked ==
  ASSUME NEW d, Askable(d), d.op = "remove"
  PROVE  \E o \in BOOLEAN : d = Request("remove", o, None)
<1>1. \A op, o, c : d = Request(op, o, c) => op = "remove"
  BY DEF Request
<1>2. CASE d \in Requests
  <2> DEFINE A == {Request("create", o, c) : o \in BOOLEAN, c \in Inputs}
             B == {Request("save", FALSE, c) : c \in Inputs}
             C == {Request("install", o, [img |-> Catalog, rev |-> c.rev])
                     : o \in BOOLEAN, c \in Inputs}
             D == {Request(op, FALSE, None) : op \in {"apply", "start", "update", "rollback", "remove"}}
  <2>1. Requests = A \cup B \cup C \cup D
    BY DEF Requests
  <2>2. d \notin A /\ d \notin B /\ d \notin C
    <3>1. d \notin A
      BY <1>1
    <3>2. d \notin B
      BY <1>1
    <3>3. ASSUME d \in C PROVE FALSE
      <4>1. PICK o \in BOOLEAN, c \in Inputs :
               d = Request("install", o, [img |-> Catalog, rev |-> c.rev])
        BY <3>3
      <4> QED BY <1>1, <4>1 DEF Request
    <3> HIDE DEF A, B, C
    <3> QED BY <3>1, <3>2, <3>3
  <2>3. d \in D => \E op : d = Request(op, FALSE, None)
    OBVIOUS
  <2> HIDE DEF A, B, C, D
  <2>4. d \in D
    BY <1>2, <2>1, <2>2
  <2> QED BY <1>1, <2>3, <2>4
<1> QED BY <1>2 DEF Askable

LEMMA TabAsks ==
  ASSUME Carried, NEW t \in Tabs, TabNext(t)
  PROVE  Asked'
<1> USE DEF Carried
<1>1. CASE \E r \in Requests : Open(t, r)
  BY <1>1, LoadAsks DEF Open, Askable
<1>2. CASE SetOption(t)
  <2>1. dialog[t].open /\ dialog[t].req.op = "remove"
    BY <1>2 DEF SetOption
  <2>2. Askable(dialog[t].req)
    BY <2>1 DEF Asked
  <2>3. PICK o \in BOOLEAN : dialog[t].req = Request("remove", o, None)
    BY <2>1, <2>2, RemoveAsked
  <2>4. [dialog[t].req EXCEPT !.opt = ~@] = Request("remove", ~o, None)
    BY <2>3 DEF Request
  <2>5. Askable([dialog[t].req EXCEPT !.opt = ~@])
    BY <2>4 DEF Askable
  <2> QED BY <1>2, <2>5, LoadAsks DEF SetOption
<1>3. CASE Review(t)
  BY <1>3, LoadAsks DEF Review, Asked
<1>4. CASE Answer(t)
  BY <1>4, AskedStays DEF Answer
<1>5. CASE Arrive(t)
  <2>1. UNCHANGED exec
    BY <1>5 DEF Arrive
  <2>2. \A u \in Tabs : dialog'[u].open = dialog[u].open /\ dialog'[u].req = dialog[u].req
    BY <1>5 DEF Arrive, Formed, DialogFields
  <2> QED BY <2>1, <2>2, AskedStays
<1>6. CASE Close(t)
  BY <1>6, AskedStays, IdleRests DEF Close, Formed
<1>7. CASE Click(t)
  <2>1. UNCHANGED dialog /\ dialog[t].open
    BY <1>7 DEF Click, tabVars
  <2>2. exec'[t].req = dialog[t].req /\ \A u \in Tabs \ {t} : exec'[u] = exec[u]
    BY <1>7 DEF Click, Formed, Idle
  <2> QED BY <2>1, <2>2, AskedStays DEF Asked
<1>8. CASE Check(t)
  <2>1. \A u \in Tabs : dialog'[u].open = dialog[u].open /\ dialog'[u].req = dialog[u].req
    <3>1. UNCHANGED dialog \/ dialog' = [dialog EXCEPT ![t].stale = TRUE]
      BY <1>8 DEF Check
    <3> QED BY <3>1 DEF Formed, DialogFields
  <2>2. exec'[t] = Idle \/ exec'[t].req = exec[t].req
    BY <1>8 DEF Check, Ended, Formed, ExecFields
  <2>3. \A u \in Tabs \ {t} : exec'[u] = exec[u]
    BY <1>8 DEF Check, Ended, Formed
  <2>4. exec[t].at = "sent"
    BY <1>8 DEF Check
  <2> QED BY <2>1, <2>2, <2>3, <2>4, AskedStays, IdleRests DEF Asked
<1>9. CASE Direct(t)
  <2>1. UNCHANGED dialog
    BY <1>9 DEF Direct, tabVars
  <2>2. exec'[t].at = "write" /\ \A u \in Tabs \ {t} : exec'[u] = exec[u]
    BY <1>9 DEF Direct, Formed, Idle
  <2> QED BY <2>1, <2>2, AskedStays
<1>10. CASE \/ Keep(t) \/ Write(t) \/ Validate(t) \/ Undo(t) \/ UndoKept(t) \/ Drop(t)
            \/ Validated(t) \/ Publish(t)
  <2>1. \A u \in Tabs : dialog'[u] = dialog[u] \/ dialog'[u] = Closed
    BY <1>10 DEF Keep, Write, Validate, Undo, UndoKept, Drop, Validated, Publish, Fails,
                 Leaves, Formed, tabVars
  <2>2. PICK at : at # "sent" /\ (Ended(t) \/ Goes(t, at) \/ Changes(t, at))
    BY <1>10 DEF Keep, Write, Validate, Undo, UndoKept, Drop, Validated, Publish, Fails
  <2>3. exec'[t].at # "sent"
    <3>1. CASE at = "idle" /\ Changes(t, at)
      BY <3>1, ChangesEnds, IdleRests
    <3>2. CASE ~(at = "idle" /\ Changes(t, at))
      BY <2>2, <3>2, EndedDoes, GoesDoes, ChangesDoes, IdleRests
    <3> QED BY <3>1, <3>2
  <2>4. \A u \in Tabs \ {t} : exec'[u].at = exec[u].at /\ exec'[u].req = exec[u].req
    BY <2>2, EndedDoes, GoesDoes, ChangesSpoils
  <2> QED BY <2>1, <2>3, <2>4, AskedStays, IdleRests
<1>11. CASE Stop(t) \/ Settle(t)
  BY <1>11, AskedStays DEF Stop, Settle
<1> QED BY <1>1, <1>2, <1>3, <1>4, <1>5, <1>6, <1>7, <1>8, <1>9, <1>10, <1>11 DEF TabNext

LEMMA MadeOf ==
  ASSUME NEW c \in OptContents, NEW b \in BOOLEAN
  PROVE  [of |-> c, up |-> b] \in [of : OptContents, up : BOOLEAN]
OBVIOUS

\* The plan that is executed was built of the files as they are.
LEMMA CheckFits ==
  ASSUME Carried, NEW t \in Tabs, Check(t)
  PROVE  \A u \in Tabs : FitsAt(u)'
<1> USE DEF Carried, Formed
<1>1. \A u \in Tabs \ {t} : exec'[u] = exec[u]
  BY DEF Check, Ended
<1>2. \A u \in Tabs \ {t} : FitsAt(u)'
  BY <1>1, FitsStays DEF SameRun
<1>3. CASE Ended(t)
  BY <1>2, <1>3, EndedDoes, IdleRests DEF FitsAt, Working
<1>4. CASE ~Ended(t)
  <2> DEFINE r == exec[t].req
  <2>1. PICK p \in Plans(r) :
           exec' = [exec EXCEPT ![t] = [@ EXCEPT !.at = First(r.op), !.plan = p, !.life = life]]
    BY <1>4 DEF Check
  <2>2. /\ exec'[t].at = First(r.op) /\ exec'[t].req = r
        /\ exec'[t].plan = p /\ exec'[t].life = life
    BY <2>1 DEF ExecFields
  <2>3. Askable(r)
    BY DEF Check, Asked
  <2>4. PlanFits(r.op, p)
    BY <2>1, <2>3, BuildFits
  <2>5. r.op \in {"create", "save", "install", "apply", "start", "update", "rollback", "remove"}
    BY <2>3, AskedWrites
  <2> HIDE DEF r
  <2>6. AtFits(exec'[t])
    BY <2>2, <2>5 DEF AtFits, First, Writers
  <2>7. life \in Nat
    BY DEF Data
  <2>8. FitsAt(t)'
    BY <2>2, <2>4, <2>6, <2>7 DEF FitsAt, PlanFits
  <2> QED BY <1>2, <2>8
<1> QED BY <1>3, <1>4

\* A pin writes a content with another setting, an import one that was typed in.
LEMMA DirectStarts ==
  ASSUME Carried, NEW t \in Tabs, Direct(t)
  PROVE  \E r : /\ r.op \in {"pin", "import"} /\ r.new \in Contents
                /\ exec'[t].at = "write" /\ exec'[t].req = r
                /\ exec'[t].plan = [Build(r, None) EXCEPT !.writes = r.new]
                /\ exec'[t].life = life /\ ~exec'[t].spoiled
                /\ \A u \in Tabs \ {t} : exec'[u] = exec[u]
<1> USE DEF Carried, Formed
<1>1. PICK r \in {Request("pin", FALSE, IF file = None THEN None ELSE [file EXCEPT !.rev = v]) : v \in Revs}
              \cup {Request("import", FALSE, c) : c \in Inputs} :
         /\ (r.op = "pin") = (file # None)
         /\ exec' = [exec EXCEPT ![t] = [Idle EXCEPT !.at = "write", !.req = r, !.life = life,
                                           !.plan = [Build(r, None) EXCEPT !.writes = r.new]]]
  BY DEF Direct
<1>2. r.op \in {"pin", "import"} /\ r.new \in Contents
  <2>1. CASE \E c \in Inputs : r = Request("import", FALSE, c)
    BY <2>1, AppPlansAssumption DEF Request
  <2>2. CASE \E v \in Revs : r = Request("pin", FALSE, IF file = None THEN None ELSE [file EXCEPT !.rev = v])
    <3>1. PICK v \in Revs : r = Request("pin", FALSE, IF file = None THEN None ELSE [file EXCEPT !.rev = v])
      BY <2>2
    <3>2. r.op = "pin"
      BY <3>1 DEF Request
    <3>3. file \in Contents
      BY <1>1, <3>2 DEF Data, OptContents
    <3>4. r.new = [file EXCEPT !.rev = v]
      BY <1>1, <3>1, <3>2 DEF Request
    <3> QED BY <3>2, <3>3, <3>4 DEF Contents
  <2> QED BY <1>1, <2>1, <2>2
<1> QED BY <1>1, <1>2 DEF Idle

LEMMA DirectKeepsFit ==
  ASSUME Carried, NEW t \in Tabs, Direct(t)
  PROVE  \A u \in Tabs : FitsAt(u)'
<1> USE DEF Carried, Formed
<1>1. PICK r : /\ r.op \in {"pin", "import"} /\ r.new \in Contents
               /\ exec'[t].at = "write" /\ exec'[t].req = r
               /\ exec'[t].plan = [Build(r, None) EXCEPT !.writes = r.new]
               /\ exec'[t].life = life /\ ~exec'[t].spoiled
               /\ \A u \in Tabs \ {t} : exec'[u] = exec[u]
  BY DirectStarts
<1>2. \A u \in Tabs \ {t} : FitsAt(u)'
  BY <1>1, FitsStays DEF SameRun
<1>3. PlanFits(r.op, exec'[t].plan) /\ AtFits(exec'[t]) /\ life \in Nat
  BY <1>1, DirectFits DEF AtFits, Writers, Data
<1>4. FitsAt(t)'
  BY <1>1, <1>3 DEF FitsAt, PlanFits
<1> QED BY <1>2, <1>4

\* A tab's step keeps to the contents and to the steps of its operation.
LEMMA TabCarries ==
  ASSUME IInv, Carried, NEW t \in Tabs, TabNext(t)
  PROVE  Carried'
<1>1. Formed' /\ Asked'
  BY TabInv, TabAsks DEF IInv
<1>2. CASE \/ Keep(t) \/ Write(t) \/ Validate(t) \/ Undo(t) \/ UndoKept(t) \/ Drop(t)
           \/ Validated(t) \/ Publish(t)
  BY <1>1, <1>2, DiskStays, StepFits DEF Carried
<1>3. CASE \/ \E r \in Requests : Open(t, r)
           \/ SetOption(t) \/ Review(t) \/ Answer(t) \/ Arrive(t) \/ Close(t) \/ Click(t)
           \/ Check(t) \/ Direct(t) \/ Stop(t) \/ Settle(t)
  <2>1. UNCHANGED <<disk, runs, history>> /\ (UNCHANGED jobCount \/ jobCount' = jobCount + 1)
    <3> USE DEF disk, history, counts
    <3>1. CASE \E r \in Requests : Open(t, r)
      BY <3>1 DEF Open
    <3>2. CASE SetOption(t) \/ Review(t)
      BY <3>2 DEF SetOption, Review
    <3>3. CASE Answer(t) \/ Arrive(t) \/ Close(t) \/ Click(t)
      BY <3>3 DEF Answer, Arrive, Close, Click
    <3>4. CASE Check(t) \/ Direct(t) \/ Stop(t) \/ Settle(t)
      BY <3>4 DEF Check, Direct, Stop, Settle, Queue
    <3> QED BY <1>3, <3>1, <3>2, <3>3, <3>4
  <2>2. Data'
    BY <2>1 DEF Carried, Data, disk, history
  <2>3. \A u \in Tabs : FitsAt(u)'
    <3>1. CASE Check(t)
      BY <3>1, CheckFits
    <3>2. CASE Direct(t)
      BY <3>2, DirectKeepsFit
    <3>3. CASE Click(t)
      <4>1. /\ \A u \in Tabs \ {t} : exec'[u] = exec[u]
            /\ exec'[t].at = "sent"
        BY <3>3 DEF Click, Carried, Formed, Idle
      <4> QED BY <4>1, FitsStays DEF Carried, SameRun, FitsAt, Working
    <3>4. CASE ~Check(t) /\ ~Direct(t) /\ ~Click(t)
      <4>1. UNCHANGED exec
        <5>1. CASE (\E r \in Requests : Open(t, r)) \/ SetOption(t) \/ Review(t)
          BY <5>1 DEF Open, SetOption, Review
        <5>2. CASE Answer(t) \/ Arrive(t) \/ Close(t) \/ Stop(t) \/ Settle(t)
          BY <5>2 DEF Answer, Arrive, Close, Stop, Settle
        <5> QED BY <1>3, <3>4, <5>1, <5>2
      <4> QED BY <4>1, FitsStays DEF Carried, SameRun
    <3> QED BY <3>1, <3>2, <3>3, <3>4
  <2> QED BY <1>1, <2>2, <2>3 DEF Carried
<1> QED BY <1>2, <1>3 DEF TabNext

LEMMA NextCarries == IInv /\ Carried /\ [Next]_vars => Carried'
<1> SUFFICES ASSUME IInv, Carried, [Next]_vars PROVE Carried'
  OBVIOUS
<1>1. Formed'
  BY NextInv DEF IInv
<1>2. CASE \E t \in Tabs : TabNext(t)
  BY <1>2, TabCarries
<1>3. CASE RunUp \/ RunStop \/ UNCHANGED vars
  <2>1. UNCHANGED <<disk, tabVars, exec, life, mode, jobCount>>
    BY <1>3 DEF RunUp, RunStop, vars, history, counts
  <2>2. runs' \in [of : OptContents, up : BOOLEAN] /\ behind' \in BOOLEAN
    <3>1. CASE RunUp
      <4>1. runs' = runs \/ (file # None /\ runs' = [of |-> file, up |-> TRUE])
        BY <3>1 DEF RunUp
      <4>2. behind' = TRUE \/ behind' = \E t \in Tabs : Midway(t)
        BY <3>1, Zenon DEF RunUp
      <4>3. behind' \in BOOLEAN
        BY <4>2
      <4>4. file \in OptContents /\ runs \in [of : OptContents, up : BOOLEAN]
        BY DEF Carried, Data
      <4>5. runs' \in [of : OptContents, up : BOOLEAN]
        BY <4>1, <4>4, MadeOf
      <4> QED BY <4>3, <4>5
    <3>2. CASE RunStop
      BY <3>2 DEF RunStop, Carried, Data
    <3>3. CASE UNCHANGED vars
      BY <3>3 DEF vars, history, Carried, Data
    <3> QED BY <1>3, <3>1, <3>2, <3>3
  <2>3. doubt' \in BOOLEAN
    BY <1>3 DEF RunUp, RunStop, Taken, vars, history, Carried, Data
  <2>4. Data'
    BY <2>1, <2>2, <2>3 DEF Carried, Data, disk
  <2>5. Asked' /\ \A u \in Tabs : FitsAt(u)'
    BY <2>1, AskedStays, FitsStays DEF Carried, SameRun, tabVars
  <2> QED BY <1>1, <2>4, <2>5 DEF Carried
<1>4. CASE RunDown
  <2>1. UNCHANGED <<tabVars, life, mode, jobCount>>
    BY <1>4 DEF RunDown
  <2>2. \/ UNCHANGED exec
        \/ exec' = [t \in Tabs |-> IF Working(t) THEN [exec[t] EXCEPT !.spoiled = TRUE] ELSE exec[t]]
    BY <1>4 DEF RunDown
  <2>3. \A u \in Tabs : SameRun(u)
    BY <2>2 DEF SameRun, Carried, Formed, ExecFields
  <2>4. Data'
    <3>1. doubt' \in BOOLEAN /\ behind' \in BOOLEAN
      BY <1>4 DEF RunDown, Taken, Carried, Data
    <3>2. file' \in OptContents /\ kept' \in OptContents /\ runs' \in [of : OptContents, up : BOOLEAN]
      <4>1. (file' = None /\ kept' = None) \/ UNCHANGED disk
        BY <1>4 DEF RunDown
      <4>2. runs' = [of |-> None, up |-> FALSE] \/ UNCHANGED runs
        BY <1>4 DEF RunDown
      <4>3. None \in OptContents
        BY DEF OptContents
      <4>4. /\ file \in OptContents /\ kept \in OptContents
            /\ runs \in [of : OptContents, up : BOOLEAN]
        BY DEF Carried, Data
      <4>5. runs' \in [of : OptContents, up : BOOLEAN]
        BY <4>2, <4>3, <4>4, MadeOf
      <4> QED BY <4>1, <4>3, <4>4, <4>5 DEF disk
    <3> QED BY <2>1, <3>1, <3>2 DEF Carried, Data
  <2>5. Asked' /\ \A u \in Tabs : FitsAt(u)'
    BY <2>1, <2>3, AskedStays, FitsStays DEF Carried, SameRun, tabVars
  <2> QED BY <1>1, <2>4, <2>5 DEF Carried
<1>5. CASE Restart
  <2>1. Data'
    <3>1. UNCHANGED <<disk, runs, life, jobCount>> /\ doubt' \in BOOLEAN
      BY <1>5 DEF Restart
    <3>2. behind' \in BOOLEAN
      BY <1>5 DEF Restart, Carried, Data
    <3>3. mode' \in {"whole", "interrupted", "blurred"}
      BY <1>5 DEF Restart, Carried, Data
    <3> QED BY <3>1, <3>2, <3>3 DEF Carried, Data, disk
  <2>2. /\ \A t \in Tabs : exec'[t] = Idle
        /\ \A t \in Tabs : dialog'[t].open = dialog[t].open /\ dialog'[t].req = dialog[t].req
    BY <1>5 DEF Restart, Carried, Formed, DialogFields
  <2>3. Asked'
    BY <2>2, AskedStays, IdleRests DEF Carried
  <2>4. \A u \in Tabs : FitsAt(u)'
    BY <2>2, IdleRests DEF FitsAt, Working
  <2> QED BY <1>1, <2>1, <2>3, <2>4 DEF Carried
<1> QED BY <1>2, <1>3, <1>4, <1>5 DEF Next

LEMMA InitCarries == Init => Carried
<1> SUFFICES ASSUME Init PROVE Carried
  OBVIOUS
<1>1. Formed
  BY InitInv DEF IInv
<1>2. Asked /\ \A t \in Tabs : FitsAt(t)
  BY IdleRests DEF Init, Asked, FitsAt, Working
<1>3. Data
  <2>1. PICK c \in Inputs :
         \/ file = None /\ kept = None /\ runs = [of |-> None, up |-> FALSE]
         \/ /\ file = c /\ kept \in {None} \cup {[c EXCEPT !.img = i] : i \in {j \in Images : j < c.img}}
            /\ \E up \in BOOLEAN : runs = [of |-> c, up |-> up]
    BY DEF Init
  <2>2. c \in Contents
    BY AppPlansAssumption
  <2>3. \A i \in Images : [c EXCEPT !.img = i] \in Contents
    BY <2>2 DEF Contents
  <2>4. file \in OptContents /\ kept \in OptContents /\ runs \in [of : OptContents, up : BOOLEAN]
    <3>1. CASE file = None /\ kept = None /\ runs = [of |-> None, up |-> FALSE]
      BY <3>1 DEF OptContents
    <3>2. CASE /\ file = c /\ kept \in {None} \cup {[c EXCEPT !.img = i] : i \in {j \in Images : j < c.img}}
               /\ \E up \in BOOLEAN : runs = [of |-> c, up |-> up]
      <4>1. kept = None \/ \E i \in Images : kept = [c EXCEPT !.img = i]
        BY <3>2
      <4> QED BY <3>2, <4>1, <2>2, <2>3 DEF OptContents
    <3> QED BY <2>1, <3>1, <3>2
  <2> QED BY <2>4 DEF Init, Data
<1> QED BY <1>1, <1>2, <1>3 DEF Carried

----------------------------------------------------------------------------
(* The jobs and who follows them *)

Jobs(n) == [id : 0 .. n, kind : {"up", "stop", "down"}, by : Tabs, of : Nat, failed : BOOLEAN]

JobsFit ==
    /\ known \in [Tabs -> 0 .. jobCount \cup {None}]
    /\ jobs \in Seq(Jobs(jobCount))

\* What a step may do to the queue.
QueueMoves ==
    \/ UNCHANGED <<jobs, jobCount>>
    \/ jobs # <<>> /\ jobs' = Tail(jobs) /\ UNCHANGED jobCount
    \/ \E t \in Tabs, kind \in {"up", "stop", "down"}, of \in Nat : Queue(Job(kind, t, of))
    \/ Restart

KnownMoves ==
    \/ UNCHANGED known
    \/ \E t \in Tabs : known' = [known EXCEPT ![t] = None]
    \/ jobCount' = jobCount + 1 /\ \E t \in Tabs : known' = [known EXCEPT ![t] = jobCount']

LEMMA SeqGrows ==
  ASSUME NEW S, NEW T, S \subseteq T, NEW s \in Seq(S)
  PROVE  s \in Seq(T)
<1>1. /\ Len(s) \in Nat /\ DOMAIN s = 1 .. Len(s)
      /\ s = [i \in 1 .. Len(s) |-> s[i]]
      /\ \A i \in 1 .. Len(s) : s[i] \in T
  BY ElementOfSeq, LenProperties
<1> QED BY <1>1, IsASeq

LEMMA Appending ==
  ASSUME NEW S, NEW s \in Seq(S), NEW e
  PROVE  /\ DOMAIN s = 1 .. Len(s) /\ Len(s) \in Nat
         /\ DOMAIN Append(s, e) = 1 .. (Len(s) + 1)
         /\ \A i \in 1 .. Len(s) : Append(s, e)[i] = s[i]
         /\ Append(s, e)[Len(s) + 1] = e
         /\ s # <<>> => Append(s, e) # Tail(s)
<1>1. s \in Seq(S \cup {e})
  BY SeqGrows
<1>2. /\ Append(s, e) \in Seq(S \cup {e}) /\ Len(Append(s, e)) = Len(s) + 1
      /\ \A i \in 1 .. Len(s) : Append(s, e)[i] = s[i]
      /\ Append(s, e)[Len(s) + 1] = e
  BY <1>1, AppendProperties
<1>3. DOMAIN s = 1 .. Len(s) /\ Len(s) \in Nat /\ DOMAIN Append(s, e) = 1 .. (Len(s) + 1)
  BY <1>1, <1>2, LenProperties
<1>4. s # <<>> => Len(Tail(s)) = Len(s) - 1
  BY HeadTailProperties
<1>5. ASSUME s # <<>>, Append(s, e) = Tail(s) PROVE FALSE
  <2>1. Len(s) + 1 = Len(s) - 1
    BY <1>2, <1>4, <1>5
  <2> QED BY <1>3, <2>1
<1> QED BY <1>2, <1>3, <1>5

\* What a restart does to the rows leaves the jobs where they are.
LEMMA Marking ==
  ASSUME NEW S, NEW s \in Seq(S)
  PROVE  LET m == [i \in DOMAIN s |-> [s[i] EXCEPT !.failed = TRUE]] IN
         DOMAIN m = DOMAIN s /\ (s # <<>> => m # Tail(s))
<1> DEFINE m == [i \in DOMAIN s |-> [s[i] EXCEPT !.failed = TRUE]]
<1>1. DOMAIN m = 1 .. Len(s) /\ DOMAIN s = 1 .. Len(s) /\ Len(s) \in Nat
  BY LenProperties
<1> HIDE DEF m
<1>2. ASSUME s # <<>> PROVE m # Tail(s)
  <2>1. Len(s) \in Nat \ {0} /\ Len(Tail(s)) = Len(s) - 1 /\ Tail(s) \in Seq(S)
    BY <1>2, EmptySeq, HeadTailProperties
  <2>2. DOMAIN Tail(s) = 1 .. (Len(s) - 1)
    BY <2>1, LenProperties
  <2>3. Len(s) \in 1 .. Len(s) /\ Len(s) \notin 1 .. (Len(s) - 1)
    BY <2>1
  <2> QED BY <1>1, <2>2, <2>3
<1>3. DOMAIN m = DOMAIN s /\ (s # <<>> => m # Tail(s))
  BY <1>1, <1>2
<1> QED BY <1>3 DEF m

LEMMA TabMoves ==
  ASSUME Carried, JobsFit, NEW t \in Tabs, TabNext(t)
  PROVE  QueueMoves /\ KnownMoves
<1>1. CASE \/ \E r \in Requests : Open(t, r)
           \/ SetOption(t) \/ Review(t) \/ Answer(t) \/ Arrive(t) \/ Close(t) \/ Click(t)
           \/ Check(t) \/ Direct(t)
  <2>1. UNCHANGED <<jobs, jobCount, known>>
    <3>1. CASE \E r \in Requests : Open(t, r)
      BY <3>1 DEF Open
    <3>2. CASE SetOption(t) \/ Review(t)
      BY <3>2 DEF SetOption, Review
    <3>3. CASE Answer(t) \/ Arrive(t) \/ Close(t) \/ Click(t) \/ Check(t) \/ Direct(t)
      BY <3>3 DEF Answer, Arrive, Close, Click, Check, Direct, tabVars, counts
    <3> QED BY <1>1, <3>1, <3>2, <3>3
  <2> QED BY <2>1 DEF QueueMoves, KnownMoves
<1>2. CASE \/ Keep(t) \/ Write(t) \/ Validate(t) \/ Undo(t) \/ UndoKept(t) \/ Drop(t)
           \/ Validated(t)
  <2>1. UNCHANGED <<jobs, jobCount, known>>
    <3>1. CASE Keep(t)
      BY <3>1 DEF Keep, Fails, tabVars, counts
    <3>2. CASE Write(t)
      BY <3>2 DEF Write, Fails, tabVars, counts
    <3>3. CASE Validate(t) \/ Undo(t) \/ UndoKept(t) \/ Validated(t)
      BY <3>3 DEF Validate, Undo, UndoKept, Validated, tabVars, counts
    <3>4. CASE Drop(t)
      BY <3>4 DEF Drop, Fails, tabVars, counts
    <3> QED BY <1>2, <3>1, <3>2, <3>3, <3>4
  <2> QED BY <2>1 DEF QueueMoves, KnownMoves
<1>3. CASE Publish(t)
  <2> DEFINE kind == IF exec[t].req.op = "remove" THEN "down" ELSE "up"
             of == exec[t].life
             job == Job(kind, t, of)
  <2>1. kind \in {"up", "stop", "down"} /\ of \in Nat
    BY <1>3 DEF Publish, Carried, FitsAt, Working
  <2>2. job.id = jobCount + 1
    BY DEF Job
  <2>3. Queue(job) \/ UNCHANGED <<jobs, jobCount>>
    BY <1>3, Zenon DEF Publish
  <2>4. \/ UNCHANGED known
        \/ Queue(job) /\ known' = [known EXCEPT ![t] =
             IF exec[t].req.op \in {"remove", "start", "apply", "create"} THEN job.id ELSE @]
    BY <1>3, Zenon DEF Publish
  <2> HIDE DEF kind, of
  <2>5. QueueMoves
    BY <2>1, <2>3 DEF QueueMoves
  <2>6. KnownMoves
    <3>1. CASE UNCHANGED known
      BY <3>1 DEF KnownMoves
    <3>2. CASE Queue(job) /\ known' = [known EXCEPT ![t] = job.id]
      BY <2>2, <3>2 DEF KnownMoves, Queue
    <3>3. CASE known' = [known EXCEPT ![t] = @]
      <4>1. UNCHANGED known
        BY <3>3 DEF JobsFit
      <4> QED BY <4>1 DEF KnownMoves
    <3> QED BY <2>4, <3>1, <3>2, <3>3
  <2> QED BY <2>5, <2>6
<1>4. CASE Stop(t)
  <2>1. Queue(Job("stop", t, life)) /\ known' = [known EXCEPT ![t] = jobCount']
    BY <1>4 DEF Stop
  <2>2. life \in Nat
    BY DEF Carried, Data
  <2> QED BY <2>1, <2>2 DEF QueueMoves, KnownMoves, Queue
<1>5. CASE Settle(t)
  <2>1. UNCHANGED <<jobs, jobCount>> /\ known' = [known EXCEPT ![t] = None]
    BY <1>5 DEF Settle, counts
  <2> QED BY <2>1 DEF QueueMoves, KnownMoves
<1> QED BY <1>1, <1>2, <1>3, <1>4, <1>5 DEF TabNext

LEMMA AllMove ==
  ASSUME Carried, JobsFit, [Next]_vars
  PROVE  QueueMoves /\ KnownMoves
<1>1. CASE \E t \in Tabs : TabNext(t)
  BY <1>1, TabMoves
<1>2. CASE RunUp \/ RunStop \/ RunDown
  <2>1. UNCHANGED <<jobCount, known>>
    BY <1>2 DEF RunUp, RunStop, RunDown, tabVars
  <2>2. jobs # <<>> /\ (jobs' = Tail(jobs) \/ UNCHANGED jobs)
    BY <1>2 DEF RunUp, RunStop, RunDown, Taken
  <2> QED BY <2>1, <2>2 DEF QueueMoves, KnownMoves
<1>3. CASE Restart
  BY <1>3 DEF Restart, QueueMoves, KnownMoves
<1>4. CASE UNCHANGED vars
  BY <1>4 DEF vars, tabVars, counts, QueueMoves, KnownMoves
<1> QED BY <1>1, <1>2, <1>3, <1>4 DEF Next

LEMMA JobsStayFit ==
  ASSUME Carried, JobsFit, [Next]_vars
  PROVE  JobsFit'
<1>1. QueueMoves /\ KnownMoves
  BY AllMove
<1>2. jobCount \in Nat /\ (jobCount' = jobCount \/ jobCount' = jobCount + 1)
  BY <1>1 DEF QueueMoves, Queue, Restart, Carried, Data
<1>3. known' \in [Tabs -> 0 .. jobCount' \cup {None}]
  <2>1. known \in [Tabs -> 0 .. jobCount' \cup {None}]
    BY <1>2 DEF JobsFit
  <2> QED BY <1>1, <1>2, <2>1 DEF KnownMoves
<1>4. jobs' \in Seq(Jobs(jobCount'))
  <2>1. Jobs(jobCount) \subseteq Jobs(jobCount')
    <3>1. 0 .. jobCount \subseteq 0 .. jobCount'
      BY <1>2
    <3> QED BY <3>1 DEF Jobs
  <2>2. jobs \in Seq(Jobs(jobCount'))
    BY <2>1, SeqGrows DEF JobsFit
  <2>3. CASE UNCHANGED jobs
    BY <2>2, <2>3
  <2>4. CASE jobs # <<>> /\ jobs' = Tail(jobs)
    BY <2>2, <2>4, HeadTailProperties
  <2>5. CASE \E t \in Tabs, kind \in {"up", "stop", "down"}, of \in Nat : Queue(Job(kind, t, of))
    <3>1. PICK t \in Tabs, kind \in {"up", "stop", "down"}, of \in Nat : Queue(Job(kind, t, of))
      BY <2>5
    <3>2. Job(kind, t, of) \in Jobs(jobCount')
      BY <1>2, <3>1 DEF Job, Jobs, Queue
    <3> QED BY <2>2, <3>1, <3>2, AppendProperties DEF Queue
  <2>6. CASE Restart
    <3>1. jobs' = [i \in DOMAIN jobs |-> [jobs[i] EXCEPT !.failed = TRUE]]
      BY <2>6 DEF Restart
    <3>2. Len(jobs) \in Nat /\ DOMAIN jobs = 1 .. Len(jobs)
      BY <2>2, LenProperties
    <3>3. \A i \in 1 .. Len(jobs) : jobs'[i] \in Jobs(jobCount')
      <4> TAKE i \in 1 .. Len(jobs)
      <4>1. jobs[i] \in Jobs(jobCount')
        BY <2>2, <3>2, ElementOfSeq
      <4>2. jobs'[i] = [jobs[i] EXCEPT !.failed = TRUE]
        BY <3>1, <3>2
      <4> QED BY <4>1, <4>2 DEF Jobs
    <3> QED BY <3>1, <3>2, <3>3, IsASeq
  <2> QED BY <1>1, <2>3, <2>4, <2>5, <2>6 DEF QueueMoves
<1> QED BY <1>3, <1>4 DEF JobsFit

TypeInv == IInv /\ Carried /\ JobsFit

LEMMA InitTypes == Init => TypeInv
<1> SUFFICES ASSUME Init PROVE TypeInv
  OBVIOUS
<1>1. jobs \in Seq(Jobs(jobCount)) /\ known \in [Tabs -> 0 .. jobCount \cup {None}]
  BY EmptySeq DEF Init
<1> QED BY <1>1, InitInv, InitCarries DEF TypeInv, JobsFit

LEMMA NextTypes == TypeInv /\ [Next]_vars => TypeInv'
BY NextInv, NextCarries, JobsStayFit DEF TypeInv

\* Whatever is on disk, in the containers and written next is a whole content or nothing, and
\* every job is numbered and is of a tab: for any contents, whoever else changes the app.
THEOREM TypeCorrect == Spec => []TypeOK
<1>1. TypeInv => TypeOK
  BY DEF TypeInv, TypeOK, Carried, Data, FitsAt, PlanFits, JobsFit, Jobs
<1> QED BY <1>1, InitTypes, NextTypes, PTL DEF Spec

----------------------------------------------------------------------------
(* The files as an unspoiled plan left them *)

FreshAt(e) ==
    LET b == Before(e.plan)  k == KeptBefore(e.plan)  w == e.plan.writes IN
    /\ e.at = "keep" => file = b /\ kept = k
    /\ e.at = "write" /\ e.req.op # "update" => file = b
    /\ e.at = "write" /\ e.req.op = "rollback" => kept = k
    /\ e.at = "write" /\ e.req.op = "update" => file = b /\ kept = b
    /\ e.at = "validate" => file = w
    /\ e.at = "validate" /\ e.req.op = "update" => kept = b
    /\ e.at = "undo" /\ e.req.op = "update" => file \in {w, b} /\ kept = b
    /\ e.at = "undo" /\ e.req.op # "update" => file = w
    /\ e.at = "undoKept" => kept = b /\ (mode = "blurred" \/ file = b)
    /\ e.at \in {"validate", "undo", "drop"} /\ e.req.op = "rollback" => file = w /\ kept = k
    /\ e.req.op = "remove" => file # None /\ e.life = life

FreshTab(t) == Working(t) /\ ~exec[t].spoiled => FreshAt(exec[t])

Fresh == \A t \in Tabs : FreshTab(t)

\* Nothing a tab's plan relies on changes, but that the plans may blur.
Rests == UNCHANGED <<file, kept, life>> /\ (mode = "blurred" => mode' = "blurred")

LEMMA FreshStays ==
  ASSUME NEW u \in Tabs, FreshTab(u), Rests, exec'[u] = exec[u]
  PROVE  FreshTab(u)'
BY DEF FreshTab, FreshAt, Rests, Working

\* The others: nothing changed, or they are spoiled.
LEMMA OthersFresh ==
  ASSUME Formed, Fresh, NEW t \in Tabs, NEW at,
         (Rests /\ (Ended(t) \/ Goes(t, at))) \/ Changes(t, at),
         NEW u \in Tabs \ {t}
  PROVE  FreshTab(u)'
<1>1. CASE Rests /\ (Ended(t) \/ Goes(t, at))
  BY <1>1, EndedDoes, GoesDoes, FreshStays DEF Fresh
<1>2. CASE Changes(t, at)
  <2>1. /\ exec'[u].at = exec[u].at
        /\ IF Working(u) THEN exec'[u].spoiled ELSE exec'[u] = exec[u]
    BY <1>2, ChangesSpoils
  <2> QED BY <2>1 DEF FreshTab, Working
<1> QED BY <1>1, <1>2

\* What a step of a plan does to its own tab and to the files.
LEMMA StepFresh ==
  ASSUME Carried, Fresh, NEW t \in Tabs,
         Keep(t) \/ Write(t) \/ Validate(t) \/ Undo(t) \/ UndoKept(t) \/ Drop(t)
           \/ Validated(t) \/ Publish(t)
  PROVE  Fresh'
<1> DEFINE e == exec[t]
<1>1. Formed /\ FitsAt(t) /\ FreshTab(t)
  BY DEF Carried, Fresh
<1>2. ASSUME Ended(t), Rests PROVE Fresh'
  <2>1. FreshTab(t)'
    BY <1>1, <1>2, EndedDoes, IdleRests DEF FreshTab, Working
  <2> QED BY <1>1, <1>2, <2>1, OthersFresh DEF Fresh
<1>3. ASSUME Changes(t, "idle") PROVE Fresh'
  <2>1. FreshTab(t)'
    BY <1>1, <1>3, ChangesEnds, IdleRests DEF FreshTab, Working
  <2> QED BY <1>1, <1>3, <2>1, OthersFresh DEF Fresh
<1>4. ASSUME NEW at, at # "idle", Goes(t, at), Rests, FreshTab(t)' PROVE Fresh'
  BY <1>1, <1>4, OthersFresh DEF Fresh
<1>5. ASSUME NEW at, Changes(t, at), FreshTab(t)' PROVE Fresh'
  BY <1>1, <1>5, OthersFresh DEF Fresh
<1>6. ASSUME NEW at, at # "idle", Goes(t, at) \/ Changes(t, at)
      PROVE  /\ exec'[t].at = at /\ exec'[t].req = e.req /\ exec'[t].plan = e.plan
             /\ exec'[t].life = e.life /\ exec'[t].spoiled = e.spoiled
             /\ Before(exec'[t].plan) = Before(e.plan)
             /\ KeptBefore(exec'[t].plan) = KeptBefore(e.plan)
  BY <1>1, <1>6, GoesDoes, ChangesDoes
<1> HIDE DEF e
<1>7. CASE Keep(t)
  <2>1. CASE Fails(t) /\ UNCHANGED history
    BY <1>2, <2>1 DEF Fails, Rests, disk, history
  <2>2. CASE file # None /\ kept' = Before(e.plan) /\ UNCHANGED file /\ Changes(t, "write")
    <3>1. e.at = "keep" /\ e.req.op = "update"
      BY <1>1, <1>7 DEF Keep, FitsAt, Working, AtFits, e
    <3>2. ~e.spoiled => file = Before(e.plan)
      BY <1>1, <3>1 DEF FreshTab, FreshAt, Working, e
    <3>3. FreshTab(t)'
      BY <1>6, <2>2, <3>1, <3>2 DEF FreshTab, FreshAt
    <3> QED BY <1>5, <2>2, <3>3
  <2> QED BY <1>7, <2>1, <2>2 DEF Keep, e
<1>8. CASE Write(t)
  <2>1. e.at = "write" /\ e.req.op \in Writers
    BY <1>1, <1>8 DEF Write, FitsAt, Working, AtFits, e
  <2>2. FreshAt(e) \/ e.spoiled
    BY <1>1, <2>1 DEF FreshTab, Working, e
  <2>3. CASE Fails(t) /\ UNCHANGED history
    BY <1>2, <2>3 DEF Fails, Rests, disk, history
  <2>4. CASE e.req.op = "update" /\ Goes(t, "undo") /\ UNCHANGED <<disk, history>>
    <3>1. FreshTab(t)'
      BY <1>6, <2>1, <2>2, <2>4 DEF FreshTab, FreshAt, disk, history
    <3> QED BY <1>4, <2>4, <3>1 DEF Rests, disk, history
  <2>5. CASE file' = e.plan.writes /\ UNCHANGED kept /\ Changes(t, "validate")
    <3>1. FreshTab(t)'
      BY <1>6, <2>1, <2>2, <2>5 DEF FreshTab, FreshAt, Writers
    <3> QED BY <1>5, <2>5, <3>1
  <2>6. CASE e.req.op = "create" /\ Changes(t, "check")
    <3>1. FreshTab(t)'
      BY <1>6, <2>6 DEF FreshTab, FreshAt
    <3> QED BY <1>5, <2>6, <3>1
  <2>7. CASE Changes(t, "idle")
    BY <1>3, <2>7
  <2> QED BY <1>8, <2>3, <2>4, <2>5, <2>6, <2>7 DEF Write, e
<1>9. CASE Validate(t)
  <2>1. e.at = "validate" /\ e.req.op \in {"update", "rollback", "install"}
    BY <1>1, <1>9 DEF Validate, FitsAt, Working, AtFits, e
  <2>2. FreshAt(e) \/ e.spoiled
    BY <1>1, <2>1 DEF FreshTab, Working, e
  <2>3. Rests
    BY <1>9 DEF Validate, Rests, disk
  <2>4. CASE Ended(t)
    BY <1>2, <2>3, <2>4
  <2>5. CASE \/ Goes(t, "publish") \/ Goes(t, "undo")
             \/ e.req.op = "rollback" /\ Goes(t, "drop")
    <3>1. PICK at \in {"publish", "undo", "drop"} :
            Goes(t, at) /\ (at = "drop" => e.req.op = "rollback")
      BY <2>5
    <3>2. FreshTab(t)'
      BY <1>6, <2>1, <2>2, <2>3, <3>1 DEF FreshTab, FreshAt, Rests
    <3> QED BY <1>4, <2>3, <3>1, <3>2
  <2>6. \/ Goes(t, "undo")
        \/ exec[t].req.op = "rollback" /\ Goes(t, "drop")
        \/ Goes(t, "publish")
        \/ Ended(t)
    BY <1>9 DEF Validate
  <2> QED BY <2>4, <2>5, <2>6 DEF e
<1>10. CASE Undo(t)
  <2>1. e.at = "undo" /\ e.req.op \in {"update", "rollback", "install"}
    BY <1>1, <1>10 DEF Undo, FitsAt, Working, AtFits, e
  <2>2. FreshAt(e) \/ e.spoiled
    BY <1>1, <2>1 DEF FreshTab, Working, e
  <2>3. CASE Ended(t) /\ mode' = "blurred" /\ UNCHANGED <<disk, life>>
    BY <1>2, <2>3 DEF Rests, disk
  <2>4. CASE e.req.op = "update" /\ Goes(t, "undoKept") /\ mode' = "blurred" /\ UNCHANGED <<disk, life>>
    <3>1. FreshTab(t)'
      BY <1>6, <2>1, <2>2, <2>4 DEF FreshTab, FreshAt, disk
    <3> QED BY <1>4, <2>4, <3>1 DEF Rests, disk
  <2>5. CASE /\ e.req.op = "update" /\ Changes(t, "undoKept")
             /\ file' = Before(e.plan) /\ kept' = kept
    <3>1. FreshTab(t)'
      BY <1>6, <2>1, <2>2, <2>5 DEF FreshTab, FreshAt
    <3> QED BY <1>5, <2>5, <3>1
  <2>6. CASE Changes(t, "idle")
    BY <1>3, <2>6
  <2> QED BY <1>10, <2>1, <2>3, <2>4, <2>5, <2>6 DEF Undo, e
<1>11. CASE UndoKept(t)
  <2>1. CASE Ended(t) /\ mode' = "blurred" /\ UNCHANGED <<disk, life>>
    BY <1>2, <2>1 DEF Rests, disk
  <2> QED BY <1>3, <1>11, <2>1 DEF UndoKept
<1>12. CASE Drop(t)
  <2>1. e.at = "drop" /\ e.req.op = "rollback"
    BY <1>1, <1>12 DEF Drop, FitsAt, Working, AtFits, e
  <2>2. CASE Changes(t, "publish")
    <3>1. FreshTab(t)'
      BY <1>6, <2>1, <2>2 DEF FreshTab, FreshAt
    <3> QED BY <1>5, <2>1, <2>2, <3>1
  <2>3. CASE Ended(t) /\ UNCHANGED <<file, kept, life>> /\ (mode = "blurred" => mode' = "blurred")
    <3> QED BY <1>2, <2>3 DEF Rests
  <2> QED BY <1>12, <2>2, <2>3 DEF Drop, Fails, disk
<1>13. CASE Validated(t)
  <2>1. e.at = "check" /\ e.req.op \in {"apply", "create"} /\ Rests
    BY <1>1, <1>13 DEF Validated, FitsAt, Working, AtFits, Rests, disk, e
  <2>2. CASE Ended(t)
    BY <1>2, <2>1, <2>2
  <2>3. CASE Goes(t, "publish")
    <3>1. FreshTab(t)'
      BY <1>6, <2>1, <2>3 DEF FreshTab, FreshAt
    <3> QED BY <1>4, <2>1, <2>3, <3>1
  <2> QED BY <1>13, <2>2, <2>3 DEF Validated
<1>14. CASE Publish(t)
  BY <1>2, <1>14 DEF Publish, Rests, disk
<1> QED BY <1>7, <1>8, <1>9, <1>10, <1>11, <1>12, <1>13, <1>14

LEMMA CheckFresh ==
  ASSUME Carried, Fresh, NEW t \in Tabs, Check(t)
  PROVE  Fresh'
<1> USE DEF Carried, Formed
<1>1. Rests
  BY DEF Check, Rests, disk, history
<1>2. \A u \in Tabs \ {t} : exec'[u] = exec[u]
  BY DEF Check, Ended
<1>3. \A u \in Tabs \ {t} : FreshTab(u)'
  BY <1>1, <1>2, FreshStays DEF Fresh
<1>4. CASE Ended(t)
  BY <1>3, <1>4, EndedDoes, IdleRests DEF Fresh, FreshTab, Working
<1>5. CASE ~Ended(t)
  <2> DEFINE r == exec[t].req
  <2>1. PICK p \in Plans(r) :
           exec' = [exec EXCEPT ![t] = [@ EXCEPT !.at = First(r.op), !.plan = p, !.life = life]]
    BY <1>5 DEF Check
  <2>2. /\ exec'[t].at = First(r.op) /\ exec'[t].req = r
        /\ exec'[t].plan = p /\ exec'[t].life = life
    BY <2>1 DEF ExecFields
  <2>3. Askable(r)
    BY DEF Check, Asked
  <2>4. Before(p) = file /\ (r.op \in {"update", "rollback"} => KeptBefore(p) = kept)
    BY <2>1, <2>3, BuildFits
  <2>5. r.op \in {"create", "save", "install", "apply", "start", "update", "rollback", "remove"}
    BY <2>3, AskedWrites
  <2>6. r.op = "remove" => file # None
    BY <2>1, PlansAreBuilt DEF Refused
  <2>7. Before(exec'[t].plan) = Before(p) /\ KeptBefore(exec'[t].plan) = KeptBefore(p)
    BY <2>2
  <2> HIDE DEF r
  <2>8. FreshAt(exec[t])'
    BY <1>1, <2>2, <2>4, <2>5, <2>6, <2>7 DEF FreshAt, First, Rests
  <2> QED BY <1>3, <2>8 DEF Fresh, FreshTab
<1> QED BY <1>4, <1>5

LEMMA DirectFresh ==
  ASSUME Carried, Fresh, NEW t \in Tabs, Direct(t)
  PROVE  Fresh'
<1>1. PICK r : /\ r.op \in {"pin", "import"} /\ r.new \in Contents
               /\ exec'[t].at = "write" /\ exec'[t].req = r
               /\ exec'[t].plan = [Build(r, None) EXCEPT !.writes = r.new]
               /\ exec'[t].life = life /\ ~exec'[t].spoiled
               /\ \A u \in Tabs \ {t} : exec'[u] = exec[u]
  BY DirectStarts
<1>2. Rests
  BY DEF Direct, Rests, disk, history
<1>3. \A u \in Tabs \ {t} : FreshTab(u)'
  BY <1>1, <1>2, FreshStays DEF Fresh
<1>4. Before(exec'[t].plan) = file
  BY <1>1, DirectFits DEF Carried
<1>5. FreshAt(exec[t])'
  BY <1>1, <1>2, <1>4 DEF FreshAt, Rests
<1> QED BY <1>3, <1>5 DEF Fresh, FreshTab

\* What an unspoiled plan relies on stays.
LEMMA NextFresh ==
  ASSUME TypeInv, Fresh, [Next]_vars
  PROVE  Fresh'
<1> USE DEF TypeInv
<1>1. ASSUME NEW t \in Tabs, TabNext(t) PROVE Fresh'
  <2>1. CASE Check(t) \/ Direct(t)
    BY <2>1, CheckFresh, DirectFresh
  <2>2. CASE \/ Keep(t) \/ Write(t) \/ Validate(t) \/ Undo(t) \/ UndoKept(t) \/ Drop(t)
             \/ Validated(t) \/ Publish(t)
    BY <2>2, StepFresh
  <2>3. CASE Click(t)
    <3>1. /\ \A u \in Tabs \ {t} : exec'[u] = exec[u]
          /\ exec'[t].at = "sent"
      BY <2>3 DEF Click, Carried, Formed, Idle
    <3>2. Rests
      BY <2>3 DEF Click, Rests, disk, history
    <3> QED BY <3>1, <3>2, FreshStays DEF Fresh, FreshTab, Working
  <2>4. CASE \/ \E r \in Requests : Open(t, r)
             \/ SetOption(t) \/ Review(t) \/ Answer(t) \/ Arrive(t) \/ Close(t)
             \/ Stop(t) \/ Settle(t)
    <3>1. UNCHANGED exec /\ Rests
      <4> USE DEF Rests, disk, history
      <4>1. CASE (\E r \in Requests : Open(t, r)) \/ SetOption(t) \/ Review(t)
        BY <4>1 DEF Open, SetOption, Review
      <4>2. CASE Answer(t) \/ Arrive(t) \/ Close(t) \/ Stop(t) \/ Settle(t)
        BY <4>2 DEF Answer, Arrive, Close, Stop, Settle
      <4> QED BY <2>4, <4>1, <4>2
    <3> QED BY <3>1, FreshStays DEF Fresh
  <2> QED BY <1>1, <2>1, <2>2, <2>3, <2>4 DEF TabNext
<1>2. CASE RunUp \/ RunStop \/ UNCHANGED vars
  <2>1. UNCHANGED exec /\ Rests
    BY <1>2 DEF RunUp, RunStop, vars, Rests, disk, history
  <2> QED BY <2>1, FreshStays DEF Fresh
<1>3. CASE RunDown
  <2>1. CASE UNCHANGED <<disk, exec>>
    BY <1>3, <2>1, FreshStays DEF RunDown, Rests, disk, Fresh
  <2>2. CASE exec' = [t \in Tabs |-> IF Working(t) THEN [exec[t] EXCEPT !.spoiled = TRUE] ELSE exec[t]]
    <3>1. \A t \in Tabs : exec'[t].at = exec[t].at /\ (Working(t) => exec'[t].spoiled)
      BY <2>2 DEF Carried, Formed, ExecFields
    <3> QED BY <3>1 DEF Fresh, FreshTab, Working
  <2> QED BY <1>3, <2>1, <2>2 DEF RunDown
<1>4. CASE Restart
  BY <1>4, IdleRests DEF Restart, Fresh, FreshTab, Working
<1> QED BY <1>1, <1>2, <1>3, <1>4 DEF Next

LEMMA InitFresh == Init => Fresh
BY IdleRests DEF Init, Fresh, FreshTab, Working

----------------------------------------------------------------------------
(* Containers out of step with the file have a start coming, or a plan that  *)
(* is being validated or undone: the file it wrote is not theirs yet, and    *)
(* the one it would put back is, unless a start was coming all along.        *)

Pending(t) == exec[t].at \in {"validate", "undo"}

Starting(t) ==
    \/ exec[t].at = "publish" /\ exec[t].req.op # "remove"
    \/ exec[t].at = "drop"

UpQueued == \E i \in DOMAIN jobs : jobs[i].kind = "up"

Mended == UpQueued \/ \E t \in Tabs : Starting(t)

Follows == ~behind /\ file # None /\ runs.of # file => Mended \/ \E t \in Tabs : Pending(t)

ReturnsAt(t) ==
    LET b == Before(exec[t].plan) IN
    ~behind /\ Pending(t) /\ ~exec[t].spoiled /\ b # None /\ runs.of # b
        => Mended \/ \E u \in Tabs \ {t} : Pending(u)

Returns == Follows /\ \A t \in Tabs : ReturnsAt(t)

\* A start that waits is not lost: only one that was run leaves the queue.
LEMMA UpStays ==
  ASSUME Carried, JobsFit, QueueMoves, UpQueued,
         jobs # <<>> /\ jobs' = Tail(jobs) => Head(jobs).kind # "up"
  PROVE  UpQueued'
<1>1. PICK i \in DOMAIN jobs : jobs[i].kind = "up"
  BY DEF UpQueued
<1>2. jobs \in Seq(Jobs(jobCount)) /\ Len(jobs) \in Nat /\ DOMAIN jobs = 1 .. Len(jobs)
  BY LenProperties DEF JobsFit
<1>3. CASE UNCHANGED jobs
  BY <1>1, <1>3 DEF UpQueued
<1>4. CASE jobs # <<>> /\ jobs' = Tail(jobs)
  <2>1. Head(jobs) = jobs[1] /\ i # 1
    BY <1>1, <1>2, <1>4, HeadTailProperties
  <2>2. /\ Len(jobs') = Len(jobs) - 1 /\ DOMAIN jobs' = 1 .. Len(jobs')
        /\ \A j \in 1 .. Len(jobs') : jobs'[j] = jobs[j + 1]
    BY <1>2, <1>4, HeadTailProperties, LenProperties
  <2>3. i - 1 \in DOMAIN jobs' /\ jobs'[i - 1] = jobs[i]
    BY <1>1, <1>2, <2>1, <2>2
  <2> QED BY <1>1, <2>3 DEF UpQueued
<1>5. CASE \E t \in Tabs, kind \in {"up", "stop", "down"}, of \in Nat : Queue(Job(kind, t, of))
  <2>1. PICK job : jobs' = Append(jobs, job)
    BY <1>5 DEF Queue
  <2>2. i \in DOMAIN jobs' /\ jobs'[i] = jobs[i]
    <3>1. /\ DOMAIN jobs' = 1 .. (Len(jobs) + 1)
          /\ \A j \in 1 .. Len(jobs) : jobs'[j] = jobs[j]
      <4>1. /\ DOMAIN Append(jobs, job) = 1 .. (Len(jobs) + 1)
            /\ \A j \in 1 .. Len(jobs) : Append(jobs, job)[j] = jobs[j]
        BY <1>2, Appending
      <4> QED BY <2>1, <4>1, Zenon
    <3>2. i \in 1 .. Len(jobs) /\ Len(jobs) \in Nat
      BY <1>1, <1>2
    <3>3. i \in 1 .. (Len(jobs) + 1)
      BY <3>2
    <3> QED BY <3>1, <3>2, <3>3
  <2> QED BY <1>1, <2>2 DEF UpQueued
<1>6. CASE Restart
  <2>1. jobs' = [j \in DOMAIN jobs |-> [jobs[j] EXCEPT !.failed = TRUE]]
    BY <1>6 DEF Restart
  <2>2. jobs[i] \in Jobs(jobCount)
    BY <1>1, <1>2, ElementOfSeq
  <2>3. i \in DOMAIN jobs' /\ jobs'[i].kind = jobs[i].kind
    BY <1>1, <2>1, <2>2 DEF Jobs
  <2> QED BY <1>1, <2>3 DEF UpQueued
<1> QED BY <1>3, <1>4, <1>5, <1>6 DEF QueueMoves

\* A step that leaves all that alone.
LEMMA Undisturbed ==
  ASSUME Returns,
         UNCHANGED file, runs'.of = runs.of, behind => behind', UpQueued => UpQueued',
         \A u \in Tabs :
            /\ Pending(u) <=> Pending(u)'
            /\ Starting(u) => Starting(u)'
            /\ Pending(u) => /\ exec'[u].plan = exec[u].plan
                             /\ exec[u].spoiled => exec'[u].spoiled
  PROVE  Returns'
<1>1. Mended => Mended'
  BY DEF Mended
<1>2. Follows'
  BY <1>1 DEF Returns, Follows
<1>3. ASSUME NEW t \in Tabs PROVE ReturnsAt(t)'
  <2>1. ReturnsAt(t)
    BY DEF Returns
  <2>2. Pending(t) => Before(exec'[t].plan) = Before(exec[t].plan)
    OBVIOUS
  <2> QED BY <1>1, <2>1, <2>2 DEF ReturnsAt
<1> QED BY <1>2, <1>3 DEF Returns

\* A start is coming, or the containers are known to be older.
LEMMA Mending ==
  ASSUME behind' \/ Mended'
  PROVE  Returns'
BY DEF Returns, Follows, ReturnsAt

\* A tab that was neither pending nor about to start goes where it is not pending either.
LEMMA StepsAside ==
  ASSUME Formed, Returns, NEW t \in Tabs, NEW at, at \notin {"validate", "undo"},
         Ended(t) \/ Goes(t, at) \/ Changes(t, at),
         ~Pending(t), ~Starting(t), UpQueued => UpQueued',
         UNCHANGED <<file, runs>>, behind => behind'
  PROVE  Returns'
<1>1. ~Pending(t)'
  <2>1. CASE at = "idle" /\ Changes(t, at)
    BY <2>1, ChangesEnds, IdleRests DEF Pending
  <2>2. CASE ~(at = "idle" /\ Changes(t, at))
    BY <2>2, EndedDoes, GoesDoes, ChangesDoes, IdleRests DEF Pending
  <2> QED BY <2>1, <2>2
<1>2. \A u \in Tabs \ {t} :
         /\ exec'[u].at = exec[u].at /\ exec'[u].req = exec[u].req /\ exec'[u].plan = exec[u].plan
         /\ exec[u].spoiled => exec'[u].spoiled
  BY EndedDoes, GoesDoes, ChangesSpoils
<1> QED BY <1>1, <1>2, Undisturbed DEF Pending, Starting

\* A tab that was about to write begins to validate, or to undo a write that failed.
LEMMA StepsIn ==
  ASSUME Carried, Fresh, Returns, NEW t \in Tabs, NEW at \in {"validate", "undo"},
         Goes(t, at) \/ Changes(t, at), exec[t].at = "write",
         UNCHANGED <<jobs, runs>>, behind' = behind
  PROVE  Returns'
<1>1. /\ exec'[t].at = at /\ exec'[t].req = exec[t].req /\ exec'[t].plan = exec[t].plan
      /\ exec'[t].spoiled = exec[t].spoiled
  BY GoesDoes, ChangesDoes DEF Carried
<1>2. \A u \in Tabs \ {t} : exec'[u].at = exec[u].at /\ exec'[u].req = exec[u].req
  BY GoesDoes, ChangesSpoils DEF Carried
<1>3. Pending(t)'
  BY <1>1 DEF Pending
<1>4. Mended => Mended'
  BY <1>2 DEF Mended, UpQueued, Starting
<1>5. ReturnsAt(t)'
  <2>1. SUFFICES ASSUME ~behind, ~exec[t].spoiled, Before(exec[t].plan) # None,
                        runs.of # Before(exec[t].plan)
                 PROVE  Mended' \/ \E u \in Tabs \ {t} : Pending(u)'
    <3>1. Before(exec'[t].plan) = Before(exec[t].plan)
      BY <1>1
    <3> QED BY <1>1, <3>1 DEF ReturnsAt
  <2>2. file = Before(exec[t].plan)
    BY <2>1 DEF Fresh, FreshTab, FreshAt, Working
  <2>3. Mended \/ \E u \in Tabs : Pending(u)
    BY <2>1, <2>2 DEF Returns, Follows
  <2>4. ~Pending(t)
    BY DEF Pending
  <2> QED BY <1>2, <1>4, <2>3, <2>4 DEF Pending
<1>6. \A u \in Tabs \ {t} : ReturnsAt(u)'
  BY <1>3 DEF ReturnsAt
<1>7. Follows'
  BY <1>3 DEF Follows
<1> QED BY <1>5, <1>6, <1>7 DEF Returns

\* Each step of a plan keeps the containers in step with the file, or is about to.
LEMMA StepReturns ==
  ASSUME Carried, JobsFit, Fresh, Returns, NEW t \in Tabs,
         Keep(t) \/ Write(t) \/ Validate(t) \/ Undo(t) \/ UndoKept(t) \/ Drop(t)
           \/ Validated(t) \/ Publish(t)
  PROVE  Returns'
<1> DEFINE e == exec[t]
<1>1. Formed /\ FitsAt(t) /\ FreshTab(t)
  BY DEF Carried, Fresh
<1>2. UNCHANGED jobs => (UpQueued => UpQueued')
  BY DEF UpQueued
<1> HIDE DEF e
<1>3. CASE Keep(t)
  <2>1. ~Pending(t) /\ ~Starting(t)
    BY <1>3 DEF Keep, Pending, Starting
  <2>2. UNCHANGED <<file, runs, jobs, behind>>
    BY <1>3 DEF Keep, Fails, disk, history
  <2>3. Ended(t) \/ Changes(t, "write")
    BY <1>3 DEF Keep, Fails
  <2> QED BY <1>1, <1>2, <2>1, <2>2, <2>3, StepsAside
<1>4. CASE Write(t)
  <2>1. e.at = "write" /\ ~Pending(t) /\ ~Starting(t)
    BY <1>4 DEF Write, Pending, Starting, e
  <2>2. CASE Fails(t) /\ UNCHANGED history
    BY <1>1, <1>2, <2>1, <2>2, StepsAside DEF Fails, disk, history
  <2>3. CASE Goes(t, "undo") /\ UNCHANGED <<jobs, runs, behind>>
    BY <2>1, <2>3, StepsIn DEF e
  <2>4. CASE Changes(t, "validate") /\ UNCHANGED <<jobs, runs>> /\ behind' = behind
    BY <2>1, <2>4, StepsIn DEF e
  <2>5. CASE behind' = TRUE
    BY <2>5, Mending
  <2>6. \/ Fails(t) /\ UNCHANGED history
        \/ Goes(t, "undo") /\ UNCHANGED <<disk, runs, jobs, tabVars, history>>
        \/ behind' = TRUE
        \/ Changes(t, "validate") /\ UNCHANGED <<jobs, runs>> /\ behind' = behind
    <3> DEFINE next == CASE exec[t].req.op \in {"update", "rollback", "install"} -> "validate"
                         [] exec[t].req.op = "create" /\ exec[t].req.opt -> "check"
                         [] OTHER -> "idle"
    <3>1. \/ /\ Changes(t, next)
             /\ behind' = (behind \/ next # "validate")
             /\ UNCHANGED <<runs, jobs>>
          \/ Fails(t) /\ UNCHANGED history
          \/ Goes(t, "undo") /\ UNCHANGED <<disk, runs, jobs, tabVars, history>>
      BY <1>4 DEF Write, history
    <3> HIDE DEF next
    <3>2. CASE next = "validate"
      <4>1. behind \in BOOLEAN
        BY DEF Carried, Data
      <4> QED BY <3>1, <3>2, <4>1
    <3> QED BY <3>1, <3>2
  <2> QED BY <2>2, <2>3, <2>4, <2>5, <2>6 DEF history
<1>5. CASE Validate(t)
  <2>1. e.at = "validate" /\ e.req.op \in {"update", "rollback", "install"}
    BY <1>1, <1>5 DEF Validate, FitsAt, Working, AtFits, e
  <2>2. UNCHANGED <<file, runs, jobs>>
    BY <1>5 DEF Validate, disk
  <2>3. \/ Goes(t, "undo") /\ UNCHANGED behind
        \/ Goes(t, "drop") \/ Goes(t, "publish")
        \/ ~e.plan.steps.starts /\ e.req.op # "rollback"
           /\ behind' = (behind \/ e.plan.observed[3] # "running")
    BY <1>5 DEF Validate, e
  <2>4. CASE Goes(t, "undo") /\ UNCHANGED behind
    <3>1. /\ exec'[t].at = "undo" /\ exec'[t].req = e.req /\ exec'[t].plan = e.plan
          /\ exec'[t].spoiled = e.spoiled /\ \A u \in Tabs \ {t} : exec'[u] = exec[u]
      BY <1>1, <2>4, GoesDoes DEF e
    <3> QED BY <1>2, <2>1, <2>2, <2>4, <3>1, Undisturbed DEF Pending, Starting, e
  <2>5. CASE Goes(t, "drop") \/ Goes(t, "publish")
    <3>1. exec'[t].req = e.req /\ exec'[t].at \in {"drop", "publish"}
      BY <1>1, <2>5, GoesDoes DEF e
    <3> QED BY <2>1, <3>1, Mending DEF Mended, Starting
  <2>6. CASE /\ ~e.plan.steps.starts /\ e.req.op # "rollback"
             /\ behind' = (behind \/ e.plan.observed[3] # "running")
    <3>1. e.req.op = "update" /\ e.plan.observed[3] # "running"
      BY <1>1, <2>1, <2>6 DEF FitsAt, PlanFits, Working, e
    <3> QED BY <2>6, <3>1, Mending
  <2> QED BY <2>3, <2>4, <2>5, <2>6
<1>6. CASE Undo(t)
  <2>1. Pending(t) /\ e.at = "undo"
    BY <1>6 DEF Undo, Pending, e
  <2>2. UNCHANGED <<runs, jobs>>
    BY <1>6 DEF Undo
  <2>3. CASE behind' = TRUE
    BY <2>3, Mending
  <2>4. CASE ~behind /\ ~behind'
    <3>1. PICK at \in {"undoKept", "idle"} :
            /\ file' = Before(e.plan) /\ Changes(t, at)
            /\ ~e.spoiled
      BY <1>6, <2>4 DEF Undo, e
    <3>2. ~Pending(t)'
      <4>1. CASE at = "idle"
        BY <1>1, <3>1, <4>1, ChangesEnds, IdleRests DEF Pending
      <4>2. CASE at = "undoKept"
        BY <1>1, <3>1, <4>2, ChangesDoes DEF Pending
      <4> QED BY <4>1, <4>2
    <3>3. \A u \in Tabs \ {t} :
             /\ exec'[u].at = exec[u].at /\ exec'[u].req = exec[u].req
             /\ Working(u) => exec'[u].spoiled
      BY <1>1, <3>1, ChangesSpoils
    <3>4. Mended => Mended'
      BY <1>2, <2>1, <2>2, <3>3 DEF Mended, Starting, e
    <3>5. \A u \in Tabs : ReturnsAt(u)'
      BY <3>2, <3>3 DEF ReturnsAt, Pending, Working
    <3>6. Follows'
      <4>1. SUFFICES ASSUME file' # None, runs.of # file'
                     PROVE  Mended' \/ \E u \in Tabs : Pending(u)'
        BY <2>2 DEF Follows
      <4>2. Mended \/ \E u \in Tabs \ {t} : Pending(u)
        BY <2>1, <2>4, <3>1, <4>1 DEF Returns, ReturnsAt, e
      <4> QED BY <3>3, <3>4, <4>2 DEF Pending
    <3> QED BY <3>5, <3>6 DEF Returns
  <2>5. behind \in BOOLEAN /\ behind' \in BOOLEAN /\ (behind => behind')
    <3>1. behind \in BOOLEAN
      BY DEF Carried, Data
    <3>2. Data'
      BY <1>6, DiskStays
    <3> QED BY <1>6, <3>1, <3>2 DEF Undo, Data
  <2> QED BY <2>3, <2>4, <2>5
<1>7. CASE UndoKept(t)
  <2>1. ~Pending(t) /\ ~Starting(t)
    BY <1>7 DEF UndoKept, Pending, Starting
  <2>2. UNCHANGED <<file, runs, jobs, behind>> /\ (Ended(t) \/ Changes(t, "idle"))
    BY <1>7 DEF UndoKept, disk
  <2> QED BY <1>1, <1>2, <2>1, <2>2, StepsAside
<1>8. CASE Drop(t)
  <2>1. e.req.op = "rollback"
    BY <1>1, <1>8 DEF Drop, FitsAt, Working, AtFits, e
  <2>2. CASE Changes(t, "publish")
    <3>1. exec'[t].at = "publish" /\ exec'[t].req = e.req
      BY <1>1, <2>2, ChangesDoes DEF e
    <3> QED BY <2>1, <3>1, Mending DEF Mended, Starting
  <2>3. CASE behind' = TRUE
    BY <2>3, Mending
  <2> QED BY <1>8, <2>2, <2>3 DEF Drop
<1>9. CASE Validated(t)
  <2>1. e.req.op \in {"apply", "create"}
    BY <1>1, <1>9 DEF Validated, FitsAt, Working, AtFits, e
  <2>2. CASE behind' = TRUE
    BY <2>2, Mending
  <2>3. CASE Goes(t, "publish")
    <3>1. exec'[t].at = "publish" /\ exec'[t].req = e.req
      BY <1>1, <2>3, GoesDoes DEF e
    <3> QED BY <2>1, <3>1, Mending DEF Mended, Starting
  <2> QED BY <1>9, <2>2, <2>3 DEF Validated
<1>10. CASE Publish(t)
  <2> DEFINE job == Job(IF e.req.op = "remove" THEN "down" ELSE "up", t, e.life)
  <2>1. CASE behind' = TRUE
    BY <2>1, Mending
  <2>2. CASE behind' = behind /\ Queue(job)
    <3>1. jobs' = Append(jobs, job)
      BY <2>2 DEF Queue
    <3>2. CASE e.req.op # "remove"
      <4>1. job.kind = "up"
        BY <3>2 DEF Job
      <4> HIDE DEF job
      <4>2. Len(jobs) + 1 \in DOMAIN jobs' /\ jobs'[Len(jobs) + 1] = job
        BY <3>1, Appending DEF JobsFit
      <4> QED BY <4>1, <4>2, Mending DEF Mended, UpQueued
    <3>3. CASE e.req.op = "remove"
      <4>1. e.at = "publish" /\ ~Pending(t) /\ ~Starting(t)
        BY <1>10, <3>3 DEF Publish, Pending, Starting, e
      <4>2. Ended(t) /\ UNCHANGED <<file, runs>>
        BY <1>10 DEF Publish, disk
      <4>3. QueueMoves
        BY <1>10, TabMoves DEF TabNext
      <4>4. ~(jobs # <<>> /\ jobs' = Tail(jobs))
        BY <3>1, Appending DEF JobsFit
      <4>5. UpQueued => UpQueued'
        BY <4>3, <4>4, UpStays
      <4> QED BY <1>1, <2>2, <4>1, <4>2, <4>5, StepsAside
    <3> QED BY <3>2, <3>3
  <2> HIDE DEF job
  <2>3. behind' = TRUE \/ (behind' = behind /\ Queue(job))
    BY <1>10, Zenon DEF Publish, e, job
  <2> QED BY <2>1, <2>2, <2>3
<1> QED BY <1>3, <1>4, <1>5, <1>6, <1>7, <1>8, <1>9, <1>10

LEMMA NextReturns ==
  ASSUME TypeInv, Fresh, Returns, [Next]_vars
  PROVE  Returns'
<1> USE DEF TypeInv
<1>1. QueueMoves
  BY AllMove
<1>2. UNCHANGED jobs => (UpQueued => UpQueued')
  BY DEF UpQueued
<1>3. ASSUME NEW t \in Tabs, TabNext(t) PROVE Returns'
  <2>1. CASE \/ Keep(t) \/ Write(t) \/ Validate(t) \/ Undo(t) \/ UndoKept(t) \/ Drop(t)
             \/ Validated(t) \/ Publish(t)
    BY <2>1, StepReturns
  <2>2. CASE Check(t) \/ Direct(t) \/ Click(t)
    <3>1. UNCHANGED <<file, runs, jobs, behind>>
      BY <2>2 DEF Check, Direct, Click, disk, history
    <3>2. ~Pending(t) /\ ~Starting(t)
      BY <2>2 DEF Check, Direct, Click, Pending, Starting, Idles
    <3>3. /\ exec'[t].at \notin {"validate", "undo"}
          /\ \A u \in Tabs \ {t} : exec'[u] = exec[u]
      <4> USE DEF Carried, Formed
      <4>1. CASE Check(t)
        <5>1. exec'[t] = Idle \/ exec'[t].at = First(exec[t].req.op)
          BY <4>1 DEF Check, Ended, ExecFields
        <5>2. First(exec[t].req.op) \notin {"validate", "undo"}
          BY DEF First
        <5>3. \A u \in Tabs \ {t} : exec'[u] = exec[u]
          BY <4>1 DEF Check, Ended
        <5> QED BY <5>1, <5>2, <5>3, IdleRests
      <4>2. CASE Direct(t)
        BY <4>2, DirectStarts
      <4>3. CASE Click(t)
        BY <4>3 DEF Click, Idle
      <4> QED BY <2>2, <4>1, <4>2, <4>3
    <3> QED BY <1>2, <3>1, <3>2, <3>3, Undisturbed DEF Pending, Starting
  <2>3. CASE \/ \E r \in Requests : Open(t, r)
             \/ SetOption(t) \/ Review(t) \/ Answer(t) \/ Arrive(t) \/ Close(t)
             \/ Settle(t)
    <3>1. UNCHANGED <<file, runs, jobs, behind, exec>>
      <4> USE DEF disk, history
      <4>1. CASE (\E r \in Requests : Open(t, r)) \/ SetOption(t) \/ Review(t)
        BY <4>1 DEF Open, SetOption, Review
      <4>2. CASE Answer(t) \/ Arrive(t) \/ Close(t) \/ Settle(t)
        BY <4>2 DEF Answer, Arrive, Close, Settle
      <4> QED BY <2>3, <4>1, <4>2
    <3> QED BY <1>2, <3>1, Undisturbed DEF Pending, Starting
  <2>4. CASE Stop(t)
    <3>1. UNCHANGED <<file, runs, behind, exec>> /\ jobCount' = jobCount + 1
      BY <2>4 DEF Stop, Queue, disk, history
    <3>2. UpQueued => UpQueued'
      <4>1. PICK job : jobs' = Append(jobs, job)
        BY <2>4 DEF Stop, Queue
      <4> QED BY <1>1, <4>1, Appending, UpStays DEF JobsFit
    <3> QED BY <3>1, <3>2, Undisturbed DEF Pending, Starting
  <2> QED BY <1>3, <2>1, <2>2, <2>3, <2>4 DEF TabNext
<1>4. CASE RunUp
  <2>1. CASE behind' = TRUE
    BY <2>1, Mending
  <2>2. CASE /\ runs' = [of |-> file, up |-> TRUE] /\ UNCHANGED <<file, exec>>
             /\ behind' = \E t \in Tabs : Midway(t)
    <3>1. Follows'
      BY <2>2 DEF Follows
    <3>2. ASSUME NEW t \in Tabs PROVE ReturnsAt(t)'
      <4>1. Pending(t) => Midway(t)
        BY DEF Carried, FitsAt, Pending, Working, AtFits, Midway
      <4> QED BY <2>2, <4>1 DEF ReturnsAt, Pending
    <3> QED BY <3>1, <3>2 DEF Returns
  <2> QED BY <1>4, <2>1, <2>2 DEF RunUp, disk
<1>5. CASE RunStop
  <2>1. UNCHANGED <<file, behind, exec>> /\ Head(jobs).kind # "up"
    BY <1>5 DEF RunStop, disk
  <2>2. runs'.of = runs.of
    BY <1>5 DEF RunStop, Carried, Data
  <2>3. UpQueued => UpQueued'
    BY <1>1, <2>1, UpStays
  <2> QED BY <2>1, <2>2, <2>3, Undisturbed DEF Pending, Starting
<1>6. CASE RunDown
  <2>1. CASE behind' = TRUE
    BY <2>1, Mending
  <2>2. CASE /\ file' = None
             /\ exec' = [t \in Tabs |-> IF Working(t) THEN [exec[t] EXCEPT !.spoiled = TRUE] ELSE exec[t]]
    <3>1. \A t \in Tabs : exec'[t].at = exec[t].at /\ (Working(t) => exec'[t].spoiled)
      BY <2>2 DEF Carried, Formed, ExecFields
    <3> QED BY <2>2, <3>1 DEF Returns, Follows, ReturnsAt, Pending, Working
  <2>3. CASE UNCHANGED <<disk, runs, exec, behind>>
    <3>1. Head(jobs).kind # "up"
      BY <1>6 DEF RunDown
    <3>2. UpQueued => UpQueued'
      BY <1>1, <3>1, UpStays
    <3> QED BY <2>3, <3>2, Undisturbed DEF Pending, Starting, disk
  <2> QED BY <1>6, <2>1, <2>2, <2>3 DEF RunDown
<1>7. CASE Restart
  <2>1. /\ behind' = (behind \/ \E t \in Tabs : Working(t))
        /\ UNCHANGED <<file, runs>> /\ \A t \in Tabs : exec'[t] = Idle
    BY <1>7 DEF Restart, disk
  <2>2. CASE behind \/ \E t \in Tabs : Working(t)
    BY <2>1, <2>2, Mending
  <2>3. CASE ~(behind \/ \E t \in Tabs : Working(t))
    <3>1. \A t \in Tabs : /\ ~Pending(t) /\ ~Starting(t) /\ ~Pending(t)'
      BY <2>1, <2>3, IdleRests DEF Pending, Starting, Working
    <3>2. UpQueued => UpQueued'
      <4>1. ~(jobs # <<>> /\ jobs' = Tail(jobs))
        BY <1>7, Marking DEF Restart, JobsFit
      <4> QED BY <1>1, <4>1, UpStays
    <3> QED BY <2>1, <2>3, <3>1, <3>2, Undisturbed
  <2> QED BY <2>2, <2>3
<1>8. CASE UNCHANGED vars
  BY <1>2, <1>8, Undisturbed DEF vars, disk, history, Pending, Starting
<1> QED BY <1>3, <1>4, <1>5, <1>6, <1>7, <1>8 DEF Next

LEMMA InitReturns == Init => Returns
BY IdleRests DEF Init, Returns, Follows, ReturnsAt, Pending

StepInv == TypeInv /\ Fresh /\ Returns

LEMMA InitSteps == Init => StepInv
BY InitTypes, InitFresh, InitReturns DEF StepInv

LEMMA NextSteps == StepInv /\ [Next]_vars => StepInv'
BY NextTypes, NextFresh, NextReturns DEF StepInv

\* At rest the containers are those of the file (app-plan.ts:423, docker.go): whichever plan
\* wrote it last or was undone, and whatever jobs were delivered again; but, until the next
\* start, after a start that failed or a rollback that could not delete its point.
THEOREM KeepsInStep == Spec => []InStep
<1>1. StepInv => InStep
  <2> SUFFICES ASSUME StepInv, \A t \in Tabs : ~Working(t), jobs = <<>>, ~behind, file # None
               PROVE  runs.of = file
    BY DEF InStep
  <2>1. \A t \in Tabs : ~Pending(t) /\ ~Starting(t)
    BY DEF Pending, Starting, Working
  <2>2. ~UpQueued
    BY EmptySeq DEF UpQueued
  <2> QED BY <2>1, <2>2 DEF StepInv, Returns, Follows, Mended
<1> QED BY <1>1, InitSteps, NextSteps, PTL DEF Spec

----------------------------------------------------------------------------
(* A tab that is about to remove the app follows no job, and the tab that    *)
(* asked for a removal follows it, or a job behind it, until it was run: so  *)
(* a tab that asks a second time finds the first one done.                   *)

KnownFirst(t) ==
    \/ dialog[t].open /\ dialog[t].req.op = "remove"
    \/ ~Idles(t) /\ exec[t].req.op = "remove"
    => known[t] = None

Downed(i) ==
    /\ file # None /\ jobs[i].of = life
    /\ \E j \in DOMAIN jobs : j >= i /\ jobs[j].id = known[jobs[i].by]

DownsKnown ==
    ~doubt => /\ \A i \in DOMAIN jobs : ~jobs[i].failed
              /\ \A i, j \in Downs : i = j
              /\ \A i \in Downs : Downed(i)

Removals == DownsKnown /\ \A t \in Tabs : KnownFirst(t)

\* The jobs stay: the app does, too, while a removal waits.
LEMMA RemovalsRest ==
  ASSUME DownsKnown, UNCHANGED <<jobs, known>>, doubt => doubt',
         ~doubt' /\ file # None /\ Downs # {} => file' # None /\ life' = life
  PROVE  DownsKnown'
<1>1. Downs' = Downs
  BY DEF Downs
<1>2. SUFFICES ASSUME ~doubt' PROVE DownsKnown'
  BY DEF DownsKnown
<1>3. \A i \in Downs : Downed(i)'
  <2> TAKE i \in Downs
  <2>1. Downed(i)
    BY <1>2 DEF DownsKnown
  <2>2. file' # None /\ life' = life
    BY <1>2, <2>1 DEF Downed
  <2> QED BY <2>1, <2>2 DEF Downed
<1> QED BY <1>1, <1>2, <1>3 DEF DownsKnown

\* The first job leaves: the others move up.
LEMMA RemovalsShift ==
  ASSUME JobsFit, DownsKnown, UNCHANGED known, doubt => doubt',
         jobs # <<>>, jobs' = Tail(jobs),
         Head(jobs).kind = "down" \/ UNCHANGED <<file, life>>
  PROVE  DownsKnown'
<1>1. SUFFICES ASSUME ~doubt' PROVE DownsKnown'
  BY DEF DownsKnown
<1>2. /\ jobs \in Seq(Jobs(jobCount)) /\ Len(jobs) \in Nat \ {0} /\ DOMAIN jobs = 1 .. Len(jobs)
      /\ Head(jobs) = jobs[1]
  BY EmptySeq, LenProperties, HeadTailProperties DEF JobsFit
<1>3. /\ Len(jobs') = Len(jobs) - 1 /\ DOMAIN jobs' = 1 .. Len(jobs')
      /\ \A j \in 1 .. Len(jobs') : jobs'[j] = jobs[j + 1]
  BY <1>2, HeadTailProperties, LenProperties
<1>4. \A i \in DOMAIN jobs' : i + 1 \in DOMAIN jobs /\ jobs'[i] = jobs[i + 1] /\ i \in Nat
  BY <1>2, <1>3
<1>5. \A j \in DOMAIN jobs : j > 1 => j - 1 \in DOMAIN jobs' /\ jobs'[j - 1] = jobs[j]
  BY <1>2, <1>3
<1>6. \A i \in Downs' : i + 1 \in Downs /\ i \in Nat /\ i \in DOMAIN jobs'
  BY <1>4 DEF Downs
<1>7. \A i \in DOMAIN jobs' : ~jobs'[i].failed
  BY <1>1, <1>4 DEF DownsKnown
<1>8. \A i, j \in Downs' : i = j
  <2> TAKE i, j \in Downs'
  <2>1. i + 1 = j + 1 /\ i \in Nat /\ j \in Nat
    BY <1>1, <1>6 DEF DownsKnown
  <2> QED BY <2>1
<1>9. \A i \in Downs' : Downed(i)'
  <2> TAKE i \in Downs'
  <2>1. i + 1 \in Downs /\ i \in Nat /\ i \in DOMAIN jobs' /\ i > 0
    BY <1>3, <1>6
  <2>2. Downed(i + 1)
    BY <1>1, <2>1 DEF DownsKnown
  <2>3. Head(jobs).kind # "down"
    <3>1. ASSUME Head(jobs).kind = "down" PROVE FALSE
      <4>1. 1 \in Downs
        BY <1>2, <3>1 DEF Downs
      <4>2. i + 1 = 1
        BY <1>1, <2>1, <4>1 DEF DownsKnown
      <4> QED BY <2>1, <4>2
    <3> QED BY <3>1
  <2>4. PICK j \in DOMAIN jobs : j >= i + 1 /\ jobs[j].id = known[jobs[i + 1].by]
    BY <2>2 DEF Downed
  <2>5. j \in Nat
    BY <1>2, <2>4
  <2>6. j - 1 \in DOMAIN jobs' /\ jobs'[j - 1] = jobs[j] /\ j - 1 >= i
    BY <1>5, <2>1, <2>4, <2>5
  <2>7. jobs'[i] = jobs[i + 1]
    BY <1>4, <2>1
  <2> QED BY <2>2, <2>3, <2>4, <2>6, <2>7 DEF Downed
<1> QED BY <1>7, <1>8, <1>9 DEF DownsKnown

\* A job joins the queue: the tab it is of may follow it from now on.
LEMMA RemovalsAppend ==
  ASSUME JobsFit, DownsKnown, UNCHANGED <<file, life>>, doubt => doubt',
         NEW t \in Tabs, NEW job, jobs' = Append(jobs, job), ~job.failed, job.by = t,
         known' = known \/ known' = [known EXCEPT ![t] = job.id],
         ~doubt' /\ job.kind = "down" =>
             /\ file # None /\ job.of = life /\ known'[t] = job.id
             /\ Downs = {}
  PROVE  DownsKnown'
<1>1. SUFFICES ASSUME ~doubt' PROVE DownsKnown'
  BY DEF DownsKnown
<1> DEFINE n == Len(jobs)
<1>2. /\ DOMAIN jobs = 1 .. n /\ n \in Nat
  BY LenProperties DEF JobsFit
<1>3. /\ DOMAIN jobs' = 1 .. (n + 1)
      /\ \A i \in 1 .. n : jobs'[i] = jobs[i]
      /\ jobs'[n + 1] = job
  <2>1. /\ DOMAIN Append(jobs, job) = 1 .. (n + 1)
        /\ \A i \in 1 .. n : Append(jobs, job)[i] = jobs[i]
        /\ Append(jobs, job)[n + 1] = job
    BY Appending DEF JobsFit
  <2> HIDE DEF n
  <2> QED BY <2>1, Zenon
<1> HIDE DEF n
<1>4. \A i \in DOMAIN jobs' : i = n + 1 \/ i \in DOMAIN jobs
  BY <1>2, <1>3
<1>5. \A i \in DOMAIN jobs : jobs'[i] = jobs[i] /\ i \in DOMAIN jobs' /\ n + 1 >= i
  BY <1>2, <1>3
<1>6. \A i \in DOMAIN jobs' : ~jobs'[i].failed
  BY <1>1, <1>3, <1>4, <1>5 DEF DownsKnown
<1>7. n + 1 \in DOMAIN jobs' /\ n + 1 >= n + 1
  BY <1>2, <1>3
<1>8. CASE job.kind = "down"
  <2>0. PICK m : m = n + 1
    OBVIOUS
  <2>1. \A i \in Downs' : i = m
    BY <2>0, <1>1, <1>4, <1>5, <1>8 DEF Downs
  <2>2. file' # None /\ jobs'[m].of = life' /\ known'[t] = job.id
    BY <2>0, <1>1, <1>3, <1>8
  <2>3. jobs'[m].id = known'[jobs'[m].by] /\ m \in DOMAIN jobs' /\ m >= m
    BY <2>0, <1>3, <1>7, <2>2
  <2>5. Downed(m)'
    BY <2>2, <2>3 DEF Downed
  <2>6. \A i \in Downs' : Downed(i)'
    BY <2>1, <2>5
  <2>4. \A i, j \in Downs' : i = j
    BY <2>1
  <2> QED BY <1>6, <2>4, <2>6 DEF DownsKnown
<1>9. CASE job.kind # "down"
  <2>1. \A i \in Downs' : i \in Downs
    BY <1>3, <1>4, <1>5, <1>9 DEF Downs
  <2>2. \A i \in Downs : Downed(i)'
    <3> TAKE i \in Downs
    <3>1. Downed(i) /\ i \in DOMAIN jobs
      BY <1>1 DEF DownsKnown, Downs
    <3>2. PICK j \in DOMAIN jobs : j >= i /\ jobs[j].id = known[jobs[i].by]
      BY <3>1 DEF Downed
    <3>3. CASE known'[jobs[i].by] = known[jobs[i].by]
      BY <1>5, <3>1, <3>2, <3>3 DEF Downed
    <3>4. CASE known'[jobs[i].by] # known[jobs[i].by]
      <4>1. known'[jobs[i].by] = job.id
        <5>1. jobs[i] \in Jobs(jobCount)
          BY <1>2, <3>1, ElementOfSeq DEF JobsFit, n
        <5>2. jobs[i].by \in Tabs
          BY <5>1 DEF Jobs
        <5> QED BY <3>4, <5>2 DEF JobsFit
      <4> QED BY <1>3, <1>5, <1>7, <3>1, <4>1 DEF Downed
    <3> QED BY <3>3, <3>4
  <2>3. \A i, j \in Downs' : i = j
    BY <1>1, <2>1 DEF DownsKnown
  <2> QED BY <1>6, <2>1, <2>2, <2>3 DEF DownsKnown
<1> QED BY <1>8, <1>9

LEMMA KnownFirstStays ==
  ASSUME NEW u \in Tabs, KnownFirst(u), known'[u] \in {known[u], None},
         dialog'[u].open => dialog[u].open /\ dialog'[u].req = dialog[u].req,
         exec'[u].at # "idle" => exec[u].at # "idle" /\ exec'[u].req = exec[u].req
  PROVE  KnownFirst(u)'
BY DEF KnownFirst, Idles

\* The steps of a plan: the app stays while a removal waits, or there is doubt.
LEMMA StepRemovals ==
  ASSUME TypeInv, Fresh, Removals, NEW t \in Tabs,
         Keep(t) \/ Write(t) \/ Validate(t) \/ Undo(t) \/ UndoKept(t) \/ Drop(t)
           \/ Validated(t)
  PROVE  Removals'
<1> USE DEF TypeInv, Removals
<1> DEFINE e == exec[t]
<1>1. Formed /\ FitsAt(t) /\ None \notin Contents
  BY AppPlansAssumption DEF Carried
<1>2. UNCHANGED <<jobs, known>> /\ (doubt => doubt')
  <2>1. CASE Keep(t)
    BY <2>1 DEF Keep, Fails, tabVars, history
  <2>2. CASE Write(t)
    BY <2>2 DEF Write, Fails, tabVars, history
  <2>3. CASE Validate(t) \/ Drop(t) \/ Validated(t)
    BY <2>3 DEF Validate, Drop, Validated, Fails, tabVars
  <2>4. CASE Undo(t)
    BY <2>4 DEF Undo
  <2>5. CASE UndoKept(t)
    BY <2>5 DEF UndoKept
  <2> QED BY <2>1, <2>2, <2>3, <2>4, <2>5
<1>3. \A at : Changes(t, at) /\ file # None => life' = life
  BY DEF Changes
<1>4. ~doubt' /\ file # None /\ Downs # {} => file' # None /\ life' = life
  <2>1. CASE Keep(t)
    BY <1>3, <2>1 DEF Keep, Fails, disk, history
  <2>2. CASE Write(t)
    <3>1. e.plan.writes \in Contents
      BY <1>1, <2>2 DEF Write, FitsAt, AtFits, PlanFits, Working
    <3>2. file' = e.plan.writes \/ UNCHANGED file
      BY <2>2 DEF Write, Fails, disk
    <3>3. (\E at : Changes(t, at)) \/ UNCHANGED life
      BY <2>2 DEF Write, history
    <3> QED BY <1>1, <1>3, <3>1, <3>2, <3>3
  <2>3. CASE Undo(t)
    <3>1. e.req.op \in {"update", "rollback", "install"}
      BY <1>1, <2>3 DEF Undo, FitsAt, AtFits, Working
    <3>2. e.req.op # "install" => Before(e.plan) \in Contents
      BY <1>1, <2>3, <3>1 DEF Undo, FitsAt, PlanFits, Working
    <3>3. e.req.op = "install" /\ Downs # {} => doubt'
      BY <2>3 DEF Undo
    <3>4. file' = Before(e.plan) \/ UNCHANGED file
      BY <2>3 DEF Undo, disk
    <3>5. (\E at : Changes(t, at)) \/ UNCHANGED life
      BY <2>3 DEF Undo
    <3> QED BY <1>1, <1>3, <3>2, <3>3, <3>4, <3>5
  <2>4. CASE UndoKept(t)
    BY <1>3, <2>4 DEF UndoKept, disk
  <2>5. CASE Drop(t)
    BY <1>3, <2>5 DEF Drop, Fails, disk
  <2>6. CASE Validate(t) \/ Validated(t)
    BY <2>6 DEF Validate, Validated, disk
  <2> QED BY <2>1, <2>2, <2>3, <2>4, <2>5, <2>6
<1>5. DownsKnown'
  BY <1>2, <1>4, RemovalsRest
<1>6. PICK at : Ended(t) \/ Goes(t, at) \/ Changes(t, at)
  BY DEF Keep, Write, Validate, Undo, UndoKept, Drop, Validated, Fails
<1>7. exec'[t].at # "idle" => exec[t].at # "idle" /\ exec'[t].req = exec[t].req
  <2>1. exec[t].at # "idle"
    BY DEF Keep, Write, Validate, Undo, UndoKept, Drop, Validated
  <2>2. CASE at = "idle" /\ Changes(t, at)
    BY <1>1, <2>2, ChangesEnds, IdleRests
  <2> QED BY <1>1, <1>6, <2>1, <2>2, EndedDoes, GoesDoes, ChangesDoes, IdleRests
<1>8. \A u \in Tabs \ {t} : exec'[u].at = exec[u].at /\ exec'[u].req = exec[u].req
  BY <1>1, <1>6, EndedDoes, GoesDoes, ChangesSpoils
<1>9. \A u \in Tabs : dialog'[u] = dialog[u] \/ dialog'[u] = Closed
  BY <1>1 DEF Keep, Write, Validate, Undo, UndoKept, Drop, Validated, Fails, Leaves, Formed, tabVars
<1>10. \A u \in Tabs : KnownFirst(u)'
  BY <1>2, <1>7, <1>8, <1>9, IdleRests, KnownFirstStays
<1> QED BY <1>5, <1>10

LEMMA PublishRemovals ==
  ASSUME TypeInv, Fresh, Removals, NEW t \in Tabs, Publish(t)
  PROVE  Removals'
<1> USE DEF TypeInv, Removals
<1> DEFINE e == exec[t]
           job == Job(IF e.req.op = "remove" THEN "down" ELSE "up", t, e.life)
<1>1. Formed /\ None \notin Nat /\ jobCount \in Nat
  BY AppPlansAssumption DEF Carried, Data
<1>2. e.at = "publish" /\ Ended(t) /\ Leaves(t) /\ UNCHANGED <<file, life>>
  BY DEF Publish, disk
<1>3. /\ exec'[t] = Idle /\ dialog'[t] = Closed
      /\ \A u \in Tabs \ {t} : exec'[u] = exec[u] /\ dialog'[u] = dialog[u]
  BY <1>1, <1>2, EndedDoes DEF Leaves, Formed
<1>4. \/ doubt' = TRUE
      \/ /\ Queue(job)
         /\ known' = [known EXCEPT ![t] = IF e.req.op \in {"remove", "start", "apply", "create"}
                                             THEN job.id ELSE @]
         /\ doubt' = \/ doubt
                     \/ /\ job.kind = "down"
                        /\ e.spoiled \/ \E i \in Downs : jobs[i].by # t
  BY Zenon DEF Publish
<1>5. UNCHANGED known \/ \E v : known' = [known EXCEPT ![t] = v]
  BY Zenon DEF Publish
<1>6. \A u \in Tabs \ {t} : known'[u] = known[u]
  BY <1>5 DEF JobsFit
<1>7. \A u \in Tabs : KnownFirst(u)'
  <2>1. KnownFirst(t)'
    BY <1>3, IdleRests DEF KnownFirst, Idles
  <2>2. \A u \in Tabs \ {t} : KnownFirst(u)'
    BY <1>3, <1>6, KnownFirstStays
  <2> QED BY <2>1, <2>2
<1>8. DownsKnown'
  <2>1. CASE doubt' = TRUE
    BY <2>1 DEF DownsKnown
  <2>2. CASE /\ Queue(job)
             /\ known' = [known EXCEPT ![t] = IF e.req.op \in {"remove", "start", "apply", "create"}
                                                THEN job.id ELSE @]
             /\ doubt' = \/ doubt
                         \/ /\ job.kind = "down"
                            /\ e.spoiled \/ \E i \in Downs : jobs[i].by # t
    <3>1. jobs' = Append(jobs, job) /\ ~job.failed /\ job.by = t /\ job.of = e.life
      BY <2>2 DEF Queue, Job
    <3>2. job.kind = "down" => e.req.op = "remove"
      BY DEF Job
    <3> HIDE DEF job
    <3>3. known' = known \/ known' = [known EXCEPT ![t] = job.id]
      BY <2>2 DEF JobsFit
    <3>4. e.req.op = "remove" => known'[t] = job.id
      BY <2>2 DEF JobsFit
    <3>5. doubt => doubt'
      BY <2>2
    <3>6. ASSUME ~doubt', job.kind = "down"
          PROVE  file # None /\ job.of = life /\ Downs = {}
      <4>1. ~doubt /\ ~e.spoiled /\ \A i \in Downs : jobs[i].by = t
        BY <2>2, <3>6
      <4>2. file # None /\ e.life = life
        BY <1>2, <3>2, <3>6, <4>1 DEF Fresh, FreshTab, FreshAt, Working
      <4>3. known[t] = None
        BY <1>2, <3>2, <3>6 DEF KnownFirst, Idles
      <4>4. ASSUME NEW i \in Downs PROVE FALSE
        <5>1. PICK j \in DOMAIN jobs : jobs[j].id = known[t]
          BY <4>1, <4>4 DEF DownsKnown, Downed
        <5>2. jobs[j] \in Jobs(jobCount)
          BY <5>1, ElementOfSeq, LenProperties DEF JobsFit
        <5>3. jobs[j].id \in Nat
          BY <1>1, <5>2 DEF Jobs
        <5> QED BY <1>1, <4>3, <5>1, <5>3
      <4> QED BY <3>1, <4>2, <4>4
    <3> QED BY <1>2, <3>1, <3>2, <3>3, <3>4, <3>5, <3>6, RemovalsAppend
  <2> QED BY <1>4, <2>1, <2>2
<1> QED BY <1>7, <1>8

\* The dialog: a removal is asked for only by a tab that follows nothing.
LEMMA DialogRemovals ==
  ASSUME TypeInv, Removals, NEW t \in Tabs,
         \/ \E r \in Requests : Open(t, r)
         \/ SetOption(t) \/ Review(t) \/ Answer(t) \/ Arrive(t) \/ Close(t) \/ Click(t)
         \/ Check(t) \/ Direct(t)
  PROVE  Removals'
<1> USE DEF TypeInv, Removals, Carried, Formed
<1>1. UNCHANGED <<file, life, doubt, jobs, known>>
  <2> USE DEF disk, history, tabVars
  <2>1. CASE \E r \in Requests : Open(t, r)
    BY <2>1 DEF Open
  <2>2. CASE SetOption(t) \/ Review(t)
    BY <2>2 DEF SetOption, Review
  <2>3. CASE Answer(t) \/ Arrive(t) \/ Close(t) \/ Click(t) \/ Check(t) \/ Direct(t)
    BY <2>3 DEF Answer, Arrive, Close, Click, Check, Direct
  <2> QED BY <2>1, <2>2, <2>3
<1>2. DownsKnown'
  BY <1>1, RemovalsRest
<1>3. ASSUME NEW r, Load(t, r), UNCHANGED exec, r.op = "remove" => known[t] = None
      PROVE  \A u \in Tabs : KnownFirst(u)'
  <2>1. /\ dialog'[t].req = r
        /\ \A u \in Tabs \ {t} : dialog'[u] = dialog[u]
    BY <1>3 DEF Load, DialogFields
  <2>2. \A u \in Tabs \ {t} : KnownFirst(u)'
    BY <1>1, <1>3, <2>1, KnownFirstStays
  <2>3. KnownFirst(t)'
    BY <1>1, <1>3, <2>1 DEF KnownFirst, Idles
  <2> QED BY <2>2, <2>3
<1>4. CASE \E r \in Requests : Open(t, r)
  BY <1>2, <1>3, <1>4 DEF Open
<1>5. CASE SetOption(t)
  <2>1. known[t] = None
    BY <1>5 DEF SetOption, KnownFirst
  <2> QED BY <1>2, <1>3, <1>5, <2>1 DEF SetOption
<1>6. CASE Review(t)
  <2>1. dialog[t].req.op = "remove" => known[t] = None
    BY <1>6 DEF Review, KnownFirst
  <2> QED BY <1>2, <1>3, <1>6, <2>1 DEF Review
<1>7. CASE Answer(t)
  BY <1>1, <1>2, <1>7, KnownFirstStays DEF Answer
<1>8. CASE Arrive(t) \/ Close(t)
  <2>1. UNCHANGED exec
    BY <1>8 DEF Arrive, Close
  <2>2. \A u \in Tabs : dialog'[u].open => dialog[u].open /\ dialog'[u].req = dialog[u].req
    <3>1. CASE Arrive(t)
      <4>1. PICK a : dialog' = [dialog EXCEPT ![t] =
              IF ~@.open THEN @
              ELSE [@ EXCEPT !.loading = FALSE,
                             !.preview = IF "op" \in DOMAIN a.reply THEN None ELSE a.reply]]
        BY <3>1 DEF Arrive
      <4> QED BY <4>1 DEF DialogFields
    <3>2. CASE Close(t)
      BY <3>2, IdleRests DEF Close
    <3> QED BY <1>8, <3>1, <3>2
  <2> QED BY <1>1, <1>2, <2>1, <2>2, KnownFirstStays
<1>9. CASE Click(t)
  <2>1. UNCHANGED dialog /\ dialog[t].open
    BY <1>9 DEF Click, tabVars
  <2>2. exec'[t].req = dialog[t].req /\ \A u \in Tabs \ {t} : exec'[u] = exec[u]
    BY <1>9 DEF Click, Idle
  <2>3. KnownFirst(t)'
    BY <1>1, <2>1, <2>2 DEF KnownFirst, Idles
  <2> QED BY <1>1, <1>2, <2>1, <2>2, <2>3, KnownFirstStays
<1>10. CASE Check(t)
  <2>1. \A u \in Tabs : dialog'[u].open = dialog[u].open /\ dialog'[u].req = dialog[u].req
    <3>1. UNCHANGED dialog \/ dialog' = [dialog EXCEPT ![t].stale = TRUE]
      BY <1>10 DEF Check
    <3> QED BY <3>1 DEF DialogFields
  <2>2. exec[t].at = "sent" /\ (exec'[t] = Idle \/ exec'[t].req = exec[t].req)
    BY <1>10 DEF Check, Ended, ExecFields
  <2>3. \A u \in Tabs \ {t} : exec'[u] = exec[u]
    BY <1>10 DEF Check, Ended
  <2> QED BY <1>1, <1>2, <2>1, <2>2, <2>3, KnownFirstStays, IdleRests
<1>11. CASE Direct(t)
  <2>1. UNCHANGED dialog
    BY <1>11 DEF Direct, tabVars
  <2>2. /\ exec'[t].req.op \in {"pin", "import"} /\ ~dialog[t].open
        /\ \A u \in Tabs \ {t} : exec'[u] = exec[u]
    BY <1>11, DirectStarts DEF Direct
  <2>3. KnownFirst(t)'
    BY <2>1, <2>2 DEF KnownFirst
  <2> QED BY <1>1, <1>2, <2>1, <2>2, <2>3, KnownFirstStays
<1> QED BY <1>4, <1>5, <1>6, <1>7, <1>8, <1>9, <1>10, <1>11

LEMMA NextRemovals ==
  ASSUME TypeInv, Fresh, Removals, [Next]_vars
  PROVE  Removals'
<1> USE DEF TypeInv, Removals
<1>1. ASSUME NEW t \in Tabs, Stop(t) PROVE Removals'
  <2> DEFINE job == Job("stop", t, life)
  <2>1. jobs' = Append(jobs, job) /\ ~job.failed /\ job.by = t /\ job.kind # "down"
    BY <1>1 DEF Stop, Queue, Job
  <2>2. known' = [known EXCEPT ![t] = job.id]
    BY <1>1 DEF Stop, Queue, Job
  <2> HIDE DEF job
  <2>3. UNCHANGED <<file, life, doubt, dialog, exec>> /\ ~dialog[t].open /\ Idles(t)
    BY <1>1 DEF Stop, disk, history
  <2>4. DownsKnown'
    BY <2>1, <2>2, <2>3, RemovalsAppend
  <2>5. KnownFirst(t)'
    BY <2>3 DEF KnownFirst, Idles
  <2>6. \A u \in Tabs \ {t} : known'[u] = known[u]
    BY <2>2 DEF JobsFit
  <2>7. \A u \in Tabs \ {t} : KnownFirst(u)'
    BY <2>3, <2>6, KnownFirstStays
  <2> QED BY <2>4, <2>5, <2>7
<1>2. ASSUME NEW t \in Tabs, Settle(t) PROVE Removals'
  <2>1. /\ UNCHANGED <<file, life, doubt, dialog, exec, jobs>>
        /\ known' = [known EXCEPT ![t] = None]
    BY <1>2 DEF Settle, disk, history
  <2>2. \A u \in Tabs : known'[u] \in {known[u], None}
    BY <2>1 DEF JobsFit
  <2>3. \A u \in Tabs : KnownFirst(u)'
    BY <2>1, <2>2, KnownFirstStays
  <2>4. ASSUME ~doubt, NEW i \in Downs PROVE Downed(i)'
    <3>1. Downed(i)
      BY <2>4 DEF DownsKnown
    <3>2. PICK j \in DOMAIN jobs : j >= i /\ jobs[j].id = known[jobs[i].by]
      BY <3>1 DEF Downed
    <3>3. ~jobs[j].failed
      BY <2>4 DEF DownsKnown
    <3>4. jobs[i].by # t
      BY <1>2, <3>2, <3>3 DEF Settle
    <3>5. jobs[i].by \in Tabs
      <4>1. jobs[i] \in Jobs(jobCount)
        BY ElementOfSeq, LenProperties DEF JobsFit, Downs
      <4> QED BY <4>1 DEF Jobs
    <3>6. known'[jobs[i].by] = known[jobs[i].by]
      BY <2>1, <3>4, <3>5 DEF JobsFit
    <3> QED BY <2>1, <3>1, <3>2, <3>6 DEF Downed
  <2>5. DownsKnown'
    <3>1. Downs' = Downs
      BY <2>1 DEF Downs
    <3> QED BY <2>1, <2>4, <3>1 DEF DownsKnown
  <2> QED BY <2>3, <2>5
<1>3. ASSUME NEW t \in Tabs, TabNext(t) PROVE Removals'
  <2>1. CASE \/ Keep(t) \/ Write(t) \/ Validate(t) \/ Undo(t) \/ UndoKept(t) \/ Drop(t)
             \/ Validated(t)
    BY <2>1, StepRemovals
  <2>2. CASE \/ \E r \in Requests : Open(t, r)
             \/ SetOption(t) \/ Review(t) \/ Answer(t) \/ Arrive(t) \/ Close(t) \/ Click(t)
             \/ Check(t) \/ Direct(t)
    BY <2>2, DialogRemovals
  <2> QED BY <1>1, <1>2, <1>3, <2>1, <2>2, PublishRemovals DEF TabNext
<1>4. CASE RunUp \/ RunStop \/ RunDown
  <2>1. UNCHANGED <<dialog, known>>
    BY <1>4 DEF RunUp, RunStop, RunDown, tabVars
  <2>2. \A u \in Tabs : exec'[u].at = exec[u].at /\ exec'[u].req = exec[u].req
    BY <1>4 DEF RunUp, RunStop, RunDown, Carried, Formed, ExecFields
  <2>3. \A u \in Tabs : KnownFirst(u)'
    BY <2>1, <2>2, KnownFirstStays
  <2>4. CASE doubt' = TRUE
    BY <2>3, <2>4 DEF DownsKnown
  <2>5. CASE /\ jobs # <<>> /\ jobs' = Tail(jobs) /\ UNCHANGED doubt
             /\ Head(jobs).kind = "down" \/ UNCHANGED <<file, life>>
    BY <2>1, <2>3, <2>5, RemovalsShift
  <2>6. \/ doubt' = TRUE
        \/ /\ jobs # <<>> /\ jobs' = Tail(jobs) /\ UNCHANGED doubt
           /\ Head(jobs).kind = "down" \/ UNCHANGED <<file, life>>
    <3>1. CASE RunUp
      BY <3>1 DEF RunUp, Taken, disk
    <3>2. CASE RunStop
      BY <3>2 DEF RunStop, Taken, disk
    <3>3. CASE RunDown
      BY <3>3 DEF RunDown, Taken, disk
    <3> QED BY <1>4, <3>1, <3>2, <3>3
  <2> QED BY <2>4, <2>5, <2>6
<1>5. CASE Restart
  <2>1. doubt' = TRUE /\ UNCHANGED known /\ \A u \in Tabs : exec'[u] = Idle
    BY <1>5 DEF Restart
  <2>2. \A u \in Tabs : dialog'[u].open = dialog[u].open /\ dialog'[u].req = dialog[u].req
    BY <1>5 DEF Restart, Carried, Formed, DialogFields
  <2>3. \A u \in Tabs : KnownFirst(u)'
    BY <2>1, <2>2, IdleRests, KnownFirstStays
  <2> QED BY <2>1, <2>3 DEF DownsKnown
<1>6. CASE UNCHANGED vars
  <2>1. UNCHANGED <<file, life, doubt, dialog, exec, jobs, known>>
    BY <1>6 DEF vars, disk, history, tabVars
  <2> QED BY <2>1, RemovalsRest, KnownFirstStays
<1> QED BY <1>3, <1>4, <1>5, <1>6 DEF Next

LEMMA InitRemovals == Init => Removals
<1> SUFFICES ASSUME Init PROVE Removals
  OBVIOUS
<1>1. jobs = <<>> /\ DOMAIN jobs = {}
  BY DEF Init
<1>2. DownsKnown
  BY <1>1 DEF DownsKnown, Downs
<1>3. \A t \in Tabs : KnownFirst(t)
  BY DEF Init, KnownFirst
<1> QED BY <1>2, <1>3 DEF Removals

\* A removal that waits takes the app it was asked for and none created since under its name
\* (docker.go): a tab asks for it only while it follows no job, and the app is not written anew
\* before the removal was run.
THEOREM RemovesAsAsked == Spec => []RemovedAsAsked
<1>1. StepInv /\ Removals => RemovedAsAsked
  BY DEF Removals, DownsKnown, Downed, RemovedAsAsked
<1>2. Init => StepInv /\ Removals
  BY InitSteps, InitRemovals
<1>3. StepInv /\ Removals /\ [Next]_vars => (StepInv /\ Removals)'
  BY NextSteps, NextRemovals DEF StepInv
<1> QED BY <1>1, <1>2, <1>3, PTL DEF Spec

----------------------------------------------------------------------------
(* Refinement of AppLife.  While one plan changes the files, the app is as   *)
(* before it: the plan takes effect with the step that ends it, or that a    *)
(* restart cuts.  Alone: until executions cross, at most one changes files.  *)

Alone ==
    mode # "blurred" =>
        /\ \A t, u \in Tabs : Midway(t) /\ Midway(u) => t = u
        /\ file = None => kept = None
        /\ \A t \in Tabs : Midway(t) /\ ~exec[t].spoiled /\ exec[t].req.op = "install"
              => kept = None

LEMMA AloneRests ==
  ASSUME Alone, UNCHANGED <<file, kept>>, mode' # "blurred" => mode # "blurred",
         \A u \in Tabs : Midway(u)' => /\ Midway(u) /\ exec'[u].req = exec[u].req
                                       /\ exec[u].spoiled => exec'[u].spoiled
  PROVE  Alone'
BY DEF Alone

\* Who changes the files is the only one that is in the middle of it, or the mode is "blurred".
LEMMA ChangesAlone ==
  ASSUME Formed, NEW t \in Tabs, NEW at, Changes(t, at), mode' # "blurred"
  PROVE  /\ mode' = mode /\ ~exec[t].spoiled
         /\ \A u \in Tabs \ {t} : ~Midway(u) /\ ~Midway(u)'
<1>1. mode' = mode /\ ~exec[t].spoiled /\ \A u \in Tabs \ {t} : ~Midway(u)
  BY DEF Changes
<1>2. \A u \in Tabs \ {t} : exec'[u].at = exec[u].at /\ exec'[u].req = exec[u].req
  BY ChangesSpoils
<1>3. \A u \in Tabs \ {t} : ~Midway(u)'
  BY <1>1, <1>2 DEF Midway, Working
<1> QED BY <1>1, <1>3

LEMMA AloneChanges ==
  ASSUME Formed, NEW t \in Tabs, NEW at, Changes(t, at),
         mode' # "blurred" =>
            /\ file' = None => kept' = None
            /\ Midway(t)' /\ ~exec'[t].spoiled /\ exec'[t].req.op = "install" => kept' = None
  PROVE  Alone'
BY ChangesAlone DEF Alone

\* Only one acts: the app is as before its plan; nobody does: the app is what is on disk.
LEMMA AppOfActing ==
  ASSUME NEW t, Acting = {t}
  PROVE  appFile = Before(exec[t].plan) /\ appKept = KeptBefore(exec[t].plan)
<1>1. (CHOOSE u \in Acting : TRUE) = t /\ Acting # {}
  OBVIOUS
<1> QED BY <1>1 DEF appFile, appKept

LEMMA AppOfActingNext ==
  ASSUME NEW t, Acting' = {t}
  PROVE  appFile' = Before(exec'[t].plan) /\ appKept' = KeptBefore(exec'[t].plan)
<1>1. (CHOOSE u \in Acting' : TRUE) = t /\ Acting' # {}
  OBVIOUS
<1>2. /\ appFile' = Before(exec'[CHOOSE u \in Acting' : TRUE].plan)
      /\ appKept' = KeptBefore(exec'[CHOOSE u \in Acting' : TRUE].plan)
  BY <1>1 DEF appFile, appKept
<1> QED BY <1>1, <1>2

LEMMA AppOfNone ==
  /\ Acting = {} => appFile = file /\ appKept = kept
  /\ Acting' = {} => appFile' = file' /\ appKept' = kept'
BY DEF appFile, appKept

\* A step that changes no file and nobody's acting.
LEMMA AppRests ==
  ASSUME UNCHANGED <<file, kept>>,
         \A u \in Tabs : /\ Midway(u)' <=> Midway(u)
                         /\ Midway(u) => /\ exec'[u].spoiled <=> exec[u].spoiled
                                         /\ exec'[u].plan = exec[u].plan
  PROVE  UNCHANGED <<appFile, appKept>>
<1>1. Acting' = Acting
  BY DEF Acting
<1>2. CASE Acting = {}
  BY <1>1, <1>2, AppOfNone
<1>3. CASE Acting # {}
  <2> DEFINE t == CHOOSE u \in Acting : TRUE
  <2>1. t \in Acting
    BY <1>3
  <2>2. exec'[t].plan = exec[t].plan
    BY <2>1 DEF Acting
  <2>3. appFile = Before(exec[t].plan) /\ appKept = KeptBefore(exec[t].plan)
    BY <1>3 DEF appFile, appKept
  <2>4. appFile' = Before(exec'[t].plan) /\ appKept' = KeptBefore(exec'[t].plan)
    BY <1>1, <1>3 DEF appFile, appKept
  <2> HIDE DEF t
  <2> QED BY <2>2, <2>3, <2>4
<1> QED BY <1>2, <1>3

\* The steps of AppLife, on the app as it is seen.
LifeStep ==
    \/ mode' = "blurred"
    \/ UNCHANGED <<appFile, appKept, mode>>
    \/ mode # "blurred" /\ (Life!Create \/ Life!Update) /\ mode' \in {mode, "interrupted"}
    \/ mode # "blurred" /\ (Life!Edit \/ Life!Rollback \/ Life!Remove) /\ mode' = mode
    \/ mode # "blurred" /\ Life!Interrupted /\ mode' = "interrupted"

LEMMA LifeSteps == LifeStep => [Life!Next]_<<appFile, appKept, mode>>
BY DEF LifeStep, Life!Next

\* What is seen of the app before and after a step that changes its files.
LEMMA ChangesSeen ==
  ASSUME Formed, NEW t \in Tabs, NEW at, Changes(t, at), mode' # "blurred"
  PROVE  /\ IF Midway(t)
            THEN appFile = Before(exec[t].plan) /\ appKept = KeptBefore(exec[t].plan)
            ELSE appFile = file /\ appKept = kept
         /\ IF Midway(t)'
            THEN appFile' = Before(exec[t].plan) /\ appKept' = KeptBefore(exec[t].plan)
            ELSE appFile' = file' /\ appKept' = kept'
<1>1. ~exec[t].spoiled /\ \A u \in Tabs \ {t} : ~Midway(u) /\ ~Midway(u)'
  BY ChangesAlone
<1>2. Midway(t)' => exec'[t].plan = exec[t].plan /\ ~exec'[t].spoiled
  <2>1. CASE at = "idle"
    BY <2>1, ChangesEnds, IdleRests DEF Midway, Working
  <2>2. CASE at # "idle"
    BY <1>1, <2>2, ChangesDoes
  <2> QED BY <2>1, <2>2
<1>3. IF Midway(t) THEN Acting = {t} ELSE Acting = {}
  BY <1>1 DEF Acting
<1>4. IF Midway(t)' THEN Acting' = {t} ELSE Acting' = {}
  BY <1>1, <1>2 DEF Acting
<1>5. IF Midway(t)
      THEN appFile = Before(exec[t].plan) /\ appKept = KeptBefore(exec[t].plan)
      ELSE appFile = file /\ appKept = kept
  BY <1>3, AppOfActing, AppOfNone
<1>6. CASE Midway(t)'
  <2>1. Acting' = {t}
    BY <1>4, <1>6
  <2> QED BY <1>2, <1>5, <1>6, <2>1, AppOfActingNext
<1>7. CASE ~Midway(t)'
  BY <1>4, <1>5, <1>7, AppOfNone
<1> QED BY <1>6, <1>7

\* A tab goes on, the files and what it does to them as they were.
LEMMA GoesRests ==
  ASSUME Formed, Alone, NEW t \in Tabs, NEW at, Ended(t) \/ Goes(t, at),
         UNCHANGED <<file, kept>>, mode' = mode \/ mode' = "blurred",
         Midway(t)' <=> Midway(t)
  PROVE  Alone' /\ LifeStep
<1>1. \A u \in Tabs \ {t} : exec'[u] = exec[u]
  BY EndedDoes, GoesDoes
<1>2. Midway(t)' => /\ exec'[t].req = exec[t].req /\ exec'[t].plan = exec[t].plan
                    /\ exec'[t].spoiled = exec[t].spoiled
  <2>1. CASE Ended(t)
    BY <2>1, EndedDoes, IdleRests DEF Midway, Working
  <2>2. CASE Goes(t, at)
    BY <2>2, GoesDoes
  <2> QED BY <2>1, <2>2
<1>3. \A u \in Tabs : /\ Midway(u)' <=> Midway(u)
                      /\ Midway(u) => /\ exec'[u].req = exec[u].req
                                      /\ exec'[u].spoiled <=> exec[u].spoiled
                                      /\ exec'[u].plan = exec[u].plan
  BY <1>1, <1>2 DEF Midway, Working
<1>4. UNCHANGED <<appFile, appKept>>
  BY <1>3, AppRests
<1>5. Alone'
  BY <1>3, AloneRests
<1> QED BY <1>4, <1>5 DEF LifeStep

LEMMA KeepLives ==
  ASSUME Carried, Fresh, Alone, NEW t \in Tabs, Keep(t)
  PROVE  Alone' /\ LifeStep
<1> DEFINE e == exec[t]
<1>1. Formed /\ e.at = "keep" /\ e.req.op = "update" /\ ~Midway(t)
  BY DEF Keep, Carried, FitsAt, Working, AtFits, Midway
<1>2. CASE Fails(t) /\ UNCHANGED history
  <2>1. ~Midway(t)'
    BY <1>1, <1>2, EndedDoes, IdleRests DEF Fails, Midway, Working
  <2> QED BY <1>1, <1>2, <2>1, GoesRests DEF Fails, disk, history
<1>3. CASE file # None /\ kept' = Before(e.plan) /\ UNCHANGED file /\ Changes(t, "write")
  <2>1. exec'[t].at = "write" /\ exec'[t].req = e.req
    BY <1>1, <1>3, ChangesDoes
  <2>2. Midway(t)'
    BY <1>1, <2>1 DEF Midway, Working
  <2>3. Alone'
    BY <1>1, <1>3, <2>1, AloneChanges
  <2>4. SUFFICES ASSUME mode' # "blurred" PROVE LifeStep
    BY <2>3 DEF LifeStep
  <2>5. mode' = mode /\ ~e.spoiled
    BY <1>1, <1>3, <2>4, ChangesAlone
  <2>6. file = Before(e.plan) /\ kept = KeptBefore(e.plan)
    BY <1>1, <2>5 DEF Fresh, FreshTab, FreshAt, Working
  <2>7. appFile = file /\ appKept = kept
    BY <1>1, <1>3, <2>4, ChangesSeen
  <2>8. appFile' = Before(e.plan) /\ appKept' = KeptBefore(e.plan)
    BY <1>1, <1>3, <2>2, <2>4, ChangesSeen
  <2> QED BY <2>5, <2>6, <2>7, <2>8 DEF LifeStep
<1> QED BY <1>2, <1>3 DEF Keep

LEMMA WriteLives ==
  ASSUME Carried, Fresh, Alone, NEW t \in Tabs, Write(t)
  PROVE  Alone' /\ LifeStep
<1> DEFINE e == exec[t]
<1>1. /\ Formed /\ e.at = "write" /\ e.req.op \in Writers /\ e.plan.writes \in Contents
      /\ None \notin Contents
      /\ e.req.op = "install" => Before(e.plan) = None /\ KeptBefore(e.plan) = None
  BY AppPlansAssumption DEF Write, Carried, FitsAt, Working, AtFits, PlanFits
<1>2. Midway(t) <=> e.req.op = "update"
  BY <1>1 DEF Midway, Working
<1>3. CASE Fails(t) /\ UNCHANGED history /\ e.req.op # "update"
  <2>1. ~Midway(t)'
    BY <1>1, <1>3, EndedDoes, IdleRests DEF Fails, Midway, Working
  <2> QED BY <1>1, <1>2, <1>3, <2>1, GoesRests DEF Fails, disk, history
<1>4. CASE Goes(t, "undo") /\ UNCHANGED <<disk, history>> /\ e.req.op = "update"
  <2>1. exec'[t].at = "undo" /\ exec'[t].req = e.req
    BY <1>1, <1>4, GoesDoes
  <2>2. Midway(t)'
    BY <1>4, <2>1 DEF Midway, Working
  <2> QED BY <1>1, <1>2, <1>4, <2>2, GoesRests DEF disk, history
<1>5. ASSUME NEW at \in {"validate", "check", "idle"}, Changes(t, at),
             file' = e.plan.writes, UNCHANGED kept,
             at = "validate" <=> e.req.op \in {"update", "rollback", "install"}
      PROVE  Alone' /\ LifeStep
  <2>1. IF at = "idle" THEN exec'[t] = Idle ELSE exec'[t].at = at /\ exec'[t].req = e.req
    BY <1>1, <1>5, ChangesDoes, ChangesEnds
  <2>2. Midway(t)' <=> e.req.op \in {"update", "rollback", "install"}
    BY <1>1, <1>5, <2>1, IdleRests DEF Midway, Working
  <2>3. mode' # "blurred" => mode' = mode /\ ~e.spoiled
    BY <1>1, <1>5, ChangesAlone
  <2>4. ~e.spoiled =>
           /\ file = Before(e.plan)
           /\ e.req.op = "rollback" => kept = KeptBefore(e.plan)
    BY <1>1 DEF Fresh, FreshTab, FreshAt, Working
  <2>5. mode' # "blurred" /\ e.req.op = "install" => file = None /\ kept = None
    BY <1>1, <2>3, <2>4 DEF Alone
  <2>6. Alone'
    <3>1. Midway(t)' => exec'[t].req = e.req
      BY <2>1, IdleRests DEF Midway, Working
    <3> QED BY <1>1, <1>5, <2>5, <3>1, AloneChanges
  <2>7. SUFFICES ASSUME mode' # "blurred" PROVE LifeStep
    BY <2>6 DEF LifeStep
  <2>8. CASE e.req.op \in {"update", "rollback", "install"}
    <3>1. appFile' = Before(e.plan) /\ appKept' = KeptBefore(e.plan)
      BY <1>1, <1>5, <2>2, <2>7, <2>8, ChangesSeen
    <3>2. appFile = Before(e.plan) /\ appKept = KeptBefore(e.plan)
      <4>1. CASE e.req.op = "update"
        BY <1>1, <1>2, <1>5, <2>7, <4>1, ChangesSeen
      <4>2. CASE e.req.op # "update"
        <5>1. appFile = file /\ appKept = kept
          BY <1>1, <1>2, <1>5, <2>7, <4>2, ChangesSeen
        <5> QED BY <1>1, <2>3, <2>4, <2>5, <2>7, <2>8, <4>2, <5>1
      <4> QED BY <4>1, <4>2
    <3> QED BY <2>3, <2>7, <3>1, <3>2 DEF LifeStep
  <2>9. CASE e.req.op \notin {"update", "rollback", "install"}
    <3>1. appFile = file /\ appKept = kept
      BY <1>1, <1>2, <1>5, <2>7, <2>9, ChangesSeen
    <3>2. appFile' = file' /\ appKept' = kept'
      BY <1>1, <1>5, <2>2, <2>7, <2>9, ChangesSeen
    <3>3. Life!Create \/ Life!Edit
      BY <1>1, <1>5, <3>1, <3>2 DEF Life!Create, Life!Edit
    <3> QED BY <2>3, <2>7, <3>3 DEF LifeStep
  <2> QED BY <2>8, <2>9
<1>6. \/ Fails(t) /\ UNCHANGED history /\ e.req.op # "update"
      \/ Goes(t, "undo") /\ UNCHANGED <<disk, history>> /\ e.req.op = "update"
      \/ \E at \in {"validate", "check", "idle"} :
            /\ Changes(t, at) /\ file' = e.plan.writes /\ UNCHANGED kept
            /\ at = "validate" <=> e.req.op \in {"update", "rollback", "install"}
  <2> DEFINE next == CASE e.req.op \in {"update", "rollback", "install"} -> "validate"
                       [] e.req.op = "create" /\ e.req.opt -> "check"
                       [] OTHER -> "idle"
  <2>1. \/ Fails(t) /\ UNCHANGED history /\ e.req.op # "update"
        \/ Goes(t, "undo") /\ UNCHANGED <<disk, history>> /\ e.req.op = "update"
        \/ Changes(t, next) /\ file' = e.plan.writes /\ UNCHANGED kept
    BY DEF Write, history
  <2>2. /\ next \in {"validate", "check", "idle"}
        /\ next = "validate" <=> e.req.op \in {"update", "rollback", "install"}
    OBVIOUS
  <2> HIDE DEF next
  <2> QED BY <2>1, <2>2
<1> QED BY <1>3, <1>4, <1>5, <1>6

\* A plan that was valid takes effect; a tab that goes on acts as before.
LEMMA ValidateLives ==
  ASSUME Carried, Fresh, Alone, NEW t \in Tabs, Validate(t)
  PROVE  Alone' /\ LifeStep
<1> DEFINE e == exec[t]
           b == Before(exec[t].plan)
           w == exec[t].plan.writes
<1>1. /\ Formed /\ e.at = "validate" /\ e.req.op \in {"update", "rollback", "install"}
      /\ FitsAt(t) /\ Working(t) /\ Midway(t)
  BY DEF Validate, Carried, FitsAt, Working, AtFits, Midway
<1>2. UNCHANGED <<file, kept, mode>>
  BY DEF Validate, disk
<1>3. \/ \E at \in {"undo", "drop"} : Goes(t, at) /\ (at = "drop" => e.req.op = "rollback")
      \/ e.req.op # "rollback" /\ (Goes(t, "publish") \/ Ended(t))
  BY DEF Validate
<1>4. CASE \E at \in {"undo", "drop"} : Goes(t, at) /\ (at = "drop" => e.req.op = "rollback")
  <2>1. PICK at \in {"undo", "drop"} : Goes(t, at) /\ (at = "drop" => e.req.op = "rollback")
    BY <1>4
  <2>2. exec'[t].at = at /\ exec'[t].req = e.req
    BY <1>1, <2>1, GoesDoes
  <2>3. Midway(t)'
    BY <1>1, <2>1, <2>2 DEF Midway, Working
  <2> QED BY <1>1, <1>2, <2>1, <2>3, GoesRests
<1>5. CASE e.req.op # "rollback" /\ (Goes(t, "publish") \/ Ended(t))
  <2>1. exec'[t].at \in {"publish", "idle"}
    BY <1>1, <1>5, GoesDoes, EndedDoes, IdleRests
  <2>2. ~Midway(t)'
    BY <2>1 DEF Midway, Working
  <2>3. \A u \in Tabs \ {t} : exec'[u] = exec[u]
    BY <1>1, <1>5, GoesDoes, EndedDoes
  <2>4. \A u \in Tabs : Midway(u)' => Midway(u) /\ exec'[u] = exec[u]
    BY <2>2, <2>3 DEF Midway, Working
  <2>5. Alone'
    BY <1>2, <2>4, AloneRests
  <2>6. SUFFICES ASSUME mode # "blurred" PROVE LifeStep
    BY <1>2, <2>5 DEF LifeStep
  <2>7. \A u \in Tabs \ {t} : ~Midway(u) /\ ~Midway(u)'
    BY <1>1, <2>4, <2>6 DEF Alone
  <2>8. Acting' = {} /\ appFile' = file /\ appKept' = kept
    BY <1>2, <2>2, <2>7, AppOfNone DEF Acting
  <2>9. CASE e.spoiled
    <3>1. Acting = {}
      BY <2>7, <2>9 DEF Acting
    <3> QED BY <1>2, <2>8, <3>1, AppOfNone DEF LifeStep
  <2>10. CASE ~e.spoiled
    <3>1. Acting = {t}
      BY <1>1, <2>7, <2>10 DEF Acting
    <3>2. appFile = b /\ appKept = KeptBefore(e.plan)
      BY <3>1, AppOfActing
    <3>3. FreshAt(e)
      BY <1>1, <2>10 DEF Fresh, FreshTab
    <3>4. None \notin Contents /\ Catalog \in Nat /\ Images \subseteq Nat
      BY AppPlansAssumption
    <3>5. CASE e.req.op = "update"
      <4>1. b \in Contents /\ b.img < Catalog /\ w = [b EXCEPT !.img = Catalog]
        BY <1>1, <3>5 DEF FitsAt, PlanFits
      <4>2. file = w /\ kept = b
        BY <1>1, <3>3, <3>5 DEF FreshAt
      <4> HIDE DEF b, w
      <4>3. w.img = Catalog /\ w # None
        <5>1. w \in Contents
          BY <4>1, AppPlansAssumption DEF Contents
        <5> QED BY <3>4, <4>1, <5>1 DEF Contents
      <4>4. Life!Update
        BY <2>8, <3>2, <3>4, <4>1, <4>2, <4>3, <1>2 DEF Life!Update
      <4> QED BY <1>2, <2>6, <4>4 DEF LifeStep
    <3>6. CASE e.req.op = "install"
      <4>1. b = None /\ KeptBefore(e.plan) = None /\ w \in Contents
        BY <1>1, <3>6 DEF FitsAt, PlanFits, Writers
      <4>2. file = w /\ kept = None
        BY <1>1, <2>6, <2>10, <3>3, <3>6 DEF FreshAt, Alone
      <4>3. Life!Create
        BY <2>8, <3>2, <3>4, <4>1, <4>2 DEF Life!Create
      <4> QED BY <1>2, <2>6, <4>3 DEF LifeStep
    <3> QED BY <1>1, <1>5, <3>5, <3>6
  <2> QED BY <2>9, <2>10
<1> QED BY <1>3, <1>4, <1>5

\* What failed is undone: the app stays as it was.
LEMMA UndoLives ==
  ASSUME Carried, Fresh, Alone, NEW t \in Tabs, Undo(t)
  PROVE  Alone' /\ LifeStep
<1> DEFINE e == exec[t]
           b == Before(exec[t].plan)
           k == KeptBefore(exec[t].plan)
<1>1. /\ Formed /\ e.at = "undo" /\ e.req.op \in {"update", "rollback", "install"}
      /\ FitsAt(t) /\ Working(t) /\ Midway(t) /\ None \notin Contents
  BY AppPlansAssumption DEF Undo, Carried, FitsAt, Working, AtFits, Midway
<1>2. CASE mode' = "blurred"
  BY <1>2 DEF Alone, LifeStep
<1>3. CASE mode' # "blurred"
  <2>1. PICK at \in {"undoKept", "idle"} :
          /\ Changes(t, at) /\ (at = "undoKept" <=> e.req.op = "update")
          /\ file' = b /\ kept' = IF e.req.op = "install" THEN None ELSE kept
    BY <1>3 DEF Undo
  <2>2. mode' = mode /\ ~e.spoiled
    BY <1>1, <1>3, <2>1, ChangesAlone
  <2>3. FreshAt(e)
    BY <1>1, <2>2 DEF Fresh, FreshTab
  <2>4. e.req.op # "install" => b \in Contents
    BY <1>1 DEF FitsAt, PlanFits
  <2>5. IF at = "idle" THEN exec'[t] = Idle ELSE exec'[t].at = at /\ exec'[t].req = e.req
    BY <1>1, <2>1, ChangesDoes, ChangesEnds
  <2>6. Midway(t)' <=> e.req.op = "update"
    BY <2>1, <2>5, IdleRests DEF Midway, Working
  <2>7. Midway(t)' => exec'[t].req.op # "install"
    BY <2>1, <2>5, <2>6
  <2>8. Alone'
    BY <1>1, <2>1, <2>4, <2>7, AloneChanges
  <2>9. appFile = b /\ appKept = k
    BY <1>1, <1>3, <2>1, ChangesSeen
  <2>10. CASE e.req.op = "update"
    <3>1. appFile' = b /\ appKept' = k
      BY <1>1, <1>3, <2>1, <2>6, <2>10, ChangesSeen
    <3> QED BY <2>2, <2>8, <2>9, <3>1 DEF LifeStep
  <2>11. CASE e.req.op # "update"
    <3>1. appFile' = file' /\ appKept' = kept'
      BY <1>1, <1>3, <2>1, <2>6, <2>11, ChangesSeen
    <3>2. e.req.op = "install" => k = None
      BY <1>1 DEF FitsAt, PlanFits
    <3>3. e.req.op = "rollback" => kept = k
      BY <1>1, <2>3 DEF FreshAt
    <3>4. kept' = k
      BY <1>1, <2>1, <2>11, <3>2, <3>3
    <3> QED BY <2>1, <2>2, <2>8, <2>9, <3>1, <3>4 DEF LifeStep
  <2> QED BY <2>10, <2>11
<1> QED BY <1>2, <1>3

LEMMA UndoKeptLives ==
  ASSUME Carried, Fresh, Alone, NEW t \in Tabs, UndoKept(t)
  PROVE  Alone' /\ LifeStep
<1> DEFINE e == exec[t]
           b == Before(exec[t].plan)
           k == KeptBefore(exec[t].plan)
<1>1. /\ Formed /\ e.at = "undoKept" /\ e.req.op = "update"
      /\ FitsAt(t) /\ Working(t) /\ Midway(t) /\ None \notin Contents
  BY AppPlansAssumption DEF UndoKept, Carried, FitsAt, Working, AtFits, Midway
<1>2. CASE mode' = "blurred"
  BY <1>2 DEF Alone, LifeStep
<1>3. CASE mode' # "blurred"
  <2>1. kept' = k /\ UNCHANGED file /\ Changes(t, "idle")
    BY <1>3 DEF UndoKept
  <2>2. mode' = mode /\ ~e.spoiled
    BY <1>1, <1>3, <2>1, ChangesAlone
  <2>3. file = b
    BY <1>1, <1>3, <2>2 DEF Fresh, FreshTab, FreshAt
  <2>4. b \in Contents
    BY <1>1 DEF FitsAt, PlanFits
  <2>5. ~Midway(t)'
    BY <1>1, <2>1, ChangesEnds, IdleRests DEF Midway, Working
  <2>6. Alone'
    BY <1>1, <2>1, <2>3, <2>4, <2>5, AloneChanges
  <2>7. appFile = b /\ appKept = k
    BY <1>1, <1>3, <2>1, ChangesSeen
  <2>8. appFile' = file' /\ appKept' = kept'
    BY <1>1, <1>3, <2>1, <2>5, ChangesSeen
  <2> QED BY <2>1, <2>2, <2>3, <2>6, <2>7, <2>8 DEF LifeStep
<1> QED BY <1>2, <1>3

LEMMA DropLives ==
  ASSUME Carried, Fresh, Alone, NEW t \in Tabs, Drop(t)
  PROVE  Alone' /\ LifeStep
<1> DEFINE e == exec[t]
           b == Before(exec[t].plan)
           k == KeptBefore(exec[t].plan)
           w == exec[t].plan.writes
<1>1. /\ Formed /\ e.at = "drop" /\ e.req.op = "rollback" /\ UNCHANGED file
      /\ FitsAt(t) /\ Working(t) /\ Midway(t) /\ None \notin Contents
      /\ \/ kept' = None /\ Changes(t, "publish")
         \/ /\ UNCHANGED kept /\ Ended(t)
            /\ mode' = IF mode = "whole" /\ ~e.spoiled THEN "interrupted" ELSE mode
  BY AppPlansAssumption DEF Drop, Fails, disk, Carried, FitsAt, Working, AtFits, Midway
<1>2. ~e.spoiled => file = w /\ kept = k
  BY <1>1 DEF Fresh, FreshTab, FreshAt
<1>3. b \in Contents /\ k \in Contents /\ w = [b EXCEPT !.img = k.img]
  BY <1>1 DEF FitsAt, PlanFits
<1>4. CASE kept' = None /\ Changes(t, "publish")
  <2>1. exec'[t].at = "publish"
    BY <1>1, <1>4, ChangesDoes
  <2>2. ~Midway(t)'
    BY <2>1 DEF Midway, Working
  <2>3. Alone'
    BY <1>1, <1>4, <2>2, AloneChanges
  <2>4. SUFFICES ASSUME mode' # "blurred" PROVE LifeStep
    BY <2>3 DEF LifeStep
  <2>5. mode' = mode /\ ~e.spoiled
    BY <1>1, <1>4, <2>4, ChangesAlone
  <2>6. appFile = b /\ appKept = k
    BY <1>1, <1>4, <2>4, ChangesSeen
  <2>7. appFile' = w /\ appKept' = None
    BY <1>1, <1>2, <1>4, <2>2, <2>4, <2>5, ChangesSeen
  <2> HIDE DEF b, k, w
  <2>8. Life!Rollback
    BY <1>1, <1>3, <2>6, <2>7 DEF Life!Rollback, Life!RolledBack
  <2> QED BY <2>4, <2>5, <2>8 DEF LifeStep
<1>5. CASE /\ UNCHANGED kept /\ Ended(t)
           /\ mode' = IF mode = "whole" /\ ~e.spoiled THEN "interrupted" ELSE mode
  <2>1. ~Midway(t)' /\ \A u \in Tabs \ {t} : exec'[u] = exec[u]
    BY <1>1, <1>5, EndedDoes, IdleRests DEF Midway, Working
  <2>2. \A u \in Tabs : Midway(u)' => Midway(u) /\ exec'[u] = exec[u]
    BY <2>1 DEF Midway, Working
  <2>3. Alone'
    BY <1>1, <1>5, <2>2, AloneRests
  <2>4. SUFFICES ASSUME mode # "blurred" PROVE LifeStep
    BY <1>5, <2>3 DEF LifeStep
  <2>5. \A u \in Tabs \ {t} : ~Midway(u)
    BY <1>1, <2>4 DEF Alone
  <2>6. Acting' = {}
    BY <2>2, <2>5, <2>1 DEF Acting
  <2>7. appFile' = file /\ appKept' = kept
    BY <1>1, <1>5, <2>6, AppOfNone
  <2>8. CASE e.spoiled
    <3>1. Acting = {}
      BY <2>5, <2>8 DEF Acting
    <3> QED BY <1>5, <2>3, <2>7, <2>8, <3>1, AppOfNone DEF LifeStep
  <2>9. CASE ~e.spoiled
    <3>1. Acting = {t}
      BY <1>1, <2>5, <2>9 DEF Acting
    <3>2. appFile = b /\ appKept = k
      BY <3>1, AppOfActing
    <3>3. mode' = "interrupted"
      BY <1>5, <2>4, <2>9 DEF Carried, Data
    <3> HIDE DEF b, k, w
    <3>4. Life!Interrupted
      BY <1>1, <1>2, <1>3, <2>7, <2>9, <3>2 DEF Life!Interrupted, Life!RolledBack
    <3> QED BY <2>3, <2>4, <3>3, <3>4 DEF LifeStep
  <2> QED BY <2>8, <2>9
<1> QED BY <1>1, <1>4, <1>5

\* What a dialog does, a job, or a tab that is not in the middle of changing the files.
LEMMA OthersLive ==
  ASSUME Formed, Alone, UNCHANGED <<file, kept>>, mode' = mode,
         \A u \in Tabs : exec'[u] = exec[u] \/ (~Midway(u) /\ ~Midway(u)')
  PROVE  Alone' /\ LifeStep
<1>1. \A u \in Tabs : /\ Midway(u)' <=> Midway(u)
                      /\ Midway(u) => exec'[u] = exec[u]
  BY DEF Midway, Working
<1>2. UNCHANGED <<appFile, appKept>>
  BY <1>1, AppRests
<1>3. Alone'
  BY <1>1, AloneRests
<1> QED BY <1>2, <1>3 DEF LifeStep

LEMMA TabLives ==
  ASSUME TypeInv, Fresh, Alone, NEW t \in Tabs, TabNext(t)
  PROVE  Alone' /\ LifeStep
<1> USE DEF TypeInv, Carried, Formed
<1>1. CASE Validated(t) \/ Publish(t)
  <2>1. ~Midway(t) /\ UNCHANGED <<file, kept, mode>>
    BY <1>1 DEF Validated, Publish, Midway, disk
  <2>2. exec'[t].at \in {"idle", "publish"}
    BY <1>1, EndedDoes, GoesDoes, IdleRests DEF Validated, Publish
  <2>3. \A u \in Tabs \ {t} : exec'[u] = exec[u]
    BY <1>1, EndedDoes, GoesDoes DEF Validated, Publish
  <2> QED BY <2>1, <2>2, <2>3, OthersLive DEF Midway
<1>2. CASE Check(t) \/ Direct(t) \/ Click(t)
  <2>1. UNCHANGED <<file, kept, mode>>
    BY <1>2 DEF Check, Direct, Click, disk, history
  <2>2. ~Midway(t)
    BY <1>2 DEF Check, Direct, Click, Midway, Working, Idles
  <2>3. ~Midway(t)' /\ \A u \in Tabs \ {t} : exec'[u] = exec[u]
    <3>1. CASE Check(t)
      <4>1. \/ exec'[t] = Idle
            \/ exec'[t].req = exec[t].req /\ exec'[t].at = First(exec[t].req.op)
        BY <3>1 DEF Check, Ended, ExecFields
      <4>2. \A u \in Tabs \ {t} : exec'[u] = exec[u]
        BY <3>1 DEF Check, Ended
      <4> QED BY <4>1, <4>2, IdleRests DEF Midway, Working, First
    <3>2. CASE Direct(t)
      BY <3>2, DirectStarts DEF Midway
    <3>3. CASE Click(t)
      BY <3>3 DEF Click, Idle, Midway, Working
    <3> QED BY <1>2, <3>1, <3>2, <3>3
  <2> QED BY <2>1, <2>2, <2>3, OthersLive
<1>3. CASE \/ \E r \in Requests : Open(t, r)
           \/ SetOption(t) \/ Review(t) \/ Answer(t) \/ Arrive(t) \/ Close(t)
           \/ Stop(t) \/ Settle(t)
  <2>1. UNCHANGED <<file, kept, mode, exec>>
    <3> USE DEF disk, history
    <3>1. CASE (\E r \in Requests : Open(t, r)) \/ SetOption(t) \/ Review(t)
      BY <3>1 DEF Open, SetOption, Review
    <3>2. CASE Answer(t) \/ Arrive(t) \/ Close(t) \/ Stop(t) \/ Settle(t)
      BY <3>2 DEF Answer, Arrive, Close, Stop, Settle
    <3> QED BY <1>3, <3>1, <3>2
  <2> QED BY <2>1, OthersLive
<1>4. CASE Keep(t) \/ Write(t)
  BY <1>4, KeepLives, WriteLives
<1>5. CASE Validate(t) \/ Undo(t) \/ UndoKept(t) \/ Drop(t)
  BY <1>5, ValidateLives, UndoLives, UndoKeptLives, DropLives
<1> QED BY <1>1, <1>2, <1>3, <1>4, <1>5 DEF TabNext

LEMMA RunDownLives ==
  ASSUME TypeInv, Alone, RunDown
  PROVE  Alone' /\ LifeStep
<1> USE DEF TypeInv, Carried, Formed
<1>1. mode' = mode
  BY DEF RunDown
<1>2. CASE UNCHANGED <<disk, exec>>
  BY <1>1, <1>2, OthersLive DEF disk
<1>3. CASE /\ file' = None /\ kept' = None
           /\ exec' = [t \in Tabs |-> IF Working(t) THEN [exec[t] EXCEPT !.spoiled = TRUE] ELSE exec[t]]
  <2>1. \A t \in Tabs : /\ exec'[t].at = exec[t].at /\ exec'[t].req = exec[t].req
                        /\ Working(t) => exec'[t].spoiled
    BY <1>3 DEF ExecFields
  <2>2. \A t \in Tabs : Midway(t)' => Midway(t) /\ exec'[t].spoiled
    BY <2>1 DEF Midway, Working
  <2>3. Alone'
    BY <1>1, <1>3, <2>2 DEF Alone
  <2>4. Acting' = {}
    BY <2>2 DEF Acting
  <2>5. appFile' = None /\ appKept' = None
    BY <1>3, <2>4, AppOfNone
  <2>6. Life!Remove
    BY <2>5 DEF Life!Remove
  <2> QED BY <1>1, <2>3, <2>6 DEF LifeStep
<1> QED BY <1>2, <1>3 DEF RunDown

\* A plan that is cut either took effect, or left the rollback point too early or too long.
LEMMA RestartLives ==
  ASSUME TypeInv, Fresh, Alone, Restart
  PROVE  Alone' /\ LifeStep
<1> USE DEF TypeInv
<1>1. /\ UNCHANGED <<file, kept>> /\ \A t \in Tabs : exec'[t] = Idle
      /\ mode' = IF mode = "whole" /\ Acting # {} THEN "interrupted" ELSE mode
  BY DEF Restart, disk
<1>2. \A t \in Tabs : ~Midway(t)'
  BY <1>1, IdleRests DEF Midway, Working
<1>3. Alone'
  BY <1>1, <1>2, AloneRests
<1>4. appFile' = file /\ appKept' = kept
  <2>1. Acting' = {}
    BY <1>2 DEF Acting
  <2> QED BY <1>1, <2>1, AppOfNone
<1>5. SUFFICES ASSUME mode # "blurred" PROVE LifeStep
  BY <1>1, <1>3 DEF LifeStep
<1>6. CASE Acting = {}
  BY <1>1, <1>4, <1>6, AppOfNone DEF LifeStep
<1>7. CASE Acting # {}
  <2>1. PICK t \in Tabs : Midway(t) /\ ~exec[t].spoiled
    BY <1>7 DEF Acting
  <2> DEFINE e == exec[t]
             b == Before(exec[t].plan)
             k == KeptBefore(exec[t].plan)
             w == exec[t].plan.writes
  <2>2. Acting = {t}
    BY <1>5, <2>1 DEF Acting, Alone
  <2>3. appFile = b /\ appKept = k
    BY <2>2, AppOfActing
  <2>4. Working(t) /\ FitsAt(t) /\ FreshAt(e)
    BY <2>1 DEF Midway, Carried, Fresh, FreshTab
  <2>5. /\ None \notin Contents /\ Catalog \in Nat /\ Images \subseteq Nat /\ Catalog \in Images
    BY AppPlansAssumption
  <2>6. mode' = "interrupted"
    BY <1>1, <1>5, <1>7 DEF Carried, Data
  <2>7. CASE e.req.op = "update"
    <3>1. b \in Contents /\ b.img < Catalog /\ w = [b EXCEPT !.img = Catalog]
      BY <2>4, <2>7 DEF FitsAt, PlanFits
    <3>2. kept = b /\ (file = b \/ file = w)
      BY <1>5, <2>1, <2>4, <2>7 DEF Midway, FreshAt
    <3>3. w \in Contents
      BY <2>5, <3>1 DEF Contents
    <3> HIDE DEF b, w
    <3>4. CASE file = b
      <4>1. Life!Interrupted
        BY <1>4, <2>3, <2>5, <3>1, <3>2, <3>4 DEF Life!Interrupted
      <4> QED BY <1>5, <2>6, <4>1 DEF LifeStep
    <3>5. CASE file = w
      <4>1. w.img = Catalog
        BY <3>1 DEF Contents
      <4>2. Life!Update
        BY <1>4, <2>3, <2>5, <3>1, <3>2, <3>3, <3>5, <4>1 DEF Life!Update
      <4> QED BY <1>5, <2>6, <4>2 DEF LifeStep
    <3> QED BY <3>2, <3>4, <3>5
  <2>8. CASE e.req.op = "install"
    <3>1. b = None /\ k = None /\ w \in Contents
      BY <2>4, <2>8 DEF FitsAt, PlanFits, Writers
    <3>2. e.at \in {"validate", "undo"}
      BY <2>1, <2>4, <2>8 DEF Midway, FitsAt, AtFits
    <3>3. file = w /\ kept = None
      BY <1>5, <2>1, <2>4, <2>8, <3>2 DEF FreshAt, Alone
    <3>4. Life!Create
      BY <1>4, <2>3, <2>5, <3>1, <3>3 DEF Life!Create
    <3> QED BY <1>5, <2>6, <3>4 DEF LifeStep
  <2>9. CASE e.req.op = "rollback"
    <3>1. b \in Contents /\ k \in Contents /\ w = [b EXCEPT !.img = k.img]
      BY <2>4, <2>9 DEF FitsAt, PlanFits
    <3>2. file = w /\ kept = k
      BY <2>1, <2>4, <2>9 DEF Midway, FreshAt
    <3> HIDE DEF b, k, w
    <3>3. Life!Interrupted
      BY <1>4, <2>3, <2>5, <3>1, <3>2 DEF Life!Interrupted, Life!RolledBack
    <3> QED BY <1>5, <2>6, <3>3 DEF LifeStep
  <2> QED BY <2>1, <2>7, <2>8, <2>9 DEF Midway
<1> QED BY <1>6, <1>7

LEMMA NextLives ==
  ASSUME TypeInv, Fresh, Alone, [Next]_vars
  PROVE  Alone' /\ LifeStep
<1>1. CASE \E t \in Tabs : TabNext(t)
  BY <1>1, TabLives
<1>2. CASE RunUp \/ RunStop \/ UNCHANGED vars
  <2>1. UNCHANGED <<file, kept, mode, exec>>
    BY <1>2 DEF RunUp, RunStop, vars, disk, history
  <2> QED BY <2>1, OthersLive DEF TypeInv, Carried
<1>3. CASE RunDown
  BY <1>3, RunDownLives
<1>4. CASE Restart
  BY <1>4, RestartLives
<1> QED BY <1>1, <1>2, <1>3, <1>4 DEF Next

LEMMA InitLives == Init => Alone /\ Life!Init
<1> SUFFICES ASSUME Init PROVE Alone /\ Life!Init
  OBVIOUS
<1>1. \A t \in Tabs : ~Midway(t)
  BY IdleRests DEF Init, Midway, Working
<1>2. file = None => kept = None
  BY AppPlansAssumption DEF Init
<1>3. Acting = {} /\ mode = "whole"
  BY <1>1 DEF Acting, Init
<1> QED BY <1>1, <1>2, <1>3, AppOfNone DEF Alone, Life!Init

\* Each plan is carried out whole or leaves the app as it was, "the earlier rollback point
\* included" (app-plan.ts:423), and a crash, or a point that could not be deleted, leaves that
\* point too early or too long but never the file half changed, until plans cross: for any number
\* of tabs, contents, faults and restarts.
THEOREM PlansAreWhole == Spec => RefinesAppLife
<1>1. Init => StepInv /\ Alone /\ Life!Init
  BY InitSteps, InitLives
<1>2. StepInv /\ Alone /\ [Next]_vars => StepInv' /\ Alone' /\ [Life!Next]_<<appFile, appKept, mode>>
  BY NextSteps, NextLives, LifeSteps DEF StepInv
<1> QED BY <1>1, <1>2, PTL DEF Spec, RefinesAppLife, Life!Spec

=============================================================================
