------------------------------ MODULE AppPlans ------------------------------
(***************************************************************************)
(* One app and what changes it.  A dialog (PlanDialog.vue) asks for the    *)
(* plan of an operation, shows it, and has it executed with its            *)
(* fingerprint; the backend builds the plan again, refuses it if the       *)
(* fingerprint is another (apps.ts), and runs its steps one after another  *)
(* with no lock (app-plan.ts): it writes the compose file, validates it,   *)
(* puts it back if that fails, and publishes a job that the worker runs    *)
(* in its turn (docker.go).  Pins and imports write the file directly.     *)
(*                                                                         *)
(* A content is the image and the rest, of which secrets are masked where  *)
(* a plan is shown; those that an install is to generate are drawn each    *)
(* time its plan is built.  Plans are built in one go; the folders and     *)
(* places of an install, ports and networks are left out, and the jobs of  *)
(* other apps that wait in the same lane.                                  *)
(***************************************************************************)
EXTENDS Naturals, Sequences, FiniteSets

CONSTANTS Tabs,
          Images, Catalog,      \* versions of the app's image, and the catalog's
          Revs,                 \* the rest of a file
          Inputs,               \* the contents that are typed in or imported
          MaxOpens, MaxDirects, MaxFaults,  \* bounds on plans asked for, pins, imports, stops, and faults
          None

Contents == [img : Images, rev : Revs]

ASSUME AppPlansAssumption ==
    /\ Images \subseteq Nat /\ Catalog \in Images
    /\ Inputs \subseteq Contents
    /\ {MaxOpens, MaxDirects, MaxFaults} \subseteq Nat
    /\ None \notin Contents \cup Nat

VARIABLES
    file,     \* compose.yaml
    kept,     \* compose.yaml.previous
    runs,     \* the containers: what content they were made of, and whether they are up
    jobs,     \* the container jobs not ended, in order
    dialog,   \* per tab
    asks,     \* per tab: requests for a plan and their answers on the way
    exec,     \* per tab: the execution it waits for
    known,    \* per tab: the job it follows (knownAppJobs)
    life,     \* history: how often the app was created
    mode,     \* history: "whole"; "interrupted": the backend stopped halfway, or a point was
              \* not deleted; "blurred": executions crossed, or a file was not put back
    doubt,    \* history: there may be two removals
    behind,   \* history: the containers may be older than the file
    opens, directs, jobCount, faults

disk == <<file, kept>>
tabVars == <<dialog, asks, known>>
history == <<life, mode, doubt, behind>>
counts == <<opens, directs, jobCount, faults>>
vars == <<disk, runs, jobs, tabVars, exec, history, counts>>

Fault == faults < MaxFaults /\ faults' = faults + 1

----------------------------------------------------------------------------
(* The plans: buildAppPlan and its fingerprint *)

Request(op, opt, new) == [op |-> op, opt |-> opt, new |-> new]

\* The operations of a dialog; the option is to start, to delete the data, or to generate the
\* secrets, of which none was typed.
Requests ==
    {Request("create", o, c) : o \in BOOLEAN, c \in Inputs}
    \cup {Request("save", FALSE, c) : c \in Inputs}
    \cup {Request("install", o, [img |-> Catalog, rev |-> c.rev]) : o \in BOOLEAN, c \in Inputs}
    \cup {Request(op, FALSE, None) : op \in {"apply", "start", "update", "rollback", "remove"}}

Refused(r) ==
    CASE r.op \in {"create", "install"} -> file # None
      [] r.op = "update" -> file = None \/ file.img >= Catalog
      [] r.op = "rollback" -> file = None \/ kept = None \/ kept.img = file.img
      [] OTHER -> file = None

\* deps.secret: another one for each plan.
Draws(r) == r.op = "install" /\ r.opt
Secrets(r) == IF Draws(r) THEN Revs ELSE {None}

\* The content the plan writes, or none.
Written(r, secret) ==
    CASE Draws(r) -> [img |-> Catalog, rev |-> secret]
      [] r.op \in {"create", "save", "install"} /\ ~Draws(r) -> r.new
      [] r.op = "update" -> [file EXCEPT !.img = Catalog]
      [] r.op = "rollback" -> [file EXCEPT !.img = kept.img]
      [] OTHER -> None

Status == IF runs.of = None THEN "unknown" ELSE IF runs.up THEN "running" ELSE "stopped"

\* Mutant of Starts: an update leaves the containers to the next start.
StartsNoUpdate(r) ==
    CASE r.op = "create" -> r.opt
      [] OTHER -> r.op \in {"install", "apply", "start", "rollback"}

Starts(r) ==
    CASE r.op = "create" -> r.opt
      [] r.op = "update" -> Status = "running"
      [] OTHER -> r.op \in {"install", "apply", "start", "rollback"}

Observed(r) ==
    CASE r.op = "install" -> <<>>
      [] r.op = "update" -> <<file, kept, Status>>
      [] r.op = "rollback" -> <<file, kept>>
      [] OTHER -> <<file>>

\* The steps as shown: a masked secret is only said to have changed.
Masked(c) == IF c = None THEN 0 ELSE c.img
Steps(r, c) ==
    [from |-> Masked(file), to |-> Masked(c), starts |-> Starts(r),
     changed |-> file # None /\ c # None /\ file.rev # c.rev]

Build(r, secret) ==
    LET c == Written(r, secret) IN
    [req |-> r, observed |-> Observed(r), steps |-> Steps(r, c), writes |-> c]

\* The plans that may be built: one, but for the secrets it draws.
Plans(r) == IF Refused(r) THEN {} ELSE {Build(r, secret) : secret \in Secrets(r)}

\* Mutant of Fingerprint: what was observed is left to the steps to tell.
FingerprintSteps(p) == <<p.req, p.steps>>

\* appFingerprint: the operation, its input, the steps as shown and what was observed.
Fingerprint(p) == <<p.req, p.steps, p.observed>>

\* The file before the plan, and its rollback point.
Before(p) == IF p.observed = <<>> THEN None ELSE p.observed[1]
KeptBefore(p) == IF Len(p.observed) > 1 THEN p.observed[2] ELSE None

----------------------------------------------------------------------------
(* The dialog *)

Closed == [open |-> FALSE, req |-> None, preview |-> None, loading |-> FALSE,
           stale |-> FALSE]
Idle == [at |-> "idle", req |-> None, shown |-> None, plan |-> None, life |-> 0,
         spoiled |-> FALSE]

Idles(t) == exec[t].at = "idle"

\* load
Load(t, r) ==
    /\ opens < MaxOpens /\ opens' = opens + 1
    /\ dialog' = [dialog EXCEPT ![t] = [@ EXCEPT !.open = TRUE, !.req = r, !.loading = TRUE,
                                                  !.stale = FALSE]]
    /\ asks' = [asks EXCEPT ![t] = @ \cup {[id |-> opens', req |-> r, reply |-> None]}]

\* Mutant of Open: the list offers everything at any time.
OpenAnytime(t, r) ==
    /\ ~dialog[t].open /\ Idles(t)
    /\ Load(t, r)
    /\ UNCHANGED <<disk, runs, jobs, exec, known, history, jobCount, directs, faults>>

\* The list offers nothing for an app whose job this tab follows; the form's apply does not look.
Open(t, r) ==
    /\ ~dialog[t].open /\ Idles(t)
    /\ r.op \in {"remove", "start"} => known[t] = None
    /\ Load(t, r)
    /\ UNCHANGED <<disk, runs, jobs, exec, known, history, jobCount, directs, faults>>

\* setOption, which the dialog allows between two loads: previewed again.
SetOption(t) ==
    LET d == dialog[t] IN
    /\ d.open /\ Idles(t) /\ ~d.loading /\ d.req.op = "remove"
    /\ Load(t, [d.req EXCEPT !.opt = ~@])
    /\ UNCHANGED <<disk, runs, jobs, exec, known, history, jobCount, directs, faults>>

\* "Review again"
Review(t) ==
    /\ dialog[t].open /\ Idles(t) /\ dialog[t].stale /\ ~dialog[t].loading
    /\ Load(t, dialog[t].req)
    /\ UNCHANGED <<disk, runs, jobs, exec, known, history, jobCount, directs, faults>>

\* apps.plan: built, or refused, also where Docker is not ready or a volume is missing.
Answer(t) ==
    \E a \in asks[t] :
        /\ a.reply = None
        /\ \E p \in {Request("refused", FALSE, None)} \cup Plans(a.req) :
              asks' = [asks EXCEPT ![t] = (@ \ {a}) \cup {[a EXCEPT !.reply = p]}]
        /\ UNCHANGED <<disk, runs, jobs, dialog, exec, known, history, counts>>

\* The answer of whatever load is what the dialog shows; it ends the loading of any.
Arrive(t) ==
    \E a \in asks[t] :
        /\ a.reply # None
        /\ asks' = [asks EXCEPT ![t] = @ \ {a}]
        /\ dialog' = [dialog EXCEPT ![t] =
                        IF ~@.open THEN @
                        ELSE [@ EXCEPT !.loading = FALSE,
                                       !.preview = IF "op" \in DOMAIN a.reply THEN None ELSE a.reply]]
        /\ UNCHANGED <<disk, runs, jobs, exec, known, history, counts>>

\* onClose; the Modal does not close while it applies.
Close(t) ==
    /\ dialog[t].open /\ Idles(t)
    /\ dialog' = [dialog EXCEPT ![t] = Closed]
    /\ UNCHANGED <<disk, runs, jobs, asks, exec, known, history, counts>>

\* apply: the input of the dialog with the fingerprint of what it shows.
Click(t) ==
    LET d == dialog[t] IN
    /\ d.open /\ Idles(t) /\ ~d.loading /\ ~d.stale /\ d.preview # None
    /\ exec' = [exec EXCEPT ![t] = [Idle EXCEPT !.at = "sent", !.req = d.req, !.shown = d.preview]]
    /\ UNCHANGED <<disk, runs, jobs, tabVars, history, counts>>

----------------------------------------------------------------------------
(* executeAppPlan *)

\* The first step of each operation; "check" validates before a start, "validate" after a write.
First(op) ==
    CASE op = "update" -> "keep"
      [] op \in {"create", "save", "install", "rollback", "pin", "import"} -> "write"
      [] op = "apply" -> "check"
      [] OTHER -> "publish"

\* The removals queued.
Downs == {i \in DOMAIN jobs : jobs[i].kind = "down"}

Working(t) == exec[t].at \notin {"idle", "sent"}

\* In the middle of changing the files.
Midway(t) ==
    /\ Working(t)
    /\ CASE exec[t].req.op = "update" -> exec[t].at \in {"write", "validate", "undo", "undoKept"}
         [] exec[t].req.op \in {"install", "rollback"} -> exec[t].at \in {"validate", "undo", "drop"}
         [] OTHER -> FALSE

\* The tabs whose plan changes files that nobody else changed meanwhile: one at most.
Acting == {t \in Tabs : Midway(t) /\ ~exec[t].spoiled}

\* The tab goes on: after a failure the dialog shows it, otherwise it closes; known may be set.
Ended(t) == exec' = [exec EXCEPT ![t] = Idle]
Leaves(t) == dialog' = [dialog EXCEPT ![t] = Closed]
Goes(t, at) == exec' = [exec EXCEPT ![t].at = at]

\* The files change under the others that are at work: by t, which goes on with the step at.
Changes(t, at) ==
    /\ exec' = [u \in Tabs |->
         IF u = t THEN IF at = "idle" THEN Idle ELSE [exec[t] EXCEPT !.at = at]
         ELSE IF Working(u) THEN [exec[u] EXCEPT !.spoiled = TRUE] ELSE exec[u]]
    /\ mode' = IF exec[t].spoiled \/ \E u \in Tabs \ {t} : Midway(u) THEN "blurred" ELSE mode
    /\ life' = IF file = None /\ file' # None THEN life + 1 ELSE life

\* A step that fails ends the plan.
Fails(t) == Ended(t) /\ Leaves(t) /\ UNCHANGED <<disk, runs, jobs, asks, known>>

\* The plan is built again: an error is shown, and a conflict - another fingerprint, a name that
\* is taken - asks for a review.
Check(t) ==
    LET e == exec[t] IN
    /\ e.at = "sent"
    /\ \/ Ended(t) /\ UNCHANGED dialog
       \/ /\ Plans(e.req) = {} \/ \E p \in Plans(e.req) : Fingerprint(p) # Fingerprint(e.shown)
          /\ Ended(t) /\ dialog' = [dialog EXCEPT ![t].stale = TRUE]
       \/ /\ \E p \in Plans(e.req) :
                /\ Fingerprint(p) = Fingerprint(e.shown)
                /\ exec' = [exec EXCEPT ![t] = [@ EXCEPT !.at = First(e.req.op), !.plan = p,
                                                         !.life = life]]
          /\ UNCHANGED dialog
    /\ UNCHANGED <<disk, runs, jobs, asks, known, history, counts>>

\* pin and the imports: read, then written, with no plan.
Direct(t) ==
    /\ ~dialog[t].open /\ Idles(t) /\ directs < MaxDirects /\ directs' = directs + 1
    /\ \E r \in {Request("pin", FALSE, IF file = None THEN None ELSE [file EXCEPT !.rev = v]) : v \in Revs}
              \cup {Request("import", FALSE, c) : c \in Inputs} :
         /\ (r.op = "pin") = (file # None)
         /\ exec' = [exec EXCEPT ![t] = [Idle EXCEPT !.at = "write", !.req = r, !.life = life,
                                           !.plan = [Build(r, None) EXCEPT !.writes = r.new]]]
    /\ UNCHANGED <<disk, runs, jobs, tabVars, history, opens, jobCount, faults>>

----------------------------------------------------------------------------
(* The steps that write *)

Keep(t) ==
    LET p == exec[t].plan IN
    /\ exec[t].at = "keep"
    /\ \/ /\ file # None
          /\ kept' = Before(p) /\ UNCHANGED file /\ Changes(t, "write")
          /\ UNCHANGED <<runs, jobs, tabVars, doubt, behind, counts>>
       \/ /\ IF file = None THEN UNCHANGED faults ELSE Fault
          /\ Fails(t) /\ UNCHANGED <<history, opens, directs, jobCount>>

Write(t) ==
    LET e == exec[t]
        next == CASE e.req.op \in {"update", "rollback", "install"} -> "validate"
                  [] e.req.op = "create" /\ e.req.opt -> "check"
                  [] OTHER -> "idle"
    IN
    /\ e.at = "write"
    /\ \/ /\ file' = e.plan.writes
          /\ Changes(t, next)
          /\ behind' = (behind \/ next # "validate")
          /\ IF next = "idle" THEN Leaves(t) ELSE UNCHANGED dialog
          /\ UNCHANGED <<kept, runs, jobs, asks, known, doubt, counts>>
       \/ /\ Fault
          /\ IF e.req.op = "update"
             THEN Goes(t, "undo") /\ UNCHANGED <<disk, runs, jobs, tabVars>>
             ELSE Fails(t)
          /\ UNCHANGED <<history, opens, directs, jobCount>>

\* composeValidate: the file is valid, or it is not or no answer came.
Validate(t) ==
    LET e == exec[t] IN
    /\ e.at = "validate"
    /\ \/ /\ file # None
          /\ CASE e.req.op = "rollback" -> Goes(t, "drop") /\ UNCHANGED <<dialog, behind>>
               [] e.req.op # "rollback" /\ e.plan.steps.starts -> Goes(t, "publish") /\ UNCHANGED <<dialog, behind>>
               [] OTHER -> Ended(t) /\ Leaves(t)
                           /\ behind' = (behind \/ e.plan.observed[3] # "running")
       \/ Goes(t, "undo") /\ UNCHANGED <<dialog, behind>>
    /\ UNCHANGED <<disk, runs, jobs, asks, known, life, mode, doubt, counts>>

\* The file goes back to how it was, an install's goes with its directory; errors are ignored.
Undo(t) ==
    LET e == exec[t]
        then == IF e.req.op = "update" THEN "undoKept" ELSE "idle"
    IN
    /\ e.at = "undo"
    /\ \/ /\ file' = Before(e.plan)
          /\ kept' = IF e.req.op = "install" THEN None ELSE kept
          /\ Changes(t, then)
          /\ behind' = (behind \/ e.spoiled)
          /\ UNCHANGED faults
       \/ /\ Fault
          /\ IF then = "idle" THEN Ended(t) ELSE Goes(t, then)
          /\ mode' = "blurred" /\ behind' = TRUE
          /\ UNCHANGED <<disk, life>>
    /\ IF then = "idle" THEN Leaves(t) ELSE UNCHANGED dialog
    /\ doubt' = (doubt \/ (e.req.op = "install" /\ Downs # {}))
    /\ UNCHANGED <<runs, jobs, asks, known, opens, directs, jobCount>>

\* Mutant of UndoKept: the point of the failed update stays.
UndoKeptNot(t) ==
    /\ exec[t].at = "undoKept"
    /\ Ended(t) /\ Leaves(t)
    /\ UNCHANGED <<disk, runs, jobs, asks, known, history, counts>>

\* "the earlier rollback point included"
UndoKept(t) ==
    /\ exec[t].at = "undoKept"
    /\ \/ /\ kept' = KeptBefore(exec[t].plan) /\ UNCHANGED file
          /\ Changes(t, "idle")
          /\ UNCHANGED <<behind, faults>>
       \/ /\ Fault /\ Ended(t)
          /\ mode' = "blurred"
          /\ UNCHANGED <<disk, life, behind>>
    /\ Leaves(t)
    /\ UNCHANGED <<runs, jobs, asks, known, doubt, opens, directs, jobCount>>

\* A rollback is good: its point is used up.  When that fails, so does the plan, with the file
\* rolled back and nothing started.
Drop(t) ==
    /\ exec[t].at = "drop"
    /\ \/ /\ kept' = None /\ UNCHANGED file
          /\ Changes(t, "publish")
          /\ UNCHANGED <<runs, jobs, tabVars, behind, counts>>
       \/ /\ Fault /\ Fails(t)
          /\ behind' = TRUE
          /\ mode' = IF mode = "whole" /\ ~exec[t].spoiled THEN "interrupted" ELSE mode
          /\ UNCHANGED <<life, opens, directs, jobCount>>
    /\ UNCHANGED doubt

\* apply, and the start of an app just created: a file that is not valid stays.
Validated(t) ==
    /\ exec[t].at = "check"
    /\ \/ file # None /\ Goes(t, "publish") /\ UNCHANGED <<dialog, behind>>
       \/ Ended(t) /\ Leaves(t) /\ behind' = TRUE
    /\ UNCHANGED <<disk, runs, jobs, asks, known, life, mode, doubt, counts>>

----------------------------------------------------------------------------
(* The jobs *)

Job(kind, t, of) == [id |-> jobCount + 1, kind |-> kind, by |-> t, of |-> of, failed |-> FALSE]

Queue(job) == jobs' = Append(jobs, job) /\ jobCount' = jobCount + 1

\* publishJob: the job is in the stream and its id known, or there is an error, with or without it.
Publish(t) ==
    LET e == exec[t]
        job == Job(IF e.req.op = "remove" THEN "down" ELSE "up", t, e.life)
    IN
    /\ e.at = "publish"
    /\ Ended(t) /\ Leaves(t)
    /\ \/ /\ Queue(job)
          /\ known' = [known EXCEPT ![t] = IF e.req.op \in {"remove", "start", "apply", "create"}
                                             THEN job.id ELSE @]
          /\ UNCHANGED <<behind, faults>>
          /\ doubt' = \/ doubt
                      \/ /\ job.kind = "down"
                         /\ e.spoiled \/ \E i \in Downs : jobs[i].by # t
       \/ /\ Fault
          /\ behind' = TRUE /\ doubt' = TRUE
          /\ Queue(job) \/ UNCHANGED <<jobs, jobCount>>
          /\ UNCHANGED known
    /\ UNCHANGED <<disk, runs, asks, life, mode, opens, directs>>

\* app.stop, at once.
Stop(t) ==
    /\ ~dialog[t].open /\ Idles(t) /\ known[t] = None
    /\ directs < MaxDirects /\ directs' = directs + 1
    /\ Queue(Job("stop", t, life))
    /\ known' = [known EXCEPT ![t] = jobCount']
    /\ UNCHANGED <<disk, runs, dialog, asks, exec, history, opens, faults>>

\* A tab learns that the job it follows ended (settleAppJob), or that its row is failed.
Settle(t) ==
    /\ known[t] # None
    /\ \A i \in DOMAIN jobs : jobs[i].id = known[t] => jobs[i].failed
    /\ known' = [known EXCEPT ![t] = None]
    /\ UNCHANGED <<disk, runs, jobs, dialog, asks, exec, history, counts>>

\* Acknowledged, or the worker died first and the job is delivered again.
Taken ==
    \/ jobs' = Tail(jobs) /\ UNCHANGED <<faults, doubt>>
    \/ Fault /\ doubt' = TRUE /\ UNCHANGED jobs

\* handleDockerTask.  "up" makes the containers of the file it finds.
RunUp ==
    /\ jobs # <<>> /\ Head(jobs).kind = "up"
    /\ \/ /\ file # None
          /\ runs' = [of |-> file, up |-> TRUE]
          /\ behind' = \E t \in Tabs : Midway(t)
          /\ Taken
       \/ /\ behind' = TRUE /\ UNCHANGED <<runs, doubt, faults>>
          /\ jobs' = Tail(jobs)
    /\ UNCHANGED <<disk, tabVars, exec, life, mode, opens, directs, jobCount>>

RunStop ==
    /\ jobs # <<>> /\ Head(jobs).kind = "stop"
    /\ runs' = IF file = None THEN runs ELSE [runs EXCEPT !.up = FALSE]
    /\ Taken
    /\ UNCHANGED <<disk, tabVars, exec, life, mode, behind, opens, directs, jobCount>>

\* The containers, then the directory: the worker may die between the two, or fail to delete.
RunDown ==
    /\ jobs # <<>> /\ Head(jobs).kind = "down"
    /\ \/ /\ file # None
          /\ runs' = [of |-> None, up |-> FALSE]
          /\ \/ /\ file' = None /\ kept' = None
                /\ exec' = [t \in Tabs |-> IF Working(t) THEN [exec[t] EXCEPT !.spoiled = TRUE] ELSE exec[t]]
                /\ behind' = FALSE
                /\ Taken
             \/ /\ Fault /\ doubt' = TRUE /\ behind' = TRUE
                /\ jobs' = Tail(jobs) \/ UNCHANGED jobs
                /\ UNCHANGED <<disk, exec>>
       \/ jobs' = Tail(jobs) /\ UNCHANGED <<disk, runs, exec, behind, doubt, faults>>
    /\ UNCHANGED <<tabVars, life, mode, opens, directs, jobCount>>

\* The backend stops: executions end where they are, requests fail, and at its start the rows
\* of all jobs not ended are failed, which are run all the same.
Restart ==
    /\ Fault
    /\ exec' = [t \in Tabs |-> Idle]
    /\ dialog' = [t \in Tabs |-> [dialog[t] EXCEPT !.loading = FALSE,
                                     !.preview = IF asks[t] # {} THEN None ELSE @]]
    /\ asks' = [t \in Tabs |-> {}]
    /\ jobs' = [i \in DOMAIN jobs |-> [jobs[i] EXCEPT !.failed = TRUE]]
    /\ doubt' = TRUE
    /\ behind' = (behind \/ \E t \in Tabs : Working(t))
    /\ mode' = IF mode = "whole" /\ Acting # {} THEN "interrupted" ELSE mode
    /\ UNCHANGED <<disk, runs, known, life, opens, directs, jobCount>>

----------------------------------------------------------------------------

Init ==
    /\ \E c \in Inputs :
         \/ file = None /\ kept = None /\ runs = [of |-> None, up |-> FALSE]
         \/ /\ file = c /\ kept \in {None} \cup {[c EXCEPT !.img = i] : i \in {j \in Images : j < c.img}}
            /\ \E up \in BOOLEAN : runs = [of |-> c, up |-> up]
    /\ jobs = <<>>
    /\ dialog = [t \in Tabs |-> Closed]
    /\ asks = [t \in Tabs |-> {}]
    /\ exec = [t \in Tabs |-> Idle]
    /\ known = [t \in Tabs |-> None]
    /\ life = 1 /\ mode = "whole" /\ doubt = FALSE /\ behind = FALSE
    /\ opens = 0 /\ directs = 0 /\ jobCount = 0 /\ faults = 0

TabNext(t) ==
    \/ \E r \in Requests : Open(t, r)
    \/ SetOption(t) \/ Review(t) \/ Answer(t) \/ Arrive(t) \/ Close(t) \/ Click(t)
    \/ Check(t) \/ Direct(t)
    \/ Keep(t) \/ Write(t) \/ Validate(t) \/ Undo(t) \/ UndoKept(t) \/ Drop(t)
    \/ Validated(t) \/ Publish(t) \/ Stop(t) \/ Settle(t)

Next ==
    \/ \E t \in Tabs : TabNext(t)
    \/ RunUp \/ RunStop \/ RunDown
    \/ Restart

Spec == Init /\ [][Next]_vars

----------------------------------------------------------------------------
(* Properties *)

OptContents == Contents \cup {None}

\* Types.
TypeOK ==
    /\ file \in OptContents /\ kept \in OptContents
    /\ runs \in [of : OptContents, up : BOOLEAN]
    /\ jobCount \in Nat /\ life \in Nat
    /\ known \in [Tabs -> 0 .. jobCount \cup {None}]
    /\ jobs \in Seq([id : 0 .. jobCount, kind : {"up", "stop", "down"}, by : Tabs, of : Nat,
                     failed : BOOLEAN])
    /\ mode \in {"whole", "interrupted", "blurred"}
    /\ doubt \in BOOLEAN /\ behind \in BOOLEAN
    /\ \A t \in Tabs : Working(t) => exec[t].plan.writes \in OptContents /\ exec[t].life \in Nat

\* "shown before it runs and applied exactly as shown" (app-plan.ts:8): what is executed is what
\* the dialog showed when its button was clicked, secrets that were masked there included -
\* whatever answer came last and whatever another tab changed.  Only the secrets that an install
\* generates are others than in the plan that was shown.
AppliedAsShown ==
    \A t \in Tabs : Working(t) /\ exec[t].shown # None =>
        LET p == exec[t].plan
            q == exec[t].shown
        IN p = [q EXCEPT !.writes = IF Draws(p.req) THEN [@ EXCEPT !.rev = p.writes.rev] ELSE @]

\* A removal takes the app it was asked for: none that was created since under its name.
\* Two tabs that remove at once, a job delivered again, and an answer that was lost are apart.
RemovedAsAsked ==
    \A i \in Downs : file # None /\ ~doubt => jobs[i].of = life

\* At rest the containers are those of the file: writes come before the job that uses them, and
\* failures are undone.  Until the next start, a start that failed, a plan that shows none, and a
\* rollback that could not delete its point (app-plan.ts:463) may leave the file ahead.
InStep ==
    (\A t \in Tabs : ~Working(t)) /\ jobs = <<>> /\ ~behind /\ file # None => runs.of = file

\* While one plan changes the files, the app is as before that plan.
appFile == IF Acting = {} THEN file ELSE Before(exec[CHOOSE t \in Acting : TRUE].plan)
appKept == IF Acting = {} THEN kept ELSE KeptBefore(exec[CHOOSE t \in Acting : TRUE].plan)

Life == INSTANCE AppLife WITH file <- appFile, kept <- appKept

\* The plans implement AppLife: each is carried out whole or leaves the app as it was, a failed
\* update its earlier rollback point included (app-plan.ts:423), unless they crossed; a rollback
\* that could not delete its point, and a plan that was cut, leave the point with the new file.
RefinesAppLife == Life!Spec

=============================================================================
