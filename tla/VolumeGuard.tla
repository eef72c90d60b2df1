---------------------------- MODULE VolumeGuard ----------------------------
(***************************************************************************)
(* The missing volume guard of the backend (services/volume-guard.ts).     *)
(*                                                                         *)
(* Every minute the guard asks the worker for the state of the volumes and *)
(* plans from that answer and from the holds in the database: a volume     *)
(* that is not usable gets a hold and the apps that bind-mount it are      *)
(* stopped; a volume that is usable again waits for the administrator, who *)
(* resumes it, which deletes the hold and starts the apps it stopped.      *)
(*                                                                         *)
(* Every await is a step: between the answer of the worker and the writes  *)
(* that follow from it, a volume may come or go, the administrator may     *)
(* resume, start or stop, a job may run, the backend may be restarted.     *)
(* Nothing keeps two calls of Resume for one volume apart: both may read   *)
(* the same hold, and the second deletes whatever hold is there by then.   *)
(* Starts and stops are jobs: the worker takes them from a JetStream       *)
(* stream, which outlives the backend, and runs them one at a time in      *)
(* order (main.go, the container lane).                                    *)
(***************************************************************************)
EXTENDS Naturals, Sequences, SequencesExt

CONSTANTS Volumes,    \* the data volumes HSI manages
          Apps,
          Uses,       \* the volumes on which an app bind-mounts a path
          Calls,      \* the calls of Resume a volume may have in hand at once
          MaxEvents,  \* bound on what volumes and the administrator do
          MaxFaults   \* bound on restarts of the backend and on failed calls

ASSUME VolumeGuardAssumption ==
    /\ Uses \in [Apps -> SUBSET Volumes]
    /\ MaxEvents \in Nat
    /\ MaxFaults \in Nat

VARIABLES
    vol,       \* "ok", "bad" (missing, wrong, readonly, unmounted) or "gone" from fstab
    running,   \* the apps with a running container
    jobs,      \* the stream: starts and stops not yet run
    hold,      \* the rows of VolumeHold
    guard,     \* the check in hand
    resume,    \* the calls of Resume in hand, by volume
    starting,  \* apps whose start has passed assertVolumeAvailable
    down,      \* history: who stopped an app
    dropped,   \* history: the apps of holds deleted by a Resume that read an older one
    events,
    faults

vars == <<vol, running, jobs, hold, guard, resume, starting, down, dropped, events, faults>>
machine == <<vol, running, down, dropped>>

NoHold == [status |-> "none", stopped |-> {}]
NoCheck == [at |-> "idle", bad |-> {}, gone |-> {}, create |-> {}, back |-> {},
            reblock |-> {}, release |-> {}, apps |-> {}, stops |-> {}]

\* A call of Resume: where it is, the list it read, and (history) whether the hold it
\* read was deleted before it came to delete it.
NoResume == [at |-> "idle", apps |-> {}, late |-> FALSE]

Held(v) == hold[v].status # "none"
Job(kind, a) == [kind |-> kind, app |-> a]

Event == events < MaxEvents /\ events' = events + 1
Fault == faults < MaxFaults /\ faults' = faults + 1

\* publishJob, whose failure the guard and Resume only log.
Publish(kind, a) ==
    \/ jobs' = Append(jobs, Job(kind, a)) /\ UNCHANGED faults
    \/ Fault /\ UNCHANGED jobs

----------------------------------------------------------------------------
(* The guard: runVolumeGuard, one check at a time. *)

\* appsUnder: of the apps listed as running, those on the volume.
AppsUnder(apps, v) == {a \in apps : v \in Uses[a]}

\* MUTANT: a volume that fails again while it waits for Resume is left so.
PlanHoldsNoReblock(bad, gone) ==
    [create  |-> {v \in bad : ~Held(v)},
     back    |-> {v \in Volumes \ (bad \cup gone) : hold[v].status = "blocked"},
     reblock |-> {},
     release |-> {v \in gone : Held(v)}]

\* MUTANT: nothing tells the administrator that a volume is back.
PlanHoldsNoBack(bad, gone) ==
    [create  |-> {v \in bad : ~Held(v)},
     back    |-> {},
     reblock |-> {v \in bad : hold[v].status = "back"},
     release |-> {v \in gone : Held(v)}]

\* planHolds, from the states the worker gave and the holds as they are now.
PlanHolds(bad, gone) ==
    [create  |-> {v \in bad : ~Held(v)},
     back    |-> {v \in Volumes \ (bad \cup gone) : hold[v].status = "blocked"},
     reblock |-> {v \in bad : hold[v].status = "back"},
     release |-> {v \in gone : Held(v)}]

\* fetchVolumes.
GuardFetch ==
    /\ guard.at = "idle"
    /\ guard' = [guard EXCEPT !.at = "plan",
                              !.bad = {v \in Volumes : vol[v] = "bad"},
                              !.gone = {v \in Volumes : vol[v] = "gone"}]
    /\ UNCHANGED <<machine, jobs, hold, resume, starting, events, faults>>

GuardPlan ==
    /\ guard.at = "plan"
    /\ LET plan == PlanHolds(guard.bad, guard.gone)
       IN  guard' = [NoCheck EXCEPT !.at = "release",
                                    !.create = plan.create, !.back = plan.back,
                                    !.reblock = plan.reblock, !.release = plan.release]
    /\ UNCHANGED <<machine, jobs, hold, resume, starting, events, faults>>

Overtaken(res) == IF res.at = "delete" THEN [res EXCEPT !.late = TRUE] ELSE res

\* deleteMany: a row already deleted is no error.
GuardRelease ==
    /\ guard.at = "release"
    /\ resume' = [v \in Volumes |-> [c \in Calls |->
                     IF v \in guard.release THEN Overtaken(resume[v][c]) ELSE resume[v][c]]]
    /\ hold' = [v \in Volumes |-> IF v \in guard.release THEN NoHold ELSE hold[v]]
    /\ guard' = [guard EXCEPT !.at = IF guard.create = {} THEN "update" ELSE "list",
                              !.release = {}]
    /\ UNCHANGED <<machine, jobs, starting, events, faults>>

\* appSources().catch(() => []): an unreadable list reads as no app at all.
GuardList ==
    /\ guard.at = "list"
    /\ \/ guard' = [guard EXCEPT !.at = "create", !.apps = running] /\ UNCHANGED faults
       \/ guard' = [guard EXCEPT !.at = "create"] /\ Fault
    /\ UNCHANGED <<machine, jobs, hold, resume, starting, events>>

\* MUTANT: the apps are stopped and the row does not say which.
GuardCreateUnlisted(v) ==
    /\ guard.at = "create" /\ guard.stops = {}
    /\ v \in guard.create
    /\ hold' = [hold EXCEPT ![v] = [status |-> "blocked", stopped |-> {}]]
    /\ guard' = [guard EXCEPT !.create = @ \ {v}, !.stops = AppsUnder(guard.apps, v)]
    /\ UNCHANGED <<machine, jobs, resume, starting, events, faults>>

\* The row is written, with the apps that are about to be stopped, and then
\* the apps are stopped, one by one.
GuardCreate(v) ==
    /\ guard.at = "create" /\ guard.stops = {}
    /\ v \in guard.create
    /\ LET stopped == AppsUnder(guard.apps, v)
       IN  /\ hold' = [hold EXCEPT ![v] = [status |-> "blocked", stopped |-> stopped]]
           /\ guard' = [guard EXCEPT !.create = @ \ {v}, !.stops = stopped]
    /\ UNCHANGED <<machine, jobs, resume, starting, events, faults>>

GuardStop(a) ==
    /\ guard.at = "create"
    /\ a \in guard.stops
    /\ Publish("halt", a)
    /\ guard' = [guard EXCEPT !.stops = @ \ {a}]
    /\ UNCHANGED <<machine, hold, resume, starting, events>>

GuardCreated ==
    /\ guard.at = "create" /\ guard.stops = {} /\ guard.create = {}
    /\ guard' = [guard EXCEPT !.at = "update", !.apps = {}]
    /\ UNCHANGED <<machine, jobs, hold, resume, starting, events, faults>>

\* An update of a row that was deleted meanwhile throws: the check is over.
SetStatus(v, status, rest) ==
    IF Held(v)
    THEN /\ hold' = [hold EXCEPT ![v].status = status]
         /\ guard' = rest
    ELSE /\ guard' = NoCheck
         /\ UNCHANGED hold

GuardBack(v) ==
    /\ guard.at = "update"
    /\ v \in guard.back
    /\ SetStatus(v, "back", [guard EXCEPT !.back = @ \ {v}])
    /\ UNCHANGED <<machine, jobs, resume, starting, events, faults>>

GuardReblock(v) ==
    /\ guard.at = "update" /\ guard.back = {}
    /\ v \in guard.reblock
    /\ SetStatus(v, "blocked", [guard EXCEPT !.reblock = @ \ {v}])
    /\ UNCHANGED <<machine, jobs, resume, starting, events, faults>>

GuardEnd ==
    /\ guard.at = "update" /\ guard.back = {} /\ guard.reblock = {}
    /\ guard' = NoCheck
    /\ UNCHANGED <<machine, jobs, hold, resume, starting, events, faults>>

\* A query of the database throws: the check is over, and what it had planned is not done.
GuardFails ==
    /\ guard.at \notin {"idle", "list"} /\ guard.stops = {}
    /\ guard' = NoCheck
    /\ Fault
    /\ UNCHANGED <<machine, jobs, hold, resume, starting, events>>

----------------------------------------------------------------------------
(* The administrator: resumeVolume, and the start and stop of an app. *)

ResumeRead(v, c) ==
    /\ resume[v][c].at = "idle"
    /\ hold[v].status = "back"
    /\ resume' = [resume EXCEPT ![v][c] =
                     [at |-> "delete", apps |-> hold[v].stopped, late |-> FALSE]]
    /\ Event
    /\ UNCHANGED <<machine, jobs, hold, guard, starting, faults>>

\* The row is deleted by its mount point, whatever its status has become, and whichever
\* hold it is by now.
ResumeDelete(v, c) ==
    /\ resume[v][c].at = "delete"
    /\ IF Held(v)
       THEN /\ hold' = [hold EXCEPT ![v] = NoHold]
            /\ resume' = [resume EXCEPT ![v] = [q \in Calls |->
                             IF q = c THEN [resume[v][c] EXCEPT !.at = "start"]
                             ELSE Overtaken(resume[v][q])]]
            /\ dropped' = dropped \cup (IF resume[v][c].late THEN hold[v].stopped ELSE {})
       ELSE /\ resume' = [resume EXCEPT ![v][c] = NoResume]
            /\ UNCHANGED <<hold, dropped>>
    /\ UNCHANGED <<vol, running, down, jobs, guard, starting, events, faults>>

\* The database refuses: the call is over.
ResumeFails(v, c) ==
    /\ resume[v][c].at = "delete"
    /\ resume' = [resume EXCEPT ![v][c] = NoResume]
    /\ Fault
    /\ UNCHANGED <<machine, jobs, hold, guard, starting, events>>

ResumeStart(v, c, a) ==
    /\ resume[v][c].at = "start"
    /\ a \in resume[v][c].apps
    /\ Publish("up", a)
    /\ resume' = [resume EXCEPT ![v][c].apps = @ \ {a}]
    /\ UNCHANGED <<machine, hold, guard, starting, events>>

ResumeEnd(v, c) ==
    /\ resume[v][c].at = "start" /\ resume[v][c].apps = {}
    /\ resume' = [resume EXCEPT ![v][c] = NoResume]
    /\ UNCHANGED <<machine, jobs, hold, guard, starting, events, faults>>

\* assertAppVolumes: no path the app bind-mounts is on a held volume ...
StartCheck(a) ==
    /\ a \notin starting
    /\ \A v \in Uses[a] : ~Held(v)
    /\ starting' = starting \cup {a}
    /\ Event
    /\ UNCHANGED <<machine, jobs, hold, guard, resume, faults>>

\* ... and the job is published after that answer.
StartPublish(a) ==
    /\ a \in starting
    /\ Publish("up", a)
    /\ starting' = starting \ {a}
    /\ UNCHANGED <<machine, hold, guard, resume, events>>

AdminStop(a) ==
    /\ jobs' = Append(jobs, Job("stop", a))
    /\ Event
    /\ UNCHANGED <<machine, hold, guard, resume, starting, faults>>

----------------------------------------------------------------------------
(* The worker's container lane, and what may go wrong around it. *)

\* docker compose up: on a volume that is not there it may fail, since the
\* directories it would create under the mount point are refused.
JobUp ==
    /\ jobs # <<>> /\ Head(jobs).kind = "up"
    /\ LET a == Head(jobs).app
       IN  \/ /\ running' = running \cup {a}
              /\ down' = [down EXCEPT ![a] = "no"]
           \/ /\ \E v \in Uses[a] : vol[v] # "ok"
              /\ down' = IF a \in running THEN down ELSE [down EXCEPT ![a] = "failed"]
              /\ UNCHANGED running
    /\ jobs' = Tail(jobs)
    /\ UNCHANGED <<vol, dropped, hold, guard, resume, starting, events, faults>>

\* docker compose stop, asked for by the guard ("halt") or by the administrator.
JobStop ==
    /\ jobs # <<>> /\ Head(jobs).kind # "up"
    /\ LET a == Head(jobs).app
       IN  /\ down' = IF a \in running THEN [down EXCEPT ![a] = Head(jobs).kind] ELSE down
           /\ running' = running \ {a}
    /\ jobs' = Tail(jobs)
    /\ UNCHANGED <<vol, dropped, hold, guard, resume, starting, events, faults>>

\* Docker refuses.  The message is terminated: a failed job is not run again.
JobFails ==
    /\ jobs # <<>>
    /\ LET a == Head(jobs).app
       IN  down' = IF Head(jobs).kind = "up" /\ a \notin running
                   THEN [down EXCEPT ![a] = "failed"] ELSE down
    /\ jobs' = Tail(jobs)
    /\ Fault
    /\ UNCHANGED <<vol, running, dropped, hold, guard, resume, starting, events>>

VolumeChanges(v) ==
    /\ \/ vol[v] = "ok"  /\ vol' = [vol EXCEPT ![v] = "bad"]
       \/ vol[v] = "bad" /\ vol' = [vol EXCEPT ![v] = "ok"]
       \/ vol[v] # "gone" /\ vol' = [vol EXCEPT ![v] = "gone"]
    /\ Event
    /\ UNCHANGED <<running, down, dropped, jobs, hold, guard, resume, starting, faults>>

\* The backend stops: what it had in hand is lost, rows and stream are not.
BackendRestart ==
    /\ guard' = NoCheck
    /\ resume' = [v \in Volumes |-> [c \in Calls |-> NoResume]]
    /\ starting' = {}
    /\ Fault
    /\ UNCHANGED <<machine, jobs, hold, events>>

----------------------------------------------------------------------------
Init ==
    /\ vol = [v \in Volumes |-> "ok"]
    /\ running = Apps
    /\ jobs = <<>>
    /\ hold = [v \in Volumes |-> NoHold]
    /\ guard = NoCheck
    /\ resume = [v \in Volumes |-> [c \in Calls |-> NoResume]]
    /\ starting = {}
    /\ down = [a \in Apps |-> "no"]
    /\ dropped = {}
    /\ events = 0
    /\ faults = 0

GuardStep ==
    \/ GuardFetch \/ GuardPlan \/ GuardRelease \/ GuardList
    \/ \E v \in Volumes : GuardCreate(v) \/ GuardBack(v) \/ GuardReblock(v)
    \/ \E a \in Apps : GuardStop(a)
    \/ GuardCreated \/ GuardEnd

ResumeStep(v, c) ==
    \/ ResumeRead(v, c) \/ ResumeDelete(v, c) \/ ResumeFails(v, c) \/ ResumeEnd(v, c)
    \/ \E a \in Apps : ResumeStart(v, c, a)

AdminStep(a) == StartCheck(a) \/ StartPublish(a) \/ AdminStop(a)

JobStep == JobUp \/ JobStop \/ JobFails

Next ==
    \/ GuardStep
    \/ GuardFails
    \/ \E v \in Volumes : \E c \in Calls : ResumeStep(v, c)
    \/ \E v \in Volumes : VolumeChanges(v)
    \/ \E a \in Apps : AdminStep(a)
    \/ JobStep
    \/ BackendRestart

Spec == Init /\ [][Next]_vars

\* setInterval calls the guard for ever and each of its calls answers or times
\* out.  Nothing is assumed of the administrator, the volumes or the jobs.
FairSpec == Spec /\ WF_vars(GuardStep)

----------------------------------------------------------------------------
(* Properties. *)

Check == [at : {"idle", "plan", "release", "list", "create", "update"},
          bad : SUBSET Volumes, gone : SUBSET Volumes,
          create : SUBSET Volumes, back : SUBSET Volumes,
          reblock : SUBSET Volumes, release : SUBSET Volumes,
          apps : SUBSET Apps, stops : SUBSET Apps]

\* TYPE: every variable holds a value the program can give it.
TypeOK ==
    /\ vol \in [Volumes -> {"ok", "bad", "gone"}]
    /\ running \in SUBSET Apps
    /\ jobs \in Seq([kind : {"up", "stop", "halt"}, app : Apps])
    /\ hold \in [Volumes -> [status : {"none", "blocked", "back"}, stopped : SUBSET Apps]]
    /\ guard \in Check
    /\ resume \in [Volumes -> [Calls -> [at : {"idle", "delete", "start"},
                                       apps : SUBSET Apps, late : BOOLEAN]]]
    /\ starting \in SUBSET Apps
    /\ down \in [Apps -> {"no", "halt", "stop", "failed"}]
    /\ dropped \in SUBSET Apps
    /\ events \in 0 .. MaxEvents
    /\ faults \in 0 .. MaxFaults

Returning(a) ==
    \/ \E v \in Volumes : \/ a \in hold[v].stopped
                         \/ \E c \in Calls : ~resume[v][c].late /\ a \in resume[v][c].apps
    \/ a \in starting
    \/ Contains(jobs, Job("up", a))

\* An app the guard stopped is on the list of a hold, of the Resume that deleted that
\* hold, or on its way up: Resume "restarts exactly these" (volume-guard.ts:51), so an
\* app missing from every list stays down for good.  With no failed call and no
\* restart, until the volume leaves fstab, and unless two calls of Resume read one hold
\* and the second deleted the next one, which it had not read.
NotForgotten ==
    \A a \in Apps :
        (/\ faults = 0 /\ down[a] = "halt" /\ a \notin dropped
         /\ \A v \in Uses[a] : vol[v] # "gone")
            => Returning(a)

\* A volume that stays unusable ends up blocked, and stays blocked: not waiting
\* for Resume on the word of an older answer, and not free because a resume and
\* a check crossed.
MissingBlocked ==
    \A v \in Volumes :
        <>[](vol[v] = "bad") => <>[](hold[v].status = "blocked")

\* A volume that stays usable is free, or waits for Resume.
BackAnnounced ==
    \A v \in Volumes :
        <>[](vol[v] = "ok") => <>[](hold[v].status # "blocked")
============================================================================
