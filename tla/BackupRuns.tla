----------------------------- MODULE BackupRuns -----------------------------
(***************************************************************************)
(* The runs of versioned backup plans: backup_run.go, backup_runlog.go and *)
(* the start by hand of backup_nats.go.                                    *)
(*                                                                         *)
(* A run is a process of its own, started by the timer of its plan or by   *)
(* hand.  It takes the lock of its plan, then the lock of its repository,  *)
(* stops the apps of the plan that run, takes a snapshot, starts the apps  *)
(* it stopped, prunes and records itself.  Both locks are flocks: they die *)
(* with the process.  A SIGTERM makes a run wind down, and a SIGKILL ends  *)
(* it anywhere.  Administrators start and stop the same apps meanwhile, as *)
(* jobs of the worker, which knows nothing of the runs.                    *)
(*                                                                         *)
(* Apps are stopped and started in any order: nothing depends on theirs.   *)
(* Left out: paused plans, synchronisation plans (rsync, which stop no     *)
(* app), checks of a repository, restores, and what restic stores.         *)
(***************************************************************************)
EXTENDS Naturals, FiniteSets

CONSTANTS
    Runs,          \* the units that may run: at most one process each
    ByHand,        \* those started by hand
    Plans, Repositories, Apps,
    PlanOf,        \* the plan of a run
    RepositoryOf,  \* the repository of a plan
    StopApps,      \* the apps a plan stops
    MaxStarts,     \* bound: runs started
    MaxTroubles,   \* bound: steps that fail, SIGTERMs and SIGKILLs together
    MaxTouches     \* bound: starts and stops by administrators

ASSUME BackupRunsAssumption ==
    /\ ByHand \subseteq Runs
    /\ PlanOf \in [Runs -> Plans]
    /\ RepositoryOf \in [Plans -> Repositories]
    /\ StopApps \in [Plans -> SUBSET Apps]
    /\ {MaxStarts, MaxTroubles, MaxTouches} \subseteq Nat

VARIABLES
    run,     \* what each run is at
    up,      \* whether each app has a running container
    down,    \* why an app is down for a backup: see Down
    last,    \* the last record of each plan
    bounds   \* what happened so far of what is bounded

vars == <<run, up, down, last, bounds>>

Pc == {"idle", "locking", "config", "queued", "check", "stops", "stopping",
       "snapshot", "starts", "forget", "record"}

\* What an error says: errors.Is(err, errInterrupted), "did not start again", else.
Reasons == {"interrupted", "did not start again", "other"}

AppSets == SUBSET Apps
Errors == SUBSET Reasons

\* History: "no", "stopped" by a run that is to start it, "failed" to start again,
\* or "lost" with the run that was killed.
Down == {"no", "stopped", "failed", "lost"}

\* What a run holds: the apps it has yet to stop, or to start again; those it stopped;
\* whether its snapshot will be consistent; its error; the apps that did not start;
\* whether it got a SIGTERM; the apps others started since it saw them down (history);
\* the app being stopped.
RunState ==
    [pc : Pc, todo : AppSets, stopped : AppSets, consistent : BOOLEAN, err : Errors,
     left : AppSets, interrupted : BOOLEAN, touched : AppSets, now : AppSets]

\* left is history.
Record == [status : {"none", "success", "failed"}, error : Errors, left : AppSets]

Idle ==
    [pc |-> "idle", todo |-> {}, stopped |-> {}, consistent |-> TRUE, err |-> {},
     left |-> {}, interrupted |-> FALSE, touched |-> {}, now |-> {}]

TypeOK ==
    /\ run \in [Runs -> RunState]
    /\ up \in [Apps -> BOOLEAN]
    /\ down \in [Apps -> Down]
    /\ last \in [Plans -> Record]
    /\ bounds \in [starts : Nat, troubles : Nat, touches : Nat]

Init ==
    /\ run = [r \in Runs |-> Idle]
    /\ up \in [Apps -> BOOLEAN]
    /\ down = [a \in Apps |-> "no"]
    /\ last = [p \in Plans |-> [status |-> "none", error |-> {}, left |-> {}]]
    /\ bounds = [starts |-> 0, troubles |-> 0, touches |-> 0]

-----------------------------------------------------------------------------
Repository(r) == RepositoryOf[PlanOf[r]]

HoldsRun(r) == run[r].pc \notin {"idle", "locking"}

HoldsRepository(r) ==
    run[r].pc \in {"check", "stops", "stopping", "snapshot", "starts", "forget"}

\* holdRunLock: another run of the plan would be refused.
PlanFree(r) == \A q \in Runs \ {r} : PlanOf[q] = PlanOf[r] => ~HoldsRun(q)

\* Mutant: a lock per plan.
RepositoryFreePlan(r) ==
    \A q \in Runs \ {r} : PlanOf[q] = PlanOf[r] => ~HoldsRepository(q)

\* withLock: the repository is not busy with another run.
RepositoryFree(r) ==
    \A q \in Runs \ {r} : Repository(q) = Repository(r) => ~HoldsRepository(q)

\* asInterrupted: the error of an interrupted command says only that.
AsInterrupted(err, interrupted) ==
    IF err # {} /\ interrupted /\ "interrupted" \notin err THEN {"interrupted"} ELSE err

Goto(r, pc) == run' = [run EXCEPT ![r].pc = pc]

Bounded(event, max) ==
    /\ bounds[event] < max
    /\ bounds' = [bounds EXCEPT ![event] = @ + 1]

Trouble == Bounded("troubles", MaxTroubles)

\* The run ends with this error and goes on to its record.
Ends(r, err) == run' = [run EXCEPT ![r].err = err, ![r].pc = "record"]

-----------------------------------------------------------------------------
\* The timer's unit, or a transient one: only that asks whether the plan runs.
Start(r) ==
    /\ run[r].pc = "idle"
    /\ r \in ByHand => \A q \in Runs : PlanOf[q] = PlanOf[r] => ~HoldsRun(q)
    /\ Bounded("starts", MaxStarts)
    /\ run' = [run EXCEPT ![r] = [Idle EXCEPT !.pc = "locking"]]
    /\ UNCHANGED <<up, down, last>>

\* The lock of the plan, or errRunActive after five seconds: then nothing is recorded.
TakeRun(r) ==
    /\ run[r].pc = "locking"
    /\ IF PlanFree(r) THEN Goto(r, "config") ELSE run' = [run EXCEPT ![r] = Idle]
    /\ UNCHANGED <<up, down, last, bounds>>

\* The configuration is read: the plan and its repository may be gone.
Configure(r) ==
    /\ run[r].pc = "config"
    /\ \/ Goto(r, "queued") /\ UNCHANGED bounds
       \/ Ends(r, {"other"}) /\ Trouble
    /\ UNCHANGED <<up, down, last>>

\* The lock of the repository, or errInterrupted, or errBackupBusy after ten minutes.
TakeRepository(r) ==
    /\ run[r].pc = "queued"
    /\ IF RepositoryFree(r)
         THEN Goto(r, "check")
         ELSE Ends(r, IF run[r].interrupted THEN {"interrupted"} ELSE {"other"})
    /\ UNCHANGED <<up, down, last, bounds>>

\* The volumes of the sources, the repository and its secrets.
Check(r) ==
    /\ run[r].pc = "check"
    /\ \/ /\ run' = [run EXCEPT ![r].pc = "stops", ![r].todo = StopApps[PlanOf[r]]]
          /\ UNCHANGED bounds
       \/ Ends(r, {"other"}) /\ Trouble
    /\ UNCHANGED <<up, down, last>>

\* The next app is looked at: one that does not run is left alone, and so is one of
\* which docker tells nothing, without which the snapshot is not consistent.
Look(r, a) ==
    /\ run[r].pc = "stops" /\ ~run[r].interrupted
    /\ a \in run[r].todo
    /\ \/ /\ up[a]
          /\ run' = [run EXCEPT ![r].stopped = @ \cup {a}, ![r].pc = "stopping",
                                ![r].todo = @ \ {a}, ![r].now = {a}]
          /\ UNCHANGED bounds
       \/ /\ ~up[a]
          /\ run' = [run EXCEPT ![r].todo = @ \ {a}, ![r].touched = @ \ {a}]
          /\ UNCHANGED bounds
       \/ /\ run' = [run EXCEPT ![r].todo = @ \ {a}, ![r].consistent = FALSE]
          /\ Trouble
    /\ UNCHANGED <<up, down, last>>

\* `docker compose stop` ends: done, or failed, which an interruption makes it do at
\* once.  A failed stop may have stopped the app all the same.
Stop(r, a) ==
    /\ run[r].pc = "stopping" /\ a \in run[r].now
    /\ \/ /\ up' = [up EXCEPT ![a] = FALSE]
          /\ run' = [run EXCEPT ![r].pc = "stops", ![r].now = {}, ![r].touched = @ \ {a}]
          /\ UNCHANGED bounds
       \/ /\ \E still \in BOOLEAN : up' = [up EXCEPT ![a] = still /\ @]
          /\ run' = [run EXCEPT ![r].pc = "stops", ![r].now = {}, ![r].consistent = FALSE]
          /\ IF run[r].interrupted THEN UNCHANGED bounds ELSE Trouble
    /\ down' = IF up[a] /\ ~up'[a] THEN [down EXCEPT ![a] = "stopped"] ELSE down
    /\ UNCHANGED last

\* Mutant: an interrupted run leaves at once.
StopsDoneLeaves(r) ==
    /\ run[r].pc = "stops"
    /\ run[r].todo = {} \/ run[r].interrupted
    /\ IF run[r].interrupted THEN Ends(r, {"interrupted"}) ELSE Goto(r, "snapshot")
    /\ UNCHANGED <<up, down, last, bounds>>

\* The stops are over; an interrupted run takes no snapshot.
StopsDone(r) ==
    /\ run[r].pc = "stops"
    /\ run[r].todo = {} \/ run[r].interrupted
    /\ run' = IF run[r].interrupted
                THEN [run EXCEPT ![r].pc = "starts", ![r].err = {"interrupted"},
                                 ![r].todo = run[r].stopped]
                ELSE [run EXCEPT ![r].pc = "snapshot"]
    /\ UNCHANGED <<up, down, last, bounds>>

\* restic backup ends.  An interruption is passed on to it, perhaps too late.
Snapshot(r) ==
    /\ run[r].pc = "snapshot"
    /\ \/ /\ run' = [run EXCEPT ![r].pc = "starts", ![r].todo = run[r].stopped]
          /\ UNCHANGED bounds
       \/ /\ run' = [run EXCEPT ![r].pc = "starts", ![r].todo = run[r].stopped,
                                ![r].err = {"other"}]
          /\ IF run[r].interrupted THEN UNCHANGED bounds ELSE Trouble
    /\ UNCHANGED <<up, down, last>>

\* Another run or an administrator starts app a under the runs in set.
Touched(set, a) ==
    [q \in Runs |-> IF q \in set THEN [run[q] EXCEPT !.touched = @ \cup {a}] ELSE run[q]]

\* restart: one app is started again, or not.
Restart(r, a) ==
    /\ run[r].pc = "starts" /\ a \in run[r].todo
    /\ \/ /\ up' = [up EXCEPT ![a] = TRUE]
          /\ down' = [down EXCEPT ![a] = "no"]
          /\ run' = [Touched({q \in Runs : Repository(q) # Repository(r)}, a)
                       EXCEPT ![r].todo = @ \ {a}]
          /\ UNCHANGED bounds
       \/ /\ down' = IF up[a] THEN down ELSE [down EXCEPT ![a] = "failed"]
          /\ run' = [run EXCEPT ![r].todo = @ \ {a}, ![r].left = @ \cup {a}]
          /\ Trouble
          /\ UNCHANGED up
    /\ UNCHANGED last

\* The error of the run: of the snapshot, of the starts, or of both.  A run that has
\* its snapshot and is not interrupted prunes before it ends.
RestartsDone(r) ==
    /\ run[r].pc = "starts" /\ run[r].todo = {}
    /\ LET berr == AsInterrupted(run[r].err, run[r].interrupted)
           rerr == IF run[r].left = {} THEN {} ELSE {"did not start again"}
       IN  run' = [run EXCEPT ![r].err = berr \cup rerr,
                              ![r].pc = IF berr = {} /\ ~run[r].interrupted
                                          THEN "forget" ELSE "record"]
    /\ UNCHANGED <<up, down, last, bounds>>

\* restic forget: a failure is a warning.
Forget(r) ==
    /\ run[r].pc = "forget"
    /\ Goto(r, "record")
    /\ UNCHANGED <<up, down, last, bounds>>

\* finishRun: the record, unless it cannot be written, and the end of the process.
Finish(r) ==
    /\ run[r].pc = "record"
    /\ LET err == AsInterrupted(run[r].err, run[r].interrupted) IN
       \/ /\ last' = [last EXCEPT ![PlanOf[r]] =
                        [status |-> IF err = {} THEN "success" ELSE "failed",
                         error |-> err, left |-> run[r].left]]
          /\ UNCHANGED bounds
       \/ Trouble /\ UNCHANGED last
    /\ run' = [run EXCEPT ![r] = Idle]
    /\ UNCHANGED <<up, down>>

RunStep(r) ==
    \/ TakeRun(r) \/ Configure(r) \/ TakeRepository(r) \/ Check(r) \/ StopsDone(r)
    \/ Snapshot(r) \/ RestartsDone(r) \/ Forget(r) \/ Finish(r)
    \/ \E a \in Apps : Look(r, a) \/ Stop(r, a) \/ Restart(r, a)

-----------------------------------------------------------------------------
\* SIGTERM: a stop of the unit, or a shutdown.
Interrupt(r) ==
    /\ run[r].pc # "idle" /\ ~run[r].interrupted
    /\ Trouble
    /\ run' = [run EXCEPT ![r].interrupted = TRUE]
    /\ UNCHANGED <<up, down, last>>

\* SIGKILL: out of memory, or still there 120 seconds after a SIGTERM.  A stop under
\* way may end all the same.
Kill(r) ==
    /\ run[r].pc # "idle"
    /\ Trouble
    /\ \E gone \in SUBSET run[r].now :
         /\ up' = [a \in Apps |-> up[a] /\ a \notin gone]
         /\ down' = [a \in Apps |->
               IF a \in run[r].stopped /\ (down[a] = "stopped" \/ (up[a] /\ a \in gone))
                 THEN "lost" ELSE down[a]]
    /\ run' = [run EXCEPT ![r] = Idle]
    /\ UNCHANGED last

\* The worker's container jobs, whatever runs.
AdminStart(a) ==
    /\ Bounded("touches", MaxTouches)
    /\ up' = [up EXCEPT ![a] = TRUE]
    /\ down' = [down EXCEPT ![a] = "no"]
    /\ run' = Touched(Runs, a)
    /\ UNCHANGED last

AdminStop(a) ==
    /\ Bounded("touches", MaxTouches)
    /\ up' = [up EXCEPT ![a] = FALSE]
    /\ down' = [down EXCEPT ![a] = "no"]
    /\ UNCHANGED <<run, last>>

Next ==
    \/ \E r \in Runs : Start(r) \/ RunStep(r) \/ Interrupt(r) \/ Kill(r)
    \/ \E a \in Apps : AdminStart(a) \/ AdminStop(a)

Spec == Init /\ [][Next]_vars

\* A live process goes on: docker and restic end.
Fairness == \A r \in Runs : WF_vars(RunStep(r))

FairSpec == Spec /\ Fairness

-----------------------------------------------------------------------------
\* "The apps were stopped during the run" (RunHistory.vue): under a snapshot tagged
\* consistent every app of the plan is down, unless an administrator, or a run on
\* another repository, started it since the run saw it down.
ConsistentStopped ==
    \A r \in Runs : run[r].pc = "snapshot" /\ run[r].consistent =>
        \A a \in StopApps[PlanOf[r]] : up[a] => a \in run[r].touched

\* runVersions "always starts them again": an app stopped for a backup is started by
\* that run or someone else, or the run noticed that it could not, or was killed.
GivenBack == \A a \in Apps : (down[a] = "stopped") ~> (down[a] # "stopped")

\* backupFindings: the alert raised on the record of a run.
Severity(record) ==
    IF record.status # "failed" THEN "none"
    ELSE IF "did not start again" \in record.error THEN "critical" ELSE "warning"

\* "An app that stayed down is an outage, not just a missed backup" (backup-status.ts):
\* the alert on a run that could not start an app again is critical.
OutageIsCritical ==
    \A p \in Plans : last[p].left # {} => Severity(last[p]) = "critical"

\* The same as ConsistentStopped with nobody excused: false for two plans that stop
\* one app and use two repositories (see the README).
ConsistentAlone ==
    \A r \in Runs : run[r].pc = "snapshot" /\ run[r].consistent =>
        \A a \in StopApps[PlanOf[r]] : ~up[a]
=============================================================================
