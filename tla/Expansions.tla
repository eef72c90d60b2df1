----------------------------- MODULE Expansions -----------------------------
(***************************************************************************)
(* Growing a data volume onto a larger array.                              *)
(*                                                                         *)
(* A plan (plan_volume_expand.go) starts the growth of the array, which    *)
(* takes hours, and records it as a pending expansion.  A finisher         *)
(* (expansions.go), run every minute by the worker and every hour by       *)
(* `hsi-worker maintenance`, takes the recorded expansions whose array is  *)
(* ready and grows the physical volume, the logical volume and the         *)
(* filesystem.  The backend's alert sampler announces and acknowledges the *)
(* finished ones.                                                          *)
(*                                                                         *)
(* The two processes of the worker's binary share the file of expansions,  *)
(* written under a lock, and the lock of the finishers.  Neither lock      *)
(* covers a plan, whose steps run outside both, and each process may die   *)
(* between any two steps.                                                  *)
(*                                                                         *)
(* No name is also one of Jobs: one module can extend both.                *)
(***************************************************************************)
EXTENDS Naturals, FiniteSets

CONSTANTS Volumes,    \* the data volumes, each on its array, by UUID
          Xfs,        \* those whose filesystem grows only while mounted
          Procs,      \* processes of the worker's binary: the daemon, the CLI
          Worker,     \* the daemon, which systemd starts again
          Nothing,    \* no process, no volume
          MaxSize,    \* bound on the size of an array
          MaxPlans,   \* bound on the plans applied
          MaxFaults   \* bound on crashes, reboots and failing commands

ASSUME ExpansionsAssumption ==
    /\ IsFiniteSet(Volumes) /\ Xfs \subseteq Volumes
    /\ IsFiniteSet(Procs) /\ Worker \in Procs
    /\ Nothing \notin Procs \cup Volumes
    /\ MaxSize \in Nat \ {0}
    /\ MaxPlans \in Nat /\ MaxFaults \in Nat

VARIABLES
    array,    \* the arrays: size, size once the running sync is over, sync_action
    spare,    \* the arrays to which a disk was added that is not used yet
    pv, lv, fs, \* the sizes of the layers on each array
    mounted,  \* the mounted volumes
    entries,  \* expansions.json, an entry per volume
    lock,     \* the process that holds the finishers' lock
    fin,      \* the finisher of each process
    plan,     \* the plan each process applies
    samp,     \* the alert sampler's check of the expansions
    alert,    \* the severity of each volume's storage.expand alert
    plans, faults

host == <<array, spare, pv, lv, fs, mounted>>
sampler == <<samp, alert>>
bounds == <<plans, faults>>
growthVars == <<array, spare, pv, lv, fs, mounted, entries, lock, fin, plan, samp, alert,
                plans, faults>>

Sizes == 1 .. MaxSize

NoEntry == [phase |-> "none", old |-> 0, announced |-> FALSE]

IdlePlan == [at |-> "idle", vol |-> Nothing, mode |-> "none", old |-> 0, mnt |-> FALSE]

\* A finisher: where it is, what it loaded and has to look at, the volume in hand, the
\* outcome, and (history) whether it could not see the free space of the group.
IdleFin == [at |-> "idle", todo |-> {}, load |-> [v \in Volumes |-> 0],
            vol |-> Nothing, mnt |-> FALSE, ok |-> FALSE, blind |-> FALSE]

IdleSamp == [at |-> "idle", found |-> [v \in Volumes |-> "none"],
             checked |-> {}, acks |-> {}]

Fault == faults < MaxFaults /\ faults' = faults + 1

\* hostSyncAction(array) = "idle": so it reads too after a reboot, until the
\* reshape resumes.
ReadsIdle(v) == array[v].at # "sync"

\* growFsSteps: an XFS or btrfs filesystem grows only while mounted.
CanGrow(v, mnt) == v \in Xfs => mnt

----------------------------------------------------------------------------
(* A plan being applied: planVolumeExpand, then opPlan.execute. *)

GoOn(p, at) == plan' = [plan EXCEPT ![p].at = at]

\* A step that fails stops the plan; its last step ends it.
PlanOver(p) == plan' = [plan EXCEPT ![p] = IdlePlan]

\* The first step of each expansion: take the free space of the group, add a disk
\* to the array, let the array use its larger disks.
FirstStep == [vgFree |-> "extend", raidAddDisk |-> "add", mirrorGrow |-> "grow"]

\* The checks of the builder, on what the server shows now.
BuildPlan(p, v, mode) ==
    /\ plan[p].at = "idle"
    /\ plans < MaxPlans
    /\ entries[v].phase # "reshape"
    /\ CanGrow(v, v \in mounted)
    /\ ReadsIdle(v)
    /\ CASE mode = "vgFree" -> pv[v] > lv[v]
         [] mode = "raidAddDisk" -> v \notin spare /\ array[v].next < MaxSize
         [] mode = "mirrorGrow" -> array[v].next < MaxSize
    /\ plan' = [plan EXCEPT ![p] = [at |-> FirstStep[mode], vol |-> v, mode |-> mode,
                                    old |-> array[v].size, mnt |-> v \in mounted]]
    /\ plans' = plans + 1
    /\ UNCHANGED <<host, entries, lock, fin, sampler, faults>>

\* wipefs, mdadm --add
PlanAdd(p) ==
    /\ plan[p].at = "add"
    /\ spare' = spare \cup {plan[p].vol}
    /\ GoOn(p, "grow")
    /\ UNCHANGED <<array, pv, lv, fs, mounted, entries, lock, fin, sampler, bounds>>

\* mdadm --grow: onto one more disk (a reshape, larger once it is over), or onto
\* larger disks (larger at once, then synchronised).  Refused while the array is
\* at work already.
PlanGrow(p) ==
    LET v == plan[p].vol
        size == array[v].size
    IN  /\ plan[p].at = "grow"
        /\ IF array[v].at # "idle" \/ size = MaxSize
           THEN PlanOver(p) /\ UNCHANGED <<array, spare>>
           ELSE /\ array' = [array EXCEPT ![v] =
                       [size |-> IF plan[p].mode = "mirrorGrow" THEN size + 1 ELSE size,
                        next |-> size + 1, at |-> "sync"]]
                /\ spare' = spare \ {v}
                /\ GoOn(p, "record")
        /\ UNCHANGED <<pv, lv, fs, mounted, entries, lock, fin, sampler, bounds>>

\* addPendingExpansion: replaces the volume's entry, whatever its phase is by now.
PlanRecord(p) ==
    /\ plan[p].at = "record"
    /\ entries' = [entries EXCEPT ![plan[p].vol] =
                     [phase |-> "reshape", old |-> plan[p].old, announced |-> FALSE]]
    /\ PlanOver(p)
    /\ UNCHANGED <<host, lock, fin, sampler, bounds>>

\* lvextend -l +100%FREE, refused when there is no free space any more.
PlanExtend(p) ==
    LET v == plan[p].vol
    IN  /\ plan[p].at = "extend"
        /\ IF pv[v] > lv[v]
           THEN lv' = [lv EXCEPT ![v] = pv[v]] /\ GoOn(p, "fs")
           ELSE PlanOver(p) /\ UNCHANGED lv
        /\ UNCHANGED <<array, spare, pv, fs, mounted, entries, lock, fin, sampler, bounds>>

\* The filesystem's steps were chosen for a mounted or an unmounted volume.
PlanFs(p) ==
    LET v == plan[p].vol
    IN  /\ plan[p].at = "fs"
        /\ fs' = IF plan[p].mnt = (v \in mounted) THEN [fs EXCEPT ![v] = lv[v]] ELSE fs
        /\ PlanOver(p)
        /\ UNCHANGED <<array, spare, pv, lv, mounted, entries, lock, fin, sampler, bounds>>

\* A step fails: a command, or the write of the file.
PlanFails(p) ==
    /\ plan[p].at # "idle"
    /\ PlanOver(p)
    /\ Fault
    /\ UNCHANGED <<host, entries, lock, fin, sampler, plans>>

----------------------------------------------------------------------------
(* finishExpansions. *)

\* The lock, then the file.
FinStart(p) ==
    /\ fin[p].at = "idle"
    /\ lock = Nothing
    /\ lock' = p
    /\ fin' = [fin EXCEPT ![p].at = "next",
                          ![p].todo = {v \in Volumes : entries[v].phase = "reshape"},
                          ![p].load = [v \in Volumes |-> entries[v].old]]
    /\ UNCHANGED <<host, entries, plan, sampler, bounds>>

\* MUTANT: an idle array is taken for one whose reshape is over.
ReadyIdle(p, v) == ReadsIdle(v)

\* Idle, and larger than before the growth.
Ready(p, v) == ReadsIdle(v) /\ array[v].size > fin[p].load[v]

FinTake(p) ==
    /\ fin[p].at = "next"
    /\ \E v \in fin[p].todo :
          fin' = IF Ready(p, v)
                 THEN [fin EXCEPT ![p].at = "pv", ![p].vol = v, ![p].todo = @ \ {v},
                                   ![p].blind = FALSE]
                 ELSE [fin EXCEPT ![p].todo = @ \ {v}]
    /\ UNCHANGED <<host, entries, lock, plan, sampler, bounds>>

\* pvresize
FinPv(p) ==
    LET v == fin[p].vol
    IN  /\ fin[p].at = "pv"
        /\ pv' = [pv EXCEPT ![v] = array[v].size]
        /\ fin' = [fin EXCEPT ![p].at = "lv"]
        /\ UNCHANGED <<array, spare, lv, fs, mounted, entries, lock, plan, sampler, bounds>>

\* lvextend, skipped when a retry already did: then lv and pv are equal.
FinLv(p) ==
    LET v == fin[p].vol
    IN  /\ fin[p].at = "lv"
        /\ lv' = [lv EXCEPT ![v] = pv[v]]
        /\ fin' = [fin EXCEPT ![p].at = "look"]
        /\ UNCHANGED <<array, spare, pv, fs, mounted, entries, lock, plan, sampler, bounds>>

\* vgs fails, and its error is dropped: no free space is seen and lvextend is skipped.
FinLvSkipped(p) ==
    /\ fin[p].at = "lv"
    /\ fin' = [fin EXCEPT ![p].at = "look", ![p].blind = TRUE]
    /\ Fault
    /\ UNCHANGED <<host, entries, lock, plan, sampler, plans>>

\* Mounted now?  Else an XFS cannot be grown.
FinLook(p) ==
    LET v == fin[p].vol
        mnt == v \in mounted
    IN  /\ fin[p].at = "look"
        /\ fin' = [fin EXCEPT ![p].at = IF CanGrow(v, mnt) THEN "fs" ELSE "write",
                              ![p].mnt = mnt, ![p].ok = FALSE]
        /\ UNCHANGED <<host, entries, lock, plan, sampler, bounds>>

\* e2fsck and resize2fs, or xfs_growfs: wrong for a volume mounted or unmounted
\* since the look.
FinFs(p) ==
    LET v == fin[p].vol
        fits == fin[p].mnt = (v \in mounted)
    IN  /\ fin[p].at = "fs"
        /\ fs' = IF fits THEN [fs EXCEPT ![v] = lv[v]] ELSE fs
        /\ fin' = [fin EXCEPT ![p].at = "write", ![p].ok = fits]
        /\ UNCHANGED <<array, spare, pv, lv, mounted, entries, lock, plan, sampler, bounds>>

FinFails(p) ==
    /\ fin[p].at \in {"pv", "lv", "fs"}
    /\ fin' = [fin EXCEPT ![p].at = "write", ![p].ok = FALSE]
    /\ Fault
    /\ UNCHANGED <<host, entries, lock, plan, sampler, plans>>

\* MUTANT: the outcome is written as done, whatever finishOne returned.
FinWriteDone(p) ==
    LET v == fin[p].vol
    IN  /\ fin[p].at = "write"
        /\ entries' = IF entries[v].phase = "reshape"
                      THEN [entries EXCEPT ![v].phase = "done"]
                      ELSE entries
        /\ fin' = [fin EXCEPT ![p].at = "next", ![p].vol = Nothing]
        /\ UNCHANGED <<host, lock, plan, sampler, bounds>>

\* updateExpansions: the outcome goes to the entry the file holds now, if it is
\* still waiting.  A write that fails is not looked at.
FinWrite(p) ==
    LET v == fin[p].vol
    IN  /\ fin[p].at = "write"
        /\ \/ /\ entries' = IF entries[v].phase = "reshape"
                            THEN [entries EXCEPT ![v].phase = IF fin[p].ok THEN "done" ELSE "failed"]
                            ELSE entries
              /\ UNCHANGED faults
           \/ Fault /\ UNCHANGED entries
        /\ fin' = [fin EXCEPT ![p].at = "next", ![p].vol = Nothing]
        /\ UNCHANGED <<host, lock, plan, sampler, plans>>

\* What is announced a day ago is dropped, and the lock given back.
FinEnd(p) ==
    /\ fin[p].at = "next" /\ fin[p].todo = {}
    /\ \E old \in SUBSET {v \in Volumes : entries[v].phase = "done" /\ entries[v].announced} :
          entries' = [v \in Volumes |-> IF v \in old THEN NoEntry ELSE entries[v]]
    /\ lock' = Nothing
    /\ fin' = [fin EXCEPT ![p] = IdleFin]
    /\ UNCHANGED <<host, plan, sampler, bounds>>

----------------------------------------------------------------------------
(* Requests: retryExpansion, and the alert sampler. *)

Retry(v) ==
    /\ entries[v].phase = "failed"
    /\ entries' = [entries EXCEPT ![v].phase = "reshape"]
    /\ UNCHANGED <<host, lock, fin, plan, sampler, bounds>>

\* root.sys.expansions and expansionFindings
Found(v) ==
    CASE entries[v].phase = "done" /\ ~entries[v].announced -> "info"
      [] entries[v].phase = "failed" -> "warning"
      [] OTHER -> "none"

SampRead ==
    /\ samp.at = "idle"
    /\ samp' = [at |-> "ack", found |-> [v \in Volumes |-> Found(v)],
                checked |-> {v \in Volumes : entries[v].phase # "none"},
                acks |-> {v \in Volumes : Found(v) = "info"}]
    /\ UNCHANGED <<host, entries, lock, fin, plan, alert, bounds>>

\* ackExpansion, or a request that fails, which is not looked at.
SampAck ==
    /\ samp.at = "ack"
    /\ \E v \in samp.acks :
          /\ samp' = [samp EXCEPT !.acks = @ \ {v}]
          /\ \/ /\ entries' = IF entries[v].phase = "done"
                              THEN [entries EXCEPT ![v].announced = TRUE] ELSE entries
                /\ UNCHANGED faults
             \/ Fault /\ UNCHANGED entries
    /\ UNCHANGED <<host, lock, fin, plan, alert, plans>>

\* MUTANT: a target that has an alert already keeps it as it is.
SampReconcileKeep ==
    /\ samp.at = "ack" /\ samp.acks = {}
    /\ alert' = [v \in Volumes |->
                   IF v \in samp.checked /\ (alert[v] = "none" \/ samp.found[v] = "none")
                   THEN samp.found[v] ELSE alert[v]]
    /\ samp' = IdleSamp
    /\ UNCHANGED <<host, entries, lock, fin, plan, bounds>>

\* reconcileSource: persist what was found, clear what was checked and not found.
SampReconcile ==
    /\ samp.at = "ack" /\ samp.acks = {}
    /\ alert' = [v \in Volumes |->
                   IF v \in samp.checked THEN samp.found[v] ELSE alert[v]]
    /\ samp' = IdleSamp
    /\ UNCHANGED <<host, entries, lock, fin, plan, bounds>>

\* The check ends early: the backend stops, or its database fails.
SampDies ==
    /\ samp.at = "ack"
    /\ samp' = IdleSamp
    /\ Fault
    /\ UNCHANGED <<host, entries, lock, fin, plan, alert, plans>>

----------------------------------------------------------------------------
(* The host. *)

\* A sync takes hours: the plans being applied to the array are over by then.
SyncEnds(v) ==
    /\ array[v].at = "sync"
    /\ \A p \in Procs : plan[p].vol # v
    /\ array' = [array EXCEPT ![v] =
                     [size |-> array[v].next, next |-> array[v].next, at |-> "idle"]]
    /\ UNCHANGED <<spare, pv, lv, fs, mounted, entries, lock, fin, plan, sampler, bounds>>

SyncResumes(v) ==
    /\ array[v].at = "paused"
    /\ array' = [array EXCEPT ![v].at = "sync"]
    /\ UNCHANGED <<spare, pv, lv, fs, mounted, entries, lock, fin, plan, sampler, bounds>>

Remount(v) ==
    /\ mounted' = IF v \in mounted THEN mounted \ {v} ELSE mounted \cup {v}
    /\ UNCHANGED <<array, spare, pv, lv, fs, entries, lock, fin, plan, sampler, bounds>>

\* MUTANT: the lock is a file that its owner's death leaves behind.
DieLocked(p) ==
    /\ plan[p].at # "idle" \/ fin[p].at # "idle"
    /\ plan' = [plan EXCEPT ![p] = IdlePlan]
    /\ fin' = [fin EXCEPT ![p] = IdleFin]
    /\ UNCHANGED lock
    /\ Fault
    /\ UNCHANGED <<host, entries, sampler, plans>>

\* A process dies: its plan and its finisher stop where they are, and the kernel
\* drops its lock.
Die(p) ==
    /\ plan[p].at # "idle" \/ fin[p].at # "idle"
    /\ plan' = [plan EXCEPT ![p] = IdlePlan]
    /\ fin' = [fin EXCEPT ![p] = IdleFin]
    /\ lock' = IF lock = p THEN Nothing ELSE lock
    /\ Fault
    /\ UNCHANGED <<host, entries, sampler, plans>>

Reboot ==
    /\ \E v \in Volumes : array[v].at = "sync"
    /\ array' = [v \in Volumes |-> IF array[v].at = "sync"
                                   THEN [array[v] EXCEPT !.at = "paused"] ELSE array[v]]
    /\ plan' = [p \in Procs |-> IdlePlan]
    /\ fin' = [p \in Procs |-> IdleFin]
    /\ lock' = Nothing
    /\ samp' = IdleSamp
    /\ Fault
    /\ UNCHANGED <<spare, pv, lv, fs, mounted, entries, alert, plans>>

----------------------------------------------------------------------------
Modes == DOMAIN FirstStep

GrowthInit ==
    /\ array = [v \in Volumes |-> [size |-> 1, next |-> 1, at |-> "idle"]]
    /\ spare = {}
    /\ pv = [v \in Volumes |-> 1]
    /\ lv = [v \in Volumes |-> 1]
    /\ fs = [v \in Volumes |-> 1]
    /\ mounted = Volumes
    /\ entries = [v \in Volumes |-> NoEntry]
    /\ lock = Nothing
    /\ fin = [p \in Procs |-> IdleFin]
    /\ plan = [p \in Procs |-> IdlePlan]
    /\ samp = IdleSamp
    /\ alert = [v \in Volumes |-> "none"]
    /\ plans = 0
    /\ faults = 0

PlanStep(p) ==
    PlanAdd(p) \/ PlanGrow(p) \/ PlanRecord(p) \/ PlanExtend(p) \/ PlanFs(p) \/ PlanFails(p)

FinStep(p) ==
    \/ FinTake(p) \/ FinPv(p) \/ FinLv(p) \/ FinLvSkipped(p) \/ FinLook(p) \/ FinFs(p)
    \/ FinFails(p) \/ FinWrite(p) \/ FinEnd(p)

SampStep == SampRead \/ SampAck \/ SampReconcile

GrowthNext ==
    \/ \E p \in Procs :
          \/ \E v \in Volumes, mode \in Modes : BuildPlan(p, v, mode)
          \/ PlanStep(p)
          \/ FinStart(p) \/ FinStep(p)
          \/ Die(p)
    \/ \E v \in Volumes : Retry(v) \/ SyncEnds(v) \/ SyncResumes(v) \/ Remount(v)
    \/ SampStep \/ SampDies
    \/ Reboot

GrowthSpec == GrowthInit /\ [][GrowthNext]_growthVars

\* The worker's tick comes every minute, the sampler's every five, a plan or a
\* finisher that started goes on, and an array at work ends its sync, after a
\* reboot too.
GrowthFairSpec ==
    /\ GrowthSpec
    /\ WF_growthVars(FinStart(Worker)) /\ WF_growthVars(SampStep)
    /\ \A p \in Procs : WF_growthVars(PlanStep(p)) /\ WF_growthVars(FinStep(p))
    /\ \A v \in Volumes : WF_growthVars(SyncEnds(v)) /\ WF_growthVars(SyncResumes(v))

----------------------------------------------------------------------------
(* Properties. *)

\* TYPE: every variable holds a value the program can give it.
GrowthTypeOK ==
    /\ array \in [Volumes -> [size : Sizes, next : Sizes, at : {"idle", "sync", "paused"}]]
    /\ spare \in SUBSET Volumes
    /\ pv \in [Volumes -> Sizes] /\ lv \in [Volumes -> Sizes] /\ fs \in [Volumes -> Sizes]
    /\ mounted \in SUBSET Volumes
    /\ entries \in [Volumes -> [phase : {"none", "reshape", "done", "failed"},
                                old : 0 .. MaxSize, announced : BOOLEAN]]
    /\ lock \in Procs \cup {Nothing}
    /\ fin \in [Procs -> [at : {"idle", "next", "pv", "lv", "look", "fs", "write"},
                          todo : SUBSET Volumes, load : [Volumes -> 0 .. MaxSize],
                          vol : Volumes \cup {Nothing}, mnt : BOOLEAN, ok : BOOLEAN,
                          blind : BOOLEAN]]
    /\ plan \in [Procs -> [at : {"idle", "add", "grow", "record", "extend", "fs"},
                           vol : Volumes \cup {Nothing}, mode : Modes \cup {"none"},
                           old : 0 .. MaxSize, mnt : BOOLEAN]]
    /\ samp \in [at : {"idle", "ack"}, found : [Volumes -> {"none", "info", "warning"}],
                 checked : SUBSET Volumes, acks : SUBSET Volumes]
    /\ alert \in [Volumes -> {"none", "info", "warning"}]
    /\ plans \in 0 .. MaxPlans
    /\ faults \in 0 .. MaxFaults

\* A recorded expansion comes to its end, done or failed: no death, reboot, lock
\* left behind or plan applied meanwhile makes it wait for ever.
RecordedEnds ==
    \A v \in Volumes : (entries[v].phase = "reshape") ~> (entries[v].phase # "reshape")

\* A failed expansion is warned about until someone retries it, whatever the
\* alert of an earlier expansion of the volume says, and though the check that
\* reads it may end before it writes.
FailureWarned ==
    \A v \in Volumes :
       (entries[v].phase = "failed") ~> (alert[v] = "warning" \/ entries[v].phase # "failed")

\* A finisher calls an expansion done only once the filesystem is larger than
\* the array was before the growth the finisher took, whatever a plan, a retry, a
\* remount or the other process's finisher did since it looked; or it could not see the
\* free space of the group, and calls an expansion done that gave the volume nothing.
FinisherGrows ==
    [][\A v \in Volumes :
          entries[v].phase # "done" /\ entries'[v].phase = "done" =>
              \E p \in Procs : /\ fin[p].vol = v
                               /\ fin[p].blind \/ fs[v] > fin[p].load[v]]_growthVars

\* "Once an array's reshape or resync is over, the volume on it takes the new
\* space" (expansions.go:16-17): an expansion shown as done gave the filesystem
\* more than its array had before.
DoneGrown ==
    \A v \in Volumes : entries[v].phase = "done" => fs[v] > entries[v].old
=============================================================================
