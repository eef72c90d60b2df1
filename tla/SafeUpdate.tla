----------------------------- MODULE SafeUpdate -----------------------------
(***************************************************************************)
(* A release update of HSI: the installer (scripts/install.sh), the        *)
(* commands of the worker it calls (`hsi-worker update ...`,               *)
(* apps/root-worker/update_*.go), the recovery a starting worker launches, *)
(* the installer's own recovery, and the rollback an administrator types,  *)
(* over the disk state they share.                                         *)
(*                                                                         *)
(* Rules of the code this module keeps:                                    *)
(*  - whoever changes the installation holds the flock of update.lock; it  *)
(*    is freed when its processes die;                                     *)
(*  - the snapshot is complete before the in-progress marker names it, and *)
(*    the marker goes only after the outcome has been recorded, or its     *)
(*    write has failed;                                                    *)
(*  - from the marker on, every failure rolls back; a rollback runs once.  *)
(***************************************************************************)
EXTENDS Naturals, FiniteSets, TLC

CONSTANTS
    MaxVersion,   \* releases are 1 .. MaxVersion, newer is larger
    Files,        \* the configuration, unit and Compose files an update rewrites
    Keep,         \* updateKeep: other releases and snapshots retained
    MaxTries,     \* bound: installer runs and manual rollbacks
    MaxFaults,    \* bound: power cuts, killed installers, results that cannot be written
    Downgrade,    \* whether an older version may be asked for
    CutManual     \* whether the power may fail during a manual rollback

ASSUME SafeUpdateAssumption ==
    /\ MaxVersion \in Nat \ {0}
    /\ IsFiniteSet(Files)
    /\ Keep \in Nat \ {0}
    /\ MaxTries \in Nat
    /\ MaxFaults \in Nat
    /\ Downgrade \in BOOLEAN
    /\ CutManual \in BOOLEAN

Version == 1 .. MaxVersion

\* The processes that may roll back: the installer (holding the lock for its
\* child), the transient unit of a starting worker, the `update recover` a new
\* installer runs first, and `update rollback` typed by the administrator.
Roller == {"installer", "unit", "child", "manual"}

None == "none"

VARIABLES
    current,      \* the release the link `current` leads to
    releases,     \* releases/<version> on disk
    db,           \* database file: schema version (0: neither), and whether
                  \* committed data are still only in its WAL
    wal,          \* "none", the WAL of this database file, or a foreign one
    aside,        \* the WAL a running rollback renamed to .hsi-old
    files,        \* version each configuration file was written for
    snaps,        \* complete snapshots (those with a manifest)
    marker,       \* in-progress.json; step "none" when there is no such file
    last,         \* last.json
    results,      \* statuses found in results.jsonl
    lost,         \* history: results that did not reach last.json, and when
    clock,        \* time of the newest snapshot or result
    lock,         \* holder of update.lock
    stack,        \* version the services run, 0 when they are down
    checking,     \* a worker started and has not run recoverInterrupted yet
    powered,      \* FALSE between a power cut and the boot
    inst,         \* the installer: step, target, previous version, files to write
    roll,         \* each roller: step, snapshot, error seen, files to restore
    tries, crashes

disk    == <<current, releases, db, wal, aside, files, snaps>>
record  == <<marker, last, results, lost, clock>>
machine == <<stack, checking, powered>>
bounds  == <<tries, crashes>>
vars == <<disk, record, lock, machine, inst, roll, bounds>>

NoMarker == [from |-> 0, to |-> 0, step |-> "none", since |-> 0]
NoResult == [status |-> "none", from |-> 0, to |-> 0, at |-> 0]
IdleInst == [pc |-> "idle", to |-> 0, from |-> 0, todo |-> {}]
IdleRoll == [pc |-> "idle", from |-> 0, to |-> 0, err |-> FALSE, todo |-> {}]

Marked == marker.step # "none"

------------------------------------------------------------------------------
(* Snapshots and retention *)

TargetsOf(S, v) == {s \in S : s.to = v /\ s.from # v}

\* latestSnapshotFor: at most one snapshot (no two share their time), the one
\* `update rollback` goes to.
LatestFor(S, v) == {s \in TargetsOf(S, v) : \A t \in TargetsOf(S, v) : t.at <= s.at}

SnapsOf(from, to) == {s \in snaps : s.from = from /\ s.to = to}

\* pruneReleases: current, the rollback target, and the Keep newest others.
KeptReleases(cur, rels, S) ==
    {v \in rels : \/ v = cur
                  \/ \E s \in LatestFor(S, cur) : s.from = v
                  \/ Cardinality({u \in rels \ {cur} : u > v}) < Keep}

\* pruneSnapshots: the rollback target, then the newest others whose release is
\* still there, up to Keep in all.
KeptSnaps(cur, rels, S) ==
    LET target == LatestFor(S, cur)
        usable == {s \in S \ target : s.from \in rels}
    IN target \cup
       {s \in usable :
           Cardinality({t \in usable : t.at > s.at}) + Cardinality(target) < Keep}

PruneUpdateState ==
    LET rels == KeptReleases(current, releases, snaps)
    IN /\ releases' = rels
       /\ snaps' = KeptSnaps(current, rels, snaps)

------------------------------------------------------------------------------
(* The database as SQLite sees it, and the services on top *)

\* Opening a database whose committed data are in a WAL that is gone, or next to
\* the WAL of another file, leaves neither version's data.
OpenedDb(d, w) ==
    IF w = "foreign" \/ (d.pending /\ w = None) THEN [ver |-> 0, pending |-> FALSE] ELSE d

OpenedWal(w) == IF w = "foreign" THEN None ELSE w

OpenDatabase ==
    /\ db' = OpenedDb(db, wal)
    /\ wal' = OpenedWal(wal)

\* The services of the release `current` leads to start; the worker among them
\* has its recovery check to run.
StartStack ==
    /\ stack' = current
    /\ checking' = TRUE
    /\ OpenDatabase

\* A clean stop checkpoints the WAL into the file; a killed server leaves it.
StopStack ==
    /\ stack' = 0
    /\ checking' = FALSE
    /\ IF stack = 0
       THEN UNCHANGED <<db, wal>>
       ELSE \/ UNCHANGED <<db, wal>>
            \/ db' = [db EXCEPT !.pending = FALSE] /\ wal' = None

\* The running server commits a transaction to the WAL.
ServerWrites ==
    /\ stack # 0
    /\ ~db.pending
    /\ db' = [db EXCEPT !.pending = TRUE]
    /\ wal' = "own"
    /\ UNCHANGED <<current, releases, aside, files, snaps, record, lock, machine,
                   inst, roll, bounds>>

------------------------------------------------------------------------------
(* Results and the marker *)

Faults == crashes + Cardinality(lost)

\* writeLast: each result is later than the previous one.
WriteLast(status, from, to) ==
    /\ last' = [status |-> status, from |-> from, to |-> to, at |-> clock + 1]
    /\ results' = results \cup {status}
    /\ clock' = clock + 1
    /\ UNCHANGED lost

\* writeLast on a full disk: results.jsonl is written first, then last.json; either
\* write may be the one that fails.
FailLast(status) ==
    /\ Faults < MaxFaults
    /\ lost' = lost \cup {[status |-> status, at |-> clock + 1]}
    /\ results' \in {results, results \cup {status}}
    /\ clock' = clock + 1
    /\ UNCHANGED last

ClearInProgress == marker' = NoMarker

Free(who) == lock' = IF lock = who THEN None ELSE lock

InstGoto(pc) == inst' = [inst EXCEPT !.pc = pc]
RollGoto(r, pc) == roll' = [roll EXCEPT ![r].pc = pc]

------------------------------------------------------------------------------
(* The installer *)

\* `exec 9>>update.lock; flock -n 9 || die`, for a release verified before.
InstLock(v) ==
    /\ powered /\ inst.pc = "idle" /\ roll["installer"].pc = "idle"
    /\ tries < MaxTries
    /\ Downgrade \/ v >= current
    /\ lock = None
    /\ lock' = "installer"
    /\ inst' = [IdleInst EXCEPT !.pc = "locked", !.to = v]
    /\ tries' = tries + 1
    /\ UNCHANGED <<disk, record, machine, roll, crashes>>

\* A marker is there: the lock is given up to `update recover`, which takes it.
InstRecoverFirst ==
    /\ inst.pc = "locked" /\ Marked
    /\ Free("installer")
    /\ InstGoto("awaitRecover")
    /\ RollGoto("child", "recover")
    /\ UNCHANGED <<disk, record, machine, bounds>>

\* Mutant: the installer goes on without taking the lock again.
InstRecoveredUnlocked ==
    /\ inst.pc = "awaitRecover" /\ roll["child"].pc = "idle"
    /\ IF ~Marked /\ last.status = "rolled-back"
       THEN InstGoto("recovered")
       ELSE inst' = IdleInst
    /\ UNCHANGED <<disk, record, lock, machine, roll, bounds>>

\* recover_interrupted_update goes on only when the marker is gone and the last
\* result is a rollback; the lock is then taken again or the installer dies.
InstRecovered ==
    /\ inst.pc = "awaitRecover" /\ roll["child"].pc = "idle"
    /\ IF ~Marked /\ last.status = "rolled-back" /\ lock = None
       THEN /\ InstGoto("recovered")
            /\ lock' = "installer"
       ELSE /\ inst' = IdleInst
            /\ UNCHANGED lock
    /\ UNCHANGED <<disk, record, machine, roll, bounds>>

\* The services stop; resolve_installed reads the version to go back to.
InstStop ==
    /\ inst.pc = "recovered" \/ (inst.pc = "locked" /\ ~Marked)
    /\ StopStack
    /\ inst' = [inst EXCEPT !.pc = IF inst.to = current THEN "repair" ELSE "stopped",
                            !.from = current]
    /\ UNCHANGED <<current, releases, aside, files, snaps, record, lock, powered,
                   roll, bounds>>

\* Reinstalling the current version: its files, settings and migrations are put
\* back as they are, without snapshot or marker, and recorded as a result if it can be.
InstRepair ==
    /\ inst.pc = "repair"
    /\ db.ver = inst.to
    /\ files' = [f \in Files |-> inst.to]
    /\ StartStack
    /\ \/ WriteLast("success", inst.to, inst.to) /\ PruneUpdateState
       \/ FailLast("success") /\ UNCHANGED <<releases, snaps>>
    /\ Free("installer")
    /\ inst' = IdleInst
    /\ UNCHANGED <<current, aside, marker, powered, roll, bounds>>

\* takeSnapshot, first half: an older snapshot of the same pair is removed.
InstSnapshotClear ==
    /\ inst.pc = "stopped"
    /\ snaps' = snaps \ SnapsOf(inst.from, inst.to)
    /\ InstGoto("snapshotting")
    /\ UNCHANGED <<current, releases, db, wal, aside, files, record, lock, machine,
                   roll, bounds>>

\* takeSnapshot: database, WAL and files copied, the manifest written last.
Snapshot ==
    [from |-> inst.from, to |-> inst.to, db |-> db, wal |-> wal, files |-> files,
     at |-> clock + 1]

InstSnapshot ==
    /\ inst.pc = "snapshotting"
    /\ snaps' = snaps \cup {Snapshot}
    /\ clock' = clock + 1
    /\ InstGoto("snapped")
    /\ UNCHANGED <<current, releases, db, wal, aside, files, marker, last, results, lost,
                   lock, machine, roll, bounds>>

\* Mutant: the update is marked before its snapshot is taken.
InstMarkEarly ==
    /\ inst.pc = "stopped"
    /\ marker' = [from |-> inst.from, to |-> inst.to, step |-> "update", since |-> clock]
    /\ InstGoto("marked")
    /\ UNCHANGED <<disk, last, results, lost, clock, lock, machine, roll, bounds>>

\* mark_update install: from here every failure rolls back.
InstMark ==
    /\ inst.pc = "snapped"
    /\ marker' = [from |-> inst.from, to |-> inst.to, step |-> "update", since |-> clock]
    /\ InstGoto("marked")
    /\ UNCHANGED <<disk, last, results, lost, clock, lock, machine, roll, bounds>>

\* install_release_dir: a previous copy of the release is removed first.
InstReleaseClear ==
    /\ inst.pc = "marked"
    /\ releases' = releases \ {inst.to}
    /\ InstGoto("installing")
    /\ UNCHANGED <<current, db, wal, aside, files, snaps, record, lock, machine, roll,
                   bounds>>

InstRelease ==
    /\ inst.pc = "installing"
    /\ releases' = releases \cup {inst.to}
    /\ InstGoto("installed")
    /\ UNCHANGED <<current, db, wal, aside, files, snaps, record, lock, machine, roll,
                   bounds>>

\* The preflight accepts the database; conversions and migrations begin to write
\* it, with SQLite's own journal.
InstMigrate ==
    /\ inst.pc = "installed"
    /\ OpenedDb(db, wal).ver # 0
    /\ db' = [ver |-> 0, pending |-> TRUE]
    /\ wal' = "own"
    /\ InstGoto("migrating")
    /\ UNCHANGED <<current, releases, aside, files, snaps, record, lock, machine, roll,
                   bounds>>

InstMigrated ==
    /\ inst.pc = "migrating"
    /\ \/ db' = [ver |-> inst.to, pending |-> FALSE] /\ wal' = None
       \/ db' = [ver |-> inst.to, pending |-> TRUE] /\ wal' = "own"
    /\ inst' = [inst EXCEPT !.pc = "configuring", !.todo = Files]
    /\ UNCHANGED <<current, releases, aside, files, snaps, record, lock, machine, roll,
                   bounds>>

\* Compose files, .env, NATS configuration, worker.env and units, one by one.
InstConfigure(f) ==
    /\ inst.pc = "configuring" /\ f \in inst.todo
    /\ files' = [files EXCEPT ![f] = inst.to]
    /\ inst' = [inst EXCEPT !.todo = @ \ {f}]
    /\ UNCHANGED <<current, releases, db, wal, aside, snaps, record, lock, machine,
                   roll, bounds>>

\* current is renamed over, so it always leads to an installed release.
InstSwitch ==
    /\ inst.pc = "configuring" /\ inst.todo = {}
    /\ current = inst.from /\ inst.to \in releases
    /\ current' = inst.to
    /\ InstGoto("switched")
    /\ UNCHANGED <<releases, db, wal, aside, files, snaps, record, lock, machine, roll,
                   bounds>>

InstStart ==
    /\ inst.pc = "switched"
    /\ StartStack
    /\ InstGoto("started")
    /\ UNCHANGED <<current, releases, aside, files, snaps, record, lock, powered, roll,
                   bounds>>

\* The health gate: version, database and worker answer.
Healthy(v) == stack = v /\ db.ver = v

\* Mutant: the marker of a success goes without a result.
InstCommitSilent ==
    /\ inst.pc = "started"
    /\ Healthy(inst.to)
    /\ InstGoto("recorded")
    /\ UNCHANGED <<disk, record, lock, machine, roll, bounds>>

\* commit: checkCommit, then the result, then the marker, then the retention.
InstCommit ==
    /\ inst.pc = "started"
    /\ Healthy(inst.to)
    /\ marker.from = inst.from /\ marker.to = inst.to
    /\ WriteLast("success", inst.from, inst.to)
    /\ InstGoto("recorded")
    /\ UNCHANGED <<disk, marker, lock, machine, roll, bounds>>

InstClear ==
    /\ inst.pc = "recorded"
    /\ ClearInProgress
    /\ InstGoto("cleared")
    /\ UNCHANGED <<disk, last, results, lost, clock, lock, machine, roll, bounds>>

InstFinish ==
    /\ inst.pc = "cleared"
    /\ PruneUpdateState
    /\ Free("installer")
    /\ inst' = IdleInst
    /\ UNCHANGED <<current, db, wal, aside, files, record, machine, roll, bounds>>

BeforeMark == {"stopped", "repair", "snapshotting", "snapped"}
AfterMark  == {"marked", "installing", "installed", "migrating", "configuring",
               "switched", "started"}

\* cleanup_install_exit before the snapshot is marked: nothing to undo, the
\* services of the previous version start again.
InstAbandon ==
    /\ inst.pc \in BeforeMark
    /\ StartStack
    /\ Free("installer")
    /\ inst' = IdleInst
    /\ UNCHANGED <<current, releases, aside, files, snaps, record, powered, roll, bounds>>

\* The installer dies before stopping anything, for want of disk, network, ...
InstGiveUp ==
    /\ inst.pc \in {"locked", "recovered"}
    /\ Free("installer")
    /\ inst' = IdleInst
    /\ UNCHANGED <<disk, record, machine, roll, bounds>>

\* cleanup_install_exit once marked, a failed health gate, or a commit that could not
\* be recorded: rollback_update, under the installer's lock.
InstFail ==
    /\ inst.pc \in AfterMark
    /\ \/ UNCHANGED <<last, results, lost, clock>>
       \/ inst.pc = "started" /\ Healthy(inst.to) /\ FailLast("success")
    /\ InstGoto("rolling")
    /\ roll' = [roll EXCEPT !["installer"] =
                   [pc |-> "stop", from |-> inst.from, to |-> inst.to,
                    err |-> FALSE, todo |-> Files]]
    /\ UNCHANGED <<disk, marker, lock, machine, bounds>>

------------------------------------------------------------------------------
(* Who rolls back, and when *)


\* recoverInterrupted at worker start: a marker and a free lock launch the
\* transient unit (systemd refuses a second one of its name).
WorkerCheck ==
    /\ checking
    /\ checking' = FALSE
    /\ IF Marked /\ lock = None /\ roll["unit"].pc = "idle"
       THEN RollGoto("unit", "recover")
       ELSE UNCHANGED roll
    /\ UNCHANGED <<disk, record, lock, stack, powered, inst, bounds>>

\* systemd restarts a worker that died.
WorkerRestart ==
    /\ stack # 0 /\ ~checking
    /\ checking' = TRUE
    /\ UNCHANGED <<disk, record, lock, stack, powered, inst, roll, bounds>>

\* recoverUpdate: the lock, then the marker again. A marker already at
\* "recovering" is an interrupted recovery: reported, not retried.
RecoverUpdate(r) ==
    /\ roll[r].pc = "recover"
    /\ \/ /\ lock # None \/ ~Marked
          /\ roll' = [roll EXCEPT ![r] = IdleRoll]
          /\ UNCHANGED <<marker, lock>>
       \/ /\ lock = None /\ Marked
          /\ lock' = r
          /\ marker' = [marker EXCEPT !.step = "recovering"]
          /\ roll' = [roll EXCEPT ![r] =
                         [pc |-> IF marker.step = "recovering" THEN "failRecord" ELSE "stop",
                          from |-> marker.from, to |-> marker.to,
                          err |-> FALSE, todo |-> Files]]
    /\ UNCHANGED <<disk, last, results, lost, clock, machine, inst, bounds>>

\* `update rollback`: the snapshot (the newest for the current version, or the
\* one named with --snapshot) is chosen before the lock is taken.
ManualPick(s) ==
    /\ powered /\ roll["manual"].pc = "idle"
    /\ tries < MaxTries
    /\ s \in snaps
    /\ roll' = [roll EXCEPT !["manual"] =
                   [pc |-> "picked", from |-> s.from, to |-> s.to,
                    err |-> FALSE, todo |-> Files]]
    /\ tries' = tries + 1
    /\ UNCHANGED <<disk, record, lock, machine, inst, crashes>>

\* The lock is taken without waiting, and held while the question is on screen.
ManualLock ==
    /\ roll["manual"].pc = "picked"
    /\ IF lock = None
       THEN /\ lock' = "manual"
            /\ RollGoto("manual", "confirm")
       ELSE /\ roll' = [roll EXCEPT !["manual"] = IdleRoll]
            /\ UNCHANGED lock
    /\ UNCHANGED <<disk, record, machine, inst, bounds>>

\* The administrator types the version (or gave --yes): rollback reads the
\* manifest again. Anything else changes nothing.
ManualAnswer ==
    /\ roll["manual"].pc = "confirm"
    /\ \/ /\ RollGoto("manual",
                      IF SnapsOf(roll["manual"].from, roll["manual"].to) = {}
                      THEN "failRecord" ELSE "stop")
          /\ UNCHANGED lock
       \/ /\ roll' = [roll EXCEPT !["manual"] = IdleRoll]
          /\ lock' = None
    /\ UNCHANGED <<disk, record, machine, inst, bounds>>

------------------------------------------------------------------------------
(* rollback, whoever runs it *)

At(r, pc) == roll[r].pc = pc
TheSnap(r) == CHOOSE s \in SnapsOf(roll[r].from, roll[r].to) : TRUE

\* A step that fails leaves what it works on as it was; unless it only notes the
\* error, the failure is recorded next and nothing more is restored.
RollFail(r) ==
    /\ roll[r].pc \in {"stop", "switch", "start", "health"}
    /\ RollGoto(r, "failRecord")
    /\ UNCHANGED <<disk, record, lock, machine, inst, bounds>>

\* Mutant: the marker goes when the rollback begins.
RollStopUnmarks(r) ==
    /\ At(r, "stop")
    /\ StopStack
    /\ ClearInProgress
    /\ RollGoto(r, "switch")
    /\ UNCHANGED <<current, releases, aside, files, snaps, last, results, lost, clock, lock,
                   powered, inst, bounds>>

RollStop(r) ==
    /\ At(r, "stop")
    /\ StopStack
    /\ RollGoto(r, "switch")
    /\ UNCHANGED <<current, releases, aside, files, snaps, record, lock, powered, inst,
                   bounds>>

RollSwitch(r) ==
    /\ At(r, "switch")
    /\ roll[r].from \in releases
    /\ current' = roll[r].from
    /\ RollGoto(r, "stage")
    /\ UNCHANGED <<releases, db, wal, aside, files, snaps, record, lock, machine, inst,
                   bounds>>

\* Mutant: the database is renamed before the journals are set aside.
RollSetNothingAside(r) ==
    /\ At(r, "stage")
    /\ RollGoto(r, "rename")
    /\ UNCHANGED <<disk, record, lock, machine, inst, bounds>>

\* restoreDatabase stages its copies, then sets the live journals aside; a failure
\* of either keeps the live database, and the files are restored all the same.
RollSetAside(r) ==
    /\ At(r, "stage")
    /\ aside' = wal
    /\ wal' = None
    /\ RollGoto(r, "rename")
    /\ UNCHANGED <<current, releases, db, files, snaps, record, lock, machine, inst,
                   bounds>>

RollNotStaged(r) ==
    /\ At(r, "stage")
    /\ roll' = [roll EXCEPT ![r].pc = "files", ![r].err = TRUE]
    /\ UNCHANGED <<disk, record, lock, machine, inst, bounds>>

\* A WAL beside a database file just renamed into place is not that file's.
RollRename(r) ==
    /\ At(r, "rename")
    /\ db' = TheSnap(r).db
    /\ wal' = IF wal = None THEN None ELSE "foreign"
    /\ RollGoto(r, "walIn")
    /\ UNCHANGED <<current, releases, aside, files, snaps, record, lock, machine, inst,
                   bounds>>

\* putBack: the database could not be renamed, its journals return.
RollPutBack(r) ==
    /\ At(r, "rename")
    /\ wal' = aside
    /\ aside' = None
    /\ roll' = [roll EXCEPT ![r].pc = "files", ![r].err = TRUE]
    /\ UNCHANGED <<current, releases, db, files, snaps, record, lock, machine, inst,
                   bounds>>

\* The journals set aside are removed, then the WAL of the snapshot renamed in,
\* if it has one.
RollWalIn(r) ==
    /\ At(r, "walIn")
    /\ aside' = None
    /\ \/ /\ wal' = IF TheSnap(r).wal = None THEN wal ELSE "own"
          /\ RollGoto(r, "files")
       \/ /\ TheSnap(r).wal # None
          /\ roll' = [roll EXCEPT ![r].pc = "files", ![r].err = TRUE]
          /\ UNCHANGED wal
    /\ UNCHANGED <<current, releases, db, files, snaps, record, lock, machine, inst,
                   bounds>>

\* restoreFiles: each file in turn; one that fails does not stop the others.
RollFile(r, f) ==
    /\ At(r, "files") /\ f \in roll[r].todo
    /\ \/ /\ files' = [files EXCEPT ![f] = TheSnap(r).files[f]]
          /\ roll' = [roll EXCEPT ![r].todo = @ \ {f}]
       \/ /\ roll' = [roll EXCEPT ![r].todo = @ \ {f}, ![r].err = TRUE]
          /\ UNCHANGED files
    /\ UNCHANGED <<current, releases, db, wal, aside, snaps, record, lock, machine, inst,
                   bounds>>

\* Mutant: the stack is started whatever was not restored.
RollFilesDoneAnyway(r) ==
    /\ At(r, "files") /\ roll[r].todo = {}
    /\ RollGoto(r, "start")
    /\ UNCHANGED <<disk, record, lock, machine, inst, bounds>>

RollFilesDone(r) ==
    /\ At(r, "files") /\ roll[r].todo = {}
    /\ RollGoto(r, IF roll[r].err THEN "failRecord" ELSE "start")
    /\ UNCHANGED <<disk, record, lock, machine, inst, bounds>>

RollStart(r) ==
    /\ At(r, "start")
    /\ StartStack
    /\ RollGoto(r, "health")
    /\ UNCHANGED <<current, releases, aside, files, snaps, record, lock, powered, inst,
                   bounds>>

\* removeFailedRelease, unless it is current or another snapshot goes back to it.
RollHealthy(r) ==
    /\ At(r, "health")
    /\ Healthy(roll[r].from)
    /\ releases' = IF \/ roll[r].to = current
                      \/ \E s \in snaps : s.from = roll[r].to
                   THEN releases ELSE releases \ {roll[r].to}
    /\ RollGoto(r, "record")
    /\ UNCHANGED <<current, db, wal, aside, files, snaps, record, lock, machine, inst,
                   bounds>>

\* A result that cannot be written stops neither the marker's removal nor the rest.
RollRecord(r) ==
    /\ \/ /\ At(r, "record")
          /\ \/ WriteLast("rolled-back", roll[r].from, roll[r].to)
             \/ FailLast("rolled-back")
          /\ RollGoto(r, "clear")
       \/ /\ At(r, "failRecord")
          /\ \/ WriteLast("rollback-failed", roll[r].from, roll[r].to)
             \/ FailLast("rollback-failed")
          /\ RollGoto(r, "failClear")
    /\ UNCHANGED <<disk, marker, lock, machine, inst, bounds>>

RollClear(r) ==
    /\ At(r, "clear")
    /\ ClearInProgress
    /\ RollGoto(r, "prune")
    /\ UNCHANGED <<disk, last, results, lost, clock, lock, machine, inst, bounds>>

\* Mutant: the lock is not given back.
RollEndLocked(r) ==
    /\ roll' = [roll EXCEPT ![r] = IdleRoll]
    /\ inst' = IF r = "installer" THEN IdleInst ELSE inst
    /\ UNCHANGED lock

\* The lock goes with the process; the installer that waited ends with its child.
RollEnd(r) ==
    /\ Free(r)
    /\ roll' = [roll EXCEPT ![r] = IdleRoll]
    /\ inst' = IF r = "installer" THEN IdleInst ELSE inst

RollPrune(r) ==
    /\ At(r, "prune")
    /\ PruneUpdateState
    /\ RollEnd(r)
    /\ UNCHANGED <<current, db, wal, aside, files, record, machine, bounds>>

RollFailed(r) ==
    /\ At(r, "failClear")
    /\ ClearInProgress
    /\ RollEnd(r)
    /\ UNCHANGED <<disk, last, results, lost, clock, machine, bounds>>

------------------------------------------------------------------------------
(* Crashes *)

\* Every process dies; what was renamed into place stays.
PowerCut ==
    /\ powered /\ Faults < MaxFaults
    /\ CutManual \/ roll["manual"].pc \in {"idle", "picked", "confirm"}
    /\ powered' = FALSE
    /\ stack' = 0
    /\ checking' = FALSE
    /\ lock' = None
    /\ inst' = IdleInst
    /\ roll' = [r \in Roller |-> IdleRoll]
    /\ aside' = None
    /\ crashes' = crashes + 1
    /\ UNCHANGED <<current, releases, db, wal, files, snaps, record, tries>>

\* The target is enabled: the services start at boot, from whatever is there.
Boot ==
    /\ ~powered
    /\ powered' = TRUE
    /\ StartStack
    /\ UNCHANGED <<current, releases, aside, files, snaps, record, lock, inst, roll,
                   bounds>>

\* The installer is killed without running its exit handler. A child that rolls
\* back for it inherited the lock and goes on.
KillInstaller ==
    /\ inst.pc # "idle" /\ Faults < MaxFaults
    /\ IF inst.pc = "rolling" THEN UNCHANGED lock ELSE Free("installer")
    /\ inst' = IdleInst
    /\ crashes' = crashes + 1
    /\ UNCHANGED <<disk, record, machine, roll, tries>>

------------------------------------------------------------------------------
Init ==
    /\ current = 1
    /\ releases = {1}
    /\ db = [ver |-> 1, pending |-> FALSE]
    /\ wal = None
    /\ aside = None
    /\ files = [f \in Files |-> 1]
    /\ snaps = {}
    /\ marker = NoMarker
    /\ last = NoResult
    /\ results = {}
    /\ lost = {}
    /\ clock = 0
    /\ lock = None
    /\ stack = 1
    /\ checking = TRUE
    /\ powered = TRUE
    /\ inst = IdleInst
    /\ roll = [r \in Roller |-> IdleRoll]
    /\ tries = 0
    /\ crashes = 0

InstStep ==
    \/ InstRecoverFirst \/ InstRecovered \/ InstStop \/ InstRepair
    \/ InstSnapshotClear \/ InstSnapshot \/ InstMark \/ InstReleaseClear
    \/ InstRelease \/ InstMigrate \/ InstMigrated
    \/ \E f \in Files : InstConfigure(f)
    \/ InstSwitch \/ InstStart \/ InstCommit \/ InstClear \/ InstFinish
    \/ InstAbandon \/ InstGiveUp \/ InstFail

RollStep(r) ==
    \/ RollFail(r) \/ RollStop(r) \/ RollSwitch(r) \/ RollSetAside(r)
    \/ RollNotStaged(r) \/ RollRename(r) \/ RollPutBack(r) \/ RollWalIn(r)
    \/ \E f \in Files : RollFile(r, f)
    \/ RollFilesDone(r) \/ RollStart(r) \/ RollHealthy(r) \/ RollRecord(r)
    \/ RollClear(r) \/ RollPrune(r) \/ RollFailed(r)

Next ==
    \/ \E v \in Version : InstLock(v)
    \/ InstStep
    \/ WorkerCheck \/ WorkerRestart
    \/ \E r \in {"unit", "child"} : RecoverUpdate(r)
    \/ \E s \in snaps : ManualPick(s)
    \/ ManualLock \/ ManualAnswer
    \/ \E r \in Roller : RollStep(r)
    \/ ServerWrites
    \/ PowerCut \/ Boot \/ KillInstaller

Spec == Init /\ [][Next]_vars

------------------------------------------------------------------------------
(* Fairness: a live process takes its next step, and a machine without power  *)
(* gets it back. Nobody has to ask for an update, a rollback or a crash.      *)
Fairness ==
    /\ WF_vars(InstStep) /\ WF_vars(WorkerCheck) /\ WF_vars(Boot)
    /\ WF_vars(ManualLock)
    /\ \A r \in {"unit", "child"} : WF_vars(RecoverUpdate(r))
    /\ \A r \in Roller : WF_vars(RollStep(r))

FairSpec == Spec /\ Fairness

------------------------------------------------------------------------------
(* Properties *)

InstHolds == {"locked", "recovered", "repair", "rolling", "recorded", "cleared"}
             \cup BeforeMark \cup AfterMark
InstPcs == InstHolds \cup {"idle", "awaitRecover"}
RollWaits == {"idle", "recover", "picked"}
RollPcs == RollWaits \cup
    {"confirm", "stop", "switch", "stage", "rename", "walIn", "files", "start", "health",
     "record", "clear", "prune", "failRecord", "failClear"}

DbType == [ver : 0 .. MaxVersion, pending : BOOLEAN]
WalType == {"none", "own", "foreign"}
SnapType == [from : 0 .. MaxVersion, to : 0 .. MaxVersion, db : DbType, wal : WalType,
             files : [Files -> Version], at : Nat]

DiskType ==
    /\ current \in Version
    /\ releases \subseteq Version
    /\ db \in DbType
    /\ wal \in WalType
    /\ aside \in WalType
    /\ files \in [Files -> Version]
    /\ snaps \subseteq SnapType

Statuses == {"success", "rolled-back", "rollback-failed"}

RecordType ==
    /\ marker \in [from : 0 .. MaxVersion, to : 0 .. MaxVersion,
                   step : {"none", "update", "recovering"}, since : Nat]
    /\ last \in [status : {"none", "success", "rolled-back", "rollback-failed"},
                 from : 0 .. MaxVersion, to : 0 .. MaxVersion, at : Nat]
    /\ results \subseteq Statuses
    /\ lost \subseteq [status : Statuses, at : Nat]
    /\ clock \in Nat

MachineType ==
    /\ lock \in Roller \cup {None}
    /\ stack \in 0 .. MaxVersion
    /\ checking \in BOOLEAN
    /\ powered \in BOOLEAN
    /\ tries \in Nat
    /\ crashes \in Nat

InstRec == [pc : InstPcs, to : 0 .. MaxVersion, from : 0 .. MaxVersion,
            todo : SUBSET Files]
RollRec == [pc : RollPcs, from : 0 .. MaxVersion, to : 0 .. MaxVersion,
            err : BOOLEAN, todo : SUBSET Files]

InstType == inst \in InstRec
RollType == roll \in [Roller -> RollRec]

\* Every variable has its type.
TypeOK == DiskType /\ RecordType /\ MachineType /\ InstType /\ RollType

\* Whoever changes the installation holds update.lock, whatever the order in
\* which installer, starting worker and administrator come, and whoever dies.
LockHeld ==
    /\ inst.pc \in InstHolds => lock = "installer"
    /\ \A r \in Roller : roll[r].pc \notin RollWaits => lock = r
    /\ roll["installer"].pc # "idle" => inst.pc \in {"rolling", "idle"}

\* At no instant, power cuts included, does the database lie next to a WAL
\* written for another file, which SQLite would replay over it (restoreDatabase).
NeverMixed == wal # "foreign"

\* The marker only ever names a complete snapshot whose release is installed, and
\* `current` always leads to an installed release: a crash at any step leaves
\* something to boot and something to roll back to.
Recoverable ==
    /\ current \in releases
    /\ Marked => /\ SnapsOf(marker.from, marker.to) # {}
                 /\ marker.from \in releases

Quiet == lock = None /\ ~Marked

WholeVersion ==
    /\ db.ver = current
    /\ db.pending => wal = "own"
    /\ \A f \in Files : files[f] = current

\* A rollback has failed, and said so unless that could not be written.
Broken ==
    \/ "rollback-failed" \in results
    \/ \E l \in lost : l.status = "rollback-failed"

\* With nobody at work, no update in progress and no failed rollback, release,
\* database, WAL and every file belong together.
Coherent == Quiet /\ ~Broken => WholeVersion

\* With nobody at work, what `update rollback` offers can be brought back: false when an
\* update to an earlier release is cut after it removed that release to install it again.
TargetInstalled ==
    Quiet => \A s \in LatestFor(snaps, current) : s.from \in releases

\* `update rollback` "restores the previous code, the database and the configuration
\* files": once nobody is at work and no rollback failed, the services that
\* run are one whole version.
RollbackRestoresAll ==
    Quiet /\ stack # 0 /\ ~Broken => WholeVersion

OutcomeKnown ==
    \/ last.at > marker.since
    \/ \E l \in lost : l.at > marker.since /\ l.status # "success"

\* The marker goes only once a result later than the update's start is in last.json,
\* or the write of a rollback's result has been tried since and failed (rollback,
\* recoverUpdate): a crash leaves marker or result, and a success is never what is lost.
OutcomeRecorded == [][Marked /\ marker' = NoMarker => OutcomeKnown]_vars


\* The update lock is always given back, or an administrator is at the question.
LockReleased == lock # None ~> (lock = None \/ roll["manual"].pc = "confirm")

------------------------------------------------------------------------------
(* The update as its users see it: AtomicUpdate *)

ManualRestores == roll["manual"].pc \notin RollWaits \cup {"confirm"}

phaseMap ==
    IF Broken THEN "broken"
    ELSE IF ManualRestores \/ Marked THEN "changing"
    ELSE IF WholeVersion THEN "stable" ELSE "torn"

goalMap ==
    IF Broken THEN {}
    ELSE IF ManualRestores THEN {roll["manual"].from}
    ELSE IF Marked THEN {marker.from, marker.to}
    ELSE {current}

Atomic == INSTANCE AtomicUpdate WITH phase <- phaseMap, goal <- goalMap

\* Every step of installer, worker and administrator, crashes included, is a step
\* of the atomic update or changes nothing its users see; a state that is neither
\* whole, nor being changed under the marker, nor reported broken has no image.
RefinesAtomicUpdate == Atomic!Spec

==============================================================================
