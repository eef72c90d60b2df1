-------------------------- MODULE SafeUpdateProofs --------------------------
(***************************************************************************)
(* What SafeUpdate guarantees for every number of releases, every set of   *)
(* files and every number of attempts and crashes.  The inductive          *)
(* invariant IInv says, besides the properties themselves, why they hold:  *)
(* the lock makes whoever restores the only one to act, the services stay  *)
(* down while the database is being replaced, and a snapshot outlives the  *)
(* marker and the rollback that need it.                                   *)
(***************************************************************************)
EXTENDS SafeUpdate, TLAPS

Restoring == {"stop", "switch", "stage", "rename", "walIn", "files"}
Down == {"switch", "stage", "rename", "walIn", "files", "start"}
NotSwitched == {"stopped", "snapshotting", "snapped"} \cup (AfterMark \ {"switched", "started"})

\* The installer knows which version it installs and which one it replaces.
InstKnows ==
    /\ inst.pc # "idle" => inst.to \in Version
    /\ inst.pc \in NotSwitched => current = inst.from /\ inst.from # inst.to
    /\ inst.pc \in AfterMark =>
        Marked /\ marker.from = inst.from /\ marker.to = inst.to

\* Retention and a new snapshot only happen without a marker.
Unmarked ==
    /\ inst.pc \in {"recovered", "cleared"} \cup BeforeMark => ~Marked
    /\ \A r \in Roller : roll[r].pc = "prune" => ~Marked

\* The snapshots somebody relies on are there.
SnapReady ==
    /\ inst.pc = "snapped" => SnapsOf(inst.from, inst.to) # {}
    /\ \A r \in Roller : roll[r].pc \in Restoring =>
        SnapsOf(roll[r].from, roll[r].to) # {}

PowerOff ==
    ~powered => /\ inst.pc = "idle" /\ lock = None /\ ~checking /\ stack = 0
                /\ \A r \in Roller : roll[r].pc = "idle"

\* Nothing writes the database while it is replaced.
StackDown == \A r \in Roller : roll[r].pc \in Down => stack = 0

CleanWal ==
    /\ wal # "foreign" /\ aside # "foreign"
    /\ \A s \in snaps : s.wal # "foreign"
    /\ \A r \in Roller : roll[r].pc \in {"rename", "walIn"} => wal = None

Recorded ==
    /\ Marked => marker.since <= clock
    /\ last.at <= clock
    /\ Marked =>
        /\ inst.pc = "recorded" => last.at > marker.since
        /\ \A r \in Roller : roll[r].pc \in {"clear", "failClear"} => OutcomeKnown

\* Why the properties hold, beside the types.
Protocol ==
    /\ LockHeld
    /\ InstKnows
    /\ Unmarked
    /\ SnapReady
    /\ Recoverable
    /\ PowerOff
    /\ StackDown
    /\ CleanWal
    /\ Recorded

IInv == TypeOK /\ Protocol

------------------------------------------------------------------------------
(* What the helpers do *)

\* Retention only removes, and never the current release.
LEMMA PruneRemoves ==
    ASSUME PruneUpdateState
    PROVE  /\ releases' \subseteq releases
           /\ snaps' \subseteq snaps
           /\ current \in releases => current \in releases'
BY DEF PruneUpdateState, KeptReleases, KeptSnaps, LatestFor, TargetsOf

\* Stopping the services checkpoints or keeps the WAL, and mixes nothing.
LEMMA StopStackTypes ==
    ASSUME DiskType, StopStack
    PROVE  /\ db' \in DbType /\ wal' \in WalType
           /\ wal # "foreign" => wal' # "foreign"
           /\ stack' = 0 /\ checking' = FALSE
BY DEF StopStack, DiskType, DbType, WalType, None

LEMMA IdleTypes == IdleInst \in InstRec /\ IdleRoll \in RollRec
<1>1. 0 \in 0 .. MaxVersion BY SafeUpdateAssumption
<1>2. "idle" \in InstPcs /\ "idle" \in RollPcs BY DEF InstPcs, RollPcs, RollWaits
<1> QED BY <1>1, <1>2 DEF IdleInst, IdleRoll, InstRec, RollRec

\* A result, written or not, is later than all before it and keeps those there are.
LEMMA ResultTypes ==
    ASSUME RecordType, NEW s \in Statuses, NEW f \in 0 .. MaxVersion, NEW t \in 0 .. MaxVersion,
           WriteLast(s, f, t) \/ FailLast(s), UNCHANGED marker
    PROVE  RecordType' /\ clock' = clock + 1
<1>1. clock + 1 \in Nat BY DEF RecordType
<1>2. CASE WriteLast(s, f, t)
  BY <1>1, <1>2 DEF WriteLast, RecordType, Statuses
<1>3. CASE FailLast(s)
  <2>1. [status |-> s, at |-> clock + 1] \in [status : Statuses, at : Nat] BY <1>1
  <2> QED BY <1>1, <1>3, <2>1 DEF FailLast, RecordType
<1> QED BY <1>2, <1>3

\* Once a rollback's result has been tried, the outcome is known or known to be lost.
LEMMA ResultKnown ==
    ASSUME RecordType, last.at <= clock, marker.since <= clock, NEW s \in Statuses,
           NEW f, NEW t, WriteLast(s, f, t) \/ FailLast(s), UNCHANGED marker
    PROVE  /\ last'.at <= clock' /\ marker'.since <= clock'
           /\ s # "success" => OutcomeKnown'
<1>1. clock \in Nat /\ marker.since \in Nat /\ last.at \in Nat BY DEF RecordType
<1>2. CASE WriteLast(s, f, t)
  BY <1>1, <1>2 DEF WriteLast, OutcomeKnown
<1>3. CASE FailLast(s)
  <2> DEFINE l == [status |-> s, at |-> clock + 1]
  <2>1. l \in lost' /\ l.status = s /\ l.at = clock + 1 BY <1>3 DEF FailLast
  <2> HIDE DEF l
  <2>2. l.at > marker'.since BY <1>1, <2>1
  <2>3. s # "success" => OutcomeKnown' BY <2>1, <2>2 DEF OutcomeKnown
  <2> QED BY <1>1, <1>3, <2>3 DEF FailLast
<1> QED BY <1>2, <1>3

\* Only a rollback that failed breaks anything, its result written or not.
LEMMA ResultBreaks ==
    ASSUME NEW s, NEW f, NEW t, WriteLast(s, f, t) \/ FailLast(s)
    PROVE  /\ results \subseteq results' /\ lost \subseteq lost'
           /\ Broken' <=> Broken \/ s = "rollback-failed"
<1>1. CASE WriteLast(s, f, t)
  BY <1>1 DEF WriteLast, Broken
<1>2. CASE FailLast(s)
  <2> DEFINE n == [status |-> s, at |-> clock + 1]
  <2>1. lost' = lost \cup {n} /\ n.status = s BY <1>2 DEF FailLast
  <2> HIDE DEF n
  <2>2. (\E l \in lost' : l.status = "rollback-failed")
        <=> (\E l \in lost : l.status = "rollback-failed") \/ s = "rollback-failed"
    BY <2>1
  <2> QED BY <1>2, <2>2 DEF FailLast, Broken
<1> QED BY <1>1, <1>2

LEMMA BrokenGrows ==
    ASSUME results \subseteq results', lost \subseteq lost', Broken PROVE Broken'
BY DEF Broken

LEMMA BrokenSame ==
    ASSUME UNCHANGED <<results, lost>> PROVE Broken' <=> Broken
BY DEF Broken

------------------------------------------------------------------------------
(* Type correctness of the steps whose effect takes more than one look *)

LEMMA InstLockTypes ==
    ASSUME TypeOK, NEW v \in Version, InstLock(v) PROVE TypeOK'
<1>1. v \in 0 .. MaxVersion /\ 0 \in 0 .. MaxVersion
  BY SafeUpdateAssumption DEF Version
<1>2. InstType'
  <2>1. "locked" \in InstPcs BY DEF InstPcs, InstHolds
  <2>2. inst' = [pc |-> "locked", to |-> v, from |-> 0, todo |-> {}]
    BY DEF InstLock, IdleInst
  <2> QED BY <1>1, <2>1, <2>2 DEF InstType, InstRec
<1>3. MachineType'
  BY DEF InstLock, TypeOK, MachineType, Roller, machine
<1> QED
  BY <1>2, <1>3 DEF InstLock, TypeOK, DiskType, RecordType, RollType, disk, record

LEMMA InstStopTypes ==
    ASSUME TypeOK, InstStop PROVE TypeOK'
<1>1. current \in 0 .. MaxVersion /\ 0 \in 0 .. MaxVersion
  BY SafeUpdateAssumption DEF TypeOK, DiskType, Version
<1>2. "repair" \in InstPcs /\ "stopped" \in InstPcs
  BY DEF InstPcs, InstHolds, BeforeMark
<1>3. InstType'
  BY <1>1, <1>2 DEF InstStop, TypeOK, InstType, InstRec
<1>4. StopStack /\ DiskType
  BY DEF InstStop, TypeOK
<1>5. DiskType'
  BY <1>4, StopStackTypes DEF InstStop, DiskType
<1>6. MachineType'
  BY <1>1, <1>4, StopStackTypes DEF InstStop, TypeOK, MachineType, bounds
<1> QED
  BY <1>3, <1>5, <1>6 DEF InstStop, TypeOK, RecordType, RollType, record

LEMMA InstRepairTypes ==
    ASSUME TypeOK, InstKnows, InstRepair PROVE TypeOK'
<1>1. inst.to \in Version
  BY DEF InstRepair, InstKnows
<1>2. current \in 0 .. MaxVersion /\ inst.to \in 0 .. MaxVersion /\ 0 \in 0 .. MaxVersion
  BY <1>1, SafeUpdateAssumption DEF TypeOK, DiskType, Version
<1>3. DiskType'
  <2>1. db' \in DbType /\ wal' \in WalType
    BY <1>2 DEF InstRepair, StartStack, OpenDatabase, OpenedDb, OpenedWal, TypeOK,
                DiskType, DbType, WalType, None
  <2>2. files' \in [Files -> Version]
    BY <1>1 DEF InstRepair
  <2> QED BY <2>1, <2>2, PruneRemoves DEF InstRepair, TypeOK, DiskType
<1>4. RecordType'
  BY <1>2, ResultTypes DEF InstRepair, Statuses, TypeOK
<1>5. MachineType'
  BY <1>2 DEF InstRepair, StartStack, Free, TypeOK, MachineType, Roller, None, bounds
<1> QED
  BY <1>3, <1>4, <1>5, IdleTypes DEF InstRepair, TypeOK, InstType, RollType

LEMMA InstMigratedTypes ==
    ASSUME TypeOK, InstMigrated PROVE TypeOK'
<1>1. inst.to \in 0 .. MaxVersion
  BY DEF TypeOK, InstType, InstRec
<1>2. /\ [ver |-> inst.to, pending |-> TRUE] \in DbType
      /\ [ver |-> inst.to, pending |-> FALSE] \in DbType
  BY <1>1 DEF DbType
<1>3. db' \in DbType BY <1>2 DEF InstMigrated
<1>4. wal' \in WalType BY DEF InstMigrated, WalType, None
<1>5. DiskType' BY <1>3, <1>4 DEF InstMigrated, TypeOK, DiskType
<1>6. InstType'
  BY DEF InstMigrated, TypeOK, InstType, InstRec, InstPcs, InstHolds, AfterMark
<1> QED
  BY <1>5, <1>6 DEF InstMigrated, TypeOK, RecordType, MachineType, RollType, record,
                    machine, bounds

LEMMA InstFinishTypes ==
    ASSUME TypeOK, InstFinish PROVE TypeOK'
<1>1. DiskType'
  BY PruneRemoves DEF InstFinish, TypeOK, DiskType
<1> QED
  BY <1>1, IdleTypes DEF InstFinish, Free, TypeOK, RecordType, MachineType, InstType,
                         RollType, Roller, None, record, machine, bounds

LEMMA RollStopTypes ==
    ASSUME TypeOK, NEW r \in Roller, RollStop(r) PROVE TypeOK'
<1>1. StopStack /\ DiskType
  BY DEF RollStop, TypeOK
<1>2. DiskType'
  BY <1>1, StopStackTypes DEF RollStop, DiskType
<1>3. MachineType'
  <2>1. 0 \in 0 .. MaxVersion BY SafeUpdateAssumption
  <2> QED BY <1>1, <2>1, StopStackTypes DEF RollStop, TypeOK, MachineType, bounds
<1>4. RollType'
  BY DEF RollStop, RollGoto, TypeOK, RollType, RollRec, RollPcs
<1> QED
  BY <1>2, <1>3, <1>4 DEF RollStop, TypeOK, RecordType, InstType, record

LEMMA RollErrTypes ==
    ASSUME TypeOK, NEW r \in Roller, RollNotStaged(r) \/ RollPutBack(r)
    PROVE  TypeOK'
<1>1. RollType'
  BY DEF RollNotStaged, RollPutBack, TypeOK, RollType, RollRec, RollPcs
<1>2. DiskType'
  BY DEF RollNotStaged, RollPutBack, TypeOK, DiskType, WalType, None, disk
<1> QED
  BY <1>1, <1>2 DEF RollNotStaged, RollPutBack, TypeOK, RecordType, MachineType,
                    InstType, record, machine, bounds

LEMMA RollPruneTypes ==
    ASSUME TypeOK, NEW r \in Roller, RollPrune(r) PROVE TypeOK'
<1>1. DiskType'
  BY PruneRemoves DEF RollPrune, TypeOK, DiskType
<1>2. RollType'
  BY IdleTypes DEF RollPrune, RollEnd, TypeOK, RollType
<1> QED
  BY <1>1, <1>2, IdleTypes DEF RollPrune, RollEnd, Free, TypeOK, RecordType,
                               MachineType, InstType, None, record, machine, bounds

LEMMA RecoverUpdateTypes ==
    ASSUME TypeOK, NEW r \in {"unit", "child"}, RecoverUpdate(r) PROVE TypeOK'
<1>1. \A p \in {"failRecord", "stop"} :
        [pc |-> p, from |-> marker.from, to |-> marker.to, err |-> FALSE,
         todo |-> Files] \in RollRec
  BY DEF TypeOK, RecordType, RollRec, RollPcs
<1>2. r \in Roller BY DEF Roller
<1>3. RollType'
  BY <1>1, <1>2, IdleTypes DEF RecoverUpdate, TypeOK, RollType
<1>4. RecordType' /\ MachineType'
  BY <1>2 DEF RecoverUpdate, TypeOK, RecordType, MachineType, machine, bounds
<1> QED
  BY <1>3, <1>4 DEF RecoverUpdate, TypeOK, DiskType, InstType, disk

LEMMA ManualLockTypes ==
    ASSUME TypeOK, ManualLock PROVE TypeOK'
<1>1. RollType'
  BY IdleTypes DEF ManualLock, RollGoto, TypeOK, RollType, RollRec, RollPcs, Roller
<1> QED
  BY <1>1 DEF ManualLock, TypeOK, DiskType, RecordType, MachineType, InstType, Roller,
              disk, record, machine, bounds

LEMMA ManualAnswerTypes ==
    ASSUME TypeOK, ManualAnswer PROVE TypeOK'
<1>1. RollType'
  BY IdleTypes DEF ManualAnswer, RollGoto, TypeOK, RollType, RollRec, RollPcs, Roller
<1> QED
  BY <1>1 DEF ManualAnswer, TypeOK, DiskType, RecordType, MachineType, InstType, Roller,
              disk, record, machine, bounds

LEMMA ServerWritesTypes ==
    ASSUME TypeOK, ServerWrites PROVE TypeOK'
<1>1. DiskType'
  BY DEF ServerWrites, TypeOK, DiskType, DbType, WalType
<1> QED
  BY <1>1 DEF ServerWrites, TypeOK, RecordType, MachineType, InstType, RollType,
              record, machine, bounds

LEMMA WorkerCheckTypes ==
    ASSUME TypeOK, WorkerCheck PROVE TypeOK'
<1>1. MachineType'
  BY DEF WorkerCheck, TypeOK, MachineType, bounds
<1>2. RollType'
  BY DEF WorkerCheck, RollGoto, TypeOK, RollType, RollRec, RollPcs, RollWaits, Roller
<1> QED
  BY <1>1, <1>2 DEF WorkerCheck, TypeOK, DiskType, RecordType, InstType, disk, record

LEMMA PowerCutTypes ==
    ASSUME TypeOK, PowerCut PROVE TypeOK'
<1>1. MachineType'
  <2>1. lock' \in Roller \cup {None} BY DEF PowerCut
  <2>2. stack' \in 0 .. MaxVersion BY SafeUpdateAssumption DEF PowerCut
  <2>3. checking' \in BOOLEAN /\ powered' \in BOOLEAN BY DEF PowerCut
  <2>4. tries' \in Nat /\ crashes' \in Nat BY DEF PowerCut, TypeOK, MachineType
  <2> QED BY <2>1, <2>2, <2>3, <2>4 DEF MachineType
<1>2. DiskType' BY DEF PowerCut, TypeOK, DiskType, WalType, None
<1>3. InstType' /\ RollType' BY IdleTypes DEF PowerCut, InstType, RollType
<1> QED BY <1>1, <1>2, <1>3 DEF PowerCut, TypeOK, RecordType, record

------------------------------------------------------------------------------
(* The invariant *)

LEMMA InitEstablishes == Init => IInv
<1> USE SafeUpdateAssumption
    DEF IInv, Protocol, LockHeld, InstKnows, Unmarked, SnapReady, Recoverable, PowerOff,
        StackDown, CleanWal, Recorded, OutcomeKnown, Statuses, NotSwitched, Restoring, Down, SnapsOf, Marked,
        TypeOK, DiskType, RecordType, MachineType, InstType, RollType, InstRec, RollRec,
        Version, Roller, None, NoMarker, NoResult, IdleInst, IdleRoll, DbType, WalType,
        SnapType, InstPcs, InstHolds, BeforeMark, AfterMark, RollPcs, RollWaits,
        disk, record, machine, bounds
<1> QED BY DEF Init

\* Every step of the installer keeps the invariant.
LEMMA InstallerPreserves ==
    ASSUME IInv, InstStep
    PROVE  IInv'
<1> USE SafeUpdateAssumption
    DEF IInv, Protocol, LockHeld, InstKnows, Unmarked, SnapReady, Recoverable, PowerOff,
        StackDown, CleanWal, Recorded, OutcomeKnown, Statuses, NotSwitched, Restoring, Down, SnapsOf, Marked,
        TypeOK, DiskType, RecordType, MachineType, InstType, RollType, InstRec, RollRec,
        Version, Roller, None, NoMarker, NoResult, IdleInst, IdleRoll, DbType, WalType,
        SnapType, InstPcs, InstHolds, BeforeMark, AfterMark, RollPcs, RollWaits,
        disk, record, machine, bounds
<1>1. CASE InstRecoverFirst
  BY <1>1, SMTT(60) DEF InstRecoverFirst, Free, InstGoto, RollGoto
<1>2. CASE InstRecovered
  BY <1>2, SMTT(60) DEF InstRecovered, InstGoto
<1>3. CASE InstStop
  <2>1. TypeOK' BY <1>3, InstStopTypes
  <2>2. Protocol' BY <1>3, <2>1, SMTT(60) DEF InstStop, StopStack
  <2> QED BY <2>1, <2>2
<1>4. CASE InstRepair
  <2>1. TypeOK' BY <1>4, InstRepairTypes
  <2>2. Protocol' BY <1>4, <2>1, PruneRemoves, SMTT(60) DEF InstRepair, StartStack,
                     OpenDatabase, OpenedDb, OpenedWal, WriteLast, FailLast, Free
  <2> QED BY <2>1, <2>2
<1>5. CASE InstSnapshotClear
  BY <1>5, SMTT(60) DEF InstSnapshotClear, InstGoto
<1>6. CASE InstSnapshot
  <2>1. SnapReady'
    <3>1. Snapshot \in snaps' /\ Snapshot.from = inst.from /\ Snapshot.to = inst.to
      BY <1>6 DEF InstSnapshot, Snapshot
    <3>2. inst'.from = inst.from /\ inst'.to = inst.to
      BY <1>6 DEF InstSnapshot, InstGoto
    <3>3. snaps \subseteq snaps' /\ roll' = roll
      BY <1>6 DEF InstSnapshot
    <3> QED BY <3>1, <3>2, <3>3
  <2>2. (LockHeld /\ InstKnows /\ Unmarked /\ Recoverable)'
    BY <1>6, SMTT(60) DEF InstSnapshot, Snapshot, InstGoto
  <2>3. (TypeOK /\ PowerOff /\ StackDown /\ CleanWal /\ Recorded)'
    BY <1>6, SMTT(60) DEF InstSnapshot, Snapshot, InstGoto
  <2> QED BY <2>1, <2>2, <2>3
<1>7. CASE InstMark
  BY <1>7, SMTT(60) DEF InstMark, InstGoto
<1>8. CASE InstReleaseClear
  BY <1>8, SMTT(60) DEF InstReleaseClear, InstGoto
<1>9. CASE InstRelease
  BY <1>9, SMTT(60) DEF InstRelease, InstGoto
<1>10. CASE InstMigrate
  BY <1>10, SMTT(60) DEF InstMigrate, InstGoto
<1>11. CASE InstMigrated
  <2>1. TypeOK' BY <1>11, InstMigratedTypes
  <2>2. Protocol' BY <1>11, <2>1, SMTT(60) DEF InstMigrated
  <2> QED BY <2>1, <2>2
<1>12. CASE \E f \in Files : InstConfigure(f)
  BY <1>12, SMTT(60) DEF InstConfigure
<1>13. CASE InstSwitch
  BY <1>13, SMTT(60) DEF InstSwitch, InstGoto
<1>14. CASE InstStart
  BY <1>14, SMTT(60) DEF InstStart, StartStack, OpenDatabase, OpenedDb, OpenedWal, InstGoto
<1>15. CASE InstCommit
  BY <1>15, SMTT(60) DEF InstCommit, WriteLast, FailLast, InstGoto
<1>16. CASE InstClear
  BY <1>16, SMTT(60) DEF InstClear, ClearInProgress, InstGoto
<1>17. CASE InstFinish
  <2>1. TypeOK' BY <1>17, InstFinishTypes
  <2>2. Protocol' BY <1>17, <2>1, PruneRemoves, SMTT(60) DEF InstFinish, Free
  <2> QED BY <2>1, <2>2
<1>18. CASE InstAbandon
  BY <1>18, SMTT(60) DEF InstAbandon, StartStack, OpenDatabase, OpenedDb, OpenedWal, Free
<1>19. CASE InstGiveUp
  BY <1>19, SMTT(60) DEF InstGiveUp, Free
<1>20. CASE InstFail
  <2>1. RecordType' /\ last'.at <= clock' /\ marker'.since <= clock' /\ UNCHANGED marker
    <3>1. CASE UNCHANGED <<last, results, lost, clock>> BY <1>20, <3>1 DEF InstFail
    <3>2. CASE FailLast("success")
      <4>1. "success" \in Statuses /\ 0 \in 0 .. MaxVersion /\ UNCHANGED marker
        BY <1>20 DEF InstFail
      <4>2. RecordType' BY <3>2, <4>1, ResultTypes
      <4>3. marker.since <= clock /\ last.at <= clock BY <1>20 DEF InstFail
      <4> QED BY <3>2, <4>1, <4>2, <4>3, ResultKnown
    <3> QED BY <1>20, <3>1, <3>2 DEF InstFail
  <2>2. /\ inst.pc \in AfterMark /\ inst'.pc = "rolling" /\ inst'.to = inst.to
        /\ inst' \in InstRec
        /\ UNCHANGED <<disk, marker, lock, machine, bounds>>
    BY <1>20 DEF InstFail, InstGoto
  <2>3. /\ roll' \in [Roller -> RollRec]
        /\ roll'["installer"].pc = "stop" /\ roll'["installer"].from = inst.from
        /\ roll'["installer"].to = inst.to
        /\ \A r \in Roller \ {"installer"} : roll'[r] = roll[r]
    BY <1>20 DEF InstFail
  <2>4. (TypeOK /\ LockHeld /\ InstKnows /\ Unmarked)'
    BY <2>1, <2>2, <2>3, SMTT(60)
  <2>5. (SnapReady /\ Recoverable /\ PowerOff)'
    BY <2>1, <2>2, <2>3, SMTT(60)
  <2>6. (StackDown /\ CleanWal)'
    BY <2>1, <2>2, <2>3, SMTT(60)
  <2>7. Recorded'
    BY <2>1, <2>2, <2>3, SMTT(60)
  <2> QED BY <2>4, <2>5, <2>6, <2>7
<1> QED BY <1>1, <1>2, <1>3, <1>4, <1>5, <1>6, <1>7, <1>8, <1>9, <1>10, <1>11, <1>12, <1>13,
           <1>14, <1>15, <1>16, <1>17, <1>18, <1>19, <1>20 DEF InstStep

\* Every step of a rollback keeps it, whoever runs it.
LEMMA RollerPreserves ==
    ASSUME IInv, NEW r \in Roller, RollStep(r)
    PROVE  IInv'
<1> USE SafeUpdateAssumption
    DEF IInv, Protocol, LockHeld, InstKnows, Unmarked, SnapReady, Recoverable, PowerOff,
        StackDown, CleanWal, Recorded, OutcomeKnown, Statuses, NotSwitched, Restoring, Down, SnapsOf, Marked,
        TypeOK, DiskType, RecordType, MachineType, InstType, RollType, InstRec, RollRec,
        Version, Roller, None, NoMarker, NoResult, IdleInst, IdleRoll, DbType, WalType,
        SnapType, InstPcs, InstHolds, BeforeMark, AfterMark, RollPcs, RollWaits,
        disk, record, machine, bounds
<1>1. CASE RollFail(r)
  BY <1>1, SMTT(60) DEF RollFail, RollGoto
<1>2. CASE RollStop(r)
  <2>1. TypeOK' BY <1>2, RollStopTypes
  <2>2. Protocol' BY <1>2, <2>1, SMTT(60) DEF RollStop, At, StopStack, RollGoto
  <2> QED BY <2>1, <2>2
<1>3. CASE RollSwitch(r)
  BY <1>3, SMTT(60) DEF RollSwitch, At, RollGoto
<1>4. CASE RollSetAside(r)
  BY <1>4, SMTT(60) DEF RollSetAside, At, RollGoto
<1>5. CASE RollNotStaged(r)
  <2>1. TypeOK' BY <1>5, RollErrTypes
  <2>2. (LockHeld /\ InstKnows /\ Unmarked /\ SnapReady)'
    BY <1>5, SMTT(60) DEF RollNotStaged, At
  <2>3. (Recoverable /\ PowerOff /\ StackDown)'
    BY <1>5, SMTT(60) DEF RollNotStaged, At
  <2>4. (CleanWal /\ Recorded)'
    BY <1>5, SMTT(60) DEF RollNotStaged, At
  <2> QED BY <2>1, <2>2, <2>3, <2>4, Zenon
<1>6. CASE RollRename(r)
  BY <1>6, SMTT(60) DEF RollRename, At, RollGoto, TheSnap
<1>7. CASE RollPutBack(r)
  <2>1. TypeOK' BY <1>7, RollErrTypes
  <2>2. (LockHeld /\ InstKnows /\ Unmarked /\ SnapReady)'
    BY <1>7, SMTT(60) DEF RollPutBack, At
  <2>3. (Recoverable /\ PowerOff /\ StackDown)'
    BY <1>7, SMTT(60) DEF RollPutBack, At
  <2>4. (CleanWal /\ Recorded)'
    BY <1>7, SMTT(60) DEF RollPutBack, At
  <2> QED BY <2>1, <2>2, <2>3, <2>4, Zenon
<1>8. CASE RollWalIn(r)
  BY <1>8, SMTT(60) DEF RollWalIn, At, RollGoto, TheSnap
<1>9. CASE \E f \in Files : RollFile(r, f)
  BY <1>9, SMTT(60) DEF RollFile, At, TheSnap
<1>10. CASE RollFilesDone(r)
  BY <1>10, SMTT(60) DEF RollFilesDone, At, RollGoto
<1>11. CASE RollStart(r)
  BY <1>11, SMTT(60) DEF RollStart, At, StartStack, OpenDatabase, OpenedDb, OpenedWal, RollGoto
<1>12. CASE RollHealthy(r)
  BY <1>12, SMTT(60) DEF RollHealthy, At, RollGoto
<1>13. CASE RollRecord(r)
  <2>1. PICK s \in {"rolled-back", "rollback-failed"} :
            WriteLast(s, roll[r].from, roll[r].to) \/ FailLast(s)
    BY <1>13 DEF RollRecord
  <2>2. /\ roll[r].pc \in {"record", "failRecord"} /\ roll'[r].pc \in {"clear", "failClear"}
        /\ roll' \in [Roller -> RollRec] /\ \A q \in Roller \ {r} : roll'[q] = roll[q]
        /\ roll'[r] = [roll[r] EXCEPT !.pc = roll'[r].pc]
        /\ UNCHANGED <<disk, marker, lock, machine, inst, bounds>>
    BY <1>13 DEF RollRecord, At, RollGoto
  <2>3. s \in Statuses /\ s # "success" /\ roll[r].from \in 0 .. MaxVersion
        /\ roll[r].to \in 0 .. MaxVersion
    BY <2>1
  <2>4. RecordType' /\ clock' = clock + 1 BY <2>1, <2>2, <2>3, ResultTypes
  <2>5. last'.at <= clock' /\ (Marked => marker'.since <= clock' /\ OutcomeKnown')
    <3>1. CASE Marked
      <4>1. marker.since <= clock /\ last.at <= clock BY <3>1
      <4> QED BY <2>1, <2>2, <2>3, <4>1, ResultKnown
    <3>2. CASE ~Marked
      BY <2>1, <2>4, <3>2 DEF WriteLast, FailLast
    <3> QED BY <3>1, <3>2
  <2>6. (TypeOK /\ LockHeld /\ InstKnows)'
    BY <2>2, <2>4, SMTT(60)
  <2>7. (Unmarked /\ SnapReady /\ Recoverable /\ PowerOff)'
    BY <2>2, SMTT(60)
  <2>8. (StackDown /\ CleanWal)'
    BY <2>2, SMTT(60)
  <2>9. Recorded'
    <3>1. inst.pc # "recorded" BY <2>2
    <3> QED BY <2>2, <2>5, <3>1
  <2> QED BY <2>6, <2>7, <2>8, <2>9
<1>14. CASE RollClear(r)
  BY <1>14, SMTT(60) DEF RollClear, At, ClearInProgress, RollGoto
<1>15. CASE RollPrune(r)
  <2>1. TypeOK' BY <1>15, RollPruneTypes
  <2>2. Protocol' BY <1>15, <2>1, PruneRemoves, SMTT(60) DEF RollPrune, At, RollEnd, Free
  <2> QED BY <2>1, <2>2
<1>16. CASE RollFailed(r)
  BY <1>16, SMTT(60) DEF RollFailed, At, ClearInProgress, RollEnd, Free
<1> QED BY <1>1, <1>2, <1>3, <1>4, <1>5, <1>6, <1>7, <1>8, <1>9, <1>10, <1>11, <1>12, <1>13,
           <1>14, <1>15, <1>16 DEF RollStep

\* So do whoever takes the lock, the running server, and the crashes.
LEMMA OthersPreserve ==
    ASSUME IInv,
           \/ \E v \in Version : InstLock(v)
           \/ WorkerCheck \/ WorkerRestart
           \/ \E r \in {"unit", "child"} : RecoverUpdate(r)
           \/ \E s \in snaps : ManualPick(s)
           \/ ManualLock \/ ManualAnswer \/ ServerWrites \/ PowerCut \/ Boot \/ KillInstaller
    PROVE  IInv'
<1> USE SafeUpdateAssumption
    DEF IInv, Protocol, LockHeld, InstKnows, Unmarked, SnapReady, Recoverable, PowerOff,
        StackDown, CleanWal, Recorded, OutcomeKnown, Statuses, NotSwitched, Restoring, Down, SnapsOf, Marked,
        TypeOK, DiskType, RecordType, MachineType, InstType, RollType, InstRec, RollRec,
        Version, Roller, None, NoMarker, NoResult, IdleInst, IdleRoll, DbType, WalType,
        SnapType, InstPcs, InstHolds, BeforeMark, AfterMark, RollPcs, RollWaits,
        disk, record, machine, bounds
<1>1. CASE \E v \in Version : InstLock(v)
  <2>1. TypeOK' BY <1>1, InstLockTypes
  <2>2. PICK v \in Version : InstLock(v) BY <1>1
  <2>3. inst' = [pc |-> "locked", to |-> v, from |-> 0, todo |-> {}]
    BY <2>2 DEF InstLock
  <2>4. /\ inst'.pc = "locked" /\ inst'.to \in Version
        /\ UNCHANGED <<current, releases, db, wal, aside, files, snaps, marker, last,
                       results, lost, clock, stack, checking, powered, roll>>
    BY <2>2, <2>3 DEF InstLock
  <2>5. LockHeld'
    BY <2>2, <2>4 DEF InstLock
  <2>6. (InstKnows /\ Unmarked /\ SnapReady /\ Recoverable)'
    BY <2>4
  <2>7. PowerOff'
    <3>1. powered BY <2>2 DEF InstLock
    <3>2. powered' = powered BY <2>4
    <3> QED BY <3>1, <3>2, Zenon
  <2>8. (StackDown /\ CleanWal /\ Recorded)'
    BY <2>4
  <2> QED BY <2>1, <2>5, <2>6, <2>7, <2>8
<1>2. CASE WorkerCheck
  <2>1. TypeOK' BY <1>2, WorkerCheckTypes
  <2>2. Protocol' BY <1>2, <2>1, SMTT(60) DEF WorkerCheck, RollGoto
  <2> QED BY <2>1, <2>2
<1>3. CASE WorkerRestart
  BY <1>3, SMTT(60) DEF WorkerRestart
<1>4. CASE \E r \in {"unit", "child"} : RecoverUpdate(r)
  <2>1. TypeOK' BY <1>4, RecoverUpdateTypes
  <2>2. Protocol' BY <1>4, <2>1, SMTT(60) DEF RecoverUpdate
  <2> QED BY <2>1, <2>2
<1>5. CASE \E s \in snaps : ManualPick(s)
  BY <1>5, SMTT(60) DEF ManualPick
<1>6. CASE ManualLock
  <2>1. TypeOK' BY <1>6, ManualLockTypes
  <2>2. Protocol' BY <1>6, <2>1, SMTT(60) DEF ManualLock, RollGoto
  <2> QED BY <2>1, <2>2
<1>7. CASE ServerWrites
  <2>1. TypeOK' BY <1>7, ServerWritesTypes
  <2>2. Protocol' BY <1>7, <2>1, SMTT(60) DEF ServerWrites
  <2> QED BY <2>1, <2>2
<1>8. CASE PowerCut
  <2>1. TypeOK' BY <1>8, PowerCutTypes
  <2>2. Protocol' BY <1>8, <2>1, SMTT(60) DEF PowerCut
  <2> QED BY <2>1, <2>2
<1>9. CASE Boot
  BY <1>9, SMTT(60) DEF Boot, StartStack, OpenDatabase, OpenedDb, OpenedWal
<1>10. CASE KillInstaller
  BY <1>10, SMTT(60) DEF KillInstaller, Free
<1>11. CASE ManualAnswer
  <2>1. TypeOK' BY <1>11, ManualAnswerTypes
  <2>2. Protocol' BY <1>11, <2>1, SMTT(60) DEF ManualAnswer, RollGoto
  <2> QED BY <2>1, <2>2
<1> QED BY <1>1, <1>2, <1>3, <1>4, <1>5, <1>6, <1>7, <1>8, <1>9, <1>10, <1>11

LEMMA NextPreserves == IInv /\ [Next]_vars => IInv'
<1> SUFFICES ASSUME IInv, [Next]_vars PROVE IInv'
  OBVIOUS
<1>1. CASE UNCHANGED vars
  BY <1>1 DEF vars, disk, record, machine, bounds, IInv, Protocol, LockHeld, InstKnows,
              Unmarked, SnapReady, Recoverable, PowerOff, StackDown, CleanWal, Recorded,
              OutcomeKnown,
              SnapsOf, Marked, TypeOK, DiskType, RecordType, MachineType, InstType,
              RollType
<1>2. CASE Next
  BY <1>2, InstallerPreserves, RollerPreserves, OthersPreserve DEF Next
<1> QED BY <1>1, <1>2

------------------------------------------------------------------------------
(* The theorems *)

LEMMA Invariance == Spec => []IInv
BY InitEstablishes, NextPreserves, PTL DEF Spec

\* Every variable keeps its type, through every interleaving of installer, recovery
\* and administrator and every crash.
THEOREM TypeCorrect == Spec => []TypeOK
<1>1. IInv => TypeOK BY DEF IInv
<1> QED BY <1>1, Invariance, PTL

\* Whoever changes the installation holds update.lock: no two of the installer, the
\* recovery unit, the installer's own recovery and `update rollback` ever restore or
\* install at once.
THEOREM MutualExclusion == Spec => []LockHeld
<1>1. IInv => LockHeld BY DEF IInv, Protocol
<1> QED BY <1>1, Invariance, PTL

\* At no instant is the database beside a WAL of another database file, whatever
\* fails or loses power during restoreDatabase.
THEOREM WalNeverMixed == Spec => []NeverMixed
<1>1. IInv => NeverMixed BY DEF IInv, Protocol, CleanWal, NeverMixed
<1> QED BY <1>1, Invariance, PTL

\* A crash at any step leaves an installed release to boot and, while an update is
\* marked, a complete snapshot and the release it goes back to.
THEOREM AlwaysRecoverable == Spec => []Recoverable
<1>1. IInv => Recoverable BY DEF IInv, Protocol
<1> QED BY <1>1, Invariance, PTL

\* The steps that keep the marker, or write it.
LEMMA InstKeepsMarker ==
    ASSUME InstStep, ~InstClear PROVE UNCHANGED marker \/ marker'.step = "update"
BY DEF InstStep, InstRecoverFirst, InstRecovered, InstStop, InstRepair,
       InstSnapshotClear, InstSnapshot, InstMark, InstReleaseClear, InstRelease,
       InstMigrate, InstMigrated, InstConfigure, InstSwitch, InstStart, InstCommit,
       InstFinish, InstAbandon, InstGiveUp, InstFail, record

LEMMA RollKeepsMarker ==
    ASSUME NEW r \in Roller, RollStep(r), ~RollClear(r), ~RollFailed(r)
    PROVE  UNCHANGED marker
BY DEF RollStep, RollFail, RollStop, RollSwitch, RollSetAside, RollNotStaged,
       RollRename, RollPutBack, RollWalIn, RollFile, RollFilesDone, RollStart,
       RollHealthy, RollRecord, RollPrune, record

LEMMA OthersKeepMarker ==
    ASSUME \/ \E v \in Version : InstLock(v)
           \/ WorkerCheck \/ WorkerRestart
           \/ \E r \in {"unit", "child"} : RecoverUpdate(r)
           \/ \E s \in snaps : ManualPick(s)
           \/ ManualLock \/ ManualAnswer \/ ServerWrites \/ PowerCut \/ Boot \/ KillInstaller,
           TypeOK
    PROVE  UNCHANGED marker \/ marker'.step = "recovering"
BY DEF InstLock, WorkerCheck, WorkerRestart, RecoverUpdate, ManualPick, ManualLock,
       ManualAnswer, ServerWrites, PowerCut, Boot, KillInstaller, record, TypeOK, RecordType

LEMMA ClearedAfterResult ==
    IInv /\ [Next]_vars => (Marked /\ marker' = NoMarker => OutcomeKnown)
<1> SUFFICES ASSUME IInv, [Next]_vars, Marked, marker' = NoMarker
             PROVE  OutcomeKnown
  OBVIOUS
<1> USE DEF IInv, Protocol
<1>1. marker'.step = "none" /\ marker' # marker
  BY DEF NoMarker, Marked
<1>2. CASE InstClear
  BY <1>2 DEF InstClear, Recorded, OutcomeKnown
<1>3. CASE \E r \in Roller : RollClear(r) \/ RollFailed(r)
  BY <1>3 DEF RollClear, RollFailed, At, Recorded
<1>4. CASE ~InstClear /\ ~(\E r \in Roller : RollClear(r) \/ RollFailed(r))
  BY <1>1, <1>4, InstKeepsMarker, RollKeepsMarker, OthersKeepMarker
     DEF Next, vars, record
<1> QED BY <1>2, <1>3, <1>4

\* The marker is removed only once the outcome of the update is on record, later than
\* the update began, or the write of a rollback's outcome has failed since.
THEOREM MarkerOutlivesOutcome == Spec => OutcomeRecorded
BY Invariance, ClearedAfterResult, PTL DEF Spec, OutcomeRecorded

------------------------------------------------------------------------------
(* One whole version: the invariant behind Coherent and the refinement.  From *)
(* the marker on the installation may be in pieces; what the rollback needs   *)
(* to put it together is in the snapshot, and the piece each step has put     *)
(* back is known from where the installer or the roller is.                   *)

WholeOf(v) ==
    /\ db.ver = v
    /\ db.pending => wal = "own"
    /\ \A f \in Files : files[f] = v

\* What installer and snapshots say of the versions they name.
Named ==
    /\ inst.pc = "repair" => inst.to = current
    /\ inst.pc = "recorded" => Marked /\ marker.from = inst.from /\ marker.to = inst.to
    /\ \A s \in snaps : s.from \in Version
    /\ roll["manual"].pc # "idle" => roll["manual"].from \in Version

BeforeFiles == {"picked", "confirm", "stop", "switch", "stage", "rename", "walIn"}
Switched == {"stage", "rename", "walIn", "files", "start", "health", "record", "clear", "prune"}
UnderMarker == {"stop", "switch", "stage", "rename", "walIn", "files", "start", "health",
                "record", "clear", "failRecord", "failClear"}

\* Only the administrator restores without a marker, or against what it says.
RollNamed(r) ==
    /\ roll[r].pc \in Switched => current = roll[r].from
    /\ roll[r].pc \in BeforeFiles => roll[r].todo = Files
    /\ roll[r].pc = "failClear" => Broken
    /\ r # "manual" /\ roll[r].pc \in UnderMarker =>
        Marked /\ marker.from = roll[r].from /\ marker.to = roll[r].to

\* A snapshot is one whole version, so that restoring all of it is enough.
SnapsWhole ==
    \A s \in snaps :
        /\ s.db.ver = s.from
        /\ s.db.pending => s.wal = "own"
        /\ \A f \in Files : s.files[f] = s.from

Settled == ~Marked /\ ~ManualRestores => WholeOf(current)

\* What the installer has written so far is the new version's.
InstWrote ==
    /\ inst.pc \in {"configuring", "switched", "started", "recorded"} =>
        /\ inst.pc # "started" => db.ver = inst.to
        /\ db.pending => wal = "own"
        /\ \A f \in Files \ inst.todo : files[f] = inst.to
    /\ inst.pc \in {"switched", "started", "recorded"} => current = inst.to /\ inst.todo = {}

\* What a roller has restored so far, without an error, is the previous version's.
RollWrote(r) ==
    /\ roll[r].pc = "walIn" =>
        db.ver = roll[r].from /\ (db.pending => TheSnap(r).wal = "own")
    /\ roll[r].pc = "files" /\ ~roll[r].err =>
        /\ db.ver = roll[r].from
        /\ db.pending => wal = "own"
        /\ \A f \in Files \ roll[r].todo : files[f] = roll[r].from
    /\ roll[r].pc \in {"start", "health", "record", "clear", "prune"} => WholeOf(roll[r].from)

Whereabouts == Named /\ \A r \in Roller : RollNamed(r)
Pieces == SnapsWhole /\ Settled /\ InstWrote /\ \A r \in Roller : RollWrote(r)

\* A rollback that failed excuses the rest.
OneVersion == Whereabouts /\ (~Broken => Pieces)

LEMMA SnapChosen ==
    ASSUME SnapReady, NEW r \in Roller, roll[r].pc \in Restoring
    PROVE  TheSnap(r) \in snaps /\ TheSnap(r).from = roll[r].from
BY DEF SnapReady, TheSnap, SnapsOf

LEMMA InitIsOne == Init => OneVersion
BY SafeUpdateAssumption
   DEF Init, OneVersion, Whereabouts, Pieces, Named, RollNamed, SnapsWhole, Settled,
       InstWrote, RollWrote, WholeOf, Marked, NoMarker, IdleInst, IdleRoll, BeforeFiles,
       Switched, UnderMarker, Version, Roller, ManualRestores, RollWaits

\* Where everybody is, kept by the installer.
LEMMA InstallerNamed ==
    ASSUME IInv, Whereabouts, InstStep
    PROVE  Whereabouts'
<1> USE DEF IInv, Protocol, LockHeld, InstKnows, Unmarked, Marked, NotSwitched, InstHolds,
            BeforeMark, AfterMark, RollWaits, Whereabouts, Named, RollNamed, BeforeFiles,
            Switched, UnderMarker, Broken, NoMarker, IdleInst, IdleRoll, Roller, TypeOK,
            InstType, InstRec, RollType, RollRec, disk, record, machine, bounds
<1>1. CASE InstRecoverFirst
  BY <1>1, SMTT(60) DEF InstRecoverFirst, Free, InstGoto, RollGoto
<1>2. CASE InstRecovered
  BY <1>2, SMTT(60) DEF InstRecovered, InstGoto
<1>3. CASE InstStop
  BY <1>3, SMTT(60) DEF InstStop
<1>4. CASE InstRepair
  BY <1>4, PruneRemoves, SMTT(60) DEF InstRepair, WriteLast, FailLast
<1>5. CASE InstSnapshotClear
  BY <1>5, SMTT(60) DEF InstSnapshotClear, InstGoto
<1>6. CASE InstSnapshot
  <2>1. /\ inst.pc = "snapshotting" /\ inst'.pc = "snapped"
        /\ snaps' = snaps \cup {Snapshot}
        /\ UNCHANGED <<current, marker, results, roll>>
    BY <1>6 DEF InstSnapshot, InstGoto
  <2>2. Snapshot.from \in Version
    BY <2>1 DEF Snapshot, DiskType
  <2>3. Named'
    BY <2>1, <2>2, Zenon
  <2>4. \A r \in Roller : RollNamed(r)'
    BY <2>1
  <2> QED BY <2>3, <2>4
<1>7. CASE InstMark
  BY <1>7, SMTT(60) DEF InstMark, InstGoto
<1>8. CASE InstReleaseClear
  BY <1>8, SMTT(60) DEF InstReleaseClear, InstGoto
<1>9. CASE InstRelease
  BY <1>9, SMTT(60) DEF InstRelease, InstGoto
<1>10. CASE InstMigrate
  BY <1>10, SMTT(60) DEF InstMigrate, InstGoto
<1>11. CASE InstMigrated
  BY <1>11, SMTT(60) DEF InstMigrated
<1>12. CASE \E f \in Files : InstConfigure(f)
  BY <1>12, SMTT(60) DEF InstConfigure
<1>13. CASE InstSwitch
  BY <1>13, SMTT(60) DEF InstSwitch, InstGoto
<1>14. CASE InstStart
  BY <1>14, SMTT(60) DEF InstStart, InstGoto
<1>15. CASE InstCommit
  BY <1>15, SMTT(60) DEF InstCommit, WriteLast, FailLast, InstGoto
<1>16. CASE InstClear
  BY <1>16, SMTT(60) DEF InstClear, ClearInProgress, InstGoto
<1>17. CASE InstFinish
  BY <1>17, PruneRemoves, SMTT(60) DEF InstFinish, Free
<1>18. CASE InstAbandon
  BY <1>18, SMTT(60) DEF InstAbandon, Free
<1>19. CASE InstGiveUp
  BY <1>19, SMTT(60) DEF InstGiveUp, Free
<1>20. CASE InstFail
  BY <1>20, SMTT(60) DEF InstFail, InstGoto
<1> QED BY <1>1, <1>2, <1>3, <1>4, <1>5, <1>6, <1>7, <1>8, <1>9, <1>10, <1>11, <1>12, <1>13,
           <1>14, <1>15, <1>16, <1>17, <1>18, <1>19, <1>20 DEF InstStep

\* ... by whoever rolls back ...
LEMMA RollerNamed ==
    ASSUME IInv, Whereabouts, NEW r \in Roller, RollStep(r)
    PROVE  Whereabouts'
<1> USE DEF IInv, Protocol, LockHeld, InstKnows, Unmarked, Marked, NotSwitched, InstHolds,
            BeforeMark, AfterMark, RollWaits, Whereabouts, Named, RollNamed, BeforeFiles,
            Switched, UnderMarker, NoMarker, IdleInst, IdleRoll, Roller, TypeOK,
            InstType, InstRec, RollType, RollRec, disk, record, machine, bounds
<1>1. CASE RollFail(r)
  BY <1>1, SMTT(60) DEF RollFail, RollGoto
<1>2. CASE RollStop(r)
  BY <1>2, SMTT(60) DEF RollStop, At, RollGoto
<1>3. CASE RollSwitch(r)
  BY <1>3, SMTT(60) DEF RollSwitch, At, RollGoto
<1>4. CASE RollSetAside(r)
  BY <1>4, SMTT(60) DEF RollSetAside, At, RollGoto
<1>5. CASE RollNotStaged(r)
  BY <1>5, SMTT(60) DEF RollNotStaged, At
<1>6. CASE RollRename(r)
  BY <1>6, SMTT(60) DEF RollRename, At, RollGoto
<1>7. CASE RollPutBack(r)
  BY <1>7, SMTT(60) DEF RollPutBack, At
<1>8. CASE RollWalIn(r)
  BY <1>8, SMTT(60) DEF RollWalIn, At, RollGoto
<1>9. CASE \E f \in Files : RollFile(r, f)
  BY <1>9, SMTT(60) DEF RollFile, At
<1>10. CASE RollFilesDone(r)
  BY <1>10, SMTT(60) DEF RollFilesDone, At, RollGoto
<1>11. CASE RollStart(r)
  BY <1>11, SMTT(60) DEF RollStart, At, RollGoto
<1>12. CASE RollHealthy(r)
  BY <1>12, SMTT(60) DEF RollHealthy, At, RollGoto
<1>13. CASE RollRecord(r)
  <2>1. /\ roll'[r] = [roll[r] EXCEPT !.pc = roll'[r].pc]
        /\ \/ roll[r].pc = "record" /\ roll'[r].pc = "clear"
           \/ roll[r].pc = "failRecord" /\ roll'[r].pc = "failClear" /\ Broken'
        /\ \A q \in Roller \ {r} : roll'[q] = roll[q]
        /\ Broken => Broken'
        /\ UNCHANGED <<disk, marker, inst>>
    BY <1>13, ResultBreaks DEF RollRecord, At, RollGoto
  <2>2. Named' BY <2>1
  <2>3. RollNamed(r)' BY <2>1
  <2>4. \A q \in Roller \ {r} : RollNamed(q)' BY <2>1
  <2> QED BY <2>2, <2>3, <2>4
<1>14. CASE RollClear(r)
  BY <1>14, SMTT(60) DEF RollClear, At, ClearInProgress, RollGoto
<1>15. CASE RollPrune(r)
  BY <1>15, PruneRemoves, SMTT(60) DEF RollPrune, At, RollEnd, Free
<1>16. CASE RollFailed(r)
  BY <1>16, SMTT(60) DEF RollFailed, At, ClearInProgress, RollEnd, Free
<1> QED BY <1>1, <1>2, <1>3, <1>4, <1>5, <1>6, <1>7, <1>8, <1>9, <1>10, <1>11, <1>12, <1>13,
           <1>14, <1>15, <1>16 DEF RollStep

OtherStep ==
    \/ \E v \in Version : InstLock(v)
    \/ WorkerCheck \/ WorkerRestart
    \/ \E q \in {"unit", "child"} : RecoverUpdate(q)
    \/ \E s \in snaps : ManualPick(s)
    \/ ManualLock \/ ManualAnswer \/ ServerWrites \/ PowerCut \/ Boot \/ KillInstaller

\* ... and by everybody else.
LEMMA OthersNamed ==
    ASSUME IInv, Whereabouts, OtherStep
    PROVE  Whereabouts'
<1> USE DEF IInv, Protocol, LockHeld, InstKnows, Unmarked, Marked, NotSwitched, InstHolds,
            BeforeMark, AfterMark, RollWaits, Whereabouts, Named, RollNamed, BeforeFiles,
            Switched, UnderMarker, Broken, NoMarker, IdleInst, IdleRoll, Roller, TypeOK,
            InstType, InstRec, RollType, RollRec, disk, record, machine, bounds
<1>1. CASE \E v \in Version : InstLock(v)
  BY <1>1, SMTT(60) DEF InstLock
<1>2. CASE WorkerCheck
  BY <1>2, SMTT(60) DEF WorkerCheck, RollGoto
<1>3. CASE WorkerRestart
  BY <1>3, SMTT(60) DEF WorkerRestart
<1>4. CASE \E q \in {"unit", "child"} : RecoverUpdate(q)
  <2>1. PICK q \in {"unit", "child"} : RecoverUpdate(q)
    BY <1>4
  <2>2. UNCHANGED <<current, inst, snaps, results, roll["manual"]>>
    BY <2>1 DEF RecoverUpdate
  <2>3. marker'.from = marker.from /\ marker'.to = marker.to /\ (Marked => Marked')
    BY <2>1 DEF RecoverUpdate, RecordType
  <2>4. Named'
    BY <2>2, <2>3
  <2>5. ASSUME NEW r \in Roller PROVE RollNamed(r)'
    <3>1. CASE r = q
      BY <2>1, <2>3, <3>1 DEF RecoverUpdate, RecordType
    <3>2. CASE r # q
      BY <2>1, <2>2, <2>3, <3>2 DEF RecoverUpdate
    <3> QED BY <3>1, <3>2
  <2> QED BY <2>4, <2>5
<1>5. CASE \E s \in snaps : ManualPick(s)
  BY <1>5, SMTT(60) DEF ManualPick
<1>6. CASE ManualLock
  BY <1>6, SMTT(60) DEF ManualLock, RollGoto
<1>7. CASE ManualAnswer
  BY <1>7, SMTT(60) DEF ManualAnswer, RollGoto
<1>8. CASE ServerWrites
  BY <1>8, SMTT(60) DEF ServerWrites
<1>9. CASE PowerCut
  BY <1>9, SMTT(60) DEF PowerCut
<1>10. CASE Boot
  BY <1>10, SMTT(60) DEF Boot
<1>11. CASE KillInstaller
  BY <1>11, SMTT(60) DEF KillInstaller, Free
<1> QED BY <1>1, <1>2, <1>3, <1>4, <1>5, <1>6, <1>7, <1>8, <1>9, <1>10, <1>11 DEF OtherStep
\* Retention and the removal of an old snapshot leave whole ones; the installer writes
\* the others' pieces only under the marker.
LEMMA InstallerPieces ==
    ASSUME IInv, Whereabouts, Pieces, ~Broken', InstStep
    PROVE  (SnapsWhole /\ Settled /\ InstWrote)'
<1> USE DEF IInv, Protocol, LockHeld, InstKnows, Unmarked, Marked, NotSwitched, InstHolds,
            BeforeMark, AfterMark, RollWaits, Whereabouts, Named, RollNamed, BeforeFiles,
            Switched, UnderMarker, Broken, NoMarker, IdleInst, IdleRoll, Roller, TypeOK,
            InstType, InstRec, RollType, RollRec, CleanWal, NeverMixed, DiskType, WalType,
            DbType, None, ManualRestores, WholeOf, Pieces, SnapsWhole, Settled, InstWrote,
            disk, record, machine, bounds
<1>1. CASE InstRecoverFirst
  BY <1>1, SMTT(60) DEF InstRecoverFirst, Free, InstGoto, RollGoto
<1>2. CASE InstRecovered
  BY <1>2, SMTT(60) DEF InstRecovered, InstGoto
<1>3. CASE InstStop
  BY <1>3, SMTT(60) DEF InstStop, StopStack
<1>4. CASE InstRepair
  BY <1>4, PruneRemoves, SMTT(60) DEF InstRepair, WriteLast, FailLast, StartStack, OpenDatabase,
     OpenedDb, OpenedWal
<1>5. CASE InstSnapshotClear
  BY <1>5, SMTT(60) DEF InstSnapshotClear, InstGoto
<1>6. CASE InstSnapshot
  BY <1>6, SMTT(60) DEF InstSnapshot, Snapshot, InstGoto
<1>7. CASE InstMark
  BY <1>7, SMTT(60) DEF InstMark, InstGoto
<1>8. CASE InstReleaseClear
  BY <1>8, SMTT(60) DEF InstReleaseClear, InstGoto
<1>9. CASE InstRelease
  BY <1>9, SMTT(60) DEF InstRelease, InstGoto
<1>10. CASE InstMigrate
  BY <1>10, SMTT(60) DEF InstMigrate, InstGoto
<1>11. CASE InstMigrated
  BY <1>11, SMTT(60) DEF InstMigrated
<1>12. CASE \E f \in Files : InstConfigure(f)
  BY <1>12, SMTT(60) DEF InstConfigure
<1>13. CASE InstSwitch
  BY <1>13, SMTT(60) DEF InstSwitch, InstGoto
<1>14. CASE InstStart
  BY <1>14, SMTT(60) DEF InstStart, InstGoto, StartStack, OpenDatabase, OpenedDb, OpenedWal
<1>15. CASE InstCommit
  BY <1>15, SMTT(60) DEF InstCommit, WriteLast, FailLast, InstGoto, Healthy
<1>16. CASE InstClear
  BY <1>16, SMTT(60) DEF InstClear, ClearInProgress, InstGoto
<1>17. CASE InstFinish
  BY <1>17, PruneRemoves, SMTT(60) DEF InstFinish, Free
<1>18. CASE InstAbandon
  BY <1>18, SMTT(60) DEF InstAbandon, Free, StartStack, OpenDatabase, OpenedDb, OpenedWal
<1>19. CASE InstGiveUp
  BY <1>19, SMTT(60) DEF InstGiveUp, Free
<1>20. CASE InstFail
  BY <1>20, SMTT(60) DEF InstFail, InstGoto
<1> QED BY <1>1, <1>2, <1>3, <1>4, <1>5, <1>6, <1>7, <1>8, <1>9, <1>10, <1>11, <1>12, <1>13,
           <1>14, <1>15, <1>16, <1>17, <1>18, <1>19, <1>20 DEF InstStep

LEMMA RollerPieces ==
    ASSUME IInv, Whereabouts, Pieces, ~Broken', NEW r \in Roller, RollWrote(r), RollStep(r)
    PROVE  (SnapsWhole /\ Settled /\ InstWrote)'
<1> USE DEF IInv, Protocol, LockHeld, InstKnows, Unmarked, Marked, NotSwitched, InstHolds,
            BeforeMark, AfterMark, RollWaits, Whereabouts, Named, RollNamed, BeforeFiles,
            Switched, UnderMarker, Broken, NoMarker, IdleInst, IdleRoll, Roller, TypeOK,
            InstType, InstRec, RollType, RollRec, CleanWal, NeverMixed, DiskType, WalType,
            DbType, None, ManualRestores, WholeOf, Pieces, SnapsWhole, Settled, InstWrote,
            disk, record, machine, bounds
<1> USE DEF RollWrote
<1>1. CASE RollFail(r)
  BY <1>1, SMTT(60) DEF RollFail, RollGoto
<1>2. CASE RollStop(r)
  BY <1>2, SMTT(60) DEF RollStop, At, RollGoto, StopStack
<1>3. CASE RollSwitch(r)
  BY <1>3, SMTT(60) DEF RollSwitch, At, RollGoto
<1>4. CASE RollSetAside(r)
  BY <1>4, SMTT(60) DEF RollSetAside, At, RollGoto
<1>5. CASE RollNotStaged(r)
  BY <1>5, SMTT(60) DEF RollNotStaged, At
<1>6. CASE RollRename(r)
  BY <1>6, SMTT(60) DEF RollRename, At, RollGoto
<1>7. CASE RollPutBack(r)
  BY <1>7, SMTT(60) DEF RollPutBack, At
<1>8. CASE RollWalIn(r)
  BY <1>8, SMTT(60) DEF RollWalIn, At, RollGoto
<1>9. CASE \E f \in Files : RollFile(r, f)
  BY <1>9, SMTT(60) DEF RollFile, At
<1>10. CASE RollFilesDone(r)
  BY <1>10, SMTT(60) DEF RollFilesDone, At, RollGoto
<1>11. CASE RollStart(r)
  BY <1>11, SMTT(60) DEF RollStart, At, RollGoto, StartStack, OpenDatabase, OpenedDb, OpenedWal
<1>12. CASE RollHealthy(r)
  BY <1>12, SMTT(60) DEF RollHealthy, At, RollGoto, Healthy
<1>13. CASE RollRecord(r)
  BY <1>13, SMTT(60) DEF RollRecord, At, WriteLast, FailLast, RollGoto
<1>14. CASE RollClear(r)
  BY <1>14, SMTT(60) DEF RollClear, At, ClearInProgress, RollGoto
<1>15. CASE RollPrune(r)
  BY <1>15, PruneRemoves, SMTT(60) DEF RollPrune, At, RollEnd, Free
<1>16. CASE RollFailed(r)
  BY <1>16, SMTT(60) DEF RollFailed, At, ClearInProgress, RollEnd, Free
<1> QED BY <1>1, <1>2, <1>3, <1>4, <1>5, <1>6, <1>7, <1>8, <1>9, <1>10, <1>11, <1>12, <1>13,
           <1>14, <1>15, <1>16 DEF RollStep

LEMMA OthersPieces ==
    ASSUME IInv, Whereabouts, Pieces, ~Broken', OtherStep, CutManual = FALSE
    PROVE  (SnapsWhole /\ Settled /\ InstWrote)'
<1> USE DEF IInv, Protocol, LockHeld, InstKnows, Unmarked, Marked, NotSwitched, InstHolds,
            BeforeMark, AfterMark, RollWaits, Whereabouts, Named, RollNamed, BeforeFiles,
            Switched, UnderMarker, Broken, NoMarker, IdleInst, IdleRoll, Roller, TypeOK,
            InstType, InstRec, RollType, RollRec, CleanWal, NeverMixed, DiskType, WalType,
            DbType, None, ManualRestores, WholeOf, Pieces, SnapsWhole, Settled, InstWrote,
            disk, record, machine, bounds
<1>1. CASE \E v \in Version : InstLock(v)
  BY <1>1, SMTT(60) DEF InstLock
<1>2. CASE WorkerCheck
  BY <1>2, SMTT(60) DEF WorkerCheck, RollGoto
<1>3. CASE WorkerRestart
  BY <1>3, SMTT(60) DEF WorkerRestart
<1>4. CASE \E q \in {"unit", "child"} : RecoverUpdate(q)
  <2>1. PICK q \in {"unit", "child"} : RecoverUpdate(q)
    BY <1>4
  <2>2. UNCHANGED <<current, db, wal, files, inst, snaps, roll["manual"]>>
    BY <2>1 DEF RecoverUpdate
  <2>3. Marked' <=> Marked
    BY <2>1 DEF RecoverUpdate, RecordType
  <2> QED BY <2>2, <2>3
<1>5. CASE \E s \in snaps : ManualPick(s)
  BY <1>5, SMTT(60) DEF ManualPick
<1>6. CASE ManualLock
  BY <1>6, SMTT(60) DEF ManualLock, RollGoto
<1>7. CASE ManualAnswer
  BY <1>7, SMTT(60) DEF ManualAnswer, RollGoto
<1>8. CASE ServerWrites
  BY <1>8, SMTT(60) DEF ServerWrites
<1>9. CASE PowerCut
  BY <1>9, SMTT(60) DEF PowerCut
<1>10. CASE Boot
  BY <1>10, SMTT(60) DEF Boot, StartStack, OpenDatabase, OpenedDb, OpenedWal
<1>11. CASE KillInstaller
  BY <1>11, SMTT(60) DEF KillInstaller, Free
<1> QED BY <1>1, <1>2, <1>3, <1>4, <1>5, <1>6, <1>7, <1>8, <1>9, <1>10, <1>11 DEF OtherStep

LEMMA SnapSame ==
    ASSUME NEW q \in Roller, snaps' = snaps,
           roll'[q].from = roll[q].from, roll'[q].to = roll[q].to
    PROVE  TheSnap(q)' = TheSnap(q)
BY DEF TheSnap, SnapsOf

\* Nobody but a roller that restores disturbs what it has put back: the installer is
\* not there ...
LEMMA InstallerWrote ==
    ASSUME IInv, Whereabouts, NEW q \in Roller, RollWrote(q), InstStep
    PROVE  RollWrote(q)'
<1> USE DEF IInv, Protocol, LockHeld, InstKnows, Unmarked, Marked, NotSwitched, InstHolds,
            BeforeMark, AfterMark, RollWaits, Whereabouts, Named, RollNamed, BeforeFiles,
            Switched, UnderMarker, Broken, NoMarker, IdleInst, IdleRoll, Roller, TypeOK,
            InstType, InstRec, RollType, RollRec, CleanWal, NeverMixed, DiskType, WalType,
            DbType, None, ManualRestores, WholeOf, RollWrote,
           
            disk, record, machine, bounds
<1>1. CASE InstRecoverFirst
  BY <1>1, SnapSame, SMTT(60) DEF InstRecoverFirst, Free, InstGoto, RollGoto
<1>2. CASE InstRecovered
  BY <1>2, SnapSame, SMTT(60) DEF InstRecovered, InstGoto
<1>3. CASE InstStop
  BY <1>3, SnapSame, SMTT(60) DEF InstStop, StopStack
<1>4. CASE InstRepair
  BY <1>4, PruneRemoves, SnapSame, SMTT(60) DEF InstRepair, WriteLast, FailLast, StartStack,
     OpenDatabase, OpenedDb, OpenedWal
<1>5. CASE InstSnapshotClear
  BY <1>5, SnapSame, SMTT(60) DEF InstSnapshotClear, InstGoto
<1>6. CASE InstSnapshot
  BY <1>6, SnapSame, SMTT(60) DEF InstSnapshot, Snapshot, InstGoto
<1>7. CASE InstMark
  BY <1>7, SnapSame, SMTT(60) DEF InstMark, InstGoto
<1>8. CASE InstReleaseClear
  BY <1>8, SnapSame, SMTT(60) DEF InstReleaseClear, InstGoto
<1>9. CASE InstRelease
  BY <1>9, SnapSame, SMTT(60) DEF InstRelease, InstGoto
<1>10. CASE InstMigrate
  BY <1>10, SnapSame, SMTT(60) DEF InstMigrate, InstGoto
<1>11. CASE InstMigrated
  BY <1>11, SnapSame, SMTT(60) DEF InstMigrated
<1>12. CASE \E f \in Files : InstConfigure(f)
  BY <1>12, SnapSame, SMTT(60) DEF InstConfigure
<1>13. CASE InstSwitch
  BY <1>13, SnapSame, SMTT(60) DEF InstSwitch, InstGoto
<1>14. CASE InstStart
  BY <1>14, SnapSame, SMTT(60) DEF InstStart, InstGoto, StartStack, OpenDatabase, OpenedDb,
     OpenedWal
<1>15. CASE InstCommit
  BY <1>15, SnapSame, SMTT(60) DEF InstCommit, WriteLast, FailLast, InstGoto, Healthy
<1>16. CASE InstClear
  BY <1>16, SnapSame, SMTT(60) DEF InstClear, ClearInProgress, InstGoto
<1>17. CASE InstFinish
  BY <1>17, PruneRemoves, SnapSame, SMTT(60) DEF InstFinish, Free
<1>18. CASE InstAbandon
  BY <1>18, SnapSame, SMTT(60) DEF InstAbandon, Free, StartStack, OpenDatabase, OpenedDb,
     OpenedWal
<1>19. CASE InstGiveUp
  BY <1>19, SnapSame, SMTT(60) DEF InstGiveUp, Free
<1>20. CASE InstFail
  BY <1>20, SnapSame, SMTT(60) DEF InstFail, InstGoto
<1> QED BY <1>1, <1>2, <1>3, <1>4, <1>5, <1>6, <1>7, <1>8, <1>9, <1>10, <1>11, <1>12, <1>13,
           <1>14, <1>15, <1>16, <1>17, <1>18, <1>19, <1>20 DEF InstStep

\* ... a roller puts back the pieces of the snapshot it works from ...
LEMMA RollerWrote ==
    ASSUME IInv, Whereabouts, SnapsWhole, NEW q \in Roller, RollWrote(q), RollStep(q)
    PROVE  RollWrote(q)'
<1> USE DEF IInv, Protocol, LockHeld, InstKnows, Unmarked, Marked, NotSwitched, InstHolds,
            BeforeMark, AfterMark, RollWaits, Whereabouts, Named, RollNamed, BeforeFiles,
            Switched, UnderMarker, Broken, NoMarker, IdleInst, IdleRoll, Roller, TypeOK,
            InstType, InstRec, RollType, RollRec, CleanWal, NeverMixed, DiskType, WalType,
            DbType, None, ManualRestores, WholeOf, RollWrote,
           
            disk, record, machine, bounds
<1> USE DEF SnapsWhole, SnapReady, Restoring
<1>1. CASE RollFail(q)
  BY <1>1, SnapChosen, SnapSame, SMTT(60) DEF RollFail, RollGoto
<1>2. CASE RollStop(q)
  BY <1>2, SnapChosen, SnapSame, SMTT(60) DEF RollStop, At, RollGoto, StopStack
<1>3. CASE RollSwitch(q)
  BY <1>3, SnapChosen, SnapSame, SMTT(60) DEF RollSwitch, At, RollGoto
<1>4. CASE RollSetAside(q)
  BY <1>4, SnapChosen, SnapSame, SMTT(60) DEF RollSetAside, At, RollGoto
<1>5. CASE RollNotStaged(q)
  BY <1>5, SnapChosen, SnapSame, SMTT(60) DEF RollNotStaged, At
<1>6. CASE RollRename(q)
  BY <1>6, SnapChosen, SnapSame, SMTT(60) DEF RollRename, At, RollGoto
<1>7. CASE RollPutBack(q)
  BY <1>7, SnapChosen, SnapSame, SMTT(60) DEF RollPutBack, At
<1>8. CASE RollWalIn(q)
  BY <1>8, SnapChosen, SnapSame, SMTT(60) DEF RollWalIn, At, RollGoto
<1>9. CASE \E f \in Files : RollFile(q, f)
  BY <1>9, SnapChosen, SnapSame, SMTT(60) DEF RollFile, At
<1>10. CASE RollFilesDone(q)
  BY <1>10, SnapChosen, SnapSame, SMTT(60) DEF RollFilesDone, At, RollGoto
<1>11. CASE RollStart(q)
  BY <1>11, SnapChosen, SnapSame, SMTT(60) DEF RollStart, At, RollGoto, StartStack,
     OpenDatabase, OpenedDb, OpenedWal
<1>12. CASE RollHealthy(q)
  BY <1>12, SnapChosen, SnapSame, SMTT(60) DEF RollHealthy, At, RollGoto, Healthy
<1>13. CASE RollRecord(q)
  BY <1>13, SnapChosen, SnapSame, SMTT(60) DEF RollRecord, At, WriteLast, FailLast, RollGoto
<1>14. CASE RollClear(q)
  BY <1>14, SnapChosen, SnapSame, SMTT(60) DEF RollClear, At, ClearInProgress, RollGoto
<1>15. CASE RollPrune(q)
  BY <1>15, SnapChosen, PruneRemoves, SnapSame, SMTT(60) DEF RollPrune, At, RollEnd, Free
<1>16. CASE RollFailed(q)
  BY <1>16, SnapChosen, SnapSame, SMTT(60) DEF RollFailed, At, ClearInProgress, RollEnd, Free
<1> QED BY <1>1, <1>2, <1>3, <1>4, <1>5, <1>6, <1>7, <1>8, <1>9, <1>10, <1>11, <1>12, <1>13,
           <1>14, <1>15, <1>16 DEF RollStep

\* ... the other rollers wait ...
LEMMA RollersApart ==
    ASSUME IInv, Whereabouts, NEW q \in Roller, RollWrote(q),
           NEW r \in Roller \ {q}, RollStep(r)
    PROVE  RollWrote(q)'
<1>1. roll[r].pc \notin RollWaits
  BY DEF RollStep, RollFail, RollStop, RollSwitch, RollSetAside, RollNotStaged, RollRename,
         RollPutBack, RollWalIn, RollFile, RollFilesDone, RollStart, RollHealthy,
         RollRecord, RollClear, RollPrune, RollFailed, At, RollWaits
<1>2. roll[q].pc \in RollWaits
  BY <1>1 DEF IInv, Protocol, LockHeld
<1>3. roll'[q] = roll[q]
  BY DEF RollStep, RollFail, RollStop, RollSwitch, RollSetAside, RollNotStaged, RollRename,
         RollPutBack, RollWalIn, RollFile, RollFilesDone, RollStart, RollHealthy,
         RollRecord, RollClear, RollPrune, RollFailed, RollGoto, RollEnd, IInv, TypeOK,
         RollType
<1> QED BY <1>2, <1>3 DEF RollWrote, RollWaits

\* ... and the rest takes the lock first, or only has the server commit.
LEMMA OthersWrote ==
    ASSUME IInv, Whereabouts, NEW q \in Roller, RollWrote(q), OtherStep
    PROVE  RollWrote(q)'
<1> USE DEF IInv, Protocol, LockHeld, InstKnows, Unmarked, Marked, NotSwitched, InstHolds,
            BeforeMark, AfterMark, RollWaits, Whereabouts, Named, RollNamed, BeforeFiles,
            Switched, UnderMarker, Broken, NoMarker, IdleInst, IdleRoll, Roller, TypeOK,
            InstType, InstRec, RollType, RollRec, CleanWal, NeverMixed, DiskType, WalType,
            DbType, None, ManualRestores, WholeOf, RollWrote,
           
            disk, record, machine, bounds
<1> USE DEF StackDown, Down
<1>1. CASE \E v \in Version : InstLock(v)
  BY <1>1, SnapSame, SMTT(60) DEF InstLock
<1>2. CASE WorkerCheck
  BY <1>2, SnapSame, SMTT(60) DEF WorkerCheck, RollGoto
<1>3. CASE WorkerRestart
  BY <1>3, SnapSame, SMTT(60) DEF WorkerRestart
<1>4. CASE \E u \in {"unit", "child"} : RecoverUpdate(u)
  BY <1>4, SnapSame, SMTT(60) DEF RecoverUpdate
<1>5. CASE \E s \in snaps : ManualPick(s)
  BY <1>5, SnapSame, SMTT(60) DEF ManualPick
<1>6. CASE ManualLock
  BY <1>6, SnapSame, SMTT(60) DEF ManualLock, RollGoto
<1>7. CASE ManualAnswer
  BY <1>7, SnapSame, SMTT(60) DEF ManualAnswer, RollGoto
<1>8. CASE ServerWrites
  BY <1>8, SnapSame, SMTT(60) DEF ServerWrites
<1>9. CASE PowerCut
  BY <1>9, SnapSame, SMTT(60) DEF PowerCut
<1>10. CASE Boot
  <2>1. roll' = roll /\ ~powered
    BY <1>10 DEF Boot
  <2>2. roll[q].pc = "idle"
    BY <2>1 DEF PowerOff
  <2> QED BY <2>1, <2>2
<1>11. CASE KillInstaller
  BY <1>11, SnapSame, SMTT(60) DEF KillInstaller, Free
<1> QED BY <1>1, <1>2, <1>3, <1>4, <1>5, <1>6, <1>7, <1>8, <1>9, <1>10, <1>11 DEF OtherStep

\* A failed rollback stays one.
LEMMA ResultsGrow ==
    ASSUME [Next]_vars PROVE results \subseteq results' /\ lost \subseteq lost'
BY DEF Next, InstStep, InstRecoverFirst, InstRecovered, InstStop, InstRepair,
       InstSnapshotClear, InstSnapshot, InstMark, InstReleaseClear, InstRelease,
       InstMigrate, InstMigrated, InstConfigure, InstSwitch, InstStart, InstCommit,
       InstClear, InstFinish, InstAbandon, InstGiveUp, InstFail, RollStep, RollFail,
       RollStop, RollSwitch, RollSetAside, RollNotStaged, RollRename, RollPutBack,
       RollWalIn, RollFile, RollFilesDone, RollStart, RollHealthy, RollRecord, RollClear,
       RollPrune, RollFailed, InstLock, WorkerCheck, WorkerRestart, RecoverUpdate,
       ManualPick, ManualLock, ManualAnswer, ServerWrites, PowerCut, Boot, KillInstaller,
       WriteLast, FailLast, vars, record

LEMMA StepsOf == Next <=> InstStep \/ (\E r \in Roller : RollStep(r)) \/ OtherStep
BY DEF Next, OtherStep

LEMMA OneVersionKept ==
    ASSUME CutManual = FALSE, IInv, OneVersion, [Next]_vars
    PROVE  OneVersion'
<1>1. CASE UNCHANGED vars
  BY <1>1 DEF vars, disk, record, machine, bounds, OneVersion, Whereabouts, Pieces, Named,
              RollNamed, SnapsWhole, Settled, InstWrote, RollWrote, WholeOf, Marked,
              ManualRestores, Broken, TheSnap, SnapsOf
<1>2. CASE Next
  <2>1. Whereabouts'
    BY <1>2, StepsOf, InstallerNamed, RollerNamed, OthersNamed DEF OneVersion
  <2>2. ASSUME ~Broken' PROVE Pieces'
    <3>1. ~Broken
      BY <2>2, ResultsGrow, BrokenGrows
    <3>2. Whereabouts /\ Pieces
      BY <3>1 DEF OneVersion
    <3>3. (SnapsWhole /\ Settled /\ InstWrote)'
      BY <1>2, <2>2, <3>2, StepsOf, InstallerPieces, RollerPieces, OthersPieces DEF Pieces
    <3>4. ASSUME NEW q \in Roller PROVE RollWrote(q)'
      BY <1>2, <3>2, StepsOf, InstallerWrote, RollerWrote, RollersApart, OthersWrote
         DEF Pieces
    <3> QED BY <3>3, <3>4 DEF Pieces
  <2> QED BY <2>1, <2>2 DEF OneVersion
<1> QED BY <1>1, <1>2

LEMMA AlwaysOneVersion ==
    ASSUME CutManual = FALSE PROVE Spec => [](IInv /\ OneVersion)
<1>1. IInv /\ OneVersion /\ [Next]_vars => OneVersion'
  BY OneVersionKept
<1> QED BY <1>1, InitIsOne, Invariance, PTL DEF Spec

\* With nobody at work, no update in progress and no failed rollback, the
\* release, the database, its WAL and every file are one whole version, wherever the
\* installer failed or was killed and the power went; a power cut in a rollback the
\* administrator typed, which nothing at boot finishes, is the one exception.
THEOREM OneWholeVersion ==
    ASSUME CutManual = FALSE PROVE Spec => []Coherent
<1>1. IInv /\ OneVersion => Coherent
  <2> SUFFICES ASSUME IInv, OneVersion, Quiet, ~Broken PROVE WholeVersion
    BY DEF Coherent, Broken
  <2>1. ~Marked /\ ~ManualRestores
    BY DEF Quiet, IInv, Protocol, LockHeld, ManualRestores, Roller, None
  <2> QED BY <2>1 DEF OneVersion, Pieces, Settled, WholeOf, WholeVersion
<1> QED BY <1>1, AlwaysOneVersion, PTL

------------------------------------------------------------------------------
(* The refinement of AtomicUpdate.  Its users see of a step only whether a    *)
(* rollback has failed, the marker, whether the administrator's      *)
(* rollback restores and to which version, and, between updates, the release. *)

Unseen ==
    /\ Broken' <=> Broken
    /\ Marked' <=> Marked
    /\ Marked => marker'.from = marker.from /\ marker'.to = marker.to
    /\ ManualRestores' <=> ManualRestores
    /\ ManualRestores => roll'["manual"].from = roll["manual"].from
    /\ ~Marked /\ ~ManualRestores => current' = current

LEMMA WholeIsStable ==
    ASSUME OneVersion, ~Broken, ~Marked, ~ManualRestores
    PROVE  phaseMap = "stable" /\ goalMap = {current}
BY DEF OneVersion, Pieces, Settled, WholeOf, WholeVersion, phaseMap, goalMap, Broken

LEMMA WholeIsStableNext ==
    ASSUME OneVersion', ~Broken', ~Marked', ~ManualRestores'
    PROVE  phaseMap' = "stable" /\ goalMap' = {current'}
BY DEF OneVersion, Pieces, Settled, WholeOf, WholeVersion, phaseMap, goalMap, Broken

LEMMA UnseenStutters ==
    ASSUME OneVersion, OneVersion', Unseen
    PROVE  UNCHANGED <<phaseMap, goalMap>>
<1>1. CASE Broken
  BY <1>1 DEF Unseen, Broken, phaseMap, goalMap
<1>2. CASE ~Broken /\ (Marked \/ ManualRestores)
  BY <1>2 DEF Unseen, Broken, phaseMap, goalMap
<1>3. CASE ~Broken /\ ~Marked /\ ~ManualRestores
  <2>1. phaseMap = "stable" /\ goalMap = {current}
    BY <1>3, WholeIsStable
  <2>2. phaseMap' = "stable" /\ goalMap' = {current'}
    BY <1>3, WholeIsStableNext DEF Unseen
  <2> QED BY <1>3, <2>1, <2>2 DEF Unseen
<1> QED BY <1>1, <1>2, <1>3

\* What comes after a failed rollback changes nothing.
LEMMA BrokenStays ==
    ASSUME Broken, [Next]_vars
    PROVE  UNCHANGED <<phaseMap, goalMap>>
BY ResultsGrow, BrokenGrows DEF phaseMap, goalMap

LEMMA InstallerUnseen ==
    ASSUME IInv, InstStep, ~InstMark, ~InstClear
    PROVE  Unseen
<1> USE DEF IInv, Protocol, InstKnows, NotSwitched, AfterMark, TypeOK, RollType, Roller,
            Unseen, Marked, ManualRestores, disk, record, machine, bounds
<1>1. UNCHANGED marker /\ (Broken' <=> Broken) /\ roll'["manual"] = roll["manual"]
  BY BrokenSame, ResultBreaks DEF InstStep, InstRecoverFirst, InstRecovered, InstStop, InstRepair,
         InstSnapshotClear, InstSnapshot, InstReleaseClear, InstRelease, InstMigrate,
         InstMigrated, InstConfigure, InstSwitch, InstStart, InstCommit, InstFinish,
         InstAbandon, InstGiveUp, InstFail, RollGoto
<1>2. current' = current \/ Marked
  BY DEF InstStep, InstRecoverFirst, InstRecovered, InstStop, InstRepair,
         InstSnapshotClear, InstSnapshot, InstReleaseClear, InstRelease, InstMigrate,
         InstMigrated, InstConfigure, InstSwitch, InstStart, InstCommit, InstFinish,
         InstAbandon, InstGiveUp, InstFail
<1> QED BY <1>1, <1>2

LEMMA RollerUnseen ==
    ASSUME IInv, Whereabouts, NEW r \in Roller, RollStep(r), ~At(r, "failRecord"),
           ~RollClear(r), ~RollPrune(r), ~RollFailed(r)
    PROVE  Unseen
<1> USE DEF IInv, Protocol, TypeOK, RollType, RollRec, At, RollWaits, Unseen, Marked,
            ManualRestores, Whereabouts, RollNamed, UnderMarker, disk, record
<1>1. UNCHANGED marker /\ (Broken' <=> Broken)
  <2>1. CASE RollRecord(r)
    <3>1. /\ UNCHANGED marker
          /\ \/ WriteLast("rolled-back", roll[r].from, roll[r].to)
             \/ FailLast("rolled-back")
      BY <2>1 DEF RollRecord
    <3>2. Broken' <=> Broken \/ "rolled-back" = "rollback-failed"
      BY <3>1, ResultBreaks
    <3> QED BY <3>1, <3>2
  <2>2. CASE ~RollRecord(r)
    <3>1. UNCHANGED <<marker, results, lost>>
      BY <2>2 DEF RollStep, RollFail, RollStop, RollSwitch, RollSetAside, RollNotStaged,
         RollRename, RollPutBack, RollWalIn, RollFile, RollFilesDone, RollStart, RollHealthy
    <3> QED BY <3>1, BrokenSame
  <2> QED BY <2>1, <2>2
<1>2. current' = current \/ At(r, "switch")
  BY DEF RollStep, RollFail, RollStop, RollSwitch, RollSetAside, RollNotStaged,
         RollRename, RollPutBack, RollWalIn, RollFile, RollFilesDone, RollStart,
         RollHealthy, RollRecord
<1>3. /\ roll[r].pc \notin RollWaits \cup {"confirm"}
      /\ roll'[r].pc \notin RollWaits \cup {"confirm"}
      /\ roll'[r].from = roll[r].from
      /\ \A q \in Roller \ {r} : roll'[q] = roll[q]
  <2>1. CASE RollFail(r) \/ RollStop(r) \/ RollSwitch(r) \/ RollSetAside(r) \/ RollRename(r)
    BY <2>1 DEF RollFail, RollStop, RollSwitch, RollSetAside, RollRename, RollGoto
  <2>2. CASE RollNotStaged(r) \/ RollPutBack(r)
    BY <2>2 DEF RollNotStaged, RollPutBack
  <2>3. CASE RollWalIn(r)
    BY <2>3 DEF RollWalIn, RollGoto
  <2>4. CASE \E f \in Files : RollFile(r, f)
    BY <2>4 DEF RollFile
  <2>5. CASE RollFilesDone(r) \/ RollStart(r) \/ RollHealthy(r) \/ RollRecord(r)
    BY <2>5 DEF RollFilesDone, RollStart, RollHealthy, RollRecord, RollGoto
  <2> QED BY <2>1, <2>2, <2>3, <2>4, <2>5 DEF RollStep
<1>4. "manual" \in Roller
  BY DEF Roller
<1>5. (ManualRestores' <=> ManualRestores)
      /\ roll'["manual"].from = roll["manual"].from
  BY <1>3, <1>4
<1>6. At(r, "switch") => Marked \/ ManualRestores
  BY <1>3
<1> QED BY <1>1, <1>2, <1>5, <1>6

LEMMA OthersUnseen ==
    ASSUME IInv, CutManual = FALSE, OtherStep, ~ManualAnswer
    PROVE  Unseen
<1> USE DEF IInv, TypeOK, RecordType, RollType, RollRec, RollWaits, Unseen, Marked,
            ManualRestores, Roller, IdleRoll, disk, record, machine, bounds
<1>1. UNCHANGED current /\ (Broken' <=> Broken)
  BY BrokenSame DEF OtherStep, InstLock, WorkerCheck, WorkerRestart, RecoverUpdate, ManualPick,
         ManualLock, ServerWrites, PowerCut, Boot, KillInstaller
<1>2. /\ Marked' <=> Marked
      /\ marker'.from = marker.from /\ marker'.to = marker.to
  BY DEF OtherStep, InstLock, WorkerCheck, WorkerRestart, RecoverUpdate, ManualPick,
         ManualLock, ServerWrites, PowerCut, Boot, KillInstaller
<1>3. /\ ManualRestores' <=> ManualRestores
      /\ ManualRestores => roll'["manual"].from = roll["manual"].from
  <2>1. CASE \E v \in Version : InstLock(v)
    BY <2>1 DEF InstLock
  <2>2. CASE WorkerCheck
    BY <2>2 DEF WorkerCheck, RollGoto
  <2>3. CASE WorkerRestart \/ ServerWrites \/ Boot \/ KillInstaller
    BY <2>3 DEF WorkerRestart, ServerWrites, Boot, KillInstaller
  <2>4. CASE \E q \in {"unit", "child"} : RecoverUpdate(q)
    BY <2>4 DEF RecoverUpdate
  <2>5. CASE \E s \in snaps : ManualPick(s)
    BY <2>5 DEF ManualPick
  <2>6. CASE ManualLock
    BY <2>6 DEF ManualLock, RollGoto
  <2>7. CASE PowerCut
    BY <2>7 DEF PowerCut
  <2> QED BY <2>1, <2>2, <2>3, <2>4, <2>5, <2>6, <2>7 DEF OtherStep
<1> QED BY <1>1, <1>2, <1>3

\* Marking an update begins it; clearing the marker of a success settles it.
LEMMA InstallerMaps ==
    ASSUME IInv, OneVersion, OneVersion', ~Broken, ~Broken', InstMark \/ InstClear
    PROVE  Atomic!Next
<1> USE DEF IInv, Protocol, LockHeld, InstKnows, Unmarked, NotSwitched, InstHolds, BeforeMark,
            AfterMark, Marked, Roller, ManualRestores
<1>1. ~ManualRestores
  BY DEF InstMark, InstClear, RollWaits
<1>2. roll' = roll
  BY DEF InstMark, InstClear
<1>3. CASE InstMark
  <2>1. phaseMap = "stable" /\ goalMap = {current}
    BY <1>1, <1>3, WholeIsStable DEF InstMark
  <2>2. Marked' /\ marker'.from = current /\ marker'.to = inst.to
    BY <1>3 DEF InstMark
  <2>3. phaseMap' = "changing" /\ goalMap' = {current, inst.to}
    BY <1>1, <1>2, <2>2 DEF phaseMap, goalMap, Broken
  <2>4. inst.to \in 1 .. MaxVersion
    BY <1>3 DEF InstMark, Version
  <2>5. Atomic!Begin(inst.to)
    BY <2>1, <2>3 DEF Atomic!Begin
  <2> QED BY <2>4, <2>5 DEF Atomic!Next
<1>4. CASE InstClear
  <2>1. Marked /\ current = marker.to
    BY <1>4 DEF InstClear, OneVersion, Whereabouts, Named, Pieces, InstWrote
  <2>2. phaseMap = "changing" /\ current \in goalMap
    BY <1>1, <2>1 DEF phaseMap, goalMap, Broken
  <2>3. ~Marked' /\ current' = current
    BY <1>4 DEF InstClear, ClearInProgress, NoMarker, disk
  <2>4. phaseMap' = "stable" /\ goalMap' = {current}
    BY <1>1, <1>2, <2>3, WholeIsStableNext
  <2>5. Atomic!Settle
    BY <2>2, <2>4 DEF Atomic!Settle
  <2> QED BY <2>5 DEF Atomic!Next
<1> QED BY <1>3, <1>4

\* A recovery settles the update when it clears the marker, the administrator's rollback
\* when it gives the lock back; a failure breaks it when it is recorded.
LEMMA RollerMaps ==
    ASSUME IInv, OneVersion, OneVersion', ~Broken, NEW r \in Roller,
           \/ At(r, "failRecord") /\ RollRecord(r)
           \/ (RollClear(r) \/ RollPrune(r)) /\ ~Broken'
    PROVE  Atomic!Next \/ UNCHANGED <<phaseMap, goalMap>>
<1> USE DEF IInv, Protocol, LockHeld, Unmarked, Marked, RollWaits, At, OneVersion,
            Whereabouts, Named, RollNamed, UnderMarker, Switched, ManualRestores
<1>1. CASE At(r, "failRecord") /\ RollRecord(r)
  <2>1. Marked \/ ManualRestores
    BY <1>1
  <2>2. phaseMap = "changing"
    BY <2>1 DEF phaseMap, Broken
  <2>3. phaseMap' = "broken" /\ goalMap' = {}
    BY <1>1, ResultBreaks DEF RollRecord, phaseMap, goalMap
  <2> QED BY <2>2, <2>3 DEF Atomic!Break, Atomic!Next
<1>2. CASE RollClear(r) /\ r # "manual" /\ ~Broken'
  <2>1. Marked /\ current = marker.from
    BY <1>2 DEF RollClear
  <2>2. ~ManualRestores /\ roll'["manual"] = roll["manual"]
    BY <1>2 DEF RollClear, RollGoto, Roller, TypeOK, RollType
  <2>3. phaseMap = "changing" /\ current \in goalMap
    BY <2>1, <2>2 DEF phaseMap, goalMap, Broken
  <2>4. ~Marked' /\ current' = current
    BY <1>2 DEF RollClear, ClearInProgress, NoMarker, disk
  <2>5. phaseMap' = "stable" /\ goalMap' = {current}
    BY <1>2, <2>2, <2>4, WholeIsStableNext
  <2>6. Atomic!Settle
    BY <2>3, <2>5 DEF Atomic!Settle
  <2> QED BY <2>6 DEF Atomic!Next
<1>3. CASE RollClear(r) /\ r = "manual" /\ ~Broken'
  <2>1. ManualRestores /\ ManualRestores'
    BY <1>3 DEF RollClear, RollGoto, Roller, TypeOK, RollType
  <2>2. roll'["manual"].from = roll["manual"].from
    BY <1>3 DEF RollClear, RollGoto, Roller, TypeOK, RollType, RollRec
  <2> QED BY <1>3, <2>1, <2>2 DEF phaseMap, goalMap, Broken
<1>4. CASE RollPrune(r) /\ r = "manual" /\ ~Broken'
  <2>1. phaseMap = "changing" /\ goalMap = {current}
    BY <1>4 DEF RollPrune, phaseMap, goalMap, Broken
  <2>2. ~Marked' /\ current' = current
    BY <1>4 DEF RollPrune, record
  <2>3. ~ManualRestores'
    BY <1>4 DEF RollPrune, RollEnd, IdleRoll, Roller, TypeOK, RollType
  <2>4. phaseMap' = "stable" /\ goalMap' = {current}
    BY <1>4, <2>2, <2>3, WholeIsStableNext
  <2>5. Atomic!Settle
    BY <2>1, <2>4 DEF Atomic!Settle
  <2> QED BY <2>5 DEF Atomic!Next
<1>5. CASE RollPrune(r) /\ r # "manual" /\ ~Broken'
  <2>1. UNCHANGED <<current, marker, results, lost, roll["manual"]>>
    BY <1>5 DEF RollPrune, RollEnd, record, Roller, TypeOK, RollType
  <2>2. Unseen
    BY <2>1, BrokenSame DEF Unseen
  <2> QED BY <2>2, UnseenStutters
<1> QED BY <1>1, <1>2, <1>3, <1>4, <1>5

\* The administrator's answer begins a way back, in the middle of a dead update too.
LEMMA AnswerMaps ==
    ASSUME IInv, OneVersion, OneVersion', ~Broken, ManualAnswer
    PROVE  Atomic!Next \/ UNCHANGED <<phaseMap, goalMap>>
<1> USE DEF IInv, TypeOK, RollType, RollRec, Roller, RollWaits, ManualRestores
<1>1. /\ ~ManualRestores /\ UNCHANGED <<marker, results, lost, current>>
      /\ Broken' <=> Broken
  BY BrokenSame DEF ManualAnswer, disk, record
<1>2. CASE ManualRestores'
  <2>1. phaseMap \in {"stable", "changing"}
    BY <1>1, WholeIsStable DEF phaseMap
  <2>2. roll'["manual"].from = roll["manual"].from
    BY <1>2 DEF ManualAnswer, RollGoto, IdleRoll
  <2>3. phaseMap' = "changing" /\ goalMap' = {roll["manual"].from}
    BY <1>1, <1>2, <2>2 DEF phaseMap, goalMap
  <2>4. roll["manual"].from \in 1 .. MaxVersion
    BY DEF ManualAnswer, OneVersion, Whereabouts, Named, Version
  <2>5. Atomic!GoBack(roll["manual"].from)
    BY <2>1, <2>3 DEF Atomic!GoBack
  <2> QED BY <2>4, <2>5 DEF Atomic!Next
<1>3. CASE ~ManualRestores'
  <2>1. Unseen
    BY <1>1, <1>3 DEF Unseen, Marked
  <2> QED BY <2>1, UnseenStutters
<1> QED BY <1>2, <1>3

LEMMA StepsMap ==
    ASSUME CutManual = FALSE, IInv, OneVersion, OneVersion', [Next]_vars
    PROVE  [Atomic!Next]_<<phaseMap, goalMap>>
<1>1. CASE Broken
  BY <1>1, BrokenStays
<1>2. CASE ~Broken /\ UNCHANGED vars
  <2>1. Unseen
    BY <1>2 DEF vars, disk, record, Unseen, Broken, Marked, ManualRestores
  <2> QED BY <2>1, UnseenStutters
<1>3. CASE ~Broken /\ InstStep
  <2>1. ASSUME InstMark \/ InstClear PROVE ~Broken'
    BY <1>3, <2>1 DEF InstMark, InstClear, Broken
  <2> QED BY <1>3, <2>1, InstallerUnseen, InstallerMaps, UnseenStutters
<1>4. ASSUME NEW r \in Roller, ~Broken, RollStep(r)
      PROVE  Atomic!Next \/ UNCHANGED <<phaseMap, goalMap>>
  <2>1. ~RollFailed(r)
    BY <1>4 DEF RollFailed, At, OneVersion, Whereabouts, RollNamed
  <2>2. ASSUME RollClear(r) \/ RollPrune(r) PROVE ~Broken'
    BY <1>4, <2>2 DEF RollClear, RollPrune, Broken, record
  <2>3. CASE At(r, "failRecord")
    <3>1. RollRecord(r)
      BY <1>4, <2>3 DEF RollStep, RollFail, RollStop, RollSwitch, RollSetAside,
         RollNotStaged, RollRename, RollPutBack, RollWalIn, RollFile, RollFilesDone,
         RollStart, RollHealthy, RollRecord, RollClear, RollPrune, RollFailed, At
    <3> QED BY <1>4, <2>3, <3>1, RollerMaps
  <2>4. CASE ~At(r, "failRecord") /\ (RollClear(r) \/ RollPrune(r))
    BY <1>4, <2>2, <2>4, RollerMaps
  <2>5. CASE ~At(r, "failRecord") /\ ~RollClear(r) /\ ~RollPrune(r)
    <3>1. Unseen
      BY <1>4, <2>1, <2>5, RollerUnseen DEF OneVersion
    <3> QED BY <3>1, UnseenStutters
  <2> QED BY <2>3, <2>4, <2>5
<1>5. CASE ~Broken /\ OtherStep
  BY <1>5, OthersUnseen, AnswerMaps, UnseenStutters
<1> QED BY <1>1, <1>2, <1>3, <1>4, <1>5, StepsOf

LEMMA InitMaps == Init => Atomic!Init
BY DEF Init, Atomic!Init, phaseMap, goalMap, Marked, NoMarker, ManualRestores, RollWaits,
       IdleRoll, Roller, WholeVersion, Broken

\* The update is atomic to its users: installer, recoveries, rollback and crashes together
\* implement AtomicUpdate, where an update ends as the new version or the previous one, or
\* reports a failed rollback, or fails to write even that (a power cut in a typed rollback
\* excepted, as above).
THEOREM UpdateIsAtomic ==
    ASSUME CutManual = FALSE PROVE Spec => RefinesAtomicUpdate
<1>1. /\ IInv /\ OneVersion /\ (IInv /\ OneVersion)' /\ [Next]_vars
      => [Atomic!Next]_<<phaseMap, goalMap>>
  BY StepsMap
<1> QED BY <1>1, InitMaps, AlwaysOneVersion, PTL DEF Spec, RefinesAtomicUpdate, Atomic!Spec
==============================================================================
