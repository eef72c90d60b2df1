---------------------------- MODULE VolumeCheck ----------------------------
(***************************************************************************)
(* The check of one HSI data volume (root-worker/volumes.go).              *)
(*                                                                         *)
(* Two kinds of process run it: the worker service, one request at a time, *)
(* and `hsi-worker volumes` from a shell.  They share one file,            *)
(* /run/hsi-worker/volumes-absent.json, which says that the volume's disk  *)
(* was seen absent.  A check loads the file first, looks at the mount and  *)
(* the disk, may mount the volume, and saves its own copy last: the lock   *)
(* of volumes.go covers the load and the save, not what lies between, and  *)
(* it is one process's lock.  The save truncates the file, then writes it: *)
(* a process killed between the two, or another that loads then, finds no  *)
(* volume absent.                                                          *)
(*                                                                         *)
(* The rest of the machine is the environment: the disk is pulled and      *)
(* plugged, the administrator mounts and unmounts, an I/O error remounts   *)
(* the file system read-only, the machine reboots.                         *)
(*                                                                         *)
(* No name is also one of VolumeGuard: one module can extend both.         *)
(***************************************************************************)
EXTENDS Naturals

CONSTANTS Worker,        \* the worker service
          Shells,        \* runs of `hsi-worker volumes`
          MaxIncidents,  \* bound on the events of the environment
          MaxFails       \* bound on the mounts that fail, and on checks that die

ASSUME VolumeCheckAssumption ==
    /\ Worker \notin Shells
    /\ MaxIncidents \in Nat
    /\ MaxFails \in Nat

VARIABLES
    present,   \* the disk with the volume's UUID is attached
    mount,     \* what is mounted at the mount point
    absent,    \* volumes-absent.json can be read and says the disk was seen absent
    check,     \* the check each process has in hand
    reported,  \* the state the worker last replied to the backend
    left,      \* history: the disk was away at some time since the boot
    unmounted, \* history: the administrator unmounted it, and no one touched it since
    blurred,   \* history: since the last whole save, one was cut short or read half way
    incidents,
    fails

disk == <<present, mount, left, unmounted>>
diskVars == <<present, mount, absent, check, reported, left, unmounted, blurred,
              incidents, fails>>

Checkers == {Worker} \cup Shells

Mounts == {"none", "right", "readonly", "other"}
States == {"ok", "missing", "wrong", "readonly", "unmounted"}

\* A check: where it is, the flag it will save, the state it will report, whether
\* another wrote the file since this one truncated it, and (history) whether the
\* administrator had the volume unmounted when it began.
Idle == [at |-> "idle", seen |-> FALSE, state |-> "ok", over |-> FALSE, after |-> FALSE]

----------------------------------------------------------------------------
(* The check. *)

\* volumeStateFor, for an fstab entry without the option ro.  A stale mount,
\* whose device has left, has no UUID any more and reads as another disk.
VolumeState(m) ==
    CASE m = "none" -> "missing"
      [] m = "other" -> "wrong"
      [] m = "readonly" -> "readonly"
      [] m = "right" -> "ok"

\* MUTANT: a mount that is not there and whose disk is there is mounted.
RemountEager(there, seen) == there

\* missingVolumeAction: mount again only a disk that was away and is back.
Remount(there, seen) == there /\ seen

Goto(c, at) == check' = [check EXCEPT ![c].at = at]
Decide(c, at, seen, state) ==
    check' = [check EXCEPT ![c].at = at, ![c].seen = seen, ![c].state = state]

\* The file is empty between the truncation of a save and its write.
Truncated == \E d \in Checkers : check[d].at = "write" /\ ~check[d].over

\* The file is read, once, before anything else.
CheckLoad(c) ==
    /\ check[c].at = "idle"
    /\ check' = [check EXCEPT ![c] = [at |-> "look", seen |-> absent, state |-> "ok",
                                      over |-> FALSE, after |-> unmounted]]
    /\ blurred' = (blurred \/ Truncated)
    /\ UNCHANGED <<disk, absent, reported, incidents, fails>>

\* /proc/self/mountinfo is read: a mounted volume leaves the file's map.
CheckLook(c) ==
    /\ check[c].at = "look"
    /\ LET state == VolumeState(mount)
       IN  IF state = "missing"
           THEN Goto(c, "device")
           ELSE Decide(c, "save", FALSE, state)
    /\ UNCHANGED <<disk, absent, reported, blurred, incidents, fails>>

\* /dev/disk/by-uuid is read, and missingVolumeAction decides.
CheckDevice(c) ==
    /\ check[c].at = "device"
    /\ IF Remount(present, check[c].seen)
       THEN Decide(c, "mount", FALSE, "missing")
       ELSE IF present
            THEN Decide(c, "save", FALSE, "unmounted")
            ELSE Decide(c, "save", TRUE, "missing")
    /\ UNCHANGED <<disk, absent, reported, blurred, incidents, fails>>

\* `mount <mount point>` through the fstab entry, and a second look.
CheckMount(c) ==
    /\ check[c].at = "mount"
    /\ present /\ mount = "none"
    /\ mount' = "right"
    /\ unmounted' = FALSE
    /\ Goto(c, "relook")
    /\ UNCHANGED <<present, left, absent, reported, blurred, incidents, fails>>

CheckRelook(c) ==
    /\ check[c].at = "relook"
    /\ Decide(c, "save", FALSE, VolumeState(mount))
    /\ UNCHANGED <<disk, absent, reported, blurred, incidents, fails>>

\* MUTANT: the disk is forgotten when its mount fails.
CheckMountForgets(c) ==
    /\ check[c].at = "mount"
    /\ Decide(c, "save", FALSE, "missing")
    /\ IF present /\ mount = "none"
       THEN fails < MaxFails /\ fails' = fails + 1
       ELSE UNCHANGED fails
    /\ UNCHANGED <<disk, absent, reported, blurred, incidents>>

\* The mount fails: the disk is gone, something is mounted there already, or
\* the file system is not clean.  The next check tries again.
CheckMountFails(c) ==
    /\ check[c].at = "mount"
    /\ Decide(c, "save", TRUE, "missing")
    /\ IF present /\ mount = "none"
       THEN fails < MaxFails /\ fails' = fails + 1
       ELSE UNCHANGED fails
    /\ UNCHANGED <<disk, absent, reported, blurred, incidents>>

\* saveVolumeAbsent, deferred to the return of the check: os.WriteFile truncates
\* the file, and a file that does not parse reads as no volume absent ...
CheckSave(c) ==
    /\ check[c].at = "save"
    /\ absent' = FALSE
    /\ Goto(c, "write")
    /\ UNCHANGED <<disk, reported, blurred, incidents, fails>>

Reply(c) == reported' = IF c = Worker THEN check[c].state ELSE reported

\* ... then writes this process's copy.  Over another's copy it may leave the tail
\* of the longer one, which does not parse either.
CheckWrite(c) ==
    /\ check[c].at = "write"
    /\ absent' \in IF check[c].over THEN {check[c].seen, FALSE} ELSE {check[c].seen}
    /\ blurred' = check[c].over
    /\ Reply(c)
    /\ check' = [d \in Checkers |-> IF d = c THEN Idle
                                   ELSE [check[d] EXCEPT !.over = (check[d].at = "write")]]
    /\ UNCHANGED <<disk, incidents, fails>>

\* The errors of the save are dropped: /run could not be written.
CheckSaveFails(c) ==
    /\ check[c].at \in {"save", "write"}
    /\ fails < MaxFails
    /\ fails' = fails + 1
    /\ blurred' = (blurred \/ check[c].at = "write")
    /\ Reply(c)
    /\ check' = [check EXCEPT ![c] = Idle]
    /\ UNCHANGED <<disk, absent, incidents>>

\* The process is killed in the middle of a check: nothing more is saved.
CheckDies(c) ==
    /\ check[c].at # "idle"
    /\ fails < MaxFails
    /\ fails' = fails + 1
    /\ blurred' = (blurred \/ check[c].at = "write")
    /\ check' = [check EXCEPT ![c] = Idle]
    /\ UNCHANGED <<disk, absent, reported, incidents>>

----------------------------------------------------------------------------
(* The machine and its administrator. *)

Incident == incidents < MaxIncidents /\ incidents' = incidents + 1

\* The disk is pulled; the mount goes with it, or stays behind it, stale.
Unplug ==
    /\ present
    /\ present' = FALSE
    /\ left' = TRUE
    /\ unmounted' = FALSE
    /\ mount' \in IF mount = "none" THEN {"none"} ELSE {"none", "other"}
    /\ Incident
    /\ UNCHANGED <<absent, check, reported, blurred, fails>>

Plug ==
    /\ ~present
    /\ present' = TRUE
    /\ Incident
    /\ UNCHANGED <<mount, left, unmounted, absent, check, reported, blurred, fails>>

AdminMount ==
    /\ present /\ mount = "none"
    /\ mount' = "right"
    /\ unmounted' = FALSE
    /\ Incident
    /\ UNCHANGED <<present, left, absent, check, reported, blurred, fails>>

AdminUnmount ==
    /\ mount # "none"
    /\ mount' = "none"
    /\ unmounted' = present
    /\ Incident
    /\ UNCHANGED <<present, left, absent, check, reported, blurred, fails>>

\* errors=remount-ro
IoError ==
    /\ mount = "right"
    /\ mount' = "readonly"
    /\ Incident
    /\ UNCHANGED <<present, left, unmounted, absent, check, reported, blurred, fails>>

\* /run is empty after a boot, and fstab (nofail) mounts what is there.
Reboot ==
    /\ absent' = FALSE
    /\ mount' = IF present THEN "right" ELSE "none"
    /\ check' = [c \in Checkers |-> Idle]
    /\ left' = ~present
    /\ unmounted' = FALSE
    /\ blurred' = FALSE
    /\ Incident
    /\ UNCHANGED <<present, reported, fails>>

----------------------------------------------------------------------------
DiskInit ==
    /\ present = TRUE
    /\ mount = "right"
    /\ absent = FALSE
    /\ check = [c \in Checkers |-> Idle]
    /\ reported = "ok"
    /\ left = FALSE
    /\ unmounted = FALSE
    /\ blurred = FALSE
    /\ incidents = 0
    /\ fails = 0

CheckStep(c) ==
    \/ CheckLoad(c)
    \/ CheckLook(c)
    \/ CheckDevice(c)
    \/ CheckMount(c)
    \/ CheckMountFails(c)
    \/ CheckRelook(c)
    \/ CheckSave(c)
    \/ CheckWrite(c)

DiskNext ==
    \/ \E c \in Checkers : CheckStep(c) \/ CheckSaveFails(c) \/ CheckDies(c)
    \/ Unplug \/ Plug
    \/ AdminMount \/ AdminUnmount
    \/ IoError
    \/ Reboot

DiskSpec == DiskInit /\ [][DiskNext]_diskVars

\* The backend asks the worker every minute, for ever, and a check that has
\* begun goes on.  Nobody has to run the shell command.
DiskFairSpec ==
    /\ DiskSpec
    /\ WF_diskVars(CheckStep(Worker))
    /\ \A c \in Shells : WF_diskVars(check[c].at # "idle" /\ CheckStep(c))

----------------------------------------------------------------------------
(* Properties. *)

CheckRec == [at : {"idle", "look", "device", "mount", "relook", "save", "write"},
             seen : BOOLEAN,
             state : States,
             over : BOOLEAN,
             after : BOOLEAN]

\* TYPE: every variable holds a value the program can give it.
DiskTypeOK ==
    /\ present \in BOOLEAN
    /\ mount \in Mounts
    /\ absent \in BOOLEAN
    /\ check \in [Checkers -> CheckRec]
    /\ reported \in States
    /\ left \in BOOLEAN
    /\ unmounted \in BOOLEAN
    /\ blurred \in BOOLEAN
    /\ incidents \in 0 .. MaxIncidents
    /\ fails \in 0 .. MaxFails

Mounted(c) == check[c].at = "mount" /\ check'[c].at = "relook"

\* A check mounts a volume only if its disk was away at some time since the
\* boot: a disk that was there all along "was unmounted on purpose, or is not
\* mounted yet" (volumes.go:126-129), whatever the checks overwrite of each
\* other's file.
OnlyReturned == [][\A c \in Checkers : Mounted(c) => left]_diskVars

\* "A volume you unmount yourself is never remounted automatically"
\* (storage-plans.md:76).  It is, when the file still says that its disk was
\* away: no check saw it mounted between the return of the disk and the unmount.
\* The check that mounts it here began after the unmount.
UnmountRespected == [][\A c \in Checkers : Mounted(c) => ~(unmounted /\ check[c].after)]_diskVars

Still == present /\ mount = "none" /\ absent /\ incidents = MaxIncidents
AllIdle == \A c \in Checkers : check[c].at = "idle"

\* A disk that a finished check saw away, and that is back for good, is mounted in
\* the end: through failed mounts, checks of both processes that cross and checks
\* that are killed, as long as no save is cut short, and no file read, half way.
ReturnMounted == (Still /\ AllIdle) ~> (mount = "right" \/ blurred)
============================================================================
