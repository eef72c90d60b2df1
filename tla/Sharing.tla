------------------------------ MODULE Sharing ------------------------------
(***************************************************************************)
(* Samba shares and the accounts that reach them: the database says who    *)
(* may use what, the root worker writes smb.conf and the hsi-share group,  *)
(* and the backend keeps both in line (sharing.service.ts).                *)
(*                                                                         *)
(* Edits of permissions, groups, roles, places and held volumes change the *)
(* database and then queue a sync.  Plans (sharing-plan.ts, user-plan.ts,  *)
(* volume-remove-plan.ts) change the server first and the database last.   *)
(* Syncs and plans run one at a time, in the order they asked for the      *)
(* share lock; each reads the database in several steps, while edits go    *)
(* on.  The creation of a volume (volume-plan.ts) prepares its share       *)
(* without the lock, minutes before it asks for it.  The worker may fail,  *)
(* answer too late for its caller, or never.                               *)
(*                                                                         *)
(* A share is on, off or absent, a permission is to write; names, read     *)
(* only and guest flags are left out, and Samba is installed.  A place is  *)
(* the folder of a volume; of disks there is only whether a chain of       *)
(* commands on them ended well.                                            *)
(***************************************************************************)
EXTENDS Naturals, Sequences, FiniteSets

CONSTANTS Users, Places,
          MaxEdits, MaxFaults  \* bounds

ASSUME SharingAssumption == MaxEdits \in Nat /\ MaxFaults \in Nat

VARIABLES
    db,      \* the rows of users, places, permissions, shares and held volumes
    conf,    \* smb.conf
    roster,  \* the members of the hsi-share group
    queue,   \* shareLock: who holds it, then who waits for it
    making,  \* the creation of a volume with its place and share, before the lock
    due,     \* edits written, whose syncs are not queued yet
    late,    \* requests nobody waits for any more, that the worker still has
    owed,    \* history: what a failed or unanswered request, a place or a hold left in doubt
    edits, faults

vars == <<db, conf, roster, queue, making, due, late, owed, edits, faults>>

Edit == edits < MaxEdits /\ edits' = edits + 1
Fault == faults < MaxFaults /\ faults' = faults + 1

----------------------------------------------------------------------------
(* What the database asks for *)

ShareRows(d) == {[place |-> p, on |-> d.shares[p] = "on"] :
                 p \in {q \in Places : d.shares[q] # "none"}}

\* Per place: those with a permission and the admins, and whether its volume is held.
Defs(rows, d) == {[place |-> r.place, users |-> d.perms[r.place] \cup d.admins,
                   held |-> r.place \in d.held] : r \in {s \in rows : s.on}}

Desired == Defs(ShareRows(db), db)

PlaceRows(d) == {[place |-> p, on |-> TRUE] : p \in d.places}
Members(defs) == UNION {s.users : s \in defs}
WritersOf(d) == Members(Defs(PlaceRows(d), d))
Writers == WritersOf(db)

DropUserFromDefs(defs, who) == {[s EXCEPT !.users = @ \ who] : s \in defs}

\* A task that asked for the lock: what it changes, and what it read since it has it.
Task(kind, op, place, who) ==
    [kind |-> kind, at |-> "rows", op |-> op, place |-> place, who |-> who, rows |-> {},
     defs |-> {}, confSeen |-> {}, rosterSeen |-> {}, resync |-> FALSE,
     volume |-> {}, gone |-> FALSE]

SyncShares == Task("sync", "none", {}, {})
SyncPlaceAccess == Task("access", "none", {}, {})
SyncSharesBestEffort == <<SyncShares, SyncPlaceAccess>>

\* The rows as they will be after the change of a plan.
OverlayShares(rows, t) ==
    CASE t.op = "create" -> rows \cup {[place |-> p, on |-> TRUE] : p \in t.place}
      [] t.op \in {"remove", "shared"} -> {r \in rows : r.place \notin t.place}
      [] t.op \in {"enable", "disable"} ->
           {[r EXCEPT !.on = IF r.place \in t.place THEN t.op = "enable" ELSE @] : r \in rows}
      [] OTHER -> rows

----------------------------------------------------------------------------
(* The lock *)

Running == queue # <<>>
Holder == queue[1]

\* The lock goes to the next task; what this one asks for joins the end.
EndWith(tasks) == queue' = Tail(queue) \o tasks
End == EndWith(<<>>)
Go(at) == queue' = [queue EXCEPT ![1].at = at]
Owe(what) == owed' = owed \cup what

----------------------------------------------------------------------------
(* Requests to the worker *)

\* What the task at work asks of the worker.
Request ==
    LET t == Holder IN
    CASE t.kind = "sync" -> [to |-> "sync", defs |-> t.defs, who |-> {}, seen |-> {}]
      [] t.kind = "access" -> [to |-> "access", defs |-> {}, who |-> Members(t.defs), seen |-> {}]
      [] t.at = "leave" -> [to |-> "leave", defs |-> {}, who |-> t.who, seen |-> t.rosterSeen]
      [] OTHER -> [to |-> "apply", defs |-> t.defs, who |-> {},
                     seen |-> IF t.kind = "share" THEN conf ELSE t.confSeen]

Subject(m) == IF m.to = "leave" THEN "apply" ELSE m.to

\* A plan is still the one previewed; a sync compares nothing.
Fresh(m) == CASE m.to = "apply" -> m.seen = conf
              [] m.to = "leave" -> m.seen = roster
              [] OTHER -> TRUE

Serve(m) ==
    CASE m.to \in {"sync", "apply"} -> conf' = m.defs /\ UNCHANGED roster
      [] m.to = "access" -> roster' = m.who /\ UNCHANGED conf
      [] m.to = "leave" -> roster' = roster \ m.who /\ UNCHANGED conf

\* One subject's requests are served in turn.  The answer is good, refuses a plan that is
\* no longer the one shown, or reports a failed step, before or after the file was written;
\* or none comes, and the request was served, was lost, or will be served later.
Ask(ok, stale, failed, lost) ==
    LET m == Request
        turn == /\ \A l \in late : Subject(l) # Subject(m)
                /\ Subject(m) = "apply" => making.at # "chain"
        not == UNCHANGED <<conf, roster>>
    IN \/ turn /\ Fresh(m) /\ Serve(m) /\ ok /\ UNCHANGED <<late, faults>>
       \/ turn /\ ~Fresh(m) /\ not /\ stale /\ UNCHANGED <<late, faults>>
       \/ turn /\ Fresh(m) /\ Fault /\ (Serve(m) \/ not) /\ failed /\ UNCHANGED late
       \/ /\ Fault /\ lost
          /\ \/ Fresh(m) /\ Serve(m) /\ UNCHANGED late
             \/ not /\ late' \in {late, late \cup {m}}

LateRun ==
    \E m \in late :
        /\ late' = late \ {m}
        /\ IF Fresh(m)
           THEN Serve(m) /\ Owe({IF m.to \in {"sync", "apply"} THEN "conf" ELSE "roster"})
           ELSE UNCHANGED <<conf, roster, owed>>
        /\ UNCHANGED <<db, queue, making, due, edits, faults>>

----------------------------------------------------------------------------
(* Tasks, once they have the lock *)

\* desiredShareDefs and syncPlaceAccessNow: the shares or places, then who may use them.
ReadRows ==
    /\ Running /\ Holder.at = "rows"
    /\ queue' = [queue EXCEPT ![1].at = "people",
                              ![1].rows = IF Holder.kind = "access" THEN PlaceRows(db)
                                          ELSE OverlayShares(ShareRows(db), Holder)]
    /\ owed' = owed \ (CASE Holder.kind = "sync" -> {"held"}
                         [] Holder.kind = "access" -> {"place"}
                         [] OTHER -> {})
    /\ UNCHANGED <<db, conf, roster, making, due, late, edits, faults>>

ReadPeople ==
    /\ Running /\ Holder.at = "people"
    /\ queue' = [queue EXCEPT ![1].at = CASE Holder.kind = "user" -> "named"
                                           [] Holder.kind = "remove" -> "parts"
                                           [] OTHER -> "ask",
                              ![1].defs = DropUserFromDefs(Defs(Holder.rows, db), Holder.who)]
    /\ UNCHANGED <<db, conf, roster, making, due, late, owed, edits, faults>>

\* Failures are logged and nothing else.
Sync ==
    /\ Running /\ Holder.kind = "sync" /\ Holder.at = "ask"
    /\ Ask(End /\ owed' = owed \ {"conf"}, FALSE, End /\ Owe({"conf"}), End /\ Owe({"conf"}))
    /\ UNCHANGED <<db, making, due, edits>>

Access ==
    /\ Running /\ Holder.kind = "access" /\ Holder.at = "ask"
    /\ Ask(End /\ owed' = owed \ {"roster"}, FALSE, End /\ Owe({"roster"}), End /\ Owe({"roster"}))
    /\ UNCHANGED <<db, making, due, edits>>

\* applyShareChange: what was shown is no longer so, or smb.conf is written and the row is
\* next.  After an answer that never came nothing is resynced.
ShareApply ==
    /\ Running /\ Holder.kind = "share" /\ Holder.at = "ask"
    /\ \/ End /\ UNCHANGED <<conf, roster, late, owed, faults>>
       \/ Ask(Go("commit") /\ UNCHANGED owed, FALSE,
              EndWith(<<SyncShares>>) /\ UNCHANGED owed, End /\ Owe({"conf"}))
    /\ UNCHANGED <<db, making, due, edits>>

\* The row, unless it or its place went, or came, since the plan was prepared.
Rowed(t) == \A p \in t.place : IF t.op = "create" THEN p \in db.places /\ db.shares[p] = "none"
                               ELSE db.shares[p] # "none"
Committed(t) ==
    LET state == CASE t.op \in {"create", "enable"} -> "on"
                   [] t.op = "disable" -> "off"
                   [] OTHER -> "none"
    IN [db EXCEPT !.shares = [p \in Places |-> IF p \in t.place THEN state ELSE @[p]]]

\* MUTANT: what was written for a row that never came stays.
ShareCommitForgets ==
    /\ Running /\ Holder.kind = "share" /\ Holder.at = "commit"
    /\ \/ Rowed(Holder) /\ db' = Committed(Holder) /\ End /\ UNCHANGED faults
       \/ ~Rowed(Holder) /\ UNCHANGED <<db, faults>> /\ End
       \/ Fault /\ UNCHANGED db /\ End
    /\ UNCHANGED <<conf, roster, making, due, late, owed, edits>>

\* MUTANT: the resync is awaited before the lock is given back.
ShareCommitResyncs ==
    /\ Running /\ Holder.kind = "share" /\ Holder.at = "commit"
    /\ \/ Rowed(Holder) /\ db' = Committed(Holder) /\ End /\ UNCHANGED faults
       \/ /\ ~Rowed(Holder) /\ UNCHANGED <<db, faults>>
          /\ queue' = Append([queue EXCEPT ![1].at = "resync"], SyncShares)
       \/ Fault /\ UNCHANGED db /\ EndWith(<<SyncShares>>)
    /\ UNCHANGED <<conf, roster, making, due, late, owed, edits>>

ShareCommit ==
    /\ Running /\ Holder.kind = "share" /\ Holder.at = "commit"
    /\ \/ Rowed(Holder) /\ db' = Committed(Holder) /\ End /\ UNCHANGED faults
       \/ ~Rowed(Holder) /\ UNCHANGED <<db, faults>> /\ EndWith(<<SyncShares>>)
       \/ Fault /\ UNCHANGED db /\ EndWith(<<SyncShares>>)
    /\ UNCHANGED <<conf, roster, making, due, late, owed, edits>>

\* MUTANT: somebody no share names is taken for somebody in no group.
DeletePreviewsSkipGroup ==
    /\ Running /\ Holder.at = "named"
    /\ \/ End
       \/ queue' = [queue EXCEPT ![1].at = IF Holder.defs # Desired THEN "smb" ELSE "commit",
                                 ![1].confSeen = conf, ![1].rosterSeen = roster]
    /\ UNCHANGED <<db, conf, roster, making, due, late, owed, edits, faults>>

\* deletePreviews: smb.conf is part of the plan only if the database names the user in a
\* share; or the plan is no longer the one shown.
DeletePreviews ==
    /\ Running /\ Holder.at = "named"
    /\ \/ End
       \/ queue' = [queue EXCEPT ![1].at = IF Holder.defs # Desired THEN "smb" ELSE "leave",
                                 ![1].confSeen = conf, ![1].rosterSeen = roster]
    /\ UNCHANGED <<db, conf, roster, making, due, late, owed, edits, faults>>

\* applyUserDelete: the shares, the group, and the row last.
Resync == IF Holder.resync THEN EndWith(SyncSharesBestEffort) ELSE End

UserShares ==
    /\ Running /\ Holder.at = "smb"
    /\ Ask(/\ queue' = [queue EXCEPT ![1].at = "leave", ![1].resync = TRUE]
           /\ UNCHANGED owed,
           End /\ UNCHANGED owed,
           EndWith(SyncSharesBestEffort) /\ UNCHANGED owed,
           End /\ Owe({"conf"}))
    /\ UNCHANGED <<db, making, due, edits>>

UserGroup ==
    /\ Running /\ Holder.at = "leave"
    /\ Ask(Go("commit") /\ UNCHANGED owed, Resync /\ UNCHANGED owed,
           Resync /\ Owe({"roster"}), Resync /\ Owe({"roster"}))
    /\ UNCHANGED <<db, making, due, edits>>

Without(u) ==
    [db EXCEPT !.users = @ \ u, !.admins = @ \ u, !.perms = [p \in Places |-> @[p] \ u]]

\* When the row stays and no share was changed, nobody puts the user back in the group.
UserCommit ==
    /\ Running /\ Holder.kind = "user" /\ Holder.at = "commit"
    /\ \/ /\ Holder.who \subseteq db.users /\ db' = Without(Holder.who)
          /\ EndWith(<<SyncPlaceAccess>>) /\ UNCHANGED <<owed, faults>>
       \/ /\ IF Holder.who \subseteq db.users THEN Fault ELSE UNCHANGED faults
          /\ Resync /\ UNCHANGED db
          /\ Owe(IF Holder.resync THEN {} ELSE {"roster"})
    /\ UNCHANGED <<conf, roster, making, due, late, edits>>

----------------------------------------------------------------------------
(* Volumes: a removal takes the shares, the disks and the places, in that order *)

\* parts of volume-remove-plan.ts: shares are part of the plan if the target, read before
\* the lock, had one; or the plan is no longer the one shown.
RemoveParts ==
    /\ Running /\ Holder.at = "parts"
    /\ \/ End
       \/ queue' = [queue EXCEPT ![1].at = IF Holder.op = "shared" THEN "drop" ELSE "disks",
                                 ![1].confSeen = conf]
    /\ UNCHANGED <<db, conf, roster, making, due, late, owed, edits, faults>>

RemoveShares ==
    /\ Running /\ Holder.at = "drop"
    /\ Ask(/\ queue' = [queue EXCEPT ![1].at = "disks", ![1].resync = TRUE]
           /\ UNCHANGED owed,
           End /\ UNCHANGED owed,
           EndWith(SyncSharesBestEffort) /\ UNCHANGED owed,
           End /\ Owe({"conf"}))
    /\ UNCHANGED <<db, making, due, edits>>

\* The chain ends well, or one of its steps fails or no answer comes.
RemoveDisks ==
    /\ Running /\ Holder.at = "disks" /\ making.at # "chain"
    /\ \/ queue' = [queue EXCEPT ![1].at = "places", ![1].resync = FALSE]
       \/ Resync
    /\ UNCHANGED <<db, conf, roster, making, due, late, owed, edits, faults>>

\* place.delete, with its permissions and its share
Deleted(p) == [db EXCEPT !.places = @ \ {p}, !.perms[p] = {}, !.shares[p] = "none"]

\* One place after another.  The first that is gone already, or cannot be deleted, is the
\* last: the shares of those left are not written back.  Nor is a share taken out of
\* smb.conf that came after the target was read.
RemovePlace ==
    /\ Running /\ Holder.at = "places" /\ Holder.place # {}
    /\ \E p \in Holder.place :
          \/ /\ p \in db.places /\ db' = Deleted(p)
             /\ queue' = [queue EXCEPT ![1].place = @ \ {p}, ![1].gone = TRUE]
             /\ Owe(IF Holder.op = "unshared" /\ db.shares[p] = "on" THEN {"conf"} ELSE {})
             /\ UNCHANGED faults
          \/ /\ IF p \in db.places THEN Fault ELSE UNCHANGED faults
             /\ EndWith(IF Holder.gone THEN <<SyncPlaceAccess>> ELSE <<>>)
             /\ Owe(IF Holder.op = "shared" /\ Holder.place \cap db.places # {}
                    THEN {"conf"} ELSE {})
             /\ UNCHANGED db
    /\ UNCHANGED <<conf, roster, making, due, late, edits>>

\* releaseHold, then the members of the group
RemoveRelease ==
    /\ Running /\ Holder.at = "places" /\ Holder.place = {}
    /\ db' = [db EXCEPT !.held = @ \ Holder.volume]
    /\ EndWith(<<SyncPlaceAccess>>)
    /\ UNCHANGED <<conf, roster, making, due, late, owed, edits, faults>>

----------------------------------------------------------------------------
(* Volumes: a creation makes the disks, the place and the share, in that order *)

NotMaking == [at |-> "no", place |-> {}, rows |-> {}, defs |-> {}, confSeen |-> {}]

\* The share plan of a volume, with what was read before the lock.
VolumeShare == [Task("volume", "create", making.place, {})
                  EXCEPT !.at = "ask", !.defs = making.defs, !.confSeen = making.confSeen]

\* parts of volume-plan.ts
MakeRows ==
    /\ making.at = "rows"
    /\ making' = [making EXCEPT !.at = "people",
                    !.rows = OverlayShares(ShareRows(db), Task("volume", "create", making.place, {}))]
    /\ UNCHANGED <<db, conf, roster, queue, due, late, owed, edits, faults>>

MakePeople ==
    /\ making.at = "people"
    /\ making' = [making EXCEPT !.at = "preview", !.defs = Defs(making.rows, db)]
    /\ UNCHANGED <<db, conf, roster, queue, due, late, owed, edits, faults>>

\* No longer what was shown, or on with the disks.
MakePreview ==
    /\ making.at = "preview"
    /\ making' \in {NotMaking, [making EXCEPT !.at = "chain", !.confSeen = conf]}
    /\ UNCHANGED <<db, conf, roster, queue, due, late, owed, edits, faults>>

MakeDisks ==
    /\ making.at = "chain"
    /\ making' \in {NotMaking, [making EXCEPT !.at = "place"]}
    /\ UNCHANGED <<db, conf, roster, queue, due, late, owed, edits, faults>>

\* A new place asks for no sync: those who write everywhere may have to wait for the next.
NewPlace(p) ==
    LET with == [db EXCEPT !.places = @ \cup {p}] IN
    db' = with /\ Owe(IF WritersOf(with) = Writers THEN {} ELSE {"place"})

\* The place, unless there is one by now, then the wait for the lock if it is to be shared.
MakePlace ==
    /\ making.at = "place" /\ making' = NotMaking
    /\ IF making.place \subseteq db.places
       THEN UNCHANGED <<db, queue, owed>>
       ELSE /\ \E p \in making.place : NewPlace(p)
            /\ queue' \in {queue, Append(queue, VolumeShare)}
    /\ UNCHANGED <<conf, roster, due, late, edits, faults>>

Making == MakeRows \/ MakePeople \/ MakePreview \/ MakeDisks \/ MakePlace

\* smb.conf as it was prepared: edits since then that changed no share, as there was none,
\* are not in it.
VolumeApply ==
    /\ Running /\ Holder.kind = "volume" /\ Holder.at = "ask"
    /\ Ask(/\ queue' = [queue EXCEPT ![1].at = "commit", ![1].resync = TRUE]
           /\ Owe(IF Holder.defs = Defs(OverlayShares(ShareRows(db), Holder), db)
                  THEN {} ELSE {"conf"}),
           End /\ UNCHANGED owed,
           EndWith(SyncSharesBestEffort) /\ UNCHANGED owed,
           End /\ Owe({"conf"}))
    /\ UNCHANGED <<db, making, due, edits>>

VolumeCommit ==
    /\ Running /\ Holder.kind = "volume" /\ Holder.at = "commit"
    /\ \/ Rowed(Holder) /\ db' = Committed(Holder) /\ End /\ UNCHANGED faults
       \/ ~Rowed(Holder) /\ UNCHANGED <<db, faults>> /\ Resync
       \/ Fault /\ UNCHANGED db /\ Resync
    /\ UNCHANGED <<conf, roster, making, due, late, owed, edits>>

Work == \/ ReadRows \/ ReadPeople \/ Sync \/ Access \/ ShareApply \/ ShareCommit
        \/ DeletePreviews \/ UserShares \/ UserGroup \/ UserCommit
        \/ RemoveParts \/ RemoveShares \/ RemoveDisks \/ RemovePlace \/ RemoveRelease
        \/ VolumeApply \/ VolumeCommit

----------------------------------------------------------------------------
(* What is asked of the backend *)

\* An edit is written, and its syncs are queued once the write has come back.
Write(new) == db' = new /\ due' = due + 1 /\ UNCHANGED queue
Asks(task) == queue' = Append(queue, task) /\ UNCHANGED <<db, due>>

\* permission.upsert and remove, group.setMembers and delete
SetPermissions(p, S) ==
    /\ p \in db.places /\ S \subseteq db.users /\ S # db.perms[p]
    /\ Write([db EXCEPT !.perms[p] = S])

\* user.update, by another administrator
SetAdmin(u) ==
    /\ u \in db.users /\ db.admins \ {u} # {}
    /\ Write([db EXCEPT !.admins = IF u \in @ THEN @ \ {u} ELSE @ \cup {u}])

DeletePlace(p) == p \in db.places /\ Write(Deleted(p))

\* The guard blocks the volume of a place, or it is released or resumed.
Held(p) == [db EXCEPT !.held = IF p \in @ THEN @ \ {p} ELSE @ \cup {p}]
SetHold(p) == Write(Held(p))

\* user.create: the row comes last; nobody's rights change.
CreateUser(u) ==
    /\ u \notin db.users /\ db' = [db EXCEPT !.users = @ \cup {u}]
    /\ UNCHANGED <<queue, due>>

\* prepare, then the wait for the lock
BeginShare(op, p) ==
    /\ IF op = "create" THEN p \in db.places /\ db.shares[p] = "none" ELSE db.shares[p] # "none"
    /\ Asks(Task("share", op, {p}, {}))

\* prepareUserPlan: never one's own account
BeginUserDelete(u) ==
    /\ u \in db.users /\ db.admins \ {u} # {}
    /\ Asks(Task("user", "none", {}, {u}))

\* removeTarget: the places on the volume and whether one is shared, then the wait.
BeginRemove(S) ==
    /\ S \subseteq db.places
    /\ LET shared == \E p \in S : db.shares[p] = "on" IN
       Asks([Task("remove", IF shared THEN "shared" ELSE "unshared", S, {})
               EXCEPT !.at = IF shared THEN "rows" ELSE "parts", !.volume = S])

Requested ==
    /\ Edit
    /\ \/ \E p \in Places : \/ DeletePlace(p) \/ SetHold(p)
                            \/ \E S \in SUBSET Users : SetPermissions(p, S)
                            \/ \E op \in {"create", "enable", "disable", "remove"} : BeginShare(op, p)
       \/ \E S \in (SUBSET Places) \ {{}} : BeginRemove(S)
       \/ \E u \in Users : SetAdmin(u) \/ CreateUser(u) \/ BeginUserDelete(u)
    /\ UNCHANGED <<conf, roster, making, late, owed, faults>>

\* place.create
CreatePlace(p) ==
    /\ Edit
    /\ p \notin db.places /\ NewPlace(p)
    /\ UNCHANGED <<conf, roster, queue, making, due, late, faults>>

\* The guard syncs once, after its last hold: when a later one cannot be written, what was
\* held or released before it has to wait for the next sync.
HoldUnsynced(p) ==
    /\ Edit /\ Fault
    /\ db' = Held(p) /\ Owe({"held"})
    /\ UNCHANGED <<conf, roster, queue, making, due, late>>

\* volumeDeps: no place there yet.  One volume is created at a time, a bound.
BeginVolume(p) ==
    /\ Edit
    /\ p \notin db.places /\ making = NotMaking
    /\ making' = [NotMaking EXCEPT !.at = "rows", !.place = {p}]
    /\ UNCHANGED <<db, conf, roster, queue, due, late, owed, faults>>

QueueSyncs ==
    /\ due > 0 /\ due' = due - 1
    /\ queue' = queue \o SyncSharesBestEffort
    /\ UNCHANGED <<db, conf, roster, making, late, owed, edits, faults>>

\* The backend stops and starts: what waited is gone, what the worker was asked is not.
Restart ==
    /\ Fault
    /\ queue' = SyncSharesBestEffort /\ due' = 0 /\ making' = NotMaking
    /\ late' \in {late} \cup (IF Running /\ Holder.at \in {"ask", "smb", "leave", "drop"}
                              THEN {late \cup {Request}} ELSE {})
    /\ UNCHANGED <<db, conf, roster, owed, edits>>

Init ==
    /\ \E places \in SUBSET Places, perms \in [Places -> SUBSET Users],
          shares \in [Places -> {"none", "on", "off"}], admins \in (SUBSET Users) \ {{}} :
            /\ \A p \in Places \ places : perms[p] = {} /\ shares[p] = "none"
            /\ db = [users |-> Users, admins |-> admins, places |-> places, perms |-> perms,
                     shares |-> shares, held |-> {}]
    /\ conf = Desired /\ roster = Writers
    /\ queue = <<>> /\ making = NotMaking /\ due = 0 /\ late = {} /\ owed = {} /\ edits = 0 /\ faults = 0

Next == \/ Requested \/ (\E p \in Places : CreatePlace(p) \/ HoldUnsynced(p) \/ BeginVolume(p))
        \/ QueueSyncs \/ Work \/ Making \/ LateRun \/ Restart

\* Tasks go on: each request is answered or times out, and the worker serves what it has.
Spec == Init /\ [][Next]_vars /\ WF_vars(QueueSyncs) /\ WF_vars(Work)
        /\ WF_vars(Making) /\ WF_vars(LateRun)

----------------------------------------------------------------------------
ShareDefs == [place : Places, users : SUBSET Users, held : BOOLEAN]

TypeOK ==
    /\ db.admins \subseteq db.users /\ db.users \subseteq Users /\ db.places \subseteq Places
    /\ db.held \subseteq Places
    /\ \A p \in Places : /\ db.perms[p] \subseteq db.users
                         /\ db.shares[p] \in {"none", "on", "off"}
                         /\ p \notin db.places => db.perms[p] = {} /\ db.shares[p] = "none"
    /\ conf \subseteq ShareDefs /\ roster \subseteq Users
    /\ \A i \in DOMAIN queue :
          /\ queue[i].kind \in {"sync", "access", "share", "user", "remove", "volume"}
          /\ queue[i].at \in {"rows", "people", "ask", "named", "smb", "leave", "commit",
                             "parts", "drop", "disks", "places"}
          /\ queue[i].defs \subseteq ShareDefs
          /\ i > 1 => queue[i].at = IF queue[i].kind = "volume" THEN "ask"
                                   ELSE IF queue[i].op = "unshared" THEN "parts" ELSE "rows"
    /\ making.at \in {"no", "rows", "people", "preview", "chain", "place"}
    /\ making.defs \subseteq ShareDefs /\ making.place \subseteq Places
    /\ \A m \in late : m.to \in {"sync", "apply", "access", "leave"} /\ m.defs \subseteq ShareDefs
    /\ owed \subseteq {"conf", "roster", "place", "held"} /\ due \in 0..MaxEdits
    /\ edits \in 0..MaxEdits /\ faults \in 0..MaxFaults

\* At rest smb.conf and the share group are what the database says, whatever edits, plans,
\* deletions, volumes and syncs ran across each other or failed; in doubt is only what a
\* request that failed or was never answered left so, a place or a hold without a sync, and
\* what a volume's plan read before it had the lock.
AtRest == queue = <<>> /\ due = 0 /\ late = {}

Reflects ==
    AtRest =>
        /\ owed \cap {"conf", "held"} = {} => conf = Desired
        /\ owed \cap {"roster", "place"} = {} => roster = Writers

\* A deleted user is in the share group never again, and in smb.conf only until a sync that
\* is on its way.
GoneIsGone ==
    \A u \in Users \ db.users :
        /\ "roster" \notin owed => u \notin roster
        /\ u \in Members(conf) /\ owed \cap {"conf", "held"} = {} =>
              due > 0 \/ \E i \in DOMAIN queue : queue[i].kind = "sync"

\* Samba always reflects the database (sharing.service.ts): when every request was answered
\* well and the places had their syncs, smb.conf is what it asks for.
AlwaysReflects == AtRest /\ faults = 0 => conf = Desired

\* Whoever waits for the lock gets it: no holder waits for what waits behind it.
Drains == Running ~> ~Running
=============================================================================
