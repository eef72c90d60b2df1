---------------------------- MODULE SharingProofs ----------------------------
(***************************************************************************)
(* For any users, places and bounds: when nothing is at work, the host     *)
(* shares what the database says, and who was deleted is in no share and   *)
(* in no group.                                                            *)
(*                                                                         *)
(* Both properties speak of the end; the invariant speaks of each step of  *)
(* the task that has the lock.  What smb.conf holds is what the database   *)
(* asks for (ConfTrue), except while the holder is between its write and   *)
(* its commit: there it is what the database will ask for (Written).  A    *)
(* database edited meanwhile promises a sync that has read nothing yet     *)
(* (Promised), and until such an edit what the holder has read is still    *)
(* current (Reads, AccessReads).  The same is said of the group of writers *)
(* (RosterTrue), and of whom it may name (RosterKnown); a place that a     *)
(* removal has deleted has left no share behind (RemovedBare).             *)
(***************************************************************************)
EXTENDS Sharing, SequenceTheorems, TLAPS

RowType == [place : Places, on : BOOLEAN]

TaskType ==
    [kind : {"sync", "access", "share", "user", "remove", "volume"},
     at : {"rows", "people", "ask", "named", "smb", "leave", "commit", "parts", "drop",
           "disks", "places"},
     op : {"none", "create", "enable", "disable", "remove", "shared", "unshared"},
     place : SUBSET Places, who : SUBSET Users, rows : SUBSET RowType,
     defs : SUBSET ShareDefs, confSeen : SUBSET ShareDefs, rosterSeen : SUBSET Users,
     resync : BOOLEAN, volume : SUBSET Places, gone : BOOLEAN]

\* Where a task of each kind may be.
Stages(t) ==
    /\ t.kind \in {"sync", "access"} =>
         t.at \in {"rows", "people", "ask"} /\ t.op = "none"
    /\ t.kind = "share" =>
         /\ t.at \in {"rows", "people", "ask", "commit"}
         /\ t.op \in {"create", "enable", "disable", "remove"}
    /\ t.kind = "user" =>
         t.at \in {"rows", "people", "named", "smb", "leave", "commit"} /\ t.op = "none"
    /\ t.kind = "remove" =>
         /\ t.op \in {"shared", "unshared"}
         /\ t.at \in IF t.op = "shared"
                     THEN {"rows", "people", "parts", "drop", "disks", "places"}
                     ELSE {"parts", "disks", "places"}
    /\ t.kind = "volume" => t.at \in {"ask", "commit"} /\ t.op = "create"
    /\ t.kind # "user" => t.who = {}
    /\ t.kind = "remove" /\ t.op = "shared" /\ t.at = "disks" => t.resync
    /\ t.kind = "volume" /\ t.at = "commit" => t.resync
    /\ t.kind = "remove" /\ t.gone => t.at = "places"

\* A task that has not had the lock.
Waiting(t) ==
    /\ t.at = IF t.kind = "volume" THEN "ask" ELSE IF t.op = "unshared" THEN "parts" ELSE "rows"
    /\ t.kind = "remove" => t.volume = t.place

DbType ==
    [users : SUBSET Users, admins : SUBSET Users, places : SUBSET Places,
     perms : [Places -> SUBSET Users], shares : [Places -> {"none", "on", "off"}],
     held : SUBSET Places]

DbOK ==
    /\ db \in DbType
    /\ db.admins \subseteq db.users
    /\ \A p \in Places : /\ db.perms[p] \subseteq db.users
                         /\ p \notin db.places => db.perms[p] = {} /\ db.shares[p] = "none"

MakingType ==
    [at : {"no", "rows", "people", "preview", "chain", "place"}, place : SUBSET Places,
     rows : SUBSET RowType, defs : SUBSET ShareDefs, confSeen : SUBSET ShareDefs]

MakingOK ==
    making \in MakingType /\ (making.at # "no" => \E p \in Places : making.place = {p})

RequestType ==
    [to : {"sync", "apply", "access", "leave"}, defs : SUBSET ShareDefs,
     who : SUBSET Users, seen : (SUBSET ShareDefs) \cup (SUBSET Users)]

QueueOK ==
    /\ queue \in Seq(TaskType)
    /\ \A i \in DOMAIN queue : Stages(queue[i]) /\ (i > 1 => Waiting(queue[i]))

Types ==
    /\ DbOK /\ MakingOK /\ QueueOK /\ late \subseteq RequestType
    /\ conf \subseteq ShareDefs /\ roster \subseteq Users
    /\ owed \subseteq {"conf", "roster", "place", "held"} /\ due \in 0..MaxEdits
    /\ edits \in 0..MaxEdits /\ faults \in 0..MaxFaults /\ due <= edits

----------------------------------------------------------------------------
\* A task of that kind is in the queue and has read nothing yet.
Waits(q, kind) == \E i \in DOMAIN q : q[i].kind = kind /\ q[i].at = "rows"

\* Whatever the database asks for now, it will be read by a task of that kind; or, after a
\* hold that was not synced, by the next sync there is.
Promised(kind) == due > 0 \/ Waits(queue, kind) \/ (kind = "sync" /\ "held" \in owed)

\* What the database asks for, of the shares, and with the change of t made.
Wanted(d) == Defs(ShareRows(d), d)
Changed(t, d) == Defs(OverlayShares(ShareRows(d), t), d)

\* What smb.conf holds while t has the lock: what it wrote is ahead of the database.
Written(t, d) ==
    IF t.kind = "user" /\ t.at \in {"leave", "commit"} THEN DropUserFromDefs(Wanted(d), t.who)
    ELSE IF \/ t.kind \in {"share", "volume"} /\ t.at = "commit"
            \/ t.kind = "remove" /\ t.op = "shared" /\ t.at \in {"disks", "places"}
         THEN Changed(t, d)
    ELSE Wanted(d)

\* What t has read is what it is to write.
ToWrite(t) ==
    \/ t.kind \in {"sync", "share"} /\ t.at = "ask"
    \/ t.kind = "user" /\ t.at \in {"named", "smb"}
    \/ t.kind = "remove" /\ t.op = "shared" /\ t.at \in {"parts", "drop"}

\* What t has read is still so.
Current(t, d) ==
    /\ t.kind \notin {"access", "volume"} /\ t.at = "people" =>
         t.rows = OverlayShares(ShareRows(d), t)
    /\ ToWrite(t) => t.defs = DropUserFromDefs(Changed(t, d), t.who)
    /\ t.kind = "user" /\ t.at \in {"leave", "commit"} /\ ~t.resync =>
         DropUserFromDefs(Wanted(d), t.who) = Wanted(d)

Reads == Running => Promised("sync") \/ Current(Holder, db)

ConfTrue ==
    \/ "conf" \in owed \/ Promised("sync")
    \/ Running /\ Holder.kind = "sync"
    \/ conf = IF Running THEN Written(Holder, db) ELSE Wanted(db)

\* The same of the group: what the task at work read of those who may write.
AccessReads ==
    Running /\ Holder.kind = "access" =>
        \/ "place" \in owed \/ Promised("access")
        \/ /\ Holder.at = "people" => Members(Defs(Holder.rows, db)) = Writers
           /\ Holder.at = "ask" => Members(Holder.defs) = Writers

RosterTrue ==
    \/ owed \cap {"roster", "place"} # {} \/ Promised("access")
    \/ /\ Running
       /\ \/ Holder.kind = "access"
          \/ Holder.kind = "user" /\ Holder.at = "commit"
          \/ Holder.kind = "remove" /\ Holder.gone
    \/ roster = Writers

\* The group names nobody who is gone, or will be gone with this task.
RosterKnown ==
    /\ "roster" \in owed \/ roster \subseteq db.users
    /\ Running /\ Holder.kind = "user" /\ Holder.at = "commit" =>
         "roster" \in owed \/ roster \cap Holder.who = {}
    /\ Running /\ Holder.kind = "access" /\ Holder.at = "ask" =>
         Members(Holder.defs) \subseteq db.users

\* The places a removal has deleted have no share.
RemovedBare ==
    Running /\ Holder.kind = "remove" =>
        \A p \in Holder.volume \ Holder.place : db.shares[p] = "none"

IInv == /\ Types /\ Reads /\ ConfTrue /\ AccessReads /\ RosterTrue /\ RosterKnown
        /\ RemovedBare

----------------------------------------------------------------------------
(* What the database asks for *)

LEMMA RowsTyped ==
  ASSUME NEW d
  PROVE  ShareRows(d) \subseteq RowType /\ \A r \in ShareRows(d) : d.shares[r.place] # "none"
<1>1. ASSUME NEW r \in ShareRows(d) PROVE r \in RowType /\ d.shares[r.place] # "none"
  <2>1. PICK p \in {q \in Places : d.shares[q] # "none"} :
           r = [place |-> p, on |-> d.shares[p] = "on"]
    BY <1>1 DEF ShareRows
  <2> QED
    BY <2>1 DEF RowType
<1> QED
  BY <1>1

LEMMA DefsTyped ==
  ASSUME NEW d \in DbType, NEW rows \in SUBSET RowType
  PROVE  Defs(rows, d) \subseteq ShareDefs
<1>1. ASSUME NEW x \in Defs(rows, d) PROVE x \in ShareDefs
  <2>1. PICK r \in {s \in rows : s.on} : x = [place |-> r.place,
           users |-> d.perms[r.place] \cup d.admins, held |-> r.place \in d.held]
    BY <1>1 DEF Defs
  <2>2. r.place \in Places /\ d.perms[r.place] \cup d.admins \in SUBSET Users
    BY <2>1 DEF RowType, DbType
  <2> QED
    BY <2>1, <2>2 DEF ShareDefs
<1> QED
  BY <1>1

LEMMA ChangedTyped ==
  ASSUME NEW d \in DbType, NEW t \in TaskType
  PROVE  Changed(t, d) \subseteq ShareDefs /\ OverlayShares(ShareRows(d), t) \subseteq RowType
<1>1. ShareRows(d) \subseteq RowType
  BY RowsTyped
<1> DEFINE New == {[place |-> p, on |-> TRUE] : p \in t.place}
           Set == {[r EXCEPT !.on = IF r.place \in t.place THEN t.op = "enable" ELSE @] :
                   r \in ShareRows(d)}
<1>2. New \subseteq RowType /\ Set \subseteq RowType
  <2>1. t.place \subseteq Places
    BY DEF TaskType
  <2>2. New \subseteq RowType
    <3>1. \A p \in Places : [place |-> p, on |-> TRUE] \in RowType
      BY DEF RowType
    <3> QED
      BY <2>1, <3>1
  <2>3. \A r \in RowType : \A b \in BOOLEAN : [r EXCEPT !.on = b] \in RowType
    BY DEF RowType
  <2>4. \A r \in RowType : (IF r.place \in t.place THEN t.op = "enable" ELSE r.on) \in BOOLEAN
    BY DEF RowType
  <2>5. Set \subseteq RowType
    BY <1>1, <2>3, <2>4
  <2> QED
    BY <2>2, <2>5
<1>3. OverlayShares(ShareRows(d), t) \in
        {ShareRows(d) \cup New, {r \in ShareRows(d) : r.place \notin t.place}, Set, ShareRows(d)}
  BY DEF OverlayShares
<1>4. OverlayShares(ShareRows(d), t) \subseteq RowType
  BY <1>1, <1>2, <1>3
<1> QED
  BY <1>4, DefsTyped DEF Changed

LEMMA WantedTyped ==
  ASSUME NEW d \in DbType
  PROVE  Wanted(d) \subseteq ShareDefs /\ ShareRows(d) \subseteq RowType
BY RowsTyped, DefsTyped DEF Wanted

LEMMA NothingDropped ==
  ASSUME NEW defs \in SUBSET ShareDefs
  PROVE  DropUserFromDefs(defs, {}) = defs
<1>1. \A s \in ShareDefs : [s EXCEPT !.users = @ \ {}] = s
  BY DEF ShareDefs
<1> QED
  BY <1>1 DEF DropUserFromDefs

LEMMA DropTyped ==
  ASSUME NEW defs \in SUBSET ShareDefs, NEW who \in SUBSET Users
  PROVE  DropUserFromDefs(defs, who) \subseteq ShareDefs
BY DEF DropUserFromDefs, ShareDefs

\* The row of each place that is on is all there is to what is wanted.
LEMMA WantedIs ==
  ASSUME NEW d \in DbType
  PROVE  Wanted(d) = {[place |-> p, users |-> d.perms[p] \cup d.admins, held |-> p \in d.held] :
                      p \in {q \in Places : d.shares[q] = "on"}}
<1> DEFINE W == {[place |-> p, users |-> d.perms[p] \cup d.admins, held |-> p \in d.held] :
                      p \in {q \in Places : d.shares[q] = "on"}}
<1>1. ASSUME NEW x \in Wanted(d) PROVE x \in W
  <2>1. PICK r \in ShareRows(d) : r.on /\ x = [place |-> r.place,
           users |-> d.perms[r.place] \cup d.admins, held |-> r.place \in d.held]
    BY <1>1 DEF Wanted, Defs
  <2>2. PICK p \in Places : r = [place |-> p, on |-> d.shares[p] = "on"]
    BY <2>1 DEF ShareRows
  <2> QED
    BY <2>1, <2>2
<1>2. ASSUME NEW x \in W PROVE x \in Wanted(d)
  <2>1. PICK p \in Places : d.shares[p] = "on" /\ x = [place |-> p,
           users |-> d.perms[p] \cup d.admins, held |-> p \in d.held]
    BY <1>2
  <2>2. [place |-> p, on |-> d.shares[p] = "on"] \in ShareRows(d)
    BY <2>1 DEF ShareRows
  <2>3. Wanted(d) = {[place |-> r.place, users |-> d.perms[r.place] \cup d.admins,
                      held |-> r.place \in d.held] : r \in {s \in ShareRows(d) : s.on}}
    BY DEF Wanted, Defs
  <2>4. PICK r \in {s \in ShareRows(d) : s.on} : r.place = p
    <3>1. [place |-> p, on |-> d.shares[p] = "on"] = [place |-> p, on |-> TRUE]
      BY <2>1
    <3>2. [place |-> p, on |-> TRUE].on
      OBVIOUS
    <3> QED
      BY <2>2, <3>1, <3>2
  <2> QED
    BY <2>1, <2>3, <2>4
<1> QED
  BY <1>1, <1>2

\* The same of what is wanted with a change made.
Turned(t, d) ==
    CASE t.op = "create" -> {q \in Places : d.shares[q] = "on"} \cup t.place
      [] t.op \in {"remove", "shared"} -> {q \in Places : d.shares[q] = "on"} \ t.place
      [] t.op = "enable" -> {q \in Places : \/ d.shares[q] = "on"
                                            \/ d.shares[q] # "none" /\ q \in t.place}
      [] t.op = "disable" -> {q \in Places : d.shares[q] = "on"} \ t.place
      [] OTHER -> {q \in Places : d.shares[q] = "on"}

LEMMA ChangedIs ==
  ASSUME NEW d \in DbType, NEW t \in TaskType
  PROVE  Changed(t, d) = {[place |-> p, users |-> d.perms[p] \cup d.admins, held |-> p \in d.held] :
                          p \in Turned(t, d)}
<1> DEFINE Row(p) == [place |-> p, on |-> d.shares[p] = "on"]
           Def(p) == [place |-> p, users |-> d.perms[p] \cup d.admins, held |-> p \in d.held]
           O == OverlayShares(ShareRows(d), t)
<1>1. t.place \subseteq Places /\ t.op \in {"none", "create", "enable", "disable", "remove",
                                            "shared", "unshared"}
  BY DEF TaskType
<1>2. \A r : r \in ShareRows(d) <=> \E p \in Places : d.shares[p] # "none" /\ r = Row(p)
  BY DEF ShareRows
<1>3. ASSUME NEW p \in Turned(t, d) PROVE p \in Places /\ [place |-> p, on |-> TRUE] \in O
  <2>0. p \in Places
    BY <1>1 DEF Turned
  <2>1. CASE t.op = "create"
    <3>1. O = ShareRows(d) \cup {[place |-> x, on |-> TRUE] : x \in t.place}
      BY <2>1 DEF OverlayShares
    <3> QED
      BY <2>0, <2>1, <1>1, <1>2, <3>1 DEF Turned
  <2>2. CASE t.op \in {"remove", "shared"}
    <3>1. O = {r \in ShareRows(d) : r.place \notin t.place}
      BY <2>2 DEF OverlayShares
    <3>2. d.shares[p] = "on" /\ p \notin t.place
      BY <2>2 DEF Turned
    <3> QED
      BY <2>0, <3>2, <1>2, <3>1
  <2>3. CASE t.op \in {"enable", "disable"}
    <3>1. O = {[r EXCEPT !.on = IF r.place \in t.place THEN t.op = "enable" ELSE @] :
                r \in ShareRows(d)}
      BY <2>3 DEF OverlayShares
    <3>2. d.shares[p] # "none" /\ (IF p \in t.place THEN t.op = "enable" ELSE d.shares[p] = "on")
      BY <2>0, <2>3 DEF Turned
    <3>3. Row(p) \in ShareRows(d)
      BY <2>0, <3>2, <1>2
    <3>4. [Row(p) EXCEPT !.on = IF Row(p).place \in t.place THEN t.op = "enable" ELSE @] \in O
      BY <3>1, <3>3
    <3>5. [Row(p) EXCEPT !.on = IF Row(p).place \in t.place THEN t.op = "enable" ELSE @]
            = [place |-> p, on |-> IF p \in t.place THEN t.op = "enable" ELSE d.shares[p] = "on"]
      OBVIOUS
    <3>6. [place |-> p, on |-> IF p \in t.place THEN t.op = "enable" ELSE d.shares[p] = "on"]
            = [place |-> p, on |-> TRUE]
      BY <3>2
    <3> QED
      BY <2>0, <3>4, <3>5, <3>6
  <2>4. CASE t.op \in {"none", "unshared"}
    <3>1. O = ShareRows(d)
      BY <2>4 DEF OverlayShares
    <3> QED
      BY <2>0, <2>4, <1>2, <3>1 DEF Turned
  <2> QED
    BY <1>1, <2>0, <2>1, <2>2, <2>3, <2>4
<1>4. ASSUME NEW r \in O, r.on PROVE r.place \in Turned(t, d)
  <2>0. ASSUME r \in ShareRows(d) PROVE r.place \in Places /\ d.shares[r.place] = "on"
    <3>1. PICK p \in Places : r = Row(p)
      BY <2>0, <1>2
    <3> QED
      BY <3>1, <1>4
  <2>1. CASE t.op = "create"
    <3>1. O = ShareRows(d) \cup {[place |-> x, on |-> TRUE] : x \in t.place}
      BY <2>1 DEF OverlayShares
    <3> QED
      BY <2>0, <2>1, <1>4, <1>1, <3>1 DEF Turned
  <2>2. CASE t.op \in {"remove", "shared"}
    <3>1. O = {x \in ShareRows(d) : x.place \notin t.place}
      BY <2>2 DEF OverlayShares
    <3> QED
      BY <2>0, <2>2, <1>4, <3>1 DEF Turned
  <2>3. CASE t.op \in {"enable", "disable"}
    <3>1. O = {[x EXCEPT !.on = IF x.place \in t.place THEN t.op = "enable" ELSE @] :
                x \in ShareRows(d)}
      BY <2>3 DEF OverlayShares
    <3>2. PICK x \in ShareRows(d) :
             r = [x EXCEPT !.on = IF x.place \in t.place THEN t.op = "enable" ELSE @]
      BY <3>1, <1>4
    <3>3. PICK p \in Places : d.shares[p] # "none" /\ x = Row(p)
      BY <3>2, <1>2
    <3>4. r.place = p /\ (IF p \in t.place THEN t.op = "enable" ELSE d.shares[p] = "on")
      BY <3>2, <3>3, <1>4
    <3> QED
      BY <2>3, <3>3, <3>4 DEF Turned
  <2>4. CASE t.op \in {"none", "unshared"}
    <3>1. O = ShareRows(d)
      BY <2>4 DEF OverlayShares
    <3> QED
      BY <2>0, <2>4, <1>4, <3>1 DEF Turned
  <2> QED
    BY <1>1, <2>1, <2>2, <2>3, <2>4
<1>5. Changed(t, d) = {Def(r.place) : r \in {s \in O : s.on}}
  BY DEF Changed, Defs
<1>6. ASSUME NEW p \in Turned(t, d) PROVE Def(p) \in Changed(t, d)
  <2>1. PICK r \in {s \in O : s.on} : r.place = p
    <3>1. [place |-> p, on |-> TRUE].on /\ [place |-> p, on |-> TRUE].place = p
      OBVIOUS
    <3> QED
      BY <1>3, <1>6, <3>1
  <2> HIDE DEF Def, O
  <2> QED
    BY <2>1, <1>5
<1>7. ASSUME NEW x \in Changed(t, d) PROVE \E p \in Turned(t, d) : x = Def(p)
  BY <1>4, <1>5
<1> HIDE DEF Def
<1>8. Changed(t, d) = {Def(p) : p \in Turned(t, d)}
  BY <1>6, <1>7
<1> QED
  BY <1>8 DEF Def

\* Two databases that agree on the shares that are on, and on who may use them, want the same.
LEMMA SameWanted ==
  ASSUME NEW d \in DbType, NEW e \in DbType,
         \A p \in Places : (d.shares[p] = "on") <=> (e.shares[p] = "on"),
         \A p \in Places : d.shares[p] = "on" =>
            /\ d.perms[p] \cup d.admins = e.perms[p] \cup e.admins
            /\ (p \in d.held) <=> (p \in e.held)
  PROVE  Wanted(d) = Wanted(e)
<1>1. \A p \in {q \in Places : d.shares[q] = "on"} :
         [place |-> p, users |-> d.perms[p] \cup d.admins, held |-> p \in d.held]
           = [place |-> p, users |-> e.perms[p] \cup e.admins, held |-> p \in e.held]
  <2> TAKE p \in {q \in Places : d.shares[q] = "on"}
  <2>1. (p \in d.held) = (p \in e.held)
    OBVIOUS
  <2>2. d.perms[p] \cup d.admins = e.perms[p] \cup e.admins
    OBVIOUS
  <2> QED
    BY <2>1, <2>2
<1>2. {q \in Places : d.shares[q] = "on"} = {q \in Places : e.shares[q] = "on"}
  OBVIOUS
<1> QED
  BY <1>1, <1>2, WantedIs

\* The row committed is the one smb.conf was written for.
LEMMA CommittedIsChanged ==
  ASSUME DbOK, NEW t \in TaskType, Rowed(t),
         t.op \in {"create", "enable", "disable", "remove"}
  PROVE  Wanted(Committed(t)) = Changed(t, db)
<1> DEFINE e == Committed(t)
           state == IF t.op \in {"create", "enable"} THEN "on"
                    ELSE IF t.op = "disable" THEN "off" ELSE "none"
<1>1. db \in DbType /\ t.place \subseteq Places
  BY DEF DbOK, TaskType
<1>2. e = [db EXCEPT !.shares = [p \in Places |-> IF p \in t.place THEN state ELSE db.shares[p]]]
  BY <1>1 DEF Committed, DbType
<1>3. e \in DbType
  BY <1>1, <1>2 DEF DbType
<1>4. /\ e.perms = db.perms /\ e.admins = db.admins /\ e.held = db.held
      /\ e.shares = [p \in Places |-> IF p \in t.place THEN state ELSE db.shares[p]]
  BY <1>1, <1>2 DEF DbType
<1>5. {q \in Places : e.shares[q] = "on"} = Turned(t, db)
  BY <1>1, <1>4 DEF Turned, Rowed
<1> HIDE DEF e
<1>6. Wanted(e) = {[place |-> p, users |-> e.perms[p] \cup e.admins, held |-> p \in e.held] :
                   p \in Turned(t, db)}
  BY <1>3, <1>5, WantedIs
<1>7. Wanted(e) = Changed(t, db)
  BY <1>1, <1>4, <1>6, ChangedIs
<1> QED
  BY <1>7 DEF e

LEMMA CommittedSound ==
  ASSUME DbOK, NEW t \in TaskType, Rowed(t)
  PROVE  /\ Committed(t) \in DbType
         /\ Committed(t).users = db.users /\ Committed(t).admins = db.admins
         /\ Committed(t).places = db.places /\ Committed(t).perms = db.perms
         /\ Committed(t).held = db.held
         /\ \A p \in Places : p \notin db.places => Committed(t).shares[p] = "none"
         /\ \A p \in Places \ t.place : Committed(t).shares[p] = db.shares[p]
<1> DEFINE e == Committed(t)
           state == IF t.op \in {"create", "enable"} THEN "on"
                    ELSE IF t.op = "disable" THEN "off" ELSE "none"
<1>1. db \in DbType /\ t.place \subseteq Places
  BY DEF DbOK, TaskType
<1>2. e = [db EXCEPT !.shares = [p \in Places |-> IF p \in t.place THEN state ELSE db.shares[p]]]
  BY <1>1 DEF Committed, DbType
<1>3. e \in DbType /\ e.users = db.users /\ e.admins = db.admins /\ e.places = db.places
         /\ e.perms = db.perms /\ e.held = db.held
         /\ e.shares = [p \in Places |-> IF p \in t.place THEN state ELSE db.shares[p]]
  BY <1>1, <1>2 DEF DbType
<1>4. \A p \in t.place : p \notin db.places => state = "none"
  <2>1. \A p \in t.place : db.shares[p] # "none" => p \in db.places
    BY <1>1 DEF DbOK
  <2>2. \A p \in t.place : p \in db.places
    BY <2>1 DEF Rowed
  <2> QED
    BY <2>2
<1>5. \A p \in Places : p \notin db.places => e.shares[p] = "none"
  BY <1>1, <1>3, <1>4 DEF DbOK
<1> QED
  BY <1>1, <1>3, <1>5

\* A place goes with its share.
LEMMA DeletedSound ==
  ASSUME DbOK, NEW p \in Places
  PROVE  /\ Deleted(p) \in DbType
         /\ Deleted(p).users = db.users /\ Deleted(p).admins = db.admins
         /\ Deleted(p).held = db.held /\ Deleted(p).places = db.places \ {p}
         /\ Deleted(p).perms[p] = {} /\ Deleted(p).shares[p] = "none"
         /\ \A q \in Places : q # p => /\ Deleted(p).shares[q] = db.shares[q]
                                       /\ Deleted(p).perms[q] = db.perms[q]
BY DEF Deleted, DbOK, DbType

LEMMA DeletedOff ==
  ASSUME DbOK, NEW p \in Places, db.shares[p] # "on"
  PROVE  Wanted(Deleted(p)) = Wanted(db)
<1>1. \A q \in Places : q # p => /\ Deleted(p).shares[q] = db.shares[q]
                                 /\ Deleted(p).perms[q] = db.perms[q]
  BY DeletedSound
<1>2. Deleted(p).shares[p] = "none" /\ Deleted(p).admins = db.admins /\ Deleted(p).held = db.held
  BY DeletedSound
<1>3. db \in DbType /\ Deleted(p) \in DbType
  BY DeletedSound DEF DbOK
<1> QED
  BY <1>1, <1>2, <1>3, SameWanted

LEMMA DeletedOut ==
  ASSUME DbOK, NEW t \in TaskType, t.op = "shared", NEW p \in t.place, NEW s \in TaskType,
         s.op = "shared", s.place = t.place \ {p}
  PROVE  Changed(s, Deleted(p)) = Changed(t, db)
<1> DEFINE e == Deleted(p)
<1>0. p \in Places /\ t.place \subseteq Places
  BY DEF TaskType
<1>1. \A q \in Places : q # p => e.shares[q] = db.shares[q] /\ e.perms[q] = db.perms[q]
  BY <1>0, DeletedSound
<1>2. e.shares[p] = "none" /\ e.admins = db.admins /\ e.held = db.held
  BY <1>0, DeletedSound
<1>3. db \in DbType /\ e \in DbType
  BY <1>0, DeletedSound DEF DbOK
<1> HIDE DEF e
<1>4. Turned(s, e) = Turned(t, db)
  <2>1. Turned(s, e) = {q \in Places : e.shares[q] = "on"} \ s.place
    BY DEF Turned
  <2>2. Turned(t, db) = {q \in Places : db.shares[q] = "on"} \ t.place
    BY DEF Turned
  <2> QED
    BY <1>0, <1>1, <1>2, <2>1, <2>2
<1>5. \A q \in Turned(t, db) : q \in Places /\ q # p
  BY DEF Turned
<1> DEFINE Old(q) == [place |-> q, users |-> db.perms[q] \cup db.admins, held |-> q \in db.held]
           New(q) == [place |-> q, users |-> e.perms[q] \cup e.admins, held |-> q \in e.held]
           T == Turned(t, db)
<1>6. \A q \in T : New(q) = Old(q)
  <2> TAKE q \in T
  <2>1. e.perms[q] \cup e.admins = db.perms[q] \cup db.admins
    BY <1>1, <1>2, <1>5
  <2>2. (q \in e.held) = (q \in db.held)
    BY <1>2
  <2> QED
    BY <2>1, <2>2
<1>7. Changed(s, e) = {New(q) : q \in T}
  BY <1>3, <1>4, ChangedIs
<1>8. Changed(t, db) = {Old(q) : q \in T}
  BY <1>3, ChangedIs
<1> HIDE DEF Old, New, T
<1>9. Changed(s, e) = Changed(t, db)
  BY <1>6, <1>7, <1>8
<1> QED
  BY <1>9 DEF e

\* When the places are gone, or change nothing, what was written is what is wanted.
LEMMA ChangedOut ==
  ASSUME DbOK, NEW t \in TaskType, t.op = "shared",
         \A p \in t.place : db.shares[p] # "on"
  PROVE  Changed(t, db) = Wanted(db)
<1>1. Turned(t, db) = {q \in Places : db.shares[q] = "on"}
  BY DEF Turned, TaskType
<1> QED
  BY <1>1, ChangedIs, WantedIs DEF DbOK

LEMMA ChangedNot ==
  ASSUME NEW t, t.op \in {"none", "unshared"}, NEW d
  PROVE  Changed(t, d) = Wanted(d)
BY DEF Changed, Wanted, OverlayShares

\* Deleting a user takes the user out of what is wanted.
LEMMA WithoutSound ==
  ASSUME DbOK, NEW u \in SUBSET Users
  PROVE  /\ Without(u) \in DbType
         /\ Without(u).users = db.users \ u /\ Without(u).admins = db.admins \ u
         /\ Without(u).held = db.held /\ Without(u).places = db.places
         /\ Without(u).shares = db.shares
         /\ Without(u).perms = [p \in Places |-> db.perms[p] \ u]
<1> DEFINE P == [p \in Places |-> db.perms[p] \ u]
<1>1. Without(u) = [db EXCEPT !.users = db.users \ u, !.admins = db.admins \ u, !.perms = P]
  BY DEF Without, DbOK, DbType
<1>2. P \in [Places -> SUBSET Users]
  BY DEF DbOK, DbType
<1>3. db \in DbType
  BY DEF DbOK
<1> HIDE DEF P
<1>4. /\ Without(u) \in DbType
      /\ Without(u).users = db.users \ u /\ Without(u).admins = db.admins \ u
      /\ Without(u).held = db.held /\ Without(u).places = db.places
      /\ Without(u).shares = db.shares /\ Without(u).perms = P
  <2>1. Without(u) = [users |-> db.users \ u, admins |-> db.admins \ u, places |-> db.places,
                      perms |-> P, shares |-> db.shares, held |-> db.held]
    BY <1>1, <1>3 DEF DbType
  <2>2. db.users \ u \in SUBSET Users /\ db.admins \ u \in SUBSET Users
        /\ db.places \in SUBSET Places /\ db.held \in SUBSET Places
        /\ db.shares \in [Places -> {"none", "on", "off"}]
    BY <1>3 DEF DbType
  <2> QED
    BY <1>2, <2>1, <2>2 DEF DbType
<1> QED
  BY <1>4 DEF P

LEMMA WithoutDropped ==
  ASSUME DbOK, NEW u \in SUBSET Users
  PROVE  Wanted(Without(u)) = DropUserFromDefs(Wanted(db), u)
<1> DEFINE e == Without(u)
           On == {q \in Places : db.shares[q] = "on"}
           Def(p) == [place |-> p, users |-> db.perms[p] \cup db.admins, held |-> p \in db.held]
           New(p) == [place |-> p, users |-> e.perms[p] \cup e.admins, held |-> p \in e.held]
<1>1. /\ e \in DbType /\ e.shares = db.shares /\ e.held = db.held /\ e.admins = db.admins \ u
      /\ e.perms = [p \in Places |-> db.perms[p] \ u]
  BY WithoutSound
<1> HIDE DEF e
<1>2. Wanted(db) = {Def(p) : p \in On}
  BY WantedIs DEF DbOK
<1>3. Wanted(e) = {New(p) : p \in On}
  BY <1>1, WantedIs
<1>4. \A p \in On : [Def(p) EXCEPT !.users = @ \ u] = New(p)
  <2> TAKE p \in On
  <2>1. (db.perms[p] \cup db.admins) \ u = e.perms[p] \cup e.admins
    BY <1>1
  <2>2. (p \in db.held) = (p \in e.held)
    BY <1>1
  <2> QED
    BY <2>1, <2>2
<1> HIDE DEF Def, New
<1>5. DropUserFromDefs(Wanted(db), u) = {[Def(p) EXCEPT !.users = @ \ u] : p \in On}
  <2> HIDE DEF On
  <2> QED
    BY <1>2 DEF DropUserFromDefs
<1>6. Wanted(e) = DropUserFromDefs(Wanted(db), u)
  <2>1. ASSUME NEW x \in Wanted(e) PROVE x \in DropUserFromDefs(Wanted(db), u)
    BY <1>3, <1>4, <1>5, <2>1
  <2>2. ASSUME NEW x \in DropUserFromDefs(Wanted(db), u) PROVE x \in Wanted(e)
    BY <1>3, <1>4, <1>5, <2>2
  <2> QED
    BY <2>1, <2>2
<1> QED
  BY <1>6 DEF e

\* Whoever a share or the group names has an account.
LEMMA WantedKnown ==
  ASSUME DbOK, NEW rows \in SUBSET RowType
  PROVE  Members(Defs(rows, db)) \subseteq db.users
<1>1. ASSUME NEW u \in Members(Defs(rows, db)) PROVE u \in db.users
  <2>1. PICK s \in Defs(rows, db) : u \in s.users
    BY <1>1 DEF Members
  <2>2. PICK r \in {x \in rows : x.on} : s = [place |-> r.place,
           users |-> db.perms[r.place] \cup db.admins, held |-> r.place \in db.held]
    BY <2>1 DEF Defs
  <2> QED
    BY <2>1, <2>2 DEF RowType, DbOK
<1> QED
  BY <1>1

----------------------------------------------------------------------------
(* The queue *)

\* Tasks that ask for the lock.
Asking(s) == s \in Seq(TaskType) /\ \A i \in DOMAIN s : Stages(s[i]) /\ Waiting(s[i])

LEMMA WaitingIsPlain ==
  ASSUME NEW t \in TaskType, Stages(t), Waiting(t), NEW d
  PROVE  /\ Current(t, d) /\ Written(t, d) = Wanted(d)
         /\ ~(t.kind = "access" /\ t.at \in {"people", "ask"})
         /\ ~(t.kind = "user" /\ t.at = "commit")
         /\ ~(t.kind = "remove" /\ t.gone)
         /\ t.kind = "remove" => t.volume = t.place
BY DEF Stages, Waiting, Current, ToWrite, Written, TaskType

LEMMA EndedQueue ==
  ASSUME QueueOK, Running, NEW s, Asking(s), queue' = Tail(queue) \o s
  PROVE  /\ QueueOK' /\ (Running' => Holder' \in TaskType /\ Stages(Holder') /\ Waiting(Holder'))
         /\ Holder.at # "rows" => \A kind : Waits(queue, kind) => Waits(queue', kind)
         /\ \A kind : Waits(s, kind) => Waits(queue', kind)
<1> DEFINE q == Tail(queue)
<1>1. /\ queue \in Seq(TaskType) /\ queue # <<>> /\ s \in Seq(TaskType)
      /\ \A i \in DOMAIN queue : Stages(queue[i]) /\ (i > 1 => Waiting(queue[i]))
      /\ \A i \in DOMAIN s : Stages(s[i]) /\ Waiting(s[i])
  BY DEF QueueOK, Running, Asking
<1>2. q \in Seq(TaskType) /\ Len(q) = Len(queue) - 1 /\ Len(queue) \in Nat \ {0}
      /\ \A i \in 1..Len(q) : q[i] = queue[i + 1]
  BY <1>1, HeadTailProperties, LenProperties, EmptySeq
<1>3. \A i \in 1..Len(q) : Stages(q[i]) /\ Waiting(q[i])
  <2> TAKE i \in 1..Len(q)
  <2>1. i + 1 \in DOMAIN queue /\ i + 1 > 1
    BY <1>1, <1>2, LenProperties
  <2> QED
    BY <1>1, <1>2, <2>1
<1>4. /\ queue' \in Seq(TaskType) /\ Len(queue') = Len(q) + Len(s)
      /\ \A i \in 1..(Len(q) + Len(s)) :
            queue'[i] = IF i <= Len(q) THEN q[i] ELSE s[i - Len(q)]
  BY <1>1, <1>2, ConcatProperties
<1>5. Len(s) \in Nat /\ Len(q) \in Nat /\ DOMAIN s = 1..Len(s) /\ DOMAIN queue' = 1..Len(queue')
      /\ DOMAIN queue = 1..Len(queue)
  BY <1>1, <1>2, <1>4, LenProperties
<1> HIDE DEF q
<1>6. \A i \in DOMAIN queue' : Stages(queue'[i]) /\ Waiting(queue'[i])
  <2> TAKE i \in DOMAIN queue'
  <2>1. CASE i <= Len(q)
    BY <1>3, <1>4, <1>5, <2>1
  <2>2. CASE ~(i <= Len(q))
    <3>1. i - Len(q) \in DOMAIN s
      BY <1>4, <1>5, <2>2
    <3> QED
      BY <1>1, <1>4, <1>5, <2>2, <3>1
  <2> QED
    BY <2>1, <2>2
<1>7. QueueOK'
  BY <1>4, <1>6 DEF QueueOK
<1>8. ASSUME Running' PROVE Holder' \in TaskType /\ Stages(Holder') /\ Waiting(Holder')
  <2>1. 1 \in DOMAIN queue'
    BY <1>4, <1>5, <1>8, EmptySeq DEF Running
  <2>2. queue'[1] \in TaskType
    BY <1>4, <2>1, ElementOfSeq, LenProperties
  <2> QED
    BY <1>6, <2>1, <2>2 DEF Holder
<1>9. ASSUME Holder.at # "rows", NEW kind, Waits(queue, kind) PROVE Waits(queue', kind)
  <2>1. PICK i \in DOMAIN queue : queue[i].kind = kind /\ queue[i].at = "rows"
    BY <1>9 DEF Waits
  <2>2. i # 1
    BY <1>9, <2>1 DEF Holder
  <2>3. i - 1 \in 1..Len(q) /\ (i - 1) + 1 = i
    BY <1>2, <1>5, <2>1, <2>2
  <2>4. queue'[i - 1] = queue[i] /\ i - 1 \in DOMAIN queue'
    BY <1>2, <1>4, <1>5, <2>3
  <2> QED
    BY <2>1, <2>4 DEF Waits
<1>10. ASSUME NEW kind, Waits(s, kind) PROVE Waits(queue', kind)
  <2>1. PICK i \in DOMAIN s : s[i].kind = kind /\ s[i].at = "rows"
    BY <1>10 DEF Waits
  <2>2. /\ i + Len(q) \in DOMAIN queue' /\ ~(i + Len(q) <= Len(q))
        /\ (i + Len(q)) - Len(q) = i
    BY <1>4, <1>5, <2>1
  <2>3. queue'[i + Len(q)] = s[i]
    BY <1>4, <1>5, <2>2
  <2> QED
    BY <2>1, <2>2, <2>3 DEF Waits
<1> QED
  BY <1>7, <1>8, <1>9, <1>10

LEMMA GrownQueue ==
  ASSUME QueueOK, NEW s, Asking(s), queue' = queue \o s
  PROVE  /\ QueueOK' /\ (Running => Running' /\ Holder' = Holder)
         /\ ~Running /\ Running' =>
              Holder' \in TaskType /\ Stages(Holder') /\ Waiting(Holder')
         /\ \A kind : Waits(queue, kind) \/ Waits(s, kind) => Waits(queue', kind)
<1>1. /\ queue \in Seq(TaskType) /\ s \in Seq(TaskType)
      /\ \A i \in DOMAIN queue : Stages(queue[i]) /\ (i > 1 => Waiting(queue[i]))
      /\ \A i \in DOMAIN s : Stages(s[i]) /\ Waiting(s[i])
  BY DEF QueueOK, Asking
<1>2. /\ queue' \in Seq(TaskType) /\ Len(queue') = Len(queue) + Len(s)
      /\ \A i \in 1..(Len(queue) + Len(s)) :
            queue'[i] = IF i <= Len(queue) THEN queue[i] ELSE s[i - Len(queue)]
  BY <1>1, ConcatProperties
<1>3. Len(s) \in Nat /\ Len(queue) \in Nat /\ DOMAIN s = 1..Len(s)
      /\ DOMAIN queue' = 1..Len(queue') /\ DOMAIN queue = 1..Len(queue)
  BY <1>1, <1>2, LenProperties
<1>4. ASSUME NEW i \in DOMAIN queue'
      PROVE  /\ Stages(queue'[i]) /\ (i > 1 \/ ~Running => Waiting(queue'[i]))
             /\ i \in DOMAIN queue => queue'[i] = queue[i]
  <2>1. CASE i <= Len(queue)
    <3>1. i \in DOMAIN queue
      BY <1>2, <1>3, <1>4, <2>1
    <3>2. Running
      BY <1>1, <3>1, EmptySeq DEF Running
    <3> QED
      BY <1>1, <1>2, <1>3, <1>4, <2>1, <3>1, <3>2
  <2>2. CASE ~(i <= Len(queue))
    <3>1. i - Len(queue) \in DOMAIN s
      BY <1>2, <1>3, <1>4, <2>2
    <3> QED
      BY <1>1, <1>2, <1>3, <1>4, <2>2, <3>1
  <2> QED
    BY <2>1, <2>2
<1>5. QueueOK'
  BY <1>2, <1>4 DEF QueueOK
<1>6. ASSUME Running PROVE Running' /\ Holder' = Holder
  <2>1. 1 \in DOMAIN queue
    BY <1>1, <1>3, <1>6, EmptySeq DEF Running
  <2>2. 1 \in DOMAIN queue'
    BY <1>2, <1>3, <2>1
  <2> QED
    BY <1>2, <1>4, <2>1, <2>2, EmptySeq DEF Running, Holder
<1>7. ASSUME ~Running, Running' PROVE Holder' \in TaskType /\ Stages(Holder') /\ Waiting(Holder')
  <2>1. 1 \in DOMAIN queue'
    BY <1>2, <1>3, <1>7, EmptySeq DEF Running
  <2>2. queue'[1] \in TaskType
    BY <1>2, <2>1, ElementOfSeq, LenProperties
  <2> QED
    BY <1>4, <1>7, <2>1, <2>2 DEF Holder
<1>8. ASSUME NEW kind, Waits(queue, kind) PROVE Waits(queue', kind)
  <2>1. PICK i \in DOMAIN queue : queue[i].kind = kind /\ queue[i].at = "rows"
    BY <1>8 DEF Waits
  <2>2. i \in DOMAIN queue'
    BY <1>2, <1>3, <2>1
  <2> QED
    BY <1>4, <2>1, <2>2 DEF Waits
<1>9. ASSUME NEW kind, Waits(s, kind) PROVE Waits(queue', kind)
  <2>1. PICK i \in DOMAIN s : s[i].kind = kind /\ s[i].at = "rows"
    BY <1>9 DEF Waits
  <2>2. /\ i + Len(queue) \in DOMAIN queue' /\ ~(i + Len(queue) <= Len(queue))
        /\ (i + Len(queue)) - Len(queue) = i
    BY <1>2, <1>3, <2>1
  <2>3. queue'[i + Len(queue)] = s[i]
    BY <1>2, <1>3, <2>2
  <2> QED
    BY <2>1, <2>2, <2>3 DEF Waits
<1> QED
  BY <1>5, <1>6, <1>7, <1>8, <1>9

\* The task at work goes on; what waits stays.
LEMMA MovedQueue ==
  ASSUME QueueOK, Running, NEW t \in TaskType, Stages(t), queue' = [queue EXCEPT ![1] = t]
  PROVE  /\ QueueOK' /\ Running' /\ Holder' = t
         /\ \A kind : Waits(queue, kind) /\ (Holder.at = "rows" => Holder.kind # kind)
                         => Waits(queue', kind)
<1>1. /\ queue \in Seq(TaskType) /\ queue # <<>>
      /\ \A i \in DOMAIN queue : Stages(queue[i]) /\ (i > 1 => Waiting(queue[i]))
  BY DEF QueueOK, Running
<1>2. 1 \in 1..Len(queue) /\ DOMAIN queue = 1..Len(queue)
  BY <1>1, LenProperties, EmptySeq
<1>3. queue' \in Seq(TaskType) /\ DOMAIN queue' = DOMAIN queue
  BY <1>1, <1>2, ExceptSeq
<1>4. \A i \in DOMAIN queue' : queue'[i] = IF i = 1 THEN t ELSE queue[i]
  BY <1>2, <1>3
<1>5. QueueOK'
  BY <1>1, <1>2, <1>3, <1>4 DEF QueueOK
<1>6. Running' /\ Holder' = t
  BY <1>2, <1>3, <1>4, EmptySeq DEF Running, Holder
<1>7. ASSUME NEW kind, Waits(queue, kind), Holder.at = "rows" => Holder.kind # kind
      PROVE  Waits(queue', kind)
  <2>1. PICK i \in DOMAIN queue : queue[i].kind = kind /\ queue[i].at = "rows"
    BY <1>7 DEF Waits
  <2>2. i # 1
    BY <1>7, <2>1 DEF Holder
  <2> QED
    BY <1>3, <1>4, <2>1, <2>2 DEF Waits
<1> QED
  BY <1>5, <1>6, <1>7

LEMMA HolderTyped ==
  ASSUME QueueOK, Running
  PROVE  Holder \in TaskType /\ Stages(Holder)
<1>1. queue \in Seq(TaskType) /\ queue # <<>>
  BY DEF QueueOK, Running
<1>2. 1 \in 1..Len(queue) /\ DOMAIN queue = 1..Len(queue)
  BY <1>1, LenProperties, EmptySeq
<1> QED
  BY <1>1, <1>2, ElementOfSeq DEF Holder, QueueOK

LEMMA SyncsAsk ==
  /\ Asking(<<>>) /\ Asking(<<SyncShares>>) /\ Asking(<<SyncPlaceAccess>>)
  /\ Asking(SyncSharesBestEffort)
  /\ Waits(<<SyncShares>>, "sync") /\ Waits(<<SyncPlaceAccess>>, "access")
  /\ Waits(SyncSharesBestEffort, "sync") /\ Waits(SyncSharesBestEffort, "access")
<1>1. SyncShares \in TaskType /\ Stages(SyncShares) /\ Waiting(SyncShares)
      /\ SyncShares.kind = "sync" /\ SyncShares.at = "rows"
  BY DEF SyncShares, Task, TaskType, Stages, Waiting
<1>2. SyncPlaceAccess \in TaskType /\ Stages(SyncPlaceAccess) /\ Waiting(SyncPlaceAccess)
      /\ SyncPlaceAccess.kind = "access" /\ SyncPlaceAccess.at = "rows"
  BY DEF SyncPlaceAccess, Task, TaskType, Stages, Waiting
<1>3. /\ <<>> \in Seq(TaskType) /\ DOMAIN <<>> = {}
      /\ \A a, b \in TaskType : /\ <<a>> \in Seq(TaskType) /\ <<a, b>> \in Seq(TaskType)
                                /\ DOMAIN <<a>> = {1} /\ <<a>>[1] = a
                                /\ DOMAIN <<a, b>> = {1, 2} /\ <<a, b>>[1] = a /\ <<a, b>>[2] = b
  OBVIOUS
<1>4. Asking(<<>>)
  BY <1>3 DEF Asking
<1>5. Asking(<<SyncShares>>) /\ Waits(<<SyncShares>>, "sync")
  BY <1>1, <1>3 DEF Asking, Waits
<1>6. Asking(<<SyncPlaceAccess>>) /\ Waits(<<SyncPlaceAccess>>, "access")
  BY <1>2, <1>3 DEF Asking, Waits
<1> DEFINE b == <<SyncShares, SyncPlaceAccess>>
<1>7. b \in Seq(TaskType) /\ DOMAIN b = {1, 2} /\ b[1] = SyncShares /\ b[2] = SyncPlaceAccess
  BY <1>1, <1>2, <1>3
<1> HIDE DEF b
<1>8. Asking(b) /\ Waits(b, "sync") /\ Waits(b, "access")
  BY <1>1, <1>2, <1>7 DEF Asking, Waits
<1> QED
  BY <1>4, <1>5, <1>6, <1>8 DEF SyncSharesBestEffort, b

----------------------------------------------------------------------------
(* Steps *)

\* A task ends: the next has read nothing, so what counts is what is wanted now.
LEMMA EndedStep ==
  ASSUME QueueOK, Running, Holder.at # "rows", NEW s, Asking(s), queue' = Tail(queue) \o s
  PROVE  /\ QueueOK' /\ Reads' /\ AccessReads' /\ RemovedBare'
         /\ (\/ owed' \cap {"conf", "held"} # {} \/ due' > 0 \/ Waits(queue, "sync") \/ Waits(s, "sync")
             \/ conf' = Wanted(db)') => ConfTrue'
         /\ (\/ owed' \cap {"roster", "place"} # {} \/ due' > 0
             \/ Waits(queue, "access") \/ Waits(s, "access") \/ roster' = Writers') => RosterTrue'
         /\ ("roster" \in owed' \/ roster' \subseteq db.users') => RosterKnown'
<1>1. /\ QueueOK' /\ (Running' => Holder' \in TaskType /\ Stages(Holder') /\ Waiting(Holder'))
      /\ \A kind : Waits(queue, kind) \/ Waits(s, kind) => Waits(queue', kind)
  BY EndedQueue
<1>2. Running' => /\ Current(Holder', db') /\ Written(Holder', db') = Wanted(db')
                  /\ ~(Holder.kind' = "access" /\ Holder.at' \in {"people", "ask"})
                  /\ ~(Holder.kind' = "user" /\ Holder.at' = "commit")
                  /\ Holder.kind' = "remove" => Holder.volume' = Holder.place'
  BY <1>1, WaitingIsPlain
<1>3. Reads' /\ AccessReads' /\ RemovedBare'
  BY <1>2 DEF Reads, AccessReads, RemovedBare
<1>4. ASSUME \/ owed' \cap {"conf", "held"} # {} \/ due' > 0 \/ Waits(queue, "sync") \/ Waits(s, "sync")
             \/ conf' = Wanted(db)'
      PROVE  ConfTrue'
  <2>1. CASE conf' = Wanted(db)'
    BY <1>2, <2>1 DEF ConfTrue
  <2>2. CASE owed' \cap {"conf", "held"} # {} \/ due' > 0 \/ Waits(queue, "sync") \/ Waits(s, "sync")
    BY <1>1, <2>2 DEF ConfTrue, Promised
  <2> QED
    BY <1>4, <2>1, <2>2
<1>5. ASSUME \/ owed' \cap {"roster", "place"} # {} \/ due' > 0
             \/ Waits(queue, "access") \/ Waits(s, "access") \/ roster' = Writers'
      PROVE  RosterTrue'
  BY <1>1, <1>5 DEF RosterTrue, Promised
<1>6. ASSUME "roster" \in owed' \/ roster' \subseteq db.users'
      PROVE  RosterKnown'
  BY <1>2, <1>6 DEF RosterKnown
<1> QED
  BY <1>1, <1>3, <1>4, <1>5, <1>6

\* Two databases with the same shares and rights are the same to a task.
LEMMA SameRights ==
  ASSUME NEW d, NEW e, d.shares = e.shares, d.perms = e.perms, d.admins = e.admins,
         d.held = e.held
  PROVE  /\ ShareRows(d) = ShareRows(e) /\ Wanted(d) = Wanted(e)
         /\ \A rows : Defs(rows, d) = Defs(rows, e)
         /\ \A t : /\ Changed(t, d) = Changed(t, e) /\ Written(t, d) = Written(t, e)
                   /\ Current(t, d) <=> Current(t, e)
<1>1. ShareRows(d) = ShareRows(e)
  BY DEF ShareRows
<1>2. \A rows : Defs(rows, d) = Defs(rows, e)
  BY DEF Defs
<1>3. Wanted(d) = Wanted(e) /\ \A t : Changed(t, d) = Changed(t, e)
  BY <1>1, <1>2 DEF Wanted, Changed
<1>4. \A t : Written(t, d) = Written(t, e) /\ (Current(t, d) <=> Current(t, e))
  BY <1>1, <1>3 DEF Written, Current, ToWrite
<1> QED
  BY <1>1, <1>2, <1>3, <1>4

\* Elsewhere: what is asked while a task is at work, or nobody has the lock, and changes
\* nothing that it read or wrote.
LEMMA AskedStep ==
  ASSUME IInv, NEW s, Asking(s), queue' = queue \o s, owed \subseteq owed',
         UNCHANGED <<conf, roster>>,
         db'.shares = db.shares, db'.perms = db.perms, db'.admins = db.admins,
         db'.held = db.held, db.users \subseteq db'.users,
         "place" \in owed' \/ Writers' = Writers,
         due' > 0 \/ due' = due \/ (Waits(s, "sync") /\ Waits(s, "access")),
         due \in Nat, due' \in Nat
  PROVE  /\ QueueOK' /\ Reads' /\ AccessReads' /\ RemovedBare' /\ ConfTrue' /\ RosterTrue'
         /\ RosterKnown'
<1>1. /\ QueueOK' /\ (Running => Running' /\ Holder' = Holder)
      /\ ~Running /\ Running' => Holder' \in TaskType /\ Stages(Holder') /\ Waiting(Holder')
      /\ \A kind : Waits(queue, kind) \/ Waits(s, kind) => Waits(queue', kind)
  BY GrownQueue DEF IInv, Types
<1>2. ~Running /\ Running' =>
        /\ Current(Holder', db') /\ Written(Holder', db') = Wanted(db')
        /\ ~(Holder.kind' = "access" /\ Holder.at' \in {"people", "ask"})
        /\ ~(Holder.kind' = "user" /\ Holder.at' = "commit")
        /\ Holder.kind' = "remove" => Holder.volume' = Holder.place'
  BY <1>1, WaitingIsPlain
<1>3. (Promised("sync") => Promised("sync")') /\ (Promised("access") => Promised("access")')
  BY <1>1 DEF Promised
<1>a. /\ Wanted(db') = Wanted(db) /\ \A rows : Defs(rows, db') = Defs(rows, db)
      /\ \A t : Written(t, db') = Written(t, db) /\ (Current(t, db') <=> Current(t, db))
  BY SameRights
<1>4. Reads'
  BY <1>1, <1>2, <1>3, <1>a DEF IInv, Reads
<1>5. ConfTrue'
  BY <1>1, <1>2, <1>3, <1>a DEF IInv, ConfTrue
<1>6. AccessReads'
  BY <1>1, <1>2, <1>3, <1>a DEF IInv, AccessReads
<1>7. RosterTrue'
  BY <1>1, <1>2, <1>3 DEF IInv, RosterTrue
<1>8. RosterKnown'
  BY <1>1, <1>2, <1>3 DEF IInv, RosterKnown
<1>9. RemovedBare'
  BY <1>1, <1>2, <1>3 DEF IInv, RemovedBare
<1> QED
  BY <1>1, <1>4, <1>5, <1>6, <1>7, <1>8, <1>9

\* An edit of the database: whatever was read or written, a sync will come.
LEMMA EditedStep ==
  ASSUME IInv, UNCHANGED <<queue, conf, roster, owed>>, due' > 0, DbOK',
         db.users' = db.users,
         \A p \in Places : db.shares'[p] \in {db.shares[p], "none"}
  PROVE  /\ QueueOK' /\ Reads' /\ AccessReads' /\ RemovedBare' /\ ConfTrue' /\ RosterTrue'
         /\ RosterKnown'
<1>1. Promised("sync")' /\ Promised("access")'
  BY DEF Promised
<1>2. QueueOK' /\ Running' = Running /\ Holder' = Holder
  BY DEF IInv, Types, QueueOK, Running, Holder
<1>3. Reads' /\ AccessReads' /\ ConfTrue' /\ RosterTrue'
  BY <1>1 DEF Reads, AccessReads, ConfTrue, RosterTrue
<1>4. RosterKnown'
  BY <1>2 DEF IInv, RosterKnown
<1>5. RemovedBare'
  <2> SUFFICES ASSUME Running', Holder.kind' = "remove", NEW p \in Holder.volume' \ Holder.place'
               PROVE  db.shares'[p] = "none"
    BY DEF RemovedBare
  <2>1. Running /\ Holder.kind = "remove" /\ p \in Holder.volume \ Holder.place
    BY <1>2
  <2>2. p \in Places
    BY <2>1, HolderTyped DEF IInv, Types, TaskType
  <2>3. db.shares[p] = "none"
    BY <2>1 DEF IInv, RemovedBare
  <2> QED
    BY <2>2, <2>3
<1> QED
  BY <1>2, <1>3, <1>4, <1>5

----------------------------------------------------------------------------
(* What is asked of the backend *)

LEMMA OneAsks ==
  ASSUME NEW t \in TaskType, Stages(t), Waiting(t)
  PROVE  Asking(<<t>>)
<1>1. <<t>> \in Seq(TaskType) /\ DOMAIN <<t>> = {1} /\ <<t>>[1] = t
  OBVIOUS
<1> QED
  BY <1>1 DEF Asking

LEMMA RequestedKeeps ==
  ASSUME IInv, Requested
  PROVE  IInv'
<1>0. /\ DbOK /\ db \in DbType /\ due \in Nat /\ edits \in Nat /\ edits < MaxEdits
      /\ edits' = edits + 1 /\ due <= edits
      /\ UNCHANGED <<conf, roster, making, late, owed, faults>>
  BY SharingAssumption DEF IInv, Types, DbOK, Requested, Edit
<1>1. ASSUME DbOK', QueueOK', due' \in {due, due + 1}
      PROVE  Types'
  BY <1>0, <1>1, SharingAssumption DEF IInv, Types, MakingOK
<1>2. ASSUME NEW new, Write(new), new \in DbType, new.admins \subseteq new.users,
             \A p \in Places : /\ new.perms[p] \subseteq new.users
                               /\ p \notin new.places => new.perms[p] = {} /\ new.shares[p] = "none"
                               /\ new.shares[p] \in {db.shares[p], "none"},
             new.users = db.users
      PROVE  IInv'
  <2>1. db' = new /\ due' = due + 1 /\ queue' = queue
    BY <1>2 DEF Write
  <2>2. DbOK'
    BY <1>2, <2>1 DEF DbOK
  <2>3. due' > 0
    BY <1>0, <2>1
  <2> QED
    BY <1>0, <1>1, <1>2, <2>1, <2>2, <2>3, EditedStep DEF IInv
<1>3. ASSUME NEW t \in TaskType, Stages(t), Waiting(t), Asks(t)
      PROVE  IInv'
  <2>1. queue' = queue \o <<t>> /\ db' = db /\ due' = due
    BY <1>3, AppendIsConcat DEF Asks, IInv, Types, QueueOK
  <2>2. DbOK' /\ Writers' = Writers
    BY <1>0, <2>1 DEF DbOK, Writers
  <2>3. QueueOK' /\ Reads' /\ AccessReads' /\ RemovedBare' /\ ConfTrue' /\ RosterTrue'
        /\ RosterKnown'
    BY <1>0, <1>3, <2>1, <2>2, OneAsks, AskedStep
  <2> QED
    BY <1>1, <2>1, <2>2, <2>3 DEF IInv
<1>4. ASSUME NEW p \in Places, DeletePlace(p) PROVE IInv'
  <2>1. /\ Deleted(p) \in DbType
        /\ Deleted(p).users = db.users /\ Deleted(p).admins = db.admins
        /\ Deleted(p).places = db.places \ {p}
        /\ Deleted(p).perms[p] = {} /\ Deleted(p).shares[p] = "none"
        /\ \A q \in Places : q # p => /\ Deleted(p).shares[q] = db.shares[q]
                                      /\ Deleted(p).perms[q] = db.perms[q]
    BY <1>0, DeletedSound
  <2>2. \A q \in Places :
           /\ Deleted(p).perms[q] \subseteq db.users
           /\ q \notin Deleted(p).places => Deleted(p).perms[q] = {} /\ Deleted(p).shares[q] = "none"
           /\ Deleted(p).shares[q] \in {db.shares[q], "none"}
    BY <1>0, <2>1 DEF DbOK
  <2>3. Write(Deleted(p)) /\ db.admins \subseteq db.users
    BY <1>0, <1>4 DEF DeletePlace, DbOK
  <2> QED
    BY <1>2, <2>1, <2>2, <2>3
<1>5. ASSUME NEW p \in Places, SetHold(p) PROVE IInv'
  <2> DEFINE new == Held(p)
  <2>1. new \in DbType /\ new.users = db.users /\ new.admins = db.admins
        /\ new.places = db.places /\ new.perms = db.perms /\ new.shares = db.shares
    BY <1>0 DEF DbType, Held
  <2>2. Write(new)
    BY <1>5 DEF SetHold
  <2> HIDE DEF new
  <2> QED
    BY <1>0, <1>2, <2>1, <2>2 DEF DbOK
<1>6. ASSUME NEW p \in Places, NEW S \in SUBSET Users, SetPermissions(p, S) PROVE IInv'
  <2> DEFINE new == [db EXCEPT !.perms[p] = S]
  <2>1. new \in DbType /\ new.users = db.users /\ new.admins = db.admins
        /\ new.places = db.places /\ new.shares = db.shares
        /\ new.perms = [db.perms EXCEPT ![p] = S]
    BY <1>0 DEF DbType
  <2>2. Write(new) /\ S \subseteq db.users /\ p \in db.places
    BY <1>6 DEF SetPermissions
  <2> HIDE DEF new
  <2>3. \A q \in Places : new.perms[q] = IF q = p THEN S ELSE db.perms[q]
    BY <1>0, <2>1 DEF DbType
  <2> QED
    BY <1>0, <1>2, <2>1, <2>2, <2>3 DEF DbOK
<1>7. ASSUME NEW u \in Users, SetAdmin(u) PROVE IInv'
  <2> DEFINE new == [db EXCEPT !.admins = IF u \in @ THEN @ \ {u} ELSE @ \cup {u}]
  <2>1. new \in DbType /\ new.users = db.users /\ new.perms = db.perms
        /\ new.places = db.places /\ new.shares = db.shares
        /\ new.admins = IF u \in db.admins THEN db.admins \ {u} ELSE db.admins \cup {u}
    BY <1>0 DEF DbType
  <2>2. Write(new) /\ u \in db.users
    BY <1>7 DEF SetAdmin
  <2> HIDE DEF new
  <2>3. new.admins \subseteq new.users
    BY <1>0, <2>1, <2>2 DEF DbOK
  <2> QED
    BY <1>0, <1>2, <2>1, <2>2, <2>3 DEF DbOK
<1>8. ASSUME NEW u \in Users, CreateUser(u) PROVE IInv'
  <2>1. db' = [db EXCEPT !.users = @ \cup {u}] /\ queue' = queue /\ due' = due
    BY <1>8 DEF CreateUser
  <2>2. /\ db' \in DbType /\ db'.users = db.users \cup {u} /\ db'.admins = db.admins
        /\ db'.places = db.places /\ db'.perms = db.perms /\ db'.shares = db.shares
        /\ db'.held = db.held
    BY <1>0, <2>1 DEF DbType
  <2>3. DbOK'
    BY <1>0, <2>2 DEF DbOK
  <2>4. Writers' = Writers
    BY <2>2 DEF Writers, WritersOf, Defs, PlaceRows
  <2>5. queue' = queue \o <<>>
    BY <2>1, EmptySeq, ConcatEmptySeq DEF IInv, Types, QueueOK
  <2>6. QueueOK' /\ Reads' /\ AccessReads' /\ RemovedBare' /\ ConfTrue' /\ RosterTrue'
        /\ RosterKnown'
    BY <1>0, <2>1, <2>2, <2>4, <2>5, SyncsAsk, AskedStep
  <2> QED
    BY <1>1, <2>1, <2>3, <2>6 DEF IInv
<1>9. ASSUME NEW p \in Places, NEW op \in {"create", "enable", "disable", "remove"}, BeginShare(op, p)
      PROVE  IInv'
  <2>1. /\ Task("share", op, {p}, {}) \in TaskType
        /\ Stages(Task("share", op, {p}, {})) /\ Waiting(Task("share", op, {p}, {}))
    BY DEF Task, TaskType, Stages, Waiting
  <2> QED
    BY <1>3, <1>9, <2>1 DEF BeginShare
<1>10. ASSUME NEW S \in SUBSET Places, BeginRemove(S)
       PROVE  IInv'
  <2> DEFINE shared == \E p \in S : db.shares[p] = "on"
             t == [Task("remove", IF shared THEN "shared" ELSE "unshared", S, {})
                     EXCEPT !.at = IF shared THEN "rows" ELSE "parts", !.volume = S]
  <2>1. t \in TaskType /\ Stages(t) /\ Waiting(t)
    BY DEF Task, TaskType, Stages, Waiting
  <2>2. Asks(t)
    BY <1>10 DEF BeginRemove
  <2> HIDE DEF t
  <2> QED
    BY <1>3, <2>1, <2>2
<1>11. ASSUME NEW u \in Users, BeginUserDelete(u)
       PROVE  IInv'
  <2>1. /\ Task("user", "none", {}, {u}) \in TaskType
        /\ Stages(Task("user", "none", {}, {u})) /\ Waiting(Task("user", "none", {}, {u}))
    BY DEF Task, TaskType, Stages, Waiting
  <2> QED
    BY <1>3, <1>11, <2>1 DEF BeginUserDelete
<1> QED
  BY <1>4, <1>5, <1>6, <1>7, <1>8, <1>9, <1>10, <1>11 DEF Requested

\* Two databases with the same rights name the same writers.
LEMMA NewPlaceSound ==
  ASSUME DbOK, NEW p \in Places, p \notin db.places, NewPlace(p)
  PROVE  /\ DbOK' /\ db'.users = db.users /\ db'.admins = db.admins
         /\ db'.perms = db.perms /\ db'.shares = db.shares /\ db'.held = db.held
         /\ db'.places = db.places \cup {p}
         /\ owed \subseteq owed' /\ owed' \subseteq owed \cup {"place"}
         /\ "place" \in owed' \/ Writers' = Writers
<1> DEFINE with == [db EXCEPT !.places = @ \cup {p}]
<1>1. /\ db' = with /\ owed' = owed \cup (IF WritersOf(with) = Writers THEN {} ELSE {"place"})
  BY DEF NewPlace, Owe
<1>2. /\ with \in DbType /\ with.users = db.users /\ with.admins = db.admins
      /\ with.perms = db.perms /\ with.shares = db.shares /\ with.held = db.held
      /\ with.places = db.places \cup {p}
  BY DEF DbOK, DbType
<1> HIDE DEF with
<1>3. DbOK'
  BY <1>1, <1>2 DEF DbOK
<1>4. Writers' = WritersOf(with)
  BY <1>1 DEF Writers
<1> QED
  BY <1>1, <1>2, <1>3, <1>4

LEMMA CreatePlaceKeeps ==
  ASSUME IInv, NEW p \in Places, CreatePlace(p)
  PROVE  IInv'
<1>1. DbOK /\ QueueOK /\ p \notin db.places /\ NewPlace(p) /\ due \in Nat
      /\ edits' = edits + 1 /\ edits < MaxEdits
      /\ UNCHANGED <<conf, roster, queue, making, due, late, faults>>
  BY SharingAssumption DEF IInv, Types, CreatePlace, Edit
<1>2. queue' = queue \o <<>>
  BY <1>1, ConcatEmptySeq DEF QueueOK
<1>3. QueueOK' /\ Reads' /\ AccessReads' /\ RemovedBare' /\ ConfTrue' /\ RosterTrue'
      /\ RosterKnown'
  BY <1>1, <1>2, NewPlaceSound, SyncsAsk, AskedStep
<1>4. DbOK' /\ owed' \subseteq owed \cup {"place"}
  BY <1>1, NewPlaceSound
<1>5. Types'
  BY <1>1, <1>3, <1>4, SharingAssumption DEF IInv, Types, MakingOK
<1> QED
  BY <1>3, <1>5 DEF IInv

\* Who may write does not depend on what is held.
LEMMA SameMembers ==
  ASSUME NEW d, NEW e, d.perms = e.perms, d.admins = e.admins, NEW rows
  PROVE  Members(Defs(rows, d)) = Members(Defs(rows, e))
<1>1. ASSUME NEW f, NEW u \in Members(Defs(rows, f))
      PROVE  \E x \in rows : x.on /\ u \in f.perms[x.place] \cup f.admins
  BY <1>1 DEF Members, Defs
<1>2. ASSUME NEW f, NEW u, NEW x \in rows, x.on, u \in f.perms[x.place] \cup f.admins
      PROVE  u \in Members(Defs(rows, f))
  <2>1. [place |-> x.place, users |-> f.perms[x.place] \cup f.admins, held |-> x.place \in f.held]
          \in Defs(rows, f)
    BY <1>2 DEF Defs
  <2> QED
    BY <1>2, <2>1 DEF Members
<1>3. \A u \in Members(Defs(rows, d)) : u \in Members(Defs(rows, e))
  BY <1>1, <1>2
<1>4. \A u \in Members(Defs(rows, e)) : u \in Members(Defs(rows, d))
  BY <1>1, <1>2
<1> QED
  BY <1>3, <1>4

LEMMA HoldUnsyncedKeeps ==
  ASSUME IInv, NEW p \in Places, HoldUnsynced(p)
  PROVE  IInv'
<1>1. /\ db \in DbType /\ DbOK /\ owed' = owed \cup {"held"} /\ db' = Held(p)
      /\ edits' \in 0..MaxEdits /\ faults' \in 0..MaxFaults /\ due <= edits' /\ due \in 0..MaxEdits
      /\ UNCHANGED <<conf, roster, queue, making, due, late>>
  BY SharingAssumption DEF IInv, Types, DbOK, HoldUnsynced, Owe, Edit, Fault
<1>2. /\ db' \in DbType /\ db'.users = db.users /\ db'.admins = db.admins
      /\ db'.places = db.places /\ db'.perms = db.perms /\ db'.shares = db.shares
  BY <1>1 DEF Held, DbType
<1>3. DbOK'
  BY <1>1, <1>2 DEF DbOK
<1>4. QueueOK' /\ Running' = Running /\ Holder' = Holder
  BY <1>1 DEF IInv, Types, QueueOK, Running, Holder
<1>5. Types'
  BY <1>1, <1>3, <1>4 DEF IInv, Types, MakingOK
<1>6. Promised("sync")' /\ (Promised("access") => Promised("access")')
  BY <1>1 DEF Promised
<1>7. Reads' /\ ConfTrue'
  BY <1>6 DEF Reads, ConfTrue
<1>8. Writers' = Writers /\ Members(Defs(Holder.rows, db)') = Members(Defs(Holder.rows, db))
  <2>1. PlaceRows(db') = PlaceRows(db)
    BY <1>2 DEF PlaceRows
  <2>2. \A rows : Members(Defs(rows, db')) = Members(Defs(rows, db))
    BY <1>2, SameMembers
  <2> QED
    BY <1>4, <2>1, <2>2 DEF Writers, WritersOf
<1>9. AccessReads'
  BY <1>1, <1>4, <1>6, <1>8 DEF IInv, AccessReads
<1>10. RosterTrue'
  BY <1>1, <1>4, <1>6, <1>8 DEF IInv, RosterTrue
<1>11. RosterKnown'
  BY <1>1, <1>2, <1>4 DEF IInv, RosterKnown
<1>12. RemovedBare'
  BY <1>2, <1>4 DEF IInv, RemovedBare
<1> QED
  BY <1>5, <1>7, <1>9, <1>10, <1>11, <1>12 DEF IInv

LEMMA BeginVolumeKeeps ==
  ASSUME IInv, NEW p \in Places, BeginVolume(p)
  PROVE  IInv'
<1>1. DbOK /\ QueueOK /\ due \in Nat /\ edits' = edits + 1 /\ edits < MaxEdits
      /\ making' = [NotMaking EXCEPT !.at = "rows", !.place = {p}]
      /\ UNCHANGED <<db, conf, roster, queue, due, late, owed, faults>>
  BY SharingAssumption DEF IInv, Types, BeginVolume, Edit
<1>2. queue' = queue \o <<>>
  BY <1>1, ConcatEmptySeq DEF QueueOK
<1>3. DbOK' /\ Writers' = Writers
  BY <1>1 DEF DbOK, Writers
<1>4. QueueOK' /\ Reads' /\ AccessReads' /\ RemovedBare' /\ ConfTrue' /\ RosterTrue'
      /\ RosterKnown'
  BY <1>1, <1>2, <1>3, SyncsAsk, AskedStep
<1>5. MakingOK'
  BY <1>1 DEF MakingOK, MakingType, NotMaking
<1>6. Types'
  BY <1>1, <1>3, <1>4, <1>5, SharingAssumption DEF IInv, Types
<1> QED
  BY <1>4, <1>6 DEF IInv

LEMMA QueueSyncsKeeps ==
  ASSUME IInv, QueueSyncs
  PROVE  IInv'
<1>1. DbOK /\ QueueOK /\ due \in Nat /\ due' = due - 1 /\ due' \in Nat
      /\ queue' = queue \o SyncSharesBestEffort
      /\ UNCHANGED <<db, conf, roster, making, late, owed, edits, faults>>
  BY SharingAssumption DEF IInv, Types, QueueSyncs
<1>2. DbOK' /\ Writers' = Writers
  BY <1>1 DEF DbOK, Writers
<1>3. QueueOK' /\ Reads' /\ AccessReads' /\ RemovedBare' /\ ConfTrue' /\ RosterTrue'
      /\ RosterKnown'
  BY <1>1, <1>2, SyncsAsk, AskedStep
<1>4. Types'
  BY <1>1, <1>2, <1>3, SharingAssumption DEF IInv, Types, MakingOK
<1> QED
  BY <1>3, <1>4 DEF IInv

\* What a task may ask of the worker, and what the worker does with it.
LEMMA RequestTyped ==
  ASSUME Types, Running
  PROVE  Request \in RequestType
<1>1. Holder \in TaskType /\ conf \subseteq ShareDefs
      /\ (Holder.kind \in {"sync", "access"} => Holder.at # "leave")
  BY HolderTyped DEF Types, Stages
<1>2. Members(Holder.defs) \subseteq Users
  <2> SUFFICES ASSUME NEW u \in Members(Holder.defs) PROVE u \in Users
    OBVIOUS
  <2>1. PICK s \in Holder.defs : u \in s.users
    BY DEF Members
  <2> QED
    BY <1>1, <2>1 DEF TaskType, ShareDefs
<1>3. /\ Holder.defs \in SUBSET ShareDefs /\ Holder.who \in SUBSET Users
      /\ Holder.confSeen \in SUBSET ShareDefs /\ Holder.rosterSeen \in SUBSET Users
  BY <1>1 DEF TaskType
<1>4. CASE Holder.kind = "sync"
  <2>1. Request = [to |-> "sync", defs |-> Holder.defs, who |-> {}, seen |-> {}]
    BY <1>1, <1>4 DEF Request
  <2> QED
    BY <1>3, <2>1 DEF RequestType
<1>5. CASE Holder.kind = "access"
  <2>1. Request = [to |-> "access", defs |-> {}, who |-> Members(Holder.defs), seen |-> {}]
    BY <1>1, <1>5 DEF Request
  <2> QED
    BY <1>2, <2>1 DEF RequestType
<1>6. CASE Holder.kind \notin {"sync", "access"} /\ Holder.at = "leave"
  <2>1. Request = [to |-> "leave", defs |-> {}, who |-> Holder.who, seen |-> Holder.rosterSeen]
    BY <1>6 DEF Request
  <2>2. {} \subseteq ShareDefs
    OBVIOUS
  <2>3. Holder.rosterSeen \in (SUBSET ShareDefs) \cup (SUBSET Users)
    BY <1>3
  <2> QED
    BY <1>3, <2>1, <2>2, <2>3 DEF RequestType
<1>7. CASE Holder.kind \notin {"sync", "access"} /\ Holder.at # "leave"
  BY <1>1, <1>3, <1>7 DEF Request, RequestType
<1> QED
  BY <1>4, <1>5, <1>6, <1>7

LEMMA ServeTyped ==
  ASSUME NEW m \in RequestType, Serve(m), conf \subseteq ShareDefs, roster \subseteq Users
  PROVE  /\ conf' \subseteq ShareDefs /\ roster' \subseteq Users
         /\ m.to \in {"sync", "apply"} => conf' = m.defs /\ roster' = roster
         /\ m.to = "access" => roster' = m.who /\ conf' = conf
         /\ m.to = "leave" => roster' = roster \ m.who /\ conf' = conf
BY DEF Serve, RequestType

LEMMA LateRunKeeps ==
  ASSUME IInv, LateRun
  PROVE  IInv'
<1>1. PICK m \in late :
         /\ late' = late \ {m}
         /\ IF Fresh(m)
            THEN Serve(m) /\ Owe({IF m.to \in {"sync", "apply"} THEN "conf" ELSE "roster"})
            ELSE UNCHANGED <<conf, roster, owed>>
         /\ UNCHANGED <<db, queue, making, due, edits, faults>>
  BY DEF LateRun
<1>2. Types /\ m \in RequestType /\ conf \subseteq ShareDefs /\ roster \subseteq Users
  BY <1>1 DEF IInv, Types
<1>3. /\ conf' \subseteq ShareDefs /\ roster' \subseteq Users /\ owed \subseteq owed'
      /\ ("held" \in owed' <=> "held" \in owed)
      /\ owed' \subseteq {"conf", "roster", "place", "held"}
      /\ (conf' = conf \/ "conf" \in owed')
      /\ (roster' = roster \/ "roster" \in owed')
  BY <1>1, <1>2, ServeTyped DEF Owe, RequestType, Types
<1>4. Types'
  BY <1>1, <1>2, <1>3 DEF Types, DbOK, MakingOK, QueueOK
<1>5. Running' = Running /\ Holder' = Holder /\ Promised("sync")' = Promised("sync")
      /\ Promised("access")' = Promised("access") /\ Writers' = Writers
  BY <1>1, <1>3 DEF Running, Holder, Promised, Writers
<1>6. Reads'
  BY <1>1, <1>5 DEF IInv, Reads
<1>7. ConfTrue'
  <2>1. CASE "conf" \in owed'
    BY <2>1 DEF ConfTrue
  <2>2. CASE conf' = conf
    BY <1>1, <1>3, <1>5, <2>2 DEF IInv, ConfTrue
  <2> QED
    BY <1>3, <2>1, <2>2
<1>8. AccessReads'
  BY <1>1, <1>3, <1>5 DEF IInv, AccessReads
<1>9. RosterTrue'
  BY <1>1, <1>3, <1>5 DEF IInv, RosterTrue
<1>10. RosterKnown'
  BY <1>1, <1>3, <1>5 DEF IInv, RosterKnown
<1>11. RemovedBare'
  BY <1>1, <1>5 DEF IInv, RemovedBare
<1> QED
  BY <1>4, <1>6, <1>7, <1>8, <1>9, <1>10, <1>11 DEF IInv

LEMMA RestartKeeps ==
  ASSUME IInv, Restart
  PROVE  IInv'
<1>1. /\ queue' = SyncSharesBestEffort /\ due' = 0 /\ making' = NotMaking
      /\ faults < MaxFaults /\ faults' = faults + 1
      /\ UNCHANGED <<db, conf, roster, owed, edits>>
  BY DEF Restart, Fault
<1>2. late' \subseteq late \cup (IF Running THEN {Request} ELSE {})
  BY DEF Restart
<1>3. late' \subseteq RequestType
  BY <1>2, RequestTyped DEF IInv, Types
<1>4. Asking(queue') /\ Waits(queue', "sync") /\ Waits(queue', "access")
  BY <1>1, SyncsAsk
<1>5. queue'[1] = SyncShares
  BY <1>1 DEF SyncSharesBestEffort
<1>6. QueueOK'
  BY <1>4 DEF Asking, QueueOK
<1>7. Holder.kind' = "sync" /\ Holder.at' = "rows"
  BY <1>5 DEF Holder, SyncShares, Task
<1>8. MakingOK'
  BY <1>1 DEF MakingOK, MakingType, NotMaking
<1>9. Types'
  BY <1>1, <1>3, <1>6, <1>8, SharingAssumption DEF IInv, Types, DbOK
<1>10. Reads' /\ ConfTrue' /\ AccessReads' /\ RosterTrue' /\ RemovedBare'
  BY <1>4, <1>7 DEF Reads, ConfTrue, AccessReads, RosterTrue, RemovedBare, Promised
<1>11. RosterKnown'
  BY <1>1, <1>7 DEF IInv, RosterKnown
<1> QED
  BY <1>9, <1>10, <1>11 DEF IInv

LEMMA MakingKeeps ==
  ASSUME IInv, Making
  PROVE  IInv'
<1>1. DbOK /\ QueueOK /\ MakingOK /\ due \in Nat /\ conf \subseteq ShareDefs /\ db \in DbType
  BY SharingAssumption DEF IInv, Types, DbOK
<1>2. NotMaking \in MakingType /\ NotMaking.at = "no" /\ making \in MakingType
  BY <1>1 DEF NotMaking, MakingType, MakingOK
<1>3. ASSUME MakingOK', UNCHANGED <<db, conf, roster, queue, due, late, owed, edits, faults>>
      PROVE  IInv'
  <2>1. queue' = queue \o <<>>
    BY <1>1, <1>3, ConcatEmptySeq DEF QueueOK
  <2>2. DbOK' /\ Writers' = Writers
    BY <1>1, <1>3 DEF DbOK, Writers
  <2>3. QueueOK' /\ Reads' /\ AccessReads' /\ RemovedBare' /\ ConfTrue' /\ RosterTrue'
        /\ RosterKnown'
    BY <1>1, <1>3, <2>1, <2>2, SyncsAsk, AskedStep
  <2>4. Types'
    BY <1>1, <1>3, <2>2, <2>3 DEF IInv, Types
  <2> QED
    BY <2>3, <2>4 DEF IInv
<1>4. CASE MakeRows
  <2> DEFINE t == Task("volume", "create", making.place, {})
             rows == OverlayShares(ShareRows(db), t)
  <2>1. t \in TaskType
    BY <1>2 DEF Task, TaskType, MakingType
  <2>2. rows \in SUBSET RowType
    BY <1>1, <2>1, ChangedTyped
  <2>3. making' = [making EXCEPT !.at = "people", !.rows = rows]
    BY <1>4 DEF MakeRows
  <2> HIDE DEF rows
  <2>4. MakingOK'
    BY <1>1, <1>4, <2>2, <2>3 DEF MakingOK, MakingType, MakeRows
  <2> QED
    BY <1>3, <1>4, <2>4 DEF MakeRows
<1>5. CASE MakePeople
  <2>1. making.rows \in SUBSET RowType
    BY <1>2 DEF MakingType
  <2>2. Defs(making.rows, db) \in SUBSET ShareDefs
    BY <1>1, <2>1, DefsTyped
  <2>3. making' = [making EXCEPT !.at = "preview", !.defs = Defs(making.rows, db)]
    BY <1>5 DEF MakePeople
  <2>4. MakingOK'
    BY <1>1, <1>5, <2>2, <2>3 DEF MakingOK, MakingType, MakePeople
  <2> QED
    BY <1>3, <1>5, <2>4 DEF MakePeople
<1>6. CASE MakePreview
  <2>1. MakingOK'
    BY <1>1, <1>2, <1>6 DEF MakingOK, MakingType, MakePreview
  <2> QED
    BY <1>3, <1>6, <2>1 DEF MakePreview
<1>7. CASE MakeDisks
  <2>1. MakingOK'
    BY <1>1, <1>2, <1>7 DEF MakingOK, MakingType, MakeDisks
  <2> QED
    BY <1>3, <1>7, <2>1 DEF MakeDisks
<1>8. CASE MakePlace
  <2>1. making' = NotMaking /\ UNCHANGED <<conf, roster, due, late, edits, faults>>
    BY <1>8 DEF MakePlace
  <2>2. MakingOK'
    BY <1>2, <2>1 DEF MakingOK
  <2>3. CASE UNCHANGED <<db, queue, owed>>
    BY <1>3, <2>1, <2>2, <2>3
  <2>4. ASSUME NEW p \in making.place, NewPlace(p), ~(making.place \subseteq db.places),
               queue' \in {queue, Append(queue, VolumeShare)}
        PROVE  IInv'
    <3>1. p \in Places /\ p \notin db.places
      BY <1>1, <1>8, <2>4 DEF MakingOK, MakePlace
    <3>2. VolumeShare \in TaskType /\ Stages(VolumeShare) /\ Waiting(VolumeShare)
      BY <1>2 DEF VolumeShare, Task, TaskType, MakingType, Stages, Waiting
    <3>3. PICK s : Asking(s) /\ queue' = queue \o s
      <4>1. CASE queue' = queue
        BY <1>1, <4>1, ConcatEmptySeq, SyncsAsk DEF QueueOK
      <4>2. CASE queue' = Append(queue, VolumeShare)
        BY <1>1, <3>2, <4>2, OneAsks, AppendIsConcat DEF QueueOK
      <4> QED
        BY <2>4, <4>1, <4>2
    <3>4. /\ DbOK' /\ db'.users = db.users /\ db'.admins = db.admins
          /\ db'.perms = db.perms /\ db'.shares = db.shares /\ db'.held = db.held
          /\ owed \subseteq owed' /\ owed' \subseteq owed \cup {"place"}
          /\ "place" \in owed' \/ Writers' = Writers
      BY <1>1, <2>4, <3>1, NewPlaceSound
    <3>5. QueueOK' /\ Reads' /\ AccessReads' /\ RemovedBare' /\ ConfTrue' /\ RosterTrue'
          /\ RosterKnown'
      BY <1>1, <2>1, <3>3, <3>4, AskedStep
    <3>6. Types'
      BY <1>1, <2>1, <2>2, <3>4, <3>5 DEF IInv, Types
    <3> QED
      BY <3>5, <3>6 DEF IInv
  <2> QED
    BY <1>8, <2>3, <2>4 DEF MakePlace
<1> QED
  BY <1>4, <1>5, <1>6, <1>7, <1>8 DEF Making

----------------------------------------------------------------------------
(* The task at work *)

\* What every step of a task leaves well formed, whatever it does.
StepTyped ==
    /\ UNCHANGED <<making, due, edits>> /\ faults' \in 0..MaxFaults
    /\ late' \subseteq RequestType /\ conf' \subseteq ShareDefs /\ roster' \subseteq Users
    /\ owed' \subseteq {"conf", "roster", "place", "held"}

LEMMA TypesFollow ==
  ASSUME Types, StepTyped, DbOK', QueueOK'
  PROVE  Types'
BY DEF Types, StepTyped, MakingOK

\* The task ends and leaves the database as it was.
LEMMA TaskEnds ==
  ASSUME IInv, Running, Holder.at # "rows", NEW s, Asking(s), queue' = Tail(queue) \o s,
         StepTyped, db' = db, "held" \in owed => "held" \in owed',
         \/ "conf" \in owed' \/ Waits(s, "sync") \/ Promised("sync") \/ conf' = Wanted(db)
         \/ /\ conf' = conf /\ ("conf" \in owed => "conf" \in owed')
            /\ Holder.kind # "sync" /\ Written(Holder, db) = Wanted(db),
         \/ owed' \cap {"roster", "place"} # {} \/ Waits(s, "access") \/ Promised("access")
         \/ roster' = Writers
         \/ /\ roster' = roster /\ owed \subseteq owed' \cup {"conf"}
            /\ Holder.kind # "access" /\ ~(Holder.kind = "user" /\ Holder.at = "commit")
            /\ ~(Holder.kind = "remove" /\ Holder.gone),
         \/ "roster" \in owed' \/ roster' \subseteq db.users
         \/ roster' = roster /\ ("roster" \in owed => "roster" \in owed')
  PROVE  IInv'
<1>1. Types /\ QueueOK /\ DbOK' /\ Writers' = Writers /\ Wanted(db)' = Wanted(db) /\ due' = due
  BY DEF IInv, Types, DbOK, Writers, StepTyped
<1>2. /\ QueueOK' /\ Reads' /\ AccessReads' /\ RemovedBare'
      /\ (\/ owed' \cap {"conf", "held"} # {} \/ due' > 0 \/ Waits(queue, "sync") \/ Waits(s, "sync")
          \/ conf' = Wanted(db)') => ConfTrue'
      /\ (\/ owed' \cap {"roster", "place"} # {} \/ due' > 0
          \/ Waits(queue, "access") \/ Waits(s, "access") \/ roster' = Writers') => RosterTrue'
      /\ ("roster" \in owed' \/ roster' \subseteq db.users') => RosterKnown'
  BY <1>1, EndedStep
<1>3. ConfTrue'
  BY <1>1, <1>2 DEF IInv, ConfTrue, Promised
<1>4. RosterTrue'
  BY <1>1, <1>2 DEF IInv, RosterTrue, Promised
<1>5. RosterKnown'
  BY <1>1, <1>2 DEF IInv, RosterKnown
<1>6. Types'
  BY <1>1, <1>2, TypesFollow
<1> QED
  BY <1>2, <1>3, <1>4, <1>5, <1>6 DEF IInv

\* The task goes on, and the database stays as it is.
LEMMA TaskMoves ==
  ASSUME IInv, Running, NEW t \in TaskType, Stages(t), queue' = [queue EXCEPT ![1] = t],
         t.kind = Holder.kind, t.volume = Holder.volume, t.place = Holder.place,
         StepTyped, db' = db,
         Promised("sync")' \/ Current(t, db),
         \/ "conf" \in owed' \/ Promised("sync")' \/ t.kind = "sync" \/ conf' = Written(t, db),
         t.kind = "access" =>
            \/ "place" \in owed' \/ Promised("access")'
            \/ /\ t.at = "people" => Members(Defs(t.rows, db)) = Writers
               /\ t.at = "ask" => Members(t.defs) = Writers,
         \/ owed' \cap {"roster", "place"} # {} \/ Promised("access")' \/ t.kind = "access"
         \/ t.kind = "user" /\ t.at = "commit"
         \/ t.kind = "remove" /\ t.gone
         \/ roster' = Writers,
         "roster" \in owed' \/ roster' \subseteq db.users,
         t.kind = "user" /\ t.at = "commit" => "roster" \in owed' \/ roster' \cap t.who = {},
         t.kind = "access" /\ t.at = "ask" => Members(t.defs) \subseteq db.users
  PROVE  IInv'
<1>1. Types /\ QueueOK /\ DbOK' /\ Writers' = Writers
  BY DEF IInv, Types, DbOK, Writers
<1>2. QueueOK' /\ Running' /\ Holder' = t
  BY <1>1, MovedQueue
<1>3. Types'
  BY <1>1, <1>2, TypesFollow
<1>4. Reads'
  BY <1>2 DEF Reads
<1>5. ConfTrue'
  BY <1>2 DEF ConfTrue
<1>6. AccessReads'
  BY <1>1, <1>2 DEF AccessReads
<1>7. RosterTrue'
  BY <1>1, <1>2 DEF RosterTrue
<1>8. RosterKnown'
  BY <1>2 DEF RosterKnown
<1>9. RemovedBare'
  BY <1>2 DEF IInv, RemovedBare
<1> QED
  BY <1>3, <1>4, <1>5, <1>6, <1>7, <1>8, <1>9 DEF IInv

\* The same for a step that has nothing to do with the group.
LEMMA TaskGoes ==
  ASSUME IInv, Running, NEW t \in TaskType, Stages(t), queue' = [queue EXCEPT ![1] = t],
         t.kind = Holder.kind, t.volume = Holder.volume, t.place = Holder.place,
         t.gone = Holder.gone, StepTyped, db' = db,
         roster' = roster, owed \ {"held"} \subseteq owed',
         t.kind # "access", ~(t.kind = "user" /\ t.at = "commit"),
         ~(Holder.kind = "user" /\ Holder.at = "commit"),
         Promised("sync")' \/ Current(t, db),
         \/ "conf" \in owed' \/ Promised("sync")' \/ t.kind = "sync" \/ conf' = Written(t, db)
  PROVE  IInv'
<1>1. Waits(queue, "access") => Waits(queue', "access")
  BY MovedQueue DEF IInv, Types
<1>2. Promised("access") => Promised("access")'
  BY <1>1 DEF Promised, StepTyped
<1>3. \/ owed' \cap {"roster", "place"} # {} \/ Promised("access")' \/ t.kind = "access"
      \/ t.kind = "user" /\ t.at = "commit"
      \/ t.kind = "remove" /\ t.gone
      \/ roster' = Writers
  BY <1>2 DEF IInv, RosterTrue
<1>4. "roster" \in owed' \/ roster' \subseteq db.users
  BY DEF IInv, RosterKnown
<1> QED
  BY <1>3, <1>4, TaskMoves

\* What was promised stays so while the task moves on.
LEMMA PromiseKept ==
  ASSUME IInv, Running, NEW t \in TaskType, Stages(t), queue' = [queue EXCEPT ![1] = t],
         due' = due, Holder.at # "rows", "held" \in owed => "held" \in owed'
  PROVE  (Promised("sync") => Promised("sync")') /\ (Promised("access") => Promised("access")')
BY MovedQueue DEF IInv, Types, Promised

\* The outcomes of a request leave the worker's side well formed.
LEMMA AskedTyped ==
  ASSUME Types, Running, Serve(Request) \/ UNCHANGED <<conf, roster>>,
         late' \subseteq late \cup {Request},
         faults' = faults \/ (faults < MaxFaults /\ faults' = faults + 1),
         owed' \subseteq owed \cup {"conf", "roster"}, UNCHANGED <<making, due, edits>>
  PROVE  StepTyped
<1>1. Request \in RequestType
  BY RequestTyped
<1>2. conf' \subseteq ShareDefs /\ roster' \subseteq Users
  BY <1>1, ServeTyped DEF Types
<1>3. faults' \in 0..MaxFaults
  BY SharingAssumption DEF Types
<1>4. late' \subseteq RequestType
  BY <1>1 DEF Types
<1> QED
  BY <1>2, <1>3, <1>4 DEF Types, StepTyped

\* Two tasks with the same change ask for the same.
LEMMA SameChange ==
  ASSUME NEW t, NEW s, s.op = t.op, s.place = t.place, NEW d
  PROVE  OverlayShares(ShareRows(d), s) = OverlayShares(ShareRows(d), t) /\ Changed(s, d) = Changed(t, d)
BY DEF OverlayShares, Changed

LEMMA ReadRowsKeeps ==
  ASSUME IInv, ReadRows
  PROVE  IInv'
<1> DEFINE h == Holder
           rows == IF h.kind = "access" THEN PlaceRows(db) ELSE OverlayShares(ShareRows(db), h)
           t == [h EXCEPT !.at = "people", !.rows = rows]
<1>1. /\ Running /\ h.at = "rows" /\ queue' = [queue EXCEPT ![1] = t]
      /\ owed' = owed \ (CASE h.kind = "sync" -> {"held"}
                           [] h.kind = "access" -> {"place"}
                           [] OTHER -> {})
      /\ UNCHANGED <<db, conf, roster, making, due, late, edits, faults>>
  BY DEF ReadRows, Holder
<1>2. h \in TaskType /\ Stages(h) /\ db \in DbType /\ Types
  BY <1>1, HolderTyped DEF IInv, Types, DbOK
<1>3. rows \in SUBSET RowType
  <2>1. PlaceRows(db) \subseteq RowType
    <3>1. \A p \in Places : [place |-> p, on |-> TRUE] \in RowType
      BY DEF RowType
    <3> QED
      BY <1>2, <3>1 DEF PlaceRows, DbType
  <2> QED
    BY <1>2, <2>1, ChangedTyped
<1> HIDE DEF rows, h
<1>4. t = [h EXCEPT !.at = "people", !.rows = rows] /\ t \in TaskType
      /\ t.at = "people" /\ t.rows = rows /\ t.kind = h.kind /\ t.op = h.op /\ t.place = h.place
      /\ t.who = h.who /\ t.resync = h.resync /\ t.volume = h.volume /\ t.gone = h.gone
  BY <1>2, <1>3 DEF TaskType
<1> HIDE DEF t
<1>5. Stages(t)
  BY <1>1, <1>2, <1>4 DEF Stages, TaskType
<1>6. StepTyped
  BY <1>1, <1>2 DEF Types, StepTyped
<1>7. h.kind # "sync" => (Promised("sync") => Promised("sync")')
  BY <1>1, <1>2, <1>4, <1>5, MovedQueue DEF Types, Promised, h
<1>8. /\ t.kind = Holder.kind /\ t.volume = Holder.volume /\ t.place = Holder.place
      /\ t.gone = Holder.gone
  BY <1>4 DEF h
<1>9. \/ "conf" \in owed' \/ Promised("sync")' \/ t.kind = "sync" \/ conf' = Written(t, db)
  <2>1. Written(t, db) = Wanted(db) /\ Written(h, db) = Wanted(db)
    BY <1>1, <1>4 DEF Written
  <2>2. \/ "conf" \in owed \/ Promised("sync") \/ h.kind = "sync" \/ conf = Written(h, db)
    BY <1>1 DEF IInv, ConfTrue, h
  <2> QED
    BY <1>1, <1>4, <1>7, <2>1, <2>2
<1>10. CASE h.kind = "access"
  <2>1. Current(t, db)
    BY <1>4, <1>10 DEF Current, ToWrite
  <2>2. Members(Defs(t.rows, db)) = Writers
    BY <1>4, <1>10 DEF Writers, WritersOf, rows
  <2>3. "roster" \in owed' \/ roster' \subseteq db.users
    BY <1>1 DEF IInv, RosterKnown
  <2> QED
    BY <1>1, <1>4, <1>5, <1>6, <1>8, <1>9, <1>10, <2>1, <2>2, <2>3, TaskMoves
<1>11. CASE h.kind # "access"
  <2>1. OverlayShares(ShareRows(db), t) = OverlayShares(ShareRows(db), h)
    BY <1>4, SameChange
  <2>2. Current(t, db)
    BY <1>4, <1>11, <2>1 DEF Current, ToWrite, rows
  <2> QED
    BY <1>1, <1>4, <1>5, <1>6, <1>8, <1>9, <1>11, <2>2, TaskGoes DEF h
<1> QED
  BY <1>10, <1>11

LEMMA ReadPeopleKeeps ==
  ASSUME IInv, ReadPeople
  PROVE  IInv'
<1> DEFINE h == Holder
           at == CASE h.kind = "user" -> "named" [] h.kind = "remove" -> "parts" [] OTHER -> "ask"
           defs == DropUserFromDefs(Defs(h.rows, db), h.who)
           t == [h EXCEPT !.at = at, !.defs = defs]
<1>1. /\ Running /\ h.at = "people" /\ queue' = [queue EXCEPT ![1] = t]
      /\ UNCHANGED <<db, conf, roster, making, due, late, owed, edits, faults>>
  BY DEF ReadPeople, Holder
<1>2. h \in TaskType /\ Stages(h) /\ db \in DbType /\ Types
  BY <1>1, HolderTyped DEF IInv, Types, DbOK
<1>3. at \in {"named", "parts", "ask"} /\ (h.kind = "user" => at = "named")
      /\ (h.kind = "remove" => at = "parts") /\ (h.kind \notin {"user", "remove"} => at = "ask")
  OBVIOUS
<1>4. h.rows \in SUBSET RowType /\ h.who \in SUBSET Users
      /\ Defs(h.rows, db) \in SUBSET ShareDefs /\ defs \in SUBSET ShareDefs
  <2>1. h.rows \in SUBSET RowType /\ h.who \in SUBSET Users
    BY <1>2 DEF TaskType
  <2> QED
    BY <1>2, <2>1, DefsTyped, DropTyped
<1> HIDE DEF defs, h, at
<1>5. t \in TaskType
      /\ t.at = at /\ t.defs = defs /\ t.kind = h.kind /\ t.op = h.op /\ t.place = h.place
      /\ t.who = h.who /\ t.resync = h.resync /\ t.volume = h.volume /\ t.gone = h.gone
  BY <1>2, <1>3, <1>4 DEF TaskType
<1> HIDE DEF t
<1>6. Stages(t)
  BY <1>1, <1>2, <1>3, <1>5 DEF Stages, TaskType
<1>7. StepTyped
  BY <1>1, <1>2 DEF Types, StepTyped
<1>8. (Promised("sync") => Promised("sync")') /\ (Promised("access") => Promised("access")')
  BY <1>1, <1>5, <1>6, PromiseKept DEF h
<1>9. /\ t.kind = Holder.kind /\ t.volume = Holder.volume /\ t.place = Holder.place
      /\ t.gone = Holder.gone
  BY <1>5 DEF h
<1>10. \/ "conf" \in owed' \/ Promised("sync")' \/ t.kind = "sync" \/ conf' = Written(t, db)
  <2>1. Written(t, db) = Wanted(db) /\ Written(h, db) = Wanted(db)
    BY <1>1, <1>3, <1>5 DEF Written
  <2>2. \/ "conf" \in owed \/ Promised("sync") \/ h.kind = "sync" \/ conf = Written(h, db)
    BY <1>1 DEF IInv, ConfTrue, h
  <2> QED
    BY <1>1, <1>5, <1>8, <2>1, <2>2
<1>11. CASE h.kind = "access"
  <2>1. Current(t, db)
    BY <1>5, <1>11 DEF Current, ToWrite
  <2>2. defs = Defs(h.rows, db)
    BY <1>2, <1>4, <1>11, NothingDropped DEF Stages, defs
  <2>3. \/ "place" \in owed' \/ Promised("access")'
        \/ /\ t.at = "people" => Members(Defs(t.rows, db)) = Writers
           /\ t.at = "ask" => Members(t.defs) = Writers
    <3>1. "place" \in owed \/ Promised("access") \/ Members(Defs(h.rows, db)) = Writers
      BY <1>1, <1>11 DEF IInv, AccessReads, h
    <3> QED
      BY <1>1, <1>3, <1>5, <1>8, <1>11, <2>2, <3>1
  <2>4. "roster" \in owed' \/ roster' \subseteq db.users
    BY <1>1 DEF IInv, RosterKnown
  <2>5. Members(t.defs) \subseteq db.users
    BY <1>4, <1>5, <2>2, WantedKnown DEF IInv, Types
  <2> QED
    BY <1>1, <1>5, <1>6, <1>7, <1>9, <1>10, <1>11, <2>1, <2>3, <2>4, <2>5, TaskMoves
<1>12. CASE h.kind # "access"
  <2>1. Changed(t, db) = Changed(h, db)
    BY <1>5, SameChange
  <2>2. Promised("sync") \/ Current(h, db)
    BY <1>1 DEF IInv, Reads, h
  <2>3. ASSUME Current(h, db) PROVE Current(t, db)
    <3>1. h.kind # "volume"
      BY <1>1, <1>2 DEF Stages
    <3>2. h.rows = OverlayShares(ShareRows(db), h)
      BY <1>1, <1>12, <2>3, <3>1 DEF Current, ToWrite
    <3>3. t.defs = DropUserFromDefs(Changed(t, db), t.who)
      BY <1>5, <2>1, <3>2 DEF defs, Changed
    <3> QED
      BY <1>3, <1>5, <3>3 DEF Current, ToWrite
  <2>4. Promised("sync")' \/ Current(t, db)
    BY <1>8, <2>2, <2>3
  <2>5. ~(t.kind = "user" /\ t.at = "commit") /\ ~(Holder.kind = "user" /\ Holder.at = "commit")
    BY <1>1, <1>3, <1>5 DEF h
  <2> QED
    BY <1>1, <1>5, <1>6, <1>7, <1>9, <1>10, <1>12, <2>4, <2>5, TaskGoes
<1> QED
  BY <1>11, <1>12

\* A request about smb.conf leaves the group alone, and the other way round.
LEMMA Served ==
  ASSUME Types, Running
  PROVE  /\ Holder.kind = "sync" => Request.to = "sync" /\ Request.defs = Holder.defs
         /\ Holder.kind = "access" => Request.to = "access" /\ Request.who = Members(Holder.defs)
         /\ Holder.kind \notin {"sync", "access"} /\ Holder.at = "leave" =>
              Request.to = "leave" /\ Request.who = Holder.who
         /\ Holder.kind \notin {"sync", "access"} /\ Holder.at # "leave" =>
              Request.to = "apply" /\ Request.defs = Holder.defs
         /\ Serve(Request) /\ Request.to \in {"sync", "apply"} =>
              conf' = Request.defs /\ roster' = roster
         /\ Serve(Request) /\ Request.to = "access" => roster' = Request.who /\ conf' = conf
         /\ Serve(Request) /\ Request.to = "leave" => roster' = roster \ Request.who /\ conf' = conf
<1>1. Holder.kind \in {"sync", "access"} => Holder.at # "leave"
  BY HolderTyped DEF Types, Stages
<1>2. Serve(Request) =>
         /\ Request.to \in {"sync", "apply"} => conf' = Request.defs /\ roster' = roster
         /\ Request.to = "access" => roster' = Request.who /\ conf' = conf
         /\ Request.to = "leave" => roster' = roster \ Request.who /\ conf' = conf
  BY RequestTyped, ServeTyped DEF Types
<1>3. /\ Holder.kind = "sync" => Request.to = "sync" /\ Request.defs = Holder.defs
      /\ Holder.kind = "access" => Request.to = "access" /\ Request.who = Members(Holder.defs)
  BY <1>1 DEF Request
<1>4. /\ Holder.kind \notin {"sync", "access"} /\ Holder.at = "leave" =>
           Request.to = "leave" /\ Request.who = Holder.who
      /\ Holder.kind \notin {"sync", "access"} /\ Holder.at # "leave" =>
           Request.to = "apply" /\ Request.defs = Holder.defs
  BY DEF Request
<1> QED
  BY <1>2, <1>3, <1>4

LEMMA SyncKeeps ==
  ASSUME IInv, Sync
  PROVE  IInv'
<1>1. /\ Running /\ Holder.kind = "sync" /\ Holder.at = "ask"
      /\ UNCHANGED <<db, making, due, edits>>
      /\ Ask(End /\ owed' = owed \ {"conf"}, FALSE, End /\ Owe({"conf"}), End /\ Owe({"conf"}))
  BY DEF Sync
<1>2. Types /\ Holder \in TaskType /\ Stages(Holder) /\ Request.to = "sync"
      /\ Request.defs = Holder.defs
  BY <1>1, HolderTyped, Served DEF IInv, Types
<1>3. CASE End /\ owed' = owed \ {"conf"} /\ Serve(Request) /\ UNCHANGED <<late, faults>>
  <2>1. conf' = Holder.defs /\ roster' = roster
    BY <1>1, <1>2, <1>3, Served
  <2>2. Promised("sync") \/ conf' = Wanted(db)
    <3>1. Promised("sync") \/ Current(Holder, db)
      BY <1>1 DEF IInv, Reads
    <3>2. Changed(Holder, db) = Wanted(db) /\ Holder.who = {}
      BY <1>1, <1>2, ChangedNot DEF Stages
    <3>3. DropUserFromDefs(Wanted(db), {}) = Wanted(db)
      BY <1>2, WantedTyped, NothingDropped DEF Types, DbOK
    <3> QED
      BY <1>1, <2>1, <3>1, <3>2, <3>3 DEF Current, ToWrite
  <2>3. StepTyped
    BY <1>1, <1>2, <1>3, AskedTyped DEF Types
  <2> QED
    BY <1>1, <1>3, <2>1, <2>2, <2>3, SyncsAsk, TaskEnds DEF End, EndWith
<1>4. CASE /\ End /\ Owe({"conf"}) /\ faults < MaxFaults /\ faults' = faults + 1
           /\ Serve(Request) \/ UNCHANGED <<conf, roster>>
           /\ late' \subseteq late \cup {Request}
  <2>1. roster' = roster
    BY <1>1, <1>2, <1>4, Served
  <2>2. StepTyped
    BY <1>1, <1>2, <1>4, AskedTyped DEF Types, Owe
  <2> QED
    BY <1>1, <1>4, <2>1, <2>2, SyncsAsk, TaskEnds DEF End, EndWith, Owe
<1> QED
  BY <1>1, <1>3, <1>4 DEF Ask, Fault

LEMMA AccessKeeps ==
  ASSUME IInv, Access
  PROVE  IInv'
<1>1. /\ Running /\ Holder.kind = "access" /\ Holder.at = "ask"
      /\ UNCHANGED <<db, making, due, edits>>
      /\ Ask(End /\ owed' = owed \ {"roster"}, FALSE, End /\ Owe({"roster"}),
             End /\ Owe({"roster"}))
  BY DEF Access
<1>2. Types /\ Holder \in TaskType /\ Stages(Holder) /\ Request.to = "access"
      /\ Request.who = Members(Holder.defs)
  BY <1>1, HolderTyped, Served DEF IInv, Types
<1>3. Written(Holder, db) = Wanted(db)
  BY <1>1 DEF Written
<1>4. CASE End /\ owed' = owed \ {"roster"} /\ Serve(Request) /\ UNCHANGED <<late, faults>>
  <2>1. roster' = Members(Holder.defs) /\ conf' = conf
    BY <1>1, <1>2, <1>4, Served
  <2>2. \/ owed' \cap {"roster", "place"} # {} \/ Promised("access") \/ roster' = Writers
    BY <1>1, <1>4, <2>1 DEF IInv, AccessReads
  <2>3. roster' \subseteq db.users
    BY <1>1, <2>1 DEF IInv, RosterKnown
  <2>4. StepTyped
    BY <1>1, <1>2, <1>4, AskedTyped DEF Types
  <2> QED
    BY <1>1, <1>3, <1>4, <2>1, <2>2, <2>3, <2>4, SyncsAsk, TaskEnds DEF End, EndWith
<1>5. CASE /\ End /\ Owe({"roster"}) /\ faults < MaxFaults /\ faults' = faults + 1
           /\ Serve(Request) \/ UNCHANGED <<conf, roster>>
           /\ late' \subseteq late \cup {Request}
  <2>1. conf' = conf
    BY <1>1, <1>2, <1>5, Served
  <2>2. StepTyped
    BY <1>1, <1>2, <1>5, AskedTyped DEF Types, Owe
  <2> QED
    BY <1>1, <1>3, <1>5, <2>1, <2>2, SyncsAsk, TaskEnds DEF End, EndWith, Owe
<1> QED
  BY <1>1, <1>4, <1>5 DEF Ask, Fault

\* What a task at a stage where it writes smb.conf has read is what it is to write.
LEMMA WritesWhatIsWanted ==
  ASSUME IInv, Running,
         \/ Holder.kind = "share" /\ Holder.at = "ask"
         \/ Holder.kind = "user" /\ Holder.at = "smb"
         \/ Holder.kind = "remove" /\ Holder.op = "shared" /\ Holder.at = "drop"
  PROVE  Promised("sync") \/ Holder.defs = DropUserFromDefs(Changed(Holder, db), Holder.who)
BY DEF IInv, Reads, Current, ToWrite

\* A stage at which a task may still give up: it has written nothing.
LEMMA GivesUp ==
  ASSUME IInv, Running, Holder.kind \notin {"sync", "access"}, Holder.at # "rows",
         ~(Holder.kind = "user" /\ Holder.at = "commit"), ~(Holder.kind = "remove" /\ Holder.gone),
         NEW s, Asking(s), queue' = Tail(queue) \o s, StepTyped, db' = db,
         roster' = roster, owed \subseteq owed',
         \/ "conf" \in owed' \/ Waits(s, "sync")
         \/ conf' = conf /\ Written(Holder, db) = Wanted(db)
  PROVE  IInv'
BY TaskEnds

LEMMA ShareApplyKeeps ==
  ASSUME IInv, ShareApply
  PROVE  IInv'
<1> DEFINE t == [Holder EXCEPT !.at = "commit"]
<1>1. /\ Running /\ Holder.kind = "share" /\ Holder.at = "ask"
      /\ UNCHANGED <<db, making, due, edits>>
      /\ \/ End /\ UNCHANGED <<conf, roster, late, owed, faults>>
         \/ Ask(Go("commit") /\ UNCHANGED owed, FALSE,
                EndWith(<<SyncShares>>) /\ UNCHANGED owed, End /\ Owe({"conf"}))
  BY DEF ShareApply
<1>2. Types /\ Holder \in TaskType /\ Stages(Holder) /\ Request.to = "apply"
      /\ Request.defs = Holder.defs /\ Holder.who = {} /\ db \in DbType
  BY <1>1, HolderTyped, Served DEF IInv, Types, Stages, DbOK
<1>3. Written(Holder, db) = Wanted(db)
  BY <1>1 DEF Written
<1>4. CASE End /\ UNCHANGED <<conf, roster, late, owed, faults>>
  <2>1. StepTyped
    BY <1>1, <1>2, <1>4 DEF Types, StepTyped
  <2> QED
    BY <1>1, <1>3, <1>4, <2>1, SyncsAsk, GivesUp DEF End, EndWith
<1>5. CASE Go("commit") /\ UNCHANGED owed /\ Serve(Request) /\ UNCHANGED <<late, faults>>
  <2>1. conf' = Holder.defs /\ roster' = roster
    BY <1>2, <1>1, <1>5, Served
  <2>2. queue' = [queue EXCEPT ![1] = t]
    BY <1>5 DEF Go, Holder
  <2>3. t \in TaskType /\ t.at = "commit" /\ t.kind = Holder.kind /\ t.op = Holder.op
        /\ t.place = Holder.place /\ t.volume = Holder.volume /\ t.gone = Holder.gone
        /\ t.who = Holder.who
    BY <1>2 DEF TaskType
  <2> HIDE DEF t
  <2>4. Stages(t)
    BY <1>1, <1>2, <2>3 DEF Stages, TaskType
  <2>5. Promised("sync") => Promised("sync")'
    BY <1>1, <1>5, <2>2, <2>3, <2>4, PromiseKept
  <2>6. Promised("sync") \/ conf' = Written(t, db)
    <3>1. Changed(t, db) = Changed(Holder, db)
      BY <2>3, SameChange
    <3>2. DropUserFromDefs(Changed(Holder, db), {}) = Changed(Holder, db)
      BY <1>2, ChangedTyped, NothingDropped
    <3> QED
      BY <1>1, <1>2, <2>1, <2>3, <3>1, <3>2, WritesWhatIsWanted DEF Written
  <2>7. Current(t, db)
    BY <1>1, <2>3 DEF Current, ToWrite
  <2>8. StepTyped
    BY <1>1, <1>2, <1>5, AskedTyped DEF Types
  <2> QED
    BY <1>1, <1>5, <2>1, <2>2, <2>3, <2>4, <2>5, <2>6, <2>7, <2>8, TaskGoes
<1>6. CASE /\ EndWith(<<SyncShares>>) /\ UNCHANGED owed
           /\ faults < MaxFaults /\ faults' = faults + 1
           /\ Serve(Request) \/ UNCHANGED <<conf, roster>>
           /\ UNCHANGED late
  <2>1. roster' = roster
    BY <1>1, <1>2, <1>6, Served
  <2>2. StepTyped
    BY <1>1, <1>2, <1>6, AskedTyped DEF Types
  <2> QED
    BY <1>1, <1>6, <2>1, <2>2, SyncsAsk, GivesUp DEF EndWith
<1>7. CASE /\ End /\ Owe({"conf"}) /\ faults < MaxFaults /\ faults' = faults + 1
           /\ Serve(Request) \/ UNCHANGED <<conf, roster>>
           /\ late' \subseteq late \cup {Request}
  <2>1. roster' = roster
    BY <1>1, <1>2, <1>7, Served
  <2>2. StepTyped
    BY <1>1, <1>2, <1>7, AskedTyped DEF Types, Owe
  <2> QED
    BY <1>1, <1>7, <2>1, <2>2, SyncsAsk, GivesUp DEF End, EndWith, Owe
<1> QED
  BY <1>1, <1>4, <1>5, <1>6, <1>7 DEF Ask, Fault

\* The task ends with the database changed.
LEMMA TaskCommits ==
  ASSUME IInv, Running, Holder.at # "rows", NEW s, Asking(s), queue' = Tail(queue) \o s,
         StepTyped, DbOK',
         \/ "conf" \in owed' \/ Waits(s, "sync") \/ Promised("sync") \/ conf' = Wanted(db)',
         \/ owed' \cap {"roster", "place"} # {} \/ Waits(s, "access") \/ Promised("access")
         \/ roster' = Writers',
         "roster" \in owed' \/ roster' \subseteq db.users',
         "held" \in owed => "held" \in owed'
  PROVE  IInv'
<1>1. Types /\ QueueOK /\ due' = due
  BY DEF IInv, Types, StepTyped
<1>2. /\ QueueOK' /\ Reads' /\ AccessReads' /\ RemovedBare'
      /\ (\/ owed' \cap {"conf", "held"} # {} \/ due' > 0 \/ Waits(queue, "sync") \/ Waits(s, "sync")
          \/ conf' = Wanted(db)') => ConfTrue'
      /\ (\/ owed' \cap {"roster", "place"} # {} \/ due' > 0
          \/ Waits(queue, "access") \/ Waits(s, "access") \/ roster' = Writers') => RosterTrue'
      /\ ("roster" \in owed' \/ roster' \subseteq db.users') => RosterKnown'
  BY <1>1, EndedStep
<1>3. Types'
  BY <1>1, <1>2, TypesFollow
<1> QED
  BY <1>1, <1>2, <1>3 DEF Promised, IInv

LEMMA CommittedStep ==
  ASSUME DbOK, NEW t \in TaskType, Rowed(t), db' = Committed(t)
  PROVE  DbOK' /\ Writers' = Writers /\ db'.users = db.users
<1>1. /\ db' \in DbType
      /\ db'.users = db.users /\ db'.admins = db.admins
      /\ db'.places = db.places /\ db'.perms = db.perms /\ db'.held = db.held
      /\ \A p \in Places : p \notin db.places => db'.shares[p] = "none"
  BY CommittedSound
<1>2. DbOK'
  BY <1>1 DEF DbOK
<1>3. Writers' = Writers
  <2>1. WritersOf(db') = WritersOf(db)
    BY <1>1 DEF WritersOf, PlaceRows, Defs
  <2> QED
    BY <2>1 DEF Writers
<1> QED
  BY <1>1, <1>2, <1>3

LEMMA ShareCommitKeeps ==
  ASSUME IInv, ShareCommit
  PROVE  IInv'
<1>1. /\ Running /\ Holder.kind = "share" /\ Holder.at = "commit"
      /\ UNCHANGED <<conf, roster, making, due, late, owed, edits>>
  BY DEF ShareCommit
<1>2. Types /\ Holder \in TaskType /\ Stages(Holder) /\ DbOK
  BY <1>1, HolderTyped DEF IInv, Types
<1>3. CASE Rowed(Holder) /\ db' = Committed(Holder) /\ End /\ UNCHANGED faults
  <2>1. StepTyped
    BY <1>1, <1>2, <1>3 DEF Types, StepTyped
  <2>2. DbOK' /\ Writers' = Writers /\ db'.users = db.users
    BY <1>2, <1>3, CommittedStep
  <2>3. "conf" \in owed \/ Promised("sync") \/ conf = Changed(Holder, db)
    BY <1>1 DEF IInv, ConfTrue, Written
  <2>4. Wanted(db') = Changed(Holder, db)
    BY <1>1, <1>2, <1>3, CommittedIsChanged DEF Stages
  <2>5. owed \cap {"roster", "place"} # {} \/ Promised("access") \/ roster = Writers
    BY <1>1 DEF IInv, RosterTrue
  <2>6. "roster" \in owed \/ roster \subseteq db.users
    BY DEF IInv, RosterKnown
  <2> QED
    BY <1>1, <1>3, <2>1, <2>2, <2>3, <2>4, <2>5, <2>6, SyncsAsk, TaskCommits DEF End, EndWith
<1>4. CASE db' = db /\ EndWith(<<SyncShares>>)
           /\ faults' \in {faults} \cup (IF faults < MaxFaults THEN {faults + 1} ELSE {})
  <2>1. StepTyped
    BY <1>1, <1>2, <1>4, SharingAssumption DEF Types, StepTyped
  <2> QED
    BY <1>1, <1>4, <2>1, SyncsAsk, GivesUp DEF EndWith
<1> QED
  BY <1>3, <1>4 DEF ShareCommit, Fault

LEMMA DeletePreviewsKeeps ==
  ASSUME IInv, DeletePreviews
  PROVE  IInv'
<1> DEFINE at == IF Holder.defs # Desired THEN "smb" ELSE "leave"
           t == [Holder EXCEPT !.at = at, !.confSeen = conf, !.rosterSeen = roster]
<1>1. /\ Running /\ Holder.at = "named"
      /\ UNCHANGED <<db, conf, roster, making, due, late, owed, edits, faults>>
      /\ End \/ queue' = [queue EXCEPT ![1] = t]
  BY DEF DeletePreviews, Holder
<1>2. Types /\ Holder \in TaskType /\ Stages(Holder) /\ Holder.kind = "user"
      /\ Holder.op = "none" /\ conf \in SUBSET ShareDefs /\ roster \in SUBSET Users
  BY <1>1, HolderTyped DEF IInv, Types, Stages, TaskType
<1>3. Written(Holder, db) = Wanted(db)
  BY <1>1 DEF Written
<1>4. StepTyped
  BY <1>1, <1>2 DEF Types, StepTyped
<1>5. CASE End
  BY <1>1, <1>2, <1>3, <1>4, <1>5, SyncsAsk, GivesUp DEF End, EndWith
<1>6. CASE queue' = [queue EXCEPT ![1] = t]
  <2>1. at \in {"smb", "leave"}
    OBVIOUS
  <2> HIDE DEF at
  <2>2. t \in TaskType /\ t.at = at /\ t.kind = Holder.kind /\ t.op = Holder.op
        /\ t.place = Holder.place /\ t.volume = Holder.volume /\ t.gone = Holder.gone
        /\ t.who = Holder.who /\ t.defs = Holder.defs
    BY <1>2, <2>1 DEF TaskType
  <2> HIDE DEF t
  <2>3. Stages(t)
    BY <1>1, <1>2, <2>1, <2>2 DEF Stages, TaskType
  <2>4. Promised("sync") => Promised("sync")'
    BY <1>1, <1>6, <2>2, <2>3, PromiseKept
  <2>5. Changed(t, db) = Wanted(db) /\ Changed(Holder, db) = Wanted(db)
    BY <1>2, <2>2, ChangedNot
  <2>6. Promised("sync") \/ Holder.defs = DropUserFromDefs(Wanted(db), Holder.who)
    BY <1>1, <1>2, <2>5 DEF IInv, Reads, Current, ToWrite
  <2>7. CASE Promised("sync")
    BY <1>1, <1>2, <1>4, <1>6, <2>1, <2>2, <2>3, <2>4, <2>7, TaskGoes
  <2>8. CASE ~Promised("sync") /\ at = "smb"
    <3>1. Current(t, db)
      BY <1>2, <2>2, <2>5, <2>6, <2>8 DEF Current, ToWrite
    <3>2. "conf" \in owed \/ conf = Written(t, db)
      BY <1>1, <1>2, <1>3, <2>2, <2>8 DEF IInv, ConfTrue, Written
    <3> QED
      BY <1>1, <1>2, <1>4, <1>6, <2>2, <2>3, <2>8, <3>1, <3>2, TaskGoes
  <2>9. CASE ~Promised("sync") /\ at = "leave"
    <3>1. DropUserFromDefs(Wanted(db), Holder.who) = Wanted(db)
      BY <2>6, <2>9 DEF at, Desired, Wanted
    <3>2. Current(t, db)
      BY <1>2, <2>2, <2>9, <3>1 DEF Current, ToWrite
    <3>3. "conf" \in owed \/ conf = Written(t, db)
      BY <1>1, <1>2, <1>3, <2>2, <2>9, <3>1 DEF IInv, ConfTrue, Written
    <3> QED
      BY <1>1, <1>2, <1>4, <1>6, <2>2, <2>3, <2>9, <3>2, <3>3, TaskGoes
  <2> QED
    BY <2>1, <2>7, <2>8, <2>9
<1> QED
  BY <1>1, <1>5, <1>6

LEMMA UserSharesKeeps ==
  ASSUME IInv, UserShares
  PROVE  IInv'
<1> DEFINE t == [Holder EXCEPT !.at = "leave", !.resync = TRUE]
<1>1. /\ Running /\ Holder.at = "smb"
      /\ UNCHANGED <<db, making, due, edits>>
      /\ Ask(/\ queue' = [queue EXCEPT ![1].at = "leave", ![1].resync = TRUE]
             /\ UNCHANGED owed,
             End /\ UNCHANGED owed,
             EndWith(SyncSharesBestEffort) /\ UNCHANGED owed,
             End /\ Owe({"conf"}))
  BY DEF UserShares
<1>2. Types /\ Holder \in TaskType /\ Stages(Holder) /\ Holder.kind = "user" /\ Holder.op = "none"
      /\ Request.to = "apply" /\ Request.defs = Holder.defs /\ db \in DbType
  BY <1>1, HolderTyped, Served DEF IInv, Types, Stages, TaskType, DbOK
<1>3. Written(Holder, db) = Wanted(db)
  BY <1>1 DEF Written
<1>4. CASE /\ queue' = [queue EXCEPT ![1].at = "leave", ![1].resync = TRUE]
           /\ UNCHANGED owed /\ Serve(Request) /\ UNCHANGED <<late, faults>>
  <2>1. conf' = Holder.defs /\ roster' = roster
    BY <1>2, <1>1, <1>4, Served
  <2>2. queue' = [queue EXCEPT ![1] = t]
    BY <1>4 DEF Holder
  <2>3. t \in TaskType /\ t.at = "leave" /\ t.kind = Holder.kind /\ t.op = Holder.op
        /\ t.place = Holder.place /\ t.volume = Holder.volume /\ t.gone = Holder.gone
        /\ t.who = Holder.who /\ t.resync
    BY <1>2 DEF TaskType
  <2> HIDE DEF t
  <2>4. Stages(t)
    BY <1>1, <1>2, <2>3 DEF Stages, TaskType
  <2>5. Promised("sync") => Promised("sync")'
    BY <1>1, <1>4, <2>2, <2>3, <2>4, PromiseKept
  <2>6. Promised("sync") \/ conf' = Written(t, db)
    <3>1. Changed(Holder, db) = Wanted(db)
      BY <1>2, ChangedNot
    <3> QED
      BY <1>1, <1>2, <2>1, <2>3, <3>1, WritesWhatIsWanted DEF Written
  <2>7. Current(t, db)
    BY <1>2, <2>3 DEF Current, ToWrite
  <2>8. StepTyped
    BY <1>1, <1>2, <1>4, AskedTyped DEF Types
  <2> QED
    BY <1>1, <1>2, <1>4, <2>1, <2>2, <2>3, <2>4, <2>5, <2>6, <2>7, <2>8, TaskGoes
<1>5. CASE End /\ UNCHANGED <<conf, roster, owed, late, faults>>
  <2>1. StepTyped
    BY <1>1, <1>2, <1>5 DEF Types, StepTyped
  <2> QED
    BY <1>1, <1>2, <1>3, <1>5, <2>1, SyncsAsk, GivesUp DEF End, EndWith
<1>6. CASE /\ EndWith(SyncSharesBestEffort) /\ UNCHANGED owed
           /\ faults < MaxFaults /\ faults' = faults + 1
           /\ Serve(Request) \/ UNCHANGED <<conf, roster>>
           /\ UNCHANGED late
  <2>1. roster' = roster
    BY <1>1, <1>2, <1>6, Served
  <2>2. StepTyped
    BY <1>1, <1>2, <1>6, AskedTyped DEF Types
  <2> QED
    BY <1>1, <1>2, <1>6, <2>1, <2>2, SyncsAsk, GivesUp DEF EndWith
<1>7. CASE /\ End /\ Owe({"conf"}) /\ faults < MaxFaults /\ faults' = faults + 1
           /\ Serve(Request) \/ UNCHANGED <<conf, roster>>
           /\ late' \subseteq late \cup {Request}
  <2>1. roster' = roster
    BY <1>1, <1>2, <1>7, Served
  <2>2. StepTyped
    BY <1>1, <1>2, <1>7, AskedTyped DEF Types, Owe
  <2> QED
    BY <1>1, <1>2, <1>7, <2>1, <2>2, SyncsAsk, GivesUp DEF End, EndWith, Owe
<1> QED
  BY <1>1, <1>4, <1>5, <1>6, <1>7 DEF Ask, Fault

\* What is owed to shares already changed.
LEMMA ResyncEnds ==
  ASSUME Resync
  PROVE  \E s : /\ Asking(s) /\ queue' = Tail(queue) \o s
                /\ Holder.resync => Waits(s, "sync") /\ Waits(s, "access")
BY SyncsAsk DEF Resync, End, EndWith

LEMMA UserGroupKeeps ==
  ASSUME IInv, UserGroup
  PROVE  IInv'
<1> DEFINE t == [Holder EXCEPT !.at = "commit"]
<1>1. /\ Running /\ Holder.at = "leave"
      /\ UNCHANGED <<db, making, due, edits>>
      /\ Ask(Go("commit") /\ UNCHANGED owed, Resync /\ UNCHANGED owed,
             Resync /\ Owe({"roster"}), Resync /\ Owe({"roster"}))
  BY DEF UserGroup
<1>2. Types /\ Holder \in TaskType /\ Stages(Holder) /\ Holder.kind = "user" /\ Holder.op = "none"
      /\ Request.to = "leave" /\ Request.who = Holder.who /\ db \in DbType
  BY <1>1, HolderTyped, Served DEF IInv, Types, Stages, TaskType, DbOK
<1>3. Holder.resync \/ Promised("sync") \/ Written(Holder, db) = Wanted(db)
  <2>1. Holder.resync \/ Promised("sync")
        \/ DropUserFromDefs(Wanted(db), Holder.who) = Wanted(db)
    BY <1>1, <1>2 DEF IInv, Reads, Current, ToWrite
  <2> QED
    BY <1>1, <1>2, <2>1 DEF Written
<1>4. CASE Go("commit") /\ UNCHANGED owed /\ Serve(Request) /\ UNCHANGED <<late, faults>>
  <2>1. roster' = roster \ Holder.who /\ conf' = conf
    BY <1>2, <1>1, <1>4, Served
  <2>2. queue' = [queue EXCEPT ![1] = t]
    BY <1>4 DEF Go, Holder
  <2>3. t \in TaskType /\ t.at = "commit" /\ t.kind = Holder.kind /\ t.op = Holder.op
        /\ t.place = Holder.place /\ t.volume = Holder.volume /\ t.gone = Holder.gone
        /\ t.who = Holder.who /\ t.resync = Holder.resync
    BY <1>2 DEF TaskType
  <2> HIDE DEF t
  <2>4. Stages(t)
    BY <1>1, <1>2, <2>3 DEF Stages, TaskType
  <2>5. Promised("sync") => Promised("sync")'
    BY <1>1, <1>4, <2>2, <2>3, <2>4, PromiseKept
  <2>6. Promised("sync") \/ Current(t, db)
    BY <1>1, <1>2, <2>3 DEF IInv, Reads, Current, ToWrite
  <2>7. "conf" \in owed' \/ Promised("sync") \/ conf' = Written(t, db)
    BY <1>1, <1>2, <1>4, <2>1, <2>3 DEF IInv, ConfTrue, Written
  <2>8. StepTyped
    BY <1>1, <1>2, <1>4, AskedTyped DEF Types
  <2>9. "roster" \in owed' \/ roster' \subseteq db.users
    BY <1>4, <2>1 DEF IInv, RosterKnown
  <2>10. roster' \cap t.who = {}
    BY <2>1, <2>3
  <2> QED
    BY <1>1, <1>2, <2>2, <2>3, <2>4, <2>5, <2>6, <2>7, <2>8, <2>9, <2>10, TaskMoves
<1>5. CASE Resync /\ UNCHANGED <<conf, roster, owed, late, faults>>
  <2>1. StepTyped
    BY <1>1, <1>2, <1>5 DEF Types, StepTyped
  <2>2. PICK s : /\ Asking(s) /\ queue' = Tail(queue) \o s
                 /\ Holder.resync => Waits(s, "sync") /\ Waits(s, "access")
    BY <1>5, ResyncEnds
  <2> QED
    BY <1>1, <1>2, <1>3, <1>5, <2>1, <2>2, TaskEnds
<1>6. CASE /\ Resync /\ Owe({"roster"}) /\ faults < MaxFaults /\ faults' = faults + 1
           /\ Serve(Request) \/ UNCHANGED <<conf, roster>>
           /\ late' \subseteq late \cup {Request}
  <2>1. conf' = conf
    BY <1>1, <1>2, <1>6, Served
  <2>2. StepTyped
    BY <1>1, <1>2, <1>6, AskedTyped DEF Types, Owe
  <2>3. PICK s : /\ Asking(s) /\ queue' = Tail(queue) \o s
                 /\ Holder.resync => Waits(s, "sync") /\ Waits(s, "access")
    BY <1>6, ResyncEnds
  <2> QED
    BY <1>1, <1>2, <1>3, <1>6, <2>1, <2>2, <2>3, TaskEnds DEF Owe
<1> QED
  BY <1>1, <1>4, <1>5, <1>6 DEF Ask, Fault

LEMMA UserCommitKeeps ==
  ASSUME IInv, UserCommit
  PROVE  IInv'
<1>1. /\ Running /\ Holder.kind = "user" /\ Holder.at = "commit"
      /\ UNCHANGED <<conf, roster, making, due, late, edits>>
  BY DEF UserCommit
<1>2. Types /\ Holder \in TaskType /\ Stages(Holder) /\ DbOK /\ Holder.who \in SUBSET Users
  BY <1>1, HolderTyped DEF IInv, Types, TaskType
<1>3. CASE Holder.who \subseteq db.users /\ db' = Without(Holder.who)
           /\ EndWith(<<SyncPlaceAccess>>) /\ UNCHANGED <<owed, faults>>
  <2>1. StepTyped
    BY <1>1, <1>2, <1>3 DEF Types, StepTyped
  <2>2. /\ db' \in DbType /\ db'.users = db.users \ Holder.who
        /\ db'.admins = db.admins \ Holder.who
        /\ db'.places = db.places /\ db'.shares = db.shares
        /\ \A p \in Places : db'.perms[p] = db.perms[p] \ Holder.who
    <3>1. db' = Without(Holder.who)
      BY <1>3
    <3>2. db'.perms = [p \in Places |-> db.perms[p] \ Holder.who]
      BY <1>2, <3>1, WithoutSound
    <3> QED
      BY <1>2, <3>1, <3>2, WithoutSound
  <2>3. DbOK'
    BY <1>2, <2>2 DEF DbOK
  <2>4. "conf" \in owed' \/ Promised("sync") \/ conf' = Wanted(db)'
    <3>1. "conf" \in owed \/ Promised("sync") \/ conf = DropUserFromDefs(Wanted(db), Holder.who)
      BY <1>1 DEF IInv, ConfTrue, Written
    <3> QED
      BY <1>1, <1>2, <1>3, <3>1, WithoutDropped
  <2>5. "roster" \in owed' \/ roster' \subseteq db.users'
    BY <1>1, <1>3, <2>2 DEF IInv, RosterKnown
  <2> QED
    BY <1>1, <1>3, <2>1, <2>3, <2>4, <2>5, SyncsAsk, TaskCommits DEF EndWith
<1>4. CASE /\ IF Holder.who \subseteq db.users THEN Fault ELSE UNCHANGED faults
           /\ Resync /\ UNCHANGED db
           /\ Owe(IF Holder.resync THEN {} ELSE {"roster"})
  <2>1. StepTyped
    BY <1>1, <1>2, <1>4, SharingAssumption DEF Types, StepTyped, Fault, Owe
  <2>2. PICK s : /\ Asking(s) /\ queue' = Tail(queue) \o s
                 /\ Holder.resync => Waits(s, "sync") /\ Waits(s, "access")
    BY <1>4, ResyncEnds
  <2>3. Holder.resync \/ Promised("sync") \/ Written(Holder, db) = Wanted(db)
    BY <1>1 DEF IInv, Reads, Current, ToWrite, Written
  <2> QED
    BY <1>1, <1>2, <1>4, <2>1, <2>2, <2>3, TaskEnds DEF Owe
<1> QED
  BY <1>3, <1>4 DEF UserCommit

----------------------------------------------------------------------------
(* The removal and the creation of volumes *)

LEMMA RemovePartsKeeps ==
  ASSUME IInv, RemoveParts
  PROVE  IInv'
<1> DEFINE at == IF Holder.op = "shared" THEN "drop" ELSE "disks"
           t == [Holder EXCEPT !.at = at, !.confSeen = conf]
<1>1. /\ Running /\ Holder.at = "parts"
      /\ UNCHANGED <<db, conf, roster, making, due, late, owed, edits, faults>>
      /\ End \/ queue' = [queue EXCEPT ![1] = t]
  BY DEF RemoveParts, Holder
<1>2. Types /\ Holder \in TaskType /\ Stages(Holder) /\ Holder.kind = "remove" /\ ~Holder.gone
      /\ Holder.op \in {"shared", "unshared"} /\ conf \in SUBSET ShareDefs
  BY <1>1, HolderTyped DEF IInv, Types, Stages, TaskType
<1>3. Written(Holder, db) = Wanted(db)
  BY <1>1 DEF Written
<1>4. StepTyped
  BY <1>1, <1>2 DEF Types, StepTyped
<1>5. CASE End
  BY <1>1, <1>2, <1>3, <1>4, <1>5, SyncsAsk, GivesUp DEF End, EndWith
<1>6. CASE queue' = [queue EXCEPT ![1] = t]
  <2>1. at \in {"drop", "disks"}
    OBVIOUS
  <2>2. t \in TaskType /\ t.at = at /\ t.kind = Holder.kind /\ t.op = Holder.op
        /\ t.place = Holder.place /\ t.volume = Holder.volume /\ t.gone = Holder.gone
        /\ t.who = Holder.who /\ t.defs = Holder.defs
    BY <1>2, <2>1 DEF TaskType
  <2> HIDE DEF t
  <2>3. Stages(t)
    BY <1>1, <1>2, <2>2 DEF Stages, TaskType
  <2>4. Promised("sync") => Promised("sync")'
    BY <1>1, <1>6, <2>2, <2>3, PromiseKept
  <2>5. Changed(t, db) = Changed(Holder, db)
    BY <2>2, SameChange
  <2>6. Promised("sync") \/ Current(t, db)
    BY <1>1, <1>2, <2>2, <2>5 DEF IInv, Reads, Current, ToWrite
  <2>7. "conf" \in owed \/ Promised("sync") \/ conf = Written(t, db)
    BY <1>1, <1>2, <1>3, <2>2 DEF IInv, ConfTrue, Written
  <2> QED
    BY <1>1, <1>2, <1>4, <1>6, <2>2, <2>3, <2>4, <2>6, <2>7, TaskGoes
<1> QED
  BY <1>1, <1>5, <1>6

LEMMA RemoveSharesKeeps ==
  ASSUME IInv, RemoveShares
  PROVE  IInv'
<1> DEFINE t == [Holder EXCEPT !.at = "disks", !.resync = TRUE]
<1>1. /\ Running /\ Holder.at = "drop"
      /\ UNCHANGED <<db, making, due, edits>>
      /\ Ask(/\ queue' = [queue EXCEPT ![1].at = "disks", ![1].resync = TRUE]
             /\ UNCHANGED owed,
             End /\ UNCHANGED owed,
             EndWith(SyncSharesBestEffort) /\ UNCHANGED owed,
             End /\ Owe({"conf"}))
  BY DEF RemoveShares
<1>2. Types /\ Holder \in TaskType /\ Stages(Holder) /\ Holder.kind = "remove"
      /\ Holder.op = "shared" /\ Holder.who = {} /\ ~Holder.gone
      /\ Request.to = "apply" /\ Request.defs = Holder.defs /\ db \in DbType
  BY <1>1, HolderTyped, Served DEF IInv, Types, Stages, TaskType, DbOK
<1>3. Written(Holder, db) = Wanted(db)
  BY <1>1 DEF Written
<1>4. CASE /\ queue' = [queue EXCEPT ![1].at = "disks", ![1].resync = TRUE]
           /\ UNCHANGED owed /\ Serve(Request) /\ UNCHANGED <<late, faults>>
  <2>1. conf' = Holder.defs /\ roster' = roster
    BY <1>2, <1>1, <1>4, Served
  <2>2. queue' = [queue EXCEPT ![1] = t]
    BY <1>4 DEF Holder
  <2>3. t \in TaskType /\ t.at = "disks" /\ t.kind = Holder.kind /\ t.op = Holder.op
        /\ t.place = Holder.place /\ t.volume = Holder.volume /\ t.gone = Holder.gone
        /\ t.who = Holder.who /\ t.resync
    BY <1>2 DEF TaskType
  <2> HIDE DEF t
  <2>4. Stages(t)
    BY <1>1, <1>2, <2>3 DEF Stages, TaskType
  <2>5. Promised("sync") => Promised("sync")'
    BY <1>1, <1>4, <2>2, <2>3, <2>4, PromiseKept
  <2>6. Promised("sync") \/ conf' = Written(t, db)
    <3>1. Changed(t, db) = Changed(Holder, db)
      BY <2>3, SameChange
    <3>2. DropUserFromDefs(Changed(Holder, db), {}) = Changed(Holder, db)
      BY <1>2, ChangedTyped, NothingDropped
    <3> QED
      BY <1>1, <1>2, <2>1, <2>3, <3>1, <3>2, WritesWhatIsWanted DEF Written
  <2>7. Current(t, db)
    BY <1>2, <2>3 DEF Current, ToWrite
  <2>8. StepTyped
    BY <1>1, <1>2, <1>4, AskedTyped DEF Types
  <2> QED
    BY <1>1, <1>2, <1>4, <2>1, <2>2, <2>3, <2>4, <2>5, <2>6, <2>7, <2>8, TaskGoes
<1>5. CASE End /\ UNCHANGED <<conf, roster, owed, late, faults>>
  <2>1. StepTyped
    BY <1>1, <1>2, <1>5 DEF Types, StepTyped
  <2> QED
    BY <1>1, <1>2, <1>3, <1>5, <2>1, SyncsAsk, GivesUp DEF End, EndWith
<1>6. CASE /\ EndWith(SyncSharesBestEffort) /\ UNCHANGED owed
           /\ faults < MaxFaults /\ faults' = faults + 1
           /\ Serve(Request) \/ UNCHANGED <<conf, roster>>
           /\ UNCHANGED late
  <2>1. roster' = roster
    BY <1>1, <1>2, <1>6, Served
  <2>2. StepTyped
    BY <1>1, <1>2, <1>6, AskedTyped DEF Types
  <2> QED
    BY <1>1, <1>2, <1>6, <2>1, <2>2, SyncsAsk, GivesUp DEF EndWith
<1>7. CASE /\ End /\ Owe({"conf"}) /\ faults < MaxFaults /\ faults' = faults + 1
           /\ Serve(Request) \/ UNCHANGED <<conf, roster>>
           /\ late' \subseteq late \cup {Request}
  <2>1. roster' = roster
    BY <1>1, <1>2, <1>7, Served
  <2>2. StepTyped
    BY <1>1, <1>2, <1>7, AskedTyped DEF Types, Owe
  <2> QED
    BY <1>1, <1>2, <1>7, <2>1, <2>2, SyncsAsk, GivesUp DEF End, EndWith, Owe
<1> QED
  BY <1>1, <1>4, <1>5, <1>6, <1>7 DEF Ask, Fault

LEMMA RemoveDisksKeeps ==
  ASSUME IInv, RemoveDisks
  PROVE  IInv'
<1> DEFINE t == [Holder EXCEPT !.at = "places", !.resync = FALSE]
<1>1. /\ Running /\ Holder.at = "disks"
      /\ UNCHANGED <<db, conf, roster, making, due, late, owed, edits, faults>>
      /\ Resync \/ queue' = [queue EXCEPT ![1] = t]
  BY DEF RemoveDisks, Holder
<1>2. Types /\ Holder \in TaskType /\ Stages(Holder) /\ Holder.kind = "remove" /\ ~Holder.gone
      /\ Holder.op \in {"shared", "unshared"} /\ (Holder.op = "shared" => Holder.resync)
  BY <1>1, HolderTyped DEF IInv, Types, Stages, TaskType
<1>3. StepTyped
  BY <1>1, <1>2 DEF Types, StepTyped
<1>4. CASE Resync
  <2>1. PICK s : /\ Asking(s) /\ queue' = Tail(queue) \o s
                 /\ Holder.resync => Waits(s, "sync") /\ Waits(s, "access")
    BY <1>4, ResyncEnds
  <2>2. Holder.op # "shared" => Written(Holder, db) = Wanted(db)
    BY <1>2 DEF Written
  <2> QED
    BY <1>1, <1>2, <1>3, <2>1, <2>2, GivesUp
<1>5. CASE queue' = [queue EXCEPT ![1] = t]
  <2>2. t \in TaskType /\ t.at = "places" /\ t.kind = Holder.kind /\ t.op = Holder.op
        /\ t.place = Holder.place /\ t.volume = Holder.volume /\ t.gone = Holder.gone
        /\ t.who = Holder.who
    BY <1>2 DEF TaskType
  <2> HIDE DEF t
  <2>3. Stages(t)
    BY <1>1, <1>2, <2>2 DEF Stages, TaskType
  <2>4. Promised("sync") => Promised("sync")'
    BY <1>1, <1>5, <2>2, <2>3, PromiseKept
  <2>5. Changed(t, db) = Changed(Holder, db)
    BY <2>2, SameChange
  <2>6. Current(t, db)
    BY <1>2, <2>2 DEF Current, ToWrite
  <2>7. "conf" \in owed \/ Promised("sync") \/ conf = Written(t, db)
    BY <1>1, <1>2, <2>2, <2>5 DEF IInv, ConfTrue, Written
  <2> QED
    BY <1>1, <1>2, <1>3, <1>5, <2>2, <2>3, <2>4, <2>6, <2>7, TaskGoes
<1> QED
  BY <1>1, <1>4, <1>5

LEMMA DeletedOK ==
  ASSUME DbOK, NEW p \in Places, db' = Deleted(p)
  PROVE  /\ DbOK' /\ db'.users = db.users /\ db'.admins = db.admins /\ db'.shares[p] = "none"
         /\ \A q \in Places : q # p => db'.shares[q] = db.shares[q]
<1>1. /\ db' \in DbType /\ db'.users = db.users /\ db'.admins = db.admins
      /\ db'.places = db.places \ {p} /\ db'.perms[p] = {} /\ db'.shares[p] = "none"
      /\ \A q \in Places : q # p => db'.shares[q] = db.shares[q] /\ db'.perms[q] = db.perms[q]
  BY DeletedSound
<1> QED
  BY <1>1 DEF DbOK

LEMMA RemovePlaceKeeps ==
  ASSUME IInv, RemovePlace
  PROVE  IInv'
<1>1. /\ Running /\ Holder.at = "places" /\ Holder.place # {}
      /\ UNCHANGED <<conf, roster, making, due, late, edits>>
  BY DEF RemovePlace
<1>2. Types /\ Holder \in TaskType /\ Stages(Holder) /\ Holder.kind = "remove"
      /\ Holder.op \in {"shared", "unshared"} /\ DbOK /\ Holder.place \subseteq Places
      /\ Holder.volume \subseteq Places
  BY <1>1, HolderTyped DEF IInv, Types, Stages, TaskType
<1>3. ASSUME NEW p \in Holder.place, p \in db.places, db' = Deleted(p),
             queue' = [queue EXCEPT ![1].place = @ \ {p}, ![1].gone = TRUE],
             Owe(IF Holder.op = "unshared" /\ db.shares[p] = "on" THEN {"conf"} ELSE {}),
             UNCHANGED faults
      PROVE  IInv'
  <2> DEFINE t == [Holder EXCEPT !.place = Holder.place \ {p}, !.gone = TRUE]
  <2>1. queue' = [queue EXCEPT ![1] = t]
    BY <1>3 DEF Holder
  <2>2. t \in TaskType /\ t.at = "places" /\ t.kind = "remove" /\ t.op = Holder.op
        /\ t.place = Holder.place \ {p} /\ t.volume = Holder.volume /\ t.gone
        /\ t.who = Holder.who
    BY <1>1, <1>2 DEF TaskType
  <2> HIDE DEF t
  <2>3. Stages(t)
    BY <1>1, <1>2, <2>2 DEF Stages, TaskType
  <2>4. QueueOK' /\ Running' /\ Holder' = t
    BY <1>1, <1>2, <2>1, <2>2, <2>3, MovedQueue DEF Types
  <2>5. Promised("sync") => Promised("sync")'
    BY <1>1, <1>3, <2>1, <2>2, <2>3, PromiseKept DEF Owe
  <2>6. /\ DbOK' /\ db'.users = db.users /\ db'.shares[p] = "none" /\ p \in Places
        /\ \A q \in Places : q # p => db'.shares[q] = db.shares[q]
    BY <1>2, <1>3, DeletedOK
  <2>7. StepTyped
    BY <1>1, <1>2, <1>3 DEF Types, StepTyped, Owe
  <2>8. Types'
    BY <1>2, <2>4, <2>6, <2>7, TypesFollow
  <2>9. Reads'
    BY <2>2, <2>4 DEF Reads, Current, ToWrite
  <2>10. ConfTrue'
    <3>1. "conf" \in owed' \/ Promised("sync") \/ conf = Written(Holder, db)
      BY <1>1, <1>2, <1>3 DEF IInv, ConfTrue, Owe
    <3>2. CASE Holder.op = "shared"
      <4>1. Changed(t, db') = Changed(Holder, db)
        BY <1>2, <1>3, <2>2, <3>2, DeletedOut
      <4>2. Written(t, db') = Changed(t, db') /\ Written(Holder, db) = Changed(Holder, db)
        BY <1>1, <1>2, <2>2, <3>2 DEF Written
      <4> QED
        BY <1>1, <2>4, <2>5, <3>1, <4>1, <4>2 DEF ConfTrue
    <3>3. CASE Holder.op = "unshared"
      <4>1. "conf" \in owed' \/ Wanted(db') = Wanted(db)
        BY <1>2, <1>3, <2>6, <3>3, DeletedOff DEF Owe
      <4>2. Written(t, db') = Wanted(db') /\ Written(Holder, db) = Wanted(db)
        BY <1>1, <1>2, <2>2, <3>3 DEF Written
      <4> QED
        BY <1>1, <2>4, <2>5, <3>1, <4>1, <4>2 DEF ConfTrue
    <3> QED
      BY <1>2, <3>2, <3>3
  <2>11. AccessReads' /\ RosterTrue'
    BY <2>2, <2>4 DEF AccessReads, RosterTrue
  <2>12. RosterKnown'
    BY <1>1, <1>3, <2>2, <2>4, <2>6 DEF IInv, RosterKnown, Owe
  <2>13. RemovedBare'
    <3> SUFFICES ASSUME NEW q \in t.volume \ t.place
                 PROVE  db'.shares[q] = "none"
      BY <2>4 DEF RemovedBare
    <3>1. CASE q = p
      BY <2>6, <3>1
    <3>2. CASE q # p
      <4>1. q \in Holder.volume \ Holder.place /\ q \in Places
        BY <1>2, <2>2, <3>2
      <4>2. db.shares[q] = "none"
        BY <1>1, <1>2, <4>1 DEF IInv, RemovedBare
      <4> QED
        BY <2>6, <3>2, <4>1, <4>2
    <3> QED
      BY <3>1, <3>2
  <2> QED
    BY <2>8, <2>9, <2>10, <2>11, <2>12, <2>13 DEF IInv
<1>4. ASSUME NEW p \in Holder.place,
             IF p \in db.places THEN Fault ELSE UNCHANGED faults,
             EndWith(IF Holder.gone THEN <<SyncPlaceAccess>> ELSE <<>>),
             Owe(IF Holder.op = "shared" /\ Holder.place \cap db.places # {}
                 THEN {"conf"} ELSE {}),
             UNCHANGED db
      PROVE  IInv'
  <2> DEFINE s == IF Holder.gone THEN <<SyncPlaceAccess>> ELSE <<>>
  <2>1. StepTyped
    BY <1>1, <1>2, <1>4, SharingAssumption DEF Types, StepTyped, Owe, Fault
  <2>2. Asking(s) /\ (Holder.gone => Waits(s, "access")) /\ queue' = Tail(queue) \o s
    BY <1>4, SyncsAsk DEF EndWith
  <2> HIDE DEF s
  <2>3. "conf" \in owed' \/ Written(Holder, db) = Wanted(db)
    <3>1. CASE Holder.op = "shared" /\ Holder.place \cap db.places # {}
      BY <1>4, <3>1 DEF Owe
    <3>2. CASE Holder.op = "shared" /\ Holder.place \cap db.places = {}
      <4>1. \A q \in Holder.place : db.shares[q] # "on"
        BY <1>2, <3>2 DEF DbOK
      <4> QED
        BY <1>1, <1>2, <3>2, <4>1, ChangedOut DEF Written
    <3>3. CASE Holder.op # "shared"
      BY <1>2, <3>3 DEF Written
    <3> QED
      BY <3>1, <3>2, <3>3
  <2>4. owed \subseteq owed'
    BY <1>4 DEF Owe
  <2> QED
    BY <1>1, <1>2, <1>4, <2>1, <2>2, <2>3, <2>4, TaskEnds
<1> QED
  BY <1>1, <1>3, <1>4 DEF RemovePlace

LEMMA RemoveReleaseKeeps ==
  ASSUME IInv, RemoveRelease
  PROVE  IInv'
<1>1. /\ Running /\ Holder.at = "places" /\ Holder.place = {}
      /\ db' = [db EXCEPT !.held = @ \ Holder.volume]
      /\ EndWith(<<SyncPlaceAccess>>)
      /\ UNCHANGED <<conf, roster, making, due, late, owed, edits, faults>>
  BY DEF RemoveRelease
<1>2. Types /\ Holder \in TaskType /\ Stages(Holder) /\ Holder.kind = "remove"
      /\ Holder.op \in {"shared", "unshared"} /\ DbOK /\ db \in DbType
  BY <1>1, HolderTyped DEF IInv, Types, Stages, TaskType, DbOK
<1>3. /\ db' \in DbType /\ db'.users = db.users /\ db'.admins = db.admins
      /\ db'.places = db.places /\ db'.perms = db.perms /\ db'.shares = db.shares
      /\ db'.held = db.held \ Holder.volume
  BY <1>1, <1>2 DEF DbType
<1>4. DbOK'
  BY <1>2, <1>3 DEF DbOK
<1>5. Wanted(db') = Wanted(db)
  <2>1. \A p \in Holder.volume : db.shares[p] = "none"
    BY <1>1, <1>2 DEF IInv, RemovedBare
  <2> QED
    BY <1>2, <1>3, <2>1, SameWanted
<1>6. Written(Holder, db) = Wanted(db)
  <2>1. Holder.op = "shared" => Changed(Holder, db) = Wanted(db)
    BY <1>1, <1>2, ChangedOut
  <2> QED
    BY <1>2, <2>1 DEF Written
<1>7. StepTyped
  BY <1>1, <1>2 DEF Types, StepTyped
<1>8. "conf" \in owed' \/ Promised("sync") \/ conf' = Wanted(db)'
  BY <1>1, <1>2, <1>5, <1>6 DEF IInv, ConfTrue
<1>9. "roster" \in owed' \/ roster' \subseteq db.users'
  BY <1>1, <1>3 DEF IInv, RosterKnown
<1> QED
  BY <1>1, <1>4, <1>7, <1>8, <1>9, SyncsAsk, TaskCommits DEF EndWith

LEMMA VolumeApplyKeeps ==
  ASSUME IInv, VolumeApply
  PROVE  IInv'
<1> DEFINE t == [Holder EXCEPT !.at = "commit", !.resync = TRUE]
<1>1. /\ Running /\ Holder.kind = "volume" /\ Holder.at = "ask"
      /\ UNCHANGED <<db, making, due, edits>>
      /\ Ask(/\ queue' = [queue EXCEPT ![1].at = "commit", ![1].resync = TRUE]
             /\ Owe(IF Holder.defs = Defs(OverlayShares(ShareRows(db), Holder), db)
                    THEN {} ELSE {"conf"}),
             End /\ UNCHANGED owed,
             EndWith(SyncSharesBestEffort) /\ UNCHANGED owed,
             End /\ Owe({"conf"}))
  BY DEF VolumeApply
<1>2. Types /\ Holder \in TaskType /\ Stages(Holder) /\ Request.to = "apply"
      /\ Request.defs = Holder.defs
  BY <1>1, HolderTyped, Served DEF IInv, Types
<1>3. Written(Holder, db) = Wanted(db)
  BY <1>1 DEF Written
<1>4. CASE /\ queue' = [queue EXCEPT ![1].at = "commit", ![1].resync = TRUE]
           /\ Owe(IF Holder.defs = Defs(OverlayShares(ShareRows(db), Holder), db)
                  THEN {} ELSE {"conf"})
           /\ Serve(Request) /\ UNCHANGED <<late, faults>>
  <2>1. conf' = Holder.defs /\ roster' = roster
    BY <1>2, <1>1, <1>4, Served
  <2>2. queue' = [queue EXCEPT ![1] = t]
    BY <1>4 DEF Holder
  <2>3. t \in TaskType /\ t.at = "commit" /\ t.kind = Holder.kind /\ t.op = Holder.op
        /\ t.place = Holder.place /\ t.volume = Holder.volume /\ t.gone = Holder.gone
        /\ t.who = Holder.who /\ t.resync
    BY <1>2 DEF TaskType
  <2> HIDE DEF t
  <2>4. Stages(t)
    BY <1>1, <1>2, <2>3 DEF Stages, TaskType
  <2>5. "conf" \in owed' \/ conf' = Written(t, db)
    <3>1. Changed(t, db) = Changed(Holder, db)
      BY <2>3, SameChange
    <3>2. "conf" \in owed' \/ Holder.defs = Changed(Holder, db)
      BY <1>4 DEF Owe, Changed
    <3> QED
      BY <1>1, <2>1, <2>3, <3>1, <3>2 DEF Written
  <2>6. Current(t, db)
    BY <1>1, <2>3 DEF Current, ToWrite
  <2>7. owed \subseteq owed' /\ owed' \subseteq owed \cup {"conf", "roster"}
    BY <1>4 DEF Owe
  <2>8. StepTyped
    BY <1>1, <1>2, <1>4, <2>7, AskedTyped DEF Types
  <2> QED
    BY <1>1, <1>2, <1>4, <2>1, <2>2, <2>3, <2>4, <2>5, <2>6, <2>7, <2>8, TaskGoes
<1>5. CASE End /\ UNCHANGED <<conf, roster, owed, late, faults>>
  <2>1. StepTyped
    BY <1>1, <1>2, <1>5 DEF Types, StepTyped
  <2> QED
    BY <1>1, <1>2, <1>3, <1>5, <2>1, SyncsAsk, GivesUp DEF End, EndWith
<1>6. CASE /\ EndWith(SyncSharesBestEffort) /\ UNCHANGED owed
           /\ faults < MaxFaults /\ faults' = faults + 1
           /\ Serve(Request) \/ UNCHANGED <<conf, roster>>
           /\ UNCHANGED late
  <2>1. roster' = roster
    BY <1>1, <1>2, <1>6, Served
  <2>2. StepTyped
    BY <1>1, <1>2, <1>6, AskedTyped DEF Types
  <2> QED
    BY <1>1, <1>2, <1>6, <2>1, <2>2, SyncsAsk, GivesUp DEF EndWith
<1>7. CASE /\ End /\ Owe({"conf"}) /\ faults < MaxFaults /\ faults' = faults + 1
           /\ Serve(Request) \/ UNCHANGED <<conf, roster>>
           /\ late' \subseteq late \cup {Request}
  <2>1. roster' = roster
    BY <1>1, <1>2, <1>7, Served
  <2>2. StepTyped
    BY <1>1, <1>2, <1>7, AskedTyped DEF Types, Owe
  <2> QED
    BY <1>1, <1>2, <1>7, <2>1, <2>2, SyncsAsk, GivesUp DEF End, EndWith, Owe
<1> QED
  BY <1>1, <1>4, <1>5, <1>6, <1>7 DEF Ask, Fault

LEMMA VolumeCommitKeeps ==
  ASSUME IInv, VolumeCommit
  PROVE  IInv'
<1>1. /\ Running /\ Holder.kind = "volume" /\ Holder.at = "commit"
      /\ UNCHANGED <<conf, roster, making, due, late, owed, edits>>
  BY DEF VolumeCommit
<1>2. Types /\ Holder \in TaskType /\ Stages(Holder) /\ DbOK /\ Holder.resync
      /\ Holder.op = "create"
  BY <1>1, HolderTyped DEF IInv, Types, Stages
<1>3. CASE Rowed(Holder) /\ db' = Committed(Holder) /\ End /\ UNCHANGED faults
  <2>1. StepTyped
    BY <1>1, <1>2, <1>3 DEF Types, StepTyped
  <2>2. DbOK' /\ Writers' = Writers /\ db'.users = db.users
    BY <1>2, <1>3, CommittedStep
  <2>3. "conf" \in owed \/ Promised("sync") \/ conf = Changed(Holder, db)
    BY <1>1 DEF IInv, ConfTrue, Written
  <2>4. Wanted(db') = Changed(Holder, db)
    BY <1>1, <1>2, <1>3, CommittedIsChanged
  <2>5. owed \cap {"roster", "place"} # {} \/ Promised("access") \/ roster = Writers
    BY <1>1 DEF IInv, RosterTrue
  <2>6. "roster" \in owed \/ roster \subseteq db.users
    BY DEF IInv, RosterKnown
  <2> QED
    BY <1>1, <1>3, <2>1, <2>2, <2>3, <2>4, <2>5, <2>6, SyncsAsk, TaskCommits DEF End, EndWith
<1>4. CASE db' = db /\ Resync
           /\ faults' \in {faults} \cup (IF faults < MaxFaults THEN {faults + 1} ELSE {})
  <2>1. StepTyped
    BY <1>1, <1>2, <1>4, SharingAssumption DEF Types, StepTyped
  <2>2. PICK s : /\ Asking(s) /\ queue' = Tail(queue) \o s
                 /\ Holder.resync => Waits(s, "sync") /\ Waits(s, "access")
    BY <1>4, ResyncEnds
  <2> QED
    BY <1>1, <1>2, <1>4, <2>1, <2>2, GivesUp
<1> QED
  BY <1>3, <1>4 DEF VolumeCommit, Fault

----------------------------------------------------------------------------
LEMMA Invariant == Spec => []IInv
<1>1. Init => IInv
  <2> SUFFICES ASSUME Init PROVE IInv
    OBVIOUS
  <2>1. PICK places \in SUBSET Places, perms \in [Places -> SUBSET Users],
             shares \in [Places -> {"none", "on", "off"}], admins \in (SUBSET Users) \ {{}} :
           /\ \A p \in Places \ places : perms[p] = {} /\ shares[p] = "none"
           /\ db = [users |-> Users, admins |-> admins, places |-> places, perms |-> perms,
                    shares |-> shares, held |-> {}]
    BY DEF Init
  <2>2. /\ conf = Wanted(db) /\ roster = Writers /\ queue = <<>> /\ making = NotMaking
        /\ due = 0 /\ late = {} /\ owed = {} /\ edits = 0 /\ faults = 0
    BY DEF Init, Wanted, Desired
  <2>3. DbOK /\ db \in DbType
    BY <2>1 DEF DbOK, DbType
  <2>4. QueueOK /\ ~Running
    BY <2>2 DEF QueueOK, Running
  <2>5. MakingOK
    BY <2>2 DEF MakingOK, MakingType, NotMaking
  <2>6. conf \subseteq ShareDefs
    BY <2>2, <2>3, WantedTyped
  <2>7. roster \subseteq db.users
    <3>1. PlaceRows(db) \subseteq RowType
      <4>1. \A p \in Places : [place |-> p, on |-> TRUE] \in RowType
        BY DEF RowType
      <4> QED
        BY <2>3, <4>1 DEF PlaceRows, DbType
    <3> QED
      BY <2>2, <2>3, <3>1, WantedKnown DEF Writers, WritersOf
  <2>8. Types
    BY <2>2, <2>3, <2>4, <2>5, <2>6, <2>7, SharingAssumption DEF Types, DbType
  <2>9. Reads /\ ConfTrue /\ AccessReads /\ RosterTrue /\ RosterKnown /\ RemovedBare
    BY <2>2, <2>4, <2>7 DEF Reads, ConfTrue, AccessReads, RosterTrue, RosterKnown, RemovedBare
  <2> QED
    BY <2>8, <2>9 DEF IInv
<1>2. IInv /\ [Next]_vars => IInv'
  <2> SUFFICES ASSUME IInv, [Next]_vars PROVE IInv'
    OBVIOUS
  <2>1. CASE UNCHANGED vars
    BY <2>1 DEF vars, IInv, Types, DbOK, MakingOK, QueueOK, Reads, ConfTrue, AccessReads,
                RosterTrue, RosterKnown, RemovedBare, Running, Holder, Promised, Writers
  <2>2. CASE Work
    BY <2>2, ReadRowsKeeps, ReadPeopleKeeps, SyncKeeps, AccessKeeps, ShareApplyKeeps,
       ShareCommitKeeps, DeletePreviewsKeeps, UserSharesKeeps, UserGroupKeeps, UserCommitKeeps,
       RemovePartsKeeps, RemoveSharesKeeps, RemoveDisksKeeps, RemovePlaceKeeps,
       RemoveReleaseKeeps, VolumeApplyKeeps, VolumeCommitKeeps DEF Work
  <2>3. CASE Requested
    BY <2>3, RequestedKeeps
  <2>4. ASSUME NEW p \in Places, CreatePlace(p) \/ HoldUnsynced(p) \/ BeginVolume(p)
        PROVE  IInv'
    BY <2>4, CreatePlaceKeeps, HoldUnsyncedKeeps, BeginVolumeKeeps
  <2>5. CASE QueueSyncs \/ Making \/ LateRun \/ Restart
    BY <2>5, QueueSyncsKeeps, MakingKeeps, LateRunKeeps, RestartKeeps
  <2> QED
    BY <2>1, <2>2, <2>3, <2>4, <2>5 DEF Next
<1> QED
  BY <1>1, <1>2, PTL DEF Spec

\* For any users, places and bounds, the database, smb.conf, the group, the queue of tasks and
\* what was left with the worker keep their types, and whoever has not had the lock is at
\* its beginning (sharing.service.ts).
THEOREM TypeCorrect == Spec => []TypeOK
<1>1. IInv => TypeOK
  <2> SUFFICES ASSUME IInv PROVE TypeOK
    OBVIOUS
  <2>1. /\ db.admins \subseteq db.users /\ db.users \subseteq Users /\ db.places \subseteq Places
        /\ db.held \subseteq Places
        /\ \A p \in Places : /\ db.perms[p] \subseteq db.users
                             /\ db.shares[p] \in {"none", "on", "off"}
                             /\ p \notin db.places => db.perms[p] = {} /\ db.shares[p] = "none"
    BY DEF IInv, Types, DbOK, DbType
  <2>2. ASSUME NEW i \in DOMAIN queue
        PROVE  /\ queue[i] \in TaskType /\ Stages(queue[i]) /\ (i > 1 => Waiting(queue[i]))
    BY ElementOfSeq, LenProperties DEF IInv, Types, QueueOK
  <2>3. \A i \in DOMAIN queue :
          /\ queue[i].kind \in {"sync", "access", "share", "user", "remove", "volume"}
          /\ queue[i].at \in {"rows", "people", "ask", "named", "smb", "leave", "commit",
                             "parts", "drop", "disks", "places"}
          /\ queue[i].defs \subseteq ShareDefs
          /\ i > 1 => queue[i].at = IF queue[i].kind = "volume" THEN "ask"
                                   ELSE IF queue[i].op = "unshared" THEN "parts" ELSE "rows"
    BY <2>2 DEF TaskType, Waiting
  <2>4. /\ making.at \in {"no", "rows", "people", "preview", "chain", "place"}
        /\ making.defs \subseteq ShareDefs /\ making.place \subseteq Places
    BY DEF IInv, Types, MakingOK, MakingType
  <2>5. \A m \in late : /\ m.to \in {"sync", "apply", "access", "leave"}
                        /\ m.defs \subseteq ShareDefs
    BY DEF IInv, Types, RequestType
  <2> QED
    BY <2>1, <2>3, <2>4, <2>5 DEF IInv, Types, TypeOK
<1> QED
  BY <1>1, Invariant, PTL

\* At rest smb.conf and the group are what the database asks for, unless something that failed
\* or was never answered left them in doubt: every edit queues its syncs, and no task ends
\* without having written what it committed or a resync behind it (withShareLock and
\* syncSharesBestEffort of sharing.service.ts, applyShareChange, applyUserDelete and the plans
\* of volumes).
THEOREM SharesWhatIsSaid == Spec => []Reflects
<1>1. IInv => Reflects
  <2> SUFFICES ASSUME IInv, AtRest PROVE
        /\ owed \cap {"conf", "held"} = {} => conf = Desired
        /\ owed \cap {"roster", "place"} = {} => roster = Writers
    BY DEF Reflects
  <2>1. ~Running /\ \A kind : Promised(kind) => kind = "sync" /\ "held" \in owed
    BY DEF AtRest, Running, Promised, Waits
  <2>2. owed \cap {"conf", "held"} = {} => conf = Wanted(db)
    BY <2>1 DEF IInv, ConfTrue
  <2>3. owed \cap {"roster", "place"} = {} => roster = Writers
    BY <2>1 DEF IInv, RosterTrue
  <2> QED
    BY <2>2, <2>3 DEF Desired, Wanted
<1> QED
  BY <1>1, Invariant, PTL

\* Who was deleted is in the group never again, and in smb.conf only until a sync that is
\* on its way: the group is left before the row goes (applyUserDelete), and what a task
\* writes names people it read while it had the lock.
THEOREM GoneStaysGone == Spec => []GoneIsGone
<1>1. IInv => GoneIsGone
  <2> SUFFICES ASSUME IInv, NEW u \in Users \ db.users
               PROVE  /\ "roster" \notin owed => u \notin roster
                      /\ u \in Members(conf) /\ owed \cap {"conf", "held"} = {} =>
                           due > 0 \/ \E i \in DOMAIN queue : queue[i].kind = "sync"
    BY DEF GoneIsGone
  <2>1. "roster" \notin owed => u \notin roster
    BY DEF IInv, RosterKnown
  <2>2. ASSUME u \in Members(conf), owed \cap {"conf", "held"} = {}
        PROVE  due > 0 \/ \E i \in DOMAIN queue : queue[i].kind = "sync"
    <3>1. DbOK /\ db \in DbType /\ Types
      BY DEF IInv, Types, DbOK
    <3>2. CASE Promised("sync")
      BY <2>2, <3>2 DEF Promised, Waits
    <3>3. CASE Running /\ Holder.kind = "sync"
      <4>1. 1 \in DOMAIN queue
        BY <3>1, <3>3, EmptySeq, LenProperties DEF Types, QueueOK, Running
      <4> QED
        BY <3>3, <4>1 DEF Holder
    <3>4. CASE conf = IF Running THEN Written(Holder, db) ELSE Wanted(db)
      <4>1. Members(Wanted(db)) \subseteq db.users
        BY <3>1, WantedTyped, WantedKnown DEF Wanted
      <4>2. Running => Members(Changed(Holder, db)) \subseteq db.users
        BY <3>1, HolderTyped, ChangedTyped, WantedKnown DEF Changed, Types
      <4>3. Running => Members(DropUserFromDefs(Wanted(db), Holder.who)) \subseteq Members(Wanted(db))
        <5> SUFFICES ASSUME Running, NEW v \in Members(DropUserFromDefs(Wanted(db), Holder.who))
                     PROVE  v \in Members(Wanted(db))
          OBVIOUS
        <5>1. PICK x \in DropUserFromDefs(Wanted(db), Holder.who) : v \in x.users
          BY DEF Members
        <5>2. PICK s \in Wanted(db) : x = [s EXCEPT !.users = @ \ Holder.who]
          BY <5>1 DEF DropUserFromDefs
        <5>3. s \in ShareDefs
          BY <3>1, <5>2, WantedTyped
        <5>4. v \in s.users
          BY <5>1, <5>2, <5>3 DEF ShareDefs
        <5> QED
          BY <5>2, <5>4 DEF Members
      <4>4. Members(conf) \subseteq db.users
        BY <3>4, <4>1, <4>2, <4>3 DEF Written
      <4> QED
        BY <2>2, <4>4
    <3> QED
      BY <2>2, <3>2, <3>3, <3>4 DEF IInv, ConfTrue
  <2> QED
    BY <2>1, <2>2
<1> QED
  BY <1>1, Invariant, PTL

=============================================================================
