---------------------------- MODULE VolumesProofs ----------------------------
(***************************************************************************)
(* The check of one data volume (VolumeCheck) and the guard of the volumes *)
(* that are missing (VolumeGuard).                                         *)
(*                                                                         *)
(* The guard, for any volumes, apps and bounds: an app it stopped is not   *)
(* forgotten.  NotForgotten looks at an app that is down; by then what     *)
(* could lose it has happened.  The invariant speaks of it from the moment *)
(* the guard decides to stop it: an app still to be stopped is on the list *)
(* of a hold no resume can have read, and an app whose last job in the     *)
(* stream is a stop of the guard, or that was stopped and has no start in  *)
(* the stream, is on the list of a hold or of a resume.  Lists are not     *)
(* lost because a hold is only created where there is none (Orderly), and  *)
(* a resume that deletes the hold it read carries all of its list.  Of two *)
(* that read one hold the second is late: it carries nothing, and what it  *)
(* deletes the property exempts.                                           *)
(*                                                                         *)
(* The check, for any number of shells, of events and of failures: it      *)
(* mounts only a volume whose disk was away since the boot.  The invariant *)
(* follows the fact "the disk was away" wherever the checks carry it: in   *)
(* the file, in the copy a check loaded, in the flag it will save, and in  *)
(* the decision to mount.                                                  *)
(***************************************************************************)
EXTENDS VolumeCheck, VolumeGuard, SequenceTheorems, TLAPS

JobType == [kind : {"up", "stop", "halt"}, app : Apps]
HoldType == [status : {"none", "blocked", "back"}, stopped : SUBSET Apps]
CallType == [at : {"idle", "delete", "start"}, apps : SUBSET Apps, late : BOOLEAN]
ResumeType == [Calls -> CallType]

----------------------------------------------------------------------------
(* Types *)

LEMMA PublishTyped ==
  ASSUME TypeOK, NEW kind \in {"up", "stop", "halt"}, NEW a \in Apps, Publish(kind, a)
  PROVE  jobs' \in Seq(JobType) /\ faults' \in 0..MaxFaults
<1>1. Job(kind, a) \in JobType /\ jobs \in Seq(JobType) /\ faults \in 0..MaxFaults
  BY DEF Job, JobType, TypeOK
<1>2. MaxFaults \in Nat
  BY VolumeGuardAssumption
<1>3. Append(jobs, Job(kind, a)) \in Seq(JobType)
  BY <1>1, AppendProperties
<1>4. QED
  BY <1>1, <1>2, <1>3 DEF Publish, Fault

LEMMA OvertakenTyped ==
  ASSUME NEW call \in CallType
  PROVE  /\ Overtaken(call) \in CallType
         /\ Overtaken(call).at = call.at /\ Overtaken(call).apps = call.apps
         /\ ~Overtaken(call).late => Overtaken(call) = call /\ ~call.late
         /\ call.at = "delete" => Overtaken(call).late
<1>1. CASE call.at = "delete"
  <2>1. Overtaken(call) = [call EXCEPT !.late = TRUE]
    BY <1>1 DEF Overtaken
  <2>2. QED
    BY <1>1, <2>1 DEF CallType
<1>2. CASE call.at # "delete"
  <2>1. Overtaken(call) = call
    BY <1>2 DEF Overtaken
  <2>2. QED
    BY <1>2, <2>1
<1>3. QED
  BY <1>1, <1>2

LEMMA GuardTyped ==
  ASSUME TypeOK,
         GuardFetch \/ GuardPlan \/ GuardRelease \/ GuardList \/ GuardCreated \/ GuardEnd
           \/ GuardFails
  PROVE  TypeOK'
<1>0. guard \in Check /\ NoCheck \in Check
  BY DEF TypeOK, Check, NoCheck
<1>1. CASE GuardFetch
  <2>1. guard' \in Check
    BY <1>0, <1>1 DEF GuardFetch, Check
  <2>2. QED
    BY <1>1, <2>1 DEF TypeOK, GuardFetch, machine
<1>2. CASE GuardPlan
  <2>1. guard' \in Check
    BY <1>0, <1>2 DEF GuardPlan, PlanHolds, Check
  <2>2. QED
    BY <1>2, <2>1 DEF TypeOK, GuardPlan, machine
<1>3. CASE GuardRelease
  <2>1. guard' \in Check
    BY <1>0, <1>3 DEF GuardRelease, Check
  <2>2. hold' \in [Volumes -> HoldType]
    BY <1>3 DEF GuardRelease, NoHold, HoldType, TypeOK
  <2>3. resume' \in [Volumes -> ResumeType]
    <3>1. resume \in [Volumes -> ResumeType]
      BY DEF TypeOK, ResumeType, CallType
    <3>2. \A v \in Volumes, c \in Calls : Overtaken(resume[v][c]) \in CallType
      BY <3>1, OvertakenTyped DEF ResumeType
    <3>3. QED
      BY <1>3, <3>1, <3>2 DEF GuardRelease, ResumeType
  <2>4. QED
    BY <1>3, <2>1, <2>2, <2>3 DEF TypeOK, GuardRelease, machine, HoldType, ResumeType, CallType
<1>4. CASE GuardList
  <2>1. guard' \in Check
    <3>1. running \in SUBSET Apps
      BY DEF TypeOK
    <3>2. [guard EXCEPT !.at = "create", !.apps = running] \in Check
      BY <1>0, <3>1 DEF Check
    <3>3. [guard EXCEPT !.at = "create"] \in Check
      BY <1>0 DEF Check
    <3>4. QED
      BY <1>4, <3>2, <3>3 DEF GuardList
  <2>2. faults' \in 0..MaxFaults
    BY <1>4, VolumeGuardAssumption DEF GuardList, Fault, TypeOK
  <2>3. QED
    BY <1>4, <2>1, <2>2 DEF TypeOK, GuardList, machine
<1>5. CASE GuardCreated
  <2>1. guard' \in Check
    BY <1>0, <1>5 DEF GuardCreated, Check
  <2>2. QED
    BY <1>5, <2>1 DEF TypeOK, GuardCreated, machine
<1>6. CASE GuardEnd
  BY <1>0, <1>6 DEF TypeOK, GuardEnd, machine
<1>7. CASE GuardFails
  BY <1>0, <1>7, VolumeGuardAssumption DEF TypeOK, GuardFails, Fault, machine
<1>8. QED
  BY <1>1, <1>2, <1>3, <1>4, <1>5, <1>6, <1>7

LEMMA GuardRowTyped ==
  ASSUME TypeOK, NEW v \in Volumes, GuardCreate(v) \/ GuardBack(v) \/ GuardReblock(v)
  PROVE  TypeOK'
<1>0. guard \in Check /\ NoCheck \in Check /\ hold \in [Volumes -> HoldType]
  BY DEF TypeOK, Check, NoCheck, HoldType
<1>1. CASE GuardCreate(v)
  <2>1. AppsUnder(guard.apps, v) \in SUBSET Apps
    BY <1>0 DEF AppsUnder, Check
  <2>2. guard' \in Check
    BY <1>0, <1>1, <2>1 DEF GuardCreate, Check
  <2>3. hold' \in [Volumes -> HoldType]
    BY <1>0, <1>1, <2>1 DEF GuardCreate, HoldType
  <2>4. QED
    BY <1>1, <2>2, <2>3 DEF TypeOK, GuardCreate, machine, HoldType
<1>2. ASSUME NEW s \in {"blocked", "back"}, NEW rest \in Check, SetStatus(v, s, rest)
      PROVE  guard' \in Check /\ hold' \in [Volumes -> HoldType]
  BY <1>0, <1>2 DEF SetStatus, HoldType
<1>3. CASE GuardBack(v)
  <2>1. [guard EXCEPT !.back = guard.back \ {v}] \in Check
    BY <1>0 DEF Check
  <2>2. guard' \in Check /\ hold' \in [Volumes -> HoldType]
    BY <1>2, <1>3, <2>1 DEF GuardBack
  <2>3. QED
    BY <1>3, <2>2 DEF TypeOK, GuardBack, machine, HoldType
<1>4. CASE GuardReblock(v)
  <2>1. [guard EXCEPT !.reblock = guard.reblock \ {v}] \in Check
    BY <1>0 DEF Check
  <2>2. guard' \in Check /\ hold' \in [Volumes -> HoldType]
    BY <1>2, <1>4, <2>1 DEF GuardReblock
  <2>3. QED
    BY <1>4, <2>2 DEF TypeOK, GuardReblock, machine, HoldType
<1>5. QED
  BY <1>1, <1>3, <1>4

LEMMA GuardStopTyped ==
  ASSUME TypeOK, NEW a \in Apps, GuardStop(a)
  PROVE  TypeOK'
<1>1. guard' \in Check
  BY DEF TypeOK, GuardStop, Check
<1>2. jobs' \in Seq(JobType) /\ faults' \in 0..MaxFaults
  BY PublishTyped DEF GuardStop
<1>3. QED
  BY <1>1, <1>2 DEF TypeOK, GuardStop, machine, JobType

\* What each step of a Resume writes into the calls in hand, and that it leaves every
\* other volume's alone.
LEMMA OneCall ==
  ASSUME resume \in [Volumes -> ResumeType], NEW v \in Volumes, NEW c \in Calls,
         NEW call \in CallType, resume' = [resume EXCEPT ![v][c] = call]
  PROVE  /\ resume' \in [Volumes -> ResumeType]
         /\ resume'[v][c] = call
         /\ \A q \in Calls \ {c} : resume'[v][q] = resume[v][q]
         /\ \A w \in Volumes \ {v} : resume'[w] = resume[w]
<1>1. resume' = [resume EXCEPT ![v] = [resume[v] EXCEPT ![c] = call]]
  OBVIOUS
<1>2. PICK calls : calls = [resume[v] EXCEPT ![c] = call]
  OBVIOUS
<1>3. resume[v] \in [Calls -> CallType]
  BY DEF ResumeType
<1>4. calls \in [Calls -> CallType] /\ calls[c] = call /\ \A q \in Calls \ {c} : calls[q] = resume[v][q]
  BY <1>2, <1>3
<1>5. resume' = [resume EXCEPT ![v] = calls]
  BY <1>1, <1>2
<1>6. calls \in ResumeType
  BY <1>4 DEF ResumeType
<1>7. QED
  BY <1>4, <1>5, <1>6

LEMMA ReadWrites ==
  ASSUME TypeOK, NEW v \in Volumes, NEW c \in Calls, ResumeRead(v, c)
  PROVE  LET call == [at |-> "delete", apps |-> hold[v].stopped, late |-> FALSE]
         IN  call \in CallType /\ resume' = [resume EXCEPT ![v][c] = call]
BY DEF TypeOK, ResumeRead, CallType

LEMMA EndWrites ==
  ASSUME TypeOK, NEW v \in Volumes, NEW c \in Calls,
         ResumeEnd(v, c) \/ ResumeFails(v, c) \/ (ResumeDelete(v, c) /\ ~Held(v))
  PROVE  NoResume \in CallType /\ resume' = [resume EXCEPT ![v][c] = NoResume]
BY DEF ResumeEnd, ResumeFails, ResumeDelete, CallType, NoResume

LEMMA StartWrites ==
  ASSUME TypeOK, NEW v \in Volumes, NEW c \in Calls, NEW a \in Apps, ResumeStart(v, c, a)
  PROVE  \E call \in CallType :
            /\ resume' = [resume EXCEPT ![v][c] = call]
            /\ call.at = resume[v][c].at /\ call.late = resume[v][c].late
            /\ call.apps = resume[v][c].apps \ {a}
<1>1. PICK old : old = resume[v][c]
  OBVIOUS
<1>2. old \in CallType
  BY <1>1 DEF TypeOK, CallType
<1>3. PICK call : call = [old EXCEPT !.apps = old.apps \ {a}]
  OBVIOUS
<1>4. /\ call \in CallType /\ call.at = old.at /\ call.late = old.late
      /\ call.apps = old.apps \ {a}
  BY <1>2, <1>3 DEF CallType
<1>5. resume' = [resume EXCEPT ![v][c] = call]
  BY <1>1, <1>3 DEF ResumeStart
<1>6. QED
  BY <1>1, <1>4, <1>5

LEMMA DeleteWrites ==
  ASSUME TypeOK, NEW v \in Volumes, NEW c \in Calls, ResumeDelete(v, c), Held(v)
  PROVE  /\ resume' \in [Volumes -> ResumeType]
         /\ resume'[v][c].at = "start" /\ resume'[v][c].apps = resume[v][c].apps
         /\ resume'[v][c].late = resume[v][c].late
         /\ \A q \in Calls \ {c} : resume'[v][q] = Overtaken(resume[v][q])
         /\ \A w \in Volumes \ {v} : resume'[w] = resume[w]
<1>1. PICK old : old = resume[v][c]
  OBVIOUS
<1>2. resume \in [Volumes -> ResumeType] /\ old \in CallType
  BY <1>1 DEF TypeOK, ResumeType, CallType
<1>3. PICK new : new = [old EXCEPT !.at = "start"]
  OBVIOUS
<1>4. new \in CallType /\ new.at = "start" /\ new.apps = old.apps /\ new.late = old.late
  BY <1>2, <1>3 DEF CallType
<1>5. PICK calls :
        calls = [q \in Calls |-> IF q = c THEN new ELSE Overtaken(resume[v][q])]
  OBVIOUS
<1>6. resume' = [resume EXCEPT ![v] = calls]
  BY <1>1, <1>3, <1>5 DEF ResumeDelete
<1>7. calls[c] = new /\ \A q \in Calls \ {c} : calls[q] = Overtaken(resume[v][q])
  BY <1>5
<1>8. \A q \in Calls : Overtaken(resume[v][q]) \in CallType
  BY <1>2, OvertakenTyped DEF ResumeType
<1>9. calls \in ResumeType
  BY <1>4, <1>5, <1>8 DEF ResumeType
<1>10. QED
  BY <1>1, <1>2, <1>4, <1>6, <1>7, <1>9

LEMMA ResumeTyped ==
  ASSUME TypeOK, NEW v \in Volumes, NEW c \in Calls, ResumeStep(v, c)
  PROVE  TypeOK'
<1>0. resume \in [Volumes -> ResumeType] /\ hold \in [Volumes -> HoldType]
  BY DEF TypeOK, ResumeType, CallType, HoldType
<1>1. CASE ResumeRead(v, c)
  <2>1. resume' \in [Volumes -> ResumeType]
    BY <1>0, <1>1, ReadWrites, OneCall
  <2>2. events' \in 0..MaxEvents
    BY <1>1, VolumeGuardAssumption DEF ResumeRead, Event, TypeOK
  <2>3. QED
    BY <1>1, <2>1, <2>2 DEF TypeOK, ResumeRead, machine, ResumeType, CallType
<1>2. CASE ResumeDelete(v, c)
  <2>1. resume' \in [Volumes -> ResumeType]
    BY <1>0, <1>2, DeleteWrites, EndWrites, OneCall
  <2>2. hold' \in [Volumes -> HoldType] /\ dropped' \in SUBSET Apps
    <3>1. NoHold \in HoldType /\ hold[v].stopped \in SUBSET Apps /\ dropped \in SUBSET Apps
      BY <1>0 DEF HoldType, NoHold, TypeOK
    <3>2. CASE Held(v)
      <4>1. hold' = [hold EXCEPT ![v] = NoHold]
        BY <1>2, <3>2 DEF ResumeDelete
      <4>2. dropped' = dropped \cup (IF resume[v][c].late THEN hold[v].stopped ELSE {})
        BY <1>2, <3>2 DEF ResumeDelete
      <4>3. QED
        BY <1>0, <3>1, <4>1, <4>2
    <3>3. CASE ~Held(v)
      BY <1>0, <1>2, <3>1, <3>3 DEF ResumeDelete
    <3>4. QED
      BY <3>2, <3>3
  <2>3. QED
    BY <1>2, <2>1, <2>2 DEF TypeOK, ResumeDelete, ResumeType, CallType, HoldType
<1>3. CASE ResumeEnd(v, c) \/ ResumeFails(v, c)
  <2>1. resume' \in [Volumes -> ResumeType]
    BY <1>0, <1>3, EndWrites, OneCall
  <2>2. faults' \in 0..MaxFaults
    BY <1>3, VolumeGuardAssumption DEF ResumeEnd, ResumeFails, Fault, TypeOK
  <2>3. QED
    BY <1>3, <2>1, <2>2 DEF TypeOK, ResumeEnd, ResumeFails, machine, ResumeType, CallType
<1>4. ASSUME NEW a \in Apps, ResumeStart(v, c, a)
      PROVE  TypeOK'
  <2>1. resume' \in [Volumes -> ResumeType]
    BY <1>0, <1>4, StartWrites, OneCall
  <2>2. jobs' \in Seq(JobType) /\ faults' \in 0..MaxFaults
    BY <1>4, PublishTyped DEF ResumeStart
  <2>3. QED
    BY <1>4, <2>1, <2>2 DEF TypeOK, ResumeStart, machine, ResumeType, CallType, JobType
<1>5. QED
  BY <1>1, <1>2, <1>3, <1>4 DEF ResumeStep

LEMMA AdminTyped ==
  ASSUME TypeOK, NEW a \in Apps, AdminStep(a)
  PROVE  TypeOK'
<1>1. CASE StartCheck(a)
  BY <1>1, VolumeGuardAssumption DEF TypeOK, StartCheck, Event, machine
<1>2. CASE StartPublish(a)
  <2>1. jobs' \in Seq(JobType) /\ faults' \in 0..MaxFaults
    BY <1>2, PublishTyped DEF StartPublish
  <2>2. QED
    BY <1>2, <2>1 DEF TypeOK, StartPublish, machine, JobType
<1>3. CASE AdminStop(a)
  <2>1. Job("stop", a) \in JobType /\ jobs \in Seq(JobType)
    BY DEF Job, JobType, TypeOK
  <2>2. jobs' \in Seq(JobType)
    BY <1>3, <2>1, AppendProperties DEF AdminStop
  <2>3. QED
    BY <1>3, <2>2, VolumeGuardAssumption DEF TypeOK, AdminStop, Event, machine, JobType
<1>4. QED
  BY <1>1, <1>2, <1>3 DEF AdminStep

LEMMA JobTyped ==
  ASSUME TypeOK, JobStep
  PROVE  TypeOK'
<1>1. jobs \in Seq(JobType) /\ jobs # <<>>
  BY DEF TypeOK, JobStep, JobUp, JobStop, JobFails, JobType
<1>2. Head(jobs) \in JobType /\ Tail(jobs) \in Seq(JobType)
  BY <1>1, HeadTailProperties
<1>3. Head(jobs).app \in Apps /\ Head(jobs).kind \in {"up", "stop", "halt"}
  BY <1>2 DEF JobType
<1>4. CASE JobUp
  <2>0. down \in [Apps -> {"no", "halt", "stop", "failed"}]
    BY DEF TypeOK
  <2>1. down' \in [Apps -> {"no", "halt", "stop", "failed"}] /\ running' \in SUBSET Apps
    <3>1. running' \in SUBSET Apps
      BY <1>3, <1>4 DEF TypeOK, JobUp
    <3>2. \/ down' = [down EXCEPT ![Head(jobs).app] = "no"] \/ down' = down
          \/ down' = [down EXCEPT ![Head(jobs).app] = "failed"]
      BY <1>4 DEF JobUp
    <3>3. QED
      BY <2>0, <3>1, <3>2
  <2>2. QED
    BY <1>2, <1>4, <2>1 DEF TypeOK, JobUp, JobType
<1>5. CASE JobStop
  <2>1. down' \in [Apps -> {"no", "halt", "stop", "failed"}] /\ running' \in SUBSET Apps
    BY <1>3, <1>5 DEF TypeOK, JobStop
  <2>2. QED
    BY <1>2, <1>5, <2>1 DEF TypeOK, JobStop, JobType
<1>6. CASE JobFails
  <2>1. down' \in [Apps -> {"no", "halt", "stop", "failed"}] /\ faults' \in 0..MaxFaults
    BY <1>3, <1>6, VolumeGuardAssumption DEF TypeOK, JobFails, Fault
  <2>2. QED
    BY <1>2, <1>6, <2>1 DEF TypeOK, JobFails, JobType
<1>7. QED
  BY <1>4, <1>5, <1>6 DEF JobStep

LEMMA AroundTyped ==
  ASSUME TypeOK, BackendRestart \/ \E v \in Volumes : VolumeChanges(v)
  PROVE  TypeOK'
<1>1. CASE BackendRestart
  <2>1. NoResume \in CallType
    BY DEF NoResume, CallType
  <2>2. resume' \in [Volumes -> [Calls -> CallType]]
    BY <1>1, <2>1 DEF BackendRestart
  <2>3. QED
    BY <1>1, <2>2, VolumeGuardAssumption
       DEF TypeOK, BackendRestart, Fault, machine, NoCheck, Check, CallType
<1>2. ASSUME NEW v \in Volumes, VolumeChanges(v)
      PROVE  TypeOK'
  <2>1. vol' \in [Volumes -> {"ok", "bad", "gone"}]
    BY <1>2 DEF TypeOK, VolumeChanges
  <2>2. events' \in 0..MaxEvents
    BY <1>2, VolumeGuardAssumption DEF TypeOK, VolumeChanges, Event
  <2>3. UNCHANGED <<running, down, dropped, jobs, hold, guard, resume, starting, faults>>
    BY <1>2 DEF VolumeChanges
  <2>4. QED
    BY <2>1, <2>2, <2>3 DEF TypeOK
<1>3. QED
  BY <1>1, <1>2

\* Every variable holds a value the guard, the administrator, the stream and the volumes
\* can give it.
THEOREM TypeCorrect == Spec => []TypeOK
<1>1. Init => TypeOK
  <2>1. SUFFICES ASSUME Init
                 PROVE  TypeOK
    OBVIOUS
  <2>2. NoResume \in CallType
    BY DEF NoResume, CallType
  <2>3. resume \in [Volumes -> [Calls -> CallType]]
    BY <2>1, <2>2 DEF Init
  <2>4. QED
    BY <2>1, <2>3, VolumeGuardAssumption DEF Init, TypeOK, NoHold, NoCheck, Check, CallType
<1>2. ASSUME TypeOK, [Next]_vars
      PROVE  TypeOK'
  <2>1. CASE GuardStep \/ GuardFails
    BY <1>2, <2>1, GuardTyped, GuardRowTyped, GuardStopTyped DEF GuardStep
  <2>2. CASE \E v \in Volumes : VolumeChanges(v) \/ \E c \in Calls : ResumeStep(v, c)
    BY <1>2, <2>2, ResumeTyped, AroundTyped
  <2>3. CASE \E a \in Apps : AdminStep(a)
    BY <1>2, <2>3, AdminTyped
  <2>4. CASE JobStep \/ BackendRestart
    BY <1>2, <2>4, JobTyped, AroundTyped
  <2>5. CASE UNCHANGED vars
    BY <1>2, <2>5 DEF TypeOK, vars
  <2>6. QED
    BY <1>2, <2>1, <2>2, <2>3, <2>4, <2>5 DEF Next
<1>3. QED
  BY <1>1, <1>2, PTL DEF Spec

----------------------------------------------------------------------------
(* The invariant *)

\* What keeps the lists of a volume from being lost: a call of Resume about to delete a
\* hold has read its list, or is late.
CallOrderly(v, c) ==
    /\ resume[v][c].at = "idle" => resume[v][c].apps = {}
    /\ \A a \in resume[v][c].apps : v \in Uses[a]
    /\ resume[v][c].at = "delete" /\ ~resume[v][c].late =>
            vol[v] = "gone" \/ (Held(v) /\ hold[v].stopped = resume[v][c].apps)

OrderlyAt(v) ==
    /\ ~Held(v) => hold[v].stopped = {}
    /\ \A a \in hold[v].stopped : v \in Uses[a]
    /\ v \in guard.create => ~Held(v)
    /\ v \in guard.gone \cup guard.release => vol[v] = "gone"

Orderly ==
    /\ \A v \in Volumes : OrderlyAt(v)
    /\ \A v \in Volumes, c \in Calls : CallOrderly(v, c)
    /\ guard.at # "create" => guard.stops = {}
    /\ \A a \in Apps : down[a] = "halt" => a \notin running

\* What the property exempts: a failed call, a restart, a volume removed from fstab, a
\* Resume that deleted a hold it had not read.
Excused(a) == faults # 0 \/ a \in dropped \/ \E v \in Uses[a] : vol[v] = "gone"

\* The stream leaves the app stopped by the guard, now or when it is through.
HaltAhead(a) ==
    \E i \in DOMAIN jobs : /\ jobs[i] = Job("halt", a)
                           /\ \A j \in DOMAIN jobs : j > i => jobs[j] # Job("up", a)
HaltDone(a) == down[a] = "halt" /\ \A j \in DOMAIN jobs : jobs[j] # Job("up", a)

ToHalt(a) == HaltAhead(a) \/ HaltDone(a)

\* A call that is late is not counted: the list it read is another's to carry.
InHand(v, c, a) == ~resume[v][c].late /\ a \in resume[v][c].apps
Listed(a) == \E v \in Volumes : a \in hold[v].stopped \/ \E c \in Calls : InHand(v, c, a)

\* The list of a hold that no call has read.
ListedFirmly(a) ==
    \E v \in Volumes : /\ a \in hold[v].stopped /\ hold[v].status = "blocked"
                       /\ \A c \in Calls : resume[v][c].at = "delete" => resume[v][c].late

Kept(a) ==
    Excused(a) \/ /\ ToHalt(a) => Listed(a)
                  /\ a \in guard.stops => ListedFirmly(a)

IInv == TypeOK /\ Orderly /\ \A a \in Apps : Kept(a)

\* Nothing makes up for a fault or brings a volume back into fstab.
LEMMA ExcusedStays ==
  ASSUME TypeOK, [Next]_vars
  PROVE  \A a \in Apps : Excused(a) => Excused(a)'
<1>1. faults \in Nat /\ Uses \in [Apps -> SUBSET Volumes] /\ vol \in [Volumes -> {"ok", "bad", "gone"}]
  BY VolumeGuardAssumption DEF TypeOK
<1>2. Fault => faults' # 0
  BY <1>1 DEF Fault
<1>3. \A kind, a : Publish(kind, a) => faults' = faults \/ faults' # 0
  BY <1>2 DEF Publish
<1>4. SUFFICES /\ faults' = faults \/ faults' # 0
               /\ \A v \in Volumes : vol[v] = "gone" => vol'[v] = "gone"
               /\ dropped \subseteq dropped'
  BY <1>1 DEF Excused
<1>5. CASE GuardStep \/ GuardFails
  <2>1. CASE GuardFetch \/ GuardPlan \/ GuardRelease \/ GuardCreated \/ GuardEnd
    BY <2>1 DEF GuardFetch, GuardPlan, GuardRelease, GuardCreated, GuardEnd, machine
  <2>2. CASE GuardList
    BY <1>2, <2>2 DEF GuardList, machine
  <2>3. CASE \E v \in Volumes : GuardCreate(v) \/ GuardBack(v) \/ GuardReblock(v)
    BY <2>3 DEF GuardCreate, GuardBack, GuardReblock, machine
  <2>4. CASE \E a \in Apps : GuardStop(a)
    BY <1>3, <2>4 DEF GuardStop, machine
  <2>5. CASE GuardFails
    BY <1>2, <2>5 DEF GuardFails, machine
  <2>6. QED
    BY <1>5, <2>1, <2>2, <2>3, <2>4, <2>5 DEF GuardStep
<1>6. CASE \E v \in Volumes : \E c \in Calls : ResumeStep(v, c)
  BY <1>2, <1>3, <1>6
     DEF ResumeStep, ResumeRead, ResumeDelete, ResumeFails, ResumeEnd, ResumeStart, machine
<1>7. CASE \E v \in Volumes : VolumeChanges(v)
  BY <1>1, <1>7 DEF VolumeChanges
<1>8. CASE \E a \in Apps : AdminStep(a)
  BY <1>3, <1>8 DEF AdminStep, StartCheck, StartPublish, AdminStop, machine
<1>9. CASE JobStep
  BY <1>2, <1>9 DEF JobStep, JobUp, JobStop, JobFails
<1>10. CASE BackendRestart
  BY <1>2, <1>10 DEF BackendRestart, machine
<1>11. CASE UNCHANGED vars
  BY <1>11 DEF vars
<1>12. QED
  BY <1>5, <1>6, <1>7, <1>8, <1>9, <1>10, <1>11 DEF Next

\* A job added to the stream: only a stop of the guard leaves its app to be stopped, and
\* after a start it is not.
LEMMA Queued ==
  ASSUME TypeOK, NEW kind \in {"up", "stop", "halt"}, NEW b \in Apps, NEW a \in Apps,
         jobs' = Append(jobs, Job(kind, b)), down' = down
  PROVE  /\ ToHalt(a)' => ToHalt(a) \/ (kind = "halt" /\ a = b)
         /\ kind = "up" /\ a = b => ~(ToHalt(a)')
<1>1. jobs \in Seq(JobType) /\ Len(jobs) \in Nat /\ DOMAIN jobs = 1..Len(jobs)
  BY LenProperties DEF TypeOK, JobType
<1>2. Job(kind, b) \in JobType
  BY DEF Job, JobType
<1>3. /\ DOMAIN jobs' = 1..Len(jobs) + 1 /\ jobs'[Len(jobs) + 1] = Job(kind, b)
      /\ \A i \in DOMAIN jobs : jobs'[i] = jobs[i]
  BY <1>1, <1>2, AppendProperties, LenProperties
<1>4. PICK n \in Nat : n = Len(jobs) + 1
  BY <1>1
<1>5. /\ n \in DOMAIN jobs' /\ jobs'[n] = Job(kind, b)
      /\ \A i \in DOMAIN jobs' : i = n \/ (i \in DOMAIN jobs /\ i < n)
      /\ \A i \in DOMAIN jobs : i \in DOMAIN jobs' /\ jobs'[i] = jobs[i] /\ i < n
      /\ \A i \in DOMAIN jobs' : i \in Nat
  BY <1>1, <1>3, <1>4
<1>6. ASSUME HaltAhead(a)'
      PROVE  HaltAhead(a) \/ (kind = "halt" /\ a = b)
  <2>1. PICK i \in DOMAIN jobs' :
           jobs'[i] = Job("halt", a) /\ \A j \in DOMAIN jobs' : j > i => jobs'[j] # Job("up", a)
    BY <1>6 DEF HaltAhead
  <2>2. CASE i = n
    BY <1>5, <2>1, <2>2 DEF Job
  <2>3. CASE i \in DOMAIN jobs
    BY <1>5, <2>1, <2>3 DEF HaltAhead
  <2>4. QED
    BY <1>5, <2>2, <2>3
<1>7. HaltDone(a)' => HaltDone(a)
  BY <1>5 DEF HaltDone
<1>8. ASSUME kind = "up", a = b
      PROVE  ~(HaltAhead(a)') /\ ~(HaltDone(a)')
  <2>1. ~(HaltDone(a)')
    BY <1>5, <1>8 DEF HaltDone
  <2>2. ASSUME NEW i \in DOMAIN jobs', jobs'[i] = Job("halt", a)
        PROVE  n > i
    BY <1>5, <1>8, <2>2 DEF Job
  <2>3. QED
    BY <1>5, <1>8, <2>1, <2>2 DEF HaltAhead
<1>9. QED
  BY <1>6, <1>7, <1>8 DEF ToHalt

\* A job taken from the stream stops no app that was not to be stopped.
LEMMA Taken ==
  ASSUME TypeOK, Orderly, JobUp \/ JobStop, NEW a \in Apps
  PROVE  ToHalt(a)' => ToHalt(a)
<1>1. jobs \in Seq(JobType) /\ jobs # <<>> /\ jobs' = Tail(jobs)
  BY DEF TypeOK, JobUp, JobStop, JobType
<1>2. Len(jobs) \in Nat /\ DOMAIN jobs = 1..Len(jobs) /\ Len(jobs) # 0
  BY <1>1, LenProperties, EmptySeq
<1>3. /\ DOMAIN jobs' = 1..Len(jobs) - 1 /\ Head(jobs) = jobs[1] /\ Head(jobs) \in JobType
      /\ \A i \in 1..Len(jobs) - 1 : jobs'[i] = jobs[i + 1]
  BY <1>1, <1>2, HeadTailProperties, LenProperties
<1>4. 1 \in DOMAIN jobs /\ \A j \in DOMAIN jobs : j = 1 \/ (j - 1 \in DOMAIN jobs' /\ jobs[j] = jobs'[j - 1])
  BY <1>2, <1>3
<1>5. HaltAhead(a)' => HaltAhead(a)
  <2>1. SUFFICES ASSUME HaltAhead(a)'
                 PROVE  HaltAhead(a)
    OBVIOUS
  <2>2. PICK i \in DOMAIN jobs' :
           jobs'[i] = Job("halt", a) /\ \A j \in DOMAIN jobs' : j > i => jobs'[j] # Job("up", a)
    BY <2>1 DEF HaltAhead
  <2>3. i + 1 \in DOMAIN jobs /\ jobs[i + 1] = Job("halt", a)
    BY <1>2, <1>3, <2>2
  <2>4. ASSUME NEW j \in DOMAIN jobs, j > i + 1
        PROVE  jobs[j] # Job("up", a)
    <3>1. j - 1 \in DOMAIN jobs' /\ j - 1 > i /\ jobs[j] = jobs'[j - 1]
      BY <1>2, <1>3, <1>4, <2>4
    <3>2. QED
      BY <2>2, <3>1
  <2>5. QED
    BY <2>3, <2>4 DEF HaltAhead
<1>6. ASSUME HaltDone(a)', jobs[1] # Job("up", a)
      PROVE  \A j \in DOMAIN jobs : jobs[j] # Job("up", a)
  BY <1>4, <1>6 DEF HaltDone
<1>7. down \in [Apps -> {"no", "halt", "stop", "failed"}] /\ jobs[1].app \in Apps
  BY <1>3 DEF TypeOK, JobType
<1>8. jobs[1] = Job(jobs[1].kind, jobs[1].app)
  BY <1>3 DEF JobType, Job
<1>9. HaltDone(a)' => ToHalt(a)
  <2>1. SUFFICES ASSUME HaltDone(a)'
                 PROVE  ToHalt(a)
    OBVIOUS
  <2>2. CASE JobUp
    <3>1. jobs[1].app # a
      BY <1>3, <1>7, <2>1, <2>2 DEF JobUp, HaltDone, Orderly, OrderlyAt
    <3>2. down'[a] = down[a]
      BY <1>3, <1>7, <2>2, <3>1 DEF JobUp
    <3>3. jobs[1] # Job("up", a)
      BY <3>1 DEF Job
    <3>4. QED
      BY <1>6, <2>1, <3>2, <3>3 DEF ToHalt, HaltDone
  <2>3. CASE JobStop
    <3>1. jobs[1].kind # "up"
      BY <1>3, <2>3 DEF JobStop
    <3>2. jobs[1] # Job("up", a)
      BY <3>1 DEF Job
    <3>3. \A j \in DOMAIN jobs : jobs[j] # Job("up", a)
      BY <1>6, <2>1, <3>2
    <3>4. CASE down'[a] = down[a]
      BY <2>1, <3>3, <3>4 DEF ToHalt, HaltDone
    <3>5. CASE jobs[1].app = a /\ jobs[1].kind = "halt"
      <4>1. jobs[1] = Job("halt", a)
        BY <1>8, <3>5
      <4>2. HaltAhead(a)
        BY <1>4, <3>3, <4>1 DEF HaltAhead
      <4>3. QED
        BY <4>2 DEF ToHalt
    <3>6. down'[a] = down[a] \/ (jobs[1].app = a /\ jobs[1].kind = "halt")
      BY <1>3, <1>7, <2>1, <2>3 DEF JobStop, HaltDone
    <3>7. QED
      BY <3>4, <3>5, <3>6
  <2>4. QED
    BY <2>2, <2>3
<1>10. QED
  BY <1>5, <1>9 DEF ToHalt

\* A step with an excuse owes nothing.
Stay == \A a \in Apps : Excused(a) => Excused(a)'

\* Lists as they were, and no app more to be stopped.
LEMMA QuietKeeps ==
  ASSUME Stay, NEW a \in Apps, Kept(a), UNCHANGED <<hold, resume>>,
         ToHalt(a)' => ToHalt(a), guard'.stops \subseteq guard.stops
  PROVE  Kept(a)'
BY DEF Stay, Kept, Listed, InHand, ListedFirmly

\* Holds and calls as they were, and nothing added to the plan of the check.
LEMMA OrderlyStays ==
  ASSUME Orderly, UNCHANGED <<hold, resume>>,
         \A v \in Volumes : vol[v] = "gone" => vol'[v] = "gone",
         guard'.create \subseteq guard.create,
         guard'.gone \cup guard'.release \subseteq guard.gone \cup guard.release,
         guard'.at # "create" => guard'.stops = {},
         \A a \in Apps : down'[a] = "halt" => a \notin running'
  PROVE  Orderly'
<1>1. ASSUME NEW v \in Volumes
      PROVE  OrderlyAt(v)'
  BY DEF Orderly, OrderlyAt, Held
<1>2. ASSUME NEW v \in Volumes, NEW c \in Calls
      PROVE  CallOrderly(v, c)'
  <2>1. CallOrderly(v, c)
    BY DEF Orderly
  <2>2. QED
    BY <2>1 DEF CallOrderly, Held
<1>3. QED
  BY <1>1, <1>2 DEF Orderly

LEMMA SameStream ==
  ASSUME UNCHANGED <<jobs, down>>, NEW a
  PROVE  ToHalt(a)' <=> ToHalt(a)
BY DEF ToHalt, HaltAhead, HaltDone

LEMMA GuardQuietKeeps ==
  ASSUME IInv, Stay, GuardFetch \/ GuardPlan \/ GuardList \/ GuardCreated \/ GuardEnd
  PROVE  Orderly' /\ \A a \in Apps : Kept(a)'
<1>1. UNCHANGED <<hold, resume, jobs, down, vol, running>>
  BY DEF GuardFetch, GuardPlan, GuardList, GuardCreated, GuardEnd, machine
<1>2. /\ guard'.stops \subseteq guard.stops
      /\ guard'.at # "create" => guard'.stops = {}
      /\ guard'.create \subseteq guard.create \/ \A v \in guard'.create : ~Held(v)
      /\ \A v \in guard'.gone \cup guard'.release : vol[v] = "gone"
  <2>1. guard \in Check
    BY DEF IInv, TypeOK
  <2>2. CASE GuardFetch
    BY <2>1, <2>2 DEF GuardFetch, IInv, Orderly, OrderlyAt, Check
  <2>3. CASE GuardPlan
    BY <2>1, <2>3 DEF GuardPlan, PlanHolds, IInv, Orderly, OrderlyAt, Check, NoCheck
  <2>4. CASE GuardList
    BY <2>1, <2>4 DEF GuardList, IInv, Orderly, OrderlyAt, Check
  <2>5. CASE GuardCreated
    BY <2>1, <2>5 DEF GuardCreated, IInv, Orderly, OrderlyAt, Check
  <2>6. CASE GuardEnd
    BY <2>1, <2>6 DEF GuardEnd, IInv, Orderly, OrderlyAt, Check, NoCheck
  <2>7. QED
    BY <2>2, <2>3, <2>4, <2>5, <2>6
<1>3. Orderly'
  <2>1. ASSUME NEW v \in Volumes
        PROVE  OrderlyAt(v)'
    BY <1>1, <1>2 DEF IInv, Orderly, OrderlyAt, Held
  <2>2. ASSUME NEW v \in Volumes, NEW c \in Calls
        PROVE  CallOrderly(v, c)'
    BY <1>1 DEF IInv, Orderly, CallOrderly, Held
  <2>3. QED
    BY <1>1, <1>2, <2>1, <2>2 DEF IInv, Orderly
<1>4. ASSUME NEW a \in Apps
      PROVE  Kept(a)'
  BY <1>1, <1>2, SameStream, QuietKeeps DEF IInv
<1>5. QED
  BY <1>3, <1>4

\* A list that is released is of a volume that left fstab.
LEMMA GuardReleaseKeeps ==
  ASSUME IInv, Stay, GuardRelease
  PROVE  Orderly' /\ \A a \in Apps : Kept(a)'
<1>1. guard \in Check /\ hold \in [Volumes -> HoldType]
  BY DEF IInv, TypeOK, HoldType
<1>2. /\ guard'.stops = guard.stops /\ guard'.create = guard.create /\ guard'.gone = guard.gone
      /\ guard'.release = {} /\ guard.at = "release" /\ guard.stops = {}
  BY <1>1 DEF GuardRelease, IInv, Orderly, OrderlyAt, Check
<1>3. UNCHANGED <<jobs, down, vol, running>>
  BY DEF GuardRelease, machine
<1>4. \A v \in Volumes : hold'[v] = IF v \in guard.release THEN NoHold ELSE hold[v]
  BY DEF GuardRelease
<1>0. ASSUME NEW v \in Volumes, NEW c \in Calls
      PROVE  /\ resume'[v][c].at = resume[v][c].at /\ resume'[v][c].apps = resume[v][c].apps
             /\ ~resume'[v][c].late => ~resume[v][c].late
             /\ v \notin guard.release => resume'[v][c] = resume[v][c]
  <2>1. resume[v][c] \in CallType
    BY DEF IInv, TypeOK, CallType
  <2>2. resume'[v][c] = IF v \in guard.release THEN Overtaken(resume[v][c]) ELSE resume[v][c]
    BY DEF GuardRelease
  <2>3. QED
    BY <2>1, <2>2, OvertakenTyped
<1>5. Orderly'
  <2>1. ASSUME NEW v \in Volumes
        PROVE  OrderlyAt(v)'
    BY <1>2, <1>3, <1>4 DEF IInv, Orderly, OrderlyAt, Held, NoHold
  <2>2. ASSUME NEW v \in Volumes, NEW c \in Calls
        PROVE  CallOrderly(v, c)'
    <3>1. CallOrderly(v, c) /\ OrderlyAt(v)
      BY DEF IInv, Orderly
    <3>2. CASE v \in guard.release
      BY <1>0, <1>3, <3>1, <3>2 DEF CallOrderly, OrderlyAt
    <3>3. CASE v \notin guard.release
      BY <1>0, <1>3, <1>4, <3>1, <3>3 DEF CallOrderly, Held
    <3>4. QED
      BY <3>2, <3>3
  <2>3. QED
    BY <1>2, <1>3, <2>1, <2>2 DEF IInv, Orderly
<1>6. ASSUME NEW a \in Apps
      PROVE  Kept(a)'
  <2>1. CASE Excused(a)
    BY <2>1 DEF Stay, Kept
  <2>2. CASE ~Excused(a)
    <3>1. Listed(a) => Listed(a)'
      <4>1. SUFFICES ASSUME Listed(a)
                     PROVE  Listed(a)'
        OBVIOUS
      <4>2. PICK v \in Volumes : a \in hold[v].stopped \/ \E c \in Calls : InHand(v, c, a)
        BY <4>1 DEF Listed
      <4>3. vol[v] # "gone"
        BY <2>2, <4>2 DEF IInv, Orderly, OrderlyAt, CallOrderly, InHand, Excused
      <4>4. v \notin guard.release
        BY <4>3 DEF IInv, Orderly, OrderlyAt
      <4>5. QED
        BY <1>0, <1>4, <4>2, <4>4 DEF Listed, InHand
    <3>2. ToHalt(a)' => ToHalt(a)
      BY <1>3, SameStream
    <3>3. Kept(a)
      BY DEF IInv
    <3>4. QED
      BY <1>2, <2>2, <3>1, <3>2, <3>3 DEF Kept
  <2>3. QED
    BY <2>1, <2>2
<1>7. QED
  BY <1>5, <1>6

\* A hold is created only where there is none, so that no list is lost and no resume that
\* is about to delete one has read an older.
LEMMA GuardCreateKeeps ==
  ASSUME IInv, Stay, NEW v \in Volumes, GuardCreate(v)
  PROVE  Orderly' /\ \A a \in Apps : Kept(a)'
<1>1. guard \in Check /\ hold \in [Volumes -> HoldType]
  BY DEF IInv, TypeOK, HoldType
<1>2. DEFINE stopped == AppsUnder(guard.apps, v)
<1>3. /\ guard'.stops = stopped /\ guard'.create = guard.create \ {v} /\ guard'.gone = guard.gone
      /\ guard'.release = guard.release /\ guard'.at = "create" /\ v \in guard.create
  BY <1>1 DEF GuardCreate, Check
<1>4. UNCHANGED <<resume, jobs, down, vol, running>>
  BY DEF GuardCreate, machine
<1>5. /\ \A w \in Volumes \ {v} : hold'[w] = hold[w]
      /\ hold'[v] = [status |-> "blocked", stopped |-> stopped]
  BY <1>1 DEF GuardCreate
<1>6. ~Held(v) /\ hold[v].stopped = {}
  BY <1>3 DEF IInv, Orderly, OrderlyAt
<1>7. \A a \in stopped : v \in Uses[a]
  BY DEF AppsUnder
<1>8. \A c \in Calls : resume[v][c].at = "delete" /\ ~resume[v][c].late => vol[v] = "gone"
  BY <1>6 DEF IInv, Orderly, CallOrderly
<1> HIDE DEF stopped
<1>9. Orderly'
  <2>1. OrderlyAt(v)'
    BY <1>3, <1>4, <1>5, <1>6, <1>7 DEF IInv, Orderly, OrderlyAt, Held
  <2>2. ASSUME NEW w \in Volumes \ {v}
        PROVE  OrderlyAt(w)'
    BY <1>3, <1>4, <1>5 DEF IInv, Orderly, OrderlyAt, Held
  <2>3. ASSUME NEW c \in Calls
        PROVE  CallOrderly(v, c)'
    BY <1>4, <1>8 DEF IInv, Orderly, CallOrderly
  <2>4. ASSUME NEW w \in Volumes \ {v}, NEW c \in Calls
        PROVE  CallOrderly(w, c)'
    BY <1>4, <1>5 DEF IInv, Orderly, CallOrderly, Held
  <2>5. QED
    BY <1>3, <1>4, <2>1, <2>2, <2>3, <2>4 DEF IInv, Orderly
<1>10. ASSUME NEW a \in Apps
       PROVE  Kept(a)'
  <2>1. CASE Excused(a)
    BY <2>1 DEF Stay, Kept
  <2>2. CASE ~Excused(a)
    <3>1. Listed(a) => Listed(a)'
      BY <1>4, <1>5, <1>6 DEF Listed, InHand
    <3>2. a \in stopped => ListedFirmly(a)'
      BY <1>4, <1>5, <1>7, <1>8, <2>2 DEF ListedFirmly, Excused
    <3>3. ToHalt(a)' => ToHalt(a)
      BY <1>4, SameStream
    <3>4. Kept(a)
      BY DEF IInv
    <3>5. QED
      BY <1>3, <2>2, <3>1, <3>2, <3>3, <3>4 DEF Kept
  <2>3. QED
    BY <2>1, <2>2
<1>11. QED
  BY <1>9, <1>10

LEMMA GuardStatusKeeps ==
  ASSUME IInv, Stay, NEW v \in Volumes, GuardBack(v) \/ GuardReblock(v)
  PROVE  Orderly' /\ \A a \in Apps : Kept(a)'
<1>1. guard \in Check /\ hold \in [Volumes -> HoldType]
  BY DEF IInv, TypeOK, HoldType
<1>2. /\ guard'.stops = {} /\ guard.stops = {} /\ guard'.create \subseteq guard.create
      /\ guard'.gone \subseteq guard.gone /\ guard'.release \subseteq guard.release
  <2>1. guard.stops = {}
    BY DEF GuardBack, GuardReblock, IInv, Orderly, OrderlyAt
  <2>2. QED
    BY <1>1, <2>1 DEF GuardBack, GuardReblock, SetStatus, NoCheck, Check
<1>3. UNCHANGED <<resume, jobs, down, vol, running>>
  BY DEF GuardBack, GuardReblock, machine
<1>4. /\ \A w \in Volumes : hold'[w].stopped = hold[w].stopped
      /\ \A w \in Volumes : Held(w)' <=> Held(w)
  BY <1>1 DEF GuardBack, GuardReblock, SetStatus, HoldType, Held
<1>5. Orderly'
  <2>1. ASSUME NEW w \in Volumes
        PROVE  OrderlyAt(w)'
    BY <1>2, <1>3, <1>4 DEF IInv, Orderly, OrderlyAt
  <2>2. ASSUME NEW w \in Volumes, NEW c \in Calls
        PROVE  CallOrderly(w, c)'
    BY <1>3, <1>4 DEF IInv, Orderly, CallOrderly
  <2>3. QED
    BY <1>2, <1>3, <2>1, <2>2 DEF IInv, Orderly
<1>6. ASSUME NEW a \in Apps
      PROVE  Kept(a)'
  <2>1. Listed(a)' <=> Listed(a)
    BY <1>3, <1>4 DEF Listed, InHand
  <2>2. QED
    BY <1>2, <1>3, <2>1, SameStream DEF IInv, Kept, Stay
<1>7. QED
  BY <1>5, <1>6

LEMMA GuardStopKeeps ==
  ASSUME IInv, Stay, NEW b \in Apps, GuardStop(b)
  PROVE  Orderly' /\ \A a \in Apps : Kept(a)'
<1>1. guard \in Check
  BY DEF IInv, TypeOK
<1>2. /\ guard'.stops = guard.stops \ {b} /\ b \in guard.stops /\ guard'.create = guard.create
      /\ guard'.gone = guard.gone /\ guard'.release = guard.release
      /\ guard.at = "create" /\ guard'.at = "create"
  BY <1>1 DEF GuardStop, Check
<1>3. UNCHANGED <<hold, resume, down, vol, running>>
  BY DEF GuardStop, machine
<1>4. Orderly'
  BY <1>2, <1>3, OrderlyStays DEF IInv, Orderly
<1>5. ASSUME NEW a \in Apps
      PROVE  Kept(a)'
  <2>1. CASE Excused(a)'
    BY <2>1 DEF Kept
  <2>2. CASE ~(Excused(a)')
    <3>1. jobs' = Append(jobs, Job("halt", b))
      BY <2>2 DEF GuardStop, Publish, Fault, Excused, IInv, TypeOK
    <3>2. ToHalt(a)' => ToHalt(a) \/ a = b
      BY <1>3, <3>1, Queued DEF IInv
    <3>3. Kept(a) /\ ~Excused(a)
      BY <2>2 DEF IInv, Stay
    <3>4. ListedFirmly(a) => Listed(a)
      BY DEF ListedFirmly, Listed
    <3>5. (Listed(a)' <=> Listed(a)) /\ (ListedFirmly(a)' <=> ListedFirmly(a))
      BY <1>3 DEF Listed, InHand, ListedFirmly
    <3>6. QED
      BY <1>2, <2>2, <3>2, <3>3, <3>4, <3>5 DEF Kept
  <2>3. QED
    BY <2>1, <2>2
<1>6. QED
  BY <1>4, <1>5

\* The list is read from a hold that waits for Resume: none of its apps is being stopped
\* for it.
LEMMA ResumeReadKeeps ==
  ASSUME IInv, Stay, NEW v \in Volumes, NEW c \in Calls, ResumeRead(v, c)
  PROVE  Orderly' /\ \A a \in Apps : Kept(a)'
<1>1. resume \in [Volumes -> ResumeType]
  BY DEF IInv, TypeOK, ResumeType, CallType
<1>2. /\ resume'[v][c] = [at |-> "delete", apps |-> hold[v].stopped, late |-> FALSE]
      /\ \A q \in Calls \ {c} : resume'[v][q] = resume[v][q]
      /\ \A w \in Volumes \ {v} : resume'[w] = resume[w]
      /\ resume[v][c].at = "idle" /\ hold[v].status = "back"
  <2>1. PICK call : call = [at |-> "delete", apps |-> hold[v].stopped, late |-> FALSE]
    OBVIOUS
  <2>2. call \in CallType /\ resume' = [resume EXCEPT ![v][c] = call]
    BY <2>1, ReadWrites DEF IInv
  <2>3. /\ resume'[v][c] = call
        /\ \A q \in Calls \ {c} : resume'[v][q] = resume[v][q]
        /\ \A w \in Volumes \ {v} : resume'[w] = resume[w]
    BY <1>1, <2>2, OneCall
  <2>4. resume[v][c].at = "idle" /\ hold[v].status = "back"
    BY DEF ResumeRead
  <2>5. QED
    BY <2>1, <2>3, <2>4
<1>3. UNCHANGED <<hold, guard, jobs, down, vol, running>>
  BY DEF ResumeRead, machine
<1>4. ASSUME NEW w \in Volumes
      PROVE  OrderlyAt(w)'
  BY <1>3 DEF IInv, Orderly, OrderlyAt, Held
<1>5. CallOrderly(v, c)'
  BY <1>2, <1>3 DEF IInv, Orderly, OrderlyAt, CallOrderly, Held
<1>6. ASSUME NEW w \in Volumes, NEW q \in Calls, w # v \/ q # c
      PROVE  CallOrderly(w, q)' /\ resume'[w][q] = resume[w][q]
  <2>1. resume'[w][q] = resume[w][q]
    BY <1>2, <1>6
  <2>2. CallOrderly(w, q)
    BY DEF IInv, Orderly
  <2>3. QED
    BY <1>3, <2>1, <2>2 DEF CallOrderly, Held
<1>7. Orderly'
  BY <1>3, <1>4, <1>5, <1>6 DEF IInv, Orderly
<1>8. ASSUME NEW a \in Apps
      PROVE  Kept(a)'
  <2>1. ~InHand(v, c, a)
    BY <1>2 DEF IInv, Orderly, CallOrderly, InHand
  <2>2. \A w \in Volumes, q \in Calls : InHand(w, q, a) => InHand(w, q, a)'
    BY <1>6, <2>1 DEF InHand
  <2>3. Listed(a) => Listed(a)'
    BY <1>3, <2>2 DEF Listed
  <2>4. ListedFirmly(a) => ListedFirmly(a)'
    <3>1. SUFFICES ASSUME ListedFirmly(a)
                   PROVE  ListedFirmly(a)'
      OBVIOUS
    <3>2. PICK w \in Volumes :
             /\ a \in hold[w].stopped /\ hold[w].status = "blocked"
             /\ \A q \in Calls : resume[w][q].at = "delete" => resume[w][q].late
      BY <3>1 DEF ListedFirmly
    <3>3. w # v
      BY <1>2, <3>2
    <3>4. QED
      BY <1>2, <1>3, <3>2, <3>3 DEF ListedFirmly
  <2>5. QED
    BY <1>3, <2>3, <2>4, SameStream DEF IInv, Kept, Stay
<1>9. QED
  BY <1>7, <1>8

\* What the hold listed the call has read, or the volume left fstab, or the call is late:
\* then what is lost with the hold is in `dropped`.
LEMMA ResumeDeleteKeeps ==
  ASSUME IInv, Stay, NEW v \in Volumes, NEW c \in Calls, ResumeDelete(v, c), Held(v)
  PROVE  Orderly' /\ \A a \in Apps : Kept(a)'
<1>1. resume \in [Volumes -> ResumeType] /\ hold \in [Volumes -> HoldType]
  BY DEF IInv, TypeOK, ResumeType, CallType, HoldType
<1>2. /\ resume'[v][c].at = "start" /\ resume'[v][c].apps = resume[v][c].apps
      /\ resume'[v][c].late = resume[v][c].late
      /\ \A w \in Volumes \ {v} : resume'[w] = resume[w]
      /\ \A q \in Calls \ {c} : resume'[v][q] = Overtaken(resume[v][q])
  BY DeleteWrites DEF IInv
<1>3. /\ UNCHANGED <<guard, jobs, down, vol, running>>
      /\ resume[v][c].at = "delete"
      /\ dropped' = dropped \cup (IF resume[v][c].late THEN hold[v].stopped ELSE {})
  BY DEF ResumeDelete
<1>4. hold'[v] = NoHold /\ \A w \in Volumes \ {v} : hold'[w] = hold[w]
  BY <1>1 DEF ResumeDelete
<1>5. ASSUME NEW q \in Calls \ {c}
      PROVE  /\ resume'[v][q].at = resume[v][q].at /\ resume'[v][q].apps = resume[v][q].apps
             /\ ~resume'[v][q].late => ~resume[v][q].late
             /\ resume'[v][q].at = "delete" => resume'[v][q].late
             /\ resume[v][q].at # "delete" => resume'[v][q] = resume[v][q]
  <2>1. resume[v][q] \in CallType
    BY <1>1 DEF ResumeType
  <2>2. resume[v][q].at # "delete" => Overtaken(resume[v][q]) = resume[v][q]
    BY DEF Overtaken
  <2>3. QED
    BY <1>2, <2>1, <2>2, OvertakenTyped
<1>6. ASSUME NEW w \in Volumes
      PROVE  OrderlyAt(w)'
  BY <1>3, <1>4 DEF IInv, Orderly, OrderlyAt, Held, NoHold
<1>7. ASSUME NEW w \in Volumes, NEW q \in Calls
      PROVE  CallOrderly(w, q)'
  <2>1. CallOrderly(w, q)
    BY DEF IInv, Orderly
  <2>2. CASE w # v
    BY <1>2, <1>3, <1>4, <2>1, <2>2 DEF CallOrderly, Held
  <2>3. CASE w = v /\ q # c
    BY <1>5, <2>1, <2>3 DEF CallOrderly
  <2>4. CASE w = v /\ q = c
    BY <1>2, <1>3, <2>1, <2>4 DEF CallOrderly
  <2>5. QED
    BY <2>2, <2>3, <2>4
<1>8. Orderly'
  BY <1>3, <1>6, <1>7 DEF IInv, Orderly
<1>9. ASSUME NEW a \in Apps, ~(Excused(a)')
      PROVE  (Listed(a) => Listed(a)') /\ (ListedFirmly(a) => ListedFirmly(a)')
  <2>1. ~Excused(a) /\ a \notin dropped'
    BY <1>9 DEF Stay, Excused
  <2>2. CallOrderly(v, c) /\ OrderlyAt(v) /\ resume[v][c] \in CallType
    BY <1>1 DEF IInv, Orderly, ResumeType
  <2>3. a \in hold[v].stopped => ~resume[v][c].late
    BY <1>3, <2>1
  <2>4. a \in hold[v].stopped => vol[v] # "gone"
    BY <2>1, <2>2 DEF OrderlyAt, Excused
  <2>5. a \in hold[v].stopped => InHand(v, c, a)
    BY <1>3, <2>2, <2>3, <2>4 DEF CallOrderly, InHand
  <2>6. InHand(v, c, a) => InHand(v, c, a)'
    BY <1>2 DEF InHand
  <2>7. ASSUME NEW q \in Calls \ {c}, InHand(v, q, a)
        PROVE  Listed(a)'
    <3>1. CallOrderly(v, q) /\ ~resume[v][q].late /\ a \in resume[v][q].apps
      BY <2>7 DEF IInv, Orderly, InHand
    <3>2. CASE resume[v][q].at # "delete"
      BY <1>5, <3>1, <3>2 DEF Listed, InHand
    <3>3. CASE resume[v][q].at = "delete"
      <4>1. vol[v] # "gone"
        BY <2>1, <3>1 DEF CallOrderly, Excused
      <4>2. a \in hold[v].stopped
        BY <3>1, <3>3, <4>1 DEF CallOrderly
      <4>3. QED
        BY <2>5, <2>6, <4>2 DEF Listed
    <3>4. QED
      BY <3>2, <3>3
  <2>8. Listed(a) => Listed(a)'
    <3>1. SUFFICES ASSUME Listed(a)
                   PROVE  Listed(a)'
      OBVIOUS
    <3>2. PICK w \in Volumes : a \in hold[w].stopped \/ \E q \in Calls : InHand(w, q, a)
      BY <3>1 DEF Listed
    <3>3. CASE w # v
      BY <1>2, <1>4, <3>2, <3>3 DEF Listed, InHand
    <3>4. CASE w = v /\ a \in hold[v].stopped
      BY <2>5, <2>6, <3>4 DEF Listed
    <3>5. CASE w = v /\ \E q \in Calls : InHand(v, q, a)
      BY <2>6, <2>7, <3>5 DEF Listed
    <3>6. QED
      BY <3>2, <3>3, <3>4, <3>5
  <2>9. ListedFirmly(a) => ListedFirmly(a)'
    <3>1. SUFFICES ASSUME ListedFirmly(a)
                   PROVE  ListedFirmly(a)'
      OBVIOUS
    <3>2. PICK w \in Volumes :
             /\ a \in hold[w].stopped /\ hold[w].status = "blocked"
             /\ \A q \in Calls : resume[w][q].at = "delete" => resume[w][q].late
      BY <3>1 DEF ListedFirmly
    <3>3. w # v
      BY <1>3, <2>3, <3>2
    <3>4. QED
      BY <1>2, <1>4, <3>2, <3>3 DEF ListedFirmly
  <2>10. QED
    BY <2>8, <2>9
<1>10. ASSUME NEW a \in Apps
       PROVE  Kept(a)'
  <2>1. CASE Excused(a)'
    BY <2>1 DEF Kept
  <2>2. CASE ~(Excused(a)')
    <3>1. Kept(a) /\ ~Excused(a)
      BY <2>2 DEF IInv, Stay
    <3>2. QED
      BY <1>3, <1>9, <2>2, <3>1, SameStream DEF Kept
  <2>3. QED
    BY <2>1, <2>2
<1>11. QED
  BY <1>8, <1>10

\* A call that ends has nothing in hand, or is late, or its volume left fstab, or the
\* database failed it.
LEMMA ResumeEndKeeps ==
  ASSUME IInv, Stay, NEW v \in Volumes, NEW c \in Calls,
         ResumeEnd(v, c) \/ ResumeFails(v, c) \/ (ResumeDelete(v, c) /\ ~Held(v))
  PROVE  Orderly' /\ \A a \in Apps : Kept(a)'
<1>1. resume \in [Volumes -> ResumeType]
  BY DEF IInv, TypeOK, ResumeType, CallType
<1>2. /\ resume'[v][c] = NoResume
      /\ \A q \in Calls \ {c} : resume'[v][q] = resume[v][q]
      /\ \A w \in Volumes \ {v} : resume'[w] = resume[w]
  BY <1>1, EndWrites, OneCall DEF IInv
<1>3. UNCHANGED <<hold, guard, jobs, down, vol, running>>
  BY DEF ResumeEnd, ResumeFails, ResumeDelete, machine
<1>4. ASSUME NEW w \in Volumes
      PROVE  OrderlyAt(w)'
  BY <1>3 DEF IInv, Orderly, OrderlyAt, Held
<1>5. CallOrderly(v, c)'
  BY <1>2 DEF CallOrderly, NoResume
<1>6. ASSUME NEW w \in Volumes, NEW q \in Calls, w # v \/ q # c
      PROVE  CallOrderly(w, q)' /\ resume'[w][q] = resume[w][q]
  <2>1. resume'[w][q] = resume[w][q]
    BY <1>2, <1>6
  <2>2. CallOrderly(w, q)
    BY DEF IInv, Orderly
  <2>3. QED
    BY <1>3, <2>1, <2>2 DEF CallOrderly, Held
<1>7. Orderly'
  BY <1>3, <1>4, <1>5, <1>6 DEF IInv, Orderly
<1>8. ASSUME NEW a \in Apps, ~(Excused(a)')
      PROVE  Kept(a)'
  <2>1. ~Excused(a) /\ Kept(a) /\ CallOrderly(v, c)
    BY <1>8 DEF Stay, IInv, Orderly
  <2>2. ~InHand(v, c, a)
    <3>1. CASE ResumeEnd(v, c)
      BY <3>1 DEF ResumeEnd, InHand
    <3>2. CASE ResumeFails(v, c)
      BY <1>8, <3>2 DEF ResumeFails, Fault, Excused, IInv, TypeOK
    <3>3. CASE ResumeDelete(v, c) /\ ~Held(v)
      BY <2>1, <3>3 DEF ResumeDelete, CallOrderly, InHand, Excused
    <3>4. QED
      BY <3>1, <3>2, <3>3
  <2>3. \A w \in Volumes, q \in Calls : InHand(w, q, a) => InHand(w, q, a)'
    BY <1>6, <2>2 DEF InHand
  <2>4. Listed(a) => Listed(a)'
    BY <1>3, <2>3 DEF Listed
  <2>5. \A w \in Volumes, q \in Calls :
            resume'[w][q].at = "delete" => resume'[w][q] = resume[w][q]
    BY <1>2, <1>6 DEF NoResume
  <2>6. ListedFirmly(a) => ListedFirmly(a)'
    BY <1>3, <2>5 DEF ListedFirmly
  <2>7. QED
    BY <1>3, <2>1, <2>4, <2>6, SameStream DEF Kept
<1>9. QED
  BY <1>7, <1>8 DEF Kept

\* A start published comes after every stop in the stream.
LEMMA UpPublished ==
  ASSUME IInv, NEW b \in Apps, Publish("up", b), down' = down, NEW a \in Apps, ~(Excused(a)')
  PROVE  ToHalt(a)' => ToHalt(a) /\ a # b
<1>1. jobs' = Append(jobs, Job("up", b))
  BY DEF Publish, Fault, Excused, IInv, TypeOK
<1>2. QED
  BY <1>1, Queued DEF IInv

LEMMA ResumeStartKeeps ==
  ASSUME IInv, Stay, NEW v \in Volumes, NEW c \in Calls, NEW b \in Apps, ResumeStart(v, c, b)
  PROVE  Orderly' /\ \A a \in Apps : Kept(a)'
<1>1. resume \in [Volumes -> ResumeType]
  BY DEF IInv, TypeOK, ResumeType, CallType
<1>2. PICK call \in CallType :
        /\ resume' = [resume EXCEPT ![v][c] = call]
        /\ call.at = resume[v][c].at /\ call.late = resume[v][c].late
        /\ call.apps = resume[v][c].apps \ {b}
  BY StartWrites DEF IInv
<1>3. /\ resume'[v][c] = call
      /\ \A q \in Calls \ {c} : resume'[v][q] = resume[v][q]
      /\ \A w \in Volumes \ {v} : resume'[w] = resume[w]
  <2>1. call \in CallType /\ resume' = [resume EXCEPT ![v][c] = call]
    BY <1>2
  <2>2. QED
    BY <1>1, <2>1, OneCall, Zenon
<1>4. UNCHANGED <<hold, guard, down, vol, running>> /\ resume[v][c].at = "start"
  BY DEF ResumeStart, machine
<1>5. ASSUME NEW w \in Volumes
      PROVE  OrderlyAt(w)'
  BY <1>4 DEF IInv, Orderly, OrderlyAt, Held
<1>6. CallOrderly(v, c)'
  BY <1>2, <1>3, <1>4 DEF IInv, Orderly, CallOrderly
<1>7. ASSUME NEW w \in Volumes, NEW q \in Calls, w # v \/ q # c
      PROVE  CallOrderly(w, q)' /\ resume'[w][q] = resume[w][q]
  <2>1. resume'[w][q] = resume[w][q]
    BY <1>3, <1>7
  <2>2. CallOrderly(w, q)
    BY DEF IInv, Orderly
  <2>3. QED
    BY <1>4, <2>1, <2>2 DEF CallOrderly, Held
<1>8. Orderly'
  BY <1>4, <1>5, <1>6, <1>7 DEF IInv, Orderly
<1>9. ASSUME NEW a \in Apps, ~(Excused(a)')
      PROVE  Kept(a)'
  <2>1. ToHalt(a)' => ToHalt(a) /\ a # b
    BY <1>4, <1>9, UpPublished DEF ResumeStart
  <2>2. a # b => \A w \in Volumes, q \in Calls : InHand(w, q, a) => InHand(w, q, a)'
    BY <1>2, <1>3, <1>7 DEF InHand
  <2>3. a # b => (Listed(a) => Listed(a)')
    BY <1>4, <2>2 DEF Listed
  <2>4. \A w \in Volumes, q \in Calls :
            resume'[w][q].at = "delete" => resume'[w][q] = resume[w][q]
    BY <1>2, <1>3, <1>4, <1>7
  <2>5. ListedFirmly(a) => ListedFirmly(a)'
    BY <1>4, <2>4 DEF ListedFirmly
  <2>6. Kept(a) /\ ~Excused(a)
    BY <1>9 DEF IInv, Stay
  <2>7. QED
    BY <1>4, <2>1, <2>3, <2>5, <2>6 DEF Kept
<1>10. QED
  BY <1>8, <1>9 DEF Kept

LEMMA AdminKeeps ==
  ASSUME IInv, Stay, NEW b \in Apps, AdminStep(b)
  PROVE  Orderly' /\ \A a \in Apps : Kept(a)'
<1>1. UNCHANGED <<hold, resume, guard, down, vol, running>>
  BY DEF AdminStep, StartCheck, StartPublish, AdminStop, machine
<1>2. Orderly'
  BY <1>1, OrderlyStays DEF IInv, Orderly
<1>3. ASSUME NEW a \in Apps, ~(Excused(a)')
      PROVE  Kept(a)'
  <2>1. CASE StartCheck(b)
    BY <1>1, <2>1, SameStream, QuietKeeps DEF StartCheck, IInv
  <2>2. CASE StartPublish(b)
    <3>1. ToHalt(a)' => ToHalt(a)
      BY <1>1, <1>3, <2>2, UpPublished DEF StartPublish
    <3>2. QED
      BY <1>1, <3>1, QuietKeeps DEF IInv
  <2>3. CASE AdminStop(b)
    <3>1. ToHalt(a)' => ToHalt(a)
      BY <1>1, <2>3, Queued DEF AdminStop, IInv
    <3>2. QED
      BY <1>1, <3>1, QuietKeeps DEF IInv
  <2>4. QED
    BY <2>1, <2>2, <2>3 DEF AdminStep
<1>4. QED
  BY <1>2, <1>3 DEF Kept

LEMMA JobKeeps ==
  ASSUME IInv, Stay, JobStep
  PROVE  Orderly' /\ \A a \in Apps : Kept(a)'
<1>1. UNCHANGED <<hold, resume, guard, vol>>
  BY DEF JobStep, JobUp, JobStop, JobFails
<1>2. \A a \in Apps : down'[a] = "halt" => a \notin running'
  <2>1. down \in [Apps -> {"no", "halt", "stop", "failed"}]
    BY DEF IInv, TypeOK
  <2>2. \A a \in Apps : down[a] = "halt" => a \notin running
    BY DEF IInv, Orderly
  <2>3. CASE JobUp
    BY <2>1, <2>2, <2>3 DEF JobUp
  <2>4. CASE JobStop
    BY <2>1, <2>2, <2>4 DEF JobStop
  <2>5. CASE JobFails
    BY <2>1, <2>2, <2>5 DEF JobFails
  <2>6. QED
    BY <2>3, <2>4, <2>5 DEF JobStep
<1>3. Orderly'
  BY <1>1, <1>2, OrderlyStays DEF IInv, Orderly
<1>4. ASSUME NEW a \in Apps
      PROVE  Kept(a)'
  <2>1. CASE JobFails
    BY <2>1 DEF JobFails, Fault, Kept, Excused, IInv, TypeOK
  <2>2. CASE JobUp \/ JobStop
    <3>1. ToHalt(a)' => ToHalt(a)
      BY <2>2, Taken DEF IInv
    <3>2. QED
      BY <1>1, <3>1, QuietKeeps DEF IInv
  <2>3. QED
    BY <2>1, <2>2 DEF JobStep
<1>5. QED
  BY <1>3, <1>4

LEMMA AroundKeeps ==
  ASSUME IInv, Stay, BackendRestart \/ GuardFails \/ \E v \in Volumes : VolumeChanges(v)
  PROVE  Orderly' /\ \A a \in Apps : Kept(a)'
<1>1. CASE BackendRestart
  <2>1. UNCHANGED <<hold, jobs, down, vol, running>> /\ guard' = NoCheck /\ faults' # 0
    BY <1>1 DEF BackendRestart, machine, Fault, IInv, TypeOK
  <2>2. \A v \in Volumes, c \in Calls : resume'[v][c] = NoResume
    BY <1>1 DEF BackendRestart
  <2>3. ASSUME NEW v \in Volumes
        PROVE  OrderlyAt(v)' /\ \A c \in Calls : CallOrderly(v, c)'
    BY <2>1, <2>2 DEF IInv, Orderly, OrderlyAt, CallOrderly, Held, NoResume, NoCheck
  <2>4. Orderly'
    BY <2>1, <2>3 DEF IInv, Orderly, NoCheck
  <2>5. QED
    BY <2>1, <2>4 DEF Kept, Excused
<1>2. ASSUME NEW v \in Volumes, VolumeChanges(v)
      PROVE  Orderly' /\ \A a \in Apps : Kept(a)'
  <2>1. UNCHANGED <<hold, resume, guard, jobs, down, running>>
    BY <1>2 DEF VolumeChanges
  <2>2. \A w \in Volumes : vol[w] = "gone" => vol'[w] = "gone"
    BY <1>2 DEF VolumeChanges, IInv, TypeOK
  <2>3. Orderly'
    BY <2>1, <2>2, OrderlyStays DEF IInv, Orderly
  <2>4. QED
    BY <2>1, <2>3, SameStream, QuietKeeps DEF IInv
<1>3. CASE GuardFails
  <2>1. UNCHANGED <<hold, resume, jobs, down, vol, running>> /\ guard' = NoCheck /\ faults' # 0
    BY <1>3 DEF GuardFails, machine, Fault, IInv, TypeOK
  <2>2. Orderly'
    BY <2>1, OrderlyStays DEF IInv, Orderly, NoCheck
  <2>3. QED
    BY <2>1, <2>2 DEF Kept, Excused
<1>4. QED
  BY <1>1, <1>2, <1>3

LEMMA Invariance == Spec => []IInv
<1>1. Init => Orderly /\ \A a \in Apps : Kept(a)
  <2>1. SUFFICES ASSUME Init
                 PROVE  Orderly /\ \A a \in Apps : Kept(a)
    OBVIOUS
  <2>2. \A v \in Volumes : OrderlyAt(v) /\ \A c \in Calls : CallOrderly(v, c)
    BY <2>1 DEF Init, OrderlyAt, CallOrderly, Held, NoHold, NoResume, NoCheck
  <2>3. Orderly
    BY <2>1, <2>2 DEF Init, Orderly, NoCheck
  <2>4. \A a \in Apps : ~ToHalt(a)
    BY <2>1, EmptySeq DEF Init, ToHalt, HaltAhead, HaltDone
  <2>5. guard.stops = {}
    BY <2>1 DEF Init, NoCheck
  <2>6. QED
    BY <2>3, <2>4, <2>5 DEF Kept
<1>2. ASSUME TypeOK, IInv, TypeOK', [Next]_vars
      PROVE  IInv'
  <2>1. Stay
    BY <1>2, ExcusedStays DEF Stay
  <2>2. SUFFICES Orderly' /\ \A a \in Apps : Kept(a)'
    BY <1>2 DEF IInv
  <2>3. CASE GuardStep
    BY <1>2, <2>1, <2>3, GuardQuietKeeps, GuardReleaseKeeps, GuardCreateKeeps,
       GuardStatusKeeps, GuardStopKeeps DEF GuardStep
  <2>4. CASE \E v \in Volumes : VolumeChanges(v) \/ \E c \in Calls : ResumeStep(v, c)
    BY <1>2, <2>1, <2>4, ResumeReadKeeps, ResumeDeleteKeeps, ResumeEndKeeps,
       ResumeStartKeeps, AroundKeeps DEF ResumeStep
  <2>5. CASE \E a \in Apps : AdminStep(a)
    BY <1>2, <2>1, <2>5, AdminKeeps
  <2>6. CASE JobStep \/ BackendRestart \/ GuardFails
    BY <1>2, <2>1, <2>6, JobKeeps, AroundKeeps
  <2>7. CASE UNCHANGED vars
    <3>1. UNCHANGED <<hold, resume, guard, jobs, down, vol, running>>
      BY <2>7 DEF vars
    <3>2. Orderly'
      BY <1>2, <3>1, OrderlyStays DEF IInv, Orderly
    <3>3. QED
      BY <1>2, <2>1, <3>1, <3>2, SameStream, QuietKeeps DEF IInv
  <2>8. QED
    BY <1>2, <2>3, <2>4, <2>5, <2>6, <2>7 DEF Next
<1>3. Spec /\ []TypeOK => []IInv
  <2>1. Init /\ TypeOK => IInv
    BY <1>1 DEF IInv
  <2>2. QED
    BY <1>2, <2>1, PTL DEF Spec
<1>4. QED
  BY <1>3, TypeCorrect, PTL

\* An app the guard stopped (services/volume-guard.ts) is on the list of a hold, in the
\* hands of a resume or on its way up, unless a call failed, the backend restarted, a
\* volume it uses left fstab, or a resume deleted a hold that it had not read.
THEOREM StoppedIsNotForgotten == Spec => []NotForgotten
<1>1. IInv => NotForgotten
  <2>1. SUFFICES ASSUME IInv, NEW a \in Apps, faults = 0, down[a] = "halt",
                        a \notin dropped, \A v \in Uses[a] : vol[v] # "gone"
                 PROVE  Returning(a)
    BY DEF NotForgotten
  <2>2. Kept(a) /\ ~Excused(a)
    BY <2>1 DEF IInv, Excused
  <2>3. CASE HaltDone(a)
    BY <2>2, <2>3 DEF Kept, ToHalt, Listed, InHand, Returning
  <2>4. CASE ~HaltDone(a)
    <3>1. PICK j \in DOMAIN jobs : jobs[j] = Job("up", a)
      BY <2>1, <2>4 DEF HaltDone
    <3>2. DOMAIN jobs = 1..Len(jobs)
      BY <2>1, LenProperties DEF IInv, TypeOK
    <3>3. Contains(jobs, Job("up", a))
      BY <3>1, <3>2 DEF Contains
    <3>4. QED
      BY <3>3 DEF Returning
  <2>5. QED
    BY <2>3, <2>4
<1>2. QED
  BY <1>1, Invariance, PTL

----------------------------------------------------------------------------
(* The check of one volume. *)

DiskAway ==
    /\ ~present => left
    /\ absent => left
    /\ \A c \in Checkers :
           check[c].seen \/ check[c].at = "mount" => left

DiskInv == DiskTypeOK /\ DiskAway

LEMMA IdleType == Idle \in CheckRec /\ Idle.at = "idle" /\ Idle.seen = FALSE
  BY DEF Idle, CheckRec, States

LEMMA StateType == \A m \in Mounts : VolumeState(m) \in States
  BY DEF Mounts, VolumeState, States

\* What Decide writes, and that it writes nothing else.
LEMMA DecideType ==
  ASSUME check \in [Checkers -> CheckRec],
         NEW c \in Checkers,
         NEW at \in {"idle", "look", "device", "mount", "relook", "save", "write"},
         NEW seen \in BOOLEAN,
         NEW state \in States,
         Decide(c, at, seen, state)
  PROVE  /\ check' \in [Checkers -> CheckRec]
         /\ check'[c].at = at /\ check'[c].seen = seen
         /\ \A d \in Checkers \ {c} : check'[d] = check[d]
<1>1. /\ DOMAIN check' = Checkers
      /\ \A d \in Checkers \ {c} : check'[d] = check[d]
  BY DEF Decide
<1>2. check'[c] = [check[c] EXCEPT !.at = at, !.seen = seen, !.state = state]
  BY DEF Decide
<1>3. check[c] \in CheckRec
  OBVIOUS
<1>4. /\ check'[c] \in CheckRec
      /\ check'[c].at = at /\ check'[c].seen = seen
  BY <1>2, <1>3 DEF CheckRec
<1>5. check' = [d \in Checkers |-> check'[d]]
  BY DEF Decide
<1>6. QED
  BY <1>1, <1>3, <1>4, <1>5

LEMMA DiskInitInv == DiskInit => DiskInv
<1> SUFFICES ASSUME DiskInit PROVE DiskInv
  OBVIOUS
<1>1. check \in [Checkers -> CheckRec] /\ \A c \in Checkers : check[c] = Idle
  BY IdleType DEF DiskInit
<1>2. present /\ ~absent /\ left \in BOOLEAN
  BY DEF DiskInit
<1>3. DiskAway
  BY <1>1, <1>2, IdleType DEF DiskAway
<1>4. mount \in Mounts /\ reported \in States
  BY DEF DiskInit, Mounts, States
<1>5. /\ present \in BOOLEAN /\ absent \in BOOLEAN /\ left \in BOOLEAN
      /\ unmounted \in BOOLEAN /\ blurred \in BOOLEAN
  BY DEF DiskInit
<1>6. incidents \in 0 .. MaxIncidents /\ fails \in 0 .. MaxFails
  BY VolumeCheckAssumption DEF DiskInit
<1>7. QED
  BY <1>1, <1>3, <1>4, <1>5, <1>6 DEF DiskInv, DiskTypeOK

\* One step per action of a check, then the environment.
LEMMA DiskNextInv == DiskInv /\ [DiskNext]_diskVars => DiskInv'
<1> SUFFICES ASSUME DiskInv, [DiskNext]_diskVars
             PROVE  DiskInv'
  OBVIOUS
<1> USE VolumeCheckAssumption DEF DiskInv, DiskTypeOK, DiskAway, disk
<1>1. ASSUME NEW c \in Checkers, CheckLoad(c) PROVE DiskInv'
  <2>1. check' = [check EXCEPT ![c] = [at |-> "look", seen |-> absent, state |-> "ok",
                                       over |-> FALSE, after |-> unmounted]]
    BY <1>1 DEF CheckLoad
  <2>2. [at |-> "look", seen |-> absent, state |-> "ok", over |-> FALSE, after |-> unmounted]
            \in CheckRec
    BY DEF CheckRec, States
  <2>3. check' \in [Checkers -> CheckRec]
    BY <2>1, <2>2
  <2>4. \A d \in Checkers : check'[d].seen \/ check'[d].at = "mount" => left
    BY <2>1
  <2>5. blurred' \in BOOLEAN
    BY <1>1 DEF CheckLoad, Truncated
  <2>6. QED
    BY <1>1, <2>3, <2>4, <2>5 DEF CheckLoad
<1>2. ASSUME NEW c \in Checkers, CheckLook(c) PROVE DiskInv'
  <2>1. CASE VolumeState(mount) = "missing"
    <3>1. check' = [check EXCEPT ![c].at = "device"]
      BY <1>2, <2>1 DEF CheckLook, Goto
    <3>2. check' \in [Checkers -> CheckRec]
      BY <3>1 DEF CheckRec
    <3>3. \A d \in Checkers : check'[d].seen \/ check'[d].at = "mount" => left
      BY <3>1
    <3>4. QED
      BY <1>2, <3>2, <3>3 DEF CheckLook
  <2>2. CASE VolumeState(mount) # "missing"
    <3>1. Decide(c, "save", FALSE, VolumeState(mount))
      BY <1>2, <2>2 DEF CheckLook
    <3>2. QED
      BY <1>2, <3>1, DecideType, StateType DEF CheckLook
  <2>3. QED
    BY <2>1, <2>2
<1>3. ASSUME NEW c \in Checkers, CheckDevice(c) PROVE DiskInv'
  <2>1. CASE Remount(present, check[c].seen)
    <3>1. Decide(c, "mount", FALSE, "missing") /\ left
      BY <1>3, <2>1 DEF CheckDevice, Remount
    <3>2. QED
      BY <1>3, <3>1, DecideType DEF CheckDevice, States
  <2>2. CASE ~Remount(present, check[c].seen) /\ present
    <3>1. Decide(c, "save", FALSE, "unmounted")
      BY <1>3, <2>2 DEF CheckDevice
    <3>2. QED
      BY <1>3, <3>1, DecideType DEF CheckDevice, States
  <2>3. CASE ~Remount(present, check[c].seen) /\ ~present
    <3>1. Decide(c, "save", TRUE, "missing") /\ left
      BY <1>3, <2>3 DEF CheckDevice
    <3>2. QED
      BY <1>3, <3>1, DecideType DEF CheckDevice, States
  <2>4. QED
    BY <2>1, <2>2, <2>3
<1>4. ASSUME NEW c \in Checkers, CheckMount(c) PROVE DiskInv'
  <2>1. check' = [check EXCEPT ![c].at = "relook"]
    BY <1>4 DEF CheckMount, Goto
  <2>2. check' \in [Checkers -> CheckRec]
    BY <2>1 DEF CheckRec
  <2>3. \A d \in Checkers : check'[d].seen \/ check'[d].at = "mount" => left
    BY <2>1
  <2>4. QED
    BY <1>4, <2>2, <2>3 DEF CheckMount, Mounts
<1>5. ASSUME NEW c \in Checkers, CheckMountFails(c) PROVE DiskInv'
  <2>1. Decide(c, "save", TRUE, "missing") /\ left
    BY <1>5 DEF CheckMountFails
  <2>2. fails' \in 0 .. MaxFails
    BY <1>5 DEF CheckMountFails
  <2>3. QED
    BY <1>5, <2>1, <2>2, DecideType DEF CheckMountFails, States
<1>6. ASSUME NEW c \in Checkers, CheckRelook(c) PROVE DiskInv'
  <2>1. Decide(c, "save", FALSE, VolumeState(mount))
    BY <1>6 DEF CheckRelook
  <2>2. QED
    BY <1>6, <2>1, DecideType, StateType DEF CheckRelook
<1>7. ASSUME NEW c \in Checkers, CheckSave(c) PROVE DiskInv'
  <2>1. check' = [check EXCEPT ![c].at = "write"]
    BY <1>7 DEF CheckSave, Goto
  <2>2. check' \in [Checkers -> CheckRec]
    BY <2>1 DEF CheckRec
  <2>3. \A d \in Checkers : check'[d].seen \/ check'[d].at = "mount" => left
    BY <2>1
  <2>4. QED
    BY <1>7, <2>2, <2>3 DEF CheckSave
<1>8. ASSUME NEW c \in Checkers, CheckWrite(c) PROVE DiskInv'
  <2>1. \A d \in Checkers \ {c} :
            check'[d] = [check[d] EXCEPT !.over = (check[d].at = "write")]
    BY <1>8 DEF CheckWrite
  <2>2. check'[c] = Idle /\ check' = [d \in Checkers |-> check'[d]]
    BY <1>8 DEF CheckWrite
  <2>3. \A d \in Checkers : check'[d] \in CheckRec
    BY <2>1, <2>2, IdleType DEF CheckRec
  <2>4. check' \in [Checkers -> CheckRec]
    BY <2>2, <2>3
  <2>5. \A d \in Checkers : check'[d].seen \/ check'[d].at = "mount" => left
    BY <2>1, <2>2, IdleType DEF CheckRec
  <2>6. check[c] \in CheckRec
    OBVIOUS
  <2>7. absent' \in BOOLEAN /\ (absent' => left) /\ blurred' \in BOOLEAN
    BY <1>8, <2>6 DEF CheckWrite, CheckRec
  <2>8. reported' \in States
    BY <1>8, <2>6 DEF CheckWrite, Reply, CheckRec
  <2>9. QED
    BY <1>8, <2>4, <2>5, <2>7, <2>8 DEF CheckWrite
<1>9. ASSUME NEW c \in Checkers, CheckSaveFails(c) PROVE DiskInv'
  <2>1. /\ check' \in [Checkers -> CheckRec]
        /\ \A d \in Checkers : check'[d].seen \/ check'[d].at = "mount" => left
    BY <1>9, IdleType DEF CheckSaveFails
  <2>2. reported' \in States /\ blurred' \in BOOLEAN
    BY <1>9 DEF CheckSaveFails, Reply, CheckRec
  <2>3. QED
    BY <1>9, <2>1, <2>2 DEF CheckSaveFails
<1>10. ASSUME NEW c \in Checkers, CheckDies(c) PROVE DiskInv'
  BY <1>10, IdleType DEF CheckDies
<1>11. CASE Unplug
  <2>1. mount' \in Mounts /\ present' = FALSE /\ unmounted' = FALSE /\ left' = TRUE
    BY <1>11 DEF Unplug, Mounts
  <2>2. incidents' \in 0 .. MaxIncidents
    BY <1>11 DEF Unplug, Incident
  <2>3. QED
    BY <1>11, <2>1, <2>2 DEF Unplug
<1>12. CASE Plug
  <2>1. incidents' \in 0 .. MaxIncidents
    BY <1>12 DEF Plug, Incident
  <2>2. QED
    BY <1>12, <2>1 DEF Plug
<1>13. CASE AdminMount
  <2>1. mount' \in Mounts /\ unmounted' \in BOOLEAN
    BY <1>13 DEF AdminMount, Mounts
  <2>2. incidents' \in 0 .. MaxIncidents
    BY <1>13 DEF AdminMount, Incident
  <2>3. QED
    BY <1>13, <2>1, <2>2 DEF AdminMount
<1>14. CASE AdminUnmount
  <2>1. mount' \in Mounts /\ unmounted' \in BOOLEAN
    BY <1>14 DEF AdminUnmount, Mounts
  <2>2. incidents' \in 0 .. MaxIncidents
    BY <1>14 DEF AdminUnmount, Incident
  <2>3. QED
    BY <1>14, <2>1, <2>2 DEF AdminUnmount
<1>15. CASE IoError
  <2>1. mount' \in Mounts /\ unmounted' \in BOOLEAN
    BY <1>15 DEF IoError, Mounts
  <2>2. incidents' \in 0 .. MaxIncidents
    BY <1>15 DEF IoError, Incident
  <2>3. QED
    BY <1>15, <2>1, <2>2 DEF IoError
<1>16. CASE Reboot
  <2>1. /\ check' \in [Checkers -> CheckRec]
        /\ \A c \in Checkers : check'[c].seen = FALSE /\ check'[c].at = "idle"
    BY <1>16, IdleType DEF Reboot
  <2>2. mount' \in Mounts
    BY <1>16 DEF Reboot, Mounts
  <2>3. incidents' \in 0 .. MaxIncidents
    BY <1>16 DEF Reboot, Incident
  <2>4. left' \in BOOLEAN /\ (~present' => left')
    BY <1>16 DEF Reboot
  <2>5. /\ absent' = FALSE /\ unmounted' = FALSE /\ blurred' = FALSE
        /\ UNCHANGED <<present, reported, fails>>
    BY <1>16 DEF Reboot
  <2>6. DiskAway'
    BY <2>1, <2>4, <2>5
  <2>7. QED
    BY <2>1, <2>2, <2>3, <2>4, <2>5, <2>6
<1>17. CASE UNCHANGED diskVars
  BY <1>17 DEF diskVars
<1>18. QED
  BY <1>1, <1>2, <1>3, <1>4, <1>5, <1>6, <1>7, <1>8, <1>9, <1>10, <1>11, <1>12, <1>13,
     <1>14, <1>15, <1>16, <1>17
  DEF DiskNext, CheckStep

LEMMA DiskInvariance == DiskSpec => []DiskInv
  BY DiskInitInv, DiskNextInv, PTL DEF DiskSpec

\* Every variable of a check holds a value of its type, for ever.
THEOREM DiskTypeCorrect == DiskSpec => []DiskTypeOK
  BY DiskInvariance, PTL DEF DiskInv

\* Only CheckMount moves a check from "mount" to "relook", and a check at
\* "mount" was told that the disk had been away.
THEOREM MountsOnlyReturned == DiskSpec => OnlyReturned
<1>1. DiskInv /\ [DiskNext]_diskVars =>
         [\A c \in Checkers : Mounted(c) => left]_diskVars
  BY DEF DiskInv, DiskAway, Mounted
<1>2. QED
  BY DiskInvariance, <1>1, PTL DEF DiskSpec, OnlyReturned
=============================================================================
