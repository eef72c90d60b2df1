-------------------------- MODULE BackupRunsProofs --------------------------
(***************************************************************************)
(* For any runs, plans, repositories, apps and bounds: a snapshot tagged   *)
(* consistent is taken with the apps of its plan down, but for those that  *)
(* an administrator or a run on another repository started since.          *)
(*                                                                         *)
(* What makes it inductive: no two runs hold one repository, so the run    *)
(* that starts apps is never on the repository of one that needs them      *)
(* down, and from the first look on, each app of a run still consistent is *)
(* yet to be looked at, being stopped, down, or excused.                   *)
(***************************************************************************)
EXTENDS BackupRuns, TLAPS

Exclusive ==
    \A q, r \in Runs :
        q # r /\ Repository(q) = Repository(r) /\ HoldsRepository(q) => ~HoldsRepository(r)

\* One app at most is being stopped, and only at that step.
OneNow ==
    \A r \in Runs :
        \/ run[r].now = {} /\ run[r].pc # "stopping"
        \/ run[r].pc = "stopping" /\ \E a \in Apps : run[r].now = {a}

Looked(r) ==
    \A a \in StopApps[PlanOf[r]] :
        up[a] => a \in run[r].todo \cup run[r].now \cup run[r].touched

AllLooked ==
    \A r \in Runs :
        run[r].pc \in {"stops", "stopping", "snapshot"} /\ run[r].consistent => Looked(r)

NoneLeft == \A r \in Runs : run[r].pc = "snapshot" => run[r].todo = {}

IInv == TypeOK /\ Exclusive /\ OneNow /\ AllLooked /\ NoneLeft

USE DEF Bounded, Trouble, Goto, Ends

\* What the steps write into a run is of its type.
LEMMA Closed ==
  /\ {} \in AppSets
  /\ \A s \in AppSets, a \in Apps : s \cup {a} \in AppSets /\ s \ {a} \in AppSets
  /\ \A a \in Apps : {a} \in AppSets
  /\ \A r \in Runs : PlanOf[r] \in Plans /\ StopApps[PlanOf[r]] \in AppSets
  /\ {{}, {"interrupted"}, {"other"}, {"did not start again"}} \subseteq Errors
  /\ \A e, f \in Errors : e \cup f \in Errors
  /\ \A e \in Errors, i \in BOOLEAN : AsInterrupted(e, i) \in Errors
  /\ {"idle", "locking", "config", "queued", "check", "stops", "stopping", "snapshot",
      "starts", "forget", "record"} \subseteq Pc
<1>1. \A s \in AppSets, a \in Apps : s \cup {a} \in AppSets /\ s \ {a} \in AppSets
  BY DEF AppSets
<1>2. {} \in AppSets /\ \A a \in Apps : {a} \in AppSets
  BY DEF AppSets
<1>3. \A r \in Runs : PlanOf[r] \in Plans /\ StopApps[PlanOf[r]] \in AppSets
  BY BackupRunsAssumption DEF AppSets
<1>4. {{}, {"interrupted"}, {"other"}, {"did not start again"}} \subseteq Errors
  BY DEF Errors, Reasons
<1>5. \A e, f \in Errors : e \cup f \in Errors
  BY DEF Errors
<1>6. \A e \in Errors, i \in BOOLEAN : AsInterrupted(e, i) \in Errors
  BY <1>4 DEF AsInterrupted
<1>7. QED
  BY <1>1, <1>2, <1>3, <1>4, <1>5, <1>6 DEF Pc

\* The constants the steps write.
LEMMA Literals ==
  /\ {"config", "queued", "check", "stops", "stopping", "snapshot", "starts", "record"}
       \subseteq Pc
  /\ {"other"} \in Errors /\ {"interrupted"} \in Errors /\ {} \in AppSets
BY Closed

LEMMA IdleTyped == Idle \in RunState
BY Closed DEF Idle, RunState

\* A step of run r that starts no app, takes no repository held by another run, and leaves
\* r outside the stops and the snapshot.
LEMMA MoveKeeps ==
  ASSUME IInv, TypeOK', NEW r \in Runs,
         \A a \in Apps : up'[a] => up[a],
         \A q \in Runs \ {r} : run'[q] = run[q],
         run'[r].pc \notin {"stops", "stopping", "snapshot"}, run'[r].now = {},
         HoldsRepository(r)' => HoldsRepository(r) \/ RepositoryFree(r)
  PROVE  IInv'
<1>1. Exclusive'
  BY DEF IInv, Exclusive, Repository, HoldsRepository, RepositoryFree
<1>2. OneNow'
  BY DEF IInv, OneNow
<1>3. AllLooked'
  BY BackupRunsAssumption DEF IInv, AllLooked, Looked
<1>4. NoneLeft'
  BY DEF IInv, NoneLeft
<1>5. QED
  BY <1>1, <1>2, <1>3, <1>4 DEF IInv

LEMMA StartKeeps ==
  ASSUME IInv, NEW r \in Runs, Start(r)
  PROVE  IInv'
<1>1. TypeOK'
  <2>1. run' \in [Runs -> RunState]
    BY Closed DEF IInv, TypeOK, RunState, Start, Idle
  <2>2. up' \in [Apps -> BOOLEAN]
    BY DEF IInv, TypeOK, Start
  <2>3. down' \in [Apps -> Down]
    BY DEF IInv, TypeOK, Start
  <2>4. last' \in [Plans -> Record]
    BY DEF IInv, TypeOK, Start
  <2>5. bounds' \in [starts : Nat, troubles : Nat, touches : Nat]
    BY DEF IInv, TypeOK, Start
  <2>6. QED
    BY <2>1, <2>2, <2>3, <2>4, <2>5 DEF TypeOK
<1>2. /\ \A b \in Apps : up'[b] => up[b]
      /\ \A q \in Runs \ {r} : run'[q] = run[q]
  BY DEF IInv, TypeOK, Start
<1>3. run'[r].pc \notin {"stops", "stopping", "snapshot"} /\ run'[r].now = {}
  BY DEF IInv, TypeOK, RunState, OneNow, Start, Idle
<1>4. HoldsRepository(r)' => HoldsRepository(r) \/ RepositoryFree(r)
  BY DEF IInv, TypeOK, RunState, HoldsRepository, Start, Idle
<1>5. QED
  BY <1>1, <1>2, <1>3, <1>4, MoveKeeps

LEMMA TakeRunKeeps ==
  ASSUME IInv, NEW r \in Runs, TakeRun(r)
  PROVE  IInv'
<1>1. TypeOK'
  <2>1. run' \in [Runs -> RunState]
    <3>t. run \in [Runs -> RunState]
      BY DEF IInv, TypeOK
    <3>1. CASE run' = [run EXCEPT ![r].pc = "config"]
      <4>1. run[r] \in RunState
        BY <3>t
      <4>2. [run[r] EXCEPT !.pc = "config"] \in RunState
        BY Literals, <4>1 DEF RunState
      <4>3. QED
        BY <3>1, <3>t, <4>2
    <3>2. CASE run' = [run EXCEPT ![r] = Idle]
      BY <3>2, IdleTyped DEF IInv, TypeOK
    <3>3. QED
      BY <3>1, <3>2 DEF TakeRun
  <2>2. up' \in [Apps -> BOOLEAN]
    BY DEF IInv, TypeOK, TakeRun
  <2>3. down' \in [Apps -> Down]
    BY DEF IInv, TypeOK, TakeRun
  <2>4. last' \in [Plans -> Record]
    BY DEF IInv, TypeOK, TakeRun
  <2>5. bounds' \in [starts : Nat, troubles : Nat, touches : Nat]
    BY DEF IInv, TypeOK, TakeRun
  <2>6. QED
    BY <2>1, <2>2, <2>3, <2>4, <2>5 DEF TypeOK
<1>2. /\ \A b \in Apps : up'[b] => up[b]
      /\ \A q \in Runs \ {r} : run'[q] = run[q]
  BY DEF IInv, TypeOK, TakeRun
<1>3. run'[r].pc \notin {"stops", "stopping", "snapshot"} /\ run'[r].now = {}
  BY DEF IInv, TypeOK, RunState, OneNow, TakeRun, Idle
<1>4. HoldsRepository(r)' => HoldsRepository(r) \/ RepositoryFree(r)
  BY DEF IInv, TypeOK, RunState, HoldsRepository, TakeRun, Idle
<1>5. QED
  BY <1>1, <1>2, <1>3, <1>4, MoveKeeps

LEMMA ConfigureKeeps ==
  ASSUME IInv, NEW r \in Runs, Configure(r)
  PROVE  IInv'
<1>1. TypeOK'
  <2>1. run' \in [Runs -> RunState]
    <3>t. run \in [Runs -> RunState]
      BY DEF IInv, TypeOK
    <3>1. CASE run' = [run EXCEPT ![r].pc = "queued"]
      BY Literals, <3>1, <3>t DEF RunState
    <3>2. CASE Ends(r, {"other"})
      <4>1. run[r] \in RunState
        BY <3>t
      <4>2. [run[r] EXCEPT !.err = {"other"}, !.pc = "record"] \in RunState
        BY Literals, <4>1 DEF RunState
      <4>3. QED
        BY <3>2, <3>t, <4>2
    <3>3. QED
      BY <3>1, <3>2 DEF Configure
  <2>2. up' \in [Apps -> BOOLEAN]
    BY DEF IInv, TypeOK, Configure
  <2>3. down' \in [Apps -> Down]
    BY DEF IInv, TypeOK, Configure
  <2>4. last' \in [Plans -> Record]
    BY DEF IInv, TypeOK, Configure
  <2>5. bounds' \in [starts : Nat, troubles : Nat, touches : Nat]
    BY DEF IInv, TypeOK, Configure
  <2>6. QED
    BY <2>1, <2>2, <2>3, <2>4, <2>5 DEF TypeOK
<1>2. /\ \A b \in Apps : up'[b] => up[b]
      /\ \A q \in Runs \ {r} : run'[q] = run[q]
  BY DEF IInv, TypeOK, Configure
<1>3. run'[r].pc \notin {"stops", "stopping", "snapshot"} /\ run'[r].now = {}
  BY DEF IInv, TypeOK, RunState, OneNow, Configure
<1>4. HoldsRepository(r)' => HoldsRepository(r) \/ RepositoryFree(r)
  BY DEF IInv, TypeOK, RunState, HoldsRepository, Configure
<1>5. QED
  BY <1>1, <1>2, <1>3, <1>4, MoveKeeps

LEMMA TakeRepositoryKeeps ==
  ASSUME IInv, NEW r \in Runs, TakeRepository(r)
  PROVE  IInv'
<1>1. TypeOK'
  <2>1. run' \in [Runs -> RunState]
    <3>t. run \in [Runs -> RunState]
      BY DEF IInv, TypeOK
    <3>1. CASE run' = [run EXCEPT ![r].pc = "check"]
      <4>1. run[r] \in RunState
        BY <3>t
      <4>2. [run[r] EXCEPT !.pc = "check"] \in RunState
        BY Literals, <4>1 DEF RunState
      <4>3. QED
        BY <3>1, <3>t, <4>2
    <3>2. ASSUME NEW e \in Errors, Ends(r, e) PROVE run' \in [Runs -> RunState]
      <4>1. run[r] \in RunState
        BY <3>t
      <4>2. [run[r] EXCEPT !.err = e, !.pc = "record"] \in RunState
        BY Literals, <4>1 DEF RunState
      <4>3. QED
        BY <3>2, <3>t, <4>2
    <3>3. QED
      BY Literals, <3>1, <3>2 DEF TakeRepository
  <2>2. up' \in [Apps -> BOOLEAN]
    BY DEF IInv, TypeOK, TakeRepository
  <2>3. down' \in [Apps -> Down]
    BY DEF IInv, TypeOK, TakeRepository
  <2>4. last' \in [Plans -> Record]
    BY DEF IInv, TypeOK, TakeRepository
  <2>5. bounds' \in [starts : Nat, troubles : Nat, touches : Nat]
    BY DEF IInv, TypeOK, TakeRepository
  <2>6. QED
    BY <2>1, <2>2, <2>3, <2>4, <2>5 DEF TypeOK
<1>2. /\ \A b \in Apps : up'[b] => up[b]
      /\ \A q \in Runs \ {r} : run'[q] = run[q]
  BY DEF IInv, TypeOK, TakeRepository
<1>3. run'[r].pc \notin {"stops", "stopping", "snapshot"} /\ run'[r].now = {}
  BY DEF IInv, TypeOK, RunState, OneNow, TakeRepository
<1>4. HoldsRepository(r)' => HoldsRepository(r) \/ RepositoryFree(r)
  BY DEF IInv, TypeOK, RunState, HoldsRepository, TakeRepository
<1>5. QED
  BY <1>1, <1>2, <1>3, <1>4, MoveKeeps

LEMMA CheckKeeps ==
  ASSUME IInv, NEW r \in Runs, Check(r)
  PROVE  IInv'
<1>1. TypeOK'
  <2>1. run' \in [Runs -> RunState]
    <3>t. run \in [Runs -> RunState]
      BY DEF IInv, TypeOK
    <3>a. StopApps[PlanOf[r]] \in AppSets
      BY Closed
    <3>1. CASE run' = [run EXCEPT ![r].pc = "stops", ![r].todo = StopApps[PlanOf[r]]]
      <4>1. run[r] \in RunState
        BY <3>t
      <4>2. [run[r] EXCEPT !.pc = "stops", !.todo = StopApps[PlanOf[r]]] \in RunState
        BY Literals, <3>a, <4>1 DEF RunState
      <4>3. QED
        BY <3>1, <3>t, <4>2
    <3>2. CASE Ends(r, {"other"})
      <4>1. run[r] \in RunState
        BY <3>t
      <4>2. [run[r] EXCEPT !.err = {"other"}, !.pc = "record"] \in RunState
        BY Literals, <4>1 DEF RunState
      <4>3. QED
        BY <3>2, <3>t, <4>2
    <3>3. QED
      BY <3>1, <3>2 DEF Check
  <2>2. up' \in [Apps -> BOOLEAN]
    BY DEF IInv, TypeOK, Check
  <2>3. down' \in [Apps -> Down]
    BY DEF IInv, TypeOK, Check
  <2>4. last' \in [Plans -> Record]
    BY DEF IInv, TypeOK, Check
  <2>5. bounds' \in [starts : Nat, troubles : Nat, touches : Nat]
    BY DEF IInv, TypeOK, Check
  <2>6. QED
    BY <2>1, <2>2, <2>3, <2>4, <2>5 DEF TypeOK
<1>2. Exclusive'
  BY BackupRunsAssumption DEF IInv, TypeOK, RunState, Exclusive, Repository,
                              HoldsRepository, Check
<1>3. OneNow'
  BY DEF IInv, TypeOK, RunState, OneNow, Check
<1>4. AllLooked'
  <2>1. \A q \in Runs : q # r => run'[q] = run[q]
    BY DEF IInv, TypeOK, Check
  <2>2. run'[r].pc = "record" \/ run'[r].todo = StopApps[PlanOf[r]]
    BY DEF IInv, TypeOK, RunState, Check
  <2>3. QED
    BY <2>1, <2>2 DEF IInv, AllLooked, Looked, Check
<1>5. NoneLeft'
  BY DEF IInv, TypeOK, RunState, NoneLeft, Check
<1>6. QED
  BY <1>1, <1>2, <1>3, <1>4, <1>5 DEF IInv

LEMMA StopsDoneKeeps ==
  ASSUME IInv, NEW r \in Runs, StopsDone(r)
  PROVE  IInv'
<1>1. TypeOK'
  <2>1. run' \in [Runs -> RunState]
    <3>t. run \in [Runs -> RunState]
      BY DEF IInv, TypeOK
    <3>1. CASE run' = [run EXCEPT ![r].pc = "snapshot"]
      <4>1. run[r] \in RunState
        BY <3>t
      <4>2. [run[r] EXCEPT !.pc = "snapshot"] \in RunState
        BY Literals, <4>1 DEF RunState
      <4>3. QED
        BY <3>1, <3>t, <4>2
    <3>2. CASE run' = [run EXCEPT ![r].pc = "starts", ![r].err = {"interrupted"},
                                  ![r].todo = run[r].stopped]
      <4>1. {"interrupted"} \in Errors /\ "starts" \in Pc
        BY Literals
      <4>2. run[r] \in RunState /\ run[r].stopped \in AppSets
        BY <3>t DEF RunState
      <4>3. [run[r] EXCEPT !.pc = "starts", !.err = {"interrupted"},
                           !.todo = run[r].stopped] \in RunState
        BY <4>1, <4>2 DEF RunState
      <4>4. QED
        BY <3>2, <3>t, <4>3
    <3>3. QED
      BY <3>1, <3>2 DEF StopsDone
  <2>2. up' \in [Apps -> BOOLEAN]
    BY DEF IInv, TypeOK, StopsDone
  <2>3. down' \in [Apps -> Down]
    BY DEF IInv, TypeOK, StopsDone
  <2>4. last' \in [Plans -> Record]
    BY DEF IInv, TypeOK, StopsDone
  <2>5. bounds' \in [starts : Nat, troubles : Nat, touches : Nat]
    BY DEF IInv, TypeOK, StopsDone
  <2>6. QED
    BY <2>1, <2>2, <2>3, <2>4, <2>5 DEF TypeOK
<1>2. Exclusive'
  BY BackupRunsAssumption DEF IInv, TypeOK, RunState, Exclusive, Repository,
                              HoldsRepository, StopsDone
<1>3. OneNow'
  BY DEF IInv, TypeOK, RunState, OneNow, StopsDone
<1>4. AllLooked'
  BY BackupRunsAssumption DEF IInv, TypeOK, RunState, OneNow, AllLooked, Looked,
                              StopsDone, Exclusive, Repository, HoldsRepository
<1>5. NoneLeft'
  BY DEF IInv, TypeOK, RunState, NoneLeft, StopsDone
<1>6. QED
  BY <1>1, <1>2, <1>3, <1>4, <1>5 DEF IInv

LEMMA SnapshotKeeps ==
  ASSUME IInv, NEW r \in Runs, Snapshot(r)
  PROVE  IInv'
<1>1. TypeOK'
  <2>1. run' \in [Runs -> RunState]
    <3>t. run \in [Runs -> RunState]
      BY DEF IInv, TypeOK
    <3>1. CASE run' = [run EXCEPT ![r].pc = "starts", ![r].todo = run[r].stopped]
      <4>1. run[r] \in RunState
        BY <3>t
      <4>2. [run[r] EXCEPT !.pc = "starts", !.todo = run[r].stopped] \in RunState
        BY Literals, <4>1 DEF RunState
      <4>3. QED
        BY <3>1, <3>t, <4>2
    <3>2. CASE run' = [run EXCEPT ![r].pc = "starts", ![r].todo = run[r].stopped,
                                  ![r].err = {"other"}]
      <4>1. run[r] \in RunState
        BY <3>t
      <4>2. [run[r] EXCEPT !.pc = "starts", !.todo = run[r].stopped,
                           !.err = {"other"}] \in RunState
        BY Literals, <4>1 DEF RunState
      <4>3. QED
        BY <3>2, <3>t, <4>2
    <3>3. QED
      BY <3>1, <3>2 DEF Snapshot
  <2>2. up' \in [Apps -> BOOLEAN]
    BY DEF IInv, TypeOK, Snapshot
  <2>3. down' \in [Apps -> Down]
    BY DEF IInv, TypeOK, Snapshot
  <2>4. last' \in [Plans -> Record]
    BY DEF IInv, TypeOK, Snapshot
  <2>5. bounds' \in [starts : Nat, troubles : Nat, touches : Nat]
    BY DEF IInv, TypeOK, Snapshot
  <2>6. QED
    BY <2>1, <2>2, <2>3, <2>4, <2>5 DEF TypeOK
<1>2. /\ \A b \in Apps : up'[b] => up[b]
      /\ \A q \in Runs \ {r} : run'[q] = run[q]
  BY DEF IInv, TypeOK, Snapshot
<1>3. run'[r].pc \notin {"stops", "stopping", "snapshot"} /\ run'[r].now = {}
  BY DEF IInv, TypeOK, RunState, OneNow, Snapshot
<1>4. HoldsRepository(r)' => HoldsRepository(r) \/ RepositoryFree(r)
  BY DEF IInv, TypeOK, RunState, HoldsRepository, Snapshot
<1>5. QED
  BY <1>1, <1>2, <1>3, <1>4, MoveKeeps

LEMMA RestartsDoneKeeps ==
  ASSUME IInv, NEW r \in Runs, RestartsDone(r)
  PROVE  IInv'
<1>1. TypeOK'
  <2>1. run' \in [Runs -> RunState]
    <3>t. run \in [Runs -> RunState]
      BY DEF IInv, TypeOK
    <3>1. PICK e \in Errors, pc \in Pc : run' = [run EXCEPT ![r].err = e, ![r].pc = pc]
      <4>1. run[r].err \in Errors /\ run[r].interrupted \in BOOLEAN
        BY DEF IInv, TypeOK, RunState
      <4>2. AsInterrupted(run[r].err, run[r].interrupted) \in Errors
        BY <4>1, Closed
      <4>3. \A f \in Errors : f \cup {} \in Errors /\ f \cup {"did not start again"} \in Errors
        BY Closed
      <4>4. QED
        BY <4>2, <4>3, Closed DEF RestartsDone
    <3>2. [run[r] EXCEPT !.err = e, !.pc = pc] \in RunState
      <4>1. run[r] \in RunState
        BY <3>t
      <4>2. QED
        BY <4>1 DEF RunState
    <3>3. QED
      BY <3>t, <3>1, <3>2
  <2>2. up' \in [Apps -> BOOLEAN]
    BY DEF IInv, TypeOK, RestartsDone
  <2>3. down' \in [Apps -> Down]
    BY DEF IInv, TypeOK, RestartsDone
  <2>4. last' \in [Plans -> Record]
    BY DEF IInv, TypeOK, RestartsDone
  <2>5. bounds' \in [starts : Nat, troubles : Nat, touches : Nat]
    BY DEF IInv, TypeOK, RestartsDone
  <2>6. QED
    BY <2>1, <2>2, <2>3, <2>4, <2>5 DEF TypeOK
<1>2. /\ \A b \in Apps : up'[b] => up[b]
      /\ \A q \in Runs \ {r} : run'[q] = run[q]
  BY DEF IInv, TypeOK, RestartsDone
<1>3. run'[r].pc \notin {"stops", "stopping", "snapshot"} /\ run'[r].now = {}
  <2>1. run'[r].pc \in {"forget", "record"} /\ run'[r].now = run[r].now
    BY DEF IInv, TypeOK, RunState, RestartsDone
  <2>2. run[r].now = {}
    BY DEF IInv, OneNow, RestartsDone
  <2>3. QED
    BY <2>1, <2>2
<1>4. HoldsRepository(r)' => HoldsRepository(r) \/ RepositoryFree(r)
  BY DEF IInv, TypeOK, RunState, HoldsRepository, RestartsDone
<1>5. QED
  BY <1>1, <1>2, <1>3, <1>4, MoveKeeps

LEMMA ForgetKeeps ==
  ASSUME IInv, NEW r \in Runs, Forget(r)
  PROVE  IInv'
<1>1. TypeOK'
  <2>1. run' \in [Runs -> RunState]
    <3>1. run \in [Runs -> RunState] /\ run[r] \in RunState
      BY DEF IInv, TypeOK
    <3>2. [run[r] EXCEPT !.pc = "record"] \in RunState
      BY Literals, <3>1 DEF RunState
    <3>3. QED
      BY <3>1, <3>2 DEF Forget
  <2>2. up' \in [Apps -> BOOLEAN]
    BY DEF IInv, TypeOK, Forget
  <2>3. down' \in [Apps -> Down]
    BY DEF IInv, TypeOK, Forget
  <2>4. last' \in [Plans -> Record]
    BY DEF IInv, TypeOK, Forget
  <2>5. bounds' \in [starts : Nat, troubles : Nat, touches : Nat]
    BY DEF IInv, TypeOK, Forget
  <2>6. QED
    BY <2>1, <2>2, <2>3, <2>4, <2>5 DEF TypeOK
<1>2. /\ \A b \in Apps : up'[b] => up[b]
      /\ \A q \in Runs \ {r} : run'[q] = run[q]
  BY DEF IInv, TypeOK, Forget
<1>3. run'[r].pc \notin {"stops", "stopping", "snapshot"} /\ run'[r].now = {}
  BY DEF IInv, TypeOK, RunState, OneNow, Forget
<1>4. HoldsRepository(r)' => HoldsRepository(r) \/ RepositoryFree(r)
  BY DEF IInv, TypeOK, RunState, HoldsRepository, Forget
<1>5. QED
  BY <1>1, <1>2, <1>3, <1>4, MoveKeeps

LEMMA FinishKeeps ==
  ASSUME IInv, NEW r \in Runs, Finish(r)
  PROVE  IInv'
<1>1. TypeOK'
  <2>1. run' \in [Runs -> RunState]
    BY Closed DEF IInv, TypeOK, RunState, Finish, Idle
  <2>2. up' \in [Apps -> BOOLEAN]
    BY DEF IInv, TypeOK, Finish
  <2>3. down' \in [Apps -> Down]
    BY DEF IInv, TypeOK, Finish
  <2>4. last' \in [Plans -> Record]
    <3>1. run[r].err \in Errors /\ run[r].interrupted \in BOOLEAN /\ run[r].left \in AppSets
      BY DEF IInv, TypeOK, RunState
    <3>2. AsInterrupted(run[r].err, run[r].interrupted) \in Errors
      BY <3>1, Closed
    <3>3. PlanOf[r] \in Plans
      BY Closed
    <3>4. ASSUME NEW e \in Errors
          PROVE  [status |-> IF e = {} THEN "success" ELSE "failed", error |-> e,
                  left |-> run[r].left] \in Record
      BY <3>1 DEF Record
    <3>5. QED
      BY <3>2, <3>3, <3>4 DEF IInv, TypeOK, Finish
  <2>5. bounds' \in [starts : Nat, troubles : Nat, touches : Nat]
    BY DEF IInv, TypeOK, Finish
  <2>6. QED
    BY <2>1, <2>2, <2>3, <2>4, <2>5 DEF TypeOK
<1>2. /\ \A b \in Apps : up'[b] => up[b]
      /\ \A q \in Runs \ {r} : run'[q] = run[q]
  BY DEF IInv, TypeOK, Finish
<1>3. run'[r].pc \notin {"stops", "stopping", "snapshot"} /\ run'[r].now = {}
  BY DEF IInv, TypeOK, RunState, OneNow, Finish, Idle
<1>4. HoldsRepository(r)' => HoldsRepository(r) \/ RepositoryFree(r)
  BY DEF IInv, TypeOK, RunState, HoldsRepository, Finish, Idle
<1>5. QED
  BY <1>1, <1>2, <1>3, <1>4, MoveKeeps

LEMMA LookKeeps ==
  ASSUME IInv, NEW r \in Runs, NEW a \in Apps, Look(r, a)
  PROVE  IInv'
<1>1. TypeOK'
  <2>1. run' \in [Runs -> RunState]
    <3>t. run \in [Runs -> RunState]
      BY DEF IInv, TypeOK
    <3>1. run[r].stopped \cup {a} \in AppSets /\ run[r].todo \ {a} \in AppSets
          /\ run[r].touched \ {a} \in AppSets
      <4>1. run[r].stopped \in AppSets /\ run[r].todo \in AppSets /\ run[r].touched \in AppSets
        BY DEF IInv, TypeOK, RunState
      <4>2. QED
        BY <4>1, Closed
    <3>2. QED
      <4>1. {a} \in AppSets
        BY Closed
      <4>2. CASE run' = [run EXCEPT ![r].stopped = @ \cup {a}, ![r].pc = "stopping",
                                    ![r].todo = @ \ {a}, ![r].now = {a}]
        <5>1. "stopping" \in Pc /\ run[r] \in RunState
          BY Literals, <3>t
        <5>2. [run[r] EXCEPT !.stopped = @ \cup {a}, !.pc = "stopping",
                             !.todo = @ \ {a}, !.now = {a}] \in RunState
          BY <3>1, <4>1, <5>1 DEF RunState
        <5>3. QED
          BY <3>t, <4>2, <5>2
      <4>3. CASE run' = [run EXCEPT ![r].todo = @ \ {a}, ![r].touched = @ \ {a}]
        <5>1. run[r] \in RunState
          BY <3>t
        <5>2. [run[r] EXCEPT !.todo = @ \ {a}, !.touched = @ \ {a}] \in RunState
          BY <3>1, <5>1 DEF RunState
        <5>3. QED
          BY <4>3, <3>t, <5>2
      <4>4. CASE run' = [run EXCEPT ![r].todo = @ \ {a}, ![r].consistent = FALSE]
        <5>1. run[r] \in RunState
          BY <3>t
        <5>2. [run[r] EXCEPT !.todo = @ \ {a}, !.consistent = FALSE] \in RunState
          BY <3>1, <5>1 DEF RunState
        <5>3. QED
          BY <4>4, <3>t, <5>2
      <4>5. QED
        BY <4>2, <4>3, <4>4 DEF Look
  <2>2. up' \in [Apps -> BOOLEAN]
    BY DEF IInv, TypeOK, Look
  <2>3. down' \in [Apps -> Down]
    BY DEF IInv, TypeOK, Look
  <2>4. last' \in [Plans -> Record]
    BY DEF IInv, TypeOK, Look
  <2>5. bounds' \in [starts : Nat, troubles : Nat, touches : Nat]
    BY DEF IInv, TypeOK, Look
  <2>6. QED
    BY <2>1, <2>2, <2>3, <2>4, <2>5 DEF TypeOK
<1>2. Exclusive'
  BY BackupRunsAssumption DEF IInv, TypeOK, RunState, Exclusive, Repository,
                              HoldsRepository, Look
<1>3. OneNow'
  BY DEF IInv, TypeOK, RunState, OneNow, Look
<1>4. AllLooked'
  BY BackupRunsAssumption DEF IInv, TypeOK, RunState, OneNow, AllLooked, Looked, Look,
                              Exclusive, Repository, HoldsRepository
<1>5. NoneLeft'
  BY DEF IInv, TypeOK, RunState, NoneLeft, Look
<1>6. QED
  BY <1>1, <1>2, <1>3, <1>4, <1>5 DEF IInv

LEMMA StopKeeps ==
  ASSUME IInv, NEW r \in Runs, NEW a \in Apps, Stop(r, a)
  PROVE  IInv'
<1>1. TypeOK'
  <2>1. run' \in [Runs -> RunState]
    <3>t. run \in [Runs -> RunState]
      BY DEF IInv, TypeOK
    <3>1. run[r].touched \ {a} \in AppSets
      <4>1. run[r].touched \in AppSets
        BY DEF IInv, TypeOK, RunState
      <4>2. QED
        BY <4>1, Closed
    <3>2. QED
      <4>1. CASE run' = [run EXCEPT ![r].pc = "stops", ![r].now = {}, ![r].touched = @ \ {a}]
        <5>1. "stops" \in Pc /\ {} \in AppSets /\ run[r] \in RunState
          BY Literals, <3>t
        <5>2. [run[r] EXCEPT !.pc = "stops", !.now = {}, !.touched = @ \ {a}] \in RunState
          BY <3>1, <5>1 DEF RunState
        <5>3. QED
          BY <3>t, <4>1, <5>2
      <4>2. CASE run' = [run EXCEPT ![r].pc = "stops", ![r].now = {}, ![r].consistent = FALSE]
        <5>1. run[r] \in RunState
          BY <3>t
        <5>2. [run[r] EXCEPT !.pc = "stops", !.now = {}, !.consistent = FALSE] \in RunState
          BY Literals, <5>1 DEF RunState
        <5>3. QED
          BY <4>2, <3>t, <5>2
      <4>3. QED
        BY <4>1, <4>2 DEF Stop
  <2>2. up' \in [Apps -> BOOLEAN]
    BY DEF IInv, TypeOK, Stop
  <2>3. down' \in [Apps -> Down]
    BY DEF IInv, TypeOK, Stop, Down
  <2>4. last' \in [Plans -> Record]
    BY DEF IInv, TypeOK, Stop
  <2>5. bounds' \in [starts : Nat, troubles : Nat, touches : Nat]
    BY DEF IInv, TypeOK, Stop
  <2>6. QED
    BY <2>1, <2>2, <2>3, <2>4, <2>5 DEF TypeOK
<1>2. Exclusive'
  <2>1. \A q \in Runs : HoldsRepository(q)' <=> HoldsRepository(q)
    BY DEF IInv, TypeOK, RunState, HoldsRepository, Stop
  <2>2. QED
    BY <2>1 DEF IInv, Exclusive, Repository
<1>3. OneNow'
  BY DEF IInv, TypeOK, RunState, OneNow, Stop
<1>4. AllLooked'
  BY BackupRunsAssumption DEF IInv, TypeOK, RunState, OneNow, AllLooked, Looked, Stop,
                              Exclusive, Repository, HoldsRepository
<1>5. NoneLeft'
  BY DEF IInv, TypeOK, RunState, NoneLeft, Stop
<1>6. QED
  BY <1>1, <1>2, <1>3, <1>4, <1>5 DEF IInv

\* What a start after a snapshot does to the runs: those on other repositories note it.
LEMMA RestartEffect ==
  ASSUME TypeOK, NEW r \in Runs, NEW a \in Apps, Restart(r, a)
  PROVE  /\ run' \in [Runs -> RunState]
         /\ \A q \in Runs : /\ run'[q].pc = run[q].pc /\ run'[q].now = run[q].now
                            /\ run'[q].consistent = run[q].consistent
                            /\ run[q].touched \subseteq run'[q].touched
                            /\ q # r => run'[q].todo = run[q].todo
         /\ \/ up' = up
            \/ /\ up' = [up EXCEPT ![a] = TRUE]
               /\ \A q \in Runs : Repository(q) # Repository(r) => a \in run'[q].touched
<1>1. run \in [Runs -> RunState] /\ up \in [Apps -> BOOLEAN]
  BY DEF TypeOK
<1>2. \A q \in Runs : run[q].touched \cup {a} \in AppSets /\ run[q].todo \ {a} \in AppSets
                      /\ run[q].left \cup {a} \in AppSets
  <2>1. \A q \in Runs : run[q].touched \in AppSets /\ run[q].todo \in AppSets
                        /\ run[q].left \in AppSets
    BY <1>1 DEF RunState
  <2>2. QED
    BY <2>1, Closed
<1>3. CASE /\ up' = [up EXCEPT ![a] = TRUE]
           /\ run' = [Touched({q \in Runs : Repository(q) # Repository(r)}, a)
                        EXCEPT ![r].todo = @ \ {a}]
  <2> DEFINE t == Touched({q \in Runs : Repository(q) # Repository(r)}, a)
  <2>1. \A q \in Runs : [run[q] EXCEPT !.touched = @ \cup {a}] \in RunState
    BY <1>1, <1>2 DEF RunState
  <2>2. t \in [Runs -> RunState]
    BY <1>1, <2>1 DEF Touched
  <2>3. \A q \in Runs : /\ t[q].pc = run[q].pc /\ t[q].now = run[q].now
                        /\ t[q].consistent = run[q].consistent /\ t[q].todo = run[q].todo
                        /\ run[q].touched \subseteq t[q].touched
                        /\ Repository(q) # Repository(r) => a \in t[q].touched
    BY <1>1 DEF Touched, RunState
  <2>4. t[r].todo \ {a} \in AppSets
    BY <1>2, <2>3
  <2> HIDE DEF t
  <2>5. run' = [t EXCEPT ![r].todo = @ \ {a}]
    BY <1>3 DEF t
  <2>6. run' \in [Runs -> RunState]
    BY <2>2, <2>4, <2>5 DEF RunState
  <2>7. \A q \in Runs : /\ run'[q].pc = t[q].pc /\ run'[q].now = t[q].now
                        /\ run'[q].consistent = t[q].consistent
                        /\ run'[q].touched = t[q].touched
                        /\ q # r => run'[q].todo = t[q].todo
    BY <2>2, <2>5 DEF RunState
  <2>8. \A q \in Runs : /\ run'[q].pc = run[q].pc /\ run'[q].now = run[q].now
                        /\ run'[q].consistent = run[q].consistent
                        /\ run[q].touched \subseteq run'[q].touched
                        /\ q # r => run'[q].todo = run[q].todo
                        /\ Repository(q) # Repository(r) => a \in run'[q].touched
    BY <2>3, <2>7
  <2>9. QED
    BY <1>3, <2>6, <2>8
<1>4. CASE up' = up /\ run' = [run EXCEPT ![r].todo = @ \ {a}, ![r].left = @ \cup {a}]
  <2>1. run[r] \in RunState
    BY <1>1
  <2>2. [run[r] EXCEPT !.todo = @ \ {a}, !.left = @ \cup {a}] \in RunState
    BY <1>2, <2>1 DEF RunState
  <2>3. run' \in [Runs -> RunState]
    BY <1>1, <1>4, <2>2
  <2>4. \A q \in Runs : /\ run'[q].pc = run[q].pc /\ run'[q].now = run[q].now
                        /\ run'[q].consistent = run[q].consistent
                        /\ run'[q].touched = run[q].touched
                        /\ q # r => run'[q].todo = run[q].todo
    BY <1>1, <1>4 DEF RunState
  <2>5. QED
    BY <1>4, <2>3, <2>4
<1>5. QED
  BY <1>3, <1>4 DEF Restart

LEMMA RestartKeeps ==
  ASSUME IInv, NEW r \in Runs, NEW a \in Apps, Restart(r, a)
  PROVE  IInv'
<1>0. TypeOK
  BY DEF IInv
<1>1. TypeOK'
  <2>1. run' \in [Runs -> RunState]
    BY <1>0, RestartEffect
  <2>2. up' \in [Apps -> BOOLEAN]
    BY <1>0, RestartEffect DEF TypeOK
  <2>3. down' \in [Apps -> Down]
    <3>1. "no" \in Down /\ "failed" \in Down
      BY DEF Down
    <3>2. \/ down' = [down EXCEPT ![a] = "no"] \/ down' = down
          \/ down' = [down EXCEPT ![a] = "failed"]
      BY DEF Restart
    <3>3. QED
      BY <1>0, <3>1, <3>2 DEF TypeOK
  <2>4. last' \in [Plans -> Record]
    BY <1>0 DEF TypeOK, Restart
  <2>5. bounds' \in [starts : Nat, troubles : Nat, touches : Nat]
    BY <1>0 DEF TypeOK, Restart
  <2>6. QED
    BY <2>1, <2>2, <2>3, <2>4, <2>5 DEF TypeOK
<1>2. Exclusive'
  BY <1>0, RestartEffect DEF IInv, Exclusive, Repository, HoldsRepository
<1>3. OneNow'
  BY <1>0, RestartEffect DEF IInv, OneNow
<1>4. AllLooked'
  <2> SUFFICES ASSUME NEW q \in Runs, run'[q].consistent,
                      NEW b \in StopApps[PlanOf[q]], up'[b],
                      run'[q].pc \in {"stops", "stopping", "snapshot"}
               PROVE  b \in run'[q].todo \cup run'[q].now \cup run'[q].touched
    BY DEF AllLooked, Looked
  <2>1. run[r].pc = "starts" /\ q # r
    <3>1. run[r].pc = "starts"
      BY DEF Restart
    <3>2. QED
      BY <1>0, <3>1, RestartEffect
  <2>2. Repository(q) # Repository(r)
    <3>1. run[q].pc = run'[q].pc
      BY <1>0, RestartEffect
    <3>2. QED
      BY <2>1, <3>1 DEF IInv, Exclusive, HoldsRepository
  <2>3. CASE up[b]
    BY <1>0, <2>1, <2>3, RestartEffect DEF IInv, AllLooked, Looked
  <2>4. CASE ~up[b]
    BY <1>0, <2>2, <2>4, RestartEffect, BackupRunsAssumption DEF TypeOK
  <2>5. QED
    BY <2>3, <2>4
<1>5. NoneLeft'
  <2>1. run[r].pc = "starts"
    BY DEF Restart
  <2>2. QED
    BY <1>0, <2>1, RestartEffect DEF IInv, NoneLeft
<1>6. QED
  BY <1>1, <1>2, <1>3, <1>4, <1>5 DEF IInv

LEMMA InterruptKeeps ==
  ASSUME IInv, NEW r \in Runs, Interrupt(r)
  PROVE  IInv'
<1>1. TypeOK'
  <2>1. run' \in [Runs -> RunState]
    <3>1. run \in [Runs -> RunState] /\ run[r] \in RunState
      BY DEF IInv, TypeOK
    <3>2. [run[r] EXCEPT !.interrupted = TRUE] \in RunState
      BY <3>1 DEF RunState
    <3>3. QED
      BY <3>1, <3>2 DEF Interrupt
  <2>2. up' \in [Apps -> BOOLEAN]
    BY DEF IInv, TypeOK, Interrupt
  <2>3. down' \in [Apps -> Down]
    BY DEF IInv, TypeOK, Interrupt
  <2>4. last' \in [Plans -> Record]
    BY DEF IInv, TypeOK, Interrupt
  <2>5. bounds' \in [starts : Nat, troubles : Nat, touches : Nat]
    BY DEF IInv, TypeOK, Interrupt
  <2>6. QED
    BY <2>1, <2>2, <2>3, <2>4, <2>5 DEF TypeOK
<1>2. Exclusive'
  BY BackupRunsAssumption DEF IInv, TypeOK, RunState, Exclusive, Repository,
                              HoldsRepository, Interrupt
<1>3. OneNow'
  BY DEF IInv, TypeOK, RunState, OneNow, Interrupt
<1>4. AllLooked'
  BY BackupRunsAssumption DEF IInv, TypeOK, RunState, OneNow, AllLooked, Looked,
                              Interrupt, Exclusive, Repository, HoldsRepository
<1>5. NoneLeft'
  BY DEF IInv, TypeOK, RunState, NoneLeft, Interrupt
<1>6. QED
  BY <1>1, <1>2, <1>3, <1>4, <1>5 DEF IInv

LEMMA KillKeeps ==
  ASSUME IInv, NEW r \in Runs, Kill(r)
  PROVE  IInv'
<1>1. TypeOK'
  <2>1. run' \in [Runs -> RunState]
    BY Closed DEF IInv, TypeOK, RunState, Kill, Idle
  <2>2. up' \in [Apps -> BOOLEAN]
    BY DEF IInv, TypeOK, Kill
  <2>3. down' \in [Apps -> Down]
    BY DEF IInv, TypeOK, Kill, Down
  <2>4. last' \in [Plans -> Record]
    BY DEF IInv, TypeOK, Kill
  <2>5. bounds' \in [starts : Nat, troubles : Nat, touches : Nat]
    BY DEF IInv, TypeOK, Kill
  <2>6. QED
    BY <2>1, <2>2, <2>3, <2>4, <2>5 DEF TypeOK
<1>2. /\ \A b \in Apps : up'[b] => up[b]
      /\ \A q \in Runs \ {r} : run'[q] = run[q]
  BY DEF IInv, TypeOK, Kill
<1>3. run'[r].pc \notin {"stops", "stopping", "snapshot"} /\ run'[r].now = {}
  BY DEF IInv, TypeOK, RunState, OneNow, Kill, Idle
<1>4. HoldsRepository(r)' => HoldsRepository(r) \/ RepositoryFree(r)
  BY DEF IInv, TypeOK, RunState, HoldsRepository, Kill, Idle
<1>5. QED
  BY <1>1, <1>2, <1>3, <1>4, MoveKeeps

LEMMA AdminStartKeeps ==
  ASSUME IInv, NEW a \in Apps, AdminStart(a)
  PROVE  IInv'
<1>1. \A q \in Runs : run'[q] = [run[q] EXCEPT !.touched = @ \cup {a}]
  BY DEF AdminStart, Touched
<1>2. \A q \in Runs : run[q] \in RunState /\ run[q].touched \cup {a} \in AppSets
  <2>1. \A q \in Runs : run[q] \in RunState /\ run[q].touched \in AppSets
    BY DEF IInv, TypeOK, RunState
  <2>2. QED
    BY <2>1, Closed
<1>3. \A q \in Runs : /\ run'[q] \in RunState
                      /\ run'[q].pc = run[q].pc /\ run'[q].now = run[q].now
                      /\ run'[q].consistent = run[q].consistent /\ run'[q].todo = run[q].todo
                      /\ run'[q].touched = run[q].touched \cup {a}
  BY <1>1, <1>2 DEF RunState
<1>4. TypeOK'
  <2>1. run' \in [Runs -> RunState]
    BY <1>3 DEF AdminStart, Touched
  <2>2. up' \in [Apps -> BOOLEAN] /\ last' \in [Plans -> Record]
    BY DEF IInv, TypeOK, AdminStart
  <2>3. down' \in [Apps -> Down]
    BY DEF IInv, TypeOK, AdminStart, Down
  <2>4. bounds' \in [starts : Nat, troubles : Nat, touches : Nat]
    BY DEF IInv, TypeOK, AdminStart
  <2>5. QED
    BY <2>1, <2>2, <2>3, <2>4 DEF TypeOK
<1>5. Exclusive'
  BY <1>3 DEF IInv, Exclusive, Repository, HoldsRepository
<1>6. OneNow'
  BY <1>3 DEF IInv, OneNow
<1>7. AllLooked'
  BY <1>3, BackupRunsAssumption DEF IInv, TypeOK, AllLooked, Looked, AdminStart
<1>8. NoneLeft'
  BY <1>3 DEF IInv, NoneLeft
<1>9. QED
  BY <1>4, <1>5, <1>6, <1>7, <1>8 DEF IInv

LEMMA AdminStopKeeps ==
  ASSUME IInv, NEW a \in Apps, AdminStop(a)
  PROVE  IInv'
<1>1. TypeOK'
  BY DEF IInv, TypeOK, AdminStop, Down
<1>2. Exclusive' /\ OneNow' /\ NoneLeft'
  BY DEF IInv, Exclusive, Repository, HoldsRepository, OneNow, NoneLeft, AdminStop
<1>3. AllLooked'
  BY BackupRunsAssumption DEF IInv, TypeOK, AllLooked, Looked, AdminStop
<1>4. QED
  BY <1>1, <1>2, <1>3 DEF IInv

LEMMA Invariance == Spec => []IInv
<1>1. Init => IInv
  <2> SUFFICES ASSUME Init PROVE IInv
    OBVIOUS
  <2>1. TypeOK
    <3>1. run \in [Runs -> RunState]
      BY IdleTyped DEF Init
    <3>2. up \in [Apps -> BOOLEAN] /\ down \in [Apps -> Down]
      BY DEF Init, Down
    <3>3. last \in [Plans -> Record]
      BY Closed DEF Init, Record
    <3>4. bounds \in [starts : Nat, troubles : Nat, touches : Nat]
      BY DEF Init
    <3>5. QED
      BY <3>1, <3>2, <3>3, <3>4 DEF TypeOK
  <2>2. \A r \in Runs : run[r].pc = "idle" /\ run[r].now = {}
    BY DEF Init, Idle
  <2>3. QED
    BY <2>1, <2>2 DEF IInv, Exclusive, HoldsRepository, OneNow, AllLooked, NoneLeft
<1>2. IInv /\ [Next]_vars => IInv'
  <2> SUFFICES ASSUME IInv, [Next]_vars PROVE IInv'
    OBVIOUS
  <2>1. CASE \E r \in Runs : Start(r) \/ Interrupt(r) \/ Kill(r)
    BY <2>1, StartKeeps, InterruptKeeps, KillKeeps
  <2>2. CASE \E r \in Runs : RunStep(r)
    BY <2>2, TakeRunKeeps, ConfigureKeeps, TakeRepositoryKeeps, CheckKeeps, StopsDoneKeeps,
       SnapshotKeeps, RestartsDoneKeeps, ForgetKeeps, FinishKeeps, LookKeeps, StopKeeps,
       RestartKeeps DEF RunStep
  <2>3. CASE \E a \in Apps : AdminStart(a) \/ AdminStop(a)
    BY <2>3, AdminStartKeeps, AdminStopKeeps
  <2>4. CASE UNCHANGED vars
    BY <2>4 DEF vars, IInv, TypeOK, Exclusive, Repository, HoldsRepository, OneNow,
                AllLooked, Looked,
                NoneLeft
  <2>5. QED
    BY <2>1, <2>2, <2>3, <2>4 DEF Next
<1>3. QED
  BY <1>1, <1>2, PTL DEF Spec

\* Every variable keeps its type, whatever is stopped, started, interrupted or killed.
THEOREM TypeCorrect == Spec => []TypeOK
<1>1. IInv => TypeOK
  BY DEF IInv
<1>2. QED
  BY <1>1, Invariance, PTL

\* A snapshot tagged consistent is taken with the apps of its plan down, but for those
\* that an administrator or a run on another repository started since.
THEOREM SnapshotsAreConsistent == Spec => []ConsistentStopped
<1>1. IInv => ConsistentStopped
  BY DEF IInv, OneNow, AllLooked, Looked, NoneLeft, ConsistentStopped
<1>2. QED
  BY <1>1, Invariance, PTL
=============================================================================
