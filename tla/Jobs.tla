-------------------------------- MODULE Jobs --------------------------------
(***************************************************************************)
(* The asynchronous jobs: file operations and starts and stops of apps.    *)
(*                                                                         *)
(* The backend writes a row (pending), then publishes the job to a         *)
(* JetStream work queue (backend/src/nats.ts).  The worker fetches one     *)
(* message per free slot and hands it to one of two lanes, which run their *)
(* jobs one at a time (root-worker/main.go): run, acknowledge, publish the *)
(* result on a plain subject, which only a backend that listens receives.  *)
(* A message that was fetched and never acknowledged, because the worker   *)
(* died, is delivered again, up to MaxDeliver times.                       *)
(*                                                                         *)
(* The stream is a file of the NATS server: it outlives both processes,    *)
(* and each of the two may stop and start at any point.                    *)
(***************************************************************************)
EXTENDS Naturals, Sequences, FiniteSets, SequencesExt

CONSTANTS FileJobs,       \* jobs of the file lane
          ContainerJobs,  \* jobs of the container lane
          MaxInFlight,    \* maxJobsInFlight
          MaxDeliver,     \* nats.MaxDeliver
          MaxCrashes,     \* bound on stops of either process and on trouble with NATS
          None            \* no job

JobIds == FileJobs \cup ContainerJobs

ASSUME JobsAssumption ==
    /\ FileJobs \cap ContainerJobs = {}
    /\ IsFiniteSet(JobIds)
    /\ MaxInFlight \in Nat \ {0}
    /\ MaxDeliver \in Nat \ {0}
    /\ MaxCrashes \in Nat
    /\ None \notin JobIds

VARIABLES
    row,      \* Job.status in the database
    message,  \* the job's message in the stream
    tries,    \* how often it was delivered
    sent,     \* the messages never delivered yet, oldest first
    slots,    \* slots taken by the fetch loop
    lane,     \* the jobs handed to each lane and not begun
    busy,     \* the job each lane has in hand, and how far
    result,   \* the events on their way to the backend
    backend,  \* "up", "mark" (between connectNats and the subscription), "down"
    worker,   \* the worker runs
    ended,    \* history: the jobs of which a run came to its end
    done,     \* history: the jobs whose effect was made
    crashes

brokerVars == <<message, tries, sent>>
workerVars == <<slots, lane, busy, worker>>
backendVars == <<row, backend>>
history == <<ended, done>>
vars == <<row, message, tries, sent, slots, lane, busy, result, backend, worker,
          ended, done, crashes>>

Lanes == {"file", "container"}

\* jobLane
JobLane(j) == IF j \in ContainerJobs THEN "container" ELSE "file"

Free == [job |-> None, at |-> "free", ok |-> FALSE]

\* The jobs this run of the worker has fetched and not finished: each has a
\* goroutine that renews its deadline (keepInProgress).
InHand(j) ==
    \E l \in Lanes : busy[l].job = j \/ Contains(lane[l], j)

Crash == crashes < MaxCrashes /\ crashes' = crashes + 1

----------------------------------------------------------------------------
(* The backend: publishJob, the result events, and the start. *)

\* prisma.job.create
CreateRow(j) ==
    /\ backend = "up"
    /\ row[j] = "none"
    /\ row' = [row EXCEPT ![j] = "pending"]
    /\ UNCHANGED <<brokerVars, workerVars, result, backend, history, crashes>>

\* js.publish, on behalf of the call that created the row.
PublishJob(j) ==
    /\ backend = "up"
    /\ row[j] = "pending" /\ message[j] = "none"
    /\ message' = [message EXCEPT ![j] = "stored"]
    /\ sent' = Append(sent, j)
    /\ UNCHANGED <<backendVars, workerVars, tries, result, history, crashes>>

\* startEventSubscriber: the row takes what the event says.
HandleResult ==
    /\ backend = "up"
    /\ result # <<>>
    /\ row' = [row EXCEPT ![Head(result).job] = Head(result).status]
    /\ result' = Tail(result)
    /\ UNCHANGED <<brokerVars, workerVars, backend, history, crashes>>

\* An event nobody listens to is gone.
BackendStops ==
    /\ backend # "down"
    /\ backend' = "down"
    /\ result' = <<>>
    /\ Crash
    /\ UNCHANGED <<row, brokerVars, workerVars, history>>

\* connectNats: "they will never receive their result event".
BackendStarts ==
    /\ backend = "down"
    /\ backend' = "mark"
    /\ row' = [j \in JobIds |-> IF row[j] = "pending" THEN "failed" ELSE row[j]]
    /\ UNCHANGED <<brokerVars, workerVars, result, history, crashes>>

BackendSubscribes ==
    /\ backend = "mark"
    /\ backend' = "up"
    /\ UNCHANGED <<row, brokerVars, workerVars, result, history, crashes>>

----------------------------------------------------------------------------
(* JetStream, the durable pull consumer "root-worker" with explicit acks. *)

\* Delivered again, and before what was never delivered.
Redeliverable == {j \in JobIds : message[j] = "expired"}

Deliverable(j) ==
    \/ j \in Redeliverable
    \/ Redeliverable = {} /\ sent # <<>> /\ j = Head(sent)

\* The deadline of a delivered message passes: nobody renews it any more.
Expire(j) ==
    /\ message[j] = "delivered"
    /\ ~InHand(j)
    /\ message' = [message EXCEPT ![j] = IF tries[j] < MaxDeliver THEN "expired" ELSE "dead"]
    /\ UNCHANGED <<backendVars, workerVars, tries, sent, result, history, crashes>>

\* Or the renewals do not arrive, with NATS out of reach for 30 seconds.
ExpireInHand(j) ==
    /\ message[j] = "delivered"
    /\ InHand(j)
    /\ message' = [message EXCEPT ![j] = IF tries[j] < MaxDeliver THEN "expired" ELSE "dead"]
    /\ Crash
    /\ UNCHANGED <<backendVars, workerVars, tries, sent, result, history>>

----------------------------------------------------------------------------
(* The worker: runJobs, handleTask and handleDockerTask. *)

\* MUTANT: the message is acknowledged as soon as it is fetched.
FetchAck(j) ==
    /\ worker
    /\ slots < MaxInFlight
    /\ Deliverable(j)
    /\ slots' = slots + 1
    /\ lane' = [lane EXCEPT ![JobLane(j)] = Append(@, j)]
    /\ message' = [message EXCEPT ![j] = "gone"]
    /\ tries' = [tries EXCEPT ![j] = @ + 1]
    /\ sent' = IF j \in Redeliverable THEN sent ELSE Tail(sent)
    /\ UNCHANGED <<backendVars, busy, worker, result, history, crashes>>

\* One slot, one message, into its lane.  A fetch that times out frees its slot.
Fetch(j) ==
    /\ worker
    /\ slots < MaxInFlight
    /\ Deliverable(j)
    /\ slots' = slots + 1
    /\ lane' = [lane EXCEPT ![JobLane(j)] = Append(@, j)]
    /\ message' = [message EXCEPT ![j] = "delivered"]
    /\ tries' = [tries EXCEPT ![j] = @ + 1]
    /\ sent' = IF j \in Redeliverable THEN sent ELSE Tail(sent)
    /\ UNCHANGED <<backendVars, busy, worker, result, history, crashes>>

Begin(l) ==
    /\ worker
    /\ busy[l].at = "free"
    /\ lane[l] # <<>>
    /\ busy' = [busy EXCEPT ![l] = [job |-> Head(lane[l]), at |-> "run", ok |-> FALSE]]
    /\ lane' = [lane EXCEPT ![l] = Tail(@)]
    /\ UNCHANGED <<backendVars, brokerVars, slots, worker, result, history, crashes>>

\* The operation succeeds and its effect is made, or fails without one.  What
\* was made once (a move, say) may fail the next time.
Run(l) ==
    /\ worker
    /\ busy[l].at = "run"
    /\ \E ok \in BOOLEAN :
          /\ busy' = [busy EXCEPT ![l].at = "ack", ![l].ok = ok]
          /\ done' = IF ok THEN done \cup {busy[l].job} ELSE done
    /\ UNCHANGED <<backendVars, brokerVars, slots, lane, worker, result, ended, crashes>>

\* msg.Ack or, for a failure, msg.Term: either way the message is consumed.
\* The error is not looked at: an acknowledgement may be lost with NATS.
Settle(l) ==
    /\ worker
    /\ busy[l].at = "ack"
    /\ busy' = [busy EXCEPT ![l].at = "report"]
    /\ ended' = ended \cup {busy[l].job}
    /\ \/ message' = [message EXCEPT ![busy[l].job] = "gone"] /\ UNCHANGED crashes
       \/ UNCHANGED message /\ Crash
    /\ UNCHANGED <<backendVars, tries, sent, slots, lane, worker, result, done>>

Event(l) ==
    [job |-> busy[l].job, status |-> IF busy[l].ok THEN "completed" ELSE "failed"]

\* MUTANT: the slot of a failed job is not given back.
ReportKeepsSlot(l) ==
    /\ worker
    /\ busy[l].at = "report"
    /\ result' = IF backend = "up" THEN Append(result, Event(l)) ELSE result
    /\ busy' = [busy EXCEPT ![l] = Free]
    /\ slots' = IF busy[l].ok THEN slots - 1 ELSE slots
    /\ UNCHANGED <<backendVars, brokerVars, lane, worker, history, crashes>>

\* MUTANT: every job is reported completed.
ReportCompleted(l) ==
    /\ worker
    /\ busy[l].at = "report"
    /\ result' = IF backend = "up"
                 THEN Append(result, [job |-> busy[l].job, status |-> "completed"])
                 ELSE result
    /\ busy' = [busy EXCEPT ![l] = Free]
    /\ slots' = slots - 1
    /\ UNCHANGED <<backendVars, brokerVars, lane, worker, history, crashes>>

\* publishJobResult, then the heartbeat stops and the slot is free again.
Report(l) ==
    /\ worker
    /\ busy[l].at = "report"
    /\ result' = IF backend = "up" THEN Append(result, Event(l)) ELSE result
    /\ busy' = [busy EXCEPT ![l] = Free]
    /\ slots' = slots - 1
    /\ UNCHANGED <<backendVars, brokerVars, lane, worker, history, crashes>>

\* The process stops: what it had in hand is forgotten, not acknowledged.
WorkerStops ==
    /\ worker
    /\ worker' = FALSE
    /\ slots' = 0
    /\ lane' = [l \in Lanes |-> <<>>]
    /\ busy' = [l \in Lanes |-> Free]
    /\ Crash
    /\ UNCHANGED <<backendVars, brokerVars, result, history>>

WorkerStarts ==
    /\ ~worker
    /\ worker' = TRUE
    /\ UNCHANGED <<backendVars, brokerVars, slots, lane, busy, result, history, crashes>>

----------------------------------------------------------------------------
Init ==
    /\ row = [j \in JobIds |-> "none"]
    /\ message = [j \in JobIds |-> "none"]
    /\ tries = [j \in JobIds |-> 0]
    /\ sent = <<>>
    /\ slots = 0
    /\ lane = [l \in Lanes |-> <<>>]
    /\ busy = [l \in Lanes |-> Free]
    /\ result = <<>>
    /\ backend = "up"
    /\ worker = TRUE
    /\ ended = {}
    /\ done = {}
    /\ crashes = 0

LaneStep(l) == Begin(l) \/ Run(l) \/ Settle(l) \/ Report(l)

FetchStep == \E j \in JobIds : Fetch(j)

BackendUp == BackendStarts \/ BackendSubscribes

Next ==
    \/ \E j \in JobIds : CreateRow(j) \/ PublishJob(j) \/ Expire(j) \/ ExpireInHand(j)
    \/ FetchStep
    \/ \E l \in Lanes : LaneStep(l)
    \/ HandleResult
    \/ BackendStops \/ BackendUp
    \/ WorkerStops \/ WorkerStarts

Spec == Init /\ [][Next]_vars

\* The fetch loop and the lanes are goroutines that never wait for each other
\* but through slots and lanes; a job ends; deadlines pass; systemd starts the
\* worker again.  Nothing is assumed of the backend.
FairSpec ==
    /\ Spec
    /\ WF_vars(FetchStep)
    /\ \A l \in Lanes : WF_vars(LaneStep(l))
    /\ \A j \in JobIds : WF_vars(Expire(j))
    /\ WF_vars(WorkerStarts)

----------------------------------------------------------------------------
(* Properties. *)

\* TYPE: every variable holds a value the program can give it.
TypeOK ==
    /\ row \in [JobIds -> {"none", "pending", "completed", "failed"}]
    /\ message \in [JobIds -> {"none", "stored", "delivered", "expired", "gone", "dead"}]
    /\ tries \in [JobIds -> 0 .. MaxDeliver]
    /\ sent \in Seq(JobIds)
    /\ slots \in 0 .. MaxInFlight
    /\ lane \in [Lanes -> Seq(JobIds)]
    /\ busy \in [Lanes -> [job : JobIds \cup {None}, ok : BOOLEAN,
                           at : {"free", "run", "ack", "report"}]]
    /\ result \in Seq([job : JobIds, status : {"completed", "failed"}])
    /\ backend \in {"up", "mark", "down"}
    /\ worker \in BOOLEAN
    /\ ended \in SUBSET JobIds
    /\ done \in SUBSET JobIds
    /\ crashes \in 0 .. MaxCrashes

\* A job shown as completed was done, whatever was delivered twice, and
\* whichever of the two processes stopped in between.
CompletedDone == \A j \in JobIds : row[j] = "completed" => j \in done

\* The jobs of a lane: waiting, and in hand.
Held(l) == IF busy[l].at = "free" THEN Len(lane[l]) ELSE Len(lane[l]) + 1

\* A slot stands for one job in hand, waiting in a lane or begun: none is leaked
\* by a failure, none is given back twice, and a job delivered twice has two.
SlotsBalanced == slots = Held("file") + Held("container")

\* A published job comes to an end: its message leaves the queue behind a run that came
\* to its end, or it has been delivered MaxDeliver times.  A worker that dies with jobs in
\* hand loses none of them; the two lanes share the slots, and no failure and no death of
\* the worker takes one for good.
JobSettles ==
    \A j \in JobIds :
        (message[j] = "stored")
            ~> ((message[j] = "gone" /\ j \in ended) \/ message[j] = "dead")

\* A row marked failed at the start of the backend stays so: "They will never
\* receive their result event since the server restarted" (nats.ts:69-70).
FailedIsFinal == [][\A j \in JobIds : row[j] = "failed" => row'[j] = "failed"]_vars
============================================================================
