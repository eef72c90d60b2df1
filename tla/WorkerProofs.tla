---------------------------- MODULE WorkerProofs ----------------------------
(***************************************************************************)
(* Two parts of the worker.                                                *)
(*                                                                         *)
(* Jobs: for any set of jobs, any number of slots and of deliveries, and   *)
(* however often either process stops: the types, that a completed job was *)
(* done, and that no slot is leaked or given back twice.                   *)
(*                                                                         *)
(* Expansions: for any volumes, sizes, plans, processes and faults: the    *)
(* types, and that an expansion marked as done has grown.                  *)
(***************************************************************************)
EXTENDS Jobs, Expansions, SequenceTheorems, TLAPS

\* The stream holds, once each, exactly messages that were never delivered; a
\* message to be delivered again has deliveries left.
Stream ==
    /\ \A i \in 1 .. Len(sent) : message[sent[i]] = "stored"
    /\ \A i, k \in 1 .. Len(sent) : sent[i] = sent[k] => i = k
    /\ \A j \in JobIds : message[j] \in {"none", "stored"} => tries[j] = 0
    /\ \A j \in JobIds : message[j] = "expired" => tries[j] < MaxDeliver

\* What a lane has in hand is a job that was delivered, and a stopped worker has
\* nothing in hand.
LanesHold ==
    /\ \A l \in Lanes :
           /\ busy[l].at # "free" => busy[l].job \in JobIds /\ tries[busy[l].job] > 0
           /\ \A i \in 1 .. Len(lane[l]) : tries[lane[l][i]] > 0
    /\ ~worker => slots = 0

\* Where the news of a success may be on its way, the job was done.
NewsTrue ==
    /\ \A l \in Lanes : busy[l].ok => busy[l].job \in done
    /\ \A i \in 1 .. Len(result) :
           result[i].status = "completed" => result[i].job \in done

IInv ==
    /\ TypeOK /\ Stream /\ LanesHold /\ SlotsBalanced
    /\ NewsTrue /\ CompletedDone

BusyRec == [job : JobIds \cup {None}, ok : BOOLEAN, at : {"free", "run", "ack", "report"}]

Events == [job : JobIds, status : {"completed", "failed"}]

LEMMA FreeType == Free \in BusyRec /\ Free.at = "free" /\ ~Free.ok
  BY DEF Free, BusyRec

LEMMA LaneType == \A j \in JobIds : JobLane(j) \in Lanes
  BY DEF JobLane, Lanes

LEMMA InitInv == Init => IInv
<1> SUFFICES ASSUME Init PROVE IInv
  OBVIOUS
<1>1. TypeOK
  BY JobsAssumption, FreeType DEF Init, TypeOK, BusyRec
<1>2. Stream /\ LanesHold /\ NewsTrue
  BY FreeType DEF Init, Stream, LanesHold, NewsTrue
<1>3. SlotsBalanced
  BY FreeType DEF Init, SlotsBalanced, Held, Lanes
<1>4. CompletedDone
  BY DEF Init, CompletedDone
<1>5. QED
  BY <1>1, <1>2, <1>3, <1>4 DEF IInv

\* What the first message of the queue being taken leaves.
LEMMA TakeHead ==
  ASSUME NEW S, NEW q \in Seq(S), q # <<>>
  PROVE  /\ Head(q) \in S /\ Tail(q) \in Seq(S)
         /\ Len(Tail(q)) = Len(q) - 1 /\ Len(q) > 0
         /\ Head(q) = q[1]
         /\ \A i \in 1 .. Len(Tail(q)) : Tail(q)[i] = q[i + 1]
  OBVIOUS

LEMMA PutLast ==
  ASSUME NEW S, NEW q \in Seq(S), NEW e \in S
  PROVE  /\ Append(q, e) \in Seq(S)
         /\ Len(Append(q, e)) = Len(q) + 1
         /\ \A i \in 1 .. Len(q) : Append(q, e)[i] = q[i]
         /\ Append(q, e)[Len(q) + 1] = e
  OBVIOUS

----------------------------------------------------------------------------
(* The backend. *)

LEMMA CreateRowInv == ASSUME IInv, NEW j \in JobIds, CreateRow(j) PROVE IInv'
<1> USE DEF IInv
<1>1. TypeOK'
  BY DEF TypeOK, CreateRow, brokerVars, workerVars, history
<1>2. (Stream /\ LanesHold /\ NewsTrue /\ SlotsBalanced)'
  BY DEF Stream, LanesHold, NewsTrue, SlotsBalanced, Held,
         CreateRow, brokerVars, workerVars, history
<1>3. CompletedDone'
  BY DEF TypeOK, CompletedDone, CreateRow, history
<1>4. QED
  BY <1>1, <1>2, <1>3

LEMMA PublishJobInv == ASSUME IInv, NEW j \in JobIds, PublishJob(j) PROVE IInv'
<1> USE DEF IInv
<1>1. sent \in Seq(JobIds) /\ sent' = Append(sent, j)
  BY DEF TypeOK, PublishJob
<1>2. TypeOK'
  BY <1>1, PutLast DEF TypeOK, PublishJob, backendVars, workerVars, history
<1>3. \A i \in 1 .. Len(sent) : sent[i] \in JobIds /\ sent[i] # j
  BY <1>1 DEF TypeOK, Stream, PublishJob
<1>4. Stream'
  <2>1. message' = [message EXCEPT ![j] = "stored"] /\ tries' = tries /\ message[j] = "none"
    BY DEF PublishJob
  <2>2. message \in [JobIds -> {"none", "stored", "delivered", "expired", "gone", "dead"}]
    BY DEF TypeOK
  <2>3. /\ Len(sent') = Len(sent) + 1 /\ Len(sent) \in Nat
        /\ \A i \in 1 .. Len(sent) : sent'[i] = sent[i]
        /\ sent'[Len(sent) + 1] = j
    BY <1>1, PutLast
  <2>4. \A i \in 1 .. Len(sent') : message'[sent'[i]] = "stored"
    BY <2>1, <2>2, <2>3, <1>3 DEF Stream
  <2>5. \A i, k \in 1 .. Len(sent') : sent'[i] = sent'[k] => i = k
    BY <2>3, <1>3 DEF Stream
  <2>6. /\ \A i \in JobIds : message'[i] \in {"none", "stored"} => tries'[i] = 0
        /\ \A i \in JobIds : message'[i] = "expired" => tries'[i] < MaxDeliver
    BY <2>1, <2>2 DEF Stream
  <2>7. QED
    BY <2>4, <2>5, <2>6 DEF Stream
<1>5. (LanesHold /\ NewsTrue /\ SlotsBalanced /\ CompletedDone)'
  BY DEF LanesHold, NewsTrue, SlotsBalanced, Held, CompletedDone,
         PublishJob, backendVars, workerVars, history
<1>6. QED
  BY <1>2, <1>4, <1>5

LEMMA HandleResultInv == ASSUME IInv, HandleResult PROVE IInv'
<1> USE DEF IInv
<1>1. /\ result \in Seq(Events) /\ result # <<>> /\ result' = Tail(result)
      /\ row' = [row EXCEPT ![Head(result).job] = Head(result).status]
  BY DEF TypeOK, HandleResult, Events
<1>2. /\ Head(result) \in Events /\ Head(result) = result[1]
      /\ result' \in Seq(Events) /\ Len(result) > 0
      /\ Len(result') = Len(result) - 1 /\ Len(result) \in Nat
      /\ \A i \in 1 .. Len(result') : result'[i] = result[i + 1]
  BY <1>1, TakeHead
<1>3. TypeOK'
  BY <1>1, <1>2 DEF TypeOK, HandleResult, Events, brokerVars, workerVars, history
<1>4. (Stream /\ LanesHold /\ SlotsBalanced)'
  BY DEF Stream, LanesHold, SlotsBalanced, Held,
         HandleResult, brokerVars, workerVars, history
<1>5. NewsTrue'
  <2>1. \A i \in 1 .. Len(result') :
            result'[i].status = "completed" => result'[i].job \in done
    BY <1>2 DEF NewsTrue
  <2>2. busy' = busy /\ done' = done
    BY DEF HandleResult, workerVars, history
  <2>3. QED
    BY <2>1, <2>2 DEF NewsTrue
<1>6. CompletedDone'
  <2>1. Head(result).status = "completed" => Head(result).job \in done
    BY <1>2 DEF NewsTrue
  <2>2. done' = done
    BY DEF HandleResult, history
  <2>3. QED
    BY <1>1, <2>1, <2>2 DEF CompletedDone, TypeOK
<1>7. QED
  BY <1>3, <1>4, <1>5, <1>6

LEMMA BackendInv ==
  ASSUME IInv, BackendStops \/ BackendStarts \/ BackendSubscribes
  PROVE  IInv'
<1> USE DEF IInv
<1>1. TypeOK'
  <2>1. CASE BackendStops
    BY <2>1, JobsAssumption DEF TypeOK, BackendStops, Crash, brokerVars, workerVars, history
  <2>2. CASE BackendStarts
    BY <2>2 DEF TypeOK, BackendStarts, brokerVars, workerVars, history
  <2>3. CASE BackendSubscribes
    BY <2>3 DEF TypeOK, BackendSubscribes, brokerVars, workerVars, history
  <2>4. QED
    BY <2>1, <2>2, <2>3
<1>2. /\ UNCHANGED <<brokerVars, workerVars, history>>
      /\ result' = result \/ result' = <<>>
      /\ \A j \in JobIds : row'[j] = "completed" => row[j] = "completed"
  BY DEF BackendStops, BackendStarts, BackendSubscribes
<1>3. (Stream /\ LanesHold /\ SlotsBalanced)'
  BY <1>2 DEF Stream, LanesHold, SlotsBalanced, Held,
              brokerVars, workerVars, history
<1>4. NewsTrue' /\ CompletedDone'
  BY <1>2 DEF NewsTrue, CompletedDone, workerVars, history
<1>5. QED
  BY <1>1, <1>3, <1>4

----------------------------------------------------------------------------
(* The stream. *)

LEMMA ExpireInv ==
  ASSUME IInv, NEW j \in JobIds, Expire(j) \/ ExpireInHand(j)
  PROVE  IInv'
<1> USE DEF IInv
<1>1. /\ message[j] = "delivered"
      /\ message' = [message EXCEPT ![j] =
                        IF tries[j] < MaxDeliver THEN "expired" ELSE "dead"]
      /\ UNCHANGED <<backendVars, workerVars, tries, sent, result, history>>
      /\ crashes' = crashes \/ Crash
  BY DEF Expire, ExpireInHand
<1>2. message \in [JobIds -> {"none", "stored", "delivered", "expired", "gone", "dead"}]
  BY DEF TypeOK
<1>3. TypeOK'
  BY <1>1, <1>2, JobsAssumption DEF TypeOK, Crash, backendVars, workerVars, history
<1>4. Stream'
  <2>1. \A i \in 1 .. Len(sent) : sent[i] \in JobIds /\ sent[i] # j
    BY <1>1 DEF TypeOK, Stream
  <2>2. QED
    BY <1>1, <1>2, <2>1 DEF Stream
<1>5. (LanesHold /\ SlotsBalanced /\ NewsTrue /\ CompletedDone)'
  BY <1>1 DEF LanesHold, SlotsBalanced, Held, NewsTrue, CompletedDone,
              backendVars, workerVars, history
<1>6. QED
  BY <1>3, <1>4, <1>5
----------------------------------------------------------------------------
(* The worker. *)

\* What is delivered has a delivery left, and leaves the queue's head if it was
\* never delivered.
LEMMA DeliverableHasTries ==
  ASSUME IInv, NEW j \in JobIds, Deliverable(j)
  PROVE  /\ tries[j] \in Nat /\ tries[j] < MaxDeliver
         /\ message[j] \in {"stored", "expired"}
<1> USE DEF IInv
<1>1. CASE j \in Redeliverable
  BY <1>1, JobsAssumption DEF Redeliverable, Stream, TypeOK
<1>2. CASE sent # <<>> /\ j = Head(sent)
  <2>1. sent \in Seq(JobIds)
    BY DEF TypeOK
  <2>2. Len(sent) \in Nat /\ Len(sent) > 0 /\ j = sent[1]
    BY <1>2, <2>1
  <2>3. message[j] = "stored"
    BY <2>2 DEF Stream
  <2>4. tries[j] = 0
    BY <2>3 DEF Stream
  <2>5. QED
    BY <2>3, <2>4, JobsAssumption
<1>3. QED
  BY <1>1, <1>2 DEF Deliverable

LEMMA FetchInv == ASSUME IInv, NEW j \in JobIds, Fetch(j) PROVE IInv'
<1> USE DEF IInv
<1> DEFINE l == JobLane(j)
<1>1. /\ tries[j] \in Nat /\ tries[j] < MaxDeliver
      /\ message[j] \in {"stored", "expired"}
  BY DeliverableHasTries DEF Fetch
<1>2. l \in Lanes
  BY LaneType
<1>3. /\ slots < MaxInFlight /\ slots' = slots + 1 /\ worker
      /\ lane' = [lane EXCEPT ![l] = Append(lane[l], j)]
      /\ message' = [message EXCEPT ![j] = "delivered"]
      /\ tries' = [tries EXCEPT ![j] = tries[j] + 1]
      /\ UNCHANGED <<row, backend, busy, worker, result, ended, done, crashes>>
  BY DEF Fetch, backendVars, history
<1>4. /\ message \in [JobIds -> {"none", "stored", "delivered", "expired", "gone", "dead"}]
      /\ tries \in [JobIds -> 0 .. MaxDeliver]
      /\ sent \in Seq(JobIds) /\ lane \in [Lanes -> Seq(JobIds)]
      /\ slots \in 0 .. MaxInFlight /\ MaxDeliver \in Nat /\ MaxInFlight \in Nat
  BY JobsAssumption DEF TypeOK
<1>5. lane[l] \in Seq(JobIds)
  BY <1>2, <1>4
<1>6. Append(lane[l], j) \in Seq(JobIds) /\ Len(Append(lane[l], j)) = Len(lane[l]) + 1
  BY <1>5, PutLast
<1>7. /\ sent' \in Seq(JobIds)
      /\ \A i \in 1 .. Len(sent') : sent'[i] # j /\ message[sent'[i]] = "stored"
      /\ \A i, k \in 1 .. Len(sent') : sent'[i] = sent'[k] => i = k
      /\ \A i \in 1 .. Len(sent') : sent'[i] \in JobIds
  <2>1. CASE j \in Redeliverable
    <3>1. sent' = sent
      BY <2>1 DEF Fetch
    <3>2. message[j] = "expired"
      BY <2>1 DEF Redeliverable
    <3>3. QED
      BY <3>1, <3>2, <1>4 DEF Stream
  <2>2. CASE j \notin Redeliverable
    <3>1. sent' = Tail(sent) /\ sent # <<>> /\ j = Head(sent)
      BY <2>2 DEF Fetch, Deliverable
    <3>2. /\ sent' \in Seq(JobIds) /\ j = sent[1] /\ Len(sent) > 0 /\ Len(sent) \in Nat
          /\ Len(sent') = Len(sent) - 1
          /\ \A i \in 1 .. Len(sent') : sent'[i] = sent[i + 1]
      BY <3>1, <1>4, TakeHead
    <3>3. \A i \in 1 .. Len(sent') : message[sent'[i]] = "stored" /\ sent'[i] # j
      BY <3>2 DEF Stream
    <3>4. \A i, k \in 1 .. Len(sent') : sent'[i] = sent'[k] => i = k
      BY <3>2 DEF Stream
    <3>5. \A i \in 1 .. Len(sent') : sent'[i] \in JobIds
      BY <3>2
    <3>6. QED
      BY <3>2, <3>3, <3>4, <3>5
  <2>3. QED
    BY <2>1, <2>2
<1>8. TypeOK'
  <2>1. tries' \in [JobIds -> 0 .. MaxDeliver]
    BY <1>1, <1>3, <1>4
  <2>2. lane' \in [Lanes -> Seq(JobIds)]
    BY <1>3, <1>4, <1>6
  <2>3. slots' \in 0 .. MaxInFlight
    BY <1>3, <1>4
  <2>4. message' \in [JobIds -> {"none", "stored", "delivered", "expired", "gone", "dead"}]
    BY <1>3, <1>4
  <2>5. QED
    BY <2>1, <2>2, <2>3, <2>4, <1>3, <1>7 DEF TypeOK
<1>9. Stream'
  BY <1>1, <1>3, <1>4, <1>7 DEF Stream
<1>10. (LanesHold /\ NewsTrue /\ CompletedDone)'
  <2>1. \A k \in JobIds : tries[k] > 0 \/ k = j => tries'[k] > 0
    BY <1>1, <1>3, <1>4
  <2>2. \A m \in Lanes : \A i \in 1 .. Len(lane[m]) : lane[m][i] \in JobIds
    BY <1>4
  <2>3. \A m \in Lanes : \A i \in 1 .. Len(lane'[m]) :
            \/ lane'[m][i] = j
            \/ i \in 1 .. Len(lane[m]) /\ lane'[m][i] = lane[m][i]
    <3>1. \A m \in Lanes \ {l} : lane'[m] = lane[m]
      BY <1>3, <1>4
    <3>2. lane'[l] = Append(lane[l], j)
      BY <1>2, <1>3, <1>4
    <3>3. \A i \in 1 .. Len(lane'[l]) :
              \/ lane'[l][i] = j
              \/ i \in 1 .. Len(lane[l]) /\ lane'[l][i] = lane[l][i]
      BY <3>2, <1>5, PutLast
    <3>4. QED
      BY <3>1, <3>3
  <2>4. LanesHold'
    <3>1. \A m \in Lanes : \A i \in 1 .. Len(lane'[m]) : tries'[lane'[m][i]] > 0
      BY <2>1, <2>2, <2>3 DEF LanesHold
    <3>2. \A m \in Lanes : busy[m].at # "free" =>
              busy[m].job \in JobIds /\ tries'[busy[m].job] > 0
      BY <2>1 DEF LanesHold
    <3>3. QED
      BY <3>1, <3>2, <1>3 DEF LanesHold
  <2>5. QED
    BY <2>4, <1>3 DEF NewsTrue, CompletedDone
<1>11. SlotsBalanced'
  <2>1. Len(lane["file"]) \in Nat /\ Len(lane["container"]) \in Nat
    BY <1>4 DEF Lanes
  <2>2. Held(l)' = Held(l) + 1
    <3>1. Len(lane[l]) \in Nat
      BY <1>5
    <3>2. Len(lane'[l]) = Len(lane[l]) + 1
      BY <1>2, <1>3, <1>4, <1>6
    <3>3. QED
      BY <3>1, <3>2, <1>3 DEF Held
  <2>3. \A m \in Lanes \ {l} : Held(m)' = Held(m)
    BY <1>3, <1>4 DEF Held
  <2>4. Held("file") \in Nat /\ Held("container") \in Nat
    BY <2>1 DEF Held
  <2>5. CASE l = "file"
    BY <2>2, <2>3, <2>4, <2>5, <1>3 DEF SlotsBalanced, Lanes
  <2>6. CASE l = "container"
    BY <2>2, <2>3, <2>4, <2>6, <1>3 DEF SlotsBalanced, Lanes
  <2>7. QED
    BY <2>5, <2>6, <1>2 DEF Lanes
<1>12. QED
  BY <1>8, <1>9, <1>10, <1>11

LEMMA BeginInv == ASSUME IInv, NEW l \in Lanes, Begin(l) PROVE IInv'
<1> USE DEF IInv
<1> DEFINE b == [job |-> Head(lane[l]), at |-> "run", ok |-> FALSE]
<1>1. /\ worker /\ busy[l].at = "free" /\ lane[l] # <<>>
      /\ busy' = [busy EXCEPT ![l] = b] /\ lane' = [lane EXCEPT ![l] = Tail(lane[l])]
      /\ UNCHANGED <<row, backend, message, tries, sent, slots, worker, result,
                     ended, done, crashes>>
  BY DEF Begin, backendVars, brokerVars, history
<1>2. lane \in [Lanes -> Seq(JobIds)] /\ busy \in [Lanes -> BusyRec]
  BY DEF TypeOK, BusyRec
<1>3. /\ Head(lane[l]) \in JobIds /\ Tail(lane[l]) \in Seq(JobIds)
      /\ Len(Tail(lane[l])) = Len(lane[l]) - 1
  <2>1. lane[l] \in Seq(JobIds) /\ lane[l] # <<>>
    BY <1>1, <1>2
  <2>2. QED
    BY <2>1, TakeHead
<1>4. b \in BusyRec
  BY <1>3 DEF BusyRec
<1>5. TypeOK'
  <2>1. lane' \in [Lanes -> Seq(JobIds)] /\ busy' \in [Lanes -> BusyRec]
    BY <1>1, <1>2, <1>3, <1>4
  <2>2. QED
    BY <2>1, <1>1 DEF TypeOK, BusyRec
<1>6. Stream'
  BY <1>1 DEF Stream
<1>7. /\ busy'[l] = b /\ \A m \in Lanes \ {l} : busy'[m] = busy[m]
  BY <1>1, <1>2
<1>8. LanesHold' /\ NewsTrue'
  <2>1. lane[l] \in Seq(JobIds) /\ lane[l] # <<>>
    BY <1>1, <1>2
  <2>2. /\ Head(lane[l]) = lane[l][1] /\ Len(lane[l]) > 0 /\ Len(lane[l]) \in Nat
        /\ \A i \in 1 .. Len(Tail(lane[l])) : Tail(lane[l])[i] = lane[l][i + 1]
    BY <2>1, TakeHead
  <2>3. tries[Head(lane[l])] > 0
    BY <2>2 DEF LanesHold
  <2>4. \A i \in 1 .. Len(Tail(lane[l])) : tries[Tail(lane[l])[i]] > 0
    BY <2>2, <1>3 DEF LanesHold
  <2>5. lane'[l] = Tail(lane[l]) /\ \A m \in Lanes \ {l} : lane'[m] = lane[m]
    BY <1>1, <1>2
  <2>6. LanesHold'
    <3>1. /\ tries' = tries /\ worker' = worker /\ slots' = slots /\ worker
          /\ b.job = Head(lane[l]) /\ b.job \in JobIds
      BY <1>1, <1>3
    <3>2. ASSUME NEW m \in Lanes
          PROVE  /\ busy'[m].at # "free" =>
                        busy'[m].job \in JobIds /\ tries[busy'[m].job] > 0
                 /\ \A i \in 1 .. Len(lane'[m]) : tries[lane'[m][i]] > 0
      <4>1. CASE m = l
        BY <4>1, <3>1, <2>3, <2>4, <2>5, <1>7
      <4>2. CASE m # l
        BY <4>2, <2>5, <1>7 DEF LanesHold
      <4>3. QED
        BY <4>1, <4>2
    <3>3. QED
      BY <3>1, <3>2 DEF LanesHold
  <2>7. NewsTrue'
    BY <1>1, <1>7 DEF NewsTrue
  <2>8. QED
    BY <2>6, <2>7
<1>9. SlotsBalanced'
  <2>1. \A m \in Lanes : Len(lane[m]) \in Nat
    BY <1>2
  <2>2. Held(l)' = Held(l)
    BY <2>1, <1>1, <1>2, <1>3, <1>7 DEF Held
  <2>3. \A m \in Lanes \ {l} : Held(m)' = Held(m)
    BY <1>1, <1>2, <1>7 DEF Held
  <2>4. QED
    BY <2>2, <2>3, <1>1 DEF SlotsBalanced, Lanes
<1>10. CompletedDone'
  BY <1>1 DEF CompletedDone
<1>11. QED
  BY <1>5, <1>6, <1>8, <1>9, <1>10

LEMMA RunInv == ASSUME IInv, NEW l \in Lanes, Run(l) PROVE IInv'
<1> USE DEF IInv
<1>1. PICK ok \in BOOLEAN :
          /\ busy' = [busy EXCEPT ![l].at = "ack", ![l].ok = ok]
          /\ done' = IF ok THEN done \cup {busy[l].job} ELSE done
  BY DEF Run
<1>2. /\ worker /\ busy[l].at = "run"
      /\ UNCHANGED <<row, backend, message, tries, sent, slots, lane, worker,
                     result, ended, crashes>>
  BY DEF Run, backendVars, brokerVars
<1>3. busy \in [Lanes -> BusyRec] /\ busy[l].job \in JobIds
  BY <1>2 DEF TypeOK, BusyRec, LanesHold
<1>4. /\ busy' \in [Lanes -> BusyRec]
      /\ busy'[l].at = "ack" /\ busy'[l].ok = ok /\ busy'[l].job = busy[l].job
      /\ \A m \in Lanes \ {l} : busy'[m] = busy[m]
  BY <1>1, <1>3 DEF BusyRec
<1>5. done \subseteq done' /\ done' \in SUBSET JobIds /\ (ok => busy[l].job \in done')
  BY <1>1, <1>3 DEF TypeOK
<1>6. TypeOK'
  BY <1>2, <1>4, <1>5 DEF TypeOK, BusyRec
<1>7. (Stream)'
  BY <1>2 DEF Stream
<1>8. LanesHold'
  BY <1>2, <1>3, <1>4 DEF LanesHold
<1>9. NewsTrue'
  <2>1. \A m \in Lanes : busy'[m].ok => busy'[m].job \in done'
    BY <1>4, <1>5 DEF NewsTrue
  <2>2. QED
    BY <2>1, <1>2, <1>5 DEF NewsTrue
<1>10. SlotsBalanced'
  <2>1. \A m \in Lanes : Held(m)' = Held(m)
    BY <1>2, <1>4 DEF Held
  <2>2. QED
    BY <2>1, <1>2 DEF SlotsBalanced, Lanes
<1>11. CompletedDone'
  BY <1>2, <1>5 DEF CompletedDone
<1>12. QED
  BY <1>6, <1>7, <1>8, <1>9, <1>10, <1>11

LEMMA SettleInv == ASSUME IInv, NEW l \in Lanes, Settle(l) PROVE IInv'
<1> USE DEF IInv
<1>1. /\ worker /\ busy[l].at = "ack"
      /\ busy' = [busy EXCEPT ![l].at = "report"]
      /\ ended' = ended \cup {busy[l].job}
      /\ \/ message' = [message EXCEPT ![busy[l].job] = "gone"] /\ crashes' = crashes
         \/ message' = message /\ Crash
      /\ UNCHANGED <<row, backend, tries, sent, slots, lane, worker, result, done>>
  BY DEF Settle, backendVars
<1>2. /\ busy \in [Lanes -> BusyRec] /\ busy[l].job \in JobIds
      /\ message \in [JobIds -> {"none", "stored", "delivered", "expired", "gone", "dead"}]
  BY <1>1 DEF TypeOK, BusyRec, LanesHold
<1>3. /\ busy' \in [Lanes -> BusyRec]
      /\ busy'[l].at = "report" /\ busy'[l].ok = busy[l].ok /\ busy'[l].job = busy[l].job
      /\ \A m \in Lanes \ {l} : busy'[m] = busy[m]
  BY <1>1, <1>2 DEF BusyRec
<1>4. TypeOK'
  <2>1. message' \in [JobIds -> {"none", "stored", "delivered", "expired", "gone", "dead"}]
    BY <1>1, <1>2
  <2>2. crashes' \in 0 .. MaxCrashes
    BY <1>1, JobsAssumption DEF TypeOK, Crash
  <2>3. ended' \in SUBSET JobIds
    BY <1>1, <1>2 DEF TypeOK
  <2>4. QED
    BY <2>1, <2>2, <2>3, <1>1, <1>3 DEF TypeOK, BusyRec
<1>5. Stream'
  <2>1. message[busy[l].job] \notin {"none", "stored"}
    BY <1>1, <1>2 DEF Stream, LanesHold
  <2>2. \A i \in 1 .. Len(sent) : sent[i] # busy[l].job
    BY <2>1 DEF Stream
  <2>3. \A i \in 1 .. Len(sent) : sent[i] \in JobIds
    BY DEF TypeOK
  <2>4. CASE message' = [message EXCEPT ![busy[l].job] = "gone"]
    BY <2>2, <2>3, <2>4, <1>1, <1>2 DEF Stream
  <2>5. CASE message' = message
    BY <2>5, <1>1 DEF Stream
  <2>6. QED
    BY <2>4, <2>5, <1>1
<1>6. LanesHold' /\ NewsTrue'
  BY <1>1, <1>2, <1>3 DEF LanesHold, NewsTrue
<1>7. SlotsBalanced'
  <2>1. \A m \in Lanes : Held(m)' = Held(m)
    BY <1>1, <1>3 DEF Held
  <2>2. QED
    BY <2>1, <1>1 DEF SlotsBalanced, Lanes
<1>8. CompletedDone'
  BY <1>1, <1>2 DEF CompletedDone
<1>9. QED
  BY <1>4, <1>5, <1>6, <1>7, <1>8

LEMMA ReportInv == ASSUME IInv, NEW l \in Lanes, Report(l) PROVE IInv'
<1> USE DEF IInv
<1>1. /\ worker /\ busy[l].at = "report" /\ busy' = [busy EXCEPT ![l] = Free]
      /\ result' = (IF backend = "up" THEN Append(result, Event(l)) ELSE result)
      /\ slots' = slots - 1
      /\ UNCHANGED <<row, backend, message, tries, sent, lane, worker, ended, done, crashes>>
  BY DEF Report, backendVars, brokerVars, history
<1>2. /\ busy \in [Lanes -> BusyRec] /\ busy[l].job \in JobIds
      /\ result \in Seq(Events) /\ lane \in [Lanes -> Seq(JobIds)]
      /\ slots \in 0 .. MaxInFlight /\ MaxInFlight \in Nat
  BY <1>1, JobsAssumption DEF TypeOK, BusyRec, LanesHold, Events
<1>3. /\ busy' \in [Lanes -> BusyRec] /\ busy'[l] = Free
      /\ \A m \in Lanes \ {l} : busy'[m] = busy[m]
  BY <1>1, <1>2, FreeType
<1>4. /\ Event(l) \in Events
      /\ Event(l).status = "completed" => Event(l).job \in done
  BY <1>2 DEF Event, Events, NewsTrue
<1>5. /\ result' \in Seq(Events)
      /\ \A i \in 1 .. Len(result') :
             result'[i].status = "completed" => result'[i].job \in done
  <2>1. /\ Append(result, Event(l)) \in Seq(Events)
        /\ Len(Append(result, Event(l))) = Len(result) + 1 /\ Len(result) \in Nat
        /\ \A i \in 1 .. Len(result) : Append(result, Event(l))[i] = result[i]
        /\ Append(result, Event(l))[Len(result) + 1] = Event(l)
    BY <1>2, <1>4, PutLast
  <2>2. CASE backend = "up"
    BY <2>1, <2>2, <1>1, <1>4 DEF NewsTrue
  <2>3. CASE backend # "up"
    BY <2>3, <1>1, <1>2 DEF NewsTrue
  <2>4. QED
    BY <2>2, <2>3
<1>6. /\ \A m \in Lanes \ {l} : Held(m)' = Held(m)
      /\ Held(l) = Held(l)' + 1
      /\ \A m \in Lanes : Held(m) \in Nat /\ Held(m)' \in Nat
  <2>1. \A m \in Lanes : Len(lane[m]) \in Nat /\ lane'[m] = lane[m]
    BY <1>1, <1>2
  <2>2. \A m \in Lanes \ {l} : Held(m)' = Held(m)
    BY <1>1, <1>3 DEF Held
  <2>3. Held(l) = Len(lane[l]) + 1 /\ Held(l)' = Len(lane[l])
    BY <2>1, <1>1, <1>3, FreeType DEF Held
  <2>4. \A m \in Lanes : Held(m) \in Nat
    BY <2>1 DEF Held
  <2>5. \A m \in Lanes : Held(m)' \in Nat
    BY <2>1, <2>2, <2>3, <2>4
  <2>6. QED
    BY <2>1, <2>2, <2>3, <2>4, <2>5
<1>7. SlotsBalanced' /\ slots' \in 0 .. MaxInFlight
  <2> DEFINE f == "file" c == "container"
  <2>1. /\ slots' = slots - 1 /\ slots \in 0 .. MaxInFlight /\ MaxInFlight \in Nat
        /\ slots = Held(f) + Held(c)
    BY <1>1, <1>2 DEF SlotsBalanced
  <2>2. /\ f \in Lanes /\ c \in Lanes /\ f # c /\ (l = f \/ l = c)
    BY DEF Lanes
  <2> HIDE DEF f, c
  <2>3. Held(f)' \in Nat /\ Held(c)' \in Nat /\ Held(f) \in Nat /\ Held(c) \in Nat
    BY <2>2, <1>6
  <2>4. Held(f)' + Held(c)' = Held(f) + Held(c) - 1
    <3>1. CASE l = f
      BY <3>1, <2>2, <2>3, <1>6
    <3>2. CASE l = c
      BY <3>2, <2>2, <2>3, <1>6
    <3>3. QED
      BY <3>1, <3>2, <2>2
  <2>5. slots' = Held(f)' + Held(c)' /\ slots' \in 0 .. MaxInFlight
    BY <2>1, <2>3, <2>4
  <2>6. QED
    BY <2>5 DEF SlotsBalanced, f, c
<1>8. TypeOK'
  BY <1>1, <1>3, <1>5, <1>7 DEF TypeOK, BusyRec, Events
<1>9. (Stream /\ CompletedDone)'
  BY <1>1 DEF Stream, CompletedDone
<1>10. LanesHold' /\ NewsTrue'
  BY <1>1, <1>3, <1>5, FreeType DEF LanesHold, NewsTrue
<1>11. QED
  BY <1>7, <1>8, <1>9, <1>10

LEMMA WorkerInv == ASSUME IInv, WorkerStops \/ WorkerStarts PROVE IInv'
<1> USE DEF IInv
<1>1. CASE WorkerStops
  <2>1. /\ worker' = FALSE /\ slots' = 0 /\ lane' = [l \in Lanes |-> <<>>]
        /\ busy' = [l \in Lanes |-> Free] /\ Crash
        /\ UNCHANGED <<row, backend, message, tries, sent, result, ended, done>>
    BY <1>1 DEF WorkerStops, backendVars, brokerVars, history
  <2>2. TypeOK'
    <3>1. lane' \in [Lanes -> Seq(JobIds)] /\ busy' \in [Lanes -> BusyRec]
      BY <2>1, FreeType
    <3>2. slots' \in 0 .. MaxInFlight /\ crashes' \in 0 .. MaxCrashes
      BY <2>1, JobsAssumption DEF Crash, TypeOK
    <3>3. QED
      BY <2>1, <3>1, <3>2 DEF TypeOK, BusyRec
  <2>3. (Stream /\ CompletedDone)'
    BY <2>1 DEF Stream, CompletedDone
  <2>4. LanesHold' /\ NewsTrue'
    BY <2>1, FreeType DEF LanesHold, NewsTrue
  <2>5. SlotsBalanced'
    BY <2>1, FreeType DEF SlotsBalanced, Held, Lanes
  <2>6. QED
    BY <2>2, <2>3, <2>4, <2>5
<1>2. CASE WorkerStarts
  BY <1>2 DEF WorkerStarts, TypeOK, Stream, LanesHold, SlotsBalanced, Held,
              NewsTrue, CompletedDone, backendVars, brokerVars, history
<1>3. QED
  BY <1>1, <1>2

----------------------------------------------------------------------------
LEMMA StutterInv == ASSUME IInv, UNCHANGED vars PROVE IInv'
  BY DEF IInv, TypeOK, Stream, LanesHold, SlotsBalanced, Held,
         NewsTrue, CompletedDone, vars

LEMMA NextInv == IInv /\ [Next]_vars => IInv'
<1> SUFFICES ASSUME IInv, [Next]_vars PROVE IInv'
  OBVIOUS
<1>1. CASE \E j \in JobIds : CreateRow(j) \/ PublishJob(j) \/ Expire(j) \/ ExpireInHand(j)
  BY <1>1, CreateRowInv, PublishJobInv, ExpireInv
<1>2. CASE FetchStep
  BY <1>2, FetchInv DEF FetchStep
<1>3. CASE \E l \in Lanes : LaneStep(l)
  BY <1>3, BeginInv, RunInv, SettleInv, ReportInv DEF LaneStep
<1>4. CASE HandleResult
  BY <1>4, HandleResultInv
<1>5. CASE BackendStops \/ BackendUp
  BY <1>5, BackendInv DEF BackendUp
<1>6. CASE WorkerStops \/ WorkerStarts
  BY <1>6, WorkerInv
<1>7. CASE UNCHANGED vars
  BY <1>7, StutterInv
<1>8. QED
  BY <1>1, <1>2, <1>3, <1>4, <1>5, <1>6, <1>7 DEF Next

THEOREM Invariance == Spec => []IInv
  BY InitInv, NextInv, PTL DEF Spec

\* Every variable keeps a value the program can give it.
THEOREM TypeCorrect == Spec => []TypeOK
<1>1. IInv => TypeOK
  BY DEF IInv
<1>2. QED
  BY <1>1, Invariance, PTL

\* A job shown as completed was done: a lane's success, the event on its way and
\* the row all stand for an effect that was made.
THEOREM CompletedIsTrue == Spec => []CompletedDone
<1>1. IInv => CompletedDone
  BY DEF IInv
<1>2. QED
  BY <1>1, Invariance, PTL

\* The slots of runJobs are the jobs in its lanes, one for one: whatever the
\* order of fetches, failures and stops, the worker never fetches fewer than
\* maxJobsInFlight for good, nor more.
THEOREM SlotsExact == Spec => []SlotsBalanced
<1>1. IInv => SlotsBalanced
  BY DEF IInv
<1>2. QED
  BY <1>1, Invariance, PTL

----------------------------------------------------------------------------
(* Expansions.  The step that writes "done" follows the look at the array  *)
(* by many; each layer it grew on the way has stayed larger than the array *)
(* was (FinGrew), because nothing shrinks one and only the holder of the   *)
(* lock works on an expansion.                                             *)

ArrayType == [size : Sizes, next : Sizes, at : {"idle", "sync", "paused"}]
EntryType == [phase : {"none", "reshape", "done", "failed"}, old : 0 .. MaxSize,
              announced : BOOLEAN]
FinType == [at : {"idle", "next", "pv", "lv", "look", "fs", "write"},
            todo : SUBSET Volumes, load : [Volumes -> 0 .. MaxSize],
            vol : Volumes \cup {Nothing}, mnt : BOOLEAN, ok : BOOLEAN, blind : BOOLEAN]
PlanType == [at : {"idle", "add", "grow", "record", "extend", "fs"},
             vol : Volumes \cup {Nothing}, mode : Modes \cup {"none"},
             old : 0 .. MaxSize, mnt : BOOLEAN]
SampType == [at : {"idle", "ack"}, found : [Volumes -> {"none", "info", "warning"}],
             checked : SUBSET Volumes, acks : SUBSET Volumes]

\* A sync never makes an array smaller.
ArraysGrow == \A v \in Volumes : array[v].size <= array[v].next

PlansNamed == \A p \in Procs : plan[p].at # "idle" => plan[p].vol \in Volumes

\* Only the holder of the lock is at work.
FinLocked == \A p \in Procs : fin[p].at # "idle" => lock = p

\* A finisher that took an expansion saw the array larger than before, and so is
\* what it has grown since: the volume and its filesystem too, unless it is blind.
Took(f) == f.at \in {"pv", "lv", "look", "fs", "write"}
GrewPv(f) == f.at \in {"lv", "look", "fs"} \/ (f.at = "write" /\ f.ok)
GrewLv(f) == ~f.blind /\ (f.at \in {"look", "fs"} \/ (f.at = "write" /\ f.ok))
GrewFs(f) == ~f.blind /\ f.at = "write" /\ f.ok
Grew(f) ==
    /\ Took(f) => f.vol \in Volumes /\ array[f.vol].size > f.load[f.vol]
    /\ GrewPv(f) => pv[f.vol] > f.load[f.vol]
    /\ GrewLv(f) => lv[f.vol] > f.load[f.vol]
    /\ GrewFs(f) => fs[f.vol] > f.load[f.vol]
FinGrew == \A p \in Procs : Grew(fin[p])

GrowthInv == GrowthTypeOK /\ ArraysGrow /\ PlansNamed /\ FinLocked /\ FinGrew

LEMMA GrowthInitInv == GrowthInit => GrowthInv
<1> SUFFICES ASSUME GrowthInit PROVE GrowthInv
  OBVIOUS
<1>1. 1 \in Sizes /\ 0 \in 0 .. MaxSize /\ 0 \in 0 .. MaxPlans /\ 0 \in 0 .. MaxFaults
  BY ExpansionsAssumption DEF Sizes
<1>2. [size |-> 1, next |-> 1, at |-> "idle"] \in ArrayType
  BY <1>1 DEF ArrayType
<1>3. NoEntry \in EntryType /\ IdleFin \in FinType /\ IdlePlan \in PlanType
      /\ IdleSamp \in SampType
  BY <1>1 DEF NoEntry, EntryType, IdleFin, FinType, IdlePlan, PlanType, IdleSamp, SampType
<1>4. GrowthTypeOK
  BY <1>1, <1>2, <1>3
  DEF GrowthInit, GrowthTypeOK, ArrayType, EntryType, FinType, PlanType, SampType
<1>5. ArraysGrow
  BY DEF GrowthInit, ArraysGrow
<1>6. PlansNamed /\ FinLocked
  BY DEF GrowthInit, PlansNamed, FinLocked, IdlePlan, IdleFin
<1>7. FinGrew
  BY DEF GrowthInit, FinGrew, Grew, IdleFin, Took, GrewPv, GrewLv, GrewFs
<1> QED
  BY <1>4, <1>5, <1>6, <1>7 DEF GrowthInv

\* What a plan does: of the layers, it only makes them larger.
LEMMA PlanTyped ==
  ASSUME GrowthInv, NEW p \in Procs,
         PlanStep(p) \/ \E v \in Volumes, mode \in Modes : BuildPlan(p, v, mode)
  PROVE  GrowthTypeOK' /\ ArraysGrow' /\ PlansNamed'
<1> USE DEF GrowthInv
<1>1. plan[p] \in PlanType /\ IdlePlan \in PlanType /\ IdlePlan.at = "idle"
  BY ExpansionsAssumption DEF GrowthTypeOK, PlanType, IdlePlan
<1>2. ASSUME NEW at \in {"idle", "add", "grow", "record", "extend", "fs"},
             GoOn(p, at), plan[p].at # "idle"
      PROVE  plan' \in [Procs -> PlanType] /\ PlansNamed'
  <2>1. [plan[p] EXCEPT !.at = at] \in PlanType
    BY <1>1 DEF PlanType
  <2> QED
    BY <1>1, <1>2, <2>1 DEF GoOn, PlansNamed, GrowthTypeOK, PlanType
<1>3. ASSUME PlanOver(p) PROVE plan' \in [Procs -> PlanType] /\ PlansNamed'
  BY <1>1, <1>3 DEF PlanOver, PlansNamed, GrowthTypeOK, PlanType
<1>4. plan[p].at # "idle" => plan[p].vol \in Volumes
  BY DEF PlansNamed
<1>5. CASE \E v \in Volumes, mode \in Modes : BuildPlan(p, v, mode)
  <2>1. PICK v \in Volumes, mode \in Modes : BuildPlan(p, v, mode)
    BY <1>5
  <2>2. FirstStep[mode] \in {"extend", "add", "grow"}
    BY DEF FirstStep, Modes
  <2>3. array[v].size \in 0 .. MaxSize
    BY ExpansionsAssumption DEF GrowthTypeOK, Sizes
  <2>4. [at |-> FirstStep[mode], vol |-> v, mode |-> mode,
         old |-> array[v].size, mnt |-> v \in mounted] \in PlanType
    BY <2>2, <2>3 DEF PlanType
  <2>5. plan' \in [Procs -> PlanType] /\ PlansNamed'
    BY <2>1, <2>4 DEF BuildPlan, GrowthTypeOK, PlanType, PlansNamed
  <2>6. plans' \in 0 .. MaxPlans
    BY <2>1, ExpansionsAssumption DEF BuildPlan, GrowthTypeOK
  <2> QED
    BY <2>1, <2>5, <2>6 DEF BuildPlan, host, sampler, GrowthTypeOK, PlanType, ArraysGrow
<1>6. CASE PlanAdd(p)
  BY <1>2, <1>4, <1>6 DEF PlanAdd, sampler, bounds, GrowthTypeOK, PlanType, ArraysGrow
<1>7. CASE PlanGrow(p)
  <2>1. CASE array' = array /\ spare' = spare /\ PlanOver(p)
    BY <1>3, <1>7, <2>1
    DEF PlanGrow, sampler, bounds, GrowthTypeOK, PlanType, ArraysGrow
  <2>2. CASE ~(array[plan[p].vol].at # "idle" \/ array[plan[p].vol].size = MaxSize)
    <3> DEFINE v == plan[p].vol
               size == array[v].size
               new == [size |-> IF plan[p].mode = "mirrorGrow" THEN size + 1 ELSE size,
                       next |-> size + 1, at |-> "sync"]
    <3>1. v \in Volumes /\ size \in Sizes /\ size # MaxSize
      BY <1>4, <1>7, <2>2 DEF PlanGrow, GrowthTypeOK
    <3>2. new \in ArrayType /\ new.size <= new.next
      BY <3>1, ExpansionsAssumption DEF ArrayType, Sizes
    <3>3. array' = [array EXCEPT ![v] = new] /\ spare' = spare \ {v} /\ GoOn(p, "record")
      BY <1>7, <2>2 DEF PlanGrow
    <3>4. array' \in [Volumes -> ArrayType] /\ ArraysGrow'
      <4> HIDE DEF new, v
      <4> QED
        BY <3>1, <3>2, <3>3 DEF GrowthTypeOK, ArrayType, ArraysGrow
    <3>5. plan' \in [Procs -> PlanType] /\ PlansNamed'
      BY <1>2, <1>7, <3>3 DEF PlanGrow
    <3> QED
      BY <1>7, <3>3, <3>4, <3>5
      DEF PlanGrow, sampler, bounds, GrowthTypeOK, PlanType, ArrayType
  <2> QED
    BY <1>7, <2>1, <2>2 DEF PlanGrow
<1>8. CASE PlanRecord(p)
  <2>1. [phase |-> "reshape", old |-> plan[p].old, announced |-> FALSE] \in EntryType
    BY <1>1 DEF PlanType, EntryType
  <2>2. entries' \in [Volumes -> EntryType]
    BY <1>8, <2>1 DEF PlanRecord, GrowthTypeOK, EntryType
  <2> QED
    BY <1>3, <1>8, <2>2
    DEF PlanRecord, host, sampler, bounds, GrowthTypeOK, PlanType, EntryType, ArraysGrow
<1>9. CASE PlanExtend(p)
  <2>1. plan[p].vol \in Volumes
    BY <1>4, <1>9 DEF PlanExtend
  <2>2. lv' \in [Volumes -> Sizes]
    BY <1>9, <2>1 DEF PlanExtend, GrowthTypeOK
  <2>3. plan' \in [Procs -> PlanType] /\ PlansNamed'
    BY <1>2, <1>3, <1>9 DEF PlanExtend
  <2> QED
    BY <1>9, <2>2, <2>3 DEF PlanExtend, sampler, bounds, GrowthTypeOK, PlanType, ArraysGrow
<1>10. CASE PlanFs(p)
  <2>1. plan[p].vol \in Volumes
    BY <1>4, <1>10 DEF PlanFs
  <2>2. fs' \in [Volumes -> Sizes]
    BY <1>10, <2>1 DEF PlanFs, GrowthTypeOK
  <2> QED
    BY <1>3, <1>10, <2>2 DEF PlanFs, sampler, bounds, GrowthTypeOK, PlanType, ArraysGrow
<1>11. CASE PlanFails(p)
  <2>1. faults' \in 0 .. MaxFaults
    BY <1>11, ExpansionsAssumption DEF PlanFails, Fault, GrowthTypeOK
  <2> QED
    BY <1>3, <1>11, <2>1 DEF PlanFails, host, sampler, GrowthTypeOK, PlanType, ArraysGrow
<1> QED
  BY <1>5, <1>6, <1>7, <1>8, <1>9, <1>10, <1>11 DEF PlanStep

LEMMA PlanKeeps ==
  ASSUME GrowthInv, NEW p \in Procs,
         PlanStep(p) \/ \E v \in Volumes, mode \in Modes : BuildPlan(p, v, mode)
  PROVE  FinLocked' /\ FinGrew'
<1> USE DEF GrowthInv
<1>1. fin' = fin /\ lock' = lock /\ pv' = pv
  BY DEF PlanStep, PlanAdd, PlanGrow, PlanRecord, PlanExtend, PlanFs, PlanFails, BuildPlan, host
<1>2. \A v \in Volumes : array'[v].size >= array[v].size
  <2>1. CASE array' = array
    BY <2>1 DEF GrowthTypeOK, Sizes
  <2>2. CASE PlanGrow(p) /\ array' # array
    <3> DEFINE v == plan[p].vol
               size == array[v].size
    <3>1. v \in Volumes /\ size \in Sizes
      BY <2>2 DEF PlanGrow, GrowthTypeOK, PlansNamed
    <3>2. array' = [array EXCEPT ![v] =
                      [size |-> IF plan[p].mode = "mirrorGrow" THEN size + 1 ELSE size,
                       next |-> size + 1, at |-> "sync"]]
      BY <2>2 DEF PlanGrow
    <3>3. array'[v].size >= size
      BY <3>1, <3>2 DEF GrowthTypeOK, Sizes
    <3> QED
      BY <3>1, <3>2, <3>3 DEF GrowthTypeOK, Sizes
  <2>3. array' # array => PlanGrow(p)
    BY DEF PlanStep, PlanAdd, PlanRecord, PlanExtend, PlanFs, PlanFails, BuildPlan, host
  <2> QED
    BY <2>1, <2>2, <2>3
<1>3. \A v \in Volumes : lv'[v] = lv[v] \/ lv'[v] = pv[v]
  <2>1. lv' = lv \/ lv' = [lv EXCEPT ![plan[p].vol] = pv[plan[p].vol]]
    BY DEF PlanStep, PlanAdd, PlanGrow, PlanRecord, PlanExtend, PlanFs, PlanFails, BuildPlan, host
  <2>2. lv \in [Volumes -> Sizes]
    BY DEF GrowthTypeOK
  <2> QED
    BY <2>1, <2>2
<1>4. \A v \in Volumes : fs'[v] = fs[v] \/ fs'[v] = lv[v]
  <2>1. fs' = fs \/ fs' = [fs EXCEPT ![plan[p].vol] = lv[plan[p].vol]]
    BY DEF PlanStep, PlanAdd, PlanGrow, PlanRecord, PlanExtend, PlanFs, PlanFails, BuildPlan, host
  <2>2. fs \in [Volumes -> Sizes]
    BY DEF GrowthTypeOK
  <2> QED
    BY <2>1, <2>2
<1>5. FinLocked'
  BY <1>1 DEF FinLocked
<1>6. ASSUME NEW q \in Procs
      PROVE  Grew(fin[q])'
  <2> DEFINE f == fin[q]
             v == f.vol
  <2>1. fin'[q] = f
    BY <1>1
  <2>2. /\ Took(f) => v \in Volumes /\ array[v].size > f.load[v]
        /\ GrewPv(f) => pv[v] > f.load[v]
        /\ GrewLv(f) => lv[v] > f.load[v]
        /\ GrewFs(f) => fs[v] > f.load[v]
    BY DEF FinGrew, Grew
  <2>3. GrewFs(f) => GrewLv(f)
    BY DEF GrewFs, GrewLv
  <2>4. GrewLv(f) => GrewPv(f)
    BY DEF GrewPv, GrewLv
  <2>5. GrewPv(f) => Took(f)
    BY DEF GrewPv, Took
  <2>6. v \in Volumes => array[v].size \in Nat /\ array'[v].size \in Nat /\ f.load[v] \in Nat
    <3>1. GrowthTypeOK /\ GrowthTypeOK'
      BY PlanTyped
    <3> QED
      BY <3>1 DEF GrowthTypeOK, Sizes
  <2> HIDE DEF f, v
  <2>7. Took(f) => v \in Volumes /\ array'[v].size > f.load[v]
    BY <1>2, <2>2, <2>6
  <2>8. GrewLv(f) => lv'[v] > f.load[v]
    BY <1>3, <2>2, <2>4, <2>5
  <2>9. GrewFs(f) => fs'[v] > f.load[v]
    BY <1>4, <2>2, <2>3, <2>4, <2>5
  <2> QED
    BY <1>1, <2>1, <2>2, <2>7, <2>8, <2>9 DEF f, v, Grew
<1> QED
  BY <1>5, <1>6 DEF FinGrew

\* What the other steps around a finisher do to it: nothing, or it is gone.
Untouched(p) ==
    \/ fin'[p] = IdleFin
    \/ /\ fin'[p] = fin[p] /\ (fin[p].at # "idle" => lock' = lock)
       /\ \A v \in Volumes : array'[v].size >= array[v].size
       /\ pv' = pv /\ lv' = lv /\ fs' = fs

LEMMA UntouchedKeeps ==
  ASSUME GrowthInv, GrowthTypeOK', \A p \in Procs : Untouched(p)
  PROVE  FinLocked' /\ FinGrew'
<1> USE DEF GrowthInv
<1>1. FinLocked'
  BY DEF FinLocked, Untouched, IdleFin
<1>2. ASSUME NEW q \in Procs
      PROVE  Grew(fin[q])'
  <2>1. CASE fin'[q] = IdleFin
    BY <2>1 DEF Grew, IdleFin, Took, GrewPv, GrewLv, GrewFs
  <2>2. CASE fin'[q] # IdleFin
    <3> DEFINE f == fin[q]
               v == f.vol
    <3>1. /\ fin'[q] = f /\ pv' = pv /\ lv' = lv /\ fs' = fs
          /\ \A w \in Volumes : array'[w].size >= array[w].size
      BY <2>2 DEF Untouched
    <3>2. /\ Took(f) => v \in Volumes /\ array[v].size > f.load[v]
          /\ GrewPv(f) => pv[v] > f.load[v]
          /\ GrewLv(f) => lv[v] > f.load[v]
          /\ GrewFs(f) => fs[v] > f.load[v]
      BY DEF FinGrew, Grew
    <3>3. v \in Volumes => array[v].size \in Nat /\ array'[v].size \in Nat /\ f.load[v] \in Nat
      BY DEF GrowthTypeOK, Sizes
    <3> HIDE DEF f, v
    <3>4. Took(f) => v \in Volumes /\ array'[v].size > f.load[v]
      BY <3>1, <3>2, <3>3
    <3> QED
      BY <3>1, <3>2, <3>4 DEF f, v, Grew
  <2> QED
    BY <2>1, <2>2
<1> QED
  BY <1>1, <1>2 DEF FinGrew

LEMMA SampKeeps ==
  ASSUME GrowthInv, SampStep \/ SampDies
  PROVE  GrowthInv'
<1> USE DEF GrowthInv
<1>1. samp \in SampType /\ IdleSamp \in SampType
  BY DEF GrowthTypeOK, SampType, IdleSamp
<1>2. samp' \in SampType
  <2>1. CASE SampRead
    <3>1. \A v \in Volumes : Found(v) \in {"none", "info", "warning"}
      BY DEF Found
    <3> QED
      BY <2>1, <3>1 DEF SampRead, SampType
  <2>2. CASE SampAck
    BY <1>1, <2>2 DEF SampAck, SampType
  <2>3. CASE SampReconcile \/ SampDies
    BY <1>1, <2>3 DEF SampReconcile, SampDies
  <2> QED
    BY <2>1, <2>2, <2>3 DEF SampStep
<1>3. entries' \in [Volumes -> EntryType]
  <2>1. CASE entries' = entries
    BY <2>1 DEF GrowthTypeOK, EntryType
  <2>2. CASE SampAck /\ entries' # entries
    <3>1. PICK v \in samp.acks : entries' = [entries EXCEPT ![v].announced = TRUE]
      BY <2>2 DEF SampAck
    <3>2. v \in Volumes /\ entries[v] \in EntryType
      BY <1>1 DEF SampType, GrowthTypeOK, EntryType
    <3>3. [entries[v] EXCEPT !.announced = TRUE] \in EntryType
      BY <3>2 DEF EntryType
    <3> QED
      BY <3>1, <3>3 DEF GrowthTypeOK, EntryType
  <2> QED
    BY <2>1, <2>2 DEF SampStep, SampRead, SampReconcile, SampDies
<1>4. alert' \in [Volumes -> {"none", "info", "warning"}]
  BY <1>1 DEF SampStep, SampRead, SampAck, SampReconcile, SampDies, GrowthTypeOK, SampType
<1>5. faults' \in 0 .. MaxFaults
  BY ExpansionsAssumption
  DEF SampStep, SampRead, SampAck, SampReconcile, SampDies, bounds, Fault, GrowthTypeOK
<1>6. UNCHANGED <<array, spare, pv, lv, fs, mounted, lock, fin, plan, plans>>
  BY DEF SampStep, SampRead, SampAck, SampReconcile, SampDies, bounds, host
<1>7. GrowthTypeOK'
  BY <1>2, <1>3, <1>4, <1>5, <1>6 DEF GrowthTypeOK, SampType, EntryType
<1>8. ArraysGrow' /\ PlansNamed'
  BY <1>6 DEF ArraysGrow, PlansNamed
<1>9. FinLocked' /\ FinGrew'
  <2>1. \A p \in Procs : Untouched(p)
    BY <1>6 DEF Untouched, GrowthTypeOK, Sizes
  <2> QED
    BY <1>7, <2>1, UntouchedKeeps
<1> QED
  BY <1>7, <1>8, <1>9

LEMMA HostKeeps ==
  ASSUME GrowthInv,
         \/ \E v \in Volumes : Retry(v) \/ SyncEnds(v) \/ SyncResumes(v) \/ Remount(v)
         \/ \E p \in Procs : Die(p)
         \/ Reboot
  PROVE  GrowthInv'
<1> USE DEF GrowthInv
<1>0. /\ IdlePlan \in PlanType /\ IdlePlan.at = "idle"
      /\ IdleFin \in FinType /\ IdleSamp \in SampType
  BY ExpansionsAssumption DEF PlanType, IdlePlan, FinType, IdleFin, SampType, IdleSamp
<1>1. CASE \E v \in Volumes : Retry(v)
  <2>1. PICK v \in Volumes : Retry(v)
    BY <1>1
  <2>2. [entries[v] EXCEPT !.phase = "reshape"] \in EntryType
    <3>1. entries[v] \in EntryType
      BY DEF GrowthTypeOK, EntryType
    <3> QED
      BY <3>1 DEF EntryType
  <2>3. entries' \in [Volumes -> EntryType]
    BY <2>1, <2>2 DEF Retry, GrowthTypeOK, EntryType
  <2>4. GrowthTypeOK'
    BY <2>1, <2>3 DEF Retry, host, sampler, bounds, GrowthTypeOK, EntryType
  <2>5. ArraysGrow' /\ PlansNamed' /\ \A p \in Procs : Untouched(p)
    BY <2>1 DEF Retry, host, ArraysGrow, PlansNamed, Untouched, GrowthTypeOK, Sizes
  <2> QED
    BY <2>4, <2>5, UntouchedKeeps
<1>2. CASE \E v \in Volumes : SyncEnds(v)
  <2>1. PICK v \in Volumes : SyncEnds(v)
    BY <1>2
  <2> DEFINE new == [size |-> array[v].next, next |-> array[v].next, at |-> "idle"]
  <2>2. new \in ArrayType /\ new.size <= new.next /\ new.size >= array[v].size
    <3>1. array[v] \in ArrayType /\ array[v].size <= array[v].next
      BY DEF GrowthTypeOK, ArrayType, ArraysGrow
    <3>2. array[v].next \in Sizes /\ array[v].size \in Sizes
      BY <3>1 DEF ArrayType
    <3> QED
      BY <3>1, <3>2 DEF ArrayType, Sizes
  <2>3. array' = [array EXCEPT ![v] = new]
    BY <2>1 DEF SyncEnds
  <2> HIDE DEF new
  <2>4. array' \in [Volumes -> ArrayType] /\ ArraysGrow'
    BY <2>2, <2>3 DEF GrowthTypeOK, ArrayType, ArraysGrow
  <2>5. GrowthTypeOK'
    BY <2>1, <2>4 DEF SyncEnds, sampler, bounds, GrowthTypeOK, ArrayType
  <2>6. PlansNamed' /\ \A p \in Procs : Untouched(p)
    BY <2>1, <2>2, <2>3 DEF SyncEnds, PlansNamed, Untouched, GrowthTypeOK, Sizes
  <2> QED
    BY <2>4, <2>5, <2>6, UntouchedKeeps
<1>3. CASE \E v \in Volumes : SyncResumes(v)
  <2>1. PICK v \in Volumes : SyncResumes(v)
    BY <1>3
  <2> DEFINE new == [array[v] EXCEPT !.at = "sync"]
  <2>2. new \in ArrayType /\ new.size <= new.next /\ new.size >= array[v].size
    <3>1. array[v] \in ArrayType /\ array[v].size <= array[v].next
      BY DEF GrowthTypeOK, ArrayType, ArraysGrow
    <3> QED
      BY <3>1 DEF ArrayType, Sizes
  <2>3. array' = [array EXCEPT ![v] = new]
    BY <2>1 DEF SyncResumes
  <2> HIDE DEF new
  <2>4. array' \in [Volumes -> ArrayType] /\ ArraysGrow'
    BY <2>2, <2>3 DEF GrowthTypeOK, ArrayType, ArraysGrow
  <2>5. GrowthTypeOK'
    BY <2>1, <2>4 DEF SyncResumes, sampler, bounds, GrowthTypeOK, ArrayType
  <2>6. PlansNamed' /\ \A p \in Procs : Untouched(p)
    BY <2>1, <2>2, <2>3 DEF SyncResumes, PlansNamed, Untouched, GrowthTypeOK, Sizes
  <2> QED
    BY <2>4, <2>5, <2>6, UntouchedKeeps
<1>4. CASE \E v \in Volumes : Remount(v)
  <2>1. PICK v \in Volumes : Remount(v)
    BY <1>4
  <2>2. mounted' \in SUBSET Volumes
    BY <2>1 DEF Remount, GrowthTypeOK
  <2>3. GrowthTypeOK'
    BY <2>1, <2>2 DEF Remount, sampler, bounds, GrowthTypeOK
  <2>4. ArraysGrow' /\ PlansNamed' /\ \A p \in Procs : Untouched(p)
    BY <2>1 DEF Remount, ArraysGrow, PlansNamed, Untouched, GrowthTypeOK, Sizes
  <2> QED
    BY <2>3, <2>4, UntouchedKeeps
<1>5. CASE \E p \in Procs : Die(p)
  <2>1. PICK p \in Procs : Die(p)
    BY <1>5
  <2>2. plan' \in [Procs -> PlanType] /\ fin' \in [Procs -> FinType] /\ PlansNamed'
    BY <1>0, <2>1 DEF Die, GrowthTypeOK, PlanType, FinType, PlansNamed
  <2>3. lock' \in Procs \cup {Nothing} /\ faults' \in 0 .. MaxFaults
    BY <2>1, ExpansionsAssumption DEF Die, Fault, GrowthTypeOK
  <2>4. GrowthTypeOK'
    BY <2>1, <2>2, <2>3 DEF Die, host, sampler, GrowthTypeOK, PlanType, FinType
  <2>5. ArraysGrow'
    BY <2>1 DEF Die, host, ArraysGrow
  <2>6. ASSUME NEW q \in Procs PROVE Untouched(q)
    <3>1. CASE q = p
      BY <2>1, <3>1 DEF Die, Untouched, GrowthTypeOK
    <3>2. CASE q # p
      BY <2>1, <3>2 DEF Die, host, Untouched, GrowthTypeOK, FinLocked, Sizes
    <3> QED
      BY <3>1, <3>2
  <2> QED
    BY <2>2, <2>4, <2>5, <2>6, UntouchedKeeps
<1>6. CASE Reboot
  <2>1. array' \in [Volumes -> ArrayType] /\ ArraysGrow'
        /\ \A v \in Volumes : array'[v].size = array[v].size
    <3>1. ASSUME NEW v \in Volumes
          PROVE  /\ array'[v] \in ArrayType /\ array'[v].size = array[v].size
                 /\ array'[v].size <= array'[v].next
      <4>1. array'[v] = IF array[v].at = "sync" THEN [array[v] EXCEPT !.at = "paused"]
                        ELSE array[v]
        BY <1>6 DEF Reboot
      <4>2. array[v] \in ArrayType
        BY DEF GrowthTypeOK, ArrayType
      <4> QED
        BY <4>1, <4>2 DEF ArrayType, ArraysGrow
    <3>2. array' = [v \in Volumes |-> array'[v]]
      BY <1>6 DEF Reboot
    <3> QED
      BY <3>1, <3>2 DEF ArraysGrow
  <2>2. plan' \in [Procs -> PlanType] /\ fin' \in [Procs -> FinType] /\ PlansNamed'
        /\ samp' \in SampType
    BY <1>0, <1>6 DEF Reboot, PlansNamed
  <2>3. lock' = Nothing /\ faults' \in 0 .. MaxFaults
    BY <1>6, ExpansionsAssumption DEF Reboot, Fault, GrowthTypeOK
  <2>4. GrowthTypeOK'
    BY <1>6, <2>1, <2>2, <2>3 DEF Reboot, GrowthTypeOK, PlanType, FinType, ArrayType, SampType
  <2>5. \A p \in Procs : Untouched(p)
    BY <1>6 DEF Reboot, Untouched
  <2> QED
    BY <2>1, <2>2, <2>4, <2>5, UntouchedKeeps
<1> QED
  BY <1>1, <1>2, <1>3, <1>4, <1>5, <1>6

\* A step of one finisher, the others being idle.
LEMMA FinAlone ==
  ASSUME GrowthInv, NEW p \in Procs, lock = p \/ lock = Nothing,
         \A q \in Procs \ {p} : fin'[q] = fin[q],
         fin'[p].at # "idle" => lock' = p, Grew(fin[p])'
  PROVE  FinLocked' /\ FinGrew'
<1> USE DEF GrowthInv
<1>1. \A q \in Procs \ {p} : fin[q].at = "idle"
  BY ExpansionsAssumption DEF FinLocked
<1>2. FinLocked'
  BY <1>1 DEF FinLocked
<1>3. ASSUME NEW q \in Procs \ {p} PROVE Grew(fin[q])'
  BY <1>1, <1>3 DEF Grew, Took, GrewPv, GrewLv, GrewFs
<1> QED
  BY <1>2, <1>3 DEF FinGrew

LEMMA FinKeeps ==
  ASSUME GrowthInv, NEW p \in Procs, FinStart(p) \/ FinStep(p)
  PROVE  GrowthInv'
<1> USE DEF GrowthInv
<1> DEFINE f == fin[p]
           v == f.vol
<1>0. f \in FinType /\ IdleFin \in FinType /\ fin \in [Procs -> FinType] /\ IdleFin.at = "idle"
  BY ExpansionsAssumption DEF GrowthTypeOK, FinType, IdleFin
<1>00. /\ Took(f) => v \in Volumes /\ array[v].size > f.load[v]
       /\ GrewPv(f) => pv[v] > f.load[v]
       /\ GrewLv(f) => lv[v] > f.load[v]
       /\ GrewFs(f) => fs[v] > f.load[v]
  BY DEF FinGrew, Grew
<1>01. f.at # "idle" => lock = p
  BY DEF FinLocked
<1> DEFINE Kept == /\ UNCHANGED <<array, spare, mounted, plan, samp, alert, plans>>
                   /\ pv' \in [Volumes -> Sizes] /\ lv' \in [Volumes -> Sizes]
                   /\ fs' \in [Volumes -> Sizes]
                   /\ entries' \in [Volumes -> EntryType]
                   /\ lock' \in Procs \cup {Nothing} /\ faults' \in 0 .. MaxFaults
\* What is left to show of each action.
<1>02. ASSUME NEW g \in FinType, fin' = [fin EXCEPT ![p] = g], Kept,
              lock = p \/ lock = Nothing, g.at # "idle" => lock' = p,
              /\ Took(g) => g.vol \in Volumes /\ array[g.vol].size > g.load[g.vol]
              /\ GrewPv(g) => pv'[g.vol] > g.load[g.vol]
              /\ GrewLv(g) => lv'[g.vol] > g.load[g.vol]
              /\ GrewFs(g) => fs'[g.vol] > g.load[g.vol]
       PROVE  GrowthInv'
  <2>1. fin' \in [Procs -> FinType] /\ fin'[p] = g /\ \A q \in Procs \ {p} : fin'[q] = fin[q]
    BY <1>0, <1>02
  <2>2. GrowthTypeOK'
    BY <1>02, <2>1 DEF GrowthTypeOK, FinType, EntryType
  <2>3. ArraysGrow' /\ PlansNamed'
    BY <1>02 DEF ArraysGrow, PlansNamed
  <2>4. Grew(fin[p])'
    BY <1>02, <2>1 DEF Grew
  <2>5. FinLocked' /\ FinGrew'
    BY <1>02, <2>1, <2>4, FinAlone
  <2> QED
    BY <2>2, <2>3, <2>5
<1>03. /\ pv \in [Volumes -> Sizes] /\ lv \in [Volumes -> Sizes] /\ fs \in [Volumes -> Sizes]
       /\ entries \in [Volumes -> EntryType] /\ lock \in Procs \cup {Nothing}
       /\ faults \in 0 .. MaxFaults /\ MaxFaults \in Nat
       /\ \A w \in Volumes : array[w].size \in Sizes
  BY ExpansionsAssumption DEF GrowthTypeOK, EntryType
<1>1. CASE FinStart(p)
  <2> DEFINE g == [f EXCEPT !.at = "next",
                            !.todo = {w \in Volumes : entries[w].phase = "reshape"},
                            !.load = [w \in Volumes |-> entries[w].old]]
  <2>1. [w \in Volumes |-> entries[w].old] \in [Volumes -> 0 .. MaxSize]
    BY <1>03 DEF EntryType
  <2>2. g \in FinType /\ g.at = "next"
    BY <1>0, <2>1 DEF FinType
  <2>3. fin' = [fin EXCEPT ![p] = g] /\ lock = Nothing /\ lock' = p
    BY <1>1 DEF FinStart
  <2>4. Kept
    BY <1>1, <1>03 DEF FinStart, host, sampler, bounds
  <2>5. ~Took(g) /\ ~GrewPv(g) /\ ~GrewLv(g) /\ ~GrewFs(g)
    BY <2>2 DEF Took, GrewPv, GrewLv, GrewFs
  <2> HIDE DEF g, Kept, f, v
  <2> QED
    BY <1>02, <2>2, <2>3, <2>4, <2>5
<1>2. CASE FinTake(p)
  <2>1. PICK w \in f.todo :
           fin' = IF Ready(p, w)
                  THEN [fin EXCEPT ![p].at = "pv", ![p].vol = w, ![p].todo = @ \ {w},
                                    ![p].blind = FALSE]
                  ELSE [fin EXCEPT ![p].todo = @ \ {w}]
    BY <1>2 DEF FinTake
  <2> DEFINE g == IF Ready(p, w) THEN [f EXCEPT !.at = "pv", !.vol = w, !.todo = @ \ {w},
                                              !.blind = FALSE]
                  ELSE [f EXCEPT !.todo = @ \ {w}]
  <2>2. w \in Volumes /\ f.at = "next"
    BY <1>0, <1>2 DEF FinTake, FinType
  <2>3. g \in FinType /\ g.at \in {"next", "pv"} /\ g.load = f.load
        /\ (g.at = "pv" => g.vol = w /\ Ready(p, w))
    BY <1>0, <2>2 DEF FinType
  <2>4. fin' = [fin EXCEPT ![p] = g] /\ lock = p /\ lock' = p
    BY <1>0, <1>01, <1>2, <2>1, <2>2 DEF FinTake, FinType
  <2>5. Kept
    BY <1>2, <1>03 DEF FinTake, host, sampler, bounds
  <2>6. g.at = "pv" => g.vol \in Volumes /\ array[g.vol].size > g.load[g.vol]
    BY <2>2, <2>3 DEF Ready
  <2>7. ~GrewPv(g) /\ ~GrewLv(g) /\ ~GrewFs(g) /\ (Took(g) => g.at = "pv")
    BY <2>3 DEF Took, GrewPv, GrewLv, GrewFs
  <2> HIDE DEF g, Kept, f, v
  <2> QED
    BY <1>02, <2>3, <2>4, <2>5, <2>6, <2>7
<1>3. CASE FinPv(p)
  <2> DEFINE g == [f EXCEPT !.at = "lv"]
  <2>1. f.at = "pv" /\ Took(f)
    BY <1>3 DEF FinPv, Took
  <2>2. g \in FinType /\ g.at = "lv" /\ g.load = f.load /\ g.vol = v
    BY <1>0 DEF FinType
  <2>3. fin' = [fin EXCEPT ![p] = g] /\ lock = p /\ lock' = p
    BY <1>0, <1>01, <1>3, <2>1 DEF FinPv, FinType
  <2>4. pv' = [pv EXCEPT ![v] = array[v].size]
    BY <1>3 DEF FinPv
  <2>5. pv' \in [Volumes -> Sizes] /\ pv'[v] > f.load[v]
    BY <1>00, <1>03, <2>1, <2>4
  <2>6. Kept
    BY <1>3, <1>03, <2>5 DEF FinPv, sampler, bounds
  <2>7. ~GrewLv(g) /\ ~GrewFs(g)
    BY <2>2 DEF GrewLv, GrewFs
  <2> HIDE DEF g, Kept, f, v
  <2> QED
    BY <1>02, <1>00, <2>1, <2>2, <2>3, <2>5, <2>6, <2>7
<1>4. CASE FinLv(p)
  <2> DEFINE g == [f EXCEPT !.at = "look"]
  <2>1. f.at = "lv" /\ Took(f) /\ GrewPv(f)
    BY <1>4 DEF FinLv, Took, GrewPv
  <2>2. g \in FinType /\ g.at = "look" /\ g.load = f.load /\ g.vol = v
    BY <1>0 DEF FinType
  <2>3. fin' = [fin EXCEPT ![p] = g] /\ lock = p /\ lock' = p
    BY <1>0, <1>01, <1>4, <2>1 DEF FinLv, FinType
  <2>4. lv' = [lv EXCEPT ![v] = pv[v]] /\ pv' = pv
    BY <1>4 DEF FinLv
  <2>5. lv' \in [Volumes -> Sizes] /\ lv'[v] > f.load[v]
    BY <1>00, <1>03, <2>1, <2>4
  <2>6. Kept
    BY <1>4, <1>03, <2>5 DEF FinLv, sampler, bounds
  <2>7. ~GrewFs(g)
    BY <2>2 DEF GrewFs
  <2> HIDE DEF g, Kept, f, v
  <2> QED
    BY <1>02, <1>00, <2>1, <2>2, <2>3, <2>4, <2>5, <2>6, <2>7
<1>5. CASE FinLook(p)
  <2> DEFINE mnt == v \in mounted
             at == IF CanGrow(v, mnt) THEN "fs" ELSE "write"
             g == [f EXCEPT !.at = at, !.mnt = mnt, !.ok = FALSE]
  <2>1. f.at = "look" /\ Took(f) /\ GrewPv(f) /\ (~f.blind => GrewLv(f))
    BY <1>5 DEF FinLook, Took, GrewPv, GrewLv
  <2>2. at \in {"fs", "write"} /\ mnt \in BOOLEAN
    OBVIOUS
  <2>3. fin' = [fin EXCEPT ![p] = g] /\ lock = p /\ lock' = p
    BY <1>0, <1>01, <1>5, <2>1 DEF FinLook, FinType
  <2> HIDE DEF at, mnt
  <2>4. g \in FinType /\ g.at = at /\ g.load = f.load /\ g.vol = v /\ g.ok = FALSE
        /\ g.blind = f.blind
    BY <1>0, <2>2 DEF FinType
  <2>5. Kept
    BY <1>5, <1>03 DEF FinLook, host, sampler, bounds
  <2>6. ~GrewFs(g) /\ (GrewLv(g) => GrewLv(f))
    BY <2>1, <2>4 DEF GrewFs, GrewLv
  <2>7. pv' = pv /\ lv' = lv
    BY <1>5 DEF FinLook, host
  <2> HIDE DEF g, Kept, f, v
  <2> QED
    BY <1>02, <1>00, <2>1, <2>2, <2>3, <2>4, <2>5, <2>6, <2>7
<1>6. CASE FinFs(p)
  <2> DEFINE fits == f.mnt = (v \in mounted)
             g == [f EXCEPT !.at = "write", !.ok = fits]
  <2>1. f.at = "fs" /\ Took(f) /\ GrewPv(f) /\ (~f.blind => GrewLv(f))
    BY <1>6 DEF FinFs, Took, GrewPv, GrewLv
  <2>2. fits \in BOOLEAN
    OBVIOUS
  <2>3. fin' = [fin EXCEPT ![p] = g] /\ lock = p /\ lock' = p
    BY <1>0, <1>01, <1>6, <2>1 DEF FinFs, FinType
  <2>4. fs' = (IF fits THEN [fs EXCEPT ![v] = lv[v]] ELSE fs) /\ pv' = pv /\ lv' = lv
    BY <1>6 DEF FinFs
  <2> HIDE DEF fits
  <2>5. g \in FinType /\ g.at = "write" /\ g.load = f.load /\ g.vol = v /\ g.ok = fits
        /\ g.blind = f.blind
    BY <1>0, <2>2 DEF FinType
  <2>6. fs' \in [Volumes -> Sizes] /\ (fits /\ ~f.blind => fs'[v] > f.load[v])
    BY <1>00, <1>03, <2>1, <2>4
  <2>7. Kept
    BY <1>6, <1>03, <2>6 DEF FinFs, sampler, bounds
  <2>8. (GrewFs(g) => fits /\ ~f.blind) /\ (GrewLv(g) => GrewLv(f))
    BY <2>1, <2>5 DEF GrewFs, GrewLv
  <2> HIDE DEF g, Kept, f, v
  <2> QED
    BY <1>02, <1>00, <2>1, <2>3, <2>4, <2>5, <2>6, <2>7, <2>8
<1>7. CASE FinFails(p)
  <2> DEFINE g == [f EXCEPT !.at = "write", !.ok = FALSE]
  <2>1. f.at # "idle" /\ Took(f)
    BY <1>7 DEF FinFails, Took
  <2>2. g \in FinType /\ g.at = "write" /\ g.load = f.load /\ g.vol = v /\ g.ok = FALSE
    BY <1>0 DEF FinType
  <2>3. fin' = [fin EXCEPT ![p] = g] /\ lock = p /\ lock' = p
    BY <1>0, <1>01, <1>7, <2>1 DEF FinFails, FinType
  <2>4. faults' \in 0 .. MaxFaults
    BY <1>7, <1>03 DEF FinFails, Fault
  <2>5. Kept
    BY <1>7, <1>03, <2>4 DEF FinFails, host, sampler
  <2>6. ~GrewPv(g) /\ ~GrewLv(g) /\ ~GrewFs(g)
    BY <2>2 DEF GrewPv, GrewLv, GrewFs
  <2> HIDE DEF g, Kept, f, v
  <2> QED
    BY <1>02, <1>00, <2>1, <2>2, <2>3, <2>5, <2>6
<1>8. CASE FinWrite(p)
  <2> DEFINE g == [f EXCEPT !.at = "next", !.vol = Nothing]
  <2>1. f.at # "idle"
    BY <1>8 DEF FinWrite
  <2>2. g \in FinType /\ g.at = "next"
    BY <1>0 DEF FinType
  <2>3. fin' = [fin EXCEPT ![p] = g] /\ lock = p /\ lock' = p
    BY <1>0, <1>01, <1>8, <2>1 DEF FinWrite, FinType
  <2>4. faults' \in 0 .. MaxFaults
    BY <1>8, <1>03 DEF FinWrite, Fault
  <2>5. entries' \in [Volumes -> EntryType]
    <3>1. \A w \in Volumes : /\ [entries[w] EXCEPT !.phase = "done"] \in EntryType
                             /\ [entries[w] EXCEPT !.phase = "failed"] \in EntryType
      BY <1>03 DEF EntryType
    <3>2. \/ entries' = entries
          \/ entries' = [entries EXCEPT ![v].phase = "done"]
          \/ entries' = [entries EXCEPT ![v].phase = "failed"]
      BY <1>8 DEF FinWrite
    <3> QED
      BY <1>03, <3>1, <3>2
  <2>6. Kept
    BY <1>8, <1>03, <2>4, <2>5 DEF FinWrite, host, sampler
  <2>7. ~Took(g) /\ ~GrewPv(g) /\ ~GrewLv(g) /\ ~GrewFs(g)
    BY <2>2 DEF Took, GrewPv, GrewLv, GrewFs
  <2> HIDE DEF g, Kept, f, v
  <2> QED
    BY <1>02, <2>2, <2>3, <2>6, <2>7
<1>9. CASE FinEnd(p)
  <2>1. fin' = [fin EXCEPT ![p] = IdleFin] /\ lock = p /\ lock' = Nothing
    BY <1>01, <1>9 DEF FinEnd
  <2>2. entries' \in [Volumes -> EntryType]
    <3>1. NoEntry \in EntryType
      BY ExpansionsAssumption DEF NoEntry, EntryType
    <3> QED
      BY <1>03, <1>9, <3>1 DEF FinEnd
  <2>3. Kept
    BY <1>9, <1>03, <2>1, <2>2 DEF FinEnd, host, sampler, bounds
  <2>4. ~Took(IdleFin) /\ ~GrewPv(IdleFin) /\ ~GrewLv(IdleFin) /\ ~GrewFs(IdleFin)
    BY <1>0 DEF Took, GrewPv, GrewLv, GrewFs
  <2> HIDE DEF Kept, f, v
  <2> QED
    BY <1>0, <1>02, <2>1, <2>3, <2>4
<1>10. CASE FinLvSkipped(p)
  <2> DEFINE g == [f EXCEPT !.at = "look", !.blind = TRUE]
  <2>1. f.at = "lv" /\ Took(f) /\ GrewPv(f)
    BY <1>10 DEF FinLvSkipped, Took, GrewPv
  <2>2. g \in FinType /\ g.at = "look" /\ g.load = f.load /\ g.vol = v /\ g.blind
    BY <1>0 DEF FinType
  <2>3. fin' = [fin EXCEPT ![p] = g] /\ lock = p /\ lock' = p
    BY <1>0, <1>01, <1>10, <2>1 DEF FinLvSkipped, FinType
  <2>4. pv' = pv /\ faults' \in 0 .. MaxFaults
    BY <1>10, <1>03 DEF FinLvSkipped, host, Fault
  <2>5. Kept
    BY <1>10, <1>03, <2>4 DEF FinLvSkipped, host, sampler
  <2>6. ~GrewLv(g) /\ ~GrewFs(g)
    BY <2>2 DEF GrewLv, GrewFs
  <2> HIDE DEF g, Kept, f, v
  <2> QED
    BY <1>02, <1>00, <2>1, <2>2, <2>3, <2>4, <2>5, <2>6
<1> QED
  BY <1>1, <1>2, <1>3, <1>4, <1>5, <1>6, <1>7, <1>8, <1>9, <1>10 DEF FinStep

LEMMA GrowthInvariance == GrowthSpec => []GrowthInv
<1>1. GrowthInv /\ [GrowthNext]_growthVars => GrowthInv'
  <2> SUFFICES ASSUME GrowthInv, [GrowthNext]_growthVars PROVE GrowthInv'
    OBVIOUS
  <2>1. ASSUME NEW p \in Procs,
               PlanStep(p) \/ \E v \in Volumes, mode \in Modes : BuildPlan(p, v, mode)
        PROVE  GrowthInv'
    BY <2>1, PlanTyped, PlanKeeps DEF GrowthInv
  <2>2. ASSUME NEW p \in Procs, FinStart(p) \/ FinStep(p) PROVE GrowthInv'
    BY <2>2, FinKeeps
  <2>3. CASE \/ \E v \in Volumes : Retry(v) \/ SyncEnds(v) \/ SyncResumes(v) \/ Remount(v)
             \/ \E p \in Procs : Die(p)
             \/ Reboot
    BY <2>3, HostKeeps
  <2>4. CASE SampStep \/ SampDies
    BY <2>4, SampKeeps
  <2>5. CASE UNCHANGED growthVars
    BY <2>5
    DEF growthVars, GrowthInv, GrowthTypeOK, ArraysGrow, PlansNamed, FinLocked, FinGrew, Grew
  <2> QED
    BY <2>1, <2>2, <2>3, <2>4, <2>5 DEF GrowthNext
<1> QED
  BY <1>1, GrowthInitInv, PTL DEF GrowthSpec

\* Every variable of the expansions holds a value of its type, for ever.
THEOREM GrowthTypeCorrect == GrowthSpec => []GrowthTypeOK
  BY GrowthInvariance, PTL DEF GrowthInv

\* Only finishOne's success is written as done, by the finisher that took the expansion, and
\* the filesystem is then larger than the array was, unless vgs failed it: each of its commands
\* gave one layer what the layer below had, and no plan, retry, remount or other finisher has
\* shrunk one since.
THEOREM DoneIsGrown == GrowthSpec => FinisherGrows
<1>1. ASSUME GrowthInv, GrowthNext, NEW v \in Volumes,
             entries[v].phase # "done", entries'[v].phase = "done"
      PROVE  \E p \in Procs : /\ fin[p].vol = v
                              /\ fin[p].blind \/ fs[v] > fin[p].load[v]
  <2>1. entries \in [Volumes -> EntryType]
    BY <1>1 DEF GrowthInv, GrowthTypeOK, EntryType
  <2>2. ASSUME NEW p \in Procs,
               PlanStep(p) \/ \E w \in Volumes, mode \in Modes : BuildPlan(p, w, mode)
        PROVE  FALSE
    <3>1. \/ entries' = entries
          \/ entries' = [entries EXCEPT ![plan[p].vol] =
                           [phase |-> "reshape", old |-> plan[p].old, announced |-> FALSE]]
      BY <2>2 DEF PlanStep, PlanAdd, PlanGrow, PlanRecord, PlanExtend, PlanFs, PlanFails,
                  BuildPlan, host
    <3> QED
      BY <1>1, <2>1, <3>1
  <2>3. CASE SampStep \/ SampDies
    <3>1. \/ entries' = entries
          \/ \E w \in samp.acks : entries' = [entries EXCEPT ![w].announced = TRUE]
      BY <2>3 DEF SampStep, SampRead, SampAck, SampReconcile, SampDies
    <3> QED
      BY <1>1, <2>1, <3>1 DEF EntryType
  <2>4. CASE \/ \E w \in Volumes : Retry(w) \/ SyncEnds(w) \/ SyncResumes(w) \/ Remount(w)
             \/ \E p \in Procs : Die(p)
             \/ Reboot
    <3>1. \/ entries' = entries
          \/ \E w \in Volumes : entries' = [entries EXCEPT ![w].phase = "reshape"]
      BY <2>4 DEF Retry, SyncEnds, SyncResumes, Remount, Die, Reboot, host
    <3> QED
      BY <1>1, <2>1, <3>1 DEF EntryType
  <2>5. ASSUME NEW p \in Procs, FinEnd(p) PROVE FALSE
    BY <1>1, <2>1, <2>5 DEF FinEnd, NoEntry
  <2>6. ASSUME NEW p \in Procs, FinWrite(p)
        PROVE  fin[p].vol = v /\ (fin[p].blind \/ fs[v] > fin[p].load[v])
    <3>1. entries' # entries
      BY <1>1
    <3>2. entries' = [entries EXCEPT ![fin[p].vol].phase = IF fin[p].ok THEN "done" ELSE "failed"]
      BY <2>6, <3>1 DEF FinWrite
    <3>3. fin[p].vol = v /\ fin[p].ok
      BY <1>1, <2>1, <3>2 DEF EntryType
    <3>4. fin[p].blind \/ GrewFs(fin[p])
      BY <2>6, <3>3 DEF FinWrite, GrewFs
    <3> QED
      BY <1>1, <3>3, <3>4 DEF GrowthInv, FinGrew, Grew
  <2>7. ASSUME NEW p \in Procs, FinStart(p) \/ FinStep(p), ~FinEnd(p), ~FinWrite(p)
        PROVE  FALSE
    <3>1. entries' = entries
      BY <2>7 DEF FinStart, FinStep, FinTake, FinPv, FinLv, FinLvSkipped, FinLook, FinFs,
             FinFails
    <3> QED
      BY <1>1, <3>1
  <2> QED
    BY <1>1, <2>2, <2>3, <2>4, <2>5, <2>6, <2>7 DEF GrowthNext
<1>2. GrowthInv /\ [GrowthNext]_growthVars =>
        [\A v \in Volumes :
           entries[v].phase # "done" /\ entries'[v].phase = "done" =>
               \E p \in Procs : /\ fin[p].vol = v
                                /\ fin[p].blind \/ fs[v] > fin[p].load[v]]_growthVars
  BY <1>1
<1> QED
  BY <1>2, GrowthInvariance, PTL DEF GrowthSpec, FinisherGrows

=============================================================================
