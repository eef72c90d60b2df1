------------------------------- MODULE Uploads -------------------------------
(***************************************************************************)
(* A file uploaded in chunks.                                              *)
(*                                                                         *)
(* The tab (dashboard/src/lib/upload-runner.ts) asks what is staged, sends *)
(* the missing chunks one by one with retries, hashes the file on the way, *)
(* asks for the finalisation and polls its job.  The backend               *)
(* (routes/files.ts, services/upload.service.ts) keeps the upload in       *)
(* memory and runs every request in steps, one per await; chunks are       *)
(* written by the worker into a staging file, which the finalisation job   *)
(* compares with the digest and renames over the destination.              *)
(*                                                                         *)
(* A request whose client has gone goes on: the tab aborts its fetches     *)
(* when the user cancels or reloads, and sends a chunk again after a       *)
(* broken connection, while the first request is still at work.            *)
(***************************************************************************)
EXTENDS Naturals, Sequences, FiniteSets, FiniteSetsExt

CONSTANTS Chunks,     \* indices of the chunks
          Picks,      \* files of this name and size the user may select
          Ids,        \* upload ids, random and never taken twice
          Slots,      \* bound: requests in the backend at once
          ChunkAttempts, \* MAX_ATTEMPTS
          MaxTries,   \* bound: retries and reloads by the user
          MaxMishaps   \* bound: broken connections, failed writes and publications,
                      \* restarts, evictions

ASSUME UploadsAssumption ==
    /\ IsFiniteSet(Chunks) /\ Chunks \subseteq Nat /\ Chunks # {}
    /\ Picks \subseteq Nat \ {0} /\ Ids \subseteq Nat \ {0} /\ Slots \subseteq Nat \ {0}
    /\ ChunkAttempts \in Nat \ {0} /\ MaxTries \in Nat /\ MaxMishaps \in Nat

VARIABLES
    tab,      \* the transfer in the tab
    saved,    \* the id in localStorage, 0 when there is no entry
    fresh,    \* the ids not used yet
    req,      \* the requests in the backend
    upload,   \* uploadState: the uploads the backend knows
    tomb,     \* uploadCancellationTombstones
    jobs,     \* the file lane: finalisations and deletions not yet run
    hashed,   \* the finalisation at its head has found the digest right
    row,      \* Job.status by job number
    part,     \* the staging file of each id
    late,     \* chunk writes the backend gave up and the worker did not
    dest,     \* history: the files each id's finalisations renamed over the destination
    blurred,  \* history: a write or a publication was given up and came all the same, the
              \* uploads were lost, or a cancellation undid the lock of another
    tries, mishaps

client == <<tab, saved, fresh, tries>>
server == <<upload, tomb>>
worker == <<jobs, hashed, row>>
disk == <<part, late, dest>>
uploadVars == <<tab, saved, fresh, req, upload, tomb, jobs, hashed, row, part, late, dest,
          blurred, tries, mishaps>>

NoFile == [c \in Chunks |-> 0]     \* no file; a hole reads the same in one that is there
Absent == [there |-> FALSE, data |-> NoFile]

NoReq == [at |-> "free", kind |-> "none", id |-> 0, chunk |-> 0, pick |-> 0,
          had |-> FALSE, live |-> FALSE, out |-> "none", job |-> 0]
NoUpload == [known |-> FALSE, received |-> {}, cancelled |-> FALSE, sha |-> 0,
             fin |-> "no", job |-> 0, clean |-> "no", cleanJob |-> 0]

Mishap == mishaps < MaxMishaps /\ mishaps' = mishaps + 1
Whole(f, p) == f = [c \in Chunks |-> p]

----------------------------------------------------------------------------
(* Requests *)

FreeSlots == {r \in Slots : req[r].at = "free"}
Opened(q) == [req EXCEPT ![Min(FreeSlots)] = q]
NewReq(kind, chunk, pick) ==
    [at |-> "new", kind |-> kind, id |-> tab.id, chunk |-> chunk, pick |-> pick,
     had |-> FALSE, live |-> TRUE, out |-> "none", job |-> 0]

\* The answer waits for the tab, unless nobody listens any more.
Answered(q, out) == IF q.live THEN [q EXCEPT !.at = "replied", !.out = out] ELSE NoReq
Answer(r, out) == req' = [req EXCEPT ![r] = Answered(@, out)]

\* The tab drops its fetch; the handler goes on, an answer on its way is lost.
Unheard(q) == IF q.at = "replied" THEN NoReq ELSE [q EXCEPT !.live = FALSE]

Writing(id) == \E r \in Slots : req[r].at = "write" /\ req[r].id = id

\* hasUploadFinalizationStarted
FinalizationStarted(u) == u.sha # 0 \/ u.fin # "no" \/ u.job # 0

----------------------------------------------------------------------------
(* POST /files/upload/chunk *)

\* Before the first await: the upload as it is now.
ChunkArrive(r) ==
    LET q == req[r]  u == upload[q.id] IN
    /\ q.at = "new" /\ q.kind = "chunk"
    /\ IF u.cancelled \/ tomb[q.id] \/ FinalizationStarted(u)
       THEN Answer(r, "refused")
       ELSE req' = [req EXCEPT ![r].at = "pre", ![r].had = u.known]
    /\ UNCHANGED <<client, server, worker, disk, blurred, mishaps>>

\* After volume, permissions and disk space were asked for: claimUpload for a first
\* chunk, then beginUploadWrite.
ChunkClaim(r) ==
    LET q == req[r]  u == upload[q.id] IN
    /\ q.at = "pre"
    /\ IF \/ ~q.had /\ tomb[q.id]
          \/ u.cancelled \/ FinalizationStarted(u)
       THEN Answer(r, "refused") /\ UNCHANGED upload
       ELSE /\ req' = [req EXCEPT ![r].at = "write"]
            /\ upload' = [upload EXCEPT ![q.id].known = TRUE]
    /\ UNCHANGED <<client, tomb, worker, disk, blurred, mishaps>>

\* No volume, no permission, no space, or the worker does not answer.
ChunkRefused(r) ==
    /\ req[r].at = "pre"
    /\ Mishap
    /\ \E out \in {"refused", "failed"} : Answer(r, out)
    /\ UNCHANGED <<client, server, worker, disk, blurred>>

Written(id, c, p) ==
    [part EXCEPT ![id] = [there |-> TRUE, data |-> [@.data EXCEPT ![c] = p]]]

\* handleWriteChunk, and the acknowledgement that makes the chunk staged.
ChunkWrite(r) ==
    LET q == req[r] IN
    /\ q.at = "write"
    /\ part' = Written(q.id, q.chunk, q.pick)
    /\ upload' = [upload EXCEPT ![q.id].received = @ \cup {q.chunk}]
    /\ Answer(r, "ok")
    /\ UNCHANGED <<client, tomb, worker, late, dest, blurred, mishaps>>

\* The worker refuses (no space, no permission), or writes and its answer is lost, or
\* writes after the backend gave up: the chunk is not staged in any case.
ChunkFails(r) ==
    LET q == req[r] IN
    /\ q.at = "write"
    /\ Mishap
    /\ \/ UNCHANGED <<part, late, blurred>> /\ Answer(r, "refused")
       \/ part' = Written(q.id, q.chunk, q.pick) /\ UNCHANGED <<late, blurred>>
          /\ Answer(r, "failed")
       \/ /\ late' = late \cup {[id |-> q.id, chunk |-> q.chunk, pick |-> q.pick]}
          /\ blurred' = TRUE
          /\ UNCHANGED part
          /\ Answer(r, "failed")
    /\ UNCHANGED <<client, server, worker, dest>>

LateWrite ==
    \E w \in late :
        /\ part' = Written(w.id, w.chunk, w.pick)
        /\ late' = late \ {w}
        /\ UNCHANGED <<client, req, server, worker, dest, blurred, mishaps>>

----------------------------------------------------------------------------
(* POST /files/upload/complete *)

Unfinished(s) == s = "pending"

\* MUTANT: the digest of the finalisation under way is not compared.
CompleteArriveAnySha(r) ==
    LET q == req[r]  u == upload[q.id] IN
    /\ q.at = "new" /\ q.kind = "complete"
    /\ \/ /\ ~u.known \/ u.cancelled \/ Writing(q.id)
          /\ Answer(r, "refused")
          /\ UNCHANGED upload
       \/ /\ u.known /\ ~u.cancelled /\ ~Writing(q.id)
          /\ req' = [req EXCEPT ![r].at = "join"]
          /\ upload' = IF u.fin # "no" THEN upload
                       ELSE [upload EXCEPT ![q.id].sha = q.pick, ![q.id].fin = "check"]
    /\ UNCHANGED <<client, tomb, worker, disk, blurred, mishaps>>

\* MUTANT: every request runs a finalisation of its own.
CompleteArriveAlone(r) ==
    LET q == req[r]  u == upload[q.id] IN
    /\ q.at = "new" /\ q.kind = "complete"
    /\ \/ /\ ~u.known \/ u.cancelled \/ Writing(q.id)
          /\ Answer(r, "refused")
          /\ UNCHANGED upload
       \/ /\ u.known /\ ~u.cancelled /\ ~Writing(q.id)
          /\ req' = [req EXCEPT ![r].at = "join"]
          /\ upload' = [upload EXCEPT ![q.id].sha = q.pick, ![q.id].fin = "publish"]
    /\ UNCHANGED <<client, tomb, worker, disk, blurred, mishaps>>

\* One shared promise, set before any await: the write lock and the idempotency of
\* the finalisation.
CompleteArrive(r) ==
    LET q == req[r]  u == upload[q.id] IN
    /\ q.at = "new" /\ q.kind = "complete"
    /\ LET refused == \/ ~u.known \/ u.cancelled \/ Writing(q.id)
                      \/ u.sha \notin {0, q.pick}
       IN \/ refused /\ Answer(r, "refused") /\ UNCHANGED upload
          \/ /\ ~refused
             /\ req' = [req EXCEPT ![r].at = "join"]
             /\ upload' = IF u.fin # "no" THEN upload
                          ELSE [upload EXCEPT ![q.id].sha = q.pick, ![q.id].fin = "check"]
    /\ UNCHANGED <<client, tomb, worker, disk, blurred, mishaps>>

\* All who await the promise are answered, with the job's number.
Joined(id, out, n) ==
    [r \in Slots |-> IF req[r].at = "join" /\ req[r].id = id
                     THEN Answered([req[r] EXCEPT !.job = n], out) ELSE req[r]]

\* The promise is rejected: the digest is forgotten unless a job has it.
FinReject(id, out) ==
    /\ upload' = [upload EXCEPT ![id].fin = "no",
                                ![id].sha = IF upload[id].job = 0 THEN 0 ELSE @]
    /\ req' = Joined(id, out, 0)

\* finalizeUploadState up to the look at the previous job: reuse it unless it failed.
FinCheck(id) ==
    LET u == upload[id] IN
    /\ u.fin = "check"
    /\ IF u.received # Chunks
       THEN FinReject(id, "refused")
       ELSE IF u.job # 0 /\ row[u.job] \notin {"failed", "checksum"}
            THEN /\ upload' = [upload EXCEPT ![id].fin = "no"]
                 /\ req' = Joined(id, "ok", u.job)
            ELSE /\ upload' = [upload EXCEPT ![id].fin = "publish", ![id].job = 0]
                 /\ UNCHANGED req
    /\ UNCHANGED <<client, tomb, worker, disk, blurred, mishaps>>

\* The permissions changed during the upload, or the volume went.
FinRefused(id) ==
    /\ upload[id].fin = "check"
    /\ Mishap
    /\ FinReject(id, "refused")
    /\ UNCHANGED <<client, tomb, worker, disk, blurred>>

Published(kind, id, pick) ==
    /\ row' = Append(row, "pending")
    /\ jobs' = Append(jobs, [n |-> Len(row) + 1, kind |-> kind, id |-> id, pick |-> pick])

\* publishJob: the row, then the message.
FinPublish(id) ==
    LET u == upload[id] IN
    /\ u.fin = "publish"
    /\ Published("finalize", id, u.sha)
    /\ upload' = [upload EXCEPT ![id].fin = "no", ![id].job = Len(row) + 1]
    /\ req' = Joined(id, "ok", Len(row) + 1)
    /\ UNCHANGED <<client, tomb, hashed, disk, blurred, mishaps>>

\* The publication fails, or only its acknowledgement is lost.
FinPublishFails(id) ==
    /\ upload[id].fin = "publish"
    /\ Mishap
    /\ FinReject(id, "failed")
    /\ \/ UNCHANGED <<jobs, row, blurred>>
       \/ Published("finalize", id, upload[id].sha) /\ blurred' = TRUE
    /\ UNCHANGED <<client, tomb, hashed, disk>>

----------------------------------------------------------------------------
(* DELETE /files/upload/cancel *)

\* uploadFinalizationIsActive, before its await
KnownActive(u) == u.fin # "no" \/ (u.sha # 0 /\ u.job = 0)

\* The finalisation is left alone and the lock taken back, also when another
\* cancellation holds it.
Unlock(r) ==
    LET id == req[r].id IN
    /\ upload' = [upload EXCEPT ![id].cancelled = FALSE]
    /\ tomb' = [tomb EXCEPT ![id] = FALSE]
    /\ blurred' = (blurred \/ \E o \in Slots \ {r} :
                       req[o].id = id /\ req[o].at \in {"look", "drain", "clean"})

CancelArrive(r) ==
    LET q == req[r]  u == upload[q.id] IN
    /\ q.at = "new" /\ q.kind = "cancel"
    /\ \/ /\ ~u.known
          /\ tomb' = [tomb EXCEPT ![q.id] = TRUE]
          /\ Answer(r, "ok") /\ UNCHANGED <<upload, blurred>>
       \/ /\ u.known /\ KnownActive(u)
          /\ Unlock(r)
          /\ Answer(r, "refused")
       \/ /\ u.known /\ ~KnownActive(u)
          /\ upload' = [upload EXCEPT ![q.id].cancelled = TRUE]
          /\ tomb' = [tomb EXCEPT ![q.id] = TRUE]
          /\ UNCHANGED blurred
          /\ req' = [req EXCEPT ![r].at = IF u.job = 0 THEN "drain" ELSE "look",
                                ![r].job = u.job]
    /\ UNCHANGED <<client, worker, disk, mishaps>>

\* The status of the finalisation's job: only one that ended makes deletion safe.
CancelLook(r) ==
    LET q == req[r] IN
    /\ q.at = "look"
    /\ IF Unfinished(row[q.job])
       THEN Unlock(r) /\ Answer(r, "refused")
       ELSE req' = [req EXCEPT ![r].at = "drain"] /\ UNCHANGED <<server, blurred>>
    /\ UNCHANGED <<client, worker, disk, mishaps>>

\* MUTANT: the deletion does not wait for the chunks being written.
CancelDrainNow(r) ==
    LET q == req[r]  u == upload[q.id] IN
    /\ q.at = "drain"
    /\ req' = [req EXCEPT ![r].at = "clean"]
    /\ upload' = [upload EXCEPT ![q.id].clean = IF @ = "no" THEN "publish" ELSE @]
    /\ UNCHANGED <<client, tomb, worker, disk, blurred, mishaps>>

\* waitForUploadWrites, then the cleanup all cancellations share.
CancelDrain(r) ==
    LET q == req[r]  u == upload[q.id] IN
    /\ q.at = "drain"
    /\ ~Writing(q.id)
    /\ req' = [req EXCEPT ![r].at = "clean"]
    /\ upload' = [upload EXCEPT ![q.id].clean = IF @ = "no" THEN "publish" ELSE @]
    /\ UNCHANGED <<client, tomb, worker, disk, blurred, mishaps>>

\* Everybody who waits for the cleanup of id is answered.  When the state goes, the
\* requests that hold it find it cancelled, or its cleanup done.
Cleaned(id, out, gone) ==
    [r \in Slots |->
        LET q == req[r] IN
        IF q.id = id /\ (q.at = "clean" \/ (gone /\ q.at \in {"look", "drain"}))
        THEN Answered(q, out)
        ELSE IF q.id = id /\ gone /\ q.at = "pre" /\ q.had
             THEN Answered(q, "refused") ELSE q]

CleanPublish(id) ==
    LET u == upload[id] IN
    /\ u.clean = "publish"
    /\ \/ /\ Published("delete", id, 0)
          /\ upload' = [upload EXCEPT ![id].clean = "wait", ![id].cleanJob = Len(row) + 1]
          /\ UNCHANGED <<req, mishaps>>
       \/ /\ Mishap
          /\ upload' = [upload EXCEPT ![id].clean = "no"]
          /\ req' = Cleaned(id, "failed", FALSE)
          /\ UNCHANGED <<row, jobs>>
    /\ UNCHANGED <<client, tomb, hashed, disk, blurred>>

\* MUTANT: no deadline.
CleanEndWaits(id) ==
    LET u == upload[id] IN
    /\ \/ /\ u.clean = "wait" /\ row[u.cleanJob] = "completed"
          /\ upload' = [upload EXCEPT ![id] = NoUpload]
          /\ tomb' = [tomb EXCEPT ![id] = FALSE]
          /\ req' = Cleaned(id, "ok", TRUE)
       \/ /\ u.clean = "over" /\ \E r \in Slots : req[r].at = "clean" /\ req[r].id = id
          /\ req' = Cleaned(id, "ok", FALSE)
          /\ UNCHANGED server
    /\ UNCHANGED <<client, worker, disk, blurred, mishaps>>

\* waitForCleanupCompletion: the state goes with its staging file, or, after 3 s,
\* stays cancelled.
CleanEnd(id) ==
    LET u == upload[id] IN
    /\ \/ /\ u.clean = "wait" /\ row[u.cleanJob] = "completed"
          /\ upload' = [upload EXCEPT ![id] = NoUpload]
          /\ tomb' = [tomb EXCEPT ![id] = FALSE]
          /\ req' = Cleaned(id, "ok", TRUE)
       \/ /\ u.clean = "wait" /\ row[u.cleanJob] # "completed"
          /\ upload' = [upload EXCEPT ![id].clean = "over"]
          /\ req' = Cleaned(id, "ok", FALSE)
          /\ UNCHANGED tomb
       \/ /\ u.clean = "over" /\ \E r \in Slots : req[r].at = "clean" /\ req[r].id = id
          /\ req' = Cleaned(id, "ok", FALSE)
          /\ UNCHANGED server
    /\ UNCHANGED <<client, worker, disk, blurred, mishaps>>

----------------------------------------------------------------------------
(* The backend's clock, and its restart *)

\* startUploadGc: an upload nobody touched for a day (longer than any request, and than
\* any job in the lane) goes, its staging file later.
EvictStale(id) ==
    LET u == upload[id] IN
    /\ u.known /\ u.fin = "no" /\ \A r \in Slots : req[r].id # id
    /\ \A i \in DOMAIN jobs : jobs[i].id # id
    /\ Mishap
    /\ upload' = [upload EXCEPT ![id] = NoUpload]
    /\ tomb' = [tomb EXCEPT ![id] = TRUE]
    /\ Published("delete", id, 0)
    /\ UNCHANGED <<client, req, hashed, disk, blurred>>

\* After CANCEL_TOMBSTONE_TTL_MS, longer than any request.
TombExpire(id) ==
    /\ tomb[id] /\ \A r \in Slots : req[r].id # id
    /\ tomb' = [tomb EXCEPT ![id] = FALSE]
    /\ UNCHANGED <<client, req, upload, worker, disk, blurred, mishaps>>

\* The uploads were in memory; the rows not ended are marked failed (connectNats), and
\* their jobs run all the same.
Restart ==
    /\ Mishap
    /\ upload' = [id \in Ids |-> NoUpload]
    /\ tomb' = [id \in Ids |-> FALSE]
    /\ req' = [r \in Slots |-> IF req[r].at = "free" THEN req[r]
                               ELSE IF req[r].at = "replied" THEN req[r]
                               ELSE Answered(req[r], "failed")]
    /\ row' = [n \in DOMAIN row |-> IF Unfinished(row[n]) THEN "failed" ELSE row[n]]
    /\ blurred' = TRUE
    /\ UNCHANGED <<client, jobs, hashed, disk>>

----------------------------------------------------------------------------
(* The worker's file lane *)

Ended(status) ==
    /\ row' = [row EXCEPT ![Head(jobs).n] = status]
    /\ jobs' = Tail(jobs)
    /\ hashed' = FALSE

\* doFinalize up to the comparison: a wrong digest removes the staging file.
FinalizeHash ==
    /\ jobs # <<>> /\ Head(jobs).kind = "finalize" /\ ~hashed
    /\ LET j == Head(jobs) IN
       \/ /\ ~part[j.id].there
          /\ Ended("failed")
          /\ UNCHANGED part
       \/ /\ part[j.id].there /\ ~Whole(part[j.id].data, j.pick)
          /\ Ended("checksum")
          /\ part' = [part EXCEPT ![j.id] = Absent]
       \/ /\ part[j.id].there /\ Whole(part[j.id].data, j.pick)
          /\ hashed' = TRUE
          /\ UNCHANGED <<jobs, row, part>>
    /\ UNCHANGED <<client, req, server, late, dest, blurred, mishaps>>

\* No permission, or an error while it reads
FinalizeFails ==
    /\ jobs # <<>> /\ Head(jobs).kind = "finalize" /\ ~hashed
    /\ Mishap
    /\ Ended("failed")
    /\ UNCHANGED <<client, req, server, disk, blurred>>

\* The rename; or the worker stops right after it and the job is delivered again.
FinalizeRename ==
    /\ jobs # <<>> /\ hashed
    /\ LET id == Head(jobs).id IN
       /\ dest' = [dest EXCEPT ![id] = @ \cup {part[id].data}]
       /\ part' = [part EXCEPT ![id] = Absent]
    /\ \/ Ended("completed") /\ UNCHANGED <<blurred, mishaps>>
       \/ /\ Mishap /\ hashed' = FALSE /\ blurred' = TRUE
          /\ UNCHANGED <<jobs, row>>
    /\ UNCHANGED <<client, req, server, late>>

\* doDelete, or its failure
DeletePart ==
    /\ jobs # <<>> /\ Head(jobs).kind = "delete"
    /\ \/ /\ part' = [part EXCEPT ![Head(jobs).id] = Absent]
          /\ Ended("completed")
          /\ UNCHANGED <<blurred, mishaps>>
       \/ Mishap /\ Ended("failed") /\ blurred' = TRUE /\ UNCHANGED part
    /\ UNCHANGED <<client, req, server, late, dest>>

----------------------------------------------------------------------------
(* The tab *)

NoTab == [pc |-> "idle", id |-> 0, pick |-> 0, staged |-> {}, attempt |-> 1, job |-> 0]

Mine == {r \in Slots : req[r].live}
MyReplies == {r \in Mine : req[r].at = "replied"}
Rest == UNCHANGED <<server, worker, disk, blurred>>
Quiet == UNCHANGED <<fresh, req, mishaps>> /\ Rest

Go(pc) == tab' = [tab EXCEPT !.pc = pc]
Try == tries < MaxTries /\ tries' = tries + 1

TakeId(pc) ==
    /\ fresh # {}
    /\ fresh' = fresh \ {Min(fresh)}
    /\ saved' = Min(fresh)
    /\ tab' = [tab EXCEPT !.pc = pc, !.id = Min(fresh)]

\* startUpload
StartUpload(p) ==
    /\ tab.pc = "idle" /\ saved = 0
    /\ Cardinality(fresh) > 1      \* bound: an id is left to begin again with
    /\ fresh' = fresh \ {Min(fresh)}
    /\ saved' = Min(fresh)
    /\ tab' = [NoTab EXCEPT !.pc = "asking", !.id = Min(fresh), !.pick = p]
    /\ UNCHANGED <<req, tries, mishaps>> /\ Rest

\* fetchStagedChunks: what is staged, or nothing when the question fails.
AskStaged ==
    /\ tab.pc = "asking"
    /\ LET u == upload[tab.id] IN
       \/ /\ tab' = [tab EXCEPT !.pc = "sending", !.attempt = 1,
                                !.staged = IF u.known /\ ~u.cancelled THEN u.received ELSE {}]
          /\ UNCHANGED mishaps
       \/ /\ Mishap
          /\ tab' = [tab EXCEPT !.pc = "sending", !.attempt = 1, !.staged = {}]
    /\ UNCHANGED <<saved, fresh, req, tries>> /\ Rest

\* sendChunkWithRetry, the loop of runUpload around it, and completeUpload at its end
SendNext ==
    /\ tab.pc = "sending" /\ FreeSlots # {}
    /\ IF tab.staged = Chunks
       THEN /\ req' = Opened(NewReq("complete", 0, tab.pick))
            /\ Go("completing")
       ELSE /\ req' = Opened(NewReq("chunk", Min(Chunks \ tab.staged), tab.pick))
            /\ Go("waiting")
    /\ UNCHANGED <<saved, fresh, tries, mishaps>> /\ Rest

\* A broken connection or a 5xx: the same chunk again, MAX_ATTEMPTS times.
ChunkAgain ==
    IF tab.attempt = ChunkAttempts THEN Go("error")
    ELSE tab' = [tab EXCEPT !.pc = "sending", !.attempt = @ + 1]

ChunkAnswered ==
    /\ tab.pc = "waiting"
    /\ \E r \in MyReplies :
        /\ req' = [req EXCEPT ![r] = NoReq]
        /\ \/ /\ req[r].out = "ok"
              /\ tab' = [tab EXCEPT !.pc = "sending", !.attempt = 1,
                                    !.staged = @ \cup {req[r].chunk}]
           \/ req[r].out = "refused" /\ Go("error")
           \/ req[r].out = "failed" /\ ChunkAgain
    /\ UNCHANGED <<saved, fresh, tries, mishaps>> /\ Rest

CompleteAnswered ==
    /\ tab.pc = "completing"
    /\ \E r \in MyReplies :
        /\ req' = [req EXCEPT ![r] = NoReq]
        /\ IF req[r].out = "ok"
           THEN tab' = [tab EXCEPT !.pc = "verifying", !.job = req[r].job]
           ELSE Go("error")
    /\ UNCHANGED <<saved, fresh, tries, mishaps>> /\ Rest

\* pollJobResult; a wrong digest means that the staging file is gone, so the backend is
\* told to forget the upload and another id is taken.
Poll ==
    /\ tab.pc = "verifying"
    /\ \/ /\ row[tab.job] = "completed"
          /\ Go("done") /\ saved' = 0 /\ UNCHANGED <<req, mishaps>>
       \/ /\ row[tab.job] = "failed"
          /\ Go("error") /\ UNCHANGED <<saved, req, mishaps>>
       \/ /\ row[tab.job] = "checksum" /\ FreeSlots # {}
          /\ req' = Opened(NewReq("cancel", 0, 0))
          /\ Go("clearing") /\ UNCHANGED <<saved, mishaps>>
       \/ /\ Unfinished(row[tab.job]) /\ Mishap      \* deadline, or the query fails
          /\ Go("error") /\ UNCHANGED <<saved, req>>
    /\ UNCHANGED <<fresh, tries>> /\ Rest

\* Whatever the backend answers
ClearAnswered ==
    /\ tab.pc = "clearing"
    /\ \E r \in MyReplies : req' = [req EXCEPT ![r] = NoReq]
    /\ TakeId("error")
    /\ UNCHANGED <<tries, mishaps>> /\ Rest

\* The connection breaks before the request arrives, or while it is at work, or with
\* its answer on the way.
Break ==
    /\ Mishap
    /\ \E r \in Mine :
        \/ req[r].at = "new" /\ req' = [req EXCEPT ![r] = NoReq]
        \/ req' = [req EXCEPT ![r] = Unheard(@)]
    /\ \/ tab.pc = "waiting" /\ ChunkAgain /\ UNCHANGED <<saved, fresh>>
       \/ tab.pc = "completing" /\ Go("error") /\ UNCHANGED <<saved, fresh>>
       \/ tab.pc = "clearing" /\ TakeId("error")
    /\ UNCHANGED tries /\ Rest

----------------------------------------------------------------------------
(* The user *)

\* uploads.cancel aborts the run, which tells the backend and does not wait.
UserCancel ==
    /\ tab.pc \in {"asking", "sending", "waiting", "completing"}
    /\ FreeSlots # {}
    /\ req' = [r \in Slots |->
                 IF r = Min(FreeSlots)
                 THEN Unheard(NewReq("cancel", 0, 0))
                 ELSE IF r \in Mine THEN Unheard(req[r]) ELSE req[r]]
    /\ tab' = NoTab
    /\ saved' = 0
    /\ UNCHANGED <<fresh, tries, mishaps>> /\ Rest

\* Retry with the file at hand, or with one selected again after a reload: the same
\* name and size, possibly another content.
Retry(p) ==
    /\ tab.pc = "error" /\ tab.pick \in {0, p}
    /\ IF tab.pick = 0 THEN UNCHANGED tries ELSE Try
    /\ tab' = [tab EXCEPT !.pc = "asking", !.pick = p]
    /\ UNCHANGED <<saved, fresh, req, mishaps>> /\ Rest

\* The finished row goes after 3 s; a failed one on request, and its bookmark stays.
RemoveRow ==
    /\ tab.pc \in {"done", "error"}
    /\ tab' = NoTab
    /\ UNCHANGED <<saved, tries>> /\ Quiet

Reload ==
    /\ tab.pc # "loading" /\ saved # 0
    /\ Try
    /\ tab' = [NoTab EXCEPT !.pc = "loading", !.id = saved]
    /\ req' = [r \in Slots |-> IF r \in Mine THEN Unheard(req[r]) ELSE req[r]]
    /\ UNCHANGED <<saved, fresh, mishaps>> /\ Rest

\* hydrateInterruptedUploads
Hydrate ==
    LET u == upload[tab.id]
        status == IF u.job = 0 THEN "none" ELSE row[u.job]
        gone == ~u.known \/ u.cancelled \/ status = "completed"
    IN
    /\ tab.pc = "loading"
    /\ \/ /\ gone
          /\ tab' = NoTab /\ saved' = 0 /\ UNCHANGED <<req, mishaps>>
       \/ /\ ~gone /\ Unfinished(status)
          /\ tab' = [tab EXCEPT !.pc = "verifying", !.job = u.job]
          /\ UNCHANGED <<saved, req, mishaps>>
       \/ /\ ~gone /\ status = "checksum" /\ FreeSlots # {}
          /\ req' = Opened(NewReq("cancel", 0, 0))
          /\ Go("clearing") /\ UNCHANGED <<saved, mishaps>>
       \/ /\ ~gone /\ status \in {"none", "failed"}
          /\ Go("error") /\ UNCHANGED <<saved, req, mishaps>>
       \/ /\ Mishap                                   \* no answer: until the next reload
          /\ tab' = NoTab /\ UNCHANGED <<saved, req>>
    /\ UNCHANGED <<fresh, tries>> /\ Rest

----------------------------------------------------------------------------
UploadInit ==
    /\ tab = NoTab /\ saved = 0 /\ fresh = Ids
    /\ req = [r \in Slots |-> NoReq]
    /\ upload = [id \in Ids |-> NoUpload] /\ tomb = [id \in Ids |-> FALSE]
    /\ jobs = <<>> /\ hashed = FALSE /\ row = <<>>
    /\ part = [id \in Ids |-> Absent] /\ late = {} /\ dest = [id \in Ids |-> {}]
    /\ blurred = FALSE /\ tries = 0 /\ mishaps = 0

Handler(r) ==
    \/ ChunkArrive(r) \/ ChunkClaim(r) \/ ChunkWrite(r)
    \/ CompleteArrive(r)
    \/ CancelArrive(r) \/ CancelLook(r) \/ CancelDrain(r)

Shared(id) == FinCheck(id) \/ FinPublish(id) \/ CleanPublish(id) \/ CleanEnd(id)

Worker == FinalizeHash \/ FinalizeRename \/ DeletePart

Tab == AskStaged \/ SendNext \/ ChunkAnswered \/ CompleteAnswered \/ Poll
       \/ ClearAnswered \/ Hydrate

UploadNext ==
    \/ \E r \in Slots : Handler(r) \/ ChunkRefused(r) \/ ChunkFails(r)
    \/ \E id \in Ids : \/ Shared(id) \/ FinRefused(id) \/ FinPublishFails(id)
                       \/ EvictStale(id) \/ TombExpire(id)
    \/ Worker \/ FinalizeFails \/ LateWrite \/ Restart
    \/ Tab \/ Break \/ UserCancel \/ RemoveRow \/ Reload
    \/ \E p \in Picks : StartUpload(p) \/ Retry(p)

\* The backend's awaits end, the worker takes its jobs, and the tab goes on; nothing
\* is assumed of the user, of the clock or of faults.
UploadFairness ==
    /\ \A r \in Slots : WF_uploadVars(Handler(r))
    /\ \A id \in Ids : WF_uploadVars(Shared(id))
    /\ WF_uploadVars(Worker) /\ WF_uploadVars(Tab)

UploadSpec == UploadInit /\ [][UploadNext]_uploadVars /\ UploadFairness

----------------------------------------------------------------------------
Files == [Chunks -> Picks \cup {0}]
Numbers == 0..Len(row)

UploadTypeOK ==
    /\ tab.pc \in {"idle", "asking", "sending", "waiting", "completing", "verifying",
                   "clearing", "loading", "done", "error"}
    /\ tab.id \in Ids \cup {0} /\ tab.pick \in Picks \cup {0} /\ tab.staged \subseteq Chunks
    /\ tab.attempt \in 1..ChunkAttempts /\ tab.job \in Numbers
    /\ saved \in Ids \cup {0} /\ fresh \subseteq Ids
    /\ req \in [Slots ->
         [at : {"free", "new", "pre", "write", "join", "look", "drain", "clean", "replied"},
          kind : {"none", "chunk", "complete", "cancel"}, id : Ids \cup {0},
          chunk : Chunks \cup {0}, pick : Picks \cup {0}, had : BOOLEAN, live : BOOLEAN,
          out : {"none", "ok", "refused", "failed"}, job : Numbers]]
    /\ upload \in [Ids ->
         [known : BOOLEAN, received : SUBSET Chunks, cancelled : BOOLEAN,
          sha : Picks \cup {0}, fin : {"no", "check", "publish"}, job : Numbers,
          clean : {"no", "publish", "wait", "over"}, cleanJob : Numbers]]
    /\ tomb \in [Ids -> BOOLEAN]
    /\ row \in Seq({"pending", "completed", "failed", "checksum"})
    /\ jobs \in Seq([n : Numbers, kind : {"finalize", "delete"}, id : Ids,
                     pick : Picks \cup {0}])
    /\ hashed \in BOOLEAN /\ blurred \in BOOLEAN
    /\ part \in [Ids -> [there : BOOLEAN, data : Files]] /\ dest \in [Ids -> SUBSET Files]
    /\ late \subseteq [id : Ids, chunk : Chunks, pick : Picks]
    /\ tries \in 0..MaxTries /\ mishaps \in 0..MaxMishaps

\* What lands under the destination's name is one whole file, and a tab that says
\* "done" has landed the file it read, whatever was selected again on the way.
\* (A chunk write the backend gave up may change the file between digest and rename.)
Landed ==
    ~blurred =>
        /\ \A id \in Ids : \A f \in dest[id] : \E p \in Picks : Whole(f, p)
        /\ tab.pc = "done" =>
             \E f \in dest[tab.id] : tab.pick = 0 \/ Whole(f, tab.pick)

\* Nothing works against a finalisation: never two of one staging file under way, however
\* many requests ask for it and however many answers are lost; none while a cancellation's
\* deletion of that file runs; and an id a cancellation holds is not taken up again by a
\* chunk or a finalisation that was past its checks.
Exclusive ==
    \A id \in Ids :
        LET finals == {i \in DOMAIN jobs : jobs[i].id = id /\ jobs[i].kind = "finalize"} IN
        /\ ~blurred => Cardinality(finals) <= (IF upload[id].clean = "wait" THEN 0 ELSE 1)
        /\ tomb[id] /\ upload[id].known => upload[id].cancelled

\* A staging file always has somebody who will remove it or take it over: the upload in
\* memory (its tab, a cancellation or the eviction), or a job in the lane.
Owned ==
    ~blurred => \A id \in Ids :
        part[id].there => upload[id].known \/ \E i \in DOMAIN jobs : jobs[i].id = id

\* A transfer never hangs: the tab always comes to a state the user can act on, or has
\* nothing to do.
TransferSettles == []<>(tab.pc \in {"idle", "done", "error"})

=============================================================================
