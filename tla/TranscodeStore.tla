--------------------------- MODULE TranscodeStore ---------------------------
(***************************************************************************)
(* The rows of the SQLite store that make up the transcode queue, and the  *)
(* transactions that change them (internal/store/sqlite).                  *)
(*                                                                         *)
(* The pool of connections holds one connection (db.go), so a transaction, *)
(* or a statement outside one, is a single step here.  The module says     *)
(* nothing of who calls: StoreSpec lets any caller run any transaction at  *)
(* any time.  TranscodeQueue adds the goroutines and the handlers.         *)
(*                                                                         *)
(* Every media item has at most one job (migration 13), so a job is named  *)
(* by its media item, and a sub-job by its media item and its kind.  Rows  *)
(* are deleted and created anew when a job is reset; gen counts the sets   *)
(* of sub-job rows a media item has had, and <<item, kind, gen>> stands    *)
(* for a sub-job's uuid.                                                   *)
(***************************************************************************)
EXTENDS Integers, FiniteSets

CONSTANTS
  Media,          \* media items
  Profiles,       \* transcode profiles: one video sub-job each
  Subtitles,      \* the kind of the subtitles sub-job
  Workers,        \* uuids of remote workers; one is never used twice
  NoWorker,       \* a NULL worker_id
  MaxPriority,    \* bound on priorities
  MaxClock,       \* bound on the seconds created_at tells apart
  MaxGen          \* bound on the times an item's sub-jobs are created

ASSUME StoreAssumption ==
  /\ NoWorker \notin Workers
  /\ Subtitles \notin Profiles
  /\ Profiles # {}
  /\ MaxPriority \in Nat
  /\ MaxClock \in Nat
  /\ MaxGen \in Nat

VARIABLES
  media,     \* media_items.transcode_status, "deleted" when there is no row
  job,       \* transcode_jobs
  sub,       \* transcode_sub_jobs
  gen,       \* how often the sub-jobs of an item were created
  worker,    \* transcode_workers
  clock,     \* the second time.Now() is in
  queuedBy   \* history: what queued the item's job last, "enqueue" or "bulk"

rows == <<media, job, sub, gen, worker>>
storeVars == <<media, job, sub, gen, worker, clock, queuedBy>>

-----------------------------------------------------------------------------
(* Rows *)

Kinds == Profiles \cup {Subtitles}
Status == {"pending", "processing", "done", "failed"}
Active == {"pending", "processing"}
Ended == {"done", "failed"}
Owners == Workers \cup {NoWorker}

JobRow == [status : Status \cup {"absent"}, priority : 0..MaxPriority,
           created : 0..MaxClock, worker : Owners]
SubRow == [status : Status \cup {"absent"}, owner : Owners]

\* A worker is stale (fresh = FALSE) when last_heartbeat is NULL or older than
\* the timeout of the monitor.  "online" stands for idle and transcoding.
WorkerRow == [status : {"new", "offline", "online", "deleted"},
              ephemeral : BOOLEAN, fresh : BOOLEAN]

NoJob == [status |-> "absent", priority |-> 0, created |-> 0, worker |-> NoWorker]
NoSub == [status |-> "absent", owner |-> NoWorker]
NewWorker == [status |-> "new", ephemeral |-> FALSE, fresh |-> FALSE]
GoneWorker == [NewWorker EXCEPT !.status = "deleted"]
PendingSub == [status |-> "pending", owner |-> NoWorker]

MediaExists(m) == media[m] # "deleted"
JobExists(m) == job[m].status # "absent"
SubExists(m, k) == sub[m][k].status # "absent"
WorkerExists(w) == worker[w].status \in {"offline", "online"}

StoreInit ==
  /\ media = [m \in Media |-> "none"]
  /\ job = [m \in Media |-> NoJob]
  /\ sub = [m \in Media |-> [k \in Kinds |-> NoSub]]
  /\ gen = [m \in Media |-> 0]
  /\ worker = [w \in Workers |-> NewWorker]
  /\ clock = 0
  /\ queuedBy = [m \in Media |-> "enqueue"]

-----------------------------------------------------------------------------
(* Enqueueing *)

\* The rows createSubJobsForJob inserts when P are the profiles left after the
\* filter: one video sub-job for each, and the subtitles sub-job.
NewSubs(P) == [k \in Kinds |-> IF k \in P \cup {Subtitles} THEN PendingSub ELSE NoSub]

createSubJobsForJob(m, P) ==
  /\ gen[m] < MaxGen
  /\ sub' = [sub EXCEPT ![m] = NewSubs(P)]
  /\ gen' = [gen EXCEPT ![m] = @ + 1]
  /\ queuedBy' = [queuedBy EXCEPT ![m] = "enqueue"]

CreateTranscodeJob(m, P) ==
  /\ MediaExists(m) /\ ~JobExists(m)
  /\ job' = [job EXCEPT ![m] = [NoJob EXCEPT !.status = "pending", !.created = clock]]
  /\ createSubJobsForJob(m, P)
  /\ UNCHANGED <<media, worker, clock>>

\* The transaction itself does not look at the status it overwrites.
ResetTranscodeJob(m, at, P) ==
  /\ JobExists(m)
  /\ job' = [job EXCEPT ![m].status = "pending", ![m].created = at,
                        ![m].worker = NoWorker]
  /\ createSubJobsForJob(m, P)
  /\ UNCHANGED <<media, worker, clock>>

SetMediaTranscodeStatus(m, s) ==
  /\ media' = [media EXCEPT ![m] = IF MediaExists(m) THEN s ELSE @]
  /\ UNCHANGED <<job, sub, gen, worker, clock, queuedBy>>

BulkEnqueueUntranscoded ==
  LET new == {m \in Media : MediaExists(m) /\ ~JobExists(m)}
  IN /\ new # {}
     /\ job' = [m \in Media |->
                  IF m \in new THEN [NoJob EXCEPT !.status = "pending", !.created = clock]
                               ELSE job[m]]
     /\ media' = [m \in Media |-> IF m \in new THEN "pending" ELSE media[m]]
     /\ queuedBy' = [m \in Media |-> IF m \in new THEN "bulk" ELSE queuedBy[m]]
     /\ UNCHANGED <<sub, gen, worker, clock>>

\* What BulkEnqueueFailed and BulkEnqueueCompleted share: the jobs with status s
\* go back to pending, and their sub-jobs stay as they are.
BulkRequeue(s) ==
  LET old == {m \in Media : job[m].status = s}
  IN /\ old # {}
     /\ job' = [m \in Media |->
                  IF m \in old THEN [job[m] EXCEPT !.status = "pending",
                                                   !.created = clock, !.worker = NoWorker]
                               ELSE job[m]]
     /\ media' = [m \in Media |-> IF m \in old THEN "pending" ELSE media[m]]
     /\ queuedBy' = [m \in Media |-> IF m \in old THEN "bulk" ELSE queuedBy[m]]
     /\ UNCHANGED <<sub, gen, worker, clock>>

BulkEnqueueFailed == BulkRequeue("failed")
BulkEnqueueCompleted == BulkRequeue("done")

\* p is one more than the highest priority of the other pending jobs, or than 0.
AbovePending(m, p) ==
  LET others == {job[n].priority : n \in {x \in Media \ {m} : job[x].status = "pending"}}
  IN /\ \A q \in others : q < p
     /\ p - 1 \in others \cup {0}

PrioritizeJob(m) ==
  /\ job[m].status = "pending"
  /\ \E p \in 1..MaxPriority :
       /\ AbovePending(m, p)
       /\ job' = [job EXCEPT ![m].priority = p]
  /\ UNCHANGED <<media, sub, gen, worker, clock, queuedBy>>

-----------------------------------------------------------------------------
(* Claiming and finishing sub-jobs *)

\* Mutant: the claim forgets the status of the sub-job.
ClaimableRunning == {s \in Media \X Kinds :
                       sub[s[1]][s[2]].status \in Active /\ job[s[1]].status # "failed"}

Claimable == {s \in Media \X Kinds :
                sub[s[1]][s[2]].status = "pending" /\ job[s[1]].status # "failed"}

\* ORDER BY priority DESC, created_at ASC, type DESC: sub-jobs this leaves equal
\* are ordered by their random uuids.
ClaimedBefore(s, t) ==
  LET j == job[s[1]]
      i == job[t[1]]
  IN \/ j.priority > i.priority
     \/ j.priority = i.priority /\ j.created < i.created
     \/ /\ j.priority = i.priority /\ j.created = i.created
        /\ s[2] # Subtitles /\ t[2] = Subtitles

NextSubJobs == {s \in Claimable : \A t \in Claimable : ~ClaimedBefore(t, s)}

\* Mutant: a claim leaves the parent job pending.
ClaimOnlySubJob(s, w) ==
  /\ s \in NextSubJobs
  /\ w # NoWorker => WorkerExists(w)
  /\ sub' = [sub EXCEPT ![s[1]][s[2]] = [status |-> "processing", owner |-> w]]
  /\ UNCHANGED <<media, job, gen, worker, clock, queuedBy>>

\* The claim of sub-job s by worker w, or by the local pool (NoWorker).  A
\* worker_id without a row breaks the foreign key, and nothing is claimed.
ClaimNextSubJob(s, w) ==
  LET m == s[1]
      k == s[2]
  IN /\ s \in NextSubJobs
     /\ w # NoWorker => WorkerExists(w)
     /\ sub' = [sub EXCEPT ![m][k] = [status |-> "processing", owner |-> w]]
     /\ IF job[m].status = "pending"
          THEN /\ job' = [job EXCEPT ![m].status = "processing"]
               /\ media' = [media EXCEPT ![m] = "processing"]
          ELSE UNCHANGED <<job, media>>
     /\ UNCHANGED <<gen, worker, clock, queuedBy>>

\* Mutants: only pending siblings are counted; done siblings count as unfinished;
\* a failure is written in words the rest of the code does not know.
SettleWhileProcessing(m, k, s) ==
  IF s = "failed" THEN "failed"
  ELSE IF \E i \in Kinds \ {k} : sub[m][i].status = "pending" THEN job[m].status
  ELSE "done"

SettleNever(m, k, s) ==
  IF s = "failed" THEN "failed"
  ELSE IF \E i \in Kinds \ {k} : sub[m][i].status # "failed" THEN job[m].status
  ELSE "done"

SettleUnknown(m, k, s) == IF s = "failed" THEN "error" ELSE job[m].status

\* What the end of a sub-job with status s makes of its job: a failure fails the
\* job at once, and the last sub-job to end decides between done and failed.
JobStatusAfter(m, k, s) ==
  LET others == {sub[m][i].status : i \in Kinds \ {k}}
  IN IF s = "failed" THEN "failed"
     ELSE IF others \cap Active # {} THEN job[m].status
     ELSE IF "failed" \in others THEN "failed" ELSE "done"

UpdateSubJobStatus(m, k, s) ==
  LET others == {sub[m][i].status : i \in Kinds \ {k}}
      settled == s = "failed" \/ others \cap Active = {}
  IN /\ SubExists(m, k)
     /\ s \in Ended
     /\ sub' = [sub EXCEPT ![m][k].status = s]
     /\ job' = [job EXCEPT ![m].status = JobStatusAfter(m, k, s)]
     /\ media' = [media EXCEPT ![m] = IF settled THEN JobStatusAfter(m, k, s) ELSE @]
     /\ UNCHANGED <<gen, worker, clock, queuedBy>>

\* Mutant: startup recovery resets the jobs and forgets their sub-jobs.
RecoverOnlyJobs ==
  /\ job' = [m \in Media |->
               IF job[m].status = "processing"
                 THEN [job[m] EXCEPT !.status = "pending"] ELSE job[m]]
  /\ UNCHANGED <<media, sub, gen, worker, clock, queuedBy>>

\* Startup recovery.  It leaves worker_id and media_items as they are.
RecoverStaleJobs ==
  /\ sub' = [m \in Media |-> [k \in Kinds |->
               IF sub[m][k].status = "processing"
                 THEN [sub[m][k] EXCEPT !.status = "pending"] ELSE sub[m][k]]]
  /\ job' = [m \in Media |->
               IF job[m].status = "processing"
                 THEN [job[m] EXCEPT !.status = "pending"] ELSE job[m]]
  /\ UNCHANGED <<media, gen, worker, clock, queuedBy>>

-----------------------------------------------------------------------------
(* Remote workers *)

CreateWorker(w) ==
  /\ worker[w].status = "new"
  /\ worker' = [worker EXCEPT ![w].status = "offline"]
  /\ UNCHANGED <<media, job, sub, gen, clock, queuedBy>>

CreateEphemeralWorker(w) ==
  /\ worker[w].status = "new"
  /\ worker' = [worker EXCEPT ![w].status = "online", ![w].ephemeral = TRUE]
  /\ UNCHANGED <<media, job, sub, gen, clock, queuedBy>>

UpdateWorkerHeartbeat(w) ==
  /\ WorkerExists(w)
  /\ worker' = [worker EXCEPT ![w].status = "online", ![w].fresh = TRUE]
  /\ UNCHANGED <<media, job, sub, gen, clock, queuedBy>>

\* ON DELETE SET NULL of the two worker_id columns.
Detach(owner, gone) == IF owner \in gone THEN NoWorker ELSE owner

\* RequeueWorkerJobs looks for jobs whose own worker_id is w; the foreign key
\* then clears the worker_id of w's sub-jobs, whatever their status.
DeleteWorker(w) ==
  LET assigned == {m \in Media : job[m].status = "processing" /\ job[m].worker = w}
  IN /\ WorkerExists(w)
     /\ worker' = [worker EXCEPT ![w] = GoneWorker]
     /\ job' = [m \in Media |->
                  IF m \in assigned
                    THEN [job[m] EXCEPT !.status = "pending", !.worker = NoWorker]
                    ELSE [job[m] EXCEPT !.worker = Detach(@, {w})]]
     /\ media' = [m \in Media |-> IF m \in assigned THEN "pending" ELSE media[m]]
     /\ sub' = [m \in Media |-> [k \in Kinds |->
                  [sub[m][k] EXCEPT !.owner = Detach(@, {w})]]]
     /\ UNCHANGED <<gen, clock, queuedBy>>

\* Mutant: the monitor looks at standard workers only.
FailedStandard ==
  {w \in Workers : worker[w].status = "online" /\ ~worker[w].fresh /\ ~worker[w].ephemeral}

FailedWorkers == {w \in Workers : worker[w].status = "online" /\ ~worker[w].fresh}

\* Mutants: sub-jobs without a worker are taken for the failed worker's; sub-jobs
\* that ended are requeued with the rest.
RequeueUnowned(r, failed, deleted) ==
  IF r.status = "processing" /\ r.owner \in failed \cup {NoWorker} THEN PendingSub ELSE r

RequeueEnded(r, failed, deleted) ==
  IF r.status # "absent" /\ r.owner \in failed THEN PendingSub ELSE r

\* Mutant: the workers are marked, and their sub-jobs forgotten.
RequeueNothing(r, failed, deleted) == [r EXCEPT !.owner = Detach(@, deleted)]

\* The rows the monitor's transaction leaves of sub-jobs: ephemeral workers are
\* deleted first, then the sub-jobs that still name a failed worker are requeued.
RequeuedSub(r, failed, deleted) ==
  LET d == [r EXCEPT !.owner = Detach(@, deleted)]
  IN IF d.status = "processing" /\ d.owner \in failed THEN PendingSub ELSE d

RecoverFailedWorkers ==
  LET failed == FailedWorkers
      deleted == {w \in failed : worker[w].ephemeral}
      requeued == {m \in Media : \E k \in Kinds :
                     sub[m][k].status = "processing" /\ sub[m][k].owner \in failed}
      after == [m \in Media |-> [k \in Kinds |-> RequeuedSub(sub[m][k], failed, deleted)]]
      started(m) == \E k \in Kinds : after[m][k].status \in {"processing", "done"}
      reopened(s) == IF s = "failed" THEN "processing" ELSE s
  IN /\ failed # {}
     /\ sub' = after
     /\ worker' = [w \in Workers |->
                     IF w \in deleted THEN GoneWorker
                     ELSE IF w \in failed THEN [worker[w] EXCEPT !.status = "offline"]
                     ELSE worker[w]]
     /\ job' = [m \in Media |->
                  IF m \notin requeued
                    THEN [job[m] EXCEPT !.worker = Detach(@, deleted)]
                    ELSE [job[m] EXCEPT
                            !.status = IF started(m) THEN reopened(@) ELSE "pending",
                            !.worker = IF started(m) THEN Detach(@, failed) ELSE NoWorker]]
     /\ media' = [m \in Media |->
                    IF m \notin requeued THEN media[m]
                    ELSE IF started(m) THEN reopened(media[m]) ELSE "pending"]
     /\ UNCHANGED <<gen, clock, queuedBy>>

-----------------------------------------------------------------------------
(* Media rows, written by the scanner and the library handlers *)

\* Mutant: the foreign keys do not cascade.
DeleteOnlyItem(m) ==
  /\ MediaExists(m)
  /\ media' = [media EXCEPT ![m] = "deleted"]
  /\ UNCHANGED <<job, sub, queuedBy, gen, worker, clock>>

\* Jobs and sub-jobs go with their media item (ON DELETE CASCADE).
DeleteMediaItem(m) ==
  /\ MediaExists(m)
  /\ media' = [media EXCEPT ![m] = "deleted"]
  /\ job' = [job EXCEPT ![m] = NoJob]
  /\ sub' = [sub EXCEPT ![m] = [k \in Kinds |-> NoSub]]
  /\ queuedBy' = [queuedBy EXCEPT ![m] = "enqueue"]
  /\ UNCHANGED <<gen, worker, clock>>

\* A rescan writes "none", or "done" when it linked the file to a bundle.
UpsertMediaItem(m, s) ==
  /\ MediaExists(m)
  /\ media' = [media EXCEPT ![m] = IF @ = "done" THEN "done" ELSE s]
  /\ UNCHANGED <<job, sub, gen, worker, clock, queuedBy>>

-----------------------------------------------------------------------------
(* Time *)

Tick ==
  /\ clock < MaxClock
  /\ clock' = clock + 1
  /\ UNCHANGED <<rows, queuedBy>>

\* The timeout passes without a heartbeat of w.
HeartbeatExpires(w) ==
  /\ worker[w].fresh
  /\ worker' = [worker EXCEPT ![w].fresh = FALSE]
  /\ UNCHANGED <<media, job, sub, gen, clock, queuedBy>>

-----------------------------------------------------------------------------

EligibleProfiles == (SUBSET Profiles) \ {{}}

\* What a server that is up does.
Serving ==
  \/ \E m \in Media, P \in EligibleProfiles, at \in 0..MaxClock :
       CreateTranscodeJob(m, P) \/ ResetTranscodeJob(m, at, P)
  \/ \E m \in Media, s \in Status \cup {"none"} : SetMediaTranscodeStatus(m, s)
  \/ BulkEnqueueUntranscoded
  \/ BulkEnqueueFailed
  \/ BulkEnqueueCompleted
  \/ \E m \in Media : PrioritizeJob(m)
  \/ \E s \in Media \X Kinds, w \in Owners : ClaimNextSubJob(s, w)
  \/ \E m \in Media, k \in Kinds, s \in Ended : UpdateSubJobStatus(m, k, s)
  \/ \E w \in Workers : CreateWorker(w) \/ CreateEphemeralWorker(w)
  \/ \E w \in Workers : UpdateWorkerHeartbeat(w) \/ DeleteWorker(w) \/ HeartbeatExpires(w)
  \/ RecoverFailedWorkers
  \/ \E m \in Media : DeleteMediaItem(m)
  \/ \E m \in Media, s \in {"none", "done"} : UpsertMediaItem(m, s)
  \/ Tick

StoreNext == Serving \/ RecoverStaleJobs

StoreSpec == StoreInit /\ [][StoreNext]_storeVars

-----------------------------------------------------------------------------
(* Properties *)

StoreTypeOK ==
  /\ media \in [Media -> Status \cup {"none", "deleted"}]
  /\ job \in [Media -> JobRow]
  /\ sub \in [Media -> [Kinds -> SubRow]]
  /\ gen \in [Media -> 0..MaxGen]
  /\ worker \in [Workers -> WorkerRow]
  /\ clock \in 0..MaxClock
  /\ queuedBy \in [Media -> {"enqueue", "bulk"}]

\* A job that is done has every sub-job done and at least one of them, whatever
\* the order in which reports, retries and recoveries reached the store
\* (UpdateSubJobStatus counts the siblings that are left).
DoneIsComplete ==
  \A m \in Media : job[m].status = "done" =>
    /\ \A k \in Kinds : sub[m][k].status \in {"done", "absent"}
    /\ \E k \in Kinds : sub[m][k].status = "done"

\* A job that Pool.Enqueue queued and that has not ended still has a sub-job to
\* run or running: no transaction leaves it active with nothing left to do, from
\* where no claim and no report would ever move it.
WorkRemains ==
  \A m \in Media : job[m].status \in Active /\ queuedBy[m] = "enqueue" =>
    \E k \in Kinds : sub[m][k].status \in Active

\* A job that Pool.Enqueue queued and that is waiting has a sub-job some claim can
\* take: it is not hidden by the status of the job, nor held by somebody who will
\* never report, whatever recovery put the job back in the queue.
WaitingIsClaimable ==
  \A m \in Media : job[m].status = "pending" /\ queuedBy[m] = "enqueue" =>
    \E k \in Kinds : <<m, k>> \in Claimable

\* The same of the jobs that a bulk enqueue queued.
BulkIsClaimable ==
  \A m \in Media : job[m].status = "pending" /\ queuedBy[m] = "bulk" =>
    \E k \in Kinds : <<m, k>> \in Claimable

\* A sub-job that ended stays ended until its job is reset: no recovery after a
\* crash or a lost worker runs it again.
FinishedStaysFinished ==
  [][\A m \in Media, k \in Kinds :
       gen'[m] = gen[m] /\ sub[m][k].status \in Ended
         => sub'[m][k].status \in Ended \cup {"absent"}]_storeVars

-----------------------------------------------------------------------------
(* What the store is to those who look at the status of jobs and items only *)

LifeOf(s) == IF s \in Active THEN "queued" ELSE s
ItemOf(s) == IF s \in Active \cup {"failed"} THEN "busy" ELSE s

Lifecycle == INSTANCE JobLifecycle
  WITH life <- [m \in Media |-> LifeOf(job[m].status)], item <- [m \in Media |-> ItemOf(media[m])]

\* The transactions keep to the life of a job: it is made for an item that exists, it
\* goes with it, only the end of a sub-job ends it, and a deleted item stays deleted.
FollowsLifecycle == Lifecycle!LifecycleSpec
=============================================================================
