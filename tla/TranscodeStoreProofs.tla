------------------------ MODULE TranscodeStoreProofs ------------------------
(***************************************************************************)
(* What the transactions of TranscodeStore keep true for every set of      *)
(* media items, profiles and workers, in whatever order they are called.   *)
(* The lemmas keep rows opaque: a proof cites the update it needs and not  *)
(* the definition of a row.                                                *)
(***************************************************************************)
EXTENDS TranscodeStore, TLAPS

\* Updating a column of a row of transcode_jobs gives a row.
LEMMA JobUpdates ==
  ASSUME NEW r \in JobRow
  PROVE  /\ \A s \in Status \cup {"absent"} : [r EXCEPT !.status = s] \in JobRow
         /\ \A p \in 0..MaxPriority : [r EXCEPT !.priority = p] \in JobRow
         /\ \A c \in 0..MaxClock : [r EXCEPT !.created = c] \in JobRow
         /\ \A w \in Owners : [r EXCEPT !.worker = w] \in JobRow
  BY DEF JobRow

\* Updating a column of a row of transcode_sub_jobs gives a row.
LEMMA SubUpdates ==
  ASSUME NEW r \in SubRow
  PROVE  /\ \A s \in Status : [r EXCEPT !.status = s] \in SubRow
         /\ \A w \in Owners : [r EXCEPT !.owner = w] \in SubRow
  BY DEF SubRow

\* Updating a column of a row of transcode_workers gives a row.
LEMMA WorkerUpdates ==
  ASSUME NEW r \in WorkerRow
  PROVE  /\ \A s \in {"offline", "online"} : [r EXCEPT !.status = s] \in WorkerRow
         /\ \A b \in BOOLEAN : [r EXCEPT !.fresh = b] \in WorkerRow
         /\ \A b \in BOOLEAN : [r EXCEPT !.ephemeral = b] \in WorkerRow
  BY DEF WorkerRow

\* The rows the inserts write are rows.
LEMMA NewRows ==
  /\ NoJob \in JobRow
  /\ NoSub \in SubRow /\ PendingSub \in SubRow
  /\ NewWorker \in WorkerRow /\ GoneWorker \in WorkerRow
<1>1. NoJob \in JobRow
  BY StoreAssumption DEF NoJob, JobRow, Owners
<1>2. NoSub \in SubRow /\ PendingSub \in SubRow
  BY DEF NoSub, PendingSub, SubRow, Status, Owners
<1>3. NewWorker \in WorkerRow
  BY DEF NewWorker, WorkerRow
<1>4. GoneWorker \in WorkerRow
  BY DEF GoneWorker, NewWorker, WorkerRow
<1>5. QED
  BY <1>1, <1>2, <1>3, <1>4

\* The columns of the rows of a well-typed store.
LEMMA Columns ==
  ASSUME StoreTypeOK
  PROVE  /\ \A m \in Media : /\ job[m].status \in Status \cup {"absent"}
                             /\ job[m].priority \in 0..MaxPriority
                             /\ job[m].created \in 0..MaxClock
                             /\ job[m].worker \in Owners
         /\ \A m \in Media, k \in Kinds : /\ sub[m][k].status \in Status \cup {"absent"}
                                          /\ sub[m][k].owner \in Owners
  BY DEF StoreTypeOK, JobRow, SubRow

\* Updating a column leaves the others alone.
LEMMA ColumnSet ==
  ASSUME NEW r \in SubRow, NEW x
  PROVE  /\ [r EXCEPT !.owner = x].status = r.status
         /\ [r EXCEPT !.owner = x].owner = x
         /\ [r EXCEPT !.status = x].status = x
         /\ [r EXCEPT !.status = x].owner = r.owner
  BY DEF SubRow

\* The foreign keys leave an owner behind.
LEMMA Detached == \A x \in Owners : \A S : Detach(x, S) \in Owners
  BY DEF Detach, Owners

-----------------------------------------------------------------------------
(* Type correctness *)

LEMMA TypeInit == StoreInit => StoreTypeOK
  BY StoreAssumption, NewRows DEF StoreInit, StoreTypeOK

LEMMA TypeEnqueue ==
  ASSUME StoreTypeOK, NEW m \in Media, NEW P \in EligibleProfiles, NEW at \in 0..MaxClock,
         CreateTranscodeJob(m, P) \/ ResetTranscodeJob(m, at, P)
  PROVE  StoreTypeOK'
<1> USE DEF StoreTypeOK, createSubJobsForJob
<1>1. CASE CreateTranscodeJob(m, P)
  <2> USE <1>1 DEF CreateTranscodeJob
  <2>1. sub' \in [Media -> [Kinds -> SubRow]]
    BY NewRows DEF NewSubs
  <2>2. job' \in [Media -> JobRow]
    BY NewRows, JobUpdates DEF Status
  <2>3. gen' \in [Media -> 0..MaxGen]
    BY StoreAssumption
  <2>4. QED
    BY <2>1, <2>2, <2>3
<1>2. CASE ResetTranscodeJob(m, at, P)
  <2> USE <1>2 DEF ResetTranscodeJob
  <2>1. sub' \in [Media -> [Kinds -> SubRow]]
    BY NewRows DEF NewSubs
  <2>2. job' \in [Media -> JobRow]
    BY JobUpdates DEF Status, Owners
  <2>3. gen' \in [Media -> 0..MaxGen]
    BY StoreAssumption
  <2>4. QED
    BY <2>1, <2>2, <2>3
<1>3. QED
  BY <1>1, <1>2

LEMMA TypeBulk ==
  ASSUME StoreTypeOK, BulkEnqueueUntranscoded \/ BulkEnqueueFailed \/ BulkEnqueueCompleted
  PROVE  StoreTypeOK'
<1>1. CASE BulkEnqueueUntranscoded
  BY <1>1, NewRows, JobUpdates DEF StoreTypeOK, BulkEnqueueUntranscoded, Status
<1>2. ASSUME NEW s, BulkRequeue(s)
      PROVE  StoreTypeOK'
  BY <1>2, JobUpdates DEF StoreTypeOK, BulkRequeue, Status, Owners
<1>3. QED
  BY <1>1, <1>2 DEF BulkEnqueueFailed, BulkEnqueueCompleted

LEMMA TypePrioritize ==
  ASSUME StoreTypeOK, NEW m \in Media, PrioritizeJob(m)
  PROVE  StoreTypeOK'
<1>1. job' \in [Media -> JobRow]
  BY StoreAssumption, JobUpdates DEF StoreTypeOK, PrioritizeJob
<1>2. QED
  BY <1>1 DEF StoreTypeOK, PrioritizeJob

LEMMA TypeClaim ==
  ASSUME StoreTypeOK, NEW s \in Media \X Kinds, NEW w \in Owners, ClaimNextSubJob(s, w)
  PROVE  StoreTypeOK'
<1> USE DEF StoreTypeOK, ClaimNextSubJob
<1>1. s[1] \in Media /\ s[2] \in Kinds
  OBVIOUS
<1>2. [status |-> "processing", owner |-> w] \in SubRow
  BY DEF SubRow, Status
<1>3. sub' \in [Media -> [Kinds -> SubRow]]
  BY <1>1, <1>2
<1>4. job' \in [Media -> JobRow]
  <2>1. [job[s[1]] EXCEPT !.status = "processing"] \in JobRow
    BY <1>1, JobUpdates DEF Status
  <2>2. job' = [job EXCEPT ![s[1]] = [job[s[1]] EXCEPT !.status = "processing"]] \/ job' = job
    BY <1>1
  <2>3. QED
    BY <2>1, <2>2, <1>1
<1>5. media' \in [Media -> Status \cup {"none", "deleted"}]
  BY <1>1 DEF Status
<1>6. QED
  BY <1>3, <1>4, <1>5

LEMMA TypeEnd ==
  ASSUME StoreTypeOK, NEW m \in Media, NEW k \in Kinds, NEW s \in Ended,
         UpdateSubJobStatus(m, k, s)
  PROVE  StoreTypeOK'
<1> USE DEF StoreTypeOK, UpdateSubJobStatus
<1>1. JobStatusAfter(m, k, s) \in Status \cup {"absent"}
  BY Columns DEF JobStatusAfter, Status
<1>2. sub' \in [Media -> [Kinds -> SubRow]]
  BY SubUpdates DEF Ended, Status
<1>3. job' \in [Media -> JobRow]
  BY <1>1, JobUpdates
<1>4. media' \in [Media -> Status \cup {"none", "deleted"}]
  BY DEF Status, JobStatusAfter
<1>5. QED
  BY <1>2, <1>3, <1>4

LEMMA TypeRecover ==
  ASSUME StoreTypeOK, RecoverStaleJobs
  PROVE  StoreTypeOK'
<1>1. sub' \in [Media -> [Kinds -> SubRow]]
  BY SubUpdates DEF StoreTypeOK, RecoverStaleJobs, Status
<1>2. job' \in [Media -> JobRow]
  BY JobUpdates DEF StoreTypeOK, RecoverStaleJobs, Status
<1>3. QED
  BY <1>1, <1>2 DEF StoreTypeOK, RecoverStaleJobs

LEMMA TypeWorker ==
  ASSUME StoreTypeOK, NEW w \in Workers,
         \/ CreateWorker(w) \/ CreateEphemeralWorker(w)
         \/ UpdateWorkerHeartbeat(w) \/ HeartbeatExpires(w)
  PROVE  StoreTypeOK'
<1>1. worker' \in [Workers -> WorkerRow]
  <2>1. worker[w] \in WorkerRow
    BY DEF StoreTypeOK
  <2>2. PICK r \in WorkerRow : worker' = [worker EXCEPT ![w] = r]
    <3>1. CASE CreateWorker(w)
      BY <3>1, <2>1, WorkerUpdates DEF CreateWorker
    <3>2. CASE CreateEphemeralWorker(w)
      BY <3>2, <2>1, WorkerUpdates DEF CreateEphemeralWorker
    <3>3. CASE UpdateWorkerHeartbeat(w)
      BY <3>3, <2>1, WorkerUpdates DEF UpdateWorkerHeartbeat
    <3>4. CASE HeartbeatExpires(w)
      BY <3>4, <2>1, WorkerUpdates DEF HeartbeatExpires
    <3>5. QED
      BY <3>1, <3>2, <3>3, <3>4
  <2>3. QED
    BY <2>2 DEF StoreTypeOK
<1>2. UNCHANGED <<media, job, sub, gen, clock, queuedBy>>
  BY DEF CreateWorker, CreateEphemeralWorker, UpdateWorkerHeartbeat, HeartbeatExpires
<1>3. QED
  BY <1>1, <1>2 DEF StoreTypeOK

LEMMA TypeDeleteWorker ==
  ASSUME StoreTypeOK, NEW w \in Workers, DeleteWorker(w)
  PROVE  StoreTypeOK'
<1> USE DEF StoreTypeOK, DeleteWorker
<1>1. sub' \in [Media -> [Kinds -> SubRow]]
  BY Columns, Detached, SubUpdates, ZenonT(60)
<1>2. job' \in [Media -> JobRow]
  BY Columns, Detached, JobUpdates DEF Status, Owners
<1>3. QED
  BY <1>1, <1>2, NewRows DEF Status

LEMMA TypeMonitor ==
  ASSUME StoreTypeOK, RecoverFailedWorkers
  PROVE  StoreTypeOK'
<1> USE DEF StoreTypeOK, RecoverFailedWorkers
<1>1. \A m \in Media, k \in Kinds : \A f, d : RequeuedSub(sub[m][k], f, d) \in SubRow
  BY NewRows, Detached, Columns, SubUpdates, ZenonT(60) DEF RequeuedSub
<1>2. sub' \in [Media -> [Kinds -> SubRow]]
  BY <1>1
<1>3. job' \in [Media -> JobRow]
  BY Columns, Detached, JobUpdates, ZenonT(60) DEF Status, Owners
<1>4. worker' \in [Workers -> WorkerRow]
  BY NewRows, WorkerUpdates, ZenonT(60)
<1>5. media' \in [Media -> Status \cup {"none", "deleted"}]
  BY DEF Status
<1>6. QED
  BY <1>2, <1>3, <1>4, <1>5, ZenonT(60)

LEMMA TypeMedia ==
  ASSUME StoreTypeOK, NEW m \in Media, NEW s \in Status \cup {"none"},
         SetMediaTranscodeStatus(m, s) \/ UpsertMediaItem(m, s) \/ DeleteMediaItem(m)
  PROVE  StoreTypeOK'
<1>1. CASE SetMediaTranscodeStatus(m, s)
  BY <1>1 DEF StoreTypeOK, SetMediaTranscodeStatus
<1>2. CASE UpsertMediaItem(m, s)
  BY <1>2 DEF StoreTypeOK, UpsertMediaItem
<1>3. CASE DeleteMediaItem(m)
  BY <1>3, NewRows DEF StoreTypeOK, DeleteMediaItem
<1>4. QED
  BY <1>1, <1>2, <1>3

LEMMA TypeStep == StoreTypeOK /\ [StoreNext]_storeVars => StoreTypeOK'
<1> SUFFICES ASSUME StoreTypeOK, [StoreNext]_storeVars
             PROVE  StoreTypeOK'
  OBVIOUS
<1>1. ASSUME NEW m \in Media, NEW s \in {"none", "done"}, UpsertMediaItem(m, s)
      PROVE  StoreTypeOK'
  BY <1>1, TypeMedia DEF Status
<1>2. ASSUME NEW m \in Media, DeleteMediaItem(m)
      PROVE  StoreTypeOK'
  <2>1. "none" \in Status \cup {"none"}
    OBVIOUS
  <2>2. QED
    BY <1>2, <2>1, TypeMedia
<1>3. CASE Tick
  BY <1>3, StoreAssumption DEF StoreTypeOK, Tick, rows
<1>4. CASE UNCHANGED storeVars
  BY <1>4 DEF StoreTypeOK, storeVars
<1>5. QED
  BY <1>1, <1>2, <1>3, <1>4, TypeEnqueue, TypeBulk, TypePrioritize, TypeClaim, TypeEnd,
     TypeRecover, TypeWorker, TypeDeleteWorker, TypeMonitor, TypeMedia
  DEF StoreNext, Serving

\* The type invariant of the store: every transaction writes rows of the declared
\* shape, and priorities, stamps and counters stay within their bounds.
THEOREM StoreTypeCorrect == StoreSpec => []StoreTypeOK
  BY TypeInit, TypeStep, PTL DEF StoreSpec

-----------------------------------------------------------------------------
(* Done jobs are complete, and active jobs have work left.  Each lemma is   *)
(* about one transaction; the two invariants need nothing but the types.    *)

JobsOK == DoneIsComplete /\ WorkRemains

LEMMA JobsEnqueue ==
  ASSUME StoreTypeOK, JobsOK, NEW m \in Media, NEW P \in EligibleProfiles,
         NEW at \in 0..MaxClock,
         CreateTranscodeJob(m, P) \/ ResetTranscodeJob(m, at, P)
  PROVE  JobsOK'
<1>1. sub' = [sub EXCEPT ![m] = NewSubs(P)]
  BY DEF CreateTranscodeJob, ResetTranscodeJob, createSubJobsForJob
<1>2. /\ job'[m].status = "pending"
      /\ \A n \in Media \ {m} : job'[n] = job[n]
  <2>1. CASE CreateTranscodeJob(m, P)
    BY <2>1 DEF CreateTranscodeJob, StoreTypeOK, NoJob
  <2>2. CASE ResetTranscodeJob(m, at, P)
    BY <2>2 DEF ResetTranscodeJob, StoreTypeOK, JobRow
  <2>3. QED
    BY <2>1, <2>2
<1>3. \A n \in Media \ {m} : sub'[n] = sub[n] /\ queuedBy'[n] = queuedBy[n]
  BY <1>1 DEF StoreTypeOK, CreateTranscodeJob, ResetTranscodeJob, createSubJobsForJob
<1>4. sub'[m][Subtitles].status = "pending"
  BY <1>1 DEF NewSubs, PendingSub, Kinds, StoreTypeOK
<1>5. DoneIsComplete'
  BY <1>2, <1>3 DEF JobsOK, DoneIsComplete
<1>6. WorkRemains'
  BY <1>2, <1>3, <1>4 DEF JobsOK, WorkRemains, Active, Kinds
<1>7. QED
  BY <1>5, <1>6 DEF JobsOK

LEMMA JobsBulk ==
  ASSUME StoreTypeOK, JobsOK,
         BulkEnqueueUntranscoded \/ BulkEnqueueFailed \/ BulkEnqueueCompleted
  PROVE  JobsOK'
<1> DEFINE Kept(n) == job'[n] = job[n] /\ queuedBy'[n] = queuedBy[n]
           Queued(n) == job'[n].status = "pending" /\ queuedBy'[n] = "bulk"
<1>1. \A n \in Media : Kept(n) \/ Queued(n)
  <2>1. CASE BulkEnqueueUntranscoded
    BY <2>1 DEF BulkEnqueueUntranscoded, NoJob
  <2>2. ASSUME NEW s, BulkRequeue(s)
        PROVE  \A n \in Media : Kept(n) \/ Queued(n)
    <3>1. \A n \in Media : [job[n] EXCEPT !.status = "pending", !.created = clock,
                                          !.worker = NoWorker].status = "pending"
      BY DEF StoreTypeOK, JobRow
    <3>2. ASSUME NEW n \in Media, job[n].status = s
          PROVE  Queued(n)
      BY <2>2, <3>1, <3>2 DEF BulkRequeue
    <3>3. ASSUME NEW n \in Media, job[n].status # s
          PROVE  Kept(n)
      BY <2>2, <3>3 DEF BulkRequeue
    <3>4. QED
      BY <3>2, <3>3
  <2>3. QED
    BY <2>1, <2>2 DEF BulkEnqueueFailed, BulkEnqueueCompleted
<1>2. sub' = sub
  BY DEF BulkEnqueueUntranscoded, BulkEnqueueFailed, BulkEnqueueCompleted, BulkRequeue
<1>3. QED
  BY <1>1, <1>2 DEF JobsOK, DoneIsComplete, WorkRemains

LEMMA JobsClaim ==
  ASSUME StoreTypeOK, JobsOK, NEW s \in Media \X Kinds, NEW w \in Owners,
         ClaimNextSubJob(s, w)
  PROVE  JobsOK'
<1> DEFINE m == s[1]
           k == s[2]
<1>1. m \in Media /\ k \in Kinds
  OBVIOUS
<1>2. sub[m][k].status = "pending"
  BY DEF ClaimNextSubJob, NextSubJobs, Claimable
<1>3. /\ \A n \in Media, i \in Kinds : n # m \/ i # k => sub'[n][i] = sub[n][i]
      /\ sub'[m][k].status = "processing"
  BY <1>1 DEF ClaimNextSubJob, StoreTypeOK
<1>4. /\ \A n \in Media \ {m} : job'[n] = job[n]
      /\ job'[m].status \in {job[m].status, "processing"}
      /\ queuedBy' = queuedBy
  BY <1>1 DEF ClaimNextSubJob, StoreTypeOK, JobRow
<1>5. job[m].status # "done"
  BY <1>1, <1>2 DEF JobsOK, DoneIsComplete
<1> HIDE DEF m, k
<1>6. DoneIsComplete'
  BY <1>1, <1>3, <1>4, <1>5 DEF JobsOK, DoneIsComplete
<1>7. WorkRemains'
  <2> SUFFICES ASSUME NEW n \in Media, job'[n].status \in Active, queuedBy'[n] = "enqueue"
               PROVE  \E i \in Kinds : sub'[n][i].status \in Active
    BY DEF WorkRemains
  <2>1. CASE n = m
    BY <2>1, <1>1, <1>3 DEF Active
  <2>2. CASE n # m
    BY <2>2, <1>3, <1>4 DEF JobsOK, WorkRemains
  <2>3. QED
    BY <2>1, <2>2
<1>8. QED
  BY <1>6, <1>7 DEF JobsOK

LEMMA JobsEnd ==
  ASSUME StoreTypeOK, JobsOK, NEW m \in Media, NEW k \in Kinds, NEW s \in Ended,
         UpdateSubJobStatus(m, k, s)
  PROVE  JobsOK'
<1> DEFINE others == {sub[m][i].status : i \in Kinds \ {k}}
<1>1. /\ \A n \in Media, i \in Kinds : n # m \/ i # k => sub'[n][i] = sub[n][i]
      /\ sub'[m][k].status = s
  BY DEF UpdateSubJobStatus, StoreTypeOK, SubRow
<1>2. /\ \A n \in Media \ {m} : job'[n] = job[n]
      /\ job'[m].status = JobStatusAfter(m, k, s)
      /\ queuedBy' = queuedBy
  BY DEF UpdateSubJobStatus, StoreTypeOK, JobRow
<1>3. SubExists(m, k)
  BY DEF UpdateSubJobStatus
<1>4. ASSUME job'[m].status = "done"
      PROVE  s = "done" /\ \A i \in Kinds \ {k} : sub[m][i].status \in {"done", "absent"}
  <2>1. s # "failed"
    BY <1>4, <1>2 DEF JobStatusAfter
  <2>2. s = "done"
    BY <2>1 DEF Ended
  <2>3. CASE others \cap Active # {}
    BY <2>1, <2>3, <1>4, <1>2 DEF JobStatusAfter, JobsOK, DoneIsComplete, Active
  <2>4. CASE others \cap Active = {}
    <3>1. "failed" \notin others
      BY <2>1, <2>4, <1>4, <1>2 DEF JobStatusAfter
    <3>2. \A i \in Kinds \ {k} : sub[m][i].status \in Status \cup {"absent"}
      BY Columns
    <3>3. QED
      BY <2>2, <2>4, <3>1, <3>2 DEF Status, Active
  <2>5. QED
    BY <2>2, <2>3, <2>4
<1>5. ASSUME job'[m].status \in Active
      PROVE  \E i \in Kinds \ {k} : sub[m][i].status \in Active
  <2>1. others \cap Active # {}
    BY <1>5, <1>2 DEF JobStatusAfter, Active
  <2>2. QED
    BY <2>1
<1>6. DoneIsComplete'
  <2> SUFFICES ASSUME NEW n \in Media, job'[n].status = "done"
               PROVE  /\ \A i \in Kinds : sub'[n][i].status \in {"done", "absent"}
                      /\ \E i \in Kinds : sub'[n][i].status = "done"
    BY DEF DoneIsComplete
  <2>1. CASE n = m
    BY <2>1, <1>1, <1>4
  <2>2. CASE n # m
    BY <2>2, <1>1, <1>2 DEF JobsOK, DoneIsComplete
  <2>3. QED
    BY <2>1, <2>2
<1>7. WorkRemains'
  <2> SUFFICES ASSUME NEW n \in Media, job'[n].status \in Active, queuedBy'[n] = "enqueue"
               PROVE  \E i \in Kinds : sub'[n][i].status \in Active
    BY DEF WorkRemains
  <2>1. CASE n = m
    BY <2>1, <1>1, <1>5
  <2>2. CASE n # m
    BY <2>2, <1>1, <1>2 DEF JobsOK, WorkRemains
  <2>3. QED
    BY <2>1, <2>2
<1>8. QED
  BY <1>6, <1>7 DEF JobsOK

LEMMA JobsRecover ==
  ASSUME StoreTypeOK, JobsOK, RecoverStaleJobs
  PROVE  JobsOK'
<1>1. \A n \in Media : \/ job'[n] = job[n]
                       \/ job[n].status = "processing" /\ job'[n].status = "pending"
  BY DEF RecoverStaleJobs, StoreTypeOK, JobRow
<1>2. \A n \in Media, k \in Kinds :
        \/ sub'[n][k] = sub[n][k]
        \/ sub[n][k].status = "processing" /\ sub'[n][k].status = "pending"
  BY DEF RecoverStaleJobs, StoreTypeOK, SubRow
<1>3. queuedBy' = queuedBy
  BY DEF RecoverStaleJobs
<1>4. DoneIsComplete'
  BY <1>1, <1>2 DEF JobsOK, DoneIsComplete
<1>5. WorkRemains'
  BY <1>1, <1>2, <1>3 DEF JobsOK, WorkRemains, Active
<1>6. QED
  BY <1>4, <1>5 DEF JobsOK

LEMMA JobsDeleteWorker ==
  ASSUME StoreTypeOK, JobsOK, NEW w \in Workers, DeleteWorker(w)
  PROVE  JobsOK'
<1>1. ASSUME NEW n \in Media
      PROVE  \/ job'[n].status = job[n].status
             \/ job[n].status = "processing" /\ job'[n].status = "pending"
  BY ZenonT(60) DEF DeleteWorker, StoreTypeOK, JobRow
<1>2. ASSUME NEW n \in Media, NEW k \in Kinds
      PROVE  sub'[n][k].status = sub[n][k].status
  <2>1. sub'[n][k] = [sub[n][k] EXCEPT !.owner = Detach(@, {w})]
    BY DEF DeleteWorker
  <2>2. sub[n][k] \in SubRow
    BY DEF StoreTypeOK
  <2>3. QED
    BY <2>1, <2>2, ColumnSet
<1>3. queuedBy' = queuedBy
  BY DEF DeleteWorker
<1>4. QED
  BY <1>1, <1>2, <1>3 DEF JobsOK, DoneIsComplete, WorkRemains, Active

LEMMA JobsMonitor ==
  ASSUME StoreTypeOK, JobsOK, RecoverFailedWorkers
  PROVE  JobsOK'
<1> DEFINE failed == FailedWorkers
           deleted == {w \in failed : worker[w].ephemeral}
           Held(n) == \E k \in Kinds : sub[n][k].status = "processing"
<1>1. \A n \in Media, k \in Kinds : sub'[n][k] = RequeuedSub(sub[n][k], failed, deleted)
  BY DEF RecoverFailedWorkers
<1>2. \A n \in Media, k \in Kinds :
        \/ sub'[n][k].status = sub[n][k].status
        \/ sub[n][k].status = "processing" /\ sub'[n][k].status = "pending"
  <2> SUFFICES ASSUME NEW n \in Media, NEW k \in Kinds
               PROVE  \/ sub'[n][k].status = sub[n][k].status
                      \/ sub[n][k].status = "processing" /\ sub'[n][k].status = "pending"
    OBVIOUS
  <2> DEFINE d == [sub[n][k] EXCEPT !.owner = Detach(@, deleted)]
  <2>1. d.status = sub[n][k].status
    <3>1. sub[n][k] \in SubRow
      BY DEF StoreTypeOK
    <3>2. QED
      BY <3>1, ColumnSet
  <2>2. sub'[n][k] = d \/ (d.status = "processing" /\ sub'[n][k] = PendingSub)
    BY <1>1 DEF RequeuedSub
  <2> HIDE DEF d
  <2>3. QED
    BY <2>1, <2>2 DEF PendingSub
<1>3. ASSUME NEW n \in Media
      PROVE  \/ job'[n].status = job[n].status
             \/ Held(n) /\ job'[n].status \in Active
  <2> DEFINE after == [m \in Media |-> [k \in Kinds |->
                        RequeuedSub(sub[m][k], failed, deleted)]]
             started == \E k \in Kinds : after[n][k].status \in {"processing", "done"}
             requeued == {m \in Media : \E k \in Kinds :
                            sub[m][k].status = "processing" /\ sub[m][k].owner \in failed}
  <2>1. \A x, s : /\ [job[n] EXCEPT !.worker = x].status = job[n].status
                  /\ [job[n] EXCEPT !.status = s, !.worker = x].status = s
    BY Zenon DEF StoreTypeOK, JobRow
  <2>2. n \notin requeued => job'[n] = [job[n] EXCEPT !.worker = Detach(@, deleted)]
    BY DEF RecoverFailedWorkers
  <2>3. ASSUME n \in requeued
        PROVE  job'[n].status \in {"pending", "processing", job[n].status}
    <3>1. CASE started
      <4>1. job'[n] = [job[n] EXCEPT !.status = IF @ = "failed" THEN "processing" ELSE @,
                                     !.worker = Detach(@, failed)]
        BY <2>3, <3>1 DEF RecoverFailedWorkers
      <4>2. QED
        BY <4>1, <2>1, SMTT(60)
    <3>2. CASE ~started
      <4>1. job'[n] = [job[n] EXCEPT !.status = "pending", !.worker = NoWorker]
        BY <2>3, <3>2 DEF RecoverFailedWorkers
      <4>2. QED
        BY <4>1, <2>1, SMTT(60)
    <3>3. QED
      BY <3>1, <3>2
  <2>4. n \in requeued => Held(n)
    BY Zenon
  <2>5. QED
    BY <2>1, <2>2, <2>3, <2>4 DEF Active
<1>4. queuedBy' = queuedBy
  BY DEF RecoverFailedWorkers
<1>5. DoneIsComplete'
  BY <1>2, <1>3 DEF JobsOK, DoneIsComplete, Active
<1>6. WorkRemains'
  BY <1>2, <1>3, <1>4 DEF JobsOK, WorkRemains, Active
<1>7. QED
  BY <1>5, <1>6 DEF JobsOK

LEMMA JobsOther ==
  ASSUME StoreTypeOK, JobsOK,
         \/ \E m \in Media : PrioritizeJob(m) \/ DeleteMediaItem(m)
         \/ \E m \in Media, s \in Status \cup {"none"} :
              SetMediaTranscodeStatus(m, s) \/ UpsertMediaItem(m, s)
         \/ \E w \in Workers :
              \/ CreateWorker(w) \/ CreateEphemeralWorker(w)
              \/ UpdateWorkerHeartbeat(w) \/ HeartbeatExpires(w)
         \/ Tick
         \/ UNCHANGED storeVars
  PROVE  JobsOK'
<1>1. ASSUME NEW m \in Media, PrioritizeJob(m)
      PROVE  JobsOK'
  <2>1. \A n \in Media : job'[n].status = job[n].status
    BY <1>1 DEF PrioritizeJob, StoreTypeOK, JobRow
  <2>2. QED
    BY <1>1, <2>1 DEF PrioritizeJob, JobsOK, DoneIsComplete, WorkRemains
<1>2. ASSUME NEW m \in Media, DeleteMediaItem(m)
      PROVE  JobsOK'
  <2>1. /\ job'[m].status = "absent"
        /\ \A n \in Media \ {m} : /\ job'[n] = job[n] /\ sub'[n] = sub[n]
                                  /\ queuedBy'[n] = queuedBy[n]
    BY <1>2 DEF DeleteMediaItem, StoreTypeOK, NoJob
  <2>2. QED
    BY <2>1 DEF JobsOK, DoneIsComplete, WorkRemains, Active
<1>3. CASE UNCHANGED <<job, sub, queuedBy>>
  BY <1>3 DEF JobsOK, DoneIsComplete, WorkRemains
<1>4. QED
  BY <1>1, <1>2, <1>3 DEF SetMediaTranscodeStatus, UpsertMediaItem, CreateWorker,
     CreateEphemeralWorker, UpdateWorkerHeartbeat, HeartbeatExpires, Tick, rows, storeVars

LEMMA JobsStep == StoreTypeOK /\ JobsOK /\ [StoreNext]_storeVars => JobsOK'
<1> SUFFICES ASSUME StoreTypeOK, JobsOK, [StoreNext]_storeVars
             PROVE  JobsOK'
  OBVIOUS
<1>1. ASSUME NEW m \in Media, NEW s \in {"none", "done"}, UpsertMediaItem(m, s)
      PROVE  JobsOK'
  BY <1>1, JobsOther DEF Status
<1>2. QED
  BY <1>1, JobsEnqueue, JobsBulk, JobsClaim, JobsEnd, JobsRecover, JobsDeleteWorker,
     JobsMonitor, JobsOther
  DEF StoreNext, Serving

LEMMA JobsCorrect == StoreSpec => []JobsOK
<1>1. StoreInit => JobsOK
  BY DEF StoreInit, JobsOK, DoneIsComplete, WorkRemains, NoJob, Active
<1>2. QED
  BY <1>1, StoreTypeCorrect, JobsStep, PTL DEF StoreSpec

\* Whatever the order of reports, retries, resets and recoveries, a job that is
\* done has every sub-job done.
THEOREM StoreDoneIsComplete == StoreSpec => []DoneIsComplete
<1>1. JobsOK => DoneIsComplete
  BY DEF JobsOK
<1>2. QED
  BY <1>1, JobsCorrect, PTL

\* No transaction leaves an active job, once enqueued, with nothing left to run.
THEOREM StoreWorkRemains == StoreSpec => []WorkRemains
<1>1. JobsOK => WorkRemains
  BY DEF JobsOK
<1>2. QED
  BY <1>1, JobsCorrect, PTL

-----------------------------------------------------------------------------
(* Waiting jobs can be claimed.  Inductive only with two facts the code      *)
(* relies on without saying so: a waiting job has no sub-job running, and    *)
(* worker_id of a job is never set.                                          *)

Unowned == \A m \in Media : job[m].worker = NoWorker

Waits == \A m \in Media : job[m].status = "pending" /\ queuedBy[m] = "enqueue" =>
           /\ \A k \in Kinds : sub[m][k].status # "processing"
           /\ \E k \in Kinds : sub[m][k].status = "pending"

LEMMA UnownedStep ==
  ASSUME StoreTypeOK, Unowned, [StoreNext]_storeVars
  PROVE  Unowned'
<1> SUFFICES ASSUME NEW n \in Media
             PROVE  job'[n].worker = NoWorker
  BY DEF Unowned
<1>1. job[n] \in JobRow /\ job[n].worker = NoWorker
  BY DEF Unowned, StoreTypeOK
<1>2. \A w : Detach(NoWorker, w) = NoWorker
  BY DEF Detach
<1>3. /\ \A s : [job[n] EXCEPT !.status = s].worker = NoWorker
      /\ \A p : [job[n] EXCEPT !.priority = p].worker = NoWorker
      /\ \A w : [job[n] EXCEPT !.worker = w].worker = w
      /\ \A s, w : [job[n] EXCEPT !.status = s, !.worker = w].worker = w
      /\ \A s, a, w :
           [job[n] EXCEPT !.status = s, !.created = a, !.worker = w].worker = w
  BY <1>1 DEF JobRow
<1>4. \A s, a : [NoJob EXCEPT !.status = s, !.created = a].worker = NoWorker
  BY DEF NoJob
<1>5. ASSUME NEW m \in Media, NEW P \in EligibleProfiles, NEW at \in 0..MaxClock,
             CreateTranscodeJob(m, P) \/ ResetTranscodeJob(m, at, P)
      PROVE  job'[n].worker = NoWorker
  <2>1. CASE CreateTranscodeJob(m, P)
    BY <2>1, <1>1, <1>4 DEF CreateTranscodeJob, StoreTypeOK
  <2>2. CASE ResetTranscodeJob(m, at, P)
    BY <2>2, <1>1, <1>3 DEF ResetTranscodeJob, StoreTypeOK
  <2>3. QED
    BY <1>5, <2>1, <2>2
<1>6. CASE BulkEnqueueUntranscoded
  BY <1>6, <1>1, <1>4 DEF BulkEnqueueUntranscoded
<1>7. ASSUME NEW s, BulkRequeue(s)
      PROVE  job'[n].worker = NoWorker
  <2>1. [job[n] EXCEPT !.status = "pending", !.created = clock,
                       !.worker = NoWorker].worker = NoWorker
    BY <1>1 DEF JobRow
  <2>2. QED
    BY <2>1, <1>1, <1>7 DEF BulkRequeue
<1>8. ASSUME NEW m \in Media, PrioritizeJob(m)
      PROVE  job'[n].worker = NoWorker
  BY <1>8, <1>1, <1>3 DEF PrioritizeJob, StoreTypeOK
<1>9. ASSUME NEW s \in Media \X Kinds, NEW w \in Owners, ClaimNextSubJob(s, w)
      PROVE  job'[n].worker = NoWorker
  <2>1. s[1] \in Media
    OBVIOUS
  <2>2. job'[n] = job[n] \/ job'[n] = [job[n] EXCEPT !.status = "processing"]
    BY <1>9, <2>1 DEF ClaimNextSubJob, StoreTypeOK
  <2>3. QED
    BY <2>2, <1>1, <1>3
<1>10. ASSUME NEW m \in Media, NEW k \in Kinds, NEW s \in Ended, UpdateSubJobStatus(m, k, s)
       PROVE  job'[n].worker = NoWorker
  BY <1>10, <1>1, <1>3 DEF UpdateSubJobStatus, StoreTypeOK
<1>11. CASE RecoverStaleJobs
  BY <1>11, <1>1, <1>3 DEF RecoverStaleJobs
<1>12. ASSUME NEW w \in Workers, DeleteWorker(w)
       PROVE  job'[n].worker = NoWorker
  <2>1. job'[n] = [job[n] EXCEPT !.worker = Detach(@, {w})]
    BY <1>12, <1>1, StoreAssumption DEF DeleteWorker
  <2>2. QED
    BY <2>1, <1>1, <1>2, <1>3
<1>13. CASE RecoverFailedWorkers
  <2> DEFINE kept == [job[n] EXCEPT !.worker = Detach(@, {w \in FailedWorkers :
                                                            worker[w].ephemeral})]
             resumed == [job[n] EXCEPT
                           !.status = IF @ = "failed" THEN "processing" ELSE @,
                           !.worker = Detach(@, FailedWorkers)]
             reset == [job[n] EXCEPT !.status = "pending", !.worker = NoWorker]
  <2>1. kept.worker = NoWorker /\ resumed.worker = NoWorker /\ reset.worker = NoWorker
    BY <1>1, <1>2, Zenon DEF JobRow
  <2>2. job'[n] \in {kept, resumed, reset}
    BY <1>13 DEF RecoverFailedWorkers
  <2> HIDE DEF kept, resumed, reset
  <2>3. QED
    BY <2>1, <2>2
<1>14. ASSUME NEW m \in Media, DeleteMediaItem(m)
       PROVE  job'[n].worker = NoWorker
  BY <1>14, <1>1 DEF DeleteMediaItem, NoJob, StoreTypeOK
<1>15. CASE job' = job
  BY <1>15, <1>1
<1>16. QED
  BY <1>5, <1>6, <1>7, <1>8, <1>9, <1>10, <1>11, <1>12, <1>13, <1>14, <1>15
  DEF StoreNext, Serving, SetMediaTranscodeStatus, BulkEnqueueFailed, BulkEnqueueCompleted,
      CreateWorker, CreateEphemeralWorker, UpdateWorkerHeartbeat, HeartbeatExpires,
      UpsertMediaItem, Tick, rows, storeVars

LEMMA WaitsStep ==
  ASSUME StoreTypeOK, JobsOK, Unowned, Waits, [StoreNext]_storeVars
  PROVE  Waits'
<1> SUFFICES ASSUME NEW n \in Media, job'[n].status = "pending", queuedBy'[n] = "enqueue"
             PROVE  /\ \A k \in Kinds : sub'[n][k].status # "processing"
                    /\ \E k \in Kinds : sub'[n][k].status = "pending"
  BY DEF Waits
<1> DEFINE Good == /\ \A k \in Kinds : sub'[n][k].status # "processing"
                   /\ \E k \in Kinds : sub'[n][k].status = "pending"
           Same == /\ job'[n].status = job[n].status /\ queuedBy'[n] = queuedBy[n]
                   /\ \A k \in Kinds : sub'[n][k].status = sub[n][k].status
<1>0. ASSUME Same
      PROVE  Good
  BY <1>0 DEF Waits
<1> SUFFICES Good
  OBVIOUS
<1> HIDE DEF Good
<1>1. ASSUME NEW m \in Media, NEW P \in EligibleProfiles, NEW at \in 0..MaxClock,
             CreateTranscodeJob(m, P) \/ ResetTranscodeJob(m, at, P)
      PROVE  Good
  <2>1. CASE n = m
    <3>1. sub'[m] = NewSubs(P)
      BY <1>1 DEF CreateTranscodeJob, ResetTranscodeJob, createSubJobsForJob, StoreTypeOK
    <3>2. Subtitles \in Kinds /\ sub'[n][Subtitles] = PendingSub
      BY <2>1, <3>1 DEF NewSubs, Kinds
    <3>3. \A k \in Kinds : sub'[n][k] \in {PendingSub, NoSub}
      BY <2>1, <3>1 DEF NewSubs
    <3>4. PendingSub.status = "pending" /\ NoSub.status = "absent"
      BY DEF PendingSub, NoSub
    <3>5. QED
      BY <3>2, <3>3, <3>4 DEF Good
  <2>2. CASE n # m
    BY <1>1, <2>2, <1>0
    DEF CreateTranscodeJob, ResetTranscodeJob, createSubJobsForJob, StoreTypeOK
  <2>3. QED
    BY <2>1, <2>2
<1>2. CASE BulkEnqueueUntranscoded
  BY <1>2, <1>0 DEF BulkEnqueueUntranscoded
<1>3. ASSUME NEW s, BulkRequeue(s)
      PROVE  Good
  BY <1>3, <1>0 DEF BulkRequeue
<1>4. ASSUME NEW m \in Media, PrioritizeJob(m)
      PROVE  Good
  <2>1. job'[n].status = job[n].status
    BY <1>4 DEF PrioritizeJob, StoreTypeOK, JobRow
  <2>2. QED
    BY <2>1, <1>4, <1>0 DEF PrioritizeJob
<1>5. ASSUME NEW s \in Media \X Kinds, NEW w \in Owners, ClaimNextSubJob(s, w)
      PROVE  Good
  <2>1. s[1] \in Media /\ s[2] \in Kinds
    OBVIOUS
  <2>2. n # s[1]
    <3>1. [job[s[1]] EXCEPT !.status = "processing"].status = "processing"
      BY <2>1 DEF StoreTypeOK, JobRow
    <3>2. QED
      BY <3>1, <2>1, <1>5 DEF ClaimNextSubJob, StoreTypeOK
  <2>3. job'[n] = job[n] /\ sub'[n] = sub[n] /\ queuedBy' = queuedBy
    BY <2>1, <2>2, <1>5 DEF ClaimNextSubJob, StoreTypeOK
  <2>4. QED
    BY <2>3, <1>0
<1>6. ASSUME NEW m \in Media, NEW k \in Kinds, NEW s \in Ended, UpdateSubJobStatus(m, k, s)
      PROVE  Good
  <2>1. CASE n = m
    <3> DEFINE others == {sub[m][i].status : i \in Kinds \ {k}}
    <3>1. job'[m].status = JobStatusAfter(m, k, s)
      BY <1>6 DEF UpdateSubJobStatus, StoreTypeOK, JobRow
    <3>2. others \cap Active # {} /\ job[m].status = "pending"
      BY <2>1, <3>1 DEF JobStatusAfter
    <3>3. queuedBy[m] = "enqueue"
      BY <2>1, <1>6 DEF UpdateSubJobStatus
    <3>4. \A i \in Kinds : sub[m][i].status # "processing"
      BY <3>2, <3>3 DEF Waits
    <3>5. PICK i \in Kinds \ {k} : sub[m][i].status = "pending"
      BY <3>2, <3>4 DEF Active
    <3>6. /\ \A j \in Kinds \ {k} : sub'[m][j] = sub[m][j]
          /\ sub'[m][k].status = s
      BY <1>6 DEF UpdateSubJobStatus, StoreTypeOK, SubRow
    <3>7. QED
      BY <2>1, <3>4, <3>5, <3>6 DEF Good, Ended
  <2>2. CASE n # m
    BY <1>6, <2>2, <1>0 DEF UpdateSubJobStatus, StoreTypeOK
  <2>3. QED
    BY <2>1, <2>2
<1>7. CASE RecoverStaleJobs
  <2>1. job[n].status \in Active /\ queuedBy[n] = "enqueue"
    BY <1>7 DEF RecoverStaleJobs, Active
  <2>2. PICK k \in Kinds : sub[n][k].status \in Active
    BY <2>1 DEF JobsOK, WorkRemains
  <2>3. \A i \in Kinds : [sub[n][i] EXCEPT !.status = "pending"].status = "pending"
    BY DEF StoreTypeOK, SubRow
  <2>4. \A i \in Kinds : sub'[n][i].status = IF sub[n][i].status = "processing"
                                               THEN "pending" ELSE sub[n][i].status
    BY <1>7, <2>3 DEF RecoverStaleJobs
  <2>5. QED
    BY <2>2, <2>4 DEF Good, Active
<1>8. ASSUME NEW w \in Workers, DeleteWorker(w)
      PROVE  Good
  <2>1. ASSUME NEW k \in Kinds
        PROVE  sub'[n][k].status = sub[n][k].status
    <3>1. sub'[n][k] = [sub[n][k] EXCEPT !.owner = Detach(@, {w})]
      BY <1>8 DEF DeleteWorker
    <3>2. sub[n][k] \in SubRow
      BY DEF StoreTypeOK
    <3>3. QED
      BY <3>1, <3>2, ColumnSet
  <2>2. job'[n] = [job[n] EXCEPT !.worker = Detach(@, {w})]
    BY <1>8, StoreAssumption DEF DeleteWorker, Unowned
  <2>3. [job[n] EXCEPT !.worker = Detach(@, {w})].status = job[n].status
    BY DEF StoreTypeOK, JobRow
  <2>4. QED
    BY <2>1, <2>2, <2>3, <1>8, <1>0 DEF DeleteWorker
<1>9. CASE RecoverFailedWorkers
  <2> DEFINE failed == FailedWorkers
             deleted == {w \in failed : worker[w].ephemeral}
             d(k) == [sub[n][k] EXCEPT !.owner = Detach(@, deleted)]
             after(k) == RequeuedSub(sub[n][k], failed, deleted)
             started == \E k \in Kinds : after(k).status \in {"processing", "done"}
             requeued == \E k \in Kinds : sub[n][k].status = "processing" /\ sub[n][k].owner \in failed
             kept == [job[n] EXCEPT !.worker = Detach(@, deleted)]
             resumed == [job[n] EXCEPT
                           !.status = IF @ = "failed" THEN "processing" ELSE @,
                           !.worker = Detach(@, failed)]
  <2>1. \A k \in Kinds : sub'[n][k] = after(k)
    BY <1>9 DEF RecoverFailedWorkers
  <2>2. ASSUME NEW k \in Kinds
        PROVE  /\ after(k).status \in {sub[n][k].status, "pending"}
               /\ sub[n][k].status # "processing" => after(k).status = sub[n][k].status
    <3>1. d(k).status = sub[n][k].status
      <4>1. sub[n][k] \in SubRow
        BY DEF StoreTypeOK
      <4>2. QED
        BY <4>1, ColumnSet
    <3>2. after(k) = d(k) \/ (d(k).status = "processing" /\ after(k) = PendingSub)
      BY DEF RequeuedSub
    <3> HIDE DEF d, after
    <3>3. QED
      BY <3>1, <3>2 DEF PendingSub
  <2>3. ASSUME job[n].status = "pending"
        PROVE  Good
    <3>1. /\ \A k \in Kinds : sub[n][k].status # "processing"
          /\ \E k \in Kinds : sub[n][k].status = "pending"
      BY <2>3, <1>9 DEF Waits, RecoverFailedWorkers
    <3>2. QED
      BY <3>1, <2>1, <2>2 DEF Good
  <2>4. kept.status = job[n].status
    BY DEF StoreTypeOK, JobRow
  <2>5. resumed.status = IF job[n].status = "failed" THEN "processing" ELSE job[n].status
    BY DEF StoreTypeOK, JobRow
  <2>6. CASE ~requeued
    <3>1. job'[n] = kept
      BY <1>9, <2>6 DEF RecoverFailedWorkers
    <3>2. QED
      BY <3>1, <2>3, <2>4, Zenon
  <2>7. CASE requeued /\ started
    <3>1. job'[n] = resumed
      BY <1>9, <2>7 DEF RecoverFailedWorkers
    <3>2. QED
      BY <3>1, <2>3, <2>5, SMTT(60)
  <2>8. CASE requeued /\ ~started
    <3>1. PICK k \in Kinds : sub[n][k].status = "processing"
      BY <2>8
    <3>2. after(k).status = "pending"
      BY <3>1, <2>2, <2>8
    <3>3. \A i \in Kinds : after(i).status # "processing"
      BY <2>8
    <3>4. QED
      BY <2>1, <3>1, <3>2, <3>3 DEF Good
  <2>9. QED
    BY <2>6, <2>7, <2>8, Zenon
<1>10. ASSUME NEW m \in Media, DeleteMediaItem(m)
       PROVE  Good
  <2>1. n # m
    BY <1>10 DEF DeleteMediaItem, NoJob, StoreTypeOK
  <2>2. QED
    BY <1>10, <2>1, <1>0 DEF DeleteMediaItem, StoreTypeOK
<1>11. CASE UNCHANGED <<job, sub, queuedBy>>
  BY <1>11, <1>0
<1>12. QED
  BY <1>1, <1>2, <1>3, <1>4, <1>5, <1>6, <1>7, <1>8, <1>9, <1>10, <1>11
  DEF StoreNext, Serving, SetMediaTranscodeStatus, BulkEnqueueFailed, BulkEnqueueCompleted,
      CreateWorker, CreateEphemeralWorker, UpdateWorkerHeartbeat, HeartbeatExpires,
      UpsertMediaItem, Tick, rows, storeVars

\* A job that Pool.Enqueue queued and that waits has a sub-job that a claim can take,
\* after any sequence of late reports, lost workers, crashes and resets.
THEOREM StoreWaitingIsClaimable == StoreSpec => []WaitingIsClaimable
<1>1. StoreInit => Unowned /\ Waits
  BY DEF StoreInit, Unowned, Waits, NoJob
<1>2. StoreTypeOK /\ JobsOK /\ Unowned /\ Waits /\ [StoreNext]_storeVars => Unowned' /\ Waits'
  BY UnownedStep, WaitsStep
<1>3. Waits => WaitingIsClaimable
  BY DEF Waits, WaitingIsClaimable, Claimable
<1>4. QED
  BY <1>1, <1>2, <1>3, StoreTypeCorrect, JobsCorrect, PTL DEF StoreSpec

-----------------------------------------------------------------------------
(* Ended sub-jobs stay ended *)

FinishedStays ==
  \A m \in Media, k \in Kinds :
    gen'[m] = gen[m] /\ sub[m][k].status \in Ended
      => sub'[m][k].status \in Ended \cup {"absent"}

LEMMA FinishedStep ==
  ASSUME StoreTypeOK, StoreNext
  PROVE  FinishedStays
<1> SUFFICES ASSUME NEW m \in Media, NEW k \in Kinds, gen'[m] = gen[m],
                    sub[m][k].status \in Ended
             PROVE  sub'[m][k].status \in Ended \cup {"absent"}
  BY DEF FinishedStays
<1>1. ASSUME NEW n \in Media, NEW P \in EligibleProfiles, NEW at \in 0..MaxClock,
             CreateTranscodeJob(n, P) \/ ResetTranscodeJob(n, at, P)
      PROVE  sub'[m] = sub[m]
  <2>1. sub' = [sub EXCEPT ![n] = NewSubs(P)] /\ gen' = [gen EXCEPT ![n] = @ + 1]
    BY <1>1 DEF CreateTranscodeJob, ResetTranscodeJob, createSubJobsForJob
  <2>2. gen[n] \in 0..MaxGen
    BY DEF StoreTypeOK
  <2>3. n # m
    BY <2>1, <2>2, StoreAssumption DEF StoreTypeOK
  <2>4. QED
    BY <2>1, <2>3 DEF StoreTypeOK
<1>2. ASSUME NEW s \in Media \X Kinds, NEW w \in Owners, ClaimNextSubJob(s, w)
      PROVE  sub'[m][k] = sub[m][k]
  <2>1. sub[s[1]][s[2]].status = "pending"
    BY <1>2 DEF ClaimNextSubJob, NextSubJobs, Claimable
  <2>2. m # s[1] \/ k # s[2]
    BY <2>1 DEF Ended
  <2>3. QED
    BY <1>2, <2>2 DEF ClaimNextSubJob, StoreTypeOK
<1>3. ASSUME NEW n \in Media, NEW i \in Kinds, NEW s \in Ended, UpdateSubJobStatus(n, i, s)
      PROVE  sub'[m][k].status \in Ended
  <2>1. sub[n][i] \in SubRow
    BY DEF StoreTypeOK
  <2>2. sub' = [sub EXCEPT ![n][i] = [sub[n][i] EXCEPT !.status = s]]
    BY <1>3 DEF UpdateSubJobStatus
  <2>3. CASE n = m /\ i = k
    BY <2>1, <2>2, <2>3, ColumnSet DEF StoreTypeOK
  <2>4. CASE n # m \/ i # k
    BY <2>2, <2>4 DEF StoreTypeOK
  <2>5. QED
    BY <2>3, <2>4
<1>4. CASE RecoverStaleJobs
  BY <1>4 DEF RecoverStaleJobs, Ended
<1>5. ASSUME NEW w \in Workers, DeleteWorker(w)
      PROVE  sub'[m][k].status = sub[m][k].status
  <2>1. sub'[m][k] = [sub[m][k] EXCEPT !.owner = Detach(@, {w})]
    BY <1>5 DEF DeleteWorker
  <2>2. sub[m][k] \in SubRow
    BY DEF StoreTypeOK
  <2>3. QED
    BY <2>1, <2>2, ColumnSet
<1>6. CASE RecoverFailedWorkers
  <2> DEFINE failed == FailedWorkers
             deleted == {w \in failed : worker[w].ephemeral}
             d == [sub[m][k] EXCEPT !.owner = Detach(@, deleted)]
  <2>1. d.status = sub[m][k].status
    <3>1. sub[m][k] \in SubRow
      BY Zenon DEF StoreTypeOK
    <3>2. QED
      BY <3>1, ColumnSet
  <2>2. sub'[m][k] = RequeuedSub(sub[m][k], failed, deleted)
    BY <1>6 DEF RecoverFailedWorkers
  <2>3. sub'[m][k] = d \/ d.status = "processing"
    BY <2>2 DEF RequeuedSub
  <2> HIDE DEF d
  <2>4. QED
    BY <2>1, <2>3 DEF Ended
<1>7. ASSUME NEW n \in Media, DeleteMediaItem(n)
      PROVE  sub'[m][k].status \in Ended \cup {"absent"}
  BY <1>7 DEF DeleteMediaItem, NoSub, StoreTypeOK
<1>8. CASE sub' = sub
  BY <1>8
<1>9. QED
  BY <1>1, <1>2, <1>3, <1>4, <1>5, <1>6, <1>7, <1>8
  DEF StoreNext, Serving, SetMediaTranscodeStatus, BulkEnqueueUntranscoded, BulkEnqueueFailed,
      BulkEnqueueCompleted, BulkRequeue, PrioritizeJob, CreateWorker, CreateEphemeralWorker,
      UpdateWorkerHeartbeat, HeartbeatExpires, UpsertMediaItem, Tick, rows

\* A sub-job that is done or failed is never pending or processing again before
\* its job is reset: neither startup recovery nor the monitor reruns it.
THEOREM StoreFinishedStaysFinished == StoreSpec => FinishedStaysFinished
<1>1. StoreTypeOK /\ [StoreNext]_storeVars => [FinishedStays]_storeVars
  BY FinishedStep
<1>2. QED
  BY <1>1, StoreTypeCorrect, PTL DEF StoreSpec, FinishedStaysFinished, FinishedStays

-----------------------------------------------------------------------------
(* TranscodeStore implements JobLifecycle: what EventStreams assumes of    *)
(* the queue is what its transactions do.                                  *)

\* The foreign keys: a sub-job has a job, and a job has a media item.
Linked ==
  \A m \in Media :
    /\ JobExists(m) => MediaExists(m)
    /\ \A k \in Kinds : SubExists(m, k) => JobExists(m)

LifeInv == StoreTypeOK /\ Linked

\* What all transactions but the end of a sub-job and a deletion do to the rows of an
\* item: none goes, a job comes only to an item that is there, and no job ends.
Plain(m) ==
  /\ MediaExists(m)' <=> MediaExists(m)
  /\ JobExists(m) => JobExists(m)'
  /\ ~JobExists(m) /\ JobExists(m)' => MediaExists(m)
  /\ job'[m].status \in Ended => job'[m].status = job[m].status
  /\ \A k \in Kinds : SubExists(m, k)' => SubExists(m, k) \/ JobExists(m)'

\* An item none of whose columns here changed.
AsBefore(m) == media'[m] = media[m] /\ job'[m].status = job[m].status /\ sub'[m] = sub[m]

LEMMA AsBeforeIsPlain ==
  ASSUME NEW m \in Media, AsBefore(m)
  PROVE  Plain(m)
  BY DEF AsBefore, Plain, MediaExists, JobExists, SubExists

LEMMA LinkedInit == StoreInit => Linked
  BY DEF StoreInit, Linked, JobExists, SubExists, NoJob, NoSub

\* A plain step keeps the links.
LEMMA PlainLinked ==
  ASSUME Linked, \A m \in Media : Plain(m)
  PROVE  Linked'
  BY DEF Linked, Plain

\* What the statuses are mapped to.
LEMMA Mapped ==
  /\ \A s \in Status \cup {"absent"} :
       /\ LifeOf(s) \in {"queued", "done", "failed", "absent"}
       /\ LifeOf(s) = "absent" <=> s = "absent"
       /\ LifeOf(s) \in Ended <=> s \in Ended
       /\ s \in Ended => LifeOf(s) = s
  /\ \A s \in Status \cup {"none", "deleted"} :
       /\ ItemOf(s) \in {"none", "busy", "done", "deleted"}
       /\ ItemOf(s) = "deleted" <=> s = "deleted"
  BY DEF LifeOf, ItemOf, Status, Active, Ended

\* The columns JobLifecycle sees, before and after a step.
LEMMA Statuses ==
  ASSUME StoreTypeOK
  PROVE  /\ \A m \in Media : job[m].status \in Status \cup {"absent"}
         /\ \A m \in Media : media[m] \in Status \cup {"none", "deleted"}
  BY Columns DEF StoreTypeOK

\* A plain step is one of JobLifecycle's moves.
LEMMA PlainMoves ==
  ASSUME StoreTypeOK, StoreTypeOK', \A m \in Media : Plain(m)
  PROVE  Lifecycle!Moves
<1> DEFINE l == [m \in Media |-> LifeOf(job'[m].status)]
           i == [m \in Media |-> ItemOf(media'[m])]
<1>1. /\ \A m \in Media : job[m].status \in Status \cup {"absent"}
      /\ \A m \in Media : media[m] \in Status \cup {"none", "deleted"}
  BY Statuses
<1>2. /\ \A m \in Media : job'[m].status \in Status \cup {"absent"}
      /\ \A m \in Media : media'[m] \in Status \cup {"none", "deleted"}
  BY DEF StoreTypeOK, JobRow
<1>3. ASSUME NEW m \in Media
      PROVE  Lifecycle!MayBecome(m, l[m], i[m])
  <2>1. Plain(m)
    OBVIOUS
  <2>2. QED
    BY <1>1, <1>2, <2>1, Mapped
    DEF Plain, Lifecycle!MayBecome, Lifecycle!Over, Ended, JobExists, MediaExists
<1>4. l \in [Media -> Lifecycle!JobStatus \cup {"absent"}]
  BY <1>2, Mapped DEF Lifecycle!JobStatus
<1>5. i \in [Media -> Lifecycle!ItemStatus \cup {"deleted"}]
  BY <1>2, Mapped DEF Lifecycle!ItemStatus
<1>6. QED
  BY <1>3, <1>4, <1>5 DEF Lifecycle!Moves

-----------------------------------------------------------------------------
(* The transactions that are plain *)

LEMMA EnqueuePlain ==
  ASSUME StoreTypeOK, Linked, NEW m \in Media, NEW P, NEW at,
         CreateTranscodeJob(m, P) \/ ResetTranscodeJob(m, at, P), NEW n \in Media
  PROVE  Plain(n)
<1>1. job'[m].status = "pending" /\ media' = media
  <2>1. CASE CreateTranscodeJob(m, P)
    BY <2>1 DEF CreateTranscodeJob, StoreTypeOK, NoJob
  <2>2. CASE ResetTranscodeJob(m, at, P)
    BY <2>2 DEF ResetTranscodeJob, StoreTypeOK, JobRow
  <2>3. QED
    BY <2>1, <2>2
<1>2. MediaExists(m)
  BY DEF CreateTranscodeJob, ResetTranscodeJob, Linked
<1>3. n # m => AsBefore(n)
  BY <1>1 DEF CreateTranscodeJob, ResetTranscodeJob, createSubJobsForJob, StoreTypeOK, AsBefore
<1>4. CASE n = m
  BY <1>1, <1>2, <1>4 DEF Plain, MediaExists, JobExists, Ended
<1>5. QED
  BY <1>3, <1>4, AsBeforeIsPlain

LEMMA BulkPlain ==
  ASSUME StoreTypeOK, Linked, NEW n \in Media,
         BulkEnqueueUntranscoded \/ BulkEnqueueFailed \/ BulkEnqueueCompleted
  PROVE  Plain(n)
<1> DEFINE Queued == MediaExists(n) /\ media'[n] = "pending" /\ job'[n].status = "pending"
<1>1. sub' = sub
  BY DEF BulkEnqueueUntranscoded, BulkEnqueueFailed, BulkEnqueueCompleted, BulkRequeue
<1>3. ASSUME NEW s \in Ended, BulkRequeue(s)
      PROVE  AsBefore(n) \/ Queued
  <2>1. CASE job[n].status = s
    <3>1. job'[n].status = "pending" /\ media'[n] = "pending"
      BY <1>3, <2>1 DEF BulkRequeue, StoreTypeOK, JobRow
    <3>2. MediaExists(n)
      BY <2>1 DEF Linked, JobExists, Ended
    <3>3. QED
      BY <3>1, <3>2
  <2>2. CASE job[n].status # s
    BY <1>1, <1>3, <2>2 DEF BulkRequeue, AsBefore
  <2>3. QED
    BY <2>1, <2>2
<1>4. CASE AsBefore(n)
  BY <1>4, AsBeforeIsPlain
<1>5. CASE Queued
  BY <1>1, <1>5 DEF Plain, MediaExists, JobExists, SubExists, Ended
<1>6. AsBefore(n) \/ Queued
  <2>1. CASE BulkEnqueueUntranscoded
    BY <1>1, <2>1 DEF BulkEnqueueUntranscoded, NoJob, AsBefore
  <2>2. QED
    BY <2>1, <1>3 DEF BulkEnqueueFailed, BulkEnqueueCompleted, Ended
<1>7. QED
  BY <1>4, <1>5, <1>6

LEMMA PrioritizePlain ==
  ASSUME StoreTypeOK, NEW m \in Media, PrioritizeJob(m), NEW n \in Media
  PROVE  Plain(n)
<1>1. job'[n].status = job[n].status
  BY DEF PrioritizeJob, StoreTypeOK, JobRow
<1>2. QED
  BY <1>1, AsBeforeIsPlain DEF PrioritizeJob, AsBefore

LEMMA ClaimPlain ==
  ASSUME StoreTypeOK, Linked, NEW s \in Media \X Kinds, NEW w, ClaimNextSubJob(s, w),
         NEW n \in Media
  PROVE  Plain(n)
<1>1. s[1] \in Media /\ s[2] \in Kinds /\ sub[s[1]][s[2]].status = "pending"
  BY DEF ClaimNextSubJob, NextSubJobs, Claimable
<1>2. JobExists(s[1]) /\ MediaExists(s[1])
  BY <1>1 DEF Linked, SubExists
<1>3. n # s[1] => AsBefore(n)
  BY <1>1 DEF ClaimNextSubJob, StoreTypeOK, AsBefore
<1>4. CASE n = s[1]
  <2>1. job'[n].status = job[n].status \/ job'[n].status = "processing"
    BY <1>1, <1>4 DEF ClaimNextSubJob, StoreTypeOK, JobRow
  <2>2. media'[n] = media[n] \/ media'[n] = "processing"
    BY <1>1, <1>4 DEF ClaimNextSubJob, StoreTypeOK
  <2>3. JobExists(n)' /\ (job'[n].status \in Ended => job'[n].status = job[n].status)
    BY <2>1, <1>2, <1>4 DEF JobExists, Ended
  <2>4. MediaExists(n)'
    BY <2>2, <1>2, <1>4 DEF MediaExists
  <2>5. QED
    BY <1>2, <1>4, <2>3, <2>4 DEF Plain
<1>5. QED
  BY <1>3, <1>4, AsBeforeIsPlain

LEMMA MediaPlain ==
  ASSUME StoreTypeOK, NEW m \in Media, NEW s \in Status \cup {"none"},
         SetMediaTranscodeStatus(m, s) \/ UpsertMediaItem(m, s), NEW n \in Media
  PROVE  Plain(n)
<1>1. job' = job /\ sub' = sub
  BY DEF SetMediaTranscodeStatus, UpsertMediaItem
<1>2. MediaExists(n)' <=> MediaExists(n)
  BY DEF SetMediaTranscodeStatus, UpsertMediaItem, MediaExists, StoreTypeOK, Status
<1>3. QED
  BY <1>1, <1>2 DEF Plain, JobExists, SubExists

LEMMA WorkerPlain ==
  ASSUME NEW w \in Workers, NEW n \in Media,
         \/ CreateWorker(w) \/ CreateEphemeralWorker(w)
         \/ UpdateWorkerHeartbeat(w) \/ HeartbeatExpires(w)
  PROVE  Plain(n)
  BY AsBeforeIsPlain
  DEF CreateWorker, CreateEphemeralWorker, UpdateWorkerHeartbeat, HeartbeatExpires, AsBefore

LEMMA RecoverPlain ==
  ASSUME StoreTypeOK, RecoverStaleJobs, NEW n \in Media
  PROVE  Plain(n)
<1>1. media' = media
  BY DEF RecoverStaleJobs
<1>2. job'[n].status = IF job[n].status = "processing" THEN "pending" ELSE job[n].status
  BY DEF RecoverStaleJobs, StoreTypeOK, JobRow
<1>3. \A k \in Kinds : SubExists(n, k)' => SubExists(n, k)
  BY DEF RecoverStaleJobs, SubExists
<1>4. QED
  BY <1>1, <1>2, <1>3 DEF Plain, MediaExists, JobExists, Ended

LEMMA DeleteWorkerPlain ==
  ASSUME StoreTypeOK, Linked, NEW w \in Workers, DeleteWorker(w), NEW n \in Media
  PROVE  Plain(n)
<1>1. ASSUME NEW k \in Kinds
      PROVE  sub'[n][k].status = sub[n][k].status
  <2>1. sub'[n][k] = [sub[n][k] EXCEPT !.owner = Detach(@, {w})]
    BY DEF DeleteWorker
  <2>2. sub[n][k] \in SubRow
    BY DEF StoreTypeOK
  <2>3. QED
    BY <2>1, <2>2, ColumnSet
<1>2. CASE job[n].status = "processing" /\ job[n].worker = w
  <2>1. job'[n].status = "pending" /\ media'[n] = "pending"
    BY <1>2 DEF DeleteWorker, StoreTypeOK, JobRow
  <2>2. JobExists(n) /\ MediaExists(n)
    BY <1>2 DEF Linked, JobExists
  <2>3. QED
    BY <1>1, <2>1, <2>2 DEF Plain, MediaExists, JobExists, SubExists, Ended
<1>3. CASE ~(job[n].status = "processing" /\ job[n].worker = w)
  <2>1. job'[n].status = job[n].status /\ media'[n] = media[n]
    BY <1>3, ZenonT(60) DEF DeleteWorker, StoreTypeOK, JobRow
  <2>2. QED
    BY <1>1, <2>1 DEF Plain, MediaExists, JobExists, SubExists
<1>4. QED
  BY <1>2, <1>3

\* The monitor touches only rows that are there, and it reopens but never ends a job.
LEMMA MonitorPlain ==
  ASSUME StoreTypeOK, Linked, RecoverFailedWorkers, NEW n \in Media
  PROVE  Plain(n)
<1> DEFINE held == \E k \in Kinds : sub[n][k].status = "processing" /\ sub[n][k].owner \in FailedWorkers
<1>1. ASSUME NEW k \in Kinds, SubExists(n, k)'
      PROVE  SubExists(n, k)
  <2>1. PICK f, d : sub'[n][k] = RequeuedSub(sub[n][k], f, d)
    BY DEF RecoverFailedWorkers
  <2>2. sub[n][k] \in SubRow
    BY DEF StoreTypeOK
  <2>3. [sub[n][k] EXCEPT !.owner = Detach(@, d)].status = sub[n][k].status
    BY <2>2, ColumnSet
  <2>4. QED
    BY <1>1, <2>1, <2>3 DEF RequeuedSub, SubExists
<1>2. CASE ~held
  <2>1. job'[n].status = job[n].status /\ media'[n] = media[n]
    BY <1>2, ZenonT(60) DEF RecoverFailedWorkers, StoreTypeOK, JobRow
  <2>2. QED
    BY <1>1, <2>1, Zenon DEF Plain, MediaExists, JobExists
<1>3. CASE held
  <2>1. JobExists(n) /\ MediaExists(n)
    BY <1>3 DEF Linked, SubExists
  <2>2. \/ job'[n].status = "pending"
        \/ job'[n].status = IF job[n].status = "failed" THEN "processing" ELSE job[n].status
    BY <1>3, ZenonT(60) DEF RecoverFailedWorkers, StoreTypeOK, JobRow
  <2>3. \/ media'[n] = "pending"
        \/ media'[n] = IF media[n] = "failed" THEN "processing" ELSE media[n]
    BY <1>3 DEF RecoverFailedWorkers
  <2>4. MediaExists(n)'
    BY <2>1, <2>3 DEF MediaExists
  <2>5. JobExists(n)' /\ (job'[n].status \in Ended => job'[n].status = job[n].status)
    BY <2>1, <2>2 DEF JobExists, Ended
  <2>6. QED
    BY <1>1, <2>1, <2>4, <2>5 DEF Plain
<1>4. QED
  BY <1>2, <1>3

-----------------------------------------------------------------------------
(* The end of a sub-job, and a deletion *)

LEMMA EndSettles ==
  ASSUME StoreTypeOK, Linked, NEW m \in Media, NEW k \in Kinds, NEW s \in Ended,
         UpdateSubJobStatus(m, k, s)
  PROVE  Linked' /\ Lifecycle!Settles(m)
<1> DEFINE l == JobStatusAfter(m, k, s)
<1>1. JobExists(m) /\ MediaExists(m)
  BY DEF UpdateSubJobStatus, Linked
<1>2. l \in Status
  BY <1>1, Columns DEF JobStatusAfter, Status, JobExists
<1>3. /\ job'[m].status = l
      /\ \A n \in Media \ {m} : job'[n] = job[n]
  BY DEF UpdateSubJobStatus, StoreTypeOK, JobRow
<1>4. \E t \in Status \cup {"none"} : media' = [media EXCEPT ![m] = t]
  <2>1. media[m] \in Status \cup {"none"}
    BY <1>1 DEF StoreTypeOK, MediaExists
  <2>2. QED
    BY <1>2, <2>1 DEF UpdateSubJobStatus
<1>5. PICK t \in Status \cup {"none"} : media' = [media EXCEPT ![m] = t]
  BY <1>4
<1>6. Linked'
  <2>1. \A n \in Media, i \in Kinds : SubExists(n, i)' => SubExists(n, i)
    BY DEF UpdateSubJobStatus, SubExists, StoreTypeOK
  <2>2. ASSUME NEW n \in Media
        PROVE  (MediaExists(n)' <=> MediaExists(n)) /\ (JobExists(n)' <=> JobExists(n))
    BY <1>1, <1>2, <1>3, <1>5 DEF MediaExists, JobExists, Status, StoreTypeOK
  <2>3. QED
    BY <2>1, <2>2 DEF Linked
<1>7. [n \in Media |-> LifeOf(job[n].status)]' =
        [[n \in Media |-> LifeOf(job[n].status)] EXCEPT ![m] = LifeOf(l)]
  BY <1>3
<1>8. [n \in Media |-> ItemOf(media[n])]' =
        [[n \in Media |-> ItemOf(media[n])] EXCEPT ![m] = ItemOf(t)]
  BY <1>5 DEF StoreTypeOK
<1>9. LifeOf(l) \in Lifecycle!JobStatus /\ LifeOf(job[m].status) # "absent"
  BY <1>1, <1>2, Mapped, Columns DEF Lifecycle!JobStatus, JobExists, Status
<1>10. ItemOf(t) \in Lifecycle!ItemStatus /\ ItemOf(media[m]) # "deleted"
  BY <1>1, Mapped DEF Lifecycle!ItemStatus, MediaExists, Status, StoreTypeOK
<1>11. QED
  BY <1>6, <1>7, <1>8, <1>9, <1>10 DEF Lifecycle!Settles

LEMMA DeletionDeletes ==
  ASSUME StoreTypeOK, Linked, NEW m \in Media, DeleteMediaItem(m)
  PROVE  Linked' /\ Lifecycle!Deletes(m)
<1>1. Linked'
  BY DEF Linked, DeleteMediaItem, MediaExists, JobExists, SubExists, NoJob, NoSub, StoreTypeOK
<1>2. [n \in Media |-> LifeOf(job[n].status)]' =
        [[n \in Media |-> LifeOf(job[n].status)] EXCEPT ![m] = "absent"]
  BY DEF DeleteMediaItem, NoJob, StoreTypeOK, LifeOf, Active
<1>3. [n \in Media |-> ItemOf(media[n])]' =
        [[n \in Media |-> ItemOf(media[n])] EXCEPT ![m] = "deleted"]
  BY DEF DeleteMediaItem, StoreTypeOK, ItemOf, Active
<1>4. ItemOf(media[m]) # "deleted"
  BY Mapped DEF DeleteMediaItem, MediaExists, StoreTypeOK
<1>5. QED
  BY <1>1, <1>2, <1>3, <1>4 DEF Lifecycle!Deletes

-----------------------------------------------------------------------------
(* The refinement *)

LEMMA LifeInit == StoreInit => Lifecycle!LifecycleInit
  BY DEF StoreInit, Lifecycle!LifecycleInit, LifeOf, ItemOf, Active, NoJob

LEMMA LifeStep ==
  ASSUME LifeInv, [StoreNext]_storeVars
  PROVE  LifeInv' /\ [Lifecycle!LifecycleNext]_(Lifecycle!lifecycle)
<1>1. StoreTypeOK /\ StoreTypeOK' /\ Linked
  BY TypeStep DEF LifeInv
<1>2. ASSUME \A n \in Media : Plain(n)
      PROVE  LifeInv' /\ Lifecycle!LifecycleNext
  BY <1>1, <1>2, PlainLinked, PlainMoves DEF LifeInv, Lifecycle!LifecycleNext
<1>3. ASSUME NEW m \in Media, NEW k \in Kinds, NEW s \in Ended, UpdateSubJobStatus(m, k, s)
      PROVE  LifeInv' /\ Lifecycle!LifecycleNext
  BY <1>1, <1>3, EndSettles DEF LifeInv, Lifecycle!LifecycleNext
<1>4. ASSUME NEW m \in Media, DeleteMediaItem(m)
      PROVE  LifeInv' /\ Lifecycle!LifecycleNext
  BY <1>1, <1>4, DeletionDeletes DEF LifeInv, Lifecycle!LifecycleNext
<1>5. CASE Tick \/ UNCHANGED storeVars
  BY <1>2, <1>5, AsBeforeIsPlain DEF Tick, storeVars, rows, AsBefore
<1>6. ASSUME NEW m \in Media, NEW s \in {"none", "done"}, UpsertMediaItem(m, s)
      PROVE  \A n \in Media : Plain(n)
  BY <1>1, <1>6, MediaPlain DEF Status
<1>7. QED
  BY <1>1, <1>2, <1>3, <1>4, <1>5, <1>6, EnqueuePlain, BulkPlain, PrioritizePlain, ClaimPlain,
     MediaPlain, WorkerPlain, RecoverPlain, DeleteWorkerPlain, MonitorPlain
  DEF StoreNext, Serving

\* Whatever transactions run, in any order and by any caller, the jobs live as
\* JobLifecycle says: the progress streams and the auto-enqueue listener of
\* EventStreams, checked over JobLifecycle, may rely on it.
THEOREM StoreFollowsLifecycle == StoreSpec => FollowsLifecycle
<1>1. StoreInit => LifeInv /\ Lifecycle!LifecycleInit
  BY TypeInit, LinkedInit, LifeInit DEF LifeInv
<1>2. LifeInv /\ [StoreNext]_storeVars => LifeInv' /\ [Lifecycle!LifecycleNext]_(Lifecycle!lifecycle)
  BY LifeStep
<1>3. QED
  BY <1>1, <1>2, PTL DEF StoreSpec, FollowsLifecycle, Lifecycle!LifecycleSpec
=============================================================================
