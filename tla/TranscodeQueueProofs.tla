------------------------ MODULE TranscodeQueueProofs ------------------------
(***************************************************************************)
(* Theorems about TranscodeQueue, for every set of media items, profiles,  *)
(* goroutines, request slots and workers.  Every step of the queue is a    *)
(* transaction of TranscodeStore or leaves the rows alone, so what the     *)
(* transactions keep true the whole system keeps true.                     *)
(***************************************************************************)
EXTENDS TranscodeQueue, TranscodeStoreProofs, FiniteSetTheorems

CallsOK ==
  /\ enq \subseteq EnqCall
  /\ beat \subseteq BeatCall
  /\ rep \subseteq RepCall
  /\ local \subseteq LocalTask

\* What a call remembers is an item, a kind and a worker of the store.
LEMMA CallFields ==
  ASSUME CallsOK
  PROVE  /\ \A x \in enq : x.m \in Media /\ x.at \in 0..MaxClock
         /\ \A x \in beat : x.w \in Workers
         /\ \A x \in rep : /\ x.w \in Workers /\ x.m \in Media /\ x.k \in Kinds
                           /\ x.status \in Ended
         /\ \A t \in local : t.m \in Media /\ t.k \in Kinds /\ t.g \in 0..MaxGen
  BY DEF CallsOK, EnqCall, BeatCall, RepCall, LocalTask

-----------------------------------------------------------------------------
(* Every step of the queue is a step of the store *)

LEMMA StepOfStore ==
  ASSUME CallsOK, [Next]_vars
  PROVE  (Restart /\ RecoverStaleJobs) \/ [Serving]_storeVars
<1>1. ASSUME NEW x \in enq, EnqueueWrite(x)
      PROVE  Serving
  BY <1>1, CallFields DEF EnqueueWrite, Serving
<1>2. ASSUME NEW x \in enq, EnqueueMark(x)
      PROVE  Serving
  BY <1>2, CallFields DEF EnqueueMark, Serving, Status
<1>3. ASSUME NEW l \in Locals, LocalClaim(l)
      PROVE  Serving
  BY <1>3 DEF LocalClaim, NextSubJobs, Claimable, Owners, Serving
<1>4. ASSUME NEW t \in local, NEW s \in Ended, LocalEnd(t, s)
      PROVE  [Serving]_storeVars
  BY <1>4, CallFields DEF LocalEnd, Serving
<1>5. ASSUME NEW x \in beat, HeartbeatTouch(x) \/ HeartbeatEnd(x)
      PROVE  [Serving]_storeVars
  BY <1>5, CallFields DEF HeartbeatTouch, HeartbeatEnd, Serving
<1>6. ASSUME NEW x \in beat, HeartbeatClaim(x)
      PROVE  Serving
  BY <1>6, CallFields DEF HeartbeatClaim, NextSubJobs, Claimable, Owners, Serving
<1>7. ASSUME NEW x \in rep, ReportWrite(x)
      PROVE  [Serving]_storeVars
  BY <1>7, CallFields DEF ReportWrite, Serving
<1>8. CASE Restart
  BY <1>8 DEF Restart
<1>9. CASE Monitor
  BY <1>9 DEF Monitor, Serving
<1>10. CASE StoreCall
  BY <1>10 DEF StoreCall, Serving
<1>11. CASE UNCHANGED vars
  BY <1>11 DEF vars
<1>12. QED
  BY <1>1, <1>2, <1>3, <1>4, <1>5, <1>6, <1>7, <1>8, <1>9, <1>10, <1>11
  DEF Next, EnqueueRead, EnqueueFails, HeartbeatCount, HeartbeatFails, ReportCheck, ReportFails

LEMMA CallsStep ==
  ASSUME TypeOK, [Next]_vars
  PROVE  CallsOK' /\ restarts' \in 0..MaxRestarts
<1> USE DEF TypeOK, CallsOK
<1>1. ASSUME NEW c \in Slots, NEW m \in Media, EnqueueRead(c, m)
      PROVE  CallsOK' /\ restarts' \in 0..MaxRestarts
  <2>1. clock \in 0..MaxClock
    BY DEF StoreTypeOK
  <2>2. [c |-> c, m |-> m, at |-> clock, pc |-> IF JobExists(m) THEN "reset" ELSE "create"]
          \in EnqCall
    BY <2>1 DEF EnqCall
  <2>3. QED
    BY <1>1, <2>2 DEF EnqueueRead
<1>2. ASSUME NEW x \in enq, EnqueueWrite(x) \/ EnqueueFails(x) \/ EnqueueMark(x)
      PROVE  CallsOK' /\ restarts' \in 0..MaxRestarts
  <2>1. x \in EnqCall
    OBVIOUS
  <2>2. [x EXCEPT !.pc = "mark"] \in EnqCall
    BY <2>1 DEF EnqCall
  <2>3. QED
    BY <1>2, <2>2 DEF EnqueueWrite, EnqueueFails, EnqueueMark
<1>3. ASSUME NEW l \in Locals, LocalClaim(l)
      PROVE  CallsOK' /\ restarts' \in 0..MaxRestarts
  <2>1. PICK s \in NextSubJobs :
          local' = local \cup {[l |-> l, m |-> s[1], k |-> s[2], g |-> gen[s[1]]]}
    BY <1>3 DEF LocalClaim
  <2>2. s[1] \in Media /\ s[2] \in Kinds
    BY DEF NextSubJobs, Claimable
  <2>3. gen[s[1]] \in 0..MaxGen
    BY <2>2 DEF StoreTypeOK
  <2>4. [l |-> l, m |-> s[1], k |-> s[2], g |-> gen[s[1]]] \in LocalTask
    BY <2>2, <2>3 DEF LocalTask
  <2>5. QED
    BY <1>3, <2>1, <2>4 DEF LocalClaim
<1>4. ASSUME NEW t \in local, NEW s \in Ended, LocalEnd(t, s)
      PROVE  CallsOK' /\ restarts' \in 0..MaxRestarts
  BY <1>4 DEF LocalEnd
<1>5. ASSUME NEW c \in Slots, NEW w \in Workers, HeartbeatCount(c, w)
      PROVE  CallsOK' /\ restarts' \in 0..MaxRestarts
  <2>1. [c |-> c, w |-> w, pc |-> "touch", room |-> ActiveCount(w) < Threads] \in BeatCall
    BY DEF BeatCall
  <2>2. QED
    BY <1>5, <2>1 DEF HeartbeatCount
<1>6. ASSUME NEW x \in beat, HeartbeatStep(x)
      PROVE  CallsOK' /\ restarts' \in 0..MaxRestarts
  <2>1. x \in BeatCall
    OBVIOUS
  <2>2. [x EXCEPT !.pc = "claim"] \in BeatCall /\ [x EXCEPT !.pc = "claimed"] \in BeatCall
    BY <2>1 DEF BeatCall
  <2>3. QED
    BY <1>6, <2>2
    DEF HeartbeatStep, HeartbeatTouch, HeartbeatClaim, HeartbeatEnd, HeartbeatFails
<1>7. ASSUME NEW c \in Slots, NEW w \in Workers, NEW m \in Media, NEW k \in Kinds,
             NEW s \in Ended, ReportCheck(c, w, m, k, s)
      PROVE  CallsOK' /\ restarts' \in 0..MaxRestarts
  <2>1. gen[m] \in 0..MaxGen
    BY DEF StoreTypeOK
  <2>2. [c |-> c, w |-> w, m |-> m, k |-> k, g |-> gen[m], status |-> s] \in RepCall
    BY <2>1 DEF RepCall
  <2>3. QED
    BY <1>7, <2>2 DEF ReportCheck
<1>8. ASSUME NEW x \in rep, ReportWrite(x) \/ ReportFails(x)
      PROVE  CallsOK' /\ restarts' \in 0..MaxRestarts
  BY <1>8 DEF ReportWrite, ReportFails
<1>9. CASE Restart
  BY <1>9, QueueAssumption DEF Restart
<1>10. CASE Monitor \/ StoreCall \/ UNCHANGED vars
  BY <1>10 DEF Monitor, StoreCall, calls, vars
<1>11. QED
  BY <1>1, <1>2, <1>3, <1>4, <1>5, <1>6, <1>7, <1>8, <1>9, <1>10 DEF Next, HeartbeatStep

LEMMA QueueStep ==
  ASSUME TypeOK, [Next]_vars
  PROVE  TypeOK' /\ [StoreNext]_storeVars
<1>1. CallsOK
  BY DEF TypeOK, CallsOK
<1>2. [StoreNext]_storeVars
  BY <1>1, StepOfStore DEF StoreNext
<1>3. StoreTypeOK'
  BY <1>2, TypeStep DEF TypeOK
<1>4. QED
  BY <1>2, <1>3, CallsStep DEF TypeOK, CallsOK

\* The rows and the calls in progress keep their shape: in particular every call
\* remembers an item, a kind and a set of rows that exist or did exist.
THEOREM TypeCorrect == Spec => []TypeOK
<1>1. Init => TypeOK
  BY TypeInit, QueueAssumption DEF Init, TypeOK
<1>2. QED
  BY <1>1, QueueStep, PTL DEF Spec

\* The goroutines, handlers and restarts use the store only through its
\* transactions: the queue implements the specification of the store.
THEOREM QueueImplementsStore == Spec => StoreSpec
<1>1. Init => StoreInit
  BY DEF Init
<1>2. QED
  BY <1>1, TypeCorrect, QueueStep, PTL DEF Spec, StoreSpec

\* A job is done only when all of its sub-jobs are.
THEOREM DoneIsCompleteAlways == Spec => []DoneIsComplete
  BY QueueImplementsStore, StoreDoneIsComplete, PTL

\* An active job has a sub-job to run or running.
THEOREM WorkRemainsAlways == Spec => []WorkRemains
  BY QueueImplementsStore, StoreWorkRemains, PTL

\* A waiting job has a sub-job that can be claimed.
THEOREM WaitingIsClaimableAlways == Spec => []WaitingIsClaimable
  BY QueueImplementsStore, StoreWaitingIsClaimable, PTL

\* Ended sub-jobs stay ended until their job is reset.
THEOREM FinishedStaysFinishedAlways == Spec => FinishedStaysFinished
  BY QueueImplementsStore, StoreFinishedStaysFinished, PTL

\* To those who look at the status of jobs and items only, the queue is JobLifecycle.
THEOREM QueueFollowsLifecycle == Spec => FollowsLifecycle
  BY QueueImplementsStore, StoreFollowsLifecycle, PTL

-----------------------------------------------------------------------------
(* What a goroutine processes stays its own *)

\* The sub-job went to a goroutine of the pool, or it ended.
Taken(m, k) ==
  /\ sub[m][k].status # "pending"
  /\ sub[m][k].status = "processing" => sub[m][k].owner = NoWorker

\* The set of rows of item m was not replaced.
SameRows(m) == gen'[m] = gen[m]

LEMMA TakenStays ==
  ASSUME StoreTypeOK, Serving, NEW m \in Media, NEW k \in Kinds, SameRows(m), Taken(m, k)
  PROVE  Taken(m, k)'
<1> USE DEF SameRows
<1> DEFINE Row == sub'[m][k] = sub[m][k]
<1>0. Row => Taken(m, k)'
  BY DEF Taken
<1>1. ASSUME NEW n \in Media, NEW P \in EligibleProfiles, NEW at \in 0..MaxClock,
             CreateTranscodeJob(n, P) \/ ResetTranscodeJob(n, at, P)
      PROVE  Row
  <2>1. sub' = [sub EXCEPT ![n] = NewSubs(P)] /\ gen' = [gen EXCEPT ![n] = @ + 1]
    BY <1>1 DEF CreateTranscodeJob, ResetTranscodeJob, createSubJobsForJob
  <2>2. gen[n] \in 0..MaxGen
    BY DEF StoreTypeOK
  <2>3. n # m
    BY <2>1, <2>2, StoreAssumption DEF StoreTypeOK
  <2>4. QED
    BY <2>1, <2>3 DEF StoreTypeOK
<1>2. ASSUME NEW s \in Media \X Kinds, NEW w \in Owners, ClaimNextSubJob(s, w)
      PROVE  Row
  <2>1. sub[s[1]][s[2]].status = "pending"
    BY <1>2 DEF ClaimNextSubJob, NextSubJobs, Claimable
  <2>2. m # s[1] \/ k # s[2]
    BY <2>1 DEF Taken
  <2>3. QED
    BY <1>2, <2>2 DEF ClaimNextSubJob, StoreTypeOK
<1>3. ASSUME NEW n \in Media, NEW i \in Kinds, NEW s \in Ended, UpdateSubJobStatus(n, i, s)
      PROVE  Row \/ sub'[m][k].status \in Ended
  <2>1. sub[n][i] \in SubRow
    BY DEF StoreTypeOK
  <2>2. sub' = [sub EXCEPT ![n][i] = [sub[n][i] EXCEPT !.status = s]]
    BY <1>3 DEF UpdateSubJobStatus
  <2>3. CASE n = m /\ i = k
    BY <2>1, <2>2, <2>3, ColumnSet DEF StoreTypeOK
  <2>4. CASE n # m \/ i # k
    BY <2>2, <2>4 DEF StoreTypeOK
  <2>5. QED
    BY <2>3, <2>4
<1>4. ASSUME NEW w \in Workers, DeleteWorker(w)
      PROVE  Taken(m, k)'
  <2>1. sub'[m][k] = [sub[m][k] EXCEPT !.owner = Detach(@, {w})]
    BY <1>4 DEF DeleteWorker
  <2>2. sub[m][k] \in SubRow
    BY DEF StoreTypeOK
  <2>3. sub'[m][k].status = sub[m][k].status /\ sub'[m][k].owner = Detach(sub[m][k].owner, {w})
    BY <2>1, <2>2, ColumnSet
  <2>4. QED
    BY <2>3 DEF Taken, Detach
<1>5. CASE RecoverFailedWorkers
  <2> DEFINE failed == FailedWorkers
             deleted == {w \in failed : worker[w].ephemeral}
             d == [sub[m][k] EXCEPT !.owner = Detach(@, deleted)]
  <2>1. d.status = sub[m][k].status /\ d.owner = Detach(sub[m][k].owner, deleted)
    <3>1. sub[m][k] \in SubRow
      BY Zenon DEF StoreTypeOK
    <3>2. QED
      BY <3>1, ColumnSet
  <2>2. sub'[m][k] = RequeuedSub(sub[m][k], failed, deleted)
    BY <1>5 DEF RecoverFailedWorkers
  <2>3. sub'[m][k] = d \/ (d.status = "processing" /\ d.owner \in failed)
    BY <2>2 DEF RequeuedSub
  <2>4. d.status = "processing" => d.owner = NoWorker
    BY <2>1 DEF Taken, Detach
  <2>5. NoWorker \notin failed
    BY StoreAssumption DEF FailedWorkers
  <2> HIDE DEF d
  <2>6. QED
    BY <2>1, <2>3, <2>4, <2>5 DEF Taken
<1>6. ASSUME NEW n \in Media, DeleteMediaItem(n)
      PROVE  Taken(m, k)'
  <2>1. sub'[m][k] = sub[m][k] \/ sub'[m][k] = NoSub
    BY <1>6 DEF DeleteMediaItem, StoreTypeOK
  <2>2. QED
    BY <2>1 DEF Taken, NoSub
<1>7. CASE sub' = sub
  BY <1>7, <1>0
<1>8. ASSUME sub'[m][k].status \in Ended
      PROVE  Taken(m, k)'
  BY <1>8, SMTT(60) DEF Taken, Ended
<1> HIDE DEF Row
<1>9. QED
  BY <1>0, <1>1, <1>2, <1>3, <1>4, <1>5, <1>6, <1>7, <1>8
  DEF Serving, SetMediaTranscodeStatus, BulkEnqueueUntranscoded, BulkEnqueueFailed,
      BulkEnqueueCompleted, BulkRequeue, PrioritizeJob, CreateWorker, CreateEphemeralWorker,
      UpdateWorkerHeartbeat, HeartbeatExpires, UpsertMediaItem, Tick, rows

LEMMA RowsGrow ==
  ASSUME StoreTypeOK, [Serving]_storeVars, NEW m \in Media
  PROVE  gen[m] \in Nat /\ gen'[m] \in Nat /\ gen'[m] >= gen[m]
<1>1. gen[m] \in Nat
  BY StoreAssumption DEF StoreTypeOK
<1>2. ASSUME NEW n \in Media, NEW P \in EligibleProfiles, NEW at \in 0..MaxClock,
             CreateTranscodeJob(n, P) \/ ResetTranscodeJob(n, at, P)
      PROVE  gen'[m] = gen[m] \/ gen'[m] = gen[m] + 1
  <2>1. gen' = [gen EXCEPT ![n] = @ + 1]
    BY <1>2 DEF CreateTranscodeJob, ResetTranscodeJob, createSubJobsForJob
  <2>2. QED
    BY <2>1 DEF StoreTypeOK
<1>3. CASE \E n \in Media, P \in EligibleProfiles, at \in 0..MaxClock :
             CreateTranscodeJob(n, P) \/ ResetTranscodeJob(n, at, P)
  <2>1. gen'[m] = gen[m] \/ gen'[m] = gen[m] + 1
    BY <1>2, <1>3
  <2>2. QED
    BY <1>1, <2>1
<1>4. CASE gen' = gen
  BY <1>1, <1>4
<1>5. QED
  BY <1>3, <1>4, Zenon
  DEF Serving, SetMediaTranscodeStatus, BulkEnqueueUntranscoded, BulkEnqueueFailed,
      BulkEnqueueCompleted, BulkRequeue, PrioritizeJob, ClaimNextSubJob, UpdateSubJobStatus,
      CreateWorker, CreateEphemeralWorker, UpdateWorkerHeartbeat, HeartbeatExpires,
      DeleteWorker, RecoverFailedWorkers, DeleteMediaItem, UpsertMediaItem, Tick, rows,
      storeVars

\* Every task is about rows that exist or did exist; if they still do, the sub-job is
\* taken.
TaskOK(t) == t.g <= gen[t.m] /\ (t.g = gen[t.m] => Taken(t.m, t.k))
LocalInv == LocalExclusive /\ \A t \in local : TaskOK(t)

LEMMA TaskStays ==
  ASSUME TypeOK, [Serving]_storeVars, NEW t \in local, TaskOK(t)
  PROVE  TaskOK(t)'
<1>1. t.m \in Media /\ t.k \in Kinds /\ t.g \in 0..MaxGen
  BY DEF TypeOK, LocalTask
<1>2. gen[t.m] \in Nat /\ gen'[t.m] \in Nat /\ gen'[t.m] >= gen[t.m]
  BY <1>1, RowsGrow DEF TypeOK
<1>3. t.g <= gen'[t.m]
  BY <1>1, <1>2, StoreAssumption DEF TaskOK
<1>4. ASSUME t.g = gen'[t.m]
      PROVE  Taken(t.m, t.k)'
  <2>1. t.g = gen[t.m] /\ SameRows(t.m)
    BY <1>1, <1>2, <1>4, StoreAssumption DEF TaskOK, SameRows
  <2>2. Taken(t.m, t.k)
    BY <2>1 DEF TaskOK
  <2>3. CASE Serving
    BY <1>1, <2>1, <2>2, <2>3, TakenStays DEF TypeOK
  <2>4. CASE UNCHANGED storeVars
    BY <2>2, <2>4 DEF Taken, storeVars
  <2>5. QED
    BY <2>3, <2>4
<1>5. QED
  BY <1>3, <1>4 DEF TaskOK

LEMMA LocalStep ==
  ASSUME TypeOK, LocalInv, [Next]_vars
  PROVE  LocalInv'
<1>1. CASE Restart
  BY <1>1 DEF Restart, LocalInv, LocalExclusive
<1>2. ASSUME ~Restart
      PROVE  [Serving]_storeVars
  BY <1>2, StepOfStore DEF TypeOK, CallsOK
<1>3. ASSUME ~Restart
      PROVE  \A t \in local : TaskOK(t)'
  BY <1>2, <1>3, TaskStays DEF LocalInv
<1>4. ASSUME NEW l \in Locals, LocalClaim(l), ~Restart
      PROVE  LocalInv'
  <2>1. PICK s \in NextSubJobs :
          /\ ClaimNextSubJob(s, NoWorker)
          /\ local' = local \cup {[l |-> l, m |-> s[1], k |-> s[2], g |-> gen[s[1]]]}
    BY <1>4 DEF LocalClaim
  <2> DEFINE new == [l |-> l, m |-> s[1], k |-> s[2], g |-> gen[s[1]]]
  <2>2. s[1] \in Media /\ s[2] \in Kinds /\ sub[s[1]][s[2]].status = "pending"
    BY DEF NextSubJobs, Claimable
  <2>3. \A t \in local : ~(t.m = new.m /\ t.k = new.k /\ t.g = new.g)
    BY <2>2 DEF LocalInv, TaskOK, Taken
  <2>4. LocalExclusive'
    BY <2>1, <2>3 DEF LocalInv, LocalExclusive
  <2>5. gen' = gen /\ sub'[s[1]][s[2]] = [status |-> "processing", owner |-> NoWorker]
    BY <2>1, <2>2 DEF ClaimNextSubJob, TypeOK, StoreTypeOK
  <2>6. Taken(s[1], s[2])'
    BY <2>5 DEF Taken
  <2>7. gen[s[1]] \in Nat
    BY <2>2, StoreAssumption DEF TypeOK, StoreTypeOK
  <2>8. ASSUME NEW t \in local'
        PROVE  TaskOK(t)'
    <3>1. CASE t \in local
      BY <1>3, <1>4, <3>1
    <3>2. CASE t = new
      <4>1. t.m = s[1] /\ t.k = s[2] /\ t.g = gen[s[1]]
        BY <3>2
      <4>2. t.g <= gen'[t.m] /\ Taken(s[1], s[2])'
        BY <4>1, <2>5, <2>6, <2>7
      <4> HIDE DEF new
      <4>3. QED
        BY <4>1, <4>2 DEF TaskOK, Taken
    <3>3. QED
      BY <2>1, <3>1, <3>2
  <2>9. QED
    BY <2>4, <2>8 DEF LocalInv
<1>5. CASE local' \subseteq local /\ ~Restart
  BY <1>3, <1>5 DEF LocalInv, LocalExclusive
<1>6. QED
  BY <1>1, <1>4, <1>5
  DEF Next, vars, calls, EnqueueRead, EnqueueWrite, EnqueueFails, EnqueueMark, LocalEnd,
      HeartbeatCount, HeartbeatTouch, HeartbeatClaim, HeartbeatEnd, HeartbeatFails,
      ReportCheck, ReportWrite, ReportFails, Monitor, StoreCall

LEMMA LocalInvariant == Spec => []LocalInv
<1>1. Init => LocalInv
  BY DEF Init, LocalInv, LocalExclusive
<1>2. QED
  BY <1>1, TypeCorrect, LocalStep, PTL DEF Spec

\* No two goroutines of the pool process the same sub-job, whatever happened to the
\* rows since they claimed it.
THEOREM LocalExclusiveAlways == Spec => []LocalExclusive
<1>1. LocalInv => LocalExclusive
  BY DEF LocalInv
<1>2. QED
  BY <1>1, LocalInvariant, PTL

\* What a goroutine processes is never put back in the queue under it.
THEOREM RunningNotClaimableAlways == Spec => []RunningNotClaimable
<1>1. TypeOK /\ LocalInv => RunningNotClaimable
  <2> SUFFICES ASSUME TypeOK, LocalInv, NEW t \in local, Current(t)
               PROVE  /\ sub[t.m][t.k].status \in {"processing"} \cup Ended
                      /\ <<t.m, t.k>> \notin Claimable
    BY DEF RunningNotClaimable
  <2>1. t.m \in Media /\ t.k \in Kinds
    BY DEF TypeOK, LocalTask
  <2>2. sub[t.m][t.k].status # "pending" /\ sub[t.m][t.k].status # "absent"
    BY DEF LocalInv, TaskOK, Taken, Current, SubExists
  <2>3. sub[t.m][t.k].status \in Status \cup {"absent"}
    BY <2>1, Columns, Zenon DEF TypeOK
  <2>4. QED
    BY <2>2, <2>3 DEF Claimable, Status, Ended
<1>2. QED
  BY <1>1, TypeCorrect, LocalInvariant, PTL

-----------------------------------------------------------------------------
(* Claims follow the order of the queue *)

\* Only a claim moves a sub-job from pending to processing.
LEMMA RowClaimed ==
  ASSUME StoreTypeOK, Serving, NEW m \in Media, NEW k \in Kinds,
         sub[m][k].status = "pending", sub'[m][k].status = "processing"
  PROVE  <<m, k>> \in NextSubJobs
<1>1. ASSUME NEW n \in Media, NEW P \in EligibleProfiles, NEW at \in 0..MaxClock,
             CreateTranscodeJob(n, P) \/ ResetTranscodeJob(n, at, P)
      PROVE  FALSE
  <2>1. sub' = [sub EXCEPT ![n] = NewSubs(P)]
    BY <1>1 DEF CreateTranscodeJob, ResetTranscodeJob, createSubJobsForJob
  <2>2. QED
    BY <2>1 DEF StoreTypeOK, NewSubs, PendingSub, NoSub
<1>2. ASSUME NEW s \in Media \X Kinds, NEW w \in Owners, ClaimNextSubJob(s, w)
      PROVE  <<m, k>> \in NextSubJobs
  <2>1. m = s[1] /\ k = s[2]
    BY <1>2 DEF ClaimNextSubJob, StoreTypeOK
  <2>2. s = <<m, k>>
    BY <2>1
  <2>3. QED
    BY <1>2, <2>2 DEF ClaimNextSubJob
<1>3. ASSUME NEW n \in Media, NEW i \in Kinds, NEW s \in Ended, UpdateSubJobStatus(n, i, s)
      PROVE  FALSE
  <2>1. sub[n][i] \in SubRow
    BY DEF StoreTypeOK
  <2>2. sub' = [sub EXCEPT ![n][i] = [sub[n][i] EXCEPT !.status = s]]
    BY <1>3 DEF UpdateSubJobStatus
  <2>3. CASE n = m /\ i = k
    BY <2>1, <2>2, <2>3, ColumnSet DEF StoreTypeOK, Ended
  <2>4. CASE n # m \/ i # k
    BY <2>2, <2>4 DEF StoreTypeOK
  <2>5. QED
    BY <2>3, <2>4
<1>4. ASSUME NEW w \in Workers, DeleteWorker(w)
      PROVE  FALSE
  <2>1. sub'[m][k] = [sub[m][k] EXCEPT !.owner = Detach(@, {w})] /\ sub[m][k] \in SubRow
    BY <1>4, ZenonT(60) DEF DeleteWorker, StoreTypeOK
  <2>2. QED
    BY <2>1, ColumnSet
<1>5. ASSUME RecoverFailedWorkers
      PROVE  FALSE
  <2> DEFINE d(S) == [sub[m][k] EXCEPT !.owner = Detach(@, S)]
  <2>1. \A S : d(S).status = "pending"
    BY ColumnSet DEF StoreTypeOK
  <2>2. \E F, S : sub'[m][k] = RequeuedSub(sub[m][k], F, S)
    BY <1>5 DEF RecoverFailedWorkers
  <2>3. sub'[m][k].status = "pending"
    BY <2>1, <2>2 DEF RequeuedSub
  <2>4. QED
    BY <2>3
<1>6. ASSUME NEW n \in Media, DeleteMediaItem(n)
      PROVE  FALSE
  <2>1. sub'[m][k] = sub[m][k] \/ sub'[m][k] = NoSub
    BY <1>6 DEF DeleteMediaItem, StoreTypeOK
  <2>2. QED
    BY <2>1 DEF NoSub
<1>7. CASE sub' = sub
  BY <1>7
<1>8. QED
  BY <1>1, <1>2, <1>3, <1>4, <1>5, <1>6, <1>7
  DEF Serving, SetMediaTranscodeStatus, BulkEnqueueUntranscoded, BulkEnqueueFailed,
      BulkEnqueueCompleted, BulkRequeue, PrioritizeJob, CreateWorker, CreateEphemeralWorker,
      UpdateWorkerHeartbeat, HeartbeatExpires, UpsertMediaItem, Tick, rows

\* No claim, by whomever and whatever was enqueued, reset or recovered meanwhile,
\* overtakes a claimable sub-job of a job of higher priority or of an older one.
THEOREM ClaimsInOrderAlways == Spec => ClaimsInOrder
<1> DEFINE Step ==
      \A m, n \in Media : \A j, k \in Kinds :
        sub[m][j].status = "pending" /\ sub'[m][j].status = "processing"
          /\ <<n, k>> \in Claimable
        => \/ job[n].priority < job[m].priority
           \/ job[n].priority = job[m].priority /\ job[m].created <= job[n].created
<1>1. ASSUME TypeOK, [Next]_vars
      PROVE  Step
  <2> SUFFICES ASSUME NEW m \in Media, NEW n \in Media, NEW j \in Kinds, NEW k \in Kinds,
                      sub[m][j].status = "pending", sub'[m][j].status = "processing",
                      <<n, k>> \in Claimable
               PROVE  \/ job[n].priority < job[m].priority
                      \/ job[n].priority = job[m].priority /\ job[m].created <= job[n].created
    OBVIOUS
  <2>1. /\ job[m].priority \in Nat /\ job[n].priority \in Nat
        /\ job[m].created \in Nat /\ job[n].created \in Nat
    BY <1>1, Columns, StoreAssumption DEF TypeOK
  <2>2. ~RecoverStaleJobs
    <3>1. ASSUME RecoverStaleJobs
          PROVE  sub'[m][j] = sub[m][j]
      BY <3>1 DEF RecoverStaleJobs
    <3>2. QED
      BY <3>1
  <2>3. Serving
    BY <1>1, <2>2, StepOfStore DEF TypeOK, CallsOK, storeVars
  <2>4. <<m, j>> \in NextSubJobs
    BY <1>1, <2>3, RowClaimed DEF TypeOK
  <2>5. ~ClaimedBefore(<<n, k>>, <<m, j>>)
    BY <2>4 DEF NextSubJobs
  <2>6. ~(job[n].priority > job[m].priority)
        /\ ~(job[n].priority = job[m].priority /\ job[n].created < job[m].created)
    BY <2>5 DEF ClaimedBefore
  <2>7. QED
    BY <2>1, <2>6
<1>2. QED
  BY <1>1, TypeCorrect, PTL DEF Spec, ClaimsInOrder

-----------------------------------------------------------------------------
(* What leaves a sub-job running with nobody to run it *)

\* Transactions other than claims make a running sub-job ownerless only by removing
\* the row of its owner.
LEMMA NewlyUnowned ==
  ASSUME StoreTypeOK, NEW m \in Media, NEW k \in Kinds,
         sub'[m][k].status = "processing", sub'[m][k].owner = NoWorker,
         \/ \E n \in Media, P \in EligibleProfiles, at \in 0..MaxClock :
              CreateTranscodeJob(n, P) \/ ResetTranscodeJob(n, at, P)
         \/ \E n \in Media, i \in Kinds, s \in Ended : UpdateSubJobStatus(n, i, s)
         \/ \E w \in Workers : DeleteWorker(w)
         \/ RecoverFailedWorkers
         \/ \E n \in Media : DeleteMediaItem(n)
         \/ sub' = sub /\ gen' = gen
  PROVE  \/ /\ gen'[m] = gen[m]
            /\ sub[m][k].status = "processing" /\ sub[m][k].owner = NoWorker
         \/ /\ sub[m][k].owner \in Workers
            /\ worker'[sub[m][k].owner].status = "deleted"
<1> DEFINE Same == /\ gen'[m] = gen[m]
                   /\ sub[m][k].status = "processing" /\ sub[m][k].owner = NoWorker
           Removed == /\ sub[m][k].owner \in Workers
                      /\ worker'[sub[m][k].owner].status = "deleted"
<1>0. sub[m][k] \in SubRow /\ sub[m][k].owner \in Owners
  BY Columns DEF StoreTypeOK
<1>1. ASSUME NEW n \in Media, NEW P \in EligibleProfiles, NEW at \in 0..MaxClock,
             CreateTranscodeJob(n, P) \/ ResetTranscodeJob(n, at, P)
      PROVE  Same
  <2>1. sub' = [sub EXCEPT ![n] = NewSubs(P)] /\ gen' = [gen EXCEPT ![n] = @ + 1]
    BY <1>1 DEF CreateTranscodeJob, ResetTranscodeJob, createSubJobsForJob
  <2>2. n # m
    BY <2>1 DEF StoreTypeOK, NewSubs, PendingSub, NoSub
  <2>3. QED
    BY <2>1, <2>2 DEF StoreTypeOK
<1>2. ASSUME NEW n \in Media, NEW i \in Kinds, NEW s \in Ended, UpdateSubJobStatus(n, i, s)
      PROVE  Same
  <2>1. sub[n][i] \in SubRow
    BY DEF StoreTypeOK
  <2>2. sub' = [sub EXCEPT ![n][i] = [sub[n][i] EXCEPT !.status = s]] /\ gen' = gen
    BY <1>2 DEF UpdateSubJobStatus
  <2>3. n # m \/ i # k
    BY <2>1, <2>2, ColumnSet DEF StoreTypeOK, Ended
  <2>4. QED
    BY <2>2, <2>3 DEF StoreTypeOK
<1>3. ASSUME NEW w \in Workers, DeleteWorker(w)
      PROVE  Same \/ Removed
  <2>1. /\ sub'[m][k] = [sub[m][k] EXCEPT !.owner = Detach(@, {w})]
        /\ gen' = gen /\ worker' = [worker EXCEPT ![w] = GoneWorker]
    BY <1>3 DEF DeleteWorker
  <2>2. sub'[m][k].status = sub[m][k].status /\ sub'[m][k].owner = Detach(sub[m][k].owner, {w})
    BY <1>0, <2>1, ColumnSet
  <2>3. sub[m][k].owner = w \/ sub[m][k].owner = NoWorker
    BY <2>2 DEF Detach
  <2>4. GoneWorker.status = "deleted"
    BY DEF GoneWorker, NewWorker
  <2>5. worker'[w].status = "deleted"
    BY <2>1, <2>4 DEF StoreTypeOK
  <2>6. QED
    BY <2>1, <2>2, <2>3, <2>5, Zenon
<1>4. ASSUME RecoverFailedWorkers
      PROVE  Same \/ Removed
  <2> DEFINE failed == FailedWorkers
             deleted == {w \in failed : worker[w].ephemeral}
             d == [sub[m][k] EXCEPT !.owner = Detach(@, deleted)]
  <2>1. d.status = sub[m][k].status /\ d.owner = Detach(sub[m][k].owner, deleted)
    BY <1>0, ColumnSet, SMTT(60)
  <2>2. sub'[m][k] = RequeuedSub(sub[m][k], failed, deleted) /\ gen' = gen
    BY <1>4 DEF RecoverFailedWorkers
  <2>3. sub'[m][k] = d
    BY <2>2 DEF RequeuedSub, PendingSub
  <2> HIDE DEF d
  <2>4. sub[m][k].owner = NoWorker \/ sub[m][k].owner \in deleted
    BY <2>1, <2>3, Zenon DEF Detach
  <2>5. \A w \in deleted : w \in Workers /\ worker'[w] = GoneWorker
    BY <1>4, Zenon DEF RecoverFailedWorkers, FailedWorkers
  <2>6. GoneWorker.status = "deleted"
    BY DEF GoneWorker, NewWorker
  <2>7. QED
    BY <2>1, <2>2, <2>3, <2>4, <2>5, <2>6
<1>5. ASSUME NEW n \in Media, DeleteMediaItem(n)
      PROVE  Same
  <2>1. /\ sub'[m][k] = sub[m][k] \/ sub'[m][k] = NoSub
        /\ gen' = gen
    BY <1>5 DEF DeleteMediaItem, StoreTypeOK
  <2>2. QED
    BY <2>1 DEF NoSub
<1>6. QED
  BY <1>1, <1>2, <1>3, <1>4, <1>5

\* Sub-jobs are orphaned by the removal of their worker's row, and by nothing else: no
\* crash, reset, failed claim, late report or recovery in any order does it.
THEOREM OrphansOnlyByRemovalAlways == Spec => OrphansOnlyByRemoval
<1> DEFINE Removed(m, k) == /\ sub[m][k].owner \in Workers
                            /\ worker'[sub[m][k].owner].status = "deleted"
           Step == \A m \in Media, k \in Kinds :
                     ~Orphan(m, k) /\ Orphan(m, k)' => Removed(m, k)
<1>1. ASSUME TypeOK, [Next]_vars
      PROVE  Step
  <2> SUFFICES ASSUME NEW m \in Media, NEW k \in Kinds, ~Orphan(m, k), Orphan(m, k)'
               PROVE  Removed(m, k)
    OBVIOUS
  <2>0. CallsOK /\ StoreTypeOK
    BY <1>1 DEF TypeOK, CallsOK
  <2>1. /\ sub'[m][k].status = "processing" /\ sub'[m][k].owner = NoWorker
        /\ ~\E t \in local' : t.m = m /\ t.k = k /\ t.g = gen'[m]
    BY DEF Orphan
  <2>2. ASSUME NEW t \in local, t.m = m, t.k = k, t.g = gen[m],
               gen'[m] = gen[m], sub[m][k].status = "processing"
        PROVE  \E s \in Ended : LocalEnd(t, s) /\ UpdateSubJobStatus(m, k, s)
    <3>1. t \notin local'
      BY <2>1, <2>2
    <3>2. ~Restart
      <4>1. ASSUME Restart
            PROVE  sub'[m][k].status # "processing"
        BY <4>1, <2>0, ColumnSet DEF Restart, RecoverStaleJobs, StoreTypeOK
      <4>2. QED
        BY <4>1, <2>1
    <3>3. PICK u \in local, s \in Ended : LocalEnd(u, s)
      BY <1>1, <3>1, <3>2
      DEF Next, vars, calls, EnqueueRead, EnqueueWrite, EnqueueFails, EnqueueMark, LocalClaim,
          HeartbeatCount, HeartbeatTouch, HeartbeatClaim, HeartbeatEnd, HeartbeatFails,
          ReportCheck, ReportWrite, ReportFails, Monitor, StoreCall
    <3>4. u = t
      BY <3>1, <3>3 DEF LocalEnd
    <3>5. Current(t)
      BY <2>2 DEF Current, SubExists
    <3>6. QED
      BY <2>2, <3>3, <3>4, <3>5 DEF LocalEnd
  <2>3. ASSUME NEW s \in Ended, UpdateSubJobStatus(m, k, s)
        PROVE  FALSE
    <3>1. sub' = [sub EXCEPT ![m][k] = [sub[m][k] EXCEPT !.status = s]] /\ sub[m][k] \in SubRow
      BY <2>0, <2>3 DEF UpdateSubJobStatus, StoreTypeOK
    <3>2. QED
      BY <2>0, <2>1, <3>1, ColumnSet DEF StoreTypeOK, Ended
  <2>4. ~(/\ gen'[m] = gen[m]
          /\ sub[m][k].status = "processing" /\ sub[m][k].owner = NoWorker)
    BY <2>2, <2>3 DEF Orphan
  <2>5. ASSUME \/ \E n \in Media, P \in EligibleProfiles, at \in 0..MaxClock :
                    CreateTranscodeJob(n, P) \/ ResetTranscodeJob(n, at, P)
               \/ \E n \in Media, i \in Kinds, s \in Ended : UpdateSubJobStatus(n, i, s)
               \/ \E w \in Workers : DeleteWorker(w)
               \/ RecoverFailedWorkers
               \/ \E n \in Media : DeleteMediaItem(n)
               \/ sub' = sub /\ gen' = gen
        PROVE  Removed(m, k)
    BY <2>0, <2>1, <2>4, <2>5, NewlyUnowned
  <2>6. ASSUME NEW l \in Locals, LocalClaim(l)
        PROVE  FALSE
    <3>1. PICK s \in NextSubJobs :
            /\ ClaimNextSubJob(s, NoWorker)
            /\ local' = local \cup {[l |-> l, m |-> s[1], k |-> s[2], g |-> gen[s[1]]]}
      BY <2>6 DEF LocalClaim
    <3>2. gen' = gen /\ (sub'[m][k] = sub[m][k] \/ (s[1] = m /\ s[2] = k))
      BY <2>0, <3>1 DEF ClaimNextSubJob, StoreTypeOK
    <3>3. ASSUME s[1] = m, s[2] = k
          PROVE  FALSE
      <4> DEFINE new == [l |-> l, m |-> s[1], k |-> s[2], g |-> gen[s[1]]]
      <4>1. new \in local'
        BY <3>1
      <4>2. new.m = m /\ new.k = k /\ new.g = gen'[m]
        BY <3>2, <3>3
      <4> HIDE DEF new
      <4>3. QED
        BY <2>1, <4>1, <4>2
    <3>4. QED
      BY <2>1, <2>4, <3>2, <3>3
  <2>7. ASSUME NEW x \in beat, HeartbeatClaim(x)
        PROVE  FALSE
    <3>1. PICK s \in NextSubJobs : ClaimNextSubJob(s, x.w)
      BY <2>7 DEF HeartbeatClaim
    <3>2. x.w # NoWorker
      BY <2>0, CallFields, StoreAssumption
    <3>3. gen' = gen /\ (sub'[m][k] = sub[m][k] \/ sub'[m][k].owner = x.w)
      BY <2>0, <3>1 DEF ClaimNextSubJob, StoreTypeOK
    <3>4. QED
      BY <2>1, <2>4, <3>2, <3>3
  <2>8. ASSUME Restart
        PROVE  FALSE
    <3>1. sub'[m][k].status # "processing"
      BY <2>8, <2>0, ColumnSet DEF Restart, RecoverStaleJobs, StoreTypeOK
    <3>2. QED
      BY <2>1, <3>1
  <2>9. ASSUME NEW x \in enq, EnqueueWrite(x)
        PROVE  Removed(m, k)
    BY <2>0, <2>5, <2>9, CallFields DEF EnqueueWrite
  <2>10. ASSUME NEW t \in local, NEW s \in Ended, LocalEnd(t, s)
         PROVE  Removed(m, k)
    BY <2>0, <2>5, <2>10, CallFields DEF LocalEnd, storeVars
  <2>11. ASSUME NEW x \in rep, ReportWrite(x)
         PROVE  Removed(m, k)
    BY <2>0, <2>5, <2>11, CallFields, Zenon DEF ReportWrite, storeVars
  <2>12. ASSUME StoreCall
         PROVE  Removed(m, k)
    BY <2>5, <2>12
    DEF StoreCall, BulkEnqueueUntranscoded, BulkEnqueueFailed, BulkEnqueueCompleted,
        BulkRequeue, PrioritizeJob, CreateWorker, CreateEphemeralWorker, HeartbeatExpires,
        UpsertMediaItem, Tick, rows
  <2>13. CASE Monitor
    BY <2>5, <2>13 DEF Monitor
  <2>14. CASE sub' = sub /\ gen' = gen
    BY <2>5, <2>14
  <2>15. QED
    BY <1>1, <2>6, <2>7, <2>8, <2>9, <2>10, <2>11, <2>12, <2>13, <2>14
    DEF Next, vars, storeVars, EnqueueRead, EnqueueFails, EnqueueMark, SetMediaTranscodeStatus,
        HeartbeatCount, HeartbeatTouch, HeartbeatEnd, HeartbeatFails, UpdateWorkerHeartbeat,
        ReportCheck, ReportFails
<1>2. QED
  BY <1>1, TypeCorrect, PTL DEF Spec, OrphansOnlyByRemoval

-----------------------------------------------------------------------------
(* What a remote worker is given beyond its threads.  The count and the    *)
(* claim are two statements of Heartbeat, and each request that counted    *)
(* may still claim: the sub-jobs held and the claims to come are counted   *)
(* together, so that a claim moves one from the second to the first.       *)

\* The sub-jobs that ActiveCount counts.
Held(w) == {s \in Media \X Kinds : /\ sub[s[1]][s[2]].status = "processing"
                                   /\ sub[s[1]][s[2]].owner = w}

Most == Threads + Cardinality(Slots) - 1
Within(w) == Cardinality(Held(w)) + Cardinality(WithRoom(w)) <= Most

\* A slot serves one request; a heartbeat without room does not come to its claim.
OneEach == \A x, y \in beat : x.c = y.c => x = y
ClaimsHaveRoom == \A x \in beat : x.pc = "claim" => x.room

ThreadsInv ==
  /\ OneEach
  /\ ClaimsHaveRoom
  /\ \A w \in Workers : IsFiniteSet(Held(w)) /\ Within(w)

\* Only a claim in its name gives a worker something to run.
LEMMA HeldRow ==
  ASSUME StoreTypeOK, NEW w \in Workers, NEW m \in Media, NEW k \in Kinds,
         sub'[m][k].status = "processing", sub'[m][k].owner = w,
         \/ \E n \in Media, P \in EligibleProfiles, at \in 0..MaxClock :
              CreateTranscodeJob(n, P) \/ ResetTranscodeJob(n, at, P)
         \/ \E s \in Media \X Kinds : ClaimNextSubJob(s, NoWorker)
         \/ \E n \in Media, i \in Kinds, s \in Ended : UpdateSubJobStatus(n, i, s)
         \/ \E v \in Workers : DeleteWorker(v)
         \/ RecoverFailedWorkers
         \/ RecoverStaleJobs
         \/ \E n \in Media : DeleteMediaItem(n)
         \/ sub' = sub
  PROVE  sub[m][k].status = "processing" /\ sub[m][k].owner = w
<1> DEFINE Before == sub[m][k].status = "processing" /\ sub[m][k].owner = w
<1>0. sub[m][k] \in SubRow /\ w # NoWorker
  BY StoreAssumption DEF StoreTypeOK
<1>1. ASSUME NEW n \in Media, NEW P \in EligibleProfiles, NEW at \in 0..MaxClock,
             CreateTranscodeJob(n, P) \/ ResetTranscodeJob(n, at, P)
      PROVE  Before
  <2>1. sub' = [sub EXCEPT ![n] = NewSubs(P)]
    BY <1>1 DEF CreateTranscodeJob, ResetTranscodeJob, createSubJobsForJob
  <2>2. n # m
    BY <2>1 DEF StoreTypeOK, NewSubs, PendingSub, NoSub
  <2>3. QED
    BY <2>1, <2>2 DEF StoreTypeOK
<1>2. ASSUME NEW s \in Media \X Kinds, ClaimNextSubJob(s, NoWorker)
      PROVE  Before
  <2>1. sub'[m][k] = sub[m][k] \/ sub'[m][k].owner = NoWorker
    BY <1>2 DEF ClaimNextSubJob, StoreTypeOK
  <2>2. QED
    BY <1>0, <2>1
<1>3. ASSUME NEW n \in Media, NEW i \in Kinds, NEW s \in Ended, UpdateSubJobStatus(n, i, s)
      PROVE  Before
  <2>1. sub[n][i] \in SubRow
    BY DEF StoreTypeOK
  <2>2. sub' = [sub EXCEPT ![n][i] = [sub[n][i] EXCEPT !.status = s]]
    BY <1>3 DEF UpdateSubJobStatus
  <2>3. n # m \/ i # k
    BY <2>1, <2>2, ColumnSet DEF StoreTypeOK, Ended
  <2>4. QED
    BY <2>2, <2>3 DEF StoreTypeOK
<1>4. ASSUME NEW v \in Workers, DeleteWorker(v)
      PROVE  Before
  <2>1. sub'[m][k] = [sub[m][k] EXCEPT !.owner = Detach(@, {v})]
    BY <1>4 DEF DeleteWorker
  <2>2. sub'[m][k].status = sub[m][k].status /\ sub'[m][k].owner = Detach(sub[m][k].owner, {v})
    BY <1>0, <2>1, ColumnSet
  <2>3. QED
    BY <1>0, <2>2, Zenon DEF Detach
<1>5. ASSUME RecoverFailedWorkers
      PROVE  Before
  <2> DEFINE failed == FailedWorkers
             deleted == {v \in failed : worker[v].ephemeral}
             d == [sub[m][k] EXCEPT !.owner = Detach(@, deleted)]
  <2>1. d.status = sub[m][k].status /\ d.owner = Detach(sub[m][k].owner, deleted)
    BY <1>0, ColumnSet, SMTT(60)
  <2>2. sub'[m][k] = RequeuedSub(sub[m][k], failed, deleted)
    BY <1>5 DEF RecoverFailedWorkers
  <2>3. sub'[m][k] = d
    BY <2>2 DEF RequeuedSub, PendingSub
  <2> HIDE DEF d
  <2>4. QED
    BY <1>0, <2>1, <2>3 DEF Detach
<1>6. ASSUME RecoverStaleJobs
      PROVE  FALSE
  BY <1>0, <1>6, ColumnSet DEF RecoverStaleJobs, StoreTypeOK
<1>7. ASSUME NEW n \in Media, DeleteMediaItem(n)
      PROVE  Before
  <2>1. sub'[m][k] = sub[m][k] \/ sub'[m][k] = NoSub
    BY <1>7 DEF DeleteMediaItem, StoreTypeOK
  <2>2. QED
    BY <2>1 DEF NoSub
<1>8. QED
  BY <1>1, <1>2, <1>3, <1>4, <1>5, <1>6, <1>7

\* Steps of the queue other than the claim of a heartbeat give no worker anything.
LEMMA HeldShrinks ==
  ASSUME TypeOK, [Next]_vars, ~\E x \in beat : HeartbeatClaim(x), NEW w \in Workers
  PROVE  Held(w)' \subseteq Held(w)
<1>0. CallsOK /\ StoreTypeOK
  BY DEF TypeOK, CallsOK
<1> DEFINE Transaction ==
         \/ \E n \in Media, P \in EligibleProfiles, at \in 0..MaxClock :
              CreateTranscodeJob(n, P) \/ ResetTranscodeJob(n, at, P)
         \/ \E s \in Media \X Kinds : ClaimNextSubJob(s, NoWorker)
         \/ \E n \in Media, i \in Kinds, s \in Ended : UpdateSubJobStatus(n, i, s)
         \/ \E v \in Workers : DeleteWorker(v)
         \/ RecoverFailedWorkers
         \/ RecoverStaleJobs
         \/ \E n \in Media : DeleteMediaItem(n)
         \/ sub' = sub
<1>1. ASSUME NEW x \in enq, EnqueueWrite(x)
      PROVE  Transaction
  BY <1>0, <1>1, CallFields DEF EnqueueWrite
<1>2. ASSUME NEW l \in Locals, LocalClaim(l)
      PROVE  Transaction
  BY <1>2 DEF LocalClaim, NextSubJobs, Claimable
<1>3. ASSUME NEW t \in local, NEW s \in Ended, LocalEnd(t, s)
      PROVE  Transaction
  BY <1>0, <1>3, CallFields DEF LocalEnd, storeVars
<1>4. ASSUME NEW x \in rep, ReportWrite(x)
      PROVE  Transaction
  BY <1>0, <1>4, CallFields, Zenon DEF ReportWrite, storeVars
<1>5. ASSUME StoreCall
      PROVE  Transaction
  BY <1>5
  DEF StoreCall, BulkEnqueueUntranscoded, BulkEnqueueFailed, BulkEnqueueCompleted,
      BulkRequeue, PrioritizeJob, CreateWorker, CreateEphemeralWorker, HeartbeatExpires,
      UpsertMediaItem, Tick, rows
<1>6. Restart => Transaction
  BY DEF Restart
<1>7. Monitor => Transaction
  BY DEF Monitor
<1>8. sub' = sub => Transaction
  OBVIOUS
<1>9. Transaction
  <2> HIDE DEF Transaction
  <2>1. QED
    BY <1>1, <1>2, <1>3, <1>4, <1>5, <1>6, <1>7, <1>8
    DEF Next, vars, storeVars, EnqueueRead, EnqueueFails, EnqueueMark, SetMediaTranscodeStatus,
        HeartbeatCount, HeartbeatTouch, HeartbeatEnd, HeartbeatFails, UpdateWorkerHeartbeat,
        ReportCheck, ReportFails
<1>10. ASSUME NEW m \in Media, NEW k \in Kinds,
              sub'[m][k].status = "processing", sub'[m][k].owner = w
       PROVE  sub[m][k].status = "processing" /\ sub[m][k].owner = w
  BY <1>0, <1>9, <1>10, HeldRow
<1>11. QED
  BY <1>10 DEF Held

\* A claim gives its worker the one sub-job, and the others nothing.
LEMMA HeldClaimed ==
  ASSUME TypeOK, NEW x \in beat, HeartbeatClaim(x)
  PROVE  /\ x.w \in Workers
         /\ \E s : Held(x.w)' \subseteq Held(x.w) \cup {s}
         /\ \A w \in Workers \ {x.w} : Held(w)' \subseteq Held(w)
<1>1. x.w \in Workers
  BY DEF TypeOK, BeatCall
<1>2. PICK s \in NextSubJobs : ClaimNextSubJob(s, x.w)
  BY DEF HeartbeatClaim
<1>3. s \in Media \X Kinds
  BY DEF NextSubJobs, Claimable
<1>4. \A m \in Media, k \in Kinds :
        sub'[m][k] = sub[m][k] \/ (m = s[1] /\ k = s[2] /\ sub'[m][k].owner = x.w)
  BY <1>2, <1>3 DEF ClaimNextSubJob, TypeOK, StoreTypeOK
<1>5. \A t \in Media \X Kinds : t[1] = s[1] /\ t[2] = s[2] => t = s
  BY <1>3
<1>6. Held(x.w)' \subseteq Held(x.w) \cup {s}
  BY <1>4, <1>5 DEF Held
<1>7. \A w \in Workers \ {x.w} : Held(w)' \subseteq Held(w)
  BY <1>4 DEF Held
<1>8. QED
  BY <1>1, <1>6, <1>7

LEMMA HeldIsCounted == \A w : ActiveCount(w) = Cardinality(Held(w))
  BY DEF ActiveCount, Held

LEMMA MostIsNumber == Most \in Int /\ Cardinality(Slots) \in Nat /\ Cardinality(Slots) # 0
  BY FS_CardinalityType, FS_EmptySet, QueueAssumption DEF Most

\* No more heartbeats are served than there are slots.
LEMMA RoomIsBounded ==
  ASSUME NEW B \in SUBSET BeatCall, \A x, y \in B : x.c = y.c => x = y, NEW R \in SUBSET B
  PROVE  /\ IsFiniteSet(R) /\ Cardinality(R) \in Nat
         /\ Cardinality(R) <= Cardinality(Slots)
<1>1. PICK f : f = [x \in R |-> x.c]
  OBVIOUS
<1>2. f \in [R -> Slots]
  BY <1>1 DEF BeatCall
<1>3. \A x, y \in R : f[x] = f[y] => x = y
  BY <1>1
<1>4. f \in Injection(R, Slots)
  BY <1>2, <1>3 DEF Injection, IsInjective
<1>5. IsFiniteSet(R) /\ Cardinality(R) <= Cardinality(Slots)
  BY <1>4, FS_Injection, QueueAssumption
<1>6. QED
  BY <1>5, FS_CardinalityType

LEMMA SmallerSum ==
  ASSUME NEW H, IsFiniteSet(H), NEW R, IsFiniteSet(R), NEW N \in Int,
         Cardinality(H) + Cardinality(R) <= N,
         NEW G \in SUBSET H, NEW Q, IsFiniteSet(Q), Cardinality(Q) <= Cardinality(R)
  PROVE  IsFiniteSet(G) /\ Cardinality(G) + Cardinality(Q) <= N
<1>1. IsFiniteSet(G) /\ Cardinality(G) <= Cardinality(H)
  BY FS_Subset
<1>2. /\ Cardinality(G) \in Nat /\ Cardinality(H) \in Nat
      /\ Cardinality(Q) \in Nat /\ Cardinality(R) \in Nat
  BY <1>1, FS_CardinalityType
<1>3. QED
  BY <1>1, <1>2

LEMMA OneForOne ==
  ASSUME NEW R, IsFiniteSet(R), NEW x \in R, NEW y, NEW Q \in SUBSET ((R \ {x}) \cup {y})
  PROVE  IsFiniteSet(Q) /\ Cardinality(Q) <= Cardinality(R)
<1>1. PICK S : S = R \ {x}
  OBVIOUS
<1>2. IsFiniteSet(S) /\ Cardinality(S) = Cardinality(R) - 1
  BY <1>1, FS_RemoveElement
<1>3. PICK T : T = S \cup {y}
  OBVIOUS
<1>4. IsFiniteSet(T) /\ Cardinality(T) <= Cardinality(S) + 1
  <2>1. Cardinality(S) \in Nat
    BY <1>2, FS_CardinalityType
  <2>2. /\ IsFiniteSet(S \cup {y})
        /\ Cardinality(S \cup {y}) = IF y \in S THEN Cardinality(S) ELSE Cardinality(S) + 1
    BY <1>2, FS_AddElement
  <2>3. QED
    BY <1>3, <2>1, <2>2
<1>5. IsFiniteSet(Q) /\ Cardinality(Q) <= Cardinality(T)
  BY <1>1, <1>3, <1>4, FS_Subset
<1>6. Cardinality(Q) \in Nat /\ Cardinality(T) \in Nat /\ Cardinality(R) \in Nat
  BY <1>4, <1>5, FS_CardinalityType
<1>7. QED
  BY <1>2, <1>4, <1>5, <1>6

\* Every other step leaves the heartbeats, or some of them.
LEMMA BeatKinds ==
  ASSUME [Next]_vars
  PROVE  \/ \E c \in Slots, w \in Workers : HeartbeatCount(c, w)
         \/ \E x \in beat : HeartbeatTouch(x)
         \/ \E x \in beat : HeartbeatClaim(x)
         \/ beat' \subseteq beat
  BY DEF Next, vars, calls, EnqueueRead, EnqueueWrite, EnqueueFails, EnqueueMark, LocalClaim,
         LocalEnd, HeartbeatEnd, HeartbeatFails, ReportCheck, ReportWrite, ReportFails,
         Restart, Monitor, StoreCall

\* A heartbeat that goes on to its next statement.
LEMMA BeatGoes ==
  ASSUME beat \subseteq BeatCall, NEW x \in beat, NEW pc \in {"claim", "claimed"}, NEW y,
         y = [x EXCEPT !.pc = pc]
  PROVE  y.c = x.c /\ y.w = x.w /\ y.room = x.room /\ y.pc = pc
  BY DEF BeatCall

LEMMA BeatsStep ==
  ASSUME TypeOK, OneEach, ClaimsHaveRoom, [Next]_vars
  PROVE  OneEach' /\ ClaimsHaveRoom'
<1>0. beat \subseteq BeatCall
  BY DEF TypeOK
<1>1. ASSUME NEW c \in Slots, NEW w \in Workers, HeartbeatCount(c, w)
      PROVE  OneEach' /\ ClaimsHaveRoom'
  <2>1. PICK y : y = [c |-> c, w |-> w, pc |-> "touch", room |-> ActiveCount(w) < Threads]
    BY Zenon
  <2>2. beat' = beat \cup {y} /\ \A x \in beat : x.c # c
    BY <1>1, <2>1 DEF HeartbeatCount, Free
  <2>3. y.c = c /\ y.pc = "touch"
    BY <2>1
  <2>4. QED
    BY <2>2, <2>3 DEF OneEach, ClaimsHaveRoom
<1>2. ASSUME NEW x \in beat, HeartbeatTouch(x)
      PROVE  OneEach' /\ ClaimsHaveRoom'
  <2>1. PICK y : y = [x EXCEPT !.pc = "claim"]
    BY Zenon
  <2>2. y.c = x.c /\ y.room = x.room
    BY <1>0, <2>1, BeatGoes
  <2>3. beat' = (beat \ {x}) \cup (IF x.room THEN {y} ELSE {})
    BY <1>2, <2>1 DEF HeartbeatTouch
  <2>4. QED
    BY <2>2, <2>3 DEF OneEach, ClaimsHaveRoom
<1>3. ASSUME NEW x \in beat, HeartbeatClaim(x)
      PROVE  OneEach' /\ ClaimsHaveRoom'
  <2>1. PICK y : y = [x EXCEPT !.pc = "claimed"]
    BY Zenon
  <2>2. y.c = x.c /\ y.pc = "claimed"
    BY <1>0, <2>1, BeatGoes
  <2>3. beat' = (beat \ {x}) \cup {y}
    BY <1>3, <2>1 DEF HeartbeatClaim
  <2>4. QED
    BY <2>2, <2>3 DEF OneEach, ClaimsHaveRoom
<1>4. CASE beat' \subseteq beat
  BY <1>4 DEF OneEach, ClaimsHaveRoom
<1>5. QED
  BY <1>1, <1>2, <1>3, <1>4, BeatKinds

LEMMA ThreadsStep ==
  ASSUME TypeOK, ThreadsInv, [Next]_vars, NEW w \in Workers
  PROVE  IsFiniteSet(Held(w)') /\ Within(w)'
<1>0. /\ beat \subseteq BeatCall /\ beat' \subseteq BeatCall
      /\ OneEach /\ OneEach' /\ ClaimsHaveRoom
      /\ IsFiniteSet(Held(w)) /\ Cardinality(Held(w)) \in Nat /\ Within(w)
  <2>1. beat \subseteq BeatCall /\ OneEach /\ ClaimsHaveRoom /\ IsFiniteSet(Held(w)) /\ Within(w)
    BY DEF TypeOK, ThreadsInv
  <2>2. beat' \subseteq BeatCall
    BY CallsStep DEF CallsOK
  <2>3. QED
    BY <2>1, <2>2, BeatsStep, FS_CardinalityType
<1>1. PICK H, R, G, Q : H = Held(w) /\ R = WithRoom(w) /\ G = Held(w)' /\ Q = WithRoom(w)'
  OBVIOUS
<1>2. /\ IsFiniteSet(R) /\ Cardinality(R) \in Nat
      /\ IsFiniteSet(Q) /\ Cardinality(Q) \in Nat /\ Cardinality(Q) <= Cardinality(Slots)
  <2>1. PICK B, C \in SUBSET BeatCall : B = beat /\ C = beat'
    BY <1>0
  <2>2. R \subseteq B /\ Q \subseteq C
    BY <1>1, <2>1 DEF WithRoom
  <2>3. (\A x, y \in B : x.c = y.c => x = y) /\ (\A x, y \in C : x.c = y.c => x = y)
    BY <1>0, <2>1 DEF OneEach
  <2>4. QED
    BY <2>2, <2>3, RoomIsBounded
<1>3. Cardinality(H) + Cardinality(R) <= Most /\ Most \in Int
  BY <1>0, <1>1, MostIsNumber DEF Within
<1>4. ASSUME IsFiniteSet(G), Cardinality(G) + Cardinality(Q) <= Most
      PROVE  IsFiniteSet(Held(w)') /\ Within(w)'
  <2>1. Within(w)' <=> Cardinality(Held(w)') + Cardinality(WithRoom(w)') <= Most
    BY DEF Within, Most
  <2>2. QED
    BY <1>1, <1>4, <2>1
<1>5. ASSUME NEW x \in beat, HeartbeatClaim(x)
      PROVE  IsFiniteSet(G) /\ Cardinality(G) + Cardinality(Q) <= Most
  <2>1. PICK y : y = [x EXCEPT !.pc = "claimed"]
    BY Zenon
  <2>2. y.w = x.w /\ y.pc = "claimed"
    BY <1>0, <2>1, BeatGoes
  <2>3. beat' = (beat \ {x}) \cup {y}
    BY <1>5, <2>1 DEF HeartbeatClaim
  <2>4. Q \subseteq R \ {x}
    BY <1>1, <2>2, <2>3 DEF WithRoom
  <2>5. CASE w = x.w
    <3>1. PICK s : G \subseteq H \cup {s}
      BY <1>1, <1>5, <2>5, HeldClaimed DEF Held
    <3>2. x \in R
      BY <1>0, <1>1, <1>5, <2>5 DEF WithRoom, ClaimsHaveRoom, HeartbeatClaim
    <3>3. PICK S : S = R \ {x}
      OBVIOUS
    <3>4. IsFiniteSet(S) /\ Cardinality(S) = Cardinality(R) - 1
      BY <1>2, <3>2, <3>3, FS_RemoveElement
    <3>5. Cardinality(Q) <= Cardinality(S)
      BY <2>4, <3>3, <3>4, FS_Subset
    <3>6. PICK T : T = H \cup {s}
      OBVIOUS
    <3>7. IsFiniteSet(T) /\ Cardinality(T) <= Cardinality(H) + 1 /\ Cardinality(H) \in Nat
      BY <1>0, <1>1, <3>6, FS_AddElement
    <3>8. IsFiniteSet(G) /\ Cardinality(G) <= Cardinality(T)
      BY <3>1, <3>6, <3>7, FS_Subset
    <3>9. Cardinality(G) \in Nat /\ Cardinality(T) \in Nat
      BY <3>7, <3>8, FS_CardinalityType
    <3>10. QED
      BY <1>2, <1>3, <3>4, <3>5, <3>7, <3>8, <3>9
  <2>6. CASE w # x.w
    <3>1. G \subseteq H
      BY <1>1, <1>5, <2>6, HeldClaimed
    <3>2. Cardinality(Q) <= Cardinality(R)
      BY <1>2, <2>4, FS_Subset
    <3>3. QED
      BY <1>0, <1>1, <1>2, <1>3, <3>1, <3>2, SmallerSum
  <2>7. QED
    BY <2>5, <2>6
<1>6. ASSUME ~\E x \in beat : HeartbeatClaim(x)
      PROVE  IsFiniteSet(G) /\ Cardinality(G) + Cardinality(Q) <= Most
  <2>1. G \subseteq H
    BY <1>1, <1>6, HeldShrinks
  <2>2. CASE Cardinality(Q) <= Cardinality(R)
    BY <1>0, <1>1, <1>2, <1>3, <2>1, <2>2, SmallerSum
  <2>3. ASSUME NEW c \in Slots, NEW v \in Workers, HeartbeatCount(c, v), ~(Q \subseteq R)
        PROVE  IsFiniteSet(G) /\ Cardinality(G) + Cardinality(Q) <= Most
    <3>1. PICK y : y = [c |-> c, w |-> v, pc |-> "touch", room |-> ActiveCount(v) < Threads]
      BY Zenon
    <3>2. y.w = v /\ y.room = (ActiveCount(v) < Threads)
      BY <3>1
    <3>3. beat' = beat \cup {y}
      BY <2>3, <3>1 DEF HeartbeatCount
    <3>4. w = v /\ y.room
      BY <1>1, <2>3, <3>2, <3>3 DEF WithRoom
    <3>5. Cardinality(H) < Threads
      BY <1>1, <3>2, <3>4, HeldIsCounted
    <3>6. IsFiniteSet(G) /\ Cardinality(G) <= Cardinality(H) /\ Cardinality(H) \in Nat
      BY <1>0, <1>1, <2>1, FS_Subset
    <3>7. Cardinality(G) \in Nat
      BY <3>6, FS_CardinalityType
    <3>8. QED
      BY <1>2, <3>5, <3>6, <3>7, MostIsNumber, QueueAssumption DEF Most
  <2>4. ASSUME NEW x \in beat, HeartbeatTouch(x)
        PROVE  Cardinality(Q) <= Cardinality(R)
    <3>1. PICK y : y = [x EXCEPT !.pc = "claim"]
      BY Zenon
    <3>2. y.w = x.w /\ y.room = x.room
      BY <1>0, <3>1, BeatGoes
    <3>3. beat' = (beat \ {x}) \cup (IF x.room THEN {y} ELSE {}) /\ x.pc = "touch"
      BY <2>4, <3>1 DEF HeartbeatTouch
    <3>4. CASE x.w = w /\ x.room
      <4>1. x \in R
        BY <1>1, <3>3, <3>4 DEF WithRoom
      <4>2. Q \subseteq (R \ {x}) \cup {y}
        BY <1>1, <3>3, <3>4 DEF WithRoom
      <4>3. QED
        BY <1>2, <4>1, <4>2, OneForOne
    <3>5. CASE ~(x.w = w /\ x.room)
      <4>1. Q \subseteq R
        BY <1>1, <3>2, <3>3, <3>5 DEF WithRoom
      <4>2. QED
        BY <1>2, <4>1, FS_Subset
    <3>6. QED
      BY <3>4, <3>5
  <2>5. CASE beat' \subseteq beat
    <3>1. Q \subseteq R
      BY <1>1, <2>5 DEF WithRoom
    <3>2. QED
      BY <1>2, <2>2, <3>1, FS_Subset
  <2>6. CASE Q \subseteq R
    BY <1>2, <2>2, <2>6, FS_Subset
  <2>7. QED
    BY <1>6, <2>2, <2>3, <2>4, <2>5, <2>6, BeatKinds
<1>7. QED
  BY <1>4, <1>5, <1>6

\* A worker never holds more sub-jobs than its threads and the heartbeats that overlap
\* allow, however many workers, jobs and requests there are, and whatever crashes, resets,
\* deletions and recoveries come between the count of a heartbeat and its claim.
THEOREM OverlapWithinThreads == Spec => []WithinThreads
<1>1. Init => ThreadsInv
  <2>1. ASSUME Init, NEW w \in Workers
        PROVE  Held(w) = {} /\ WithRoom(w) = {}
    BY <2>1 DEF Init, StoreInit, Held, WithRoom, NoSub
  <2>2. 0 + 0 <= Most
    BY MostIsNumber, QueueAssumption DEF Most
  <2>3. ASSUME Init
        PROVE  ThreadsInv
    BY <2>1, <2>2, <2>3, FS_EmptySet DEF Init, ThreadsInv, Within, OneEach, ClaimsHaveRoom
  <2>4. QED
    BY <2>3
<1>2. TypeOK /\ ThreadsInv /\ [Next]_vars => ThreadsInv'
  <2> SUFFICES ASSUME TypeOK, ThreadsInv, [Next]_vars
               PROVE  ThreadsInv'
    OBVIOUS
  <2>1. OneEach' /\ ClaimsHaveRoom'
    BY BeatsStep DEF ThreadsInv
  <2>2. \A w \in Workers : IsFiniteSet(Held(w)') /\ Within(w)'
    BY ThreadsStep
  <2>3. QED
    BY <2>1, <2>2 DEF ThreadsInv
<1>3. ThreadsInv => WithinThreads
  BY HeldIsCounted DEF ThreadsInv, Within, Most, WithinThreads
<1>4. QED
  BY <1>1, <1>2, <1>3, TypeCorrect, PTL DEF Spec

\* A job that was just prioritised comes before every sub-job of the other waiting
\* jobs, whatever priorities earlier calls and bulk enqueues gave them.
THEOREM PrioritizedFirstAlways == Spec => PrioritizedFirst
<1> DEFINE Step ==
      \A m \in Media : PrioritizeJob(m) =>
        \A n \in Media \ {m}, j, k \in Kinds :
          job[n].status = "pending" /\ <<m, k>> \in Claimable' /\ <<n, j>> \in Claimable'
            => ClaimedBefore(<<m, k>>, <<n, j>>)'
<1>1. ASSUME TypeOK
      PROVE  Step
  <2> SUFFICES ASSUME NEW m \in Media, PrioritizeJob(m), NEW n \in Media \ {m},
                      NEW j \in Kinds, NEW k \in Kinds, job[n].status = "pending"
               PROVE  ClaimedBefore(<<m, k>>, <<n, j>>)'
    OBVIOUS
  <2>1. PICK p \in 1..MaxPriority : AbovePending(m, p) /\ job' = [job EXCEPT ![m].priority = p]
    BY DEF PrioritizeJob
  <2>2. job[n].priority < p
    BY <2>1 DEF AbovePending
  <2>3. job'[m].priority = p /\ job'[n] = job[n]
    BY <1>1, <2>1 DEF TypeOK, StoreTypeOK, JobRow
  <2>4. job'[m].priority > job'[n].priority
    BY <1>1, <2>2, <2>3, Columns, StoreAssumption DEF TypeOK
  <2>5. QED
    BY <2>4 DEF ClaimedBefore
<1>2. QED
  BY <1>1, TypeCorrect, PTL DEF Spec, PrioritizedFirst

-----------------------------------------------------------------------------
(* The monitor would miss every worker that runs something *)

Online(w) == worker[w].status = "online"

\* A heartbeat that may claim was written, and has not expired.
Claims(x) == x.pc = "claim"
Heard(w) == worker[w].status = "deleted" \/ (Online(w) /\ worker[w].fresh)

WatchInv ==
  /\ \A w \in Workers : Held(w) # {} => Online(w)
  /\ \A x \in beat : Claims(x) => Heard(x.w)

\* Who changes the rows of workers.
LEMMA WorkerSteps ==
  ASSUME TypeOK, [Next]_vars
  PROVE  \/ worker' = worker
         \/ \E x \in beat : UpdateWorkerHeartbeat(x.w)
         \/ \E v \in Workers : CreateWorker(v) \/ CreateEphemeralWorker(v) \/ DeleteWorker(v)
         \/ \E v \in Workers : (\A x \in beat : x.w # v) /\ HeartbeatExpires(v)
         \/ RecoverFailedWorkers
<1> DEFINE Change ==
         \/ worker' = worker
         \/ \E x \in beat : UpdateWorkerHeartbeat(x.w)
         \/ \E v \in Workers : CreateWorker(v) \/ CreateEphemeralWorker(v) \/ DeleteWorker(v)
         \/ \E v \in Workers : (\A x \in beat : x.w # v) /\ HeartbeatExpires(v)
         \/ RecoverFailedWorkers
<1>1. CASE StoreCall
  BY <1>1 DEF StoreCall, BulkEnqueueUntranscoded, BulkEnqueueFailed, BulkEnqueueCompleted,
              BulkRequeue, PrioritizeJob, DeleteMediaItem, UpsertMediaItem, Tick, rows
<1>2. ASSUME NEW x \in beat, HeartbeatStep(x)
      PROVE  Change
  BY <1>2 DEF HeartbeatStep, HeartbeatTouch, HeartbeatClaim, HeartbeatEnd, HeartbeatFails,
              ClaimNextSubJob, storeVars
<1>3. CASE Monitor
  BY <1>3 DEF Monitor
<1>4. ASSUME NEW t \in local, NEW s \in Ended, LocalEnd(t, s)
      PROVE  worker' = worker
  BY <1>4 DEF LocalEnd, UpdateSubJobStatus, storeVars
<1>5. ASSUME NEW x \in rep, ReportWrite(x) \/ ReportFails(x)
      PROVE  worker' = worker
  BY <1>5 DEF ReportWrite, ReportFails, UpdateSubJobStatus, storeVars
<1>6. ASSUME NEW x \in enq, EnqueueWrite(x) \/ EnqueueFails(x) \/ EnqueueMark(x)
      PROVE  worker' = worker
  BY <1>6 DEF EnqueueWrite, EnqueueFails, EnqueueMark, CreateTranscodeJob, ResetTranscodeJob,
              SetMediaTranscodeStatus, storeVars
<1>7. ASSUME NEW l \in Locals, LocalClaim(l)
      PROVE  worker' = worker
  BY <1>7 DEF LocalClaim, ClaimNextSubJob
<1>8. ASSUME Restart \/ UNCHANGED vars
      PROVE  worker' = worker
  BY <1>8 DEF Restart, RecoverStaleJobs, vars, storeVars
<1> HIDE DEF Change
<1>9. worker' = worker => Change
  BY DEF Change
<1>10. StoreCall \/ Monitor => Change
  BY <1>1, <1>3 DEF Change
<1>11. ASSUME NEW c \in Slots, NEW w \in Workers, NEW m \in Media, NEW k \in Kinds, NEW s \in Ended,
              ReportCheck(c, w, m, k, s)
       PROVE  worker' = worker
  BY <1>11 DEF ReportCheck, storeVars
<1>12. ASSUME NEW c \in Slots, NEW m \in Media, EnqueueRead(c, m)
       PROVE  worker' = worker
  BY <1>12 DEF EnqueueRead, storeVars
<1>13. ASSUME NEW c \in Slots, NEW w \in Workers, HeartbeatCount(c, w)
       PROVE  worker' = worker
  BY <1>13 DEF HeartbeatCount, storeVars
<1>14. Change
  BY <1>2, <1>4, <1>5, <1>6, <1>7, <1>8, <1>9, <1>10, <1>11, <1>12, <1>13, ZenonT(60)
  DEF Next, HeartbeatStep
<1>15. QED
  BY <1>14 DEF Change

LEMMA Touched ==
  ASSUME TypeOK, NEW v \in Workers, UpdateWorkerHeartbeat(v)
  PROVE  Online(v)' /\ worker'[v].fresh /\ \A w \in Workers \ {v} : worker'[w] = worker[w]
<1>1. worker[v] \in WorkerRow
  BY DEF TypeOK, StoreTypeOK
<1>2. PICK r : r = [[worker[v] EXCEPT !.status = "online"] EXCEPT !.fresh = TRUE]
  OBVIOUS
<1>3. r.status = "online" /\ r.fresh = TRUE
  BY <1>1, <1>2 DEF WorkerRow
<1>4. worker' = [worker EXCEPT ![v] = r]
  BY <1>2 DEF UpdateWorkerHeartbeat
<1>5. QED
  BY <1>3, <1>4 DEF TypeOK, StoreTypeOK, Online

\* A worker that loses its row, or is taken offline, loses its work with it.
LEMMA DeletedHoldsNothing ==
  ASSUME TypeOK, NEW v \in Workers, DeleteWorker(v)
  PROVE  /\ Held(v)' = {} /\ worker'[v].status = "deleted"
         /\ \A w \in Workers \ {v} : worker'[w] = worker[w]
<1>1. ASSUME NEW m \in Media, NEW k \in Kinds
      PROVE  sub'[m][k].owner # v
  <2>1. sub'[m][k] = [sub[m][k] EXCEPT !.owner = Detach(@, {v})]
    BY DEF DeleteWorker
  <2>2. sub[m][k] \in SubRow
    BY DEF TypeOK, StoreTypeOK
  <2>3. sub'[m][k].owner = Detach(sub[m][k].owner, {v})
    BY <2>1, <2>2, ColumnSet
  <2>4. QED
    BY <2>3, StoreAssumption DEF Detach
<1>2. Held(v)' = {}
  BY <1>1 DEF Held
<1>3. worker'[v] = GoneWorker /\ \A w \in Workers \ {v} : worker'[w] = worker[w]
  BY DEF DeleteWorker, TypeOK, StoreTypeOK
<1>4. GoneWorker.status = "deleted"
  BY DEF GoneWorker, NewWorker
<1>5. QED
  BY <1>2, <1>3, <1>4

LEMMA FailedHoldsNothing ==
  ASSUME TypeOK, RecoverFailedWorkers, NEW w \in FailedWorkers
  PROVE  Held(w)' = {}
<1> DEFINE failed == FailedWorkers
           deleted == {v \in failed : worker[v].ephemeral}
<1>1. w # NoWorker
  BY StoreAssumption DEF FailedWorkers
<1>2. ASSUME NEW m \in Media, NEW k \in Kinds,
             sub'[m][k].status = "processing", sub'[m][k].owner = w
      PROVE  FALSE
  <2> DEFINE d == [sub[m][k] EXCEPT !.owner = Detach(@, deleted)]
  <2>1. sub'[m][k] = RequeuedSub(sub[m][k], failed, deleted)
    BY DEF RecoverFailedWorkers
  <2>2. sub'[m][k] = IF d.status = "processing" /\ d.owner \in failed THEN PendingSub ELSE d
    BY <2>1 DEF RequeuedSub
  <2>3. PendingSub.status # "processing"
    BY DEF PendingSub
  <2> HIDE DEF d
  <2>4. QED
    BY <1>2, <2>2, <2>3
<1>3. QED
  BY <1>2 DEF Held

LEMMA UnfailedStays ==
  ASSUME TypeOK, RecoverFailedWorkers, NEW w \in Workers, w \notin FailedWorkers
  PROVE  worker'[w] = worker[w]
  BY DEF RecoverFailedWorkers

\* A worker that is online stays so, or has nothing to run.
LEMMA OnlineStays ==
  ASSUME TypeOK, [Next]_vars, NEW w \in Workers, Online(w)
  PROVE  Online(w)' \/ Held(w)' = {}
<1>0. worker \in [Workers -> WorkerRow] /\ worker[w] \in WorkerRow /\ \A x \in beat : x.w \in Workers
  BY DEF TypeOK, StoreTypeOK, BeatCall
<1>1. ASSUME NEW x \in beat, UpdateWorkerHeartbeat(x.w)
      PROVE  Online(w)'
  BY <1>0, <1>1, Touched DEF Online
<1>2. ASSUME NEW v \in Workers, CreateWorker(v) \/ CreateEphemeralWorker(v)
      PROVE  Online(w)'
  <2>1. worker'[w] = worker[w]
    BY <1>0, <1>2 DEF CreateWorker, CreateEphemeralWorker, Online
  <2>2. QED
    BY <2>1 DEF Online
<1>3. ASSUME NEW v \in Workers, DeleteWorker(v)
      PROVE  Online(w)' \/ Held(w)' = {}
  BY <1>3, DeletedHoldsNothing DEF Online
<1>4. ASSUME NEW v \in Workers, HeartbeatExpires(v)
      PROVE  Online(w)'
  <2>1. PICK r \in WorkerRow : r = worker[w]
    BY <1>0
  <2>2. [r EXCEPT !.fresh = FALSE].status = r.status
    BY DEF WorkerRow
  <2>3. worker'[w] = r \/ worker'[w] = [r EXCEPT !.fresh = FALSE]
    BY <1>0, <1>4, <2>1 DEF HeartbeatExpires
  <2>4. QED
    BY <2>1, <2>2, <2>3 DEF Online
<1>5. CASE RecoverFailedWorkers
  BY <1>5, FailedHoldsNothing, UnfailedStays DEF Online
<1>6. CASE worker' = worker
  BY <1>6 DEF Online
<1>7. QED
  BY <1>1, <1>2, <1>3, <1>4, <1>5, <1>6, WorkerSteps

\* A heartbeat stays good for as long as it is served, unless its worker is deleted.
LEMMA HeardStays ==
  ASSUME TypeOK, [Next]_vars, NEW x \in beat, Heard(x.w)
  PROVE  Heard(x.w)'
<1>0. worker \in [Workers -> WorkerRow] /\ x.w \in Workers /\ \A y \in beat : y.w \in Workers
  BY DEF TypeOK, StoreTypeOK, BeatCall
<1>1. ASSUME NEW y \in beat, UpdateWorkerHeartbeat(y.w)
      PROVE  Heard(x.w)'
  BY <1>0, <1>1, Touched DEF Heard, Online
<1>2. ASSUME NEW v \in Workers, CreateWorker(v) \/ CreateEphemeralWorker(v)
      PROVE  Heard(x.w)'
  <2>1. worker'[x.w] = worker[x.w]
    BY <1>0, <1>2 DEF CreateWorker, CreateEphemeralWorker, Heard, Online
  <2>2. QED
    BY <2>1 DEF Heard, Online
<1>3. ASSUME NEW v \in Workers, DeleteWorker(v)
      PROVE  Heard(x.w)'
  BY <1>0, <1>3, DeletedHoldsNothing DEF Heard, Online
<1>4. ASSUME NEW v \in Workers, x.w # v, HeartbeatExpires(v)
      PROVE  Heard(x.w)'
  <2>1. worker'[x.w] = worker[x.w]
    BY <1>0, <1>4 DEF HeartbeatExpires
  <2>2. QED
    BY <2>1 DEF Heard, Online
<1>5. CASE RecoverFailedWorkers
  <2>1. x.w \notin FailedWorkers
    BY DEF Heard, Online, FailedWorkers
  <2>2. worker'[x.w] = worker[x.w]
    BY <1>0, <1>5, <2>1, UnfailedStays
  <2>3. QED
    BY <2>2 DEF Heard, Online
<1>6. CASE worker' = worker
  BY <1>6 DEF Heard, Online
<1>7. QED
  BY <1>1, <1>2, <1>3, <1>4, <1>5, <1>6, WorkerSteps

\* A heartbeat that may claim has been written.
LEMMA NewClaims ==
  ASSUME TypeOK, WatchInv, [Next]_vars, NEW y \in beat', Claims(y)
  PROVE  Heard(y.w)'
<1>1. CASE y \in beat
  BY <1>1, HeardStays DEF WatchInv
<1>2. ASSUME NEW x \in beat, HeartbeatTouch(x), y \notin beat
      PROVE  Heard(y.w)'
  <2>1. x \in BeatCall /\ x.w \in Workers
    BY DEF TypeOK, BeatCall
  <2>2. y = [x EXCEPT !.pc = "claim"]
    BY <1>2 DEF HeartbeatTouch
  <2>3. y.w = x.w
    BY <2>1, <2>2 DEF BeatCall
  <2>4. QED
    BY <1>2, <2>1, <2>3, Touched DEF HeartbeatTouch, Heard, Online
<1>3. ASSUME NEW x \in beat, HeartbeatClaim(x), y \notin beat
      PROVE  FALSE
  <2>1. x \in BeatCall
    BY DEF TypeOK
  <2>2. y = [x EXCEPT !.pc = "claimed"]
    BY <1>3 DEF HeartbeatClaim
  <2>3. QED
    BY <2>1, <2>2 DEF BeatCall, Claims
<1>4. ASSUME NEW c \in Slots, NEW w \in Workers, HeartbeatCount(c, w), y \notin beat
      PROVE  FALSE
  BY <1>4 DEF HeartbeatCount, Claims
<1>5. CASE beat' \subseteq beat
  BY <1>1, <1>5
<1>6. QED
  BY <1>1, <1>2, <1>3, <1>4, <1>5
  DEF Next, vars, calls, EnqueueRead, EnqueueWrite, EnqueueFails, EnqueueMark, LocalClaim,
      LocalEnd, HeartbeatEnd, HeartbeatFails, ReportCheck, ReportWrite, ReportFails,
      Restart, Monitor, StoreCall

LEMMA WatchStep ==
  ASSUME TypeOK, WatchInv, [Next]_vars
  PROVE  WatchInv'
<1>1. ASSUME NEW w \in Workers, Held(w)' # {}
      PROVE  Online(w)'
  <2>1. CASE Held(w) # {}
    BY <1>1, <2>1, OnlineStays DEF WatchInv
  <2>2. CASE Held(w) = {}
    <3>1. PICK x \in beat : HeartbeatClaim(x) /\ x.w = w
      BY <1>1, <2>2, HeldShrinks, HeldClaimed
    <3>2. Claims(x) /\ WorkerExists(w) /\ worker' = worker
      BY <3>1, StoreAssumption, CallFields DEF HeartbeatClaim, ClaimNextSubJob, Claims, TypeOK, CallsOK
    <3>3. Heard(w)
      BY <3>1, <3>2 DEF WatchInv
    <3>4. QED
      BY <3>2, <3>3 DEF Heard, Online, WorkerExists
  <2>3. QED
    BY <2>1, <2>2
<1>2. \A y \in beat' : Claims(y)' => Heard(y.w)'
  BY NewClaims DEF Claims
<1>3. QED
  BY <1>1, <1>2 DEF WatchInv

\* Whoever crashes, resets, deletes or falls silent, and however heartbeats overlap,
\* a sub-job a worker runs belongs to one the next tick of the monitor looks at.
THEOREM WorkIsAlwaysWatched == Spec => []WorkIsWatched
<1>1. Init => WatchInv
  BY DEF Init, StoreInit, WatchInv, Held, NoSub
<1>2. TypeOK /\ WatchInv /\ [Next]_vars => WatchInv'
  BY WatchStep
<1>3. WatchInv => WorkIsWatched
  <2> SUFFICES ASSUME WatchInv, NEW m \in Media, NEW k \in Kinds,
                      sub[m][k].status = "processing", sub[m][k].owner \in Workers
               PROVE  Online(sub[m][k].owner)
    BY DEF WorkIsWatched, Online
  <2>1. <<m, k>> \in Held(sub[m][k].owner)
    BY DEF Held
  <2>2. QED
    BY <2>1 DEF WatchInv
<1>4. QED
  BY <1>1, <1>2, <1>3, TypeCorrect, PTL DEF Spec

\* Somebody can go on with the job of m: a sub-job of it can be claimed, a goroutine of
\* the pool has one, or a worker that the monitor looks at.
InHand(m) ==
  \E k \in Kinds :
    \/ <<m, k>> \in Claimable
    \/ \E t \in local : t.m = m /\ t.k = k /\ t.g = gen[m]
    \/ /\ sub[m][k].status = "processing" /\ sub[m][k].owner \in Workers
       /\ Online(sub[m][k].owner)

NoJobIsLost ==
  \A m \in Media :
    job[m].status \in Active /\ queuedBy[m] = "enqueue" /\ (\A k \in Kinds : ~Orphan(m, k))
      => InHand(m)

\* The safety half of NoJobStarves, for every value of the constants: an active job that
\* Enqueue queued and of which no sub-job was orphaned is in somebody's hand.
THEOREM JobsStayInHand == Spec => []NoJobIsLost
<1>1. TypeOK /\ WorkRemains /\ WorkIsWatched => NoJobIsLost
  <2> SUFFICES ASSUME TypeOK, WorkRemains, WorkIsWatched, NEW m \in Media,
                      job[m].status \in Active, queuedBy[m] = "enqueue",
                      \A k \in Kinds : ~Orphan(m, k)
               PROVE  InHand(m)
    BY DEF NoJobIsLost
  <2>1. PICK k \in Kinds : sub[m][k].status \in Active
    BY DEF WorkRemains
  <2>2. sub[m][k].owner \in Owners
    BY Columns DEF TypeOK
  <2>3. CASE sub[m][k].status = "pending"
    <3>1. <<m, k>> \in Claimable
      BY <2>3 DEF Claimable, Active
    <3>2. QED
      BY <3>1 DEF InHand
  <2>4. CASE sub[m][k].status = "processing" /\ sub[m][k].owner = NoWorker
    BY <2>4 DEF InHand, Orphan
  <2>5. CASE sub[m][k].status = "processing" /\ sub[m][k].owner \in Workers
    BY <2>5 DEF InHand, WorkIsWatched, Online
  <2>6. QED
    BY <2>1, <2>2, <2>3, <2>4, <2>5 DEF Active, Owners
<1>2. QED
  BY <1>1, TypeCorrect, WorkRemainsAlways, WorkIsAlwaysWatched, PTL
=============================================================================
