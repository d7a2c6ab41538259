--------------------------- MODULE TranscodeQueue ---------------------------
(***************************************************************************)
(* Who runs the transactions of TranscodeStore, and in which order: the    *)
(* goroutines of the transcode pool, the handlers of the admin and worker  *)
(* API, the scanner, and a server that crashes.                            *)
(*                                                                         *)
(* A handler that makes several calls to the store is one record of enq,   *)
(* beat or rep, and one action per call: between two of them anything may  *)
(* happen, and what the handler read is what it read then.                 *)
(***************************************************************************)
EXTENDS TranscodeStore

CONSTANTS
  Locals,         \* goroutines of Pool.runWorker
  Slots,          \* HTTP requests in progress, and the auto-enqueue listener
  Threads,        \* transcode_workers.threads
  MaxRestarts     \* bound on crashes

ASSUME QueueAssumption ==
  /\ Threads \in Nat /\ MaxRestarts \in Nat
  /\ IsFiniteSet(Slots) /\ Slots # {}

VARIABLES
  enq,       \* Pool.Enqueue calls
  beat,      \* WorkerHandler.Heartbeat requests
  rep,       \* reports of remote workers: a bundle upload or a failure
  local,     \* sub-jobs the goroutines of the pool are processing
  restarts   \* crashes so far

calls == <<enq, beat, rep, local>>
vars == <<storeVars, calls, restarts>>

EnqCall == [c : Slots, m : Media, pc : {"create", "reset", "mark"}, at : 0..MaxClock]
BeatCall == [c : Slots, w : Workers, pc : {"touch", "claim", "claimed"}, room : BOOLEAN]
RepCall == [c : Slots, w : Workers, m : Media, k : Kinds, g : 0..MaxGen, status : Ended]
LocalTask == [l : Locals, m : Media, k : Kinds, g : 0..MaxGen]

Init ==
  /\ StoreInit
  /\ enq = {} /\ beat = {} /\ rep = {} /\ local = {}
  /\ restarts = 0

Free(c) == \A x \in enq \cup beat \cup rep : x.c # c
Idle(l) == \A t \in local : t.l # l

\* x names a sub-job that is still in the database.
Current(x) == x.g = gen[x.m] /\ SubExists(x.m, x.k)

-----------------------------------------------------------------------------
(* Pool.Enqueue: the job is read, then created or reset, and the media item *)
(* is marked pending in a statement of its own.  The callers are the enqueue *)
(* handler and the auto-enqueue listener of the pool.                       *)

EnqueueRead(c, m) ==
  /\ Free(c)
  /\ MediaExists(m)
  /\ job[m].status \in {"absent"} \cup Ended
  /\ enq' = enq \cup {[c |-> c, m |-> m, at |-> clock,
                       pc |-> IF JobExists(m) THEN "reset" ELSE "create"]}
  /\ UNCHANGED <<storeVars, beat, rep, local, restarts>>

EnqueueWrite(x) ==
  /\ x.pc \in {"create", "reset"}
  /\ \E P \in EligibleProfiles :
       IF x.pc = "create" THEN CreateTranscodeJob(x.m, P)
                          ELSE ResetTranscodeJob(x.m, x.at, P)
  /\ enq' = (enq \ {x}) \cup {[x EXCEPT !.pc = "mark"]}
  /\ UNCHANGED <<beat, rep, local, restarts>>

\* The insert hits the unique index on media_item_id, the job or the media item is
\* gone, or the request is cancelled before its next statement.
EnqueueFails(x) ==
  /\ enq' = enq \ {x}
  /\ UNCHANGED <<storeVars, beat, rep, local, restarts>>

EnqueueMark(x) ==
  /\ x.pc = "mark"
  /\ SetMediaTranscodeStatus(x.m, "pending")
  /\ enq' = enq \ {x}
  /\ UNCHANGED <<beat, rep, local, restarts>>

-----------------------------------------------------------------------------
(* Goroutines of the pool *)

LocalClaim(l) ==
  /\ Idle(l)
  /\ \E s \in NextSubJobs :
       /\ ClaimNextSubJob(s, NoWorker)
       /\ local' = local \cup {[l |-> l, m |-> s[1], k |-> s[2], g |-> gen[s[1]]]}
  /\ UNCHANGED <<enq, beat, rep, restarts>>

\* process ends with done, or through fail; for a sub-job that was deleted in the
\* meantime the update finds no row, and its error is logged or ignored.
LocalEnd(t, s) ==
  /\ IF Current(t) THEN UpdateSubJobStatus(t.m, t.k, s) ELSE UNCHANGED storeVars
  /\ local' = local \ {t}
  /\ UNCHANGED <<enq, beat, rep, restarts>>

-----------------------------------------------------------------------------
(* WorkerHandler.Heartbeat: count the active sub-jobs, write the heartbeat, *)
(* claim if there was room, and write the heartbeat again.                  *)

ActiveCount(w) ==
  Cardinality({s \in Media \X Kinds : /\ sub[s[1]][s[2]].status = "processing"
                                      /\ sub[s[1]][s[2]].owner = w})

\* Mutant: a worker with all its threads busy still has room.
HeartbeatCountOffByOne(c, w) ==
  /\ Free(c)
  /\ WorkerExists(w)
  /\ beat' = beat \cup {[c |-> c, w |-> w, pc |-> "touch",
                         room |-> ActiveCount(w) <= Threads]}
  /\ UNCHANGED <<storeVars, enq, rep, local, restarts>>

HeartbeatCount(c, w) ==
  /\ Free(c)
  /\ WorkerExists(w)
  /\ beat' = beat \cup {[c |-> c, w |-> w, pc |-> "touch",
                         room |-> ActiveCount(w) < Threads]}
  /\ UNCHANGED <<storeVars, enq, rep, local, restarts>>

HeartbeatTouch(x) ==
  /\ x.pc = "touch"
  /\ UpdateWorkerHeartbeat(x.w)
  /\ beat' = (beat \ {x}) \cup (IF x.room THEN {[x EXCEPT !.pc = "claim"]} ELSE {})
  /\ UNCHANGED <<enq, rep, local, restarts>>

HeartbeatClaim(x) ==
  /\ x.pc = "claim"
  /\ \E s \in NextSubJobs : ClaimNextSubJob(s, x.w)
  /\ beat' = (beat \ {x}) \cup {[x EXCEPT !.pc = "claimed"]}
  /\ UNCHANGED <<enq, rep, local, restarts>>

HeartbeatEnd(x) ==
  /\ x.pc = "claimed"
  /\ IF WorkerExists(x.w) THEN UpdateWorkerHeartbeat(x.w) ELSE UNCHANGED storeVars
  /\ beat' = beat \ {x}
  /\ UNCHANGED <<enq, rep, local, restarts>>

\* The worker was deleted since it was authenticated, nothing can be claimed, or the
\* request is cancelled before its next statement, the second heartbeat included.
HeartbeatFails(x) ==
  /\ beat' = beat \ {x}
  /\ UNCHANGED <<storeVars, enq, rep, local, restarts>>

HeartbeatStep(x) ==
  HeartbeatTouch(x) \/ HeartbeatClaim(x) \/ HeartbeatEnd(x) \/ HeartbeatFails(x)

-----------------------------------------------------------------------------
(* UploadSubJobBundle and UpdateSubJobProgress with status "failed": the    *)
(* handler checks that the sub-job is the worker's, and only later, for an  *)
(* upload after the whole bundle is received and unpacked, updates it.      *)

ReportCheck(c, w, m, k, s) ==
  /\ Free(c)
  /\ WorkerExists(w)
  /\ SubExists(m, k) /\ sub[m][k].owner = w
  /\ rep' = rep \cup {[c |-> c, w |-> w, m |-> m, k |-> k, g |-> gen[m], status |-> s]}
  /\ UNCHANGED <<storeVars, enq, beat, local, restarts>>

ReportWrite(x) ==
  /\ IF Current(x) THEN UpdateSubJobStatus(x.m, x.k, x.status) ELSE UNCHANGED storeVars
  /\ rep' = rep \ {x}
  /\ UNCHANGED <<enq, beat, local, restarts>>

\* The upload breaks off, the bundle cannot be stored, or the request is cancelled.
ReportFails(x) ==
  /\ rep' = rep \ {x}
  /\ UNCHANGED <<storeVars, enq, beat, local, restarts>>

-----------------------------------------------------------------------------
(* The server crashes; on the next start Pool.Start recovers before any     *)
(* goroutine or handler runs.                                               *)

Restart ==
  /\ restarts < MaxRestarts
  /\ RecoverStaleJobs
  /\ enq' = {} /\ beat' = {} /\ rep' = {} /\ local' = {}
  /\ restarts' = restarts + 1

-----------------------------------------------------------------------------

\* Requests and events that are one call to the store.  A worker's heartbeat does not
\* expire while one is served: that takes milliseconds, and the monitor waits for 30 s.
StoreCall ==
  /\ \/ BulkEnqueueUntranscoded \/ BulkEnqueueFailed \/ BulkEnqueueCompleted
     \/ \E m \in Media : PrioritizeJob(m) \/ DeleteMediaItem(m)
     \/ \E m \in Media, s \in {"none", "done"} : UpsertMediaItem(m, s)
     \/ \E w \in Workers : CreateWorker(w) \/ CreateEphemeralWorker(w)
     \/ \E w \in Workers : DeleteWorker(w)
     \/ \E w \in Workers : (\A x \in beat : x.w # w) /\ HeartbeatExpires(w)
     \/ Tick
  /\ UNCHANGED <<calls, restarts>>

\* A tick of runWorkerMonitor.
Monitor == RecoverFailedWorkers /\ UNCHANGED <<calls, restarts>>

Next ==
  \/ \E c \in Slots, m \in Media : EnqueueRead(c, m)
  \/ \E x \in enq : EnqueueWrite(x)
  \/ \E x \in enq : EnqueueFails(x)
  \/ \E x \in enq : EnqueueMark(x)
  \/ \E l \in Locals : LocalClaim(l)
  \/ \E t \in local, s \in Ended : LocalEnd(t, s)
  \/ \E c \in Slots, w \in Workers : HeartbeatCount(c, w)
  \/ \E x \in beat : HeartbeatTouch(x)
  \/ \E x \in beat : HeartbeatClaim(x)
  \/ \E x \in beat : HeartbeatEnd(x)
  \/ \E x \in beat : HeartbeatFails(x)
  \/ \E c \in Slots, w \in Workers, m \in Media, k \in Kinds, s \in Ended :
       ReportCheck(c, w, m, k, s)
  \/ \E x \in rep : ReportWrite(x)
  \/ \E x \in rep : ReportFails(x)
  \/ Restart
  \/ Monitor
  \/ StoreCall

Spec == Init /\ [][Next]_vars

\* The goroutines of the pool run as long as the server does: they poll, and
\* ffmpeg ends.  The monitor's ticker fires.  A heartbeat handler never waits for
\* anything but the store.  Nothing is assumed of requests, of remote workers,
\* whose uploads may stall, or of the scanner.
Fairness ==
  /\ \A l \in Locals : WF_vars(LocalClaim(l))
  /\ \A l \in Locals : WF_vars(\E t \in local, s \in Ended : t.l = l /\ LocalEnd(t, s))
  /\ \A c \in Slots : WF_vars(\E x \in beat : x.c = c /\ HeartbeatStep(x))
  /\ WF_vars(Monitor)

FairSpec == Spec /\ Fairness

-----------------------------------------------------------------------------
(* Properties *)

\* Every variable keeps to its set, and the calls in progress hold values the handlers
\* may have read (Enqueue, Heartbeat, UploadSubJobBundle, process).
TypeOK ==
  /\ StoreTypeOK
  /\ enq \subseteq EnqCall
  /\ beat \subseteq BeatCall
  /\ rep \subseteq RepCall
  /\ local \subseteq LocalTask
  /\ restarts \in 0..MaxRestarts

\* No sub-job is processed by two goroutines of the pool, also not by one that
\* still works on rows a reset has deleted meanwhile (ClaimNextSubJob, process).
LocalExclusive ==
  \A t, u \in local : t.m = u.m /\ t.k = u.k /\ t.g = u.g => t.l = u.l

\* A sub-job a goroutine processes cannot be claimed a second time: neither a
\* late report of an earlier owner nor the monitor makes it pending again.
RunningNotClaimable ==
  \A t \in local : Current(t) => /\ sub[t.m][t.k].status \in {"processing"} \cup Ended
                                 /\ <<t.m, t.k>> \notin Claimable

\* In the database the sub-job is running, but nobody runs it: no worker owns it
\* and no goroutine of the pool has claimed it.
Orphan(m, k) ==
  /\ sub[m][k].status = "processing"
  /\ sub[m][k].owner = NoWorker
  /\ ~\E t \in local : t.m = m /\ t.k = k /\ t.g = gen[m]

\* Crashes, resets, failed claims and late reports orphan nothing: only the removal of
\* the row of the worker that owns a sub-job does, against what is said of a removal
\* (RemovedGivesBack).
OrphansOnlyByRemoval ==
  [][\A m \in Media, k \in Kinds :
       ~Orphan(m, k) /\ Orphan(m, k)' =>
         /\ sub[m][k].owner \in Workers
         /\ worker'[sub[m][k].owner].status = "deleted"]_vars

\* Whatever a claim takes, no claimable sub-job belongs to a job of higher
\* priority, or of the same priority and created earlier: jobs that were bulk
\* enqueued, reset or recovered meanwhile do not overtake (transcode-queue spec).
ClaimsInOrder ==
  [][\A m, n \in Media : \A j, k \in Kinds :
       sub[m][j].status = "pending" /\ sub'[m][j].status = "processing"
         /\ <<n, k>> \in Claimable
       => \/ job[n].priority < job[m].priority
          \/ job[n].priority = job[m].priority /\ job[m].created <= job[n].created]_vars

\* Right after a job was prioritised no sub-job of another waiting job is claimed
\* before its own: PrioritizeJob looks at the jobs that are pending at that moment,
\* and ClaimNextSubJob at the order of all that is claimable then.
PrioritizedFirst ==
  [][\A m \in Media : PrioritizeJob(m) =>
       \A n \in Media \ {m}, j, k \in Kinds :
         job[n].status = "pending" /\ <<m, k>> \in Claimable' /\ <<n, j>> \in Claimable'
           => ClaimedBefore(<<m, k>>, <<n, j>>)']_vars

\* The heartbeats of a worker that found room and have not claimed yet.
WithRoom(w) == {x \in beat : x.w = w /\ x.room /\ x.pc \in {"touch", "claim"}}

\* Heartbeat counts what a worker runs in one statement and claims in another, so one that
\* is sent again while the first is served may give the worker more than it has threads.
\* With what is still to be claimed it is never more than the requests served at once less
\* one, whatever was reset, requeued or reported between the counts and the claims.
WithinThreads ==
  \A w \in Workers :
    ActiveCount(w) + Cardinality(WithRoom(w)) <= Threads + Cardinality(Slots) - 1

\* When the row of a worker is removed, by an administrator or by the monitor, what it
\* was processing is pending again (the comments of DeleteWorker and RecoverFailedWorkers).
RemovedGivesBack ==
  [][\A m \in Media, k \in Kinds :
       /\ sub[m][k].status = "processing" /\ sub[m][k].owner \in Workers
       /\ worker'[sub[m][k].owner].status = "deleted"
       => sub'[m][k].status = "pending"]_vars

\* What a worker runs is watched: its worker is one the monitor would miss.  A heartbeat
\* is written before the claim, and a tick that takes a worker offline or deletes it
\* takes all its work, so nothing stays with a worker RecoverFailedWorkers passes over.
WorkIsWatched ==
  \A m \in Media, k \in Kinds :
    sub[m][k].status = "processing" /\ sub[m][k].owner \in Workers
      => worker[sub[m][k].owner].status = "online"

\* Once remote workers have fallen silent for good, no queued job stays active
\* forever, unless a sub-job of it was orphaned: the monitor gives back what the
\* workers held, and the pool runs it, also after crashes and late reports.
NoJobStarves ==
  (\A w \in Workers : <>[]~worker[w].fresh)
    => \A m \in Media :
         []<>~(/\ job[m].status \in Active
               /\ queuedBy[m] = "enqueue"
               /\ \A k \in Kinds : ~Orphan(m, k))
=============================================================================
