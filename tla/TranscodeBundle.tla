-------------------------- MODULE TranscodeBundle --------------------------
(***************************************************************************)
(* The bundle of one media item: the directory it has in each segment      *)
(* storage area, the manifest there, and what the database says of it,     *)
(* while sub-jobs are run by goroutines of the pool and by remote workers. *)
(*                                                                         *)
(* A task is a sub-job from its claim to its last write: Pool.process for  *)
(* a goroutine, and for a worker the heartbeat that claimed, the work, and *)
(* the upload.  Its pc is the next thing it does.  The rows of the queue   *)
(* change by the transactions of TranscodeStore.                           *)
(*                                                                         *)
(* The item stays in its library: scans and deletions are left out.  So is *)
(* the cache of manifest paths, which is read only while the database has  *)
(* none (ServeManifest).                                                   *)
(***************************************************************************)
EXTENDS TranscodeStore

CONSTANTS
  Item,           \* the media item
  Areas,          \* enabled storage areas of kind segments
  NoArea,         \* a NULL mpd_path, and no eligible area
  Locals,         \* goroutines of Pool.runWorker
  Admins,         \* requests of HandleRegenerateMPDs
  MaxRestarts     \* bound on crashes

ASSUME BundleAssumption ==
  /\ Item \in Media
  /\ NoArea \notin Areas
  /\ Locals \cap Workers = {}
  /\ MaxRestarts \in Nat

VARIABLES
  task,      \* sub-jobs being run
  dir,       \* the item's directory in each area
  bundle,    \* media_items.bundle_status
  mpd,       \* the area media_items.mpd_path points into
  regen,     \* manifests about to be regenerated by an administrator
  spoiled,   \* history: "clash" once sub-jobs have hit each other's files; "manifest"
             \* and "sidecar" from a failure, a crash or an overwriting that leaves
             \* manifest, path and status, or the sidecar, behind the sub-jobs that are
             \* done, until a later sub-job has written them again
  restarts   \* crashes so far

bundleVars == <<task, dir, bundle, mpd, regen, spoiled>>
vars == <<storeVars, bundleVars, restarts>>

\* files: the segments of a rendition, or the subtitle files.  manifest: the
\* renditions and subtitles it names, none when there is no manifest.  sidecar:
\* the profiles it names, none when there is no sidecar.
Directory == [exists : BOOLEAN, files : [Kinds -> {"none", "partial", "complete"}],
              manifest : SUBSET Kinds, sidecar : SUBSET Profiles]
NoDirectory == [exists |-> FALSE, files |-> [k \in Kinds |-> "none"],
                manifest |-> {}, sidecar |-> {}]

Before == {"read", "count", "clean", "unset"}             \* decides on the old bundle
After == {"list", "manifest", "publish", "sidecar"}       \* the sub-job has ended
Task == [e : Locals \cup Workers, k : Kinds, g : 0..MaxGen,
         pc : Before \cup {"work", "receive", "write", "end"} \cup After,
         seen : {"none", "available"}, area : Areas \cup {NoArea}, names : SUBSET Kinds]

Regen == [area : Areas \cup {NoArea}, names : SUBSET Kinds]
Nothing == [area |-> NoArea, names |-> {}]

Init ==
  /\ StoreInit
  /\ task = {}
  /\ dir = [a \in Areas |-> NoDirectory]
  /\ bundle = "none" /\ mpd = NoArea
  /\ regen = [ad \in Admins |-> Nothing]
  /\ spoiled = {}
  /\ restarts = 0

StatusOf(k) == sub[Item][k].status
DoneRenditions == {k \in Kinds \ {Subtitles} : StatusOf(k) = "done"}

Current(x) == x.g = gen[Item] /\ SubExists(Item, x.k)
Local(x) == x.e \in Locals
Becomes(x, y) == task' = (task \ {x}) \cup {y}
Goto(x, pc) == Becomes(x, [x EXCEPT !.pc = pc])
Leave(x) == task' = task \ {x}
EndSubJob(x, s) == IF Current(x) THEN UpdateSubJobStatus(Item, x.k, s) ELSE UNCHANGED storeVars

-----------------------------------------------------------------------------
(* The queue *)

Enqueue(P) ==
  /\ \/ CreateTranscodeJob(Item, P)
     \/ job[Item].status \in Ended /\ ResetTranscodeJob(Item, clock, P)
  /\ UNCHANGED <<bundleVars, restarts>>

\* A worker claims in a heartbeat, and only when it has nothing left to do.
HeartbeatClaims(w) ==
  worker[w].fresh /\ \A k \in Kinds : sub[Item][k] # [status |-> "processing", owner |-> w]

Claim(e) ==
  /\ \A x \in task : x.e # e
  /\ e \in Workers => HeartbeatClaims(e)
  /\ \E k \in Kinds :
       /\ ClaimNextSubJob(<<Item, k>>, IF e \in Locals THEN NoWorker ELSE e)
       /\ task' = task \cup {[e |-> e, k |-> k, g |-> gen[Item], pc |-> "read",
                              seen |-> "none", area |-> NoArea, names |-> {}]}
  /\ UNCHANGED <<dir, bundle, mpd, regen, spoiled, restarts>>

\* A heartbeat does not expire before its own handler has returned.
StoreCall ==
  /\ \/ BulkEnqueueFailed \/ BulkEnqueueCompleted
     \/ \E w \in Workers : CreateWorker(w) \/ UpdateWorkerHeartbeat(w)
     \/ \E w \in Workers : HeartbeatExpires(w) /\ \A x \in task : x.e = w => x.pc \notin Before
     \/ RecoverFailedWorkers
  /\ UNCHANGED <<bundleVars, restarts>>

-----------------------------------------------------------------------------
(* The old bundle: deleted by the first sub-job of the job to start.  The   *)
(* pool and the heartbeat handler do this in the same way.                  *)

\* A heartbeat that cannot read the item deletes nothing.
ReadItem(x) ==
  /\ x.pc = "read"
  /\ \/ Becomes(x, [x EXCEPT !.pc = "count", !.seen = bundle])
     \/ ~Local(x) /\ Goto(x, "work")
  /\ UNCHANGED <<storeVars, dir, bundle, mpd, regen, spoiled, restarts>>

IsFirst == Cardinality({k \in Kinds : StatusOf(k) \notin {"pending", "absent"}}) <= 1

\* Without an answer to the count the sub-job is not the first.
CountStarted(x) ==
  /\ x.pc = "count"
  /\ \E first \in {IsFirst, FALSE} :
       Becomes(x, [x EXCEPT !.seen = "none",
                     !.pc = IF first /\ x.seen = "available" THEN "clean" ELSE "work"])
  /\ UNCHANGED <<storeVars, dir, bundle, mpd, regen, spoiled, restarts>>

Writes(y, k, a) == y.k = k /\ y.area = a /\ y.pc \in {"write", "end"}

\* Files of the job's sub-jobs that are being written or finished.
InUse(a) ==
  {k \in Kinds : /\ dir[a].files[k] # "none"
                 /\ StatusOf(k) = "done" \/ \E y \in task : Writes(y, k, a)}

\* Without an eligible area, or when the deletion fails, nothing is deleted.
CleanUp(x) ==
  /\ x.pc = "clean"
  /\ \/ UNCHANGED <<dir, spoiled>>
     \/ \E a \in Areas :
          /\ dir' = [dir EXCEPT ![a] = NoDirectory]
          /\ spoiled' = spoiled \cup (IF InUse(a) = {} THEN {} ELSE {"clash"})
  /\ Goto(x, "unset")
  /\ UNCHANGED <<storeVars, bundle, mpd, regen, restarts>>

UnsetBundle(x) ==
  /\ x.pc = "unset"
  /\ \/ UNCHANGED <<bundle, spoiled>>
     \/ /\ bundle' = "none"
        /\ spoiled' = spoiled \cup (IF bundle = "available" /\ DoneRenditions # {}
                                   THEN {"manifest"} ELSE {})
  /\ Goto(x, "work")
  /\ UNCHANGED <<storeVars, dir, mpd, regen, restarts>>

-----------------------------------------------------------------------------
(* The segments.  An upload is checked, received, and then unpacked.        *)

CheckOwner(x) ==
  /\ x.pc = "work" /\ ~Local(x)
  /\ IF Current(x) /\ sub[Item][x.k].owner = x.e THEN Goto(x, "receive") ELSE Leave(x)
  /\ UNCHANGED <<storeVars, dir, bundle, mpd, regen, spoiled, restarts>>

Starting(x) == x.pc = IF Local(x) THEN "work" ELSE "receive"

\* Every sub-job picks the area with most free space for itself.
SelectArea(x) ==
  /\ Starting(x)
  /\ \E a \in Areas :
       /\ Becomes(x, [x EXCEPT !.pc = "write", !.area = a])
       /\ dir' = [dir EXCEPT ![a].exists = TRUE,
                            ![a].files[x.k] = IF x.k = Subtitles THEN @ ELSE "partial"]
       /\ spoiled' = spoiled \cup
            (IF StatusOf(x.k) = "done" \/ \E y \in task : Writes(y, x.k, a)
               THEN {"clash"} ELSE {})
  /\ UNCHANGED <<storeVars, bundle, mpd, regen, restarts>>

\* Mutant: a transcode or an unpacking that broke off is taken for complete.
WrittenBlindly(x) ==
  /\ x.pc = "write"
  /\ Goto(x, "end")
  /\ UNCHANGED <<storeVars, dir, bundle, mpd, regen, spoiled, restarts>>

Result(x, f) == dir' = [dir EXCEPT ![x.area].exists = TRUE, ![x.area].files[x.k] = f]

\* ffmpeg fails when the directory was deleted meanwhile.
Transcoded(x) ==
  /\ Local(x) /\ Result(x, "complete")
  /\ IF x.k = Subtitles THEN dir[x.area].exists ELSE dir[x.area].files[x.k] # "none"

\* unzipFile makes the directory again, for what is left of the upload.
Unzipped(x) ==
  /\ ~Local(x)
  /\ \/ (x.k = Subtitles \/ dir[x.area].files[x.k] # "none") /\ Result(x, "complete")
     \/ x.k # Subtitles /\ dir[x.area].files[x.k] = "none" /\ Result(x, "partial")

\* A subtitle that cannot be extracted is left out.
Written(x) ==
  /\ x.pc = "write"
  /\ Transcoded(x) \/ Unzipped(x) \/ (x.k = Subtitles /\ UNCHANGED dir)
  /\ Goto(x, "end")
  /\ UNCHANGED <<storeVars, bundle, mpd, regen, spoiled, restarts>>

\* Job or item unread, no eligible area, or a transcode, upload or unpacking that
\* breaks off.  A goroutine reports the failure, an upload handler does not.
Fails(x) ==
  /\ \/ Local(x) /\ x.pc = "read"
     \/ Starting(x) \/ (x.pc = "write" /\ (x.k # Subtitles \/ ~Local(x)))
  /\ IF Local(x) THEN EndSubJob(x, "failed") ELSE UNCHANGED storeVars
  /\ Leave(x)
  /\ UNCHANGED <<dir, bundle, mpd, regen, spoiled, restarts>>

\* The worker reports a failure, or is never heard of again.
WorkerFails(x) ==
  /\ x.pc = "work" /\ ~Local(x)
  /\ \/ sub[Item][x.k].owner = x.e /\ EndSubJob(x, "failed")
     \/ UNCHANGED storeVars
  /\ Leave(x)
  /\ UNCHANGED <<dir, bundle, mpd, regen, spoiled, restarts>>

-----------------------------------------------------------------------------
(* The manifest: RegenerateManifestForJob reads the sub-jobs that are done  *)
(* and the subtitle files, writes the manifest, and updates the item.       *)

\* That the status could not be written is logged at most.
MarkDone(x) ==
  /\ x.pc = "end"
  /\ EndSubJob(x, "done") \/ UNCHANGED storeVars
  /\ Goto(x, "list")
  /\ UNCHANGED <<dir, bundle, mpd, regen, spoiled, restarts>>

SubtitleFiles(a) == {k \in {Subtitles} : dir[a].files[k] = "complete"}

ListDone(x) ==
  /\ x.pc = "list"
  /\ IF DoneRenditions = {}
       THEN Goto(x, "sidecar")
       ELSE Becomes(x, [x EXCEPT !.pc = "manifest",
                                 !.names = DoneRenditions \cup SubtitleFiles(x.area)])
  /\ UNCHANGED <<storeVars, dir, bundle, mpd, regen, spoiled, restarts>>

GenerateMPD(x) ==
  LET now == DoneRenditions \cup SubtitleFiles(x.area)
      old == dir[x.area].manifest
  IN /\ x.pc = "manifest"
     /\ dir' = [dir EXCEPT ![x.area].exists = TRUE, ![x.area].manifest = x.names]
     /\ spoiled' = IF x.names = now THEN spoiled \ {"manifest"}
                   ELSE IF old \cap now \subseteq x.names /\ x.names \subseteq now THEN spoiled
                   ELSE spoiled \cup {"manifest"}
     /\ Becomes(x, [x EXCEPT !.pc = "publish", !.names = {}])
     /\ UNCHANGED <<storeVars, bundle, mpd, regen, restarts>>

\* Mutant: a path that is set already is taken for an available bundle.
PublishOnce(x) ==
  /\ x.pc = "publish"
  /\ IF mpd = NoArea THEN mpd' = x.area /\ bundle' = "available" ELSE UNCHANGED <<mpd, bundle>>
  /\ Goto(x, "sidecar")
  /\ UNCHANGED <<storeVars, dir, regen, spoiled, restarts>>

\* Path and status are set by one statement.
Publish(x) ==
  /\ x.pc = "publish"
  /\ mpd' = x.area /\ bundle' = "available"
  /\ Goto(x, "sidecar")
  /\ UNCHANGED <<storeVars, dir, regen, spoiled, restarts>>

\* The sidecar goes where the database says the manifest is.  It keeps the profiles of
\* the sidecar there, or else names the profiles active now.
WriteSidecar(x) ==
  /\ x.pc = "sidecar" /\ mpd # NoArea
  /\ \E P \in EligibleProfiles :
       /\ dir[mpd].sidecar # {} => P = dir[mpd].sidecar
       /\ dir' = [dir EXCEPT ![mpd].exists = TRUE, ![mpd].sidecar = P]
  /\ spoiled' = spoiled \ {"sidecar"}
  /\ Leave(x)
  /\ UNCHANGED <<storeVars, bundle, mpd, regen, restarts>>

\* What is left behind when a task stops where it is.
Behind(x) ==
  CASE x.pc = "sidecar" -> {"sidecar"}
    [] x.pc \in After \ {"sidecar"} -> {"manifest", "sidecar"}
    [] OTHER -> {}

\* Rows that cannot be read, a file that cannot be written and is left empty, an update
\* that fails, or no path for the sidecar.  A goroutine logs it and goes on to the
\* sidecar, an upload is answered with the error.  Nobody tries again.
BreaksOff(x) ==
  /\ x.pc \in After
  /\ \/ UNCHANGED dir
     \/ x.pc = "manifest" /\ dir' = [dir EXCEPT ![x.area].exists = TRUE, ![x.area].manifest = {}]
     \/ /\ x.pc = "sidecar" /\ mpd # NoArea
        /\ dir' = [dir EXCEPT ![mpd].exists = TRUE, ![mpd].sidecar = {}]
  /\ IF Local(x) /\ x.pc # "sidecar"
       THEN /\ Becomes(x, [x EXCEPT !.pc = "sidecar", !.names = {}])
            /\ spoiled' = spoiled \cup {"manifest"}
       ELSE Leave(x) /\ spoiled' = spoiled \cup Behind(x)
  /\ UNCHANGED <<storeVars, bundle, mpd, regen, restarts>>

-----------------------------------------------------------------------------
(* HandleRegenerateMPDs, for an item with a path.                           *)

Renditions == IF DoneRenditions # {} THEN DoneRenditions ELSE dir[mpd].sidecar

\* Without done sub-jobs, or an answer to the query for them, the renditions are those
\* of the sidecar.
RegenerateReads(ad) ==
  /\ regen[ad] = Nothing /\ mpd # NoArea
  /\ \E R \in {Renditions, dir[mpd].sidecar} \ {{}} :
       regen' = [regen EXCEPT ![ad] = [area |-> mpd, names |-> R \cup SubtitleFiles(mpd)]]
  /\ UNCHANGED <<storeVars, task, dir, bundle, mpd, spoiled, restarts>>

\* A manifest that cannot be written is left empty.
RegenerateWrites(ad) ==
  LET a == regen[ad].area
      now == DoneRenditions \cup SubtitleFiles(a)
  IN /\ regen[ad] # Nothing
     /\ regen' = [regen EXCEPT ![ad] = Nothing]
     /\ \E names \in {regen[ad].names, {}} :
          /\ dir' = [dir EXCEPT ![a].exists = TRUE, ![a].manifest = names]
          /\ spoiled' = spoiled \cup (IF a = mpd /\ names = now THEN {} ELSE {"manifest"})
     /\ UNCHANGED <<storeVars, task, bundle, mpd, restarts>>

-----------------------------------------------------------------------------
(* A crash.  Workers go on with what they learned of.                       *)

Restart ==
  /\ restarts < MaxRestarts
  /\ RecoverStaleJobs
  /\ task' = {x \in task : ~Local(x) /\ x.pc = "work"}
  /\ regen' = [ad \in Admins |-> Nothing]
  /\ spoiled' = spoiled \cup UNION {Behind(x) : x \in task}
  /\ restarts' = restarts + 1
  /\ UNCHANGED <<dir, bundle, mpd>>

Next ==
  \/ \E P \in EligibleProfiles : Enqueue(P)
  \/ \E e \in Locals \cup Workers : Claim(e)
  \/ StoreCall
  \/ \E x \in task : ReadItem(x)
  \/ \E x \in task : CountStarted(x)
  \/ \E x \in task : CleanUp(x)
  \/ \E x \in task : UnsetBundle(x)
  \/ \E x \in task : CheckOwner(x)
  \/ \E x \in task : SelectArea(x)
  \/ \E x \in task : Written(x)
  \/ \E x \in task : Fails(x)
  \/ \E x \in task : WorkerFails(x)
  \/ \E x \in task : MarkDone(x)
  \/ \E x \in task : ListDone(x)
  \/ \E x \in task : GenerateMPD(x)
  \/ \E x \in task : Publish(x)
  \/ \E x \in task : WriteSidecar(x)
  \/ \E x \in task : BreaksOff(x)
  \/ \E ad \in Admins : RegenerateReads(ad) \/ RegenerateWrites(ad)
  \/ Restart

Spec == Init /\ [][Next]_vars

-----------------------------------------------------------------------------
(* Properties *)

\* Every variable keeps to its set, what tasks and regenerations have read included
\* (process, UploadSubJobBundle, RegenerateManifestForJob).
TypeOK ==
  /\ StoreTypeOK
  /\ task \subseteq Task
  /\ dir \in [Areas -> Directory]
  /\ bundle \in {"none", "available"}
  /\ mpd \in Areas \cup {NoArea}
  /\ regen \in [Admins -> Regen]
  /\ spoiled \subseteq {"clash", "manifest", "sidecar"}
  /\ restarts \in 0..MaxRestarts

\* Nothing of the server is at work on the item.
Quiet == \A x \in task : x.pc = "work" /\ ~Local(x)
Finished == job[Item].status = "done" /\ Quiet

\* The manifest of a finished bundle names only renditions whose segments are all
\* there, whatever failed, crashed, was retried, overwritten or uploaded late, and
\* whichever profiles earlier jobs had: of all it names once a sub-job has written it
\* since the last such accident, of those that are renditions of this job before.
\* Sub-jobs that have hit each other's files are exempt.
ManifestBacked ==
  Finished /\ bundle = "available" /\ "clash" \notin spoiled =>
    \A k \in dir[mpd].manifest \ {Subtitles} :
      "manifest" \notin spoiled \/ SubExists(Item, k) => dir[mpd].files[k] = "complete"

\* A finished job has a bundle: the database points to a manifest that names every
\* rendition of the job and its subtitles, with a sidecar beside it, though each
\* sub-job regenerates the manifest on its own and none knows it is the last.  A
\* listing, manifest, update or sidecar that fails after the sub-job is done, a crash
\* there, and a manifest or status overwritten by an older one prevent it, and nobody
\* tries again; but the next sub-job that gets through makes all of them good.
\* Sub-jobs that have hit each other's files are exempt.
ManifestComplete ==
  Finished /\ spoiled \subseteq {"sidecar"} =>
    /\ bundle = "available"
    /\ dir[mpd].manifest = DoneRenditions \cup SubtitleFiles(mpd)
    /\ "sidecar" \notin spoiled => dir[mpd].sidecar # {}

\* The segments a manifest refers to lie beside it: what the comment of GenerateMPD
\* expects of every rendition, here of a bundle that nothing spoiled.
SegmentsBesideManifest ==
  Finished /\ bundle = "available" /\ spoiled = {} =>
    \A k \in dir[mpd].manifest \ {Subtitles} : dir[mpd].files[k] # "none"

=============================================================================
