----------------------- MODULE TranscodeBundleProofs -----------------------
(***************************************************************************)
(* Theorems about TranscodeBundle, for every set of media items, profiles, *)
(* goroutines, workers and administrators.  Types and the refinement of    *)
(* the store hold for any storage areas.  What the manifest names is       *)
(* proved for one area: sub-jobs that pick areas of their own part the     *)
(* segments from the manifest, as the run bundle_areas shows.              *)
(***************************************************************************)
EXTENDS TranscodeBundle, TranscodeStoreProofs

Pcs == Before \cup {"work", "receive", "write", "end"} \cup After

\* A task that goes on, and nothing else of it changes.
LEMMA TaskAt ==
  ASSUME NEW x \in Task, NEW pc \in Pcs, NEW y, y = [x EXCEPT !.pc = pc]
  PROVE  /\ y \in Task /\ y.pc = pc
         /\ y.e = x.e /\ y.k = x.k /\ y.g = x.g /\ y.area = x.area /\ y.names = x.names
  BY DEF Task, Pcs

\* What a task is.
LEMMA TaskParts ==
  ASSUME NEW x \in Task
  PROVE  /\ x.e \in Locals \cup Workers /\ x.k \in Kinds /\ x.g \in 0..MaxGen /\ x.pc \in Pcs
         /\ x.area \in Areas \cup {NoArea} /\ x.names \subseteq Kinds
  BY DEF Task, Pcs

-----------------------------------------------------------------------------
(* Every step is a step of the store *)

LEMMA EndIsOfStore ==
  ASSUME TypeOK, NEW x \in task, NEW s \in Ended, EndSubJob(x, s)
  PROVE  UpdateSubJobStatus(Item, x.k, s) \/ UNCHANGED storeVars
  BY SMTT(60) DEF EndSubJob

LEMMA StepOfStore ==
  ASSUME TypeOK, [Next]_vars
  PROVE  [StoreNext]_storeVars
<1>0. Item \in Media /\ \A x \in task : x.k \in Kinds
  BY BundleAssumption, TaskParts DEF TypeOK
<1>1. ASSUME NEW P \in EligibleProfiles, Enqueue(P)
      PROVE  StoreNext
  <2>1. clock \in 0..MaxClock
    BY DEF TypeOK, StoreTypeOK
  <2>2. \E at \in 0..MaxClock : CreateTranscodeJob(Item, P) \/ ResetTranscodeJob(Item, at, P)
    BY <1>1, <2>1 DEF Enqueue
  <2>3. QED
    BY <1>0, <2>2 DEF StoreNext, Serving
<1>2. ASSUME NEW e \in Locals \cup Workers, Claim(e)
      PROVE  StoreNext
  <2>1. PICK k \in Kinds : ClaimNextSubJob(<<Item, k>>, IF e \in Locals THEN NoWorker ELSE e)
    BY <1>2 DEF Claim
  <2>2. PICK w \in Owners : w = IF e \in Locals THEN NoWorker ELSE e
    BY DEF Owners
  <2>3. PICK s \in Media \X Kinds : s = <<Item, k>>
    BY <1>0
  <2>4. ClaimNextSubJob(s, w)
    BY <2>1, <2>2, <2>3
  <2>5. QED
    BY <2>4 DEF StoreNext, Serving
<1>3. ASSUME StoreCall
      PROVE  StoreNext
  BY <1>3 DEF StoreCall, StoreNext, Serving
<1>4. ASSUME NEW x \in task, NEW s \in Ended, EndSubJob(x, s)
      PROVE  [StoreNext]_storeVars
  BY <1>0, <1>4, EndIsOfStore DEF StoreNext, Serving
<1>5. ASSUME NEW x \in task, Fails(x)
      PROVE  [StoreNext]_storeVars
  <2>1. "failed" \in Ended
    BY DEF Ended
  <2>2. EndSubJob(x, "failed") \/ UNCHANGED storeVars
    BY <1>5 DEF Fails
  <2>3. QED
    BY <1>4, <2>1, <2>2
<1>6. ASSUME NEW x \in task, WorkerFails(x)
      PROVE  [StoreNext]_storeVars
  <2>1. "failed" \in Ended
    BY DEF Ended
  <2>2. EndSubJob(x, "failed") \/ UNCHANGED storeVars
    BY <1>6 DEF WorkerFails
  <2>3. QED
    BY <1>4, <2>1, <2>2
<1>7. ASSUME NEW x \in task, MarkDone(x)
      PROVE  [StoreNext]_storeVars
  <2>1. "done" \in Ended
    BY DEF Ended
  <2>2. EndSubJob(x, "done") \/ UNCHANGED storeVars
    BY <1>7 DEF MarkDone
  <2>3. QED
    BY <1>4, <2>1, <2>2
<1>8. CASE UNCHANGED storeVars
  BY <1>8
<1>9. CASE Restart
  BY <1>9 DEF Restart, StoreNext
<1>10. QED
  BY <1>1, <1>2, <1>3, <1>5, <1>6, <1>7, <1>8, <1>9, Zenon
  DEF Next, vars, ReadItem, CountStarted, CleanUp, UnsetBundle, CheckOwner, SelectArea, Written,
      ListDone, GenerateMPD, Publish, WriteSidecar, BreaksOff, RegenerateReads, RegenerateWrites

-----------------------------------------------------------------------------
(* Directories                                                             *)

Parts == {"none", "partial", "complete"}

LEMMA EmptyDirectory == NoDirectory \in Directory
  BY DEF NoDirectory, Directory

\* The directories after files, a manifest or a sidecar were written to that of a.
WithFiles(d, a, k, f) == [d EXCEPT ![a].exists = TRUE, ![a].files[k] = f]
WithManifest(d, a, N) == [d EXCEPT ![a].exists = TRUE, ![a].manifest = N]
WithSidecar(d, a, P) == [d EXCEPT ![a].exists = TRUE, ![a].sidecar = P]

\* Writing files into a directory.
LEMMA FilesWritten ==
  ASSUME NEW d \in [Areas -> Directory], NEW a \in Areas, NEW k \in Kinds, NEW f \in Parts,
         NEW e, e = WithFiles(d, a, k, f)
  PROVE  /\ e \in [Areas -> Directory]
         /\ \A b \in Areas : e[b].manifest = d[b].manifest /\ e[b].sidecar = d[b].sidecar
         /\ \A b \in Areas, j \in Kinds :
              e[b].files[j] = IF b = a /\ j = k THEN f ELSE d[b].files[j]
<1>1. PICK r : r = d[a]
  OBVIOUS
<1>2. PICK q : q = [r EXCEPT !.exists = TRUE, !.files[k] = f]
  OBVIOUS
<1>3. r \in Directory
  BY <1>1
<1>4. PICK g : g = [r.files EXCEPT ![k] = f]
  OBVIOUS
<1>5. g \in [Kinds -> Parts] /\ \A j \in Kinds : g[j] = IF j = k THEN f ELSE r.files[j]
  BY <1>3, <1>4 DEF Directory, Parts
<1>6. /\ q = [exists |-> TRUE, files |-> g, manifest |-> r.manifest, sidecar |-> r.sidecar]
  BY <1>2, <1>3, <1>4 DEF Directory
<1>7. q \in Directory
  BY <1>3, <1>5, <1>6 DEF Directory, Parts
<1>8. e = [d EXCEPT ![a] = q]
  BY <1>1, <1>2 DEF WithFiles
<1>9. e \in [Areas -> Directory]
  BY <1>7, <1>8
<1>10. /\ e[a] = q /\ \A b \in Areas : b # a => e[b] = d[b]
  BY <1>8
<1>11. q.manifest = r.manifest /\ q.sidecar = r.sidecar /\ q.files = g
  BY <1>6
<1>12. QED
  BY <1>1, <1>5, <1>9, <1>10, <1>11

\* Writing the manifest.
LEMMA ManifestWritten ==
  ASSUME NEW d \in [Areas -> Directory], NEW a \in Areas, NEW N \in SUBSET Kinds,
         NEW e, e = WithManifest(d, a, N)
  PROVE  /\ e \in [Areas -> Directory]
         /\ \A b \in Areas : e[b].files = d[b].files /\ e[b].sidecar = d[b].sidecar
         /\ \A b \in Areas : e[b].manifest = IF b = a THEN N ELSE d[b].manifest
<1>1. PICK r : r = d[a]
  OBVIOUS
<1>2. PICK q : q = [r EXCEPT !.exists = TRUE, !.manifest = N]
  OBVIOUS
<1>3. r \in Directory
  BY <1>1
<1>4. q = [exists |-> TRUE, files |-> r.files, manifest |-> N, sidecar |-> r.sidecar]
  BY <1>2, <1>3 DEF Directory
<1>5. q \in Directory
  BY <1>3, <1>4 DEF Directory
<1>6. e = [d EXCEPT ![a] = q]
  BY <1>1, <1>2 DEF WithManifest
<1>7. q.files = r.files /\ q.sidecar = r.sidecar /\ q.manifest = N
  BY <1>4
<1>8. QED
  BY <1>1, <1>5, <1>6, <1>7

\* Writing the sidecar.
LEMMA SidecarWritten ==
  ASSUME NEW d \in [Areas -> Directory], NEW a \in Areas, NEW P \in SUBSET Profiles,
         NEW e, e = WithSidecar(d, a, P)
  PROVE  /\ e \in [Areas -> Directory]
         /\ \A b \in Areas : e[b].files = d[b].files /\ e[b].manifest = d[b].manifest
         /\ \A b \in Areas : e[b].sidecar = IF b = a THEN P ELSE d[b].sidecar
<1>1. PICK r : r = d[a]
  OBVIOUS
<1>2. PICK q : q = [r EXCEPT !.exists = TRUE, !.sidecar = P]
  OBVIOUS
<1>3. r \in Directory
  BY <1>1
<1>4. q = [exists |-> TRUE, files |-> r.files, manifest |-> r.manifest, sidecar |-> P]
  BY <1>2, <1>3 DEF Directory
<1>5. q \in Directory
  BY <1>3, <1>4 DEF Directory
<1>6. e = [d EXCEPT ![a] = q]
  BY <1>1, <1>2 DEF WithSidecar
<1>7. q.files = r.files /\ q.sidecar = P /\ q.manifest = r.manifest
  BY <1>4
<1>8. QED
  BY <1>1, <1>5, <1>6, <1>7

\* What each action that writes to a directory writes.
LEMMA SelectWrites ==
  ASSUME TypeOK, NEW x \in task, NEW a \in Areas,
         dir' = [dir EXCEPT ![a].exists = TRUE,
                            ![a].files[x.k] = IF x.k = Subtitles THEN @ ELSE "partial"]
  PROVE  /\ dir' \in [Areas -> Directory]
         /\ \A b \in Areas : dir'[b].manifest = dir[b].manifest /\ dir'[b].sidecar = dir[b].sidecar
         /\ \A b \in Areas, j \in Kinds :
              dir'[b].files[j] = IF b = a /\ j = x.k /\ x.k # Subtitles THEN "partial"
                                 ELSE dir[b].files[j]
<1>1. x.k \in Kinds /\ dir \in [Areas -> Directory]
  BY TaskParts DEF TypeOK
<1>2. dir[a].files \in [Kinds -> Parts]
  BY <1>1 DEF Directory, Parts
<1>3. PICK f \in Parts : f = IF x.k = Subtitles THEN dir[a].files[x.k] ELSE "partial"
  BY <1>1, <1>2 DEF Parts
<1>4. dir' = [dir EXCEPT ![a].exists = TRUE, ![a].files[x.k] = f]
  BY <1>3
<1>5. PICK e : e = dir'
  OBVIOUS
<1>6. PICK d \in [Areas -> Directory] : d = dir
  BY <1>1
<1>7. PICK k \in Kinds : k = x.k
  BY <1>1
<1>8. e = WithFiles(d, a, k, f)
  BY <1>4, <1>5, <1>6, <1>7 DEF WithFiles
<1>9. /\ e \in [Areas -> Directory]
      /\ \A b \in Areas : e[b].manifest = d[b].manifest /\ e[b].sidecar = d[b].sidecar
      /\ \A b \in Areas, j \in Kinds :
           e[b].files[j] = IF b = a /\ j = k THEN f ELSE d[b].files[j]
  BY <1>8, FilesWritten
<1>10. QED
  BY <1>3, <1>5, <1>6, <1>7, <1>9

LEMMA ResultWrites ==
  ASSUME TypeOK, NEW x \in task, x.area \in Areas, NEW f \in Parts, Result(x, f)
  PROVE  /\ dir' \in [Areas -> Directory]
         /\ \A b \in Areas : dir'[b].manifest = dir[b].manifest /\ dir'[b].sidecar = dir[b].sidecar
         /\ \A b \in Areas, j \in Kinds :
              dir'[b].files[j] = IF b = x.area /\ j = x.k THEN f ELSE dir[b].files[j]
<1>1. PICK d \in [Areas -> Directory] : d = dir
  BY DEF TypeOK
<1>2. PICK k \in Kinds : k = x.k
  BY TaskParts DEF TypeOK
<1>3. PICK a \in Areas : a = x.area
  OBVIOUS
<1>4. PICK e : e = dir'
  OBVIOUS
<1>5. e = WithFiles(d, a, k, f)
  BY <1>1, <1>2, <1>3, <1>4 DEF Result, WithFiles
<1>6. /\ e \in [Areas -> Directory]
      /\ \A b \in Areas : e[b].manifest = d[b].manifest /\ e[b].sidecar = d[b].sidecar
      /\ \A b \in Areas, j \in Kinds :
           e[b].files[j] = IF b = a /\ j = k THEN f ELSE d[b].files[j]
  BY <1>5, FilesWritten
<1>7. QED
  BY <1>1, <1>2, <1>3, <1>4, <1>6

LEMMA GenerateWrites ==
  ASSUME TypeOK, NEW a \in Areas, NEW N \in SUBSET Kinds,
         dir' = [dir EXCEPT ![a].exists = TRUE, ![a].manifest = N]
  PROVE  /\ dir' \in [Areas -> Directory]
         /\ \A b \in Areas : dir'[b].files = dir[b].files /\ dir'[b].sidecar = dir[b].sidecar
         /\ \A b \in Areas : dir'[b].manifest = IF b = a THEN N ELSE dir[b].manifest
<1>1. PICK d \in [Areas -> Directory] : d = dir
  BY DEF TypeOK
<1>2. PICK e : e = dir'
  OBVIOUS
<1>3. e = WithManifest(d, a, N)
  BY <1>1, <1>2 DEF WithManifest
<1>4. /\ e \in [Areas -> Directory]
      /\ \A b \in Areas : e[b].files = d[b].files /\ e[b].sidecar = d[b].sidecar
      /\ \A b \in Areas : e[b].manifest = IF b = a THEN N ELSE d[b].manifest
  BY <1>3, ManifestWritten
<1>5. QED
  BY <1>1, <1>2, <1>4

LEMMA SidecarWrites ==
  ASSUME TypeOK, NEW a \in Areas, NEW P \in SUBSET Profiles,
         dir' = [dir EXCEPT ![a].exists = TRUE, ![a].sidecar = P]
  PROVE  /\ dir' \in [Areas -> Directory]
         /\ \A b \in Areas : dir'[b].files = dir[b].files /\ dir'[b].manifest = dir[b].manifest
         /\ \A b \in Areas : dir'[b].sidecar = IF b = a THEN P ELSE dir[b].sidecar
<1>1. PICK d \in [Areas -> Directory] : d = dir
  BY DEF TypeOK
<1>2. PICK e : e = dir'
  OBVIOUS
<1>3. e = WithSidecar(d, a, P)
  BY <1>1, <1>2 DEF WithSidecar
<1>4. /\ e \in [Areas -> Directory]
      /\ \A b \in Areas : e[b].files = d[b].files /\ e[b].manifest = d[b].manifest
      /\ \A b \in Areas : e[b].sidecar = IF b = a THEN P ELSE d[b].sidecar
  BY <1>3, SidecarWritten
<1>5. QED
  BY <1>1, <1>2, <1>4

\* The sub-job that breaks off leaves an empty file, or none of its own.
LEMMA BreaksWrites ==
  ASSUME TypeOK, NEW x \in task, BreaksOff(x), x.pc = "manifest" => x.area \in Areas
  PROVE  /\ dir' \in [Areas -> Directory]
         /\ \A b \in Areas : /\ dir'[b].files = dir[b].files
                             /\ x.pc # "manifest" => dir'[b].manifest = dir[b].manifest
                             /\ x.pc # "sidecar" => dir'[b].sidecar = dir[b].sidecar
<1>1. PICK N \in SUBSET Kinds, P \in SUBSET Profiles : N = {} /\ P = {}
  OBVIOUS
<1>2. CASE dir' = dir
  BY <1>2 DEF TypeOK
<1>3. CASE /\ x.pc = "manifest"
           /\ dir' = [dir EXCEPT ![x.area].exists = TRUE, ![x.area].manifest = {}]
  <2>1. PICK a \in Areas : a = x.area
    BY <1>3
  <2>2. dir' = [dir EXCEPT ![a].exists = TRUE, ![a].manifest = N]
    BY <1>1, <1>3, <2>1
  <2>3. QED
    BY <1>3, <2>2, GenerateWrites
<1>4. CASE /\ x.pc = "sidecar" /\ mpd # NoArea
           /\ dir' = [dir EXCEPT ![mpd].exists = TRUE, ![mpd].sidecar = {}]
  <2>1. PICK a \in Areas : a = mpd
    BY <1>4 DEF TypeOK
  <2>2. dir' = [dir EXCEPT ![a].exists = TRUE, ![a].sidecar = P]
    BY <1>1, <1>4, <2>1
  <2>3. QED
    BY <1>4, <2>2, SidecarWrites
<1>5. QED
  BY <1>2, <1>3, <1>4 DEF BreaksOff

LEMMA CleanWrites ==
  ASSUME TypeOK, NEW a \in Areas, dir' = [dir EXCEPT ![a] = NoDirectory]
  PROVE  /\ dir' \in [Areas -> Directory]
         /\ \A b \in Areas : b # a => dir'[b] = dir[b]
         /\ \A k \in Kinds : dir'[a].files[k] = "none"
         /\ dir'[a].manifest = {} /\ dir'[a].sidecar = {}
<1>1. dir \in [Areas -> Directory]
  BY DEF TypeOK
<1>2. dir'[a] = NoDirectory
  BY <1>1
<1>3. QED
  BY <1>1, <1>2, EmptyDirectory DEF NoDirectory

-----------------------------------------------------------------------------
(* Types.  Who writes to a directory or points to one has an area.          *)

HasArea(x) == x.pc \in {"write", "end"} \cup After => x.area \in Areas

Placed ==
  /\ \A x \in task : HasArea(x)
  /\ bundle = "available" => mpd \in Areas
  /\ \A ad \in Admins : regen[ad] # Nothing => regen[ad].area \in Areas

TasksOK == task \subseteq Task /\ \A x \in task : HasArea(x)

RestOK ==
  /\ dir \in [Areas -> Directory]
  /\ bundle \in {"none", "available"}
  /\ mpd \in Areas \cup {NoArea}
  /\ bundle = "available" => mpd \in Areas
  /\ regen \in [Admins -> Regen]
  /\ \A ad \in Admins : regen[ad] # Nothing => regen[ad].area \in Areas
  /\ spoiled \subseteq {"clash", "manifest", "sidecar"}
  /\ restarts \in 0..MaxRestarts

LEMMA PartsOfType == TypeOK /\ Placed <=> StoreTypeOK /\ TasksOK /\ RestOK
  BY DEF TypeOK, Placed, TasksOK, RestOK

LEMMA TypedInit == Init => TypeOK /\ Placed
<1> SUFFICES ASSUME Init PROVE TypeOK /\ Placed
  OBVIOUS
<1>1. StoreTypeOK
  BY TypeInit DEF Init
<1>2. TasksOK
  BY DEF Init, TasksOK
<1>3. Nothing \in Regen
  BY DEF Nothing, Regen
<1>4. RestOK
  BY <1>3, EmptyDirectory, BundleAssumption DEF Init, RestOK
<1>5. QED
  BY <1>1, <1>2, <1>4, PartsOfType

LEMMA TaskBecomes ==
  ASSUME TasksOK, NEW x \in task, NEW y \in Task, HasArea(y), Becomes(x, y)
  PROVE  TasksOK'
  BY DEF TasksOK, Becomes, HasArea

LEMMA TaskLeaves ==
  ASSUME TasksOK, NEW x \in task, Leave(x)
  PROVE  TasksOK'
  BY DEF TasksOK, Leave, HasArea

\* A step to a pc that needs no area, or from one that had it.
LEMMA TaskGoes ==
  ASSUME TasksOK, NEW x \in task, NEW pc \in Pcs,
         pc \notin {"write", "end"} \cup After \/ x.pc \in {"write", "end"} \cup After,
         Goto(x, pc)
  PROVE  TasksOK'
<1>1. x \in Task /\ HasArea(x)
  BY DEF TasksOK
<1>2. PICK y : y = [x EXCEPT !.pc = pc]
  OBVIOUS
<1>3. y \in Task /\ y.pc = pc /\ y.area = x.area
  BY <1>1, <1>2, TaskAt
<1>4. HasArea(y)
  BY <1>1, <1>3 DEF HasArea
<1>5. QED
  BY <1>2, <1>3, <1>4, TaskBecomes DEF Goto

LEMMA TasksStep ==
  ASSUME TypeOK, Placed, [Next]_vars
  PROVE  TasksOK'
<1>0. TasksOK /\ Item \in Media /\ \A x \in task : x \in Task
  BY BundleAssumption, PartsOfType DEF TasksOK
<1> USE DEF Pcs, Before, After
<1>1. ASSUME NEW e \in Locals \cup Workers, Claim(e)
      PROVE  TasksOK'
  <2>1. PICK k \in Kinds :
          task' = task \cup {[e |-> e, k |-> k, g |-> gen[Item], pc |-> "read",
                              seen |-> "none", area |-> NoArea, names |-> {}]}
    BY <1>1 DEF Claim
  <2>2. PICK y : y = [e |-> e, k |-> k, g |-> gen[Item], pc |-> "read",
                      seen |-> "none", area |-> NoArea, names |-> {}]
    OBVIOUS
  <2>3. gen[Item] \in 0..MaxGen
    BY <1>0 DEF TypeOK, StoreTypeOK
  <2>4. y \in Task /\ y.pc = "read"
    BY <2>2, <2>3 DEF Task
  <2>5. HasArea(y)
    BY <2>4 DEF HasArea
  <2>6. QED
    BY <1>0, <2>1, <2>2, <2>4, <2>5 DEF TasksOK, HasArea
<1>2. ASSUME NEW x \in task, ReadItem(x)
      PROVE  TasksOK'
  <2>1. PICK y : y = [x EXCEPT !.pc = "count", !.seen = bundle]
    OBVIOUS
  <2>2. bundle \in {"none", "available"} /\ x \in Task
    BY <1>0 DEF TypeOK
  <2>3. y \in Task /\ y.pc = "count"
    BY <2>1, <2>2 DEF Task
  <2>4. HasArea(y)
    BY <2>3 DEF HasArea
  <2>5. QED
    BY <1>0, <1>2, <2>1, <2>3, <2>4, TaskBecomes, TaskGoes DEF ReadItem
<1>3. ASSUME NEW x \in task, CountStarted(x)
      PROVE  TasksOK'
  <2>1. PICK pc \in {"clean", "work"} : Becomes(x, [x EXCEPT !.seen = "none", !.pc = pc])
    <3>1. PICK first \in {IsFirst, FALSE} :
            Becomes(x, [x EXCEPT !.seen = "none",
                          !.pc = IF first /\ x.seen = "available" THEN "clean" ELSE "work"])
      BY <1>3 DEF CountStarted
    <3>2. PICK pc \in {"clean", "work"} :
            pc = IF first /\ x.seen = "available" THEN "clean" ELSE "work"
      OBVIOUS
    <3>3. QED
      BY <3>1, <3>2
  <2>2. PICK y : y = [x EXCEPT !.pc = pc, !.seen = "none"]
    OBVIOUS
  <2>3. y \in Task /\ y.pc = pc
    BY <1>0, <2>1, <2>2 DEF Task
  <2>4. HasArea(y)
    BY <2>1, <2>3 DEF HasArea
  <2>5. [x EXCEPT !.seen = "none", !.pc = pc] = y
    BY <1>0, <2>2 DEF Task
  <2>6. QED
    BY <1>0, <2>1, <2>3, <2>4, <2>5, TaskBecomes
<1>4. ASSUME NEW x \in task, SelectArea(x)
      PROVE  TasksOK'
  <2>1. PICK a \in Areas : Becomes(x, [x EXCEPT !.pc = "write", !.area = a])
    BY <1>4 DEF SelectArea
  <2>2. PICK y : y = [x EXCEPT !.pc = "write", !.area = a]
    OBVIOUS
  <2>3. y \in Task /\ y.area = a
    BY <1>0, <2>2 DEF Task
  <2>4. HasArea(y)
    BY <2>3 DEF HasArea
  <2>5. QED
    BY <1>0, <2>1, <2>2, <2>3, <2>4, TaskBecomes
<1>5. ASSUME NEW x \in task, ListDone(x)
      PROVE  TasksOK'
  <2>1. CASE DoneRenditions = {}
    BY <1>0, <1>5, <2>1, TaskGoes DEF ListDone
  <2>2. CASE DoneRenditions # {}
    <3>1. PICK N \in SUBSET Kinds : N = DoneRenditions \cup SubtitleFiles(x.area)
      BY DEF DoneRenditions, SubtitleFiles, Kinds
    <3>2. PICK y : y = [x EXCEPT !.pc = "manifest", !.names = N]
      OBVIOUS
    <3>3. y \in Task /\ y.area = x.area
      BY <1>0, <3>2 DEF Task
    <3>4. x.area \in Areas
      BY <1>0, <1>5 DEF ListDone, TasksOK, HasArea
    <3>5. HasArea(y)
      BY <3>3, <3>4 DEF HasArea
    <3>6. QED
      BY <1>0, <1>5, <2>2, <3>1, <3>2, <3>3, <3>5, TaskBecomes DEF ListDone
  <2>3. QED
    BY <2>1, <2>2
<1>6. ASSUME NEW x \in task, GenerateMPD(x)
      PROVE  TasksOK'
  <2>1. PICK y : y = [x EXCEPT !.pc = "publish", !.names = {}]
    OBVIOUS
  <2>2. y \in Task /\ y.area = x.area
    BY <1>0, <2>1 DEF Task
  <2>3. x.area \in Areas
    BY <1>0, <1>6 DEF GenerateMPD, TasksOK, HasArea
  <2>4. HasArea(y)
    BY <2>2, <2>3 DEF HasArea
  <2>5. QED
    BY <1>0, <1>6, <2>1, <2>2, <2>4, TaskBecomes DEF GenerateMPD
<1>7. ASSUME NEW x \in task, CleanUp(x) \/ UnsetBundle(x) \/ CheckOwner(x)
      PROVE  TasksOK'
  BY <1>0, <1>7, TaskGoes, TaskLeaves DEF CleanUp, UnsetBundle, CheckOwner
<1>8. ASSUME NEW x \in task, Written(x) \/ MarkDone(x) \/ Publish(x)
      PROVE  TasksOK'
  BY <1>0, <1>8, TaskGoes DEF Written, MarkDone, Publish
<1>9. ASSUME NEW x \in task, Fails(x) \/ WorkerFails(x) \/ WriteSidecar(x)
      PROVE  TasksOK'
  BY <1>0, <1>9, TaskLeaves DEF Fails, WorkerFails, WriteSidecar
<1>10. CASE Restart
  BY <1>0, <1>10 DEF Restart, TasksOK, HasArea
<1>11. ASSUME task' = task
       PROVE  TasksOK'
  BY <1>0, <1>11 DEF TasksOK, HasArea
<1>12. ASSUME NEW x \in task, BreaksOff(x)
       PROVE  TasksOK'
  <2>1. PICK y : y = [x EXCEPT !.pc = "sidecar", !.names = {}]
    OBVIOUS
  <2>2. y \in Task /\ y.area = x.area
    BY <1>0, <2>1 DEF Task
  <2>3. x.area \in Areas
    BY <1>0, <1>12 DEF BreaksOff, TasksOK, HasArea
  <2>4. HasArea(y)
    BY <2>2, <2>3 DEF HasArea
  <2>5. Becomes(x, y) \/ Leave(x)
    BY <1>12, <2>1 DEF BreaksOff
  <2>6. QED
    BY <1>0, <2>2, <2>4, <2>5, TaskBecomes, TaskLeaves
<1>13. QED
  BY <1>1, <1>2, <1>3, <1>4, <1>5, <1>6, <1>7, <1>8, <1>9, <1>10, <1>11, <1>12
  DEF Next, vars, bundleVars, Enqueue, StoreCall, RegenerateReads, RegenerateWrites

LEMMA RestStep ==
  ASSUME TypeOK, Placed, [Next]_vars
  PROVE  RestOK'
<1>0. /\ RestOK /\ dir \in [Areas -> Directory] /\ NoDirectory \in Directory /\ NoArea \notin Areas
      /\ \A x \in task : x \in Task
  BY BundleAssumption, PartsOfType, EmptyDirectory DEF RestOK, TasksOK
<1>1. Nothing \in Regen
  BY DEF Nothing, Regen
<1>2. ASSUME NEW x \in task, CleanUp(x)
      PROVE  RestOK'
  <2>1. dir' \in [Areas -> Directory]
    BY <1>0, <1>2 DEF CleanUp
  <2>2. QED
    BY <1>0, <1>2, <2>1 DEF CleanUp, RestOK
<1>3. ASSUME NEW x \in task, UnsetBundle(x)
      PROVE  RestOK'
  BY <1>0, <1>3 DEF UnsetBundle, RestOK
<1>4. ASSUME NEW x \in task, SelectArea(x)
      PROVE  RestOK'
  <2>1. dir' \in [Areas -> Directory]
    BY <1>4, SelectWrites DEF SelectArea
  <2>2. QED
    BY <1>0, <1>4, <2>1 DEF SelectArea, RestOK
<1>5. ASSUME NEW x \in task, Written(x)
      PROVE  RestOK'
  <2>1. x.area \in Areas
    BY <1>5 DEF Written, Placed, HasArea
  <2>2. dir' \in [Areas -> Directory]
    BY <1>0, <1>5, <2>1, ResultWrites DEF Written, Transcoded, Unzipped, Parts
  <2>3. QED
    BY <1>0, <1>5, <2>2 DEF Written, RestOK
<1>6. ASSUME NEW x \in task, GenerateMPD(x)
      PROVE  RestOK'
  <2>1. x.area \in Areas
    BY <1>6 DEF GenerateMPD, Placed, HasArea, After
  <2>2. x.names \in SUBSET Kinds
    BY <1>0, TaskParts
  <2>3. dir' \in [Areas -> Directory]
    BY <1>6, <2>1, <2>2, GenerateWrites DEF GenerateMPD
  <2>4. QED
    BY <1>0, <1>6, <2>3 DEF GenerateMPD, RestOK
<1>7. ASSUME NEW x \in task, Publish(x)
      PROVE  RestOK'
  <2>1. x.area \in Areas
    BY <1>7 DEF Publish, Placed, HasArea, After
  <2>2. QED
    BY <1>0, <1>7, <2>1 DEF Publish, RestOK
<1>8. ASSUME NEW x \in task, WriteSidecar(x)
      PROVE  RestOK'
  <2>1. PICK P \in EligibleProfiles :
          dir' = [dir EXCEPT ![mpd].exists = TRUE, ![mpd].sidecar = P]
    BY <1>8 DEF WriteSidecar
  <2>2. mpd \in Areas /\ P \in SUBSET Profiles
    BY <1>0, <1>8 DEF WriteSidecar, RestOK, EligibleProfiles
  <2>3. dir' \in [Areas -> Directory]
    BY <2>1, <2>2, SidecarWrites
  <2>4. QED
    BY <1>0, <1>8, <2>3 DEF WriteSidecar, RestOK
<1>9. ASSUME NEW ad \in Admins, RegenerateReads(ad)
      PROVE  RestOK'
  <2>1. mpd \in Areas
    BY <1>0, <1>9 DEF RegenerateReads, RestOK
  <2>2. PICK R \in {Renditions, dir[mpd].sidecar} :
          regen' = [regen EXCEPT ![ad] = [area |-> mpd, names |-> R \cup SubtitleFiles(mpd)]]
    BY <1>9 DEF RegenerateReads
  <2>3. R \cup SubtitleFiles(mpd) \subseteq Kinds
    BY <1>0, <2>1 DEF Renditions, DoneRenditions, SubtitleFiles, Kinds, Directory
  <2>4. PICK r : r = [area |-> mpd, names |-> R \cup SubtitleFiles(mpd)]
    OBVIOUS
  <2>5. r \in Regen /\ r.area \in Areas
    BY <2>1, <2>3, <2>4 DEF Regen
  <2>6. regen' = [regen EXCEPT ![ad] = r]
    BY <2>2, <2>4
  <2>7. QED
    BY <1>0, <1>9, <2>5, <2>6 DEF RegenerateReads, RestOK
<1>10. ASSUME NEW ad \in Admins, RegenerateWrites(ad)
      PROVE  RestOK'
  <2>1. regen[ad].area \in Areas /\ regen[ad].names \in SUBSET Kinds
    BY <1>0, <1>10, Zenon DEF RegenerateWrites, RestOK, Regen
  <2>2. dir' \in [Areas -> Directory]
    <3>1. PICK N \in {regen[ad].names, {}} :
            dir' = [dir EXCEPT ![regen[ad].area].exists = TRUE, ![regen[ad].area].manifest = N]
      BY <1>10 DEF RegenerateWrites
    <3>2. N \in SUBSET Kinds
      BY <2>1
    <3>3. QED
      BY <2>1, <3>1, <3>2, GenerateWrites
  <2>3. regen' = [regen EXCEPT ![ad] = Nothing]
    BY <1>10 DEF RegenerateWrites
  <2>4. regen' \in [Admins -> Regen] /\ \A a \in Admins : regen'[a] # Nothing => regen'[a].area \in Areas
    BY <1>0, <1>1, <2>3 DEF RestOK
  <2>5. spoiled' \subseteq {"clash", "manifest", "sidecar"}
    BY <1>0, <1>10 DEF RegenerateWrites, RestOK
  <2>6. QED
    BY <1>0, <1>10, <2>2, <2>4, <2>5 DEF RegenerateWrites, RestOK
<1>11. CASE Restart
  <2>1. spoiled' \subseteq {"clash", "manifest", "sidecar"}
    BY <1>0, <1>11 DEF Restart, Behind, RestOK
  <2>2. QED
    BY <1>0, <1>1, <1>11, <2>1, BundleAssumption DEF Restart, RestOK
<1>12. ASSUME UNCHANGED <<dir, bundle, mpd, regen, spoiled, restarts>>
       PROVE  RestOK'
  BY <1>0, <1>12 DEF RestOK
<1>13. ASSUME NEW x \in task, BreaksOff(x)
       PROVE  RestOK'
  <2>1. x.area \in Areas
    BY <1>13 DEF BreaksOff, Placed, HasArea
  <2>2. dir' \in [Areas -> Directory]
    BY <1>13, <2>1, BreaksWrites
  <2>3. spoiled' \subseteq {"clash", "manifest", "sidecar"}
    BY <1>0, <1>13 DEF BreaksOff, Behind, RestOK
  <2>4. QED
    BY <1>0, <1>13, <2>2, <2>3 DEF BreaksOff, RestOK
<1>14. QED
  BY <1>2, <1>3, <1>4, <1>5, <1>6, <1>7, <1>8, <1>9, <1>10, <1>11, <1>12, <1>13
  DEF Next, vars, bundleVars, Enqueue, Claim, StoreCall, ReadItem, CountStarted, CheckOwner,
      Fails, WorkerFails, MarkDone, ListDone

LEMMA TypedStep == TypeOK /\ Placed /\ [Next]_vars => (TypeOK /\ Placed)'
<1> SUFFICES ASSUME TypeOK, Placed, [Next]_vars
             PROVE  (TypeOK /\ Placed)'
  OBVIOUS
<1>1. StoreTypeOK'
  BY StepOfStore, TypeStep DEF TypeOK
<1>2. QED
  BY <1>1, TasksStep, RestStep DEF TypeOK, Placed, TasksOK, RestOK

\* The rows, the directories and all that sub-jobs, uploads and regenerations have read
\* of them keep to their sets, for any number of each.
THEOREM BundleTyped == Spec => []TypeOK
<1>1. Spec => [](TypeOK /\ Placed)
  BY TypedInit, TypedStep, PTL DEF Spec
<1>2. QED
  BY <1>1, PTL

LEMMA TypedAlways == Spec => [](TypeOK /\ Placed)
  BY TypedInit, TypedStep, PTL DEF Spec

\* The goroutines, the upload handlers and the crashes of TranscodeBundle change the
\* rows of the queue by transactions of TranscodeStore only, so that all that is proved
\* of the store holds of them.
THEOREM BundleImplementsStore == Spec => StoreSpec
<1>1. Init => StoreInit
  BY DEF Init
<1>2. TypeOK /\ [Next]_vars => [StoreNext]_storeVars
  BY StepOfStore
<1>3. QED
  BY <1>1, <1>2, BundleTyped, PTL DEF Spec, StoreSpec

-----------------------------------------------------------------------------
(* What the steps do to the sub-jobs of the item                            *)

SubsExist == \E k \in Kinds : SubExists(Item, k)

\* No sub-job is done that was not, but perhaps those in S; none that ended runs again,
\* none comes and none goes; a job comes only where there are sub-jobs.
RowsGo(S) ==
  /\ \A k \in Kinds : StatusOf(k)' = "done" => StatusOf(k) = "done" \/ k \in S
  /\ \A k \in Kinds : StatusOf(k) \in Ended => StatusOf(k)' \in Ended
  /\ \A k \in Kinds : SubExists(Item, k)' <=> SubExists(Item, k)
  /\ JobExists(Item)' => JobExists(Item) \/ SubsExist

\* The sub-jobs are new.
RowsNew ==
  /\ \A k \in Kinds : StatusOf(k)' # "done"
  /\ SubExists(Item, Subtitles)'
  /\ \E p \in Profiles : SubExists(Item, p)'

LEMMA NewRowsOfEnqueue ==
  ASSUME TypeOK, NEW P \in EligibleProfiles, Enqueue(P)
  PROVE  RowsNew
<1>0. Item \in Media /\ sub \in [Media -> [Kinds -> SubRow]]
  BY BundleAssumption DEF TypeOK, StoreTypeOK
<1>1. sub' = [sub EXCEPT ![Item] = NewSubs(P)]
  BY DEF Enqueue, CreateTranscodeJob, ResetTranscodeJob, createSubJobsForJob
<1>2. \A k \in Kinds : sub'[Item][k] = IF k \in P \cup {Subtitles} THEN PendingSub ELSE NoSub
  BY <1>0, <1>1 DEF NewSubs
<1>3. PICK p \in P : p \in Profiles
  <2>1. P \subseteq Profiles /\ P # {}
    BY DEF EligibleProfiles
  <2>2. QED
    BY <2>1
<1>4. QED
  BY <1>2, <1>3 DEF RowsNew, StatusOf, SubExists, PendingSub, NoSub, Kinds

LEMMA SameRows ==
  ASSUME UNCHANGED storeVars
  PROVE  \A S : RowsGo(S)
  BY DEF storeVars, RowsGo, StatusOf, SubExists, JobExists, SubsExist

LEMMA RowsOfClaim ==
  ASSUME TypeOK, NEW e \in Locals \cup Workers, Claim(e)
  PROVE  RowsGo({})
<1>0. Item \in Media /\ sub \in [Media -> [Kinds -> SubRow]]
  BY BundleAssumption DEF TypeOK, StoreTypeOK
<1>1. PICK k \in Kinds : ClaimNextSubJob(<<Item, k>>, IF e \in Locals THEN NoWorker ELSE e)
  BY DEF Claim
<1>2. PICK o : o = IF e \in Locals THEN NoWorker ELSE e
  OBVIOUS
<1>3. /\ sub[Item][k].status = "pending"
      /\ sub' = [sub EXCEPT ![Item][k] = [status |-> "processing", owner |-> o]]
      /\ job' = job \/ job[Item].status = "pending"
  BY <1>1, <1>2 DEF ClaimNextSubJob, NextSubJobs, Claimable
<1>4. /\ sub'[Item][k].status = "processing"
      /\ \A j \in Kinds : j # k => sub'[Item][j] = sub[Item][j]
  BY <1>0, <1>3
<1>5. JobExists(Item)' => JobExists(Item)
  BY <1>3 DEF JobExists
<1>6. QED
  BY <1>3, <1>4, <1>5 DEF RowsGo, StatusOf, SubExists, Ended

LEMMA RowsOfEnd ==
  ASSUME TypeOK, NEW x \in task, NEW s \in Ended, EndSubJob(x, s)
  PROVE  /\ RowsGo({x.k})
         /\ s = "failed" => RowsGo({})
<1>0. Item \in Media /\ sub \in [Media -> [Kinds -> SubRow]] /\ job \in [Media -> JobRow]
  BY BundleAssumption DEF TypeOK, StoreTypeOK
<1>1. CASE ~Current(x)
  BY <1>1, SameRows DEF EndSubJob
<1>2. CASE Current(x)
  <2>1. PICK k \in Kinds : k = x.k
    BY TaskParts DEF TypeOK
  <2>2. /\ UpdateSubJobStatus(Item, k, s)
        /\ SubExists(Item, k)
    BY <1>2, <2>1 DEF EndSubJob, Current
  <2>3. PICK r : r = [sub[Item][k] EXCEPT !.status = s]
    OBVIOUS
  <2>4. sub[Item][k] \in SubRow
    BY <1>0
  <2>5. r.status = s
    BY <2>3, <2>4 DEF SubRow
  <2>6. sub' = [sub EXCEPT ![Item][k] = r]
    BY <2>2, <2>3 DEF UpdateSubJobStatus
  <2>7. sub'[Item][k] = r /\ \A j \in Kinds : j # k => sub'[Item][j] = sub[Item][j]
    BY <1>0, <2>6
  <2>8. s # "absent"
    BY DEF Ended
  <2>9. /\ \A j \in Kinds : StatusOf(j)' = "done" => StatusOf(j) = "done" \/ (j = k /\ s = "done")
        /\ \A j \in Kinds : StatusOf(j) \in Ended => StatusOf(j)' \in Ended
        /\ \A j \in Kinds : SubExists(Item, j)' <=> SubExists(Item, j)
        /\ SubsExist
    BY <2>2, <2>5, <2>7, <2>8 DEF StatusOf, SubExists, SubsExist
  <2>10. QED
    BY <2>1, <2>9 DEF RowsGo
<1>3. QED
  BY <1>1, <1>2

LEMMA RowsOfRecovery ==
  ASSUME TypeOK, RecoverFailedWorkers
  PROVE  RowsGo({})
<1>0. Item \in Media /\ sub \in [Media -> [Kinds -> SubRow]] /\ job \in [Media -> JobRow]
  BY BundleAssumption DEF TypeOK, StoreTypeOK
<1> DEFINE failed == FailedWorkers
           deleted == {w \in failed : worker[w].ephemeral}
<1>1. ASSUME NEW k \in Kinds
      PROVE  \/ StatusOf(k)' = StatusOf(k)
             \/ StatusOf(k) = "processing" /\ StatusOf(k)' = "pending"
  <2>1. PICK d : d = [sub[Item][k] EXCEPT !.owner = Detach(@, deleted)]
    OBVIOUS
  <2>2. sub[Item][k] \in SubRow
    BY <1>0
  <2>3. d.status = sub[Item][k].status
    BY <2>1, <2>2 DEF SubRow
  <2>4. sub'[Item][k] = RequeuedSub(sub[Item][k], failed, deleted)
    BY <1>0 DEF RecoverFailedWorkers
  <2>5. sub'[Item][k] = d \/ (d.status = "processing" /\ sub'[Item][k] = PendingSub)
    BY <2>1, <2>4 DEF RequeuedSub
  <2>6. QED
    BY <2>3, <2>5 DEF StatusOf, PendingSub
<1>2. JobExists(Item)' => JobExists(Item) \/ SubsExist
  <2> DEFINE requeued == {m \in Media : \E k \in Kinds :
                            sub[m][k].status = "processing" /\ sub[m][k].owner \in failed}
  <2>1. CASE Item \in requeued
    BY <2>1 DEF SubsExist, SubExists
  <2>2. CASE Item \notin requeued
    <3>1. job'[Item] = [job[Item] EXCEPT !.worker = Detach(@, deleted)]
      BY <1>0, <2>2 DEF RecoverFailedWorkers
    <3>2. QED
      BY <1>0, <3>1, SMTT(60) DEF JobExists, JobRow
  <2>3. QED
    BY <2>1, <2>2
<1>3. QED
  BY <1>1, <1>2 DEF RowsGo, SubExists, StatusOf, Ended

LEMMA RowsOfRestart ==
  ASSUME TypeOK, RecoverStaleJobs
  PROVE  RowsGo({})
<1>0. Item \in Media /\ sub \in [Media -> [Kinds -> SubRow]] /\ job \in [Media -> JobRow]
  BY BundleAssumption DEF TypeOK, StoreTypeOK
<1>1. ASSUME NEW k \in Kinds
      PROVE  \/ StatusOf(k)' = StatusOf(k)
             \/ StatusOf(k) = "processing" /\ StatusOf(k)' = "pending"
  <2>1. sub[Item][k] \in SubRow
    BY <1>0
  <2>2. QED
    BY <1>0, <2>1 DEF RecoverStaleJobs, StatusOf, SubRow
<1>2. JobExists(Item)' => JobExists(Item)
  BY <1>0 DEF RecoverStaleJobs, JobExists, JobRow
<1>3. QED
  BY <1>1, <1>2 DEF RowsGo, SubExists, StatusOf, Ended

LEMMA RowsOfStoreCall ==
  ASSUME TypeOK, StoreCall
  PROVE  RowsGo({})
<1>0. Item \in Media /\ job \in [Media -> JobRow]
  BY BundleAssumption DEF TypeOK, StoreTypeOK
<1>1. CASE RecoverFailedWorkers
  BY <1>1, RowsOfRecovery
<1>2. CASE UNCHANGED <<job, sub>>
  BY <1>2 DEF RowsGo, StatusOf, SubExists, JobExists, SubsExist
<1>3. ASSUME NEW s \in {"failed", "done"}, BulkRequeue(s)
      PROVE  RowsGo({})
  <2>1. sub' = sub
    BY <1>3 DEF BulkRequeue
  <2>2. JobExists(Item)' => JobExists(Item)
    BY <1>0, <1>3, ZenonT(60) DEF BulkRequeue, JobExists, JobRow
  <2>3. QED
    BY <2>1, <2>2 DEF RowsGo, StatusOf, SubExists
<1>4. QED
  BY <1>1, <1>2, <1>3
  DEF StoreCall, BulkEnqueueFailed, BulkEnqueueCompleted, CreateWorker, UpdateWorkerHeartbeat,
      HeartbeatExpires

\* Every other step leaves the rows alone.
LEMMA RowsOfStep ==
  ASSUME TypeOK, [Next]_vars
  PROVE  \/ \E P \in EligibleProfiles : Enqueue(P)
         \/ \E x \in task : MarkDone(x)
         \/ RowsGo({})
<1>1. ASSUME NEW x \in task, Fails(x) \/ WorkerFails(x)
      PROVE  RowsGo({})
  <2>1. "failed" \in Ended
    BY DEF Ended
  <2>2. EndSubJob(x, "failed") \/ UNCHANGED storeVars
    BY <1>1 DEF Fails, WorkerFails
  <2>3. QED
    BY <2>1, <2>2, RowsOfEnd, SameRows
<1>2. CASE UNCHANGED storeVars
  BY <1>2, SameRows
<1>3. CASE Restart
  BY <1>3, RowsOfRestart DEF Restart
<1>4. QED
  BY <1>1, <1>2, <1>3, RowsOfClaim, RowsOfStoreCall, Zenon
  DEF Next, vars, ReadItem, CountStarted, CleanUp, UnsetBundle, CheckOwner, SelectArea, Written,
      ListDone, GenerateMPD, Publish, WriteSidecar, BreaksOff, RegenerateReads, RegenerateWrites

LEMMA RowsOfMark ==
  ASSUME TypeOK, NEW x \in task, MarkDone(x)
  PROVE  RowsGo({x.k})
<1>1. "done" \in Ended
  BY DEF Ended
<1>2. QED
  BY <1>1, RowsOfEnd, SameRows DEF MarkDone

\* A job has the sub-jobs that were made with it: subtitles and at least one rendition.
Stands ==
  JobExists(Item) \/ SubsExist =>
    SubExists(Item, Subtitles) /\ \E p \in Profiles : SubExists(Item, p)

LEMMA StandsInit == Init => Stands
  BY BundleAssumption
  DEF Init, StoreInit, Stands, SubsExist, JobExists, SubExists, NoJob, NoSub

LEMMA StandsStep ==
  ASSUME TypeOK, Stands, [Next]_vars
  PROVE  Stands'
<1>1. ASSUME NEW S, RowsGo(S)
      PROVE  Stands'
  BY <1>1 DEF RowsGo, Stands, SubsExist, Kinds
<1>2. ASSUME NEW P \in EligibleProfiles, Enqueue(P)
      PROVE  Stands'
  BY <1>2, NewRowsOfEnqueue DEF RowsNew, Stands
<1>3. QED
  BY <1>1, <1>2, RowsOfStep, RowsOfMark

-----------------------------------------------------------------------------
(* The files of a rendition.  As long as sub-jobs do not hit each other's   *)
(* files, one task writes a rendition that is not done yet, and those that  *)
(* are done are complete.                                                   *)

Calm == "clash" \notin spoiled
Writing(x) == x.pc \in {"write", "end"}

OneWriter == \A x, y \in task : Writing(x) /\ Writing(y) /\ x.k = y.k => x = y

WritesNew == \A x \in task : Writing(x) => StatusOf(x.k) # "done"

WritesThere ==
  \A x \in task, a \in Areas : Writing(x) /\ x.k # Subtitles =>
    dir[a].files[x.k] # "none" /\ (x.pc = "end" => dir[a].files[x.k] = "complete")

DoneIsThere == \A k \in DoneRenditions, a \in Areas : dir[a].files[k] = "complete"

FilesKept == Calm => OneWriter /\ WritesNew /\ WritesThere /\ DoneIsThere

LEMMA FilesInit == Init => FilesKept
  BY BundleAssumption
  DEF Init, StoreInit, FilesKept, OneWriter, WritesNew, WritesThere, DoneIsThere, DoneRenditions,
      StatusOf, NoSub

\* Steps that write no files, start no writing and finish no rendition.
LEMMA FilesFrame ==
  ASSUME FilesKept, Calm' => Calm, RowsGo({}) \/ RowsNew,
         \A a \in Areas : dir'[a].files = dir[a].files,
         \A x \in task' : Writing(x) => x \in task,
         \A x \in task' : Writing(x) => x.k \in Kinds
  PROVE  FilesKept'
<1> SUFFICES ASSUME Calm'
             PROVE  (OneWriter /\ WritesNew /\ WritesThere /\ DoneIsThere)'
  BY DEF FilesKept
<1>1. OneWriter /\ WritesNew /\ WritesThere /\ DoneIsThere
  BY DEF FilesKept, Calm
<1>2. \A k \in Kinds : StatusOf(k)' = "done" => StatusOf(k) = "done"
  BY DEF RowsGo, RowsNew
<1>3. OneWriter' /\ WritesThere'
  BY <1>1 DEF OneWriter, WritesThere, Writing
<1>4. WritesNew'
  BY <1>1, <1>2 DEF WritesNew, Writing
<1>5. DoneIsThere'
  BY <1>1, <1>2 DEF DoneIsThere, DoneRenditions
<1>6. QED
  BY <1>3, <1>4, <1>5

LEMMA SelectKeepsFiles ==
  ASSUME TypeOK, Placed, FilesKept, \A a, b \in Areas : a = b, NEW x \in task, SelectArea(x)
  PROVE  FilesKept'
<1> SUFFICES ASSUME Calm'
             PROVE  (OneWriter /\ WritesNew /\ WritesThere /\ DoneIsThere)'
  BY DEF FilesKept
<1>0. \A y \in task : y \in Task /\ y.k \in Kinds
  BY TaskParts DEF TypeOK
<1>1. PICK a \in Areas :
        /\ Becomes(x, [x EXCEPT !.pc = "write", !.area = a])
        /\ dir' = [dir EXCEPT ![a].exists = TRUE,
                              ![a].files[x.k] = IF x.k = Subtitles THEN @ ELSE "partial"]
        /\ spoiled' = spoiled \cup
             (IF StatusOf(x.k) = "done" \/ \E y \in task : Writes(y, x.k, a)
                THEN {"clash"} ELSE {})
  BY DEF SelectArea
<1>2. /\ Calm /\ StatusOf(x.k) # "done"
      /\ \A y \in task : ~Writes(y, x.k, a)
  BY <1>1 DEF Calm
<1>3. OneWriter /\ WritesNew /\ WritesThere /\ DoneIsThere
  BY <1>2 DEF FilesKept
<1>4. PICK z : z = [x EXCEPT !.pc = "write", !.area = a]
  OBVIOUS
<1>5. z.pc = "write" /\ z.k = x.k
  BY <1>0, <1>4 DEF Task
<1>6. task' = (task \ {x}) \cup {z}
  BY <1>1, <1>4 DEF Becomes
<1>7. \A y \in task : Writing(y) => y.k # x.k
  BY <1>2 DEF Writes, Writing, Placed, HasArea
<1>8. \A b \in Areas, j \in Kinds :
        dir'[b].files[j] = IF b = a /\ j = x.k /\ x.k # Subtitles THEN "partial" ELSE dir[b].files[j]
  BY <1>1, SelectWrites, ZenonT(60)
<1>9. \A k \in Kinds : StatusOf(k)' = StatusOf(k)
  BY DEF SelectArea, storeVars, StatusOf
<1>10. OneWriter'
  BY <1>3, <1>5, <1>6, <1>7 DEF OneWriter
<1>11. WritesNew'
  BY <1>0, <1>2, <1>3, <1>5, <1>6, <1>9 DEF WritesNew
<1>12. WritesThere'
  <2>1. ASSUME NEW y \in task', NEW b \in Areas, Writing(y), y.k # Subtitles
        PROVE  dir'[b].files[y.k] # "none" /\ (y.pc = "end" => dir'[b].files[y.k] = "complete")
    <3>1. CASE y = z
      BY <1>0, <1>5, <1>8, <2>1, <3>1
    <3>2. CASE y # z
      BY <1>0, <1>3, <1>6, <1>7, <1>8, <2>1, <3>2 DEF WritesThere
    <3>3. QED
      BY <3>1, <3>2
  <2>2. QED
    BY <2>1 DEF WritesThere, Writing
<1>13. DoneIsThere'
  BY <1>2, <1>3, <1>8, <1>9 DEF DoneIsThere, DoneRenditions
<1>14. QED
  BY <1>10, <1>11, <1>12, <1>13

\* The task after a step that only moves on.
LEMMA GoneTo ==
  ASSUME TypeOK, NEW x \in task, NEW pc \in Pcs, Goto(x, pc)
  PROVE  \E z \in Task : /\ task' = (task \ {x}) \cup {z}
                         /\ z.pc = pc /\ z.k = x.k /\ z.area = x.area /\ z.names = x.names
<1>1. x \in Task
  BY DEF TypeOK
<1>2. PICK z : z = [x EXCEPT !.pc = pc]
  OBVIOUS
<1>3. z \in Task /\ z.pc = pc /\ z.k = x.k /\ z.area = x.area /\ z.names = x.names
  BY <1>1, <1>2, TaskAt
<1>4. task' = (task \ {x}) \cup {z}
  BY <1>2 DEF Goto, Becomes
<1>5. QED
  BY <1>3, <1>4

LEMMA WrittenKeepsFiles ==
  ASSUME TypeOK, Placed, FilesKept, \A a, b \in Areas : a = b, NEW x \in task, Written(x)
  PROVE  FilesKept'
<1> SUFFICES ASSUME Calm'
             PROVE  (OneWriter /\ WritesNew /\ WritesThere /\ DoneIsThere)'
  BY DEF FilesKept
<1>0. \A y \in task : y \in Task /\ y.k \in Kinds
  BY TaskParts DEF TypeOK
<1>1. Calm /\ x.pc = "write" /\ Writing(x)
  BY DEF Written, Calm, Writing
<1>2. OneWriter /\ WritesNew /\ WritesThere /\ DoneIsThere
  BY <1>1 DEF FilesKept
<1>3. x.area \in Areas
  BY <1>1 DEF Placed, HasArea
<1>4. PICK z \in Task : task' = (task \ {x}) \cup {z} /\ z.pc = "end" /\ z.k = x.k
  BY GoneTo DEF Written, Pcs
<1>5. StatusOf(x.k) # "done" /\ \A y \in task : y # x /\ Writing(y) => y.k # x.k
  BY <1>1, <1>2 DEF WritesNew, OneWriter
<1>6. \A k \in Kinds : StatusOf(k)' = StatusOf(k)
  BY DEF Written, storeVars, StatusOf
<1>7. /\ \A b \in Areas, j \in Kinds : j # x.k => dir'[b].files[j] = dir[b].files[j]
      /\ x.k # Subtitles => dir'[x.area].files[x.k] = "complete"
  <2>1. x.k # Subtitles => dir[x.area].files[x.k] # "none"
    BY <1>1, <1>2, <1>3 DEF WritesThere
  <2>2. CASE dir' = dir /\ x.k = Subtitles
    BY <2>2
  <2>3. CASE Result(x, "complete")
    BY <1>0, <1>3, <2>3, ResultWrites DEF Parts
  <2>4. QED
    BY <2>1, <2>2, <2>3 DEF Written, Transcoded, Unzipped
<1>8. OneWriter'
  BY <1>2, <1>4, <1>5 DEF OneWriter
<1>9. WritesNew'
  BY <1>0, <1>2, <1>4, <1>5, <1>6 DEF WritesNew
<1>10. WritesThere'
  <2>1. ASSUME NEW y \in task', NEW b \in Areas, Writing(y), y.k # Subtitles
        PROVE  dir'[b].files[y.k] # "none" /\ (y.pc = "end" => dir'[b].files[y.k] = "complete")
    <3>1. CASE y = z
      <4>1. b = x.area
        BY <1>3
      <4>2. QED
        BY <1>4, <1>7, <2>1, <3>1, <4>1
    <3>2. CASE y # z
      BY <1>0, <1>2, <1>4, <1>5, <1>7, <2>1, <3>2 DEF WritesThere
    <3>3. QED
      BY <3>1, <3>2
  <2>2. QED
    BY <2>1 DEF WritesThere, Writing
<1>11. DoneIsThere'
  BY <1>2, <1>5, <1>6, <1>7 DEF DoneIsThere, DoneRenditions
<1>12. QED
  BY <1>8, <1>9, <1>10, <1>11

LEMMA CleanKeepsFiles ==
  ASSUME TypeOK, Placed, FilesKept, \A a, b \in Areas : a = b, NEW x \in task, CleanUp(x)
  PROVE  FilesKept'
<1> SUFFICES ASSUME Calm'
             PROVE  (OneWriter /\ WritesNew /\ WritesThere /\ DoneIsThere)'
  BY DEF FilesKept
<1>0. \A y \in task : y \in Task /\ y.k \in Kinds
  BY TaskParts DEF TypeOK
<1>1. Calm
  BY DEF CleanUp, Calm
<1>2. OneWriter /\ WritesNew /\ WritesThere /\ DoneIsThere
  BY <1>1 DEF FilesKept
<1>3. PICK z \in Task : task' = (task \ {x}) \cup {z} /\ z.pc = "unset" /\ z.k = x.k
  BY GoneTo DEF CleanUp, Pcs, Before
<1>4. \A k \in Kinds : StatusOf(k)' = StatusOf(k)
  BY DEF CleanUp, storeVars, StatusOf
<1>5. \A y \in task' : Writing(y) => y \in task /\ y.k \in Kinds
  BY <1>0, <1>3 DEF Writing
<1>6. Calm' => Calm
  BY DEF CleanUp, Calm
<1>7. CASE dir' = dir
  <2>1. RowsGo({})
    BY SameRows DEF CleanUp
  <2>2. FilesKept'
    BY <1>5, <1>6, <1>7, <2>1, FilesFrame
  <2>3. QED
    BY <2>2 DEF FilesKept
<1>8. ASSUME NEW a \in Areas, InUse(a) = {}
      PROVE  /\ \A k \in DoneRenditions : FALSE
             /\ \A y \in task : Writing(y) => y.k = Subtitles
  <2>1. ASSUME NEW k \in DoneRenditions
        PROVE  FALSE
    <3>1. k \in Kinds /\ StatusOf(k) = "done" /\ dir[a].files[k] = "complete"
      BY <1>2 DEF DoneIsThere, DoneRenditions
    <3>2. k \in InUse(a)
      BY <3>1 DEF InUse
    <3>3. QED
      BY <1>8, <3>2
  <2>2. ASSUME NEW y \in task, Writing(y), y.k # Subtitles
        PROVE  FALSE
    <3>1. dir[a].files[y.k] # "none"
      BY <1>2, <2>2 DEF WritesThere
    <3>2. y.area \in Areas
      BY <2>2 DEF Placed, HasArea, Writing
    <3>3. Writes(y, y.k, a)
      BY <2>2, <3>2 DEF Writes, Writing
    <3>4. y.k \in InUse(a)
      BY <1>0, <3>1, <3>3 DEF InUse
    <3>5. QED
      BY <1>8, <3>4
  <2>3. QED
    BY <2>1, <2>2
<1>9. CASE dir' # dir
  <2>1. PICK a \in Areas : /\ dir' = [dir EXCEPT ![a] = NoDirectory]
                           /\ spoiled' = spoiled \cup (IF InUse(a) = {} THEN {} ELSE {"clash"})
    BY <1>9 DEF CleanUp
  <2>2. InUse(a) = {}
    BY <2>1 DEF Calm
  <2>3. /\ \A k \in DoneRenditions : FALSE
        /\ \A y \in task : Writing(y) => y.k = Subtitles
    BY <1>8, <2>2
  <2>4. OneWriter' /\ WritesThere'
    BY <1>2, <1>5, <2>3 DEF OneWriter, WritesThere, Writing
  <2>5. WritesNew'
    BY <1>2, <1>4, <1>5 DEF WritesNew, Writing
  <2>6. DoneIsThere'
    BY <1>4, <2>3 DEF DoneIsThere, DoneRenditions
  <2>7. QED
    BY <2>4, <2>5, <2>6
<1>10. QED
  BY <1>7, <1>9

LEMMA MarkKeepsFiles ==
  ASSUME TypeOK, Placed, FilesKept, NEW x \in task, MarkDone(x)
  PROVE  FilesKept'
<1> SUFFICES ASSUME Calm'
             PROVE  (OneWriter /\ WritesNew /\ WritesThere /\ DoneIsThere)'
  BY DEF FilesKept
<1>0. \A y \in task : y \in Task /\ y.k \in Kinds
  BY TaskParts DEF TypeOK
<1>1. Calm /\ Writing(x) /\ x.pc = "end"
  BY DEF MarkDone, Calm, Writing
<1>2. OneWriter /\ WritesNew /\ WritesThere /\ DoneIsThere
  BY <1>1 DEF FilesKept
<1>3. PICK z \in Task : task' = (task \ {x}) \cup {z} /\ z.pc = "list" /\ z.k = x.k
  BY GoneTo DEF MarkDone, Pcs, After
<1>4. \A k \in Kinds : StatusOf(k)' = "done" => StatusOf(k) = "done" \/ k = x.k
  BY RowsOfMark DEF RowsGo
<1>5. \A y \in task' : Writing(y) => y \in task /\ y.k # x.k
  BY <1>1, <1>2, <1>3 DEF Writing, OneWriter
<1>6. dir' = dir
  BY DEF MarkDone
<1>7. OneWriter' /\ WritesThere'
  BY <1>2, <1>5, <1>6 DEF OneWriter, WritesThere, Writing
<1>8. WritesNew'
  BY <1>0, <1>2, <1>4, <1>5 DEF WritesNew, Writing
<1>9. DoneIsThere'
  <2>1. ASSUME NEW k \in DoneRenditions', NEW a \in Areas
        PROVE  dir[a].files[k] = "complete"
    <3>1. k \in Kinds \ {Subtitles} /\ StatusOf(k)' = "done"
      BY DEF DoneRenditions
    <3>2. CASE k = x.k
      BY <1>1, <1>2, <3>1, <3>2 DEF WritesThere
    <3>3. CASE k # x.k
      BY <1>2, <1>4, <3>1, <3>3 DEF DoneIsThere, DoneRenditions
    <3>4. QED
      BY <3>2, <3>3
  <2>2. QED
    BY <1>6, <2>1 DEF DoneIsThere
<1>10. QED
  BY <1>7, <1>8, <1>9

\* The steps of a task before it writes and after it has ended, and those that fail.
EarlyStep(x) ==
  ReadItem(x) \/ CountStarted(x) \/ UnsetBundle(x) \/ CheckOwner(x) \/ Fails(x) \/ WorkerFails(x)
LateStep(x) ==
  ListDone(x) \/ GenerateMPD(x) \/ Publish(x) \/ WriteSidecar(x) \/ BreaksOff(x)

LEMMA EarlyTasks ==
  ASSUME TypeOK, NEW x \in task, EarlyStep(x)
  PROVE  /\ x.pc \notin After
         /\ \A y \in task : y # x => y \in task'
         /\ \A y \in task' : y \in task \/ y.pc \in {"count", "clean", "work", "receive"}
<1>0. x \in Task
  BY DEF TypeOK
<1>1. x.pc \notin After
  BY DEF EarlyStep, ReadItem, CountStarted, UnsetBundle, CheckOwner, Fails, WorkerFails, Starting, After
<1>2. CASE Leave(x)
  BY <1>1, <1>2 DEF Leave
<1>3. ASSUME NEW z, Becomes(x, z), z.pc \in {"count", "clean", "work", "receive"}
      PROVE  /\ \A y \in task : y # x => y \in task'
             /\ \A y \in task' : y \in task \/ y.pc \in {"count", "clean", "work", "receive"}
  BY <1>3 DEF Becomes
<1>4. CASE Becomes(x, [x EXCEPT !.pc = "count", !.seen = bundle])
  <2>1. PICK z : z = [x EXCEPT !.pc = "count", !.seen = bundle]
    OBVIOUS
  <2>2. z.pc = "count"
    BY <1>0, <2>1 DEF Task
  <2>3. QED
    BY <1>1, <1>3, <1>4, <2>1, <2>2
<1>5. CASE CountStarted(x)
  <2>1. PICK first \in {IsFirst, FALSE} :
          Becomes(x, [x EXCEPT !.seen = "none",
                        !.pc = IF first /\ x.seen = "available" THEN "clean" ELSE "work"])
    BY <1>5 DEF CountStarted
  <2>2. PICK z : z = [x EXCEPT !.seen = "none",
                        !.pc = IF first /\ x.seen = "available" THEN "clean" ELSE "work"]
    OBVIOUS
  <2>3. z.pc \in {"clean", "work"}
    BY <1>0, <2>2 DEF Task
  <2>4. QED
    BY <1>1, <1>3, <2>1, <2>2, <2>3
<1>6. ASSUME NEW pc \in {"work", "receive"}, Goto(x, pc)
      PROVE  /\ \A y \in task : y # x => y \in task'
             /\ \A y \in task' : y \in task \/ y.pc \in {"count", "clean", "work", "receive"}
  <2>1. PICK z : z = [x EXCEPT !.pc = pc]
    OBVIOUS
  <2>2. z.pc = pc
    BY <1>0, <2>1 DEF Task
  <2>3. QED
    BY <1>3, <1>6, <2>1, <2>2 DEF Goto
<1>7. QED
  BY <1>1, <1>2, <1>4, <1>5, <1>6
  DEF EarlyStep, ReadItem, UnsetBundle, CheckOwner, Fails, WorkerFails

LEMMA LateTasks ==
  ASSUME TypeOK, NEW x \in task, LateStep(x)
  PROVE  /\ x.pc \in After
         /\ \A y \in task : y # x => y \in task'
         /\ \A y \in task' : y \in task \/ y.pc \in After
<1>0. x \in Task
  BY DEF TypeOK
<1>1. x.pc \in After
  BY DEF LateStep, ListDone, GenerateMPD, Publish, WriteSidecar, BreaksOff, After
<1>2. CASE Leave(x)
  BY <1>1, <1>2 DEF Leave
<1>3. ASSUME NEW z, Becomes(x, z), z.pc \in After
      PROVE  /\ \A y \in task : y # x => y \in task'
             /\ \A y \in task' : y \in task \/ y.pc \in After
  BY <1>3 DEF Becomes
<1>4. ASSUME NEW N, Becomes(x, [x EXCEPT !.pc = "manifest", !.names = N])
      PROVE  /\ \A y \in task : y # x => y \in task'
             /\ \A y \in task' : y \in task \/ y.pc \in After
  <2>1. PICK z : z = [x EXCEPT !.pc = "manifest", !.names = N]
    OBVIOUS
  <2>2. z.pc \in After
    BY <1>0, <2>1 DEF Task, After
  <2>3. QED
    BY <1>3, <1>4, <2>1, <2>2
<1>5. CASE GenerateMPD(x)
  <2>1. PICK z : z = [x EXCEPT !.pc = "publish", !.names = {}]
    OBVIOUS
  <2>2. z.pc \in After
    BY <1>0, <2>1 DEF Task, After
  <2>3. QED
    BY <1>1, <1>3, <1>5, <2>1, <2>2 DEF GenerateMPD
<1>6. CASE Goto(x, "sidecar")
  <2>1. PICK z : z = [x EXCEPT !.pc = "sidecar"]
    BY Zenon
  <2>2. z.pc \in After
    BY <1>0, <2>1 DEF Task, After
  <2>3. QED
    BY <1>1, <1>3, <1>6, <2>1, <2>2 DEF Goto
<1>7. CASE Becomes(x, [x EXCEPT !.pc = "sidecar", !.names = {}])
  <2>1. PICK z : z = [x EXCEPT !.pc = "sidecar", !.names = {}]
    OBVIOUS
  <2>2. z.pc \in After
    BY <1>0, <2>1 DEF Task, After
  <2>3. QED
    BY <1>1, <1>3, <1>7, <2>1, <2>2
<1>8. QED
  BY <1>1, <1>2, <1>4, <1>5, <1>6, <1>7 DEF LateStep, ListDone, Publish, WriteSidecar, BreaksOff

\* Only a new manifest and a new sidecar take something from what is spoiled.
LEMMA SpoiledGrows ==
  ASSUME [Next]_vars
  PROVE  \/ spoiled \subseteq spoiled'
         \/ \E x \in task : GenerateMPD(x) /\ spoiled' = spoiled \ {"manifest"}
         \/ \E x \in task : WriteSidecar(x) /\ spoiled' = spoiled \ {"sidecar"}
<1>1. ASSUME NEW x \in task, GenerateMPD(x)
      PROVE  spoiled \subseteq spoiled' \/ spoiled' = spoiled \ {"manifest"}
  BY <1>1 DEF GenerateMPD
<1>2. ASSUME NEW x \in task, WriteSidecar(x)
      PROVE  spoiled' = spoiled \ {"sidecar"}
  BY <1>2 DEF WriteSidecar
<1>3. ASSUME NEW x \in task, BreaksOff(x)
      PROVE  spoiled \subseteq spoiled'
  BY <1>3 DEF BreaksOff
<1>4. ASSUME NEW ad \in Admins, RegenerateWrites(ad)
      PROVE  spoiled \subseteq spoiled'
  BY <1>4 DEF RegenerateWrites
<1>5. QED
  BY <1>1, <1>2, <1>3, <1>4, ZenonT(60)
  DEF Next, vars, bundleVars, Enqueue, Claim, StoreCall, ReadItem, CountStarted, CleanUp,
      UnsetBundle, CheckOwner, SelectArea, Written, Fails, WorkerFails, MarkDone, ListDone,
      Publish, RegenerateReads, Restart

LEMMA CalmBefore ==
  ASSUME [Next]_vars, Calm'
  PROVE  Calm
  BY SpoiledGrows DEF Calm

\* The steps that write a manifest or a sidecar write no segments.
LEMMA FilesSame ==
  ASSUME TypeOK, Placed, [Next]_vars,
         ~\E x \in task : CleanUp(x) \/ SelectArea(x) \/ Written(x)
  PROVE  \A a \in Areas : dir'[a].files = dir[a].files
<1>1. ASSUME NEW x \in task, GenerateMPD(x)
      PROVE  \A a \in Areas : dir'[a].files = dir[a].files
  <2>1. x.area \in Areas
    BY <1>1 DEF GenerateMPD, Placed, HasArea, After
  <2>2. x.names \in SUBSET Kinds
    BY TaskParts DEF TypeOK
  <2>3. QED
    BY <1>1, <2>1, <2>2, GenerateWrites DEF GenerateMPD
<1>2. ASSUME NEW x \in task, WriteSidecar(x)
      PROVE  \A a \in Areas : dir'[a].files = dir[a].files
  <2>1. PICK P \in EligibleProfiles : dir' = [dir EXCEPT ![mpd].exists = TRUE, ![mpd].sidecar = P]
    BY <1>2 DEF WriteSidecar
  <2>2. mpd \in Areas /\ P \in SUBSET Profiles
    BY <1>2 DEF WriteSidecar, TypeOK, EligibleProfiles
  <2>3. QED
    BY <2>1, <2>2, SidecarWrites
<1>3. ASSUME NEW ad \in Admins, RegenerateWrites(ad)
      PROVE  \A a \in Areas : dir'[a].files = dir[a].files
  <2>1. regen[ad].area \in Areas /\ regen[ad].names \in SUBSET Kinds
    BY <1>3 DEF RegenerateWrites, Placed, TypeOK, Regen
  <2>2. PICK N \in {regen[ad].names, {}} :
          dir' = [dir EXCEPT ![regen[ad].area].exists = TRUE, ![regen[ad].area].manifest = N]
    BY <1>3 DEF RegenerateWrites
  <2>3. N \in SUBSET Kinds
    BY <2>1
  <2>4. QED
    BY <2>1, <2>2, <2>3, GenerateWrites
<1>4. ASSUME NEW x \in task, BreaksOff(x)
      PROVE  \A a \in Areas : dir'[a].files = dir[a].files
  <2>1. x.area \in Areas
    BY <1>4 DEF BreaksOff, Placed, HasArea, After
  <2>2. QED
    BY <1>4, <2>1, BreaksWrites
<1>5. QED
  BY <1>1, <1>2, <1>3, <1>4
  DEF Next, vars, bundleVars, Enqueue, Claim, StoreCall, ReadItem, CountStarted, UnsetBundle,
      CheckOwner, Fails, WorkerFails, MarkDone, ListDone, Publish, RegenerateReads, Restart

LEMMA FilesStep ==
  ASSUME TypeOK, Placed, FilesKept, \A a, b \in Areas : a = b, [Next]_vars
  PROVE  FilesKept'
<1>1. CASE \E x \in task : SelectArea(x) \/ Written(x) \/ CleanUp(x) \/ MarkDone(x)
  BY <1>1, SelectKeepsFiles, WrittenKeepsFiles, CleanKeepsFiles, MarkKeepsFiles
<1>2. CASE ~\E x \in task : SelectArea(x) \/ Written(x) \/ CleanUp(x) \/ MarkDone(x)
  <2>1. \A a \in Areas : dir'[a].files = dir[a].files
    BY <1>2, FilesSame
  <2>2. RowsGo({}) \/ RowsNew
    BY <1>2, RowsOfStep, NewRowsOfEnqueue
  <2>3. \A x \in task' : Writing(x) => x \in task
    <3>1. ASSUME NEW x \in task, EarlyStep(x) \/ LateStep(x)
          PROVE  \A y \in task' : Writing(y) => y \in task
      BY <3>1, EarlyTasks, LateTasks DEF Writing, After
    <3>2. ASSUME NEW e \in Locals \cup Workers, Claim(e)
          PROVE  \A y \in task' : Writing(y) => y \in task
      <4>1. PICK k \in Kinds :
              task' = task \cup {[e |-> e, k |-> k, g |-> gen[Item], pc |-> "read",
                                  seen |-> "none", area |-> NoArea, names |-> {}]}
        BY <3>2 DEF Claim
      <4>2. QED
        BY <4>1 DEF Writing
    <3>3. CASE task' \subseteq task
      BY <3>3
    <3>4. QED
      BY <1>2, <3>1, <3>2, <3>3
      DEF Next, vars, bundleVars, Enqueue, StoreCall, RegenerateReads, RegenerateWrites, Restart,
          EarlyStep, LateStep
  <2>4. \A x \in task' : x.k \in Kinds
    BY TypedStep, TaskParts DEF TypeOK
  <2>5. QED
    BY <2>1, <2>2, <2>3, <2>4, CalmBefore, FilesFrame
<1>3. QED
  BY <1>1, <1>2

-----------------------------------------------------------------------------
(* The manifest.  Once a sub-job has written it since the last failure,     *)
(* crash or overwriting, whatever it lacks, or names too much, some sub-job *)
(* that has ended is about to set right.                                    *)

\* A sub-job is about to list k, or has listed it.
Held(k) == \E x \in task : x.pc = "list" \/ (x.pc = "manifest" /\ k \in x.names)

SubtitlesBacked ==
  \A a \in Areas : Subtitles \in dir[a].manifest => dir[a].files[Subtitles] = "complete"

Named ==
  \A a \in Areas, k \in Kinds :
    StatusOf(k) = "done" /\ dir[a].files[k] = "complete" => k \in dir[a].manifest \/ Held(k)

NoStrangers ==
  \/ \A a \in Areas : \A k \in dir[a].manifest \ {Subtitles} : StatusOf(k) \in Ended
  \/ \E x \in task : x.pc \in {"list", "manifest"}

Naming == {"list", "manifest", "publish"}

Published == bundle = "available" \/ \E x \in task : x.pc \in Naming

Trusted == spoiled \cap {"clash", "manifest"} = {}

NothingLost ==
  Trusted =>
    /\ SubtitlesBacked
    /\ DoneRenditions # {} => Named /\ NoStrangers /\ Published

LEMMA LostInit == Init => NothingLost
  BY BundleAssumption
  DEF Init, StoreInit, NothingLost, SubtitlesBacked, DoneRenditions, StatusOf, NoSub, NoDirectory

\* Steps that leave segments, manifests, the item's row and the tasks at the manifest alone.
LEMMA LostFrame ==
  ASSUME TypeOK, NothingLost, Trusted' => Trusted, bundle' = bundle, RowsGo({}),
         \A a \in Areas : dir'[a].files = dir[a].files /\ dir'[a].manifest = dir[a].manifest,
         \A x \in task : x.pc \in Naming => x \in task'
  PROVE  NothingLost'
<1> SUFFICES ASSUME Trusted'
             PROVE  /\ SubtitlesBacked'
                    /\ DoneRenditions' # {} => (Named /\ NoStrangers /\ Published)'
  BY DEF NothingLost
<1>1. SubtitlesBacked'
  BY DEF NothingLost, SubtitlesBacked
<1>2. ASSUME DoneRenditions' # {}
      PROVE  (Named /\ NoStrangers /\ Published)'
  <2>1. \A k \in Kinds : /\ StatusOf(k)' = "done" => StatusOf(k) = "done"
                         /\ StatusOf(k) \in Ended => StatusOf(k)' \in Ended
    BY DEF RowsGo
  <2>2. DoneRenditions # {}
    BY <1>2, <2>1 DEF DoneRenditions
  <2>3. Named /\ NoStrangers /\ Published
    BY <2>2 DEF NothingLost
  <2>4. \A k : Held(k) => Held(k)'
    BY DEF Held, Naming
  <2>5. Named'
    BY <2>1, <2>3, <2>4 DEF Named
  <2>6. NoStrangers'
    <3>1. \A a \in Areas : dir[a].manifest \subseteq Kinds
      BY DEF TypeOK, Directory
    <3>2. QED
      BY <2>1, <2>3, <3>1 DEF NoStrangers, Naming
  <2>7. Published'
    BY <2>3 DEF Published
  <2>8. QED
    BY <2>5, <2>6, <2>7
<1>3. QED
  BY <1>1, <1>2

\* A new set of sub-jobs has nothing done.
LEMMA LostEnqueue ==
  ASSUME TypeOK, NothingLost, NEW P \in EligibleProfiles, Enqueue(P)
  PROVE  NothingLost'
<1>1. DoneRenditions' = {}
  BY NewRowsOfEnqueue DEF RowsNew, DoneRenditions
<1>2. UNCHANGED bundleVars
  BY DEF Enqueue
<1>3. QED
  BY <1>1, <1>2 DEF NothingLost, Trusted, SubtitlesBacked, bundleVars

LEMMA LostUnset ==
  ASSUME TypeOK, NothingLost, NEW x \in task, UnsetBundle(x)
  PROVE  NothingLost'
<1>0. dir' = dir /\ (Trusted' => Trusted) /\ \A k \in Kinds : StatusOf(k)' = StatusOf(k)
  BY DEF UnsetBundle, Trusted, storeVars, StatusOf
<1>1. \A y \in task : y.pc \in Naming => y \in task'
  BY EarlyTasks DEF EarlyStep, After, Naming
<1>2. CASE bundle' = bundle
  BY <1>0, <1>1, <1>2, SameRows, LostFrame DEF UnsetBundle
<1>3. CASE bundle' # bundle
  <2> SUFFICES ASSUME Trusted'
               PROVE  SubtitlesBacked' /\ DoneRenditions' = {}
    BY DEF NothingLost
  <2>1. DoneRenditions = {}
    BY <1>3 DEF UnsetBundle, Trusted, TypeOK
  <2>2. SubtitlesBacked'
    BY <1>0 DEF NothingLost, SubtitlesBacked
  <2>3. QED
    BY <1>0, <2>1, <2>2 DEF DoneRenditions
<1>4. QED
  BY <1>2, <1>3

\* A directory that is deleted while nothing spoils it has no rendition that is done.
LEMMA CleanedUp ==
  ASSUME TypeOK, FilesKept, NEW x \in task, CleanUp(x), dir' # dir, Calm'
  PROVE  /\ DoneRenditions' = {}
         /\ \E a \in Areas : dir' = [dir EXCEPT ![a] = NoDirectory]
<1>1. PICK a \in Areas : /\ dir' = [dir EXCEPT ![a] = NoDirectory]
                         /\ spoiled' = spoiled \cup (IF InUse(a) = {} THEN {} ELSE {"clash"})
  BY DEF CleanUp
<1>2. InUse(a) = {} /\ Calm
  BY <1>1 DEF Calm
<1>3. DoneIsThere
  BY <1>2 DEF FilesKept
<1>4. ASSUME NEW k \in DoneRenditions'
      PROVE  FALSE
  <2>1. k \in Kinds \ {Subtitles} /\ StatusOf(k) = "done"
    BY <1>4 DEF CleanUp, storeVars, StatusOf, DoneRenditions
  <2>2. dir[a].files[k] = "complete"
    BY <1>3, <2>1 DEF DoneIsThere, DoneRenditions
  <2>3. k \in InUse(a)
    BY <2>1, <2>2 DEF InUse
  <2>4. QED
    BY <1>2, <2>3
<1>5. QED
  BY <1>1, <1>4

LEMMA LostClean ==
  ASSUME TypeOK, NothingLost, FilesKept, \A a, b \in Areas : a = b, NEW x \in task, CleanUp(x)
  PROVE  NothingLost'
<1>0. \A y \in task : y.pc \in Naming => y \in task'
  BY GoneTo DEF CleanUp, Pcs, Before, Naming
<1>1. RowsGo({}) /\ bundle' = bundle /\ (Trusted' => Trusted)
  BY SameRows DEF CleanUp, Trusted
<1>2. CASE dir' = dir
  BY <1>0, <1>1, <1>2, LostFrame
<1>3. CASE dir' # dir
  <2> SUFFICES ASSUME Trusted'
               PROVE  SubtitlesBacked' /\ DoneRenditions' = {}
    BY DEF NothingLost
  <2>1. Calm'
    BY DEF Trusted, Calm
  <2>2. PICK a \in Areas : dir' = [dir EXCEPT ![a] = NoDirectory]
    BY <1>3, <2>1, CleanedUp
  <2>3. SubtitlesBacked'
    BY <2>2, CleanWrites DEF SubtitlesBacked
  <2>4. QED
    BY <1>3, <2>1, <2>3, CleanedUp
<1>4. QED
  BY <1>2, <1>3

\* A step that may change segments but makes none of a sub-job that is done complete, and
\* takes no subtitles away.
LEMMA LostFiles ==
  ASSUME TypeOK, NothingLost, Trusted' => Trusted, bundle' = bundle,
         \A k \in Kinds : StatusOf(k)' = StatusOf(k),
         \A a \in Areas : dir'[a].manifest = dir[a].manifest,
         \A a \in Areas : dir[a].files[Subtitles] = "complete" => dir'[a].files[Subtitles] = "complete",
         Trusted' => \A a \in Areas, k \in Kinds :
           StatusOf(k) = "done" /\ dir'[a].files[k] = "complete" => dir[a].files[k] = "complete",
         \A x \in task : x.pc \in Naming => x \in task'
  PROVE  NothingLost'
<1> SUFFICES ASSUME Trusted'
             PROVE  /\ SubtitlesBacked'
                    /\ DoneRenditions' # {} => (Named /\ NoStrangers /\ Published)'
  BY DEF NothingLost
<1>1. SubtitlesBacked'
  BY DEF NothingLost, SubtitlesBacked
<1>2. ASSUME DoneRenditions' # {}
      PROVE  (Named /\ NoStrangers /\ Published)'
  <2>1. DoneRenditions # {}
    BY <1>2 DEF DoneRenditions
  <2>2. Named /\ NoStrangers /\ Published
    BY <2>1 DEF NothingLost
  <2>3. \A k : Held(k) => Held(k)'
    BY DEF Held, Naming
  <2>4. Named'
    BY <2>2, <2>3 DEF Named
  <2>5. NoStrangers'
    <3>1. \A a \in Areas : dir[a].manifest \subseteq Kinds
      BY DEF TypeOK, Directory
    <3>2. QED
      BY <2>2, <3>1 DEF NoStrangers, Naming
  <2>6. Published'
    BY <2>2 DEF Published
  <2>7. QED
    BY <2>4, <2>5, <2>6
<1>3. QED
  BY <1>1, <1>2

LEMMA LostSelect ==
  ASSUME TypeOK, NothingLost, NEW x \in task, SelectArea(x)
  PROVE  NothingLost'
<1>1. PICK a \in Areas :
        /\ Becomes(x, [x EXCEPT !.pc = "write", !.area = a])
        /\ dir' = [dir EXCEPT ![a].exists = TRUE,
                            ![a].files[x.k] = IF x.k = Subtitles THEN @ ELSE "partial"]
  BY DEF SelectArea
<1>2. /\ \A b \in Areas : dir'[b].manifest = dir[b].manifest
      /\ \A b \in Areas, j \in Kinds :
           dir'[b].files[j] = IF b = a /\ j = x.k /\ x.k # Subtitles THEN "partial"
                              ELSE dir[b].files[j]
  BY <1>1, SelectWrites, ZenonT(60)
<1>3. \A y \in task : y.pc \in Naming => y \in task'
  BY <1>1 DEF SelectArea, Starting, Becomes, Naming
<1>4. (Trusted' => Trusted) /\ bundle' = bundle /\ \A k \in Kinds : StatusOf(k)' = StatusOf(k)
  BY DEF SelectArea, Trusted, storeVars, StatusOf
<1>5. Subtitles \in Kinds
  BY DEF Kinds
<1>6. QED
  BY <1>2, <1>3, <1>4, <1>5, LostFiles

LEMMA LostWritten ==
  ASSUME TypeOK, Placed, NothingLost, FilesKept, NEW x \in task, Written(x)
  PROVE  NothingLost'
<1>0. x.pc = "write" /\ x.area \in Areas /\ x.k \in Kinds /\ Subtitles \in Kinds
  BY TaskParts DEF Written, Placed, HasArea, TypeOK, Kinds
<1>1. /\ \A b \in Areas : dir'[b].manifest = dir[b].manifest
      /\ \A b \in Areas, j \in Kinds : j # x.k => dir'[b].files[j] = dir[b].files[j]
      /\ \A b \in Areas : dir[b].files[Subtitles] = "complete" => dir'[b].files[Subtitles] = "complete"
  <2>1. CASE dir' = dir
    BY <2>1
  <2>2. CASE Result(x, "complete")
    BY <1>0, <2>2, ResultWrites DEF Parts
  <2>3. CASE x.k # Subtitles /\ Result(x, "partial")
    BY <1>0, <2>3, ResultWrites DEF Parts
  <2>4. QED
    BY <2>1, <2>2, <2>3 DEF Written, Transcoded, Unzipped
<1>2. Trusted' => StatusOf(x.k) # "done"
  BY <1>0 DEF Written, FilesKept, Trusted, Calm, WritesNew, Writing
<1>3. \A y \in task : y.pc \in Naming => y \in task'
  BY <1>0 DEF Written, Goto, Becomes, Naming
<1>4. (Trusted' => Trusted) /\ bundle' = bundle /\ \A k \in Kinds : StatusOf(k)' = StatusOf(k)
  BY DEF Written, Trusted, storeVars, StatusOf
<1>5. QED
  BY <1>1, <1>2, <1>3, <1>4, LostFiles

LEMMA LostMark ==
  ASSUME TypeOK, NothingLost, NEW x \in task, MarkDone(x)
  PROVE  NothingLost'
<1>1. PICK z \in task' : z.pc = "list"
  BY GoneTo DEF MarkDone, Pcs, After
<1>2. (Named /\ NoStrangers /\ Published)'
  BY <1>1 DEF Named, Held, NoStrangers, Published, Naming
<1>3. Trusted' => SubtitlesBacked'
  BY DEF MarkDone, NothingLost, Trusted, SubtitlesBacked
<1>4. QED
  BY <1>2, <1>3 DEF NothingLost

LEMMA LostList ==
  ASSUME TypeOK, Placed, NothingLost, \A a, b \in Areas : a = b, NEW x \in task, ListDone(x)
  PROVE  NothingLost'
<1>0. x \in Task /\ x.area \in Areas /\ dir' = dir /\ spoiled' = spoiled
  BY DEF ListDone, TypeOK, Placed, HasArea, After
<1>1. \A k \in Kinds : StatusOf(k)' = StatusOf(k)
  BY DEF ListDone, storeVars, StatusOf
<1>2. Trusted' => SubtitlesBacked'
  BY <1>0 DEF NothingLost, Trusted, SubtitlesBacked
<1>3. CASE DoneRenditions = {}
  <2>1. DoneRenditions' = {}
    BY <1>1, <1>3 DEF DoneRenditions
  <2>2. QED
    BY <1>2, <2>1 DEF NothingLost
<1>4. CASE DoneRenditions # {}
  <2>1. PICK z : z = [x EXCEPT !.pc = "manifest", !.names = DoneRenditions \cup SubtitleFiles(x.area)]
    OBVIOUS
  <2>2. z.pc = "manifest" /\ z.names = DoneRenditions \cup SubtitleFiles(x.area)
    BY <1>0, <2>1 DEF Task
  <2>3. z \in task'
    BY <1>4, <2>1 DEF ListDone, Becomes
  <2>4. (NoStrangers /\ Published)'
    BY <2>2, <2>3 DEF NoStrangers, Published, Naming
  <2>5. ASSUME NEW a \in Areas, NEW k \in Kinds, StatusOf(k) = "done", dir[a].files[k] = "complete"
        PROVE  k \in z.names
    BY <1>0, <2>2, <2>5 DEF DoneRenditions, SubtitleFiles
  <2>6. Named'
    BY <1>0, <1>1, <2>2, <2>3, <2>5 DEF Named, Held
  <2>7. QED
    BY <1>2, <2>4, <2>6 DEF NothingLost
<1>5. QED
  BY <1>3, <1>4

\* A manifest of all that is done now makes good what was spoiled; one of less leaves what
\* it lacks to the sub-job that ended meanwhile.
LEMMA LostGenerate ==
  ASSUME TypeOK, Placed, NothingLost, FilesKept, \A a, b \in Areas : a = b,
         NEW x \in task, GenerateMPD(x)
  PROVE  NothingLost'
<1> DEFINE now == DoneRenditions \cup SubtitleFiles(x.area)
           old == dir[x.area].manifest
<1> SUFFICES ASSUME Trusted'
             PROVE  /\ SubtitlesBacked'
                    /\ DoneRenditions' # {} => (Named /\ NoStrangers /\ Published)'
  BY DEF NothingLost
<1>0. x \in Task /\ x.area \in Areas /\ x.names \in SUBSET Kinds
  BY TaskParts DEF GenerateMPD, TypeOK, Placed, HasArea, After
<1>1. \A k \in Kinds : StatusOf(k)' = StatusOf(k)
  BY DEF GenerateMPD, storeVars, StatusOf
<1>2. x.names \subseteq now /\ (x.names = now \/ (Trusted /\ old \cap now \subseteq x.names))
  BY DEF GenerateMPD, Trusted
<1>3. \A a \in Areas : dir'[a].files = dir[a].files /\ dir'[a].manifest = x.names
  <2>1. \A a \in Areas : /\ dir'[a].files = dir[a].files
                        /\ dir'[a].manifest = IF a = x.area THEN x.names ELSE dir[a].manifest
    <3>1. dir' = [dir EXCEPT ![x.area].exists = TRUE, ![x.area].manifest = x.names]
      BY DEF GenerateMPD
    <3>2. QED
      BY <1>0, <3>1, GenerateWrites, ZenonT(60)
  <2>2. \A a \in Areas : a = x.area
    BY <1>0
  <2>3. QED
    BY <2>1, <2>2
<1>4. SubtitlesBacked'
  <2>1. ASSUME NEW a \in Areas, Subtitles \in x.names
        PROVE  dir[a].files[Subtitles] = "complete"
    BY <1>0, <1>2, <2>1 DEF DoneRenditions, SubtitleFiles
  <2>2. QED
    BY <1>3, <2>1 DEF SubtitlesBacked
<1>5. PICK z : z = [x EXCEPT !.pc = "publish", !.names = {}]
  OBVIOUS
<1>6. z.pc = "publish" /\ task' = (task \ {x}) \cup {z}
  BY <1>0, <1>5 DEF GenerateMPD, Becomes, Task
<1>7. ASSUME DoneRenditions' # {}
      PROVE  (Named /\ NoStrangers /\ Published)'
  <2>1. DoneRenditions # {}
    BY <1>1, <1>7 DEF DoneRenditions
  <2>2. ASSUME NEW a \in Areas, NEW k \in Kinds, StatusOf(k) = "done", dir[a].files[k] = "complete"
        PROVE  k \in x.names \/ Held(k)'
    <3>1. a = x.area
      BY <1>0
    <3>2. k \in now
      BY <2>2, <3>1 DEF DoneRenditions, SubtitleFiles
    <3>3. CASE k \in dir[a].manifest
      BY <1>2, <3>1, <3>2, <3>3
    <3>4. ASSUME NEW y \in task, y.pc = "list" \/ (y.pc = "manifest" /\ k \in y.names)
          PROVE  k \in x.names \/ Held(k)'
      <4>1. y = x => k \in x.names
        BY <3>4 DEF GenerateMPD
      <4>2. y # x => y \in task'
        BY <1>6
      <4>3. QED
        BY <3>4, <4>1, <4>2 DEF Held
    <3>5. CASE x.names = now
      BY <3>2, <3>5
    <3>6. CASE Trusted
      <4>1. Named
        BY <2>1, <3>6 DEF NothingLost
      <4>2. QED
        BY <2>2, <3>3, <3>4, <4>1 DEF Named, Held
    <3>7. QED
      BY <1>2, <3>5, <3>6
  <2>3. Named'
    BY <1>1, <1>3, <2>2 DEF Named
  <2>4. NoStrangers'
    <3>1. \A k \in x.names \ {Subtitles} : StatusOf(k) = "done"
      BY <1>2 DEF DoneRenditions, SubtitleFiles
    <3>2. QED
      BY <1>0, <1>1, <1>3, <3>1 DEF NoStrangers, Ended
  <2>5. Published'
    BY <1>6 DEF Published, Naming
  <2>6. QED
    BY <2>3, <2>4, <2>5
<1>8. QED
  BY <1>4, <1>7

LEMMA LostPublish ==
  ASSUME TypeOK, NothingLost, NEW x \in task, Publish(x)
  PROVE  NothingLost'
<1> SUFFICES ASSUME Trusted'
             PROVE  /\ SubtitlesBacked'
                    /\ DoneRenditions' # {} => (Named /\ NoStrangers /\ Published)'
  BY DEF NothingLost
<1>0. x.pc = "publish" /\ Trusted /\ dir' = dir
  BY DEF Publish, Trusted
<1>1. \A k \in Kinds : StatusOf(k)' = StatusOf(k)
  BY DEF Publish, storeVars, StatusOf
<1>2. SubtitlesBacked'
  BY <1>0 DEF NothingLost, SubtitlesBacked
<1>3. PICK z \in Task : task' = (task \ {x}) \cup {z} /\ z.pc = "sidecar"
  BY GoneTo DEF Publish, Pcs, After
<1>4. ASSUME DoneRenditions' # {}
      PROVE  (Named /\ NoStrangers /\ Published)'
  <2>1. DoneRenditions # {}
    BY <1>1, <1>4 DEF DoneRenditions
  <2>2. Named /\ NoStrangers
    BY <1>0, <2>1 DEF NothingLost
  <2>3. \A y \in task : y.pc \in {"list", "manifest"} => y \in task'
    BY <1>0, <1>3
  <2>4. Named'
    BY <1>0, <1>1, <2>2, <2>3 DEF Named, Held
  <2>5. NoStrangers'
    <3>1. \A a \in Areas : dir[a].manifest \subseteq Kinds
      BY DEF TypeOK, Directory
    <3>2. QED
      BY <1>0, <1>1, <2>2, <2>3, <3>1 DEF NoStrangers
  <2>6. Published'
    BY DEF Publish, Published
  <2>7. QED
    BY <2>4, <2>5, <2>6
<1>5. QED
  BY <1>2, <1>4

\* The directories after a sidecar was written.
LEMMA WithSidecarNow ==
  ASSUME TypeOK, \A a, b \in Areas : a = b, NEW x \in task, WriteSidecar(x)
  PROVE  \A a \in Areas : /\ dir'[a].files = dir[a].files
                          /\ dir'[a].manifest = dir[a].manifest
                          /\ dir'[a].sidecar # {}
<1>1. PICK P \in EligibleProfiles : dir' = [dir EXCEPT ![mpd].exists = TRUE, ![mpd].sidecar = P]
  BY DEF WriteSidecar
<1>2. mpd \in Areas /\ P \in SUBSET Profiles /\ P # {}
  BY DEF WriteSidecar, TypeOK, EligibleProfiles
<1>3. /\ \A b \in Areas : dir'[b].files = dir[b].files /\ dir'[b].manifest = dir[b].manifest
      /\ \A b \in Areas : dir'[b].sidecar = IF b = mpd THEN P ELSE dir[b].sidecar
  BY <1>1, <1>2, SidecarWrites
<1>4. \A b \in Areas : b = mpd
  BY <1>2
<1>5. QED
  BY <1>2, <1>3, <1>4

LEMMA LostSidecar ==
  ASSUME TypeOK, NothingLost, \A a, b \in Areas : a = b, NEW x \in task, WriteSidecar(x)
  PROVE  NothingLost'
<1>1. \A a \in Areas : dir'[a].files = dir[a].files /\ dir'[a].manifest = dir[a].manifest
  BY WithSidecarNow
<1>2. \A y \in task : y.pc \in Naming => y \in task'
  BY DEF WriteSidecar, Leave, Naming
<1>3. RowsGo({}) /\ bundle' = bundle /\ (Trusted' => Trusted)
  BY SameRows DEF WriteSidecar, Trusted
<1>4. QED
  BY <1>1, <1>2, <1>3, LostFrame

\* A sub-job that breaks off before its sidecar spoils the manifest.
LEMMA LostBreaks ==
  ASSUME TypeOK, Placed, NothingLost, NEW x \in task, BreaksOff(x)
  PROVE  NothingLost'
<1>1. CASE x.pc # "sidecar"
  <2>1. "manifest" \in spoiled'
    BY <1>1 DEF BreaksOff, Behind
  <2>2. QED
    BY <2>1 DEF NothingLost, Trusted
<1>2. CASE x.pc = "sidecar"
  <2>1. \A a \in Areas : dir'[a].files = dir[a].files /\ dir'[a].manifest = dir[a].manifest
    BY <1>2, BreaksWrites
  <2>2. \A y \in task : y.pc \in Naming => y \in task'
    BY <1>2 DEF BreaksOff, Leave, Naming
  <2>3. RowsGo({}) /\ bundle' = bundle /\ (Trusted' => Trusted)
    BY SameRows DEF BreaksOff, Trusted
  <2>4. QED
    BY <2>1, <2>2, <2>3, LostFrame
<1>3. QED
  BY <1>1, <1>2

LEMMA LostRegenerate ==
  ASSUME TypeOK, Placed, NothingLost, \A a, b \in Areas : a = b,
         NEW ad \in Admins, RegenerateWrites(ad)
  PROVE  NothingLost'
<1> SUFFICES ASSUME Trusted'
             PROVE  /\ SubtitlesBacked'
                    /\ DoneRenditions' # {} => (Named /\ NoStrangers /\ Published)'
  BY DEF NothingLost
<1>0. Trusted /\ bundle' = bundle /\ task' = task
  BY DEF RegenerateWrites, Trusted
<1>1. \A k \in Kinds : StatusOf(k)' = StatusOf(k)
  BY DEF RegenerateWrites, storeVars, StatusOf
<1>2. regen[ad].area \in Areas /\ regen[ad].names \in SUBSET Kinds
  BY DEF RegenerateWrites, Placed, TypeOK, Regen
<1>3. PICK N \in {regen[ad].names, {}} :
        /\ dir' = [dir EXCEPT ![regen[ad].area].exists = TRUE, ![regen[ad].area].manifest = N]
        /\ regen[ad].area = mpd /\ N = DoneRenditions \cup SubtitleFiles(regen[ad].area)
  BY DEF RegenerateWrites, Trusted
<1>4. mpd \in Areas /\ N \in SUBSET Kinds /\ N = DoneRenditions \cup SubtitleFiles(mpd)
  BY <1>2, <1>3
<1>5. dir' = [dir EXCEPT ![mpd].exists = TRUE, ![mpd].manifest = N]
  BY <1>3
<1>6. /\ \A b \in Areas : dir'[b].files = dir[b].files
      /\ \A b \in Areas : dir'[b].manifest = IF b = mpd THEN N ELSE dir[b].manifest
  <2>1. mpd \in Areas /\ N \in SUBSET Kinds
    BY <1>4
  <2>2. QED
    BY <1>5, <2>1, GenerateWrites, ZenonT(60)
<1>7. \A b \in Areas : b = mpd
  BY <1>4
<1>8. SubtitlesBacked'
  BY <1>4, <1>6, <1>7 DEF SubtitlesBacked, SubtitleFiles, DoneRenditions
<1>9. ASSUME DoneRenditions' # {}
      PROVE  (Named /\ NoStrangers /\ Published)'
  <2>1. DoneRenditions # {}
    BY <1>1, <1>9 DEF DoneRenditions
  <2>2. Published'
    BY <1>0, <2>1 DEF NothingLost, Published
  <2>3. Named'
    BY <1>1, <1>4, <1>6, <1>7 DEF Named, DoneRenditions, SubtitleFiles
  <2>4. \A k \in N \ {Subtitles} : k \in Kinds /\ StatusOf(k) = "done"
    BY <1>4 DEF DoneRenditions, SubtitleFiles
  <2>5. NoStrangers'
    BY <1>1, <1>6, <1>7, <2>4 DEF NoStrangers, Ended
  <2>6. QED
    BY <2>2, <2>3, <2>5
<1>10. QED
  BY <1>8, <1>9

LEMMA LostRestart ==
  ASSUME TypeOK, NothingLost, Restart
  PROVE  NothingLost'
<1>1. ASSUME NEW x \in task, x.pc \in Naming
      PROVE  "manifest" \in spoiled'
  <2>1. "manifest" \in Behind(x)
    BY <1>1 DEF Behind, After, Naming
  <2>2. QED
    BY <2>1 DEF Restart
<1>2. CASE \E x \in task : x.pc \in Naming
  BY <1>1, <1>2 DEF NothingLost, Trusted
<1>3. CASE ~\E x \in task : x.pc \in Naming
  <2>1. RowsGo({}) /\ dir' = dir /\ bundle' = bundle /\ (Trusted' => Trusted)
    BY RowsOfRestart DEF Restart, Trusted
  <2>2. QED
    BY <1>3, <2>1, LostFrame
<1>4. QED
  BY <1>2, <1>3

\* The other steps of a task before it writes change nothing of the bundle.
LEMMA EarlyLeaves ==
  ASSUME TypeOK, NEW x \in task, EarlyStep(x), ~UnsetBundle(x)
  PROVE  /\ UNCHANGED <<dir, bundle, spoiled>> /\ RowsGo({})
         /\ \A y \in task : y.pc \in After => y \in task'
<1>1. UNCHANGED <<dir, bundle, spoiled>>
  BY DEF EarlyStep, ReadItem, CountStarted, CheckOwner, Fails, WorkerFails
<1>2. RowsGo({})
  <2>1. CASE Fails(x) \/ WorkerFails(x)
    <3>1. "failed" \in Ended
      BY DEF Ended
    <3>2. EndSubJob(x, "failed") \/ UNCHANGED storeVars
      BY <2>1 DEF Fails, WorkerFails
    <3>3. QED
      BY <3>1, <3>2, RowsOfEnd, SameRows
  <2>2. CASE UNCHANGED storeVars
    BY <2>2, SameRows
  <2>3. QED
    BY <2>1, <2>2 DEF EarlyStep, ReadItem, CountStarted, CheckOwner
<1>3. QED
  BY <1>1, <1>2, EarlyTasks

\* Steps of nobody's task change nothing of the bundle either.
LEMMA OthersLeave ==
  ASSUME TypeOK,
         \/ \E e \in Locals \cup Workers : Claim(e)
         \/ StoreCall
         \/ \E ad \in Admins : RegenerateReads(ad)
         \/ UNCHANGED vars
  PROVE  /\ UNCHANGED <<dir, bundle, spoiled>> /\ RowsGo({})
         /\ \A y \in task : y \in task'
<1>1. CASE \E e \in Locals \cup Workers : Claim(e)
  BY <1>1, RowsOfClaim DEF Claim
<1>2. CASE StoreCall
  BY <1>2, RowsOfStoreCall DEF StoreCall, bundleVars
<1>3. CASE \E ad \in Admins : RegenerateReads(ad)
  BY <1>3, SameRows DEF RegenerateReads
<1>4. CASE UNCHANGED vars
  BY <1>4, SameRows DEF vars, bundleVars
<1>5. QED
  BY <1>1, <1>2, <1>3, <1>4

LEMMA LostStep ==
  ASSUME TypeOK, Placed, NothingLost, FilesKept, \A a, b \in Areas : a = b, [Next]_vars
  PROVE  NothingLost'
<1>1. ASSUME UNCHANGED <<dir, bundle, spoiled>>, RowsGo({}),
             \A y \in task : y.pc \in After => y \in task'
      PROVE  NothingLost'
  <2>1. \A y \in task : y.pc \in Naming => y \in task'
    BY <1>1 DEF After, Naming
  <2>2. Trusted' => Trusted
    BY <1>1 DEF Trusted
  <2>3. QED
    BY <1>1, <2>1, <2>2, LostFrame
<1>2. ASSUME NEW x \in task, EarlyStep(x), ~UnsetBundle(x)
      PROVE  NothingLost'
  BY <1>1, <1>2, EarlyLeaves
<1>3. ASSUME \/ \E e \in Locals \cup Workers : Claim(e)
             \/ StoreCall
             \/ \E ad \in Admins : RegenerateReads(ad)
             \/ UNCHANGED vars
      PROVE  NothingLost'
  BY <1>1, <1>3, OthersLeave
<1>4. QED
  BY <1>2, <1>3, LostEnqueue, LostUnset, LostClean, LostSelect, LostWritten, LostMark, LostList,
     LostGenerate, LostPublish, LostSidecar, LostBreaks, LostRegenerate, LostRestart
  DEF Next, EarlyStep

-----------------------------------------------------------------------------
(* The sidecar.  Unless the last to write it failed or was cut off, it is   *)
(* there or a sub-job that has ended is about to write it.                  *)

Described == (\A a \in Areas : dir[a].sidecar # {}) \/ \E x \in task : x.pc \in After

SidecarKept ==
  spoiled \cap {"clash", "sidecar"} = {} /\ DoneRenditions # {} => Described

LEMMA SidecarInit == Init => SidecarKept
  BY BundleAssumption
  DEF Init, StoreInit, SidecarKept, DoneRenditions, StatusOf, NoSub

\* Steps that take away no sidecar, and no task that is to write one.
LEMMA SidecarFrame ==
  ASSUME SidecarKept, spoiled \cap {"clash", "sidecar"} \subseteq spoiled', RowsGo({}),
         \A a \in Areas : dir'[a].sidecar = dir[a].sidecar,
         \A x \in task : x.pc \in After => \E y \in task' : y.pc \in After
  PROVE  SidecarKept'
<1>1. DoneRenditions' \subseteq DoneRenditions
  BY DEF RowsGo, DoneRenditions
<1>2. QED
  BY <1>1 DEF SidecarKept, Described

\* A sub-job at its manifest goes on to the sidecar.
LEMMA LateGoesOn ==
  ASSUME TypeOK, NEW x \in task,
         ListDone(x) \/ GenerateMPD(x) \/ Publish(x) \/ (BreaksOff(x) /\ "sidecar" \notin spoiled')
  PROVE  \E y \in task' : y.pc \in After
<1>0. x \in Task
  BY DEF TypeOK
<1>1. ASSUME NEW z, Becomes(x, z), z.pc \in After
      PROVE  \E y \in task' : y.pc \in After
  BY <1>1 DEF Becomes
<1>2. ASSUME NEW N, NEW pc \in After, Becomes(x, [x EXCEPT !.pc = pc, !.names = N])
      PROVE  \E y \in task' : y.pc \in After
  <2>1. PICK z : z = [x EXCEPT !.pc = pc, !.names = N]
    OBVIOUS
  <2>2. z.pc \in After
    BY <1>0, <2>1 DEF Task
  <2>3. QED
    BY <1>1, <1>2, <2>1, <2>2
<1>3. ASSUME Goto(x, "sidecar")
      PROVE  \E y \in task' : y.pc \in After
  BY <1>3, GoneTo DEF Pcs, After
<1>4. CASE ListDone(x)
  BY <1>2, <1>3, <1>4 DEF ListDone, After
<1>5. CASE GenerateMPD(x)
  BY <1>2, <1>5 DEF GenerateMPD, After
<1>6. CASE Publish(x)
  BY <1>3, <1>6 DEF Publish
<1>7. CASE BreaksOff(x) /\ "sidecar" \notin spoiled'
  <2>1. Becomes(x, [x EXCEPT !.pc = "sidecar", !.names = {}])
    BY <1>7 DEF BreaksOff, Behind
  <2>2. QED
    BY <1>2, <2>1 DEF After
<1>8. QED
  BY <1>4, <1>5, <1>6, <1>7

LEMMA SidecarStep ==
  ASSUME TypeOK, Placed, SidecarKept, FilesKept, \A a, b \in Areas : a = b, [Next]_vars
  PROVE  SidecarKept'
<1>1. ASSUME NEW P \in EligibleProfiles, Enqueue(P)
      PROVE  SidecarKept'
  <2>1. DoneRenditions' = {}
    BY <1>1, NewRowsOfEnqueue DEF RowsNew, DoneRenditions
  <2>2. QED
    BY <2>1 DEF SidecarKept
<1>2. ASSUME UNCHANGED <<dir, bundle, spoiled>>, RowsGo({}),
             \A y \in task : y.pc \in After => y \in task'
      PROVE  SidecarKept'
  BY <1>2, SidecarFrame
<1>3. ASSUME NEW x \in task, EarlyStep(x), ~UnsetBundle(x)
      PROVE  SidecarKept'
  BY <1>2, <1>3, EarlyLeaves
<1>4. ASSUME \/ \E e \in Locals \cup Workers : Claim(e)
             \/ StoreCall
             \/ \E ad \in Admins : RegenerateReads(ad)
             \/ UNCHANGED vars
      PROVE  SidecarKept'
  BY <1>2, <1>4, OthersLeave
<1>5. ASSUME NEW x \in task, UnsetBundle(x)
      PROVE  SidecarKept'
  <2>1. \A y \in task : y.pc \in After => y \in task'
    BY <1>5, EarlyTasks DEF EarlyStep
  <2>2. RowsGo({}) /\ dir' = dir /\ spoiled \subseteq spoiled'
    BY <1>5, SameRows DEF UnsetBundle
  <2>3. QED
    BY <2>1, <2>2, SidecarFrame
<1>6. ASSUME NEW x \in task, CleanUp(x)
      PROVE  SidecarKept'
  <2>1. \A y \in task : y.pc \in After => y \in task'
    BY <1>6, GoneTo DEF CleanUp, Pcs, Before, After
  <2>2. RowsGo({}) /\ spoiled \subseteq spoiled'
    BY <1>6, SameRows DEF CleanUp
  <2>3. CASE dir' = dir
    BY <2>1, <2>2, <2>3, SidecarFrame
  <2>4. CASE dir' # dir
    BY <1>6, <2>4, CleanedUp DEF SidecarKept, Calm
  <2>5. QED
    BY <2>3, <2>4
<1>7. ASSUME NEW x \in task, SelectArea(x)
      PROVE  SidecarKept'
  <2>1. PICK a \in Areas :
          /\ Becomes(x, [x EXCEPT !.pc = "write", !.area = a])
          /\ dir' = [dir EXCEPT ![a].exists = TRUE,
                              ![a].files[x.k] = IF x.k = Subtitles THEN @ ELSE "partial"]
    BY <1>7 DEF SelectArea
  <2>2. \A b \in Areas : dir'[b].sidecar = dir[b].sidecar
    BY <2>1, SelectWrites, ZenonT(60)
  <2>3. \A y \in task : y.pc \in After => y \in task'
    BY <1>7, <2>1 DEF SelectArea, Starting, Becomes, After
  <2>4. RowsGo({}) /\ spoiled \subseteq spoiled'
    BY <1>7, SameRows DEF SelectArea
  <2>5. QED
    BY <2>2, <2>3, <2>4, SidecarFrame
<1>8. ASSUME NEW x \in task, Written(x)
      PROVE  SidecarKept'
  <2>1. x.pc = "write" /\ x.area \in Areas
    BY <1>8 DEF Written, Placed, HasArea
  <2>2. \A b \in Areas : dir'[b].sidecar = dir[b].sidecar
    <3>1. CASE dir' = dir
      BY <3>1
    <3>2. CASE Result(x, "complete")
      BY <2>1, <3>2, ResultWrites DEF Parts
    <3>3. CASE Result(x, "partial")
      BY <2>1, <3>3, ResultWrites DEF Parts
    <3>4. QED
      BY <1>8, <3>1, <3>2, <3>3 DEF Written, Transcoded, Unzipped
  <2>3. \A y \in task : y.pc \in After => y \in task'
    BY <1>8, <2>1 DEF Written, Goto, Becomes, After
  <2>4. RowsGo({}) /\ spoiled' = spoiled
    BY <1>8, SameRows DEF Written
  <2>5. QED
    BY <2>2, <2>3, <2>4, SidecarFrame
<1>9. ASSUME NEW x \in task, MarkDone(x)
      PROVE  SidecarKept'
  <2>1. PICK z \in task' : z.pc = "list"
    BY <1>9, GoneTo DEF MarkDone, Pcs, After
  <2>2. QED
    BY <2>1 DEF SidecarKept, Described, After
<1>10. ASSUME NEW x \in task, ListDone(x) \/ GenerateMPD(x) \/ Publish(x) \/ BreaksOff(x)
       PROVE  SidecarKept'
  BY <1>10, LateGoesOn DEF SidecarKept, Described
<1>11. ASSUME NEW x \in task, WriteSidecar(x)
       PROVE  SidecarKept'
  BY <1>11, WithSidecarNow DEF SidecarKept, Described
<1>12. ASSUME NEW ad \in Admins, RegenerateWrites(ad)
       PROVE  SidecarKept'
  <2>1. PICK N \in {regen[ad].names, {}} :
          dir' = [dir EXCEPT ![regen[ad].area].exists = TRUE, ![regen[ad].area].manifest = N]
    BY <1>12 DEF RegenerateWrites
  <2>2. regen[ad].area \in Areas /\ N \in SUBSET Kinds
    BY <1>12 DEF RegenerateWrites, Placed, TypeOK, Regen
  <2>3. \A b \in Areas : dir'[b].sidecar = dir[b].sidecar
    BY <2>1, <2>2, GenerateWrites
  <2>4. RowsGo({}) /\ task' = task /\ spoiled \subseteq spoiled'
    BY <1>12, SameRows DEF RegenerateWrites
  <2>5. QED
    BY <2>3, <2>4, SidecarFrame
<1>13. CASE Restart
  <2>1. ASSUME NEW x \in task, x.pc \in After
        PROVE  "sidecar" \in spoiled'
    <3>1. "sidecar" \in Behind(x)
      BY <2>1 DEF Behind
    <3>2. QED
      BY <1>13, <3>1 DEF Restart
  <2>2. CASE \E x \in task : x.pc \in After
    BY <2>1, <2>2 DEF SidecarKept
  <2>3. CASE ~\E x \in task : x.pc \in After
    <3>1. RowsGo({}) /\ dir' = dir /\ spoiled \subseteq spoiled'
      BY <1>13, RowsOfRestart DEF Restart
    <3>2. QED
      BY <2>3, <3>1, SidecarFrame
  <2>4. QED
    BY <2>2, <2>3
<1>14. QED
  BY <1>1, <1>3, <1>4, <1>5, <1>6, <1>7, <1>8, <1>9, <1>10, <1>11, <1>12, <1>13 DEF Next, EarlyStep

-----------------------------------------------------------------------------
(* The bundle of a finished job                                             *)

BundleInv == TypeOK /\ Placed /\ Stands /\ FilesKept /\ NothingLost /\ SidecarKept

LEMMA BundleInvariant ==
  ASSUME \A a, b \in Areas : a = b
  PROVE  Spec => []BundleInv
<1>1. Init => BundleInv
  BY TypedInit, StandsInit, FilesInit, LostInit, SidecarInit DEF BundleInv
<1>2. BundleInv /\ [Next]_vars => BundleInv'
  BY TypedStep, StandsStep, FilesStep, LostStep, SidecarStep DEF BundleInv
<1>3. QED
  BY <1>1, <1>2, PTL DEF Spec

LEMMA DoneStays == Spec => []DoneIsComplete
  BY BundleImplementsStore, StoreDoneIsComplete, PTL

\* The renditions of a finished job: at least one, all done, all complete.
LEMMA FinishedRenditions ==
  ASSUME BundleInv, DoneIsComplete, Finished, Calm
  PROVE  /\ \A k \in Kinds : SubExists(Item, k) => StatusOf(k) = "done"
         /\ SubExists(Item, Subtitles)
         /\ DoneRenditions # {}
         /\ \A k \in DoneRenditions, a \in Areas : dir[a].files[k] = "complete"
<1>1. JobExists(Item)
  BY DEF Finished, JobExists
<1>2. \A k \in Kinds : SubExists(Item, k) => StatusOf(k) = "done"
  BY BundleAssumption DEF DoneIsComplete, Finished, SubExists, StatusOf
<1>3. SubExists(Item, Subtitles) /\ \E p \in Profiles : SubExists(Item, p)
  BY <1>1 DEF BundleInv, Stands
<1>4. DoneRenditions # {}
  BY <1>2, <1>3, StoreAssumption DEF DoneRenditions, Kinds
<1>5. QED
  BY <1>2, <1>3, <1>4 DEF BundleInv, FilesKept, DoneIsThere

\* Of a finished bundle whose manifest a sub-job has written since the last accident, every
\* file the manifest names is of a rendition of the job.
LEMMA FinishedManifest ==
  ASSUME BundleInv, DoneIsComplete, Finished, Trusted
  PROVE  \A a \in Areas : \A k \in dir[a].manifest \ {Subtitles} : k \in DoneRenditions
<1>1. DoneRenditions # {} /\ \A k \in Kinds : SubExists(Item, k) => StatusOf(k) = "done"
  BY FinishedRenditions DEF Calm, Trusted
<1>2. ~\E x \in task : x.pc \in {"list", "manifest"}
  BY DEF Finished, Quiet
<1>3. \A a \in Areas : \A k \in dir[a].manifest \ {Subtitles} : StatusOf(k) \in Ended
  BY <1>1, <1>2 DEF BundleInv, NothingLost, NoStrangers
<1>4. \A a \in Areas : dir[a].manifest \subseteq Kinds
  BY DEF BundleInv, TypeOK, Directory
<1>5. \A k \in Kinds : StatusOf(k) \in Ended => SubExists(Item, k)
  BY DEF Ended, SubExists, StatusOf
<1>6. QED
  BY <1>1, <1>3, <1>4, <1>5 DEF DoneRenditions

\* What the manifest of a finished bundle names is all there, for every interleaving of
\* any number of goroutines, uploads, failures and restarts, where the item has one
\* directory.
THEOREM BundleBacked ==
  ASSUME \A a, b \in Areas : a = b
  PROVE  Spec => []ManifestBacked
<1>1. ASSUME BundleInv, DoneIsComplete
      PROVE  ManifestBacked
  <2> SUFFICES ASSUME Finished, bundle = "available", Calm,
                      NEW k \in dir[mpd].manifest \ {Subtitles},
                      "manifest" \notin spoiled \/ SubExists(Item, k)
               PROVE  dir[mpd].files[k] = "complete"
    BY DEF ManifestBacked, Calm
  <2>1. mpd \in Areas /\ k \in Kinds
    BY <1>1 DEF BundleInv, TypeOK, Placed, Directory
  <2>2. k \in DoneRenditions
    <3>1. CASE "manifest" \notin spoiled
      BY <1>1, <2>1, <3>1, FinishedManifest DEF Trusted, Calm
    <3>2. CASE SubExists(Item, k)
      BY <1>1, <2>1, <3>2, FinishedRenditions DEF DoneRenditions
    <3>3. QED
      BY <3>1, <3>2
  <2>3. QED
    BY <1>1, <2>1, <2>2, FinishedRenditions
<1>2. Spec => []BundleInv
  BY BundleInvariant
<1>3. QED
  BY <1>1, <1>2, DoneStays, PTL

\* A finished job is published, with a manifest of exactly its renditions and subtitles
\* and a sidecar beside it, though no sub-job knows that it is the last; what a failure, a
\* crash or an overlap left behind was made good by the next sub-job that got through.
THEOREM BundleComplete ==
  ASSUME \A a, b \in Areas : a = b
  PROVE  Spec => []ManifestComplete
<1>1. ASSUME BundleInv, DoneIsComplete
      PROVE  ManifestComplete
  <2> SUFFICES ASSUME Finished, spoiled \subseteq {"sidecar"}
               PROVE  /\ bundle = "available"
                      /\ dir[mpd].manifest = DoneRenditions \cup SubtitleFiles(mpd)
                      /\ "sidecar" \notin spoiled => dir[mpd].sidecar # {}
    BY DEF ManifestComplete
  <2>0. Calm /\ Trusted
    BY DEF Calm, Trusted
  <2>1. /\ \A k \in DoneRenditions, a \in Areas : dir[a].files[k] = "complete"
        /\ DoneRenditions # {} /\ StatusOf(Subtitles) = "done"
    BY <1>1, <2>0, FinishedRenditions DEF Kinds
  <2>2. \A x \in task : x.pc = "work"
    BY DEF Finished, Quiet
  <2>3. SubtitlesBacked /\ Named /\ Published
    BY <1>1, <2>0, <2>1 DEF BundleInv, NothingLost
  <2>4. bundle = "available"
    BY <2>2, <2>3 DEF Published, Naming
  <2>5. mpd \in Areas
    BY <1>1, <2>4 DEF BundleInv, Placed
  <2>6. "sidecar" \notin spoiled => dir[mpd].sidecar # {}
    BY <1>1, <2>1, <2>2, <2>5 DEF BundleInv, SidecarKept, Described, After
  <2>7. dir[mpd].manifest \subseteq DoneRenditions \cup SubtitleFiles(mpd)
    BY <1>1, <2>0, <2>3, <2>5, FinishedManifest DEF SubtitlesBacked, SubtitleFiles
  <2>8. \A k \in Kinds : StatusOf(k) = "done" /\ dir[mpd].files[k] = "complete"
                           => k \in dir[mpd].manifest
    BY <2>2, <2>3, <2>5 DEF Named, Held
  <2>9. DoneRenditions \cup SubtitleFiles(mpd) \subseteq dir[mpd].manifest
    BY <2>1, <2>5, <2>8 DEF DoneRenditions, SubtitleFiles, Kinds
  <2>10. QED
    BY <2>4, <2>6, <2>7, <2>9
<1>2. Spec => []BundleInv
  BY BundleInvariant
<1>3. QED
  BY <1>1, <1>2, DoneStays, PTL
=============================================================================
