---------------------------- MODULE JobLifecycle ----------------------------
(***************************************************************************)
(* What the transcode queue is to those who only look at the status of a   *)
(* job and of its media item: a job is created for an item that exists,    *)
(* stays until the item is deleted, and ends with the end of a sub-job     *)
(* only.  Deleted items do not come back.  TranscodeStore implements this. *)
(***************************************************************************)
CONSTANTS
  Media   \* media items

VARIABLES
  life,   \* the status of an item's job: "queued" when pending or processing,
          \* "absent" when the item has none
  item    \* the item's transcode_status: "busy" when pending, processing or failed,
          \* "deleted" when there is no row

lifecycle == <<life, item>>

JobStatus == {"queued", "done", "failed"}
Over == {"done", "failed"}
ItemStatus == {"none", "busy", "done"}

LifecycleInit ==
  /\ life = [m \in Media |-> "absent"]
  /\ item = [m \in Media |-> "none"]

Creates(m) ==
  /\ life[m] = "absent" /\ item[m] # "deleted"
  /\ life' = [life EXCEPT ![m] = "queued"]
  /\ UNCHANGED item

Requeues(m) ==
  /\ life[m] # "absent"
  /\ life' = [life EXCEPT ![m] = "queued"]
  /\ UNCHANGED item

Marks(m, s) ==
  /\ item' = [item EXCEPT ![m] = IF @ = "deleted" THEN @ ELSE s]
  /\ UNCHANGED life

\* What a transaction may make of an item and its job, short of ending the job.
MayBecome(m, l, i) ==
  /\ i = "deleted" <=> item[m] = "deleted"
  /\ life[m] = "absent" => l = "absent" \/ (l = "queued" /\ item[m] # "deleted")
  /\ life[m] # "absent" => l # "absent"
  /\ l \in Over => l = life[m]

Moves ==
  \E l \in [Media -> JobStatus \cup {"absent"}], i \in [Media -> ItemStatus \cup {"deleted"}] :
    /\ \A m \in Media : MayBecome(m, l[m], i[m])
    /\ life' = l /\ item' = i

\* The end of a sub-job settles its job, or not.
Settles(m) ==
  /\ life[m] # "absent"
  /\ \E l \in JobStatus : life' = [life EXCEPT ![m] = l]
  /\ \E i \in ItemStatus : item' = [item EXCEPT ![m] = IF @ = "deleted" THEN @ ELSE i]

Deletes(m) ==
  /\ item[m] # "deleted"
  /\ life' = [life EXCEPT ![m] = "absent"]
  /\ item' = [item EXCEPT ![m] = "deleted"]

LifecycleNext == Moves \/ \E m \in Media : Settles(m) \/ Deletes(m)

LifecycleSpec == LifecycleInit /\ [][LifecycleNext]_lifecycle
=============================================================================
