----------------------------- MODULE LibraryScan -----------------------------
(***************************************************************************)
(* One library: the files in its directory, the rows of media_items that   *)
(* describe them, the full scans and the watcher that keep the two in      *)
(* step, and the transcode pool that changes the rows meanwhile.           *)
(*                                                                         *)
(* A scan (Scanner.ScanAll) and the watcher (Scanner.Start) are goroutines *)
(* of their own.  Each indexes a file with upsertFile, a sequence of calls *)
(* to the store, and every call is an action: what was read before it may  *)
(* be stale by then.  Files of different content may have the same size.   *)
(***************************************************************************)
EXTENDS Naturals, Sequences, FiniteSets

CONSTANTS
  Paths,        \* video files the library may hold
  Nested,       \* those in a subdirectory of their own
  Contents,     \* what a file may contain, and so its fingerprint
  SizeOf,       \* the size of each content
  Ids,          \* ids of media items
  None,         \* NULL, and no file
  Walkers,      \* goroutines of ScanAll
  Watcher,      \* the goroutine of Start
  Episodes,     \* the library's media type is tvshow
  Unparsed,     \* paths whose name is no episode's
  MaxChanges,   \* bound on changes to the directory
  MaxTranscodes \* bound on transcode jobs

ASSUME ScanAssumption ==
  /\ Nested \subseteq Paths /\ Unparsed \subseteq Paths
  /\ DOMAIN SizeOf = Contents
  /\ None \notin Paths \cup Contents \cup Ids \cup Walkers
  /\ Watcher \notin Walkers
  /\ Episodes \in BOOLEAN
  /\ MaxChanges \in Nat /\ MaxTranscodes \in Nat

VARIABLES
  disk,      \* the content of each path
  library,   \* the row of the library: "none", "present", "deleted"
  manager,   \* whether Manager has a scanner for it: "none", "added", "removed"
  item,      \* media_items
  parents,   \* rows of the show and season the episodes belong to
  archive,   \* fingerprints of bundles, by artifact record or sidecar
  proc,      \* the goroutines
  watched,   \* nested paths whose directory has a watch
  events,    \* what fsnotify has not delivered yet
  calm,      \* history: the scan that nothing has disturbed since it began
  changes, transcodes

vars == <<disk, library, manager, item, parents, archive, proc, watched, events,
          calm, changes, transcodes>>
store == <<library, item, parents, archive>>
counters == <<changes, transcodes>>

Procs == Walkers \cup {Watcher}

Sizes == {SizeOf[c] : c \in Contents}
Row == [path : Paths, size : Sizes, fp : Contents \cup {None},
        src : {"available", "missing"}, bundle : {"none", "available"},
        tr : {"none", "active", "done"}]
NoRow == [path |-> None]
Exists(i) == item[i] # NoRow
At(p) == {i \in Ids : item[i].path = p}

Event == [op : {"create", "write", "mkdir", "remove"}, p : Paths]

\* A goroutine: its pc, the paths a scan has not reached and those it met, whether it
\* met an error (history), the files it takes for unchanged (history, see Unnoticed),
\* whether the scan was asked for by a request, and the file it is at: path, id, and
\* the row it read or will write.
Process == [pc : {"off", "idle", "walk", "stat", "avail", "save", "find", "relink",
                  "episode", "show", "season", "ident", "match", "move", "link", "upsert",
                  "drop", "lose", "mark", "end"},
            todo : SUBSET Paths, seen : SUBSET Paths, failed : BOOLEAN,
            unnoticed : SUBSET Paths, request : BOOLEAN, p : Paths \cup {None}, i : Ids \cup {None},
            m : Row \cup {NoRow}]
Idle == [pc |-> "idle", todo |-> {}, seen |-> {}, failed |-> FALSE, unnoticed |-> {},
         request |-> FALSE, p |-> None, i |-> None, m |-> NoRow]

Init ==
  /\ disk \in [Paths -> {None} \cup Contents]
  /\ library = "none" /\ manager = "none"
  /\ item = [i \in Ids |-> NoRow]
  /\ parents = {} /\ archive = {}
  /\ proc = [s \in Procs |-> IF s = Watcher THEN [Idle EXCEPT !.pc = "off"] ELSE Idle]
  /\ watched = {} /\ events = <<>>
  /\ calm = None
  /\ changes = 0 /\ transcodes = 0

\* Ids are random: a new one is no row's, and nobody remembers it.
FreshIds == {i \in Ids : ~Exists(i) /\ \A s \in Procs : proc[s].i # i}

Becomes(s, r) ==
  /\ proc' = [proc EXCEPT ![s] = r]
  /\ calm' = IF calm = s THEN s ELSE None
Goto(s, pc) == Becomes(s, [proc[s] EXCEPT !.pc = pc])

\* The file is dealt with: a scan goes on with its walk, the watcher with its events.
NextFile(s, failed) ==
  Becomes(s, [proc[s] EXCEPT !.pc = IF s = Watcher THEN "idle" ELSE "walk",
                             !.failed = (s # Watcher) /\ (@ \/ failed),
                             !.p = None, !.i = None, !.m = NoRow])

\* Calls to the store fail once their context is cancelled: that of a scan Add
\* started and of the watcher by Remove.
Live(s) == proc[s].request \/ manager = "added"

-----------------------------------------------------------------------------
(* The store *)

\* Mutant: the row of a deleted library is written all the same.
CanUpsertAnywhere(i, m) == At(m.path) # {} \/ ~Exists(i)

\* ON CONFLICT(file_path): the fingerprint is kept if there is no new one, and a
\* finished transcode stays finished.  Without a row at the path the insert fails
\* when the id is taken or the library is gone.
CanUpsert(i, m) == At(m.path) # {} \/ (~Exists(i) /\ library = "present")

\* Mutant: the status of the transcode is overwritten like the other columns.
UpsertAllColumns(i, m) ==
  IF At(m.path) = {} THEN item' = [item EXCEPT ![i] = m]
  ELSE item' = [j \in Ids |->
         IF item[j].path # m.path THEN item[j]
         ELSE [m EXCEPT !.fp = IF @ = None THEN item[j].fp ELSE @]]

UpsertMediaItem(i, m) ==
  IF At(m.path) = {} THEN item' = [item EXCEPT ![i] = m]
  ELSE item' = [j \in Ids |->
         IF item[j].path # m.path THEN item[j]
         ELSE [m EXCEPT !.fp = IF @ = None THEN item[j].fp ELSE @,
                        !.tr = IF item[j].tr = "done" THEN "done" ELSE @]]

\* The unique index on file_path; without the row nothing is updated, nor reported.
CanMove(i, p) == At(p) \subseteq {i} \/ ~Exists(i)

\* Mutant: a row that is gone is written.
MoveUnchecked(i, p) == item' = [item EXCEPT ![i].path = p]

UpdateMediaItemFilePath(i, p) ==
  item' = IF Exists(i) THEN [item EXCEPT ![i].path = p, ![i].src = "available"] ELSE item

SetMediaSourceStatus(i, s) ==
  item' = IF Exists(i) THEN [item EXCEPT ![i].src = s] ELSE item

DeleteMediaItem(i) == item' = [item EXCEPT ![i] = NoRow]

\* Mutant: what decides is the transcode, not the bundle.
PruneUntranscoded(seen) ==
  item' = [i \in Ids |-> IF Exists(i) /\ item[i].tr = "none" /\ item[i].path \notin seen
                           THEN NoRow ELSE item[i]]

\* The two statements of PruneStaleMediaItems.
PruneDeletes(seen) ==
  item' = [i \in Ids |-> IF Exists(i) /\ item[i].bundle = "none" /\ item[i].path \notin seen
                           THEN NoRow ELSE item[i]]
PruneMarks(seen) ==
  item' = [i \in Ids |-> IF Exists(i) /\ item[i].bundle = "available" /\ item[i].path \notin seen
                           THEN [item[i] EXCEPT !.src = "missing"] ELSE item[i]]

-----------------------------------------------------------------------------
(* upsertFile.  The error of a call ends it, or is logged, or is ignored.   *)

\* The row the file gets unless a bundle or a moved row is found.
NewRow(p) == [path |-> p, size |-> SizeOf[disk[p]], fp |-> None, src |-> "available",
              bundle |-> "none", tr |-> "none"]

\* The fingerprint of a file is its content's, unless the file cannot be read.
GenerateDeterministic(p) == {disk[p], None}

\* What is left to do for a row whose file has the size it had.
AfterAvailable(m) ==
  IF m.tr = "done" THEN "return" ELSE IF m.fp = None THEN "save" ELSE "find"

\* The rows that say the file at the path has this size.
SameSize(p, size) == {i \in At(p) : item[i].size = size}

\* Such a file is taken for unchanged.
KnownFile(s, i) ==
  LET pc == IF item[i].src = "available" THEN AfterAvailable(item[i]) ELSE "avail"
  IN IF pc = "return" THEN NextFile(s, FALSE)
     ELSE Becomes(s, [proc[s] EXCEPT !.pc = pc, !.i = i, !.m = item[i]])

Stat(s) ==
  LET r == proc[s]
      p == r.p
      same == SameSize(p, SizeOf[disk[p]])
  IN /\ r.pc = "stat" /\ Live(s)
     /\ IF disk[p] = None THEN NextFile(s, TRUE)
        ELSE IF same = {}
          THEN Becomes(s, [r EXCEPT !.pc = IF Episodes THEN "episode" ELSE "ident",
                                    !.m = NewRow(p)])
        ELSE \E i \in same : KnownFile(s, i)
     /\ UNCHANGED <<disk, store, manager, watched, events, counters>>

SourceIsBack(s) ==
  LET r == proc[s]
  IN /\ r.pc = "avail" /\ Live(s)
     /\ SetMediaSourceStatus(r.i, "available")
     /\ IF AfterAvailable(r.m) = "return" THEN NextFile(s, FALSE)
                                          ELSE Goto(s, AfterAvailable(r.m))
     /\ UNCHANGED <<disk, library, parents, archive, manager, watched, events, counters>>

\* tryLinkExistingItem: it writes the row as it was read before, and its errors
\* are ignored.
SaveFingerprint(s) ==
  LET r == proc[s]
  IN /\ r.pc = "save" /\ Live(s)
     /\ \E fp \in GenerateDeterministic(r.p) :
          LET m == [r.m EXCEPT !.fp = fp]
          IN IF fp = None THEN NextFile(s, TRUE) /\ UNCHANGED item
             ELSE /\ Becomes(s, [r EXCEPT !.pc = "find", !.m = m])
                  /\ IF CanUpsert(r.i, m) THEN UpsertMediaItem(r.i, m) ELSE UNCHANGED item
     /\ UNCHANGED <<disk, library, parents, archive, manager, watched, events, counters>>

Bundled(m) == [m EXCEPT !.bundle = "available", !.tr = "done"]

FindBundle(s) ==
  LET r == proc[s]
  IN /\ r.pc = "find" /\ Live(s)
     /\ IF r.m.fp \in archive THEN Becomes(s, [r EXCEPT !.pc = "relink", !.m = Bundled(r.m)])
                              ELSE NextFile(s, FALSE)
     /\ UNCHANGED <<disk, store, manager, watched, events, counters>>

Relink(s) ==
  LET r == proc[s]
  IN /\ r.pc = "relink" /\ Live(s)
     /\ IF CanUpsert(r.i, r.m) THEN UpsertMediaItem(r.i, r.m) ELSE UNCHANGED item
     /\ NextFile(s, FALSE)
     /\ UNCHANGED <<disk, library, parents, archive, manager, watched, events, counters>>

\* upsertTVEpisodeFile looks for the row again, which has a show and a season like every
\* row of such a library, and leaves out a file whose name it cannot parse.
ParseTVEpisode(s) ==
  LET r == proc[s]
      same == SameSize(r.p, r.m.size)
  IN /\ r.pc = "episode" /\ Live(s)
     /\ IF same # {} THEN \E i \in same : KnownFile(s, i)
        ELSE IF r.p \in Unparsed THEN NextFile(s, FALSE)
        ELSE Goto(s, "show")
     /\ UNCHANGED <<disk, store, manager, watched, events, counters>>

\* The show and the season come first.
UpsertTVEpisodeFile(s) ==
  LET pc == proc[s].pc
  IN /\ pc \in {"show", "season"} /\ Live(s)
     /\ IF library = "present" /\ (pc = "season" => "show" \in parents)
          THEN parents' = parents \cup {pc}
               /\ Goto(s, IF pc = "show" THEN "season" ELSE "ident")
          ELSE NextFile(s, TRUE) /\ UNCHANGED parents
     /\ UNCHANGED <<disk, library, item, archive, manager, watched, events, counters>>

\* processDeduplicationAndLinking: the row at the path, and the fingerprint.
Identify(s) ==
  LET r == proc[s]
  IN /\ r.pc = "ident" /\ Live(s)
     /\ \E i \in IF At(r.p) = {} THEN {None} ELSE At(r.p), fp \in GenerateDeterministic(r.p) :
          Becomes(s, [r EXCEPT !.pc = IF fp = None THEN "upsert" ELSE "match",
                               !.failed = (s # Watcher) /\ (@ \/ fp = None),
                               !.i = i, !.m.fp = fp])
     /\ UNCHANGED <<disk, store, manager, watched, events, counters>>

\* Any row with the fingerprint: at another path it is the file that moved here.
Match(s) ==
  LET r == proc[s]
      rows == {j \in Ids : Exists(j) /\ item[j].fp = r.m.fp}
      here == rows = {} \/ \E j \in rows : item[j].path = r.p
  IN /\ r.pc = "match" /\ Live(s)
     /\ \/ \E j \in rows : item[j].path # r.p /\ Becomes(s, [r EXCEPT !.pc = "move", !.i = j])
        \/ /\ here
           /\ IF r.m.fp \in archive
                THEN Becomes(s, [r EXCEPT !.pc = "link", !.m = Bundled(r.m)])
                ELSE Goto(s, "upsert")
     /\ UNCHANGED <<disk, store, manager, watched, events, counters>>

MoveRow(s) ==
  LET r == proc[s]
  IN /\ r.pc = "move" /\ Live(s)
     /\ IF CanMove(r.i, r.p) THEN UpdateMediaItemFilePath(r.i, r.p) /\ NextFile(s, FALSE)
                             ELSE UNCHANGED item /\ NextFile(s, TRUE)
     /\ UNCHANGED <<disk, library, parents, archive, manager, watched, events, counters>>

\* With a bundle the row is written twice, and then announced (EventBus).
WriteRow(s) ==
  LET r == proc[s]
  IN /\ r.pc \in {"link", "upsert"} /\ Live(s)
     /\ \E i \in IF r.i = None THEN FreshIds ELSE {r.i} :
          IF CanUpsert(i, r.m)
            THEN /\ UpsertMediaItem(i, r.m)
                 /\ IF r.pc = "link" THEN Becomes(s, [r EXCEPT !.pc = "upsert", !.i = i])
                                     ELSE NextFile(s, FALSE)
            ELSE NextFile(s, TRUE) /\ UNCHANGED item
     /\ UNCHANGED <<disk, library, parents, archive, manager, watched, events, counters>>

\* A statement of the store fails: the file is counted as failed, or the error is
\* logged (SetMediaSourceStatus, the watcher's) or ignored (tryLinkExistingItem).
StatementFails(s) ==
  LET r == proc[s]
      onward == r.pc = "avail" /\ AfterAvailable(r.m) # "return"
  IN /\ r.pc \in {"avail", "relink", "show", "season", "move", "link", "upsert", "drop", "lose"}
     /\ IF onward THEN Becomes(s, [r EXCEPT !.pc = AfterAvailable(r.m), !.failed = s # Watcher])
                  ELSE NextFile(s, TRUE)
     /\ UNCHANGED <<disk, store, manager, watched, events, counters>>

-----------------------------------------------------------------------------
(* Scanner.ScanAll                                                          *)

AtRest(s) == proc[s].pc \in {"off", "idle"}

\* A file that has the size of its row is not looked at, so that a change of its content
\* goes unnoticed, and a row without a fingerprint stays so if its transcode is done.
Unnoticed(p) ==
  /\ disk[p] # None
  /\ \E i \in SameSize(p, SizeOf[disk[p]]) :
       item[i].fp # disk[p] /\ AfterAvailable(item[i]) # "save"

\* The names of a directory are read when the walk enters it; an entry that cannot be
\* read is skipped.
ScanBegins(s, request) ==
  LET entries == Nested \cup {p \in Paths : disk[p] # None}
  IN /\ proc[s].pc = "idle" /\ s \in Walkers
     /\ \E todo \in SUBSET entries :
          proc' = [proc EXCEPT ![s] = [Idle EXCEPT !.pc = "walk", !.request = request,
                     !.todo = todo, !.failed = todo # entries,
                     !.unnoticed = {p \in Paths : Unnoticed(p)}]]
     /\ calm' = IF \A t \in Procs : AtRest(t) THEN s ELSE None

\* A directory of its own may be gone, or unreadable.
Visit(s, p) ==
  LET r == proc[s]
  IN /\ r.pc = "walk" /\ p \in r.todo
     /\ \/ /\ p \notin Nested \/ disk[p] # None
           /\ Becomes(s, [r EXCEPT !.todo = @ \ {p}, !.seen = @ \cup {p},
                                   !.pc = "stat", !.p = p])
        \/ /\ p \in Nested
           /\ Becomes(s, [r EXCEPT !.todo = @ \ {p}, !.failed = @ \/ disk[p] # None])
     /\ UNCHANGED <<disk, store, manager, watched, events, counters>>

Prune(s) ==
  LET r == proc[s]
  IN /\ r.pc = "walk" /\ r.todo = {} /\ Live(s)
     /\ PruneDeletes(r.seen)
     /\ Goto(s, "mark")
     /\ UNCHANGED <<disk, library, parents, archive, manager, watched, events, counters>>

Mark(s) ==
  LET r == proc[s]
  IN /\ r.pc = "mark" /\ Live(s)
     /\ PruneMarks(r.seen)
     /\ Goto(s, "end")
     /\ UNCHANGED <<disk, library, parents, archive, manager, watched, events, counters>>

\* Either statement fails, and the scan ends all the same.
PruningFails(s) ==
  LET r == proc[s]
  IN /\ r.pc = "mark" \/ (r.pc = "walk" /\ r.todo = {})
     /\ Becomes(s, [r EXCEPT !.pc = "end", !.failed = TRUE])
     /\ UNCHANGED <<disk, store, manager, watched, events, counters>>

ScanEnds(s) ==
  /\ proc[s].pc = "end"
  /\ Becomes(s, Idle)
  /\ UNCHANGED <<disk, store, manager, watched, events, counters>>

-----------------------------------------------------------------------------
(* Scanner.Start and handleEvent                                            *)

WatchBegins ==
  /\ manager = "added" /\ proc[Watcher].pc = "off"
  /\ Becomes(Watcher, Idle)
  /\ watched' = {p \in Nested : disk[p] # None}
  /\ UNCHANGED <<disk, store, manager, events, counters>>

\* A new directory is watched from now on; what it holds already is not indexed.
HandleEvent ==
  LET e == Head(events)
  IN /\ proc[Watcher].pc = "idle" /\ events # <<>> /\ Live(Watcher)
     /\ events' = Tail(events)
     /\ CASE e.op \in {"create", "write"} ->
               /\ Becomes(Watcher, [Idle EXCEPT !.pc = "stat", !.p = e.p])
               /\ UNCHANGED watched
          [] e.op = "mkdir" -> Becomes(Watcher, Idle) /\ watched' = watched \cup {e.p}
          [] e.op = "remove" ->
               /\ IF At(e.p) = {} THEN Becomes(Watcher, Idle)
                  ELSE \E i \in At(e.p) :
                    Becomes(Watcher, [Idle EXCEPT !.i = i,
                              !.pc = IF item[i].bundle = "none" THEN "drop" ELSE "lose"])
               /\ UNCHANGED watched
     /\ UNCHANGED <<disk, store, manager, counters>>

\* The watcher acts on what it read.
SourceIsGone ==
  LET r == proc[Watcher]
  IN /\ r.pc \in {"drop", "lose"} /\ Live(Watcher)
     /\ IF r.pc = "drop" THEN DeleteMediaItem(r.i) ELSE SetMediaSourceStatus(r.i, "missing")
     /\ NextFile(Watcher, FALSE)
     /\ UNCHANGED <<disk, library, parents, archive, manager, watched, events, counters>>

\* The context is cancelled: by Remove, or since the response to the request was
\* sent.  All later calls to the store fail.
Cancelled(s) ==
  /\ proc[s].pc # "off" /\ (AtRest(s) => s = Watcher)
  /\ proc[s].request \/ manager = "removed"
  /\ Becomes(s, IF s = Watcher THEN [Idle EXCEPT !.pc = "off"] ELSE Idle)
  /\ UNCHANGED <<disk, store, manager, watched, events, counters>>

-----------------------------------------------------------------------------
(* The library API and Manager                                              *)

CreateLibrary ==
  /\ library = "none"
  /\ library' = "present"
  /\ calm' = None
  /\ UNCHANGED <<disk, item, parents, archive, manager, proc, watched, events, counters>>

\* Manager.add: the initial scan, and the watcher.
AddScanner(s) ==
  /\ library # "none" /\ manager = "none"
  /\ manager' = "added"
  /\ ScanBegins(s, FALSE)
  /\ UNCHANGED <<disk, store, watched, events, counters>>

ScanLibrary(s) ==
  /\ library = "present" /\ manager = "added"
  /\ ScanBegins(s, TRUE)
  /\ UNCHANGED <<disk, store, manager, watched, events, counters>>

\* Everything of the library goes with it.
DeleteLibrary ==
  /\ library = "present"
  /\ library' = "deleted"
  /\ item' = [i \in Ids |-> NoRow] /\ parents' = {}
  /\ calm' = None
  /\ UNCHANGED <<disk, archive, manager, proc, watched, events, counters>>

RemoveScanner ==
  /\ library = "deleted" /\ manager = "added"
  /\ manager' = "removed"
  /\ calm' = None
  /\ UNCHANGED <<disk, store, proc, watched, events, counters>>

-----------------------------------------------------------------------------
(* The directory, and fsnotify.                                             *)

Watching(p) == proc[Watcher].pc # "off" /\ (p \in Nested => p \in watched)

\* What the watcher is told when the file of p appears.
Appears(p) ==
  IF Watching(p) THEN <<[op |-> IF disk[p] = None THEN "create" ELSE "write", p |-> p]>>
  ELSE IF proc[Watcher].pc # "off" /\ disk[p] = None THEN <<[op |-> "mkdir", p |-> p]>>
  ELSE <<>>
Disappears(p) == IF Watching(p) THEN <<[op |-> "remove", p |-> p]>> ELSE <<>>

Changed(d, e) ==
  /\ changes < MaxChanges /\ changes' = changes + 1
  /\ disk' = d
  /\ events' = events \o e
  /\ calm' = None
  /\ UNCHANGED <<store, manager, proc, watched, transcodes>>

PutFile(p, c) == disk[p] # c /\ Changed([disk EXCEPT ![p] = c], Appears(p))
RemoveFile(p) == disk[p] # None /\ Changed([disk EXCEPT ![p] = None], Disappears(p))
RenameFile(p, q) ==
  /\ p # q /\ disk[p] # None
  /\ Changed([disk EXCEPT ![p] = None, ![q] = disk[p]], Disappears(p) \o Appears(q))

-----------------------------------------------------------------------------
(* The transcode pool (TranscodeQueue, TranscodeBundle).                    *)

Transcoding(i, r, a) ==
  /\ item' = [item EXCEPT ![i] = r]
  /\ archive' = a
  /\ calm' = None
  /\ UNCHANGED <<disk, library, parents, manager, proc, watched, events, changes>>

TranscodeBegins(i) ==
  /\ Exists(i) /\ item[i].tr # "active"
  /\ transcodes < MaxTranscodes /\ transcodes' = transcodes + 1
  /\ Transcoding(i, [item[i] EXCEPT !.tr = "active"], archive)

\* The old bundle goes; an artifact record of it may stay.
OldBundleDropped(i) ==
  /\ Exists(i) /\ item[i].tr = "active" /\ item[i].bundle = "available"
  /\ \E a \in {archive, archive \ {item[i].fp}} :
       Transcoding(i, [item[i] EXCEPT !.bundle = "none"], a)
  /\ UNCHANGED transcodes

TranscodeEnds(i) ==
  /\ Exists(i) /\ item[i].tr = "active" /\ disk[item[i].path] # None
  /\ Transcoding(i, [item[i] EXCEPT !.tr = "done", !.bundle = "available"],
       archive \cup {IF item[i].fp = None THEN disk[item[i].path] ELSE item[i].fp})
  /\ UNCHANGED transcodes

-----------------------------------------------------------------------------

Next ==
  \/ \E s \in Procs : Stat(s)
  \/ \E s \in Procs : SourceIsBack(s)
  \/ \E s \in Procs : SaveFingerprint(s)
  \/ \E s \in Procs : FindBundle(s)
  \/ \E s \in Procs : Relink(s)
  \/ \E s \in Procs : ParseTVEpisode(s)
  \/ \E s \in Procs : UpsertTVEpisodeFile(s)
  \/ \E s \in Procs : Identify(s)
  \/ \E s \in Procs : Match(s)
  \/ \E s \in Procs : MoveRow(s)
  \/ \E s \in Procs : WriteRow(s)
  \/ \E s \in Procs : StatementFails(s)
  \/ \E s \in Walkers, p \in Paths : Visit(s, p)
  \/ \E s \in Walkers : Prune(s)
  \/ \E s \in Walkers : Mark(s)
  \/ \E s \in Walkers : PruningFails(s)
  \/ \E s \in Walkers : ScanEnds(s)
  \/ WatchBegins
  \/ HandleEvent
  \/ SourceIsGone
  \/ \E s \in Procs : Cancelled(s)
  \/ CreateLibrary
  \/ \E s \in Walkers : AddScanner(s)
  \/ \E s \in Walkers : ScanLibrary(s)
  \/ DeleteLibrary
  \/ RemoveScanner
  \/ \E p \in Paths, c \in Contents : PutFile(p, c)
  \/ \E p \in Paths : RemoveFile(p)
  \/ \E p, q \in Paths : RenameFile(p, q)
  \/ \E i \in Ids : TranscodeBegins(i)
  \/ \E i \in Ids : OldBundleDropped(i)
  \/ \E i \in Ids : TranscodeEnds(i)

Spec == Init /\ [][Next]_vars

-----------------------------------------------------------------------------
(* Properties *)

\* Every variable keeps to its set, the steps of every goroutine included.
TypeOK ==
  /\ disk \in [Paths -> Contents \cup {None}]
  /\ library \in {"none", "present", "deleted"}
  /\ manager \in {"none", "added", "removed"}
  /\ item \in [Ids -> Row \cup {NoRow}]
  /\ parents \subseteq {"show", "season"}
  /\ archive \subseteq Contents
  /\ proc \in [Procs -> Process]
  /\ watched \subseteq Nested
  /\ events \in Seq(Event)
  /\ calm \in Walkers \cup {None}
  /\ changes \in 0..MaxChanges
  /\ transcodes \in 0..MaxTranscodes

\* A scan that nothing disturbed since it began, and that met no error.
CleanEnd(s) == proc[s].pc = "end" /\ calm = s /\ ~proc[s].failed

\* The files a scan promises a row for.
Indexable(s, p) ==
  disk[p] # None /\ p \notin proc[s].unnoticed /\ ~(Episodes /\ p \in Unparsed)

\* When ScanAll ends undisturbed and has met no error, the rows describe the directory,
\* whatever scans, watchers, moves and transcodes went before and whatever they left half
\* done: every file has a row with its fingerprint at a path that holds this content, but
\* for a file whose name is no episode's in a library of shows and for one that was
\* replaced, before the scan, by another of the same size; and a row without a file has
\* a bundle and says that its source is missing.
ScanConverges ==
  \A s \in Walkers : CleanEnd(s) =>
    /\ \A p \in Paths : Indexable(s, p) =>
         \E i \in Ids : Exists(i) /\ item[i].fp = disk[p] /\ disk[item[i].path] = disk[p]
    /\ \A i \in Ids : Exists(i) /\ disk[item[i].path] = None =>
         item[i].bundle = "available" /\ item[i].src = "missing"

\* No scan and no watcher takes a finished transcode back, although they write whole
\* rows they read or composed earlier: only a new job does (UpsertMediaItem's CASE).
DoneStays ==
  [][\A i \in Ids : Exists(i) /\ item[i].tr = "done" /\ Exists(i)' =>
       item'[i].tr = "done" \/ transcodes' # transcodes]_vars

\* A scan or a watcher that is still at work when its library is deleted brings none
\* of its rows back, nor the show and the season of an episode it is about to write.
DeletedIsEmpty == library = "deleted" => parents = {} /\ \A i \in Ids : ~Exists(i)
=============================================================================
