------------------------------ MODULE Artifacts ------------------------------
(***************************************************************************)
(* Storage areas, the index of the bundles found in them, and what ties    *)
(* the bundles to media items after a database was lost: the sidecars on   *)
(* disk, artifact_records, artifact_media_links, IndexStorageArea with     *)
(* every statement a step of its own, RelinkExact, and the requests and    *)
(* goroutines that run them, while files, rows and areas change.           *)
(*                                                                         *)
(* A media item is known by the path of its file; files that move belong   *)
(* to LibraryScan.  What the scanner or a transcode writes is written here *)
(* by one action of each, which disturbs every run.                        *)
(***************************************************************************)
EXTENDS Naturals, FiniteSets

CONSTANTS
  Areas,        \* ids of storage areas
  Roots,        \* directories that may be the path of an area
  Dirs,         \* directories of bundles below a root
  Files,        \* source files, and the media items by their file_path
  Fps,          \* fingerprints
  LibraryOf,    \* the library below whose path a file is
  Runs,         \* requests and goroutines that index or relink
  None,
  MaxChanges    \* bound on what others change

ASSUME ArtifactAssumption ==
  /\ None \notin Files \cup Fps \cup (Roots \X Dirs)
  /\ DOMAIN LibraryOf = Files
  /\ MaxChanges \in Nat

VARIABLES
  area,      \* rows of storage_areas
  disk,      \* the sidecar in each directory
  mounted,   \* roots that exist
  source,    \* the source files, by fingerprint
  item,      \* rows of media_items
  rec,       \* rows of artifact_records
  links,     \* rows of artifact_media_links
  update,    \* UpdateStorageArea between its write and the end
  run,       \* IndexAll and IndexStorageArea, or RelinkExact
  changes

vars == <<area, disk, mounted, source, item, rec, links, update, run, changes>>
index == <<rec, links>>
world == <<area, disk, mounted, source, update, changes>>

Places == Roots \X Dirs
Artifacts == Areas \X Files

\* What a sidecar says; os.WriteFile truncates it first.
Card == [src : Files, fp : Fps]
Broken == [src |-> None, fp |-> None]

Area == [path : Roots, enabled : BOOLEAN]
Item == [fp : Fps \cup {None}, done : BOOLEAN, mpd : Places \cup {None}]
Health == {"healthy", "stale", "missing"}
Record == [place : Places, fp : Fps, health : Health, old : BOOLEAN]
LinkStatus == {"linked", "ambiguous"}
Link == [art : Artifacts, file : Files, status : LinkStatus]

ASSUME RowAssumption == None \notin Area \cup Item \cup Record

\* queue: the areas that remain; todo: directories to visit; seen: existingArtifacts;
\* known: the row found by area and source path; row: the media item; lost: that row
\* was deleted since; marks: the rows listed, with their health; matches: of an artifact.
\* calm is a history: since the area, or the relink, began nothing was changed by others,
\* and no statement failed.
Idle == [pc |-> "off", queue |-> {}, area |-> None, root |-> None, todo |-> {}, seen |-> {},
         place |-> None, card |-> None, known |-> None, row |-> None, lost |-> FALSE,
         marks |-> {}, arts |-> {}, enabled |-> {}, calm |-> FALSE]

\* The path is unique.
PathFree(a, p) == \A b \in Areas \ {a} : area[b] = None \/ area[b].path # p

\* A new database: areas were set up, perhaps, and files scanned; bundles are on disk.
Init ==
  /\ area \in [Areas -> {None} \cup [path : Roots, enabled : {TRUE}]]
  /\ \A a \in Areas : area[a] # None => PathFree(a, area[a].path)
  /\ disk \in [Places -> Card \cup {None}]
  /\ mounted = Roots
  /\ \E fp \in [Files -> Fps] :
       /\ source = fp
       /\ \A p \in Places : disk[p] # None => disk[p].fp = fp[disk[p].src]
  /\ item \in [Files -> {None} \cup [fp : Fps, done : {FALSE}, mpd : {None}]]
  /\ \A f \in Files : item[f] # None => item[f].fp = source[f]
  /\ rec = [x \in Artifacts |-> None]
  /\ links = {}
  /\ update = None
  /\ run = [r \in Runs |-> Idle]
  /\ changes = 0

Sidecar(p) == IF p[1] \in mounted THEN disk[p] ELSE None
Readable(p) == Sidecar(p) \notin {None, Broken}
Active == {r \in Runs : run[r].pc # "off"}

\* Others change what a run may have read.
Disturbed == [r \in Runs |-> [run[r] EXCEPT !.calm = FALSE]]
Changed == changes < MaxChanges /\ changes' = changes + 1
Disturbs == Changed /\ run' = Disturbed

\* A run begins; if another is active none of them is undisturbed.
Starts(r, new) ==
  /\ run[r].pc = "off"
  /\ run' = [Disturbed EXCEPT ![r] = [new EXCEPT !.calm = Active = {}]]

Becomes(r, new) == run' = [run EXCEPT ![r] = new]
Goes(r, pc) == Becomes(r, [run[r] EXCEPT !.pc = pc])

\* To the next directory.
Walking(r) == [run[r] EXCEPT !.pc = "walk", !.place = None, !.card = None,
                 !.known = None, !.row = None, !.lost = FALSE]
WalksOn(r) == Becomes(r, Walking(r))

-----------------------------------------------------------------------------
(* Storage areas: the handlers, and the goroutine that indexes               *)

\* A goroutine for the area, when one of Runs is free.
Spawns(a, row) ==
  \E r \in Runs : Starts(r, [Idle EXCEPT !.pc = "next", !.queue = {[area |-> a, root |-> row.path]}])

CreateStorageArea(a, p, on) ==
  /\ area[a] = None /\ PathFree(a, p) /\ Changed
  /\ area' = [area EXCEPT ![a] = [path |-> p, enabled |-> on]]
  /\ IF on THEN Spawns(a, area'[a]) ELSE run' = Disturbed
  /\ UNCHANGED <<disk, mounted, source, item, index, update>>

UpdateStorageArea(a, p, on) ==
  /\ area[a] # None /\ PathFree(a, p) /\ update = None /\ Disturbs
  /\ area' = [area EXCEPT ![a] = [path |-> p, enabled |-> on]]
  /\ update' = [area |-> a, was |-> area[a]]
  /\ UNCHANGED <<disk, mounted, source, item, index>>

\* The row is read again; the request may be cancelled before.
UpdateEnds ==
  LET a == update.area
  IN /\ update # None /\ update' = None
     /\ \/ /\ area[a] # None /\ area[a].enabled
           /\ ~update.was.enabled \/ update.was.path # area[a].path
           /\ Spawns(a, area[a])
        \/ UNCHANGED run
     /\ UNCHANGED <<area, disk, mounted, source, item, index, changes>>

\* Its records and their links go with the row.
DeleteStorageArea(a) ==
  /\ area[a] # None /\ Disturbs
  /\ area' = [area EXCEPT ![a] = None]
  /\ rec' = [x \in Artifacts |-> IF x[1] = a THEN None ELSE rec[x]]
  /\ links' = {l \in links : l.art[1] # a}
  /\ UNCHANGED <<disk, mounted, source, item, update>>

-----------------------------------------------------------------------------
(* IndexAll and IndexStorageArea                                             *)

\* ListStorageAreasByKind
EnabledAreas == {a \in Areas : area[a] # None /\ area[a].enabled}

IndexAll(r) ==
  /\ Starts(r, [Idle EXCEPT !.pc = "next",
                  !.queue = {[area |-> a, root |-> area[a].path] : a \in EnabledAreas}])
  /\ EnabledAreas # {}
  /\ UNCHANGED <<world, item, index>>

\* A path that does not exist changes nothing.
IndexStorageArea(r) ==
  /\ run[r].pc = "next"
  /\ IF run[r].queue = {} THEN Becomes(r, Idle)
     ELSE \E q \in run[r].queue :
       Becomes(r, [Idle EXCEPT
         !.pc = IF q.root \in mounted THEN "walk" ELSE "next",
         !.queue = run[r].queue \ {q}, !.area = q.area, !.root = q.root,
         !.todo = {q.root} \X Dirs, !.calm = run[r].calm])
  /\ UNCHANGED <<world, item, index>>

\* ReadSidecar, and GetArtifactRecordByStorageAreaAndPath.
Visit(r) ==
  /\ run[r].pc = "walk"
  /\ \E p \in run[r].todo :
       IF ~Readable(p) THEN Becomes(r, [run[r] EXCEPT !.todo = @ \ {p}])
       ELSE Becomes(r, [run[r] EXCEPT !.todo = @ \ {p}, !.pc = "register", !.place = p,
                          !.card = disk[p], !.known = rec[run[r].area, disk[p].src]])
  /\ UNCHANGED <<world, item, index>>

\* A known record keeps the directory it was first found in.
Registered(known, p, fp) ==
  [place |-> IF known # None THEN known.place ELSE p, fp |-> fp, health |-> "healthy", old |-> FALSE]

UpsertArtifactRecord(r) ==
  rec' = [rec EXCEPT ![<<run[r].area, run[r].card.src>>] =
            Registered(run[r].known, run[r].place, run[r].card.fp)]

Register(r) ==
  /\ run[r].pc = "register"
  /\ IF area[run[r].area] = None THEN UNCHANGED rec /\ WalksOn(r)
     ELSE /\ UpsertArtifactRecord(r)
          /\ Becomes(r, [run[r] EXCEPT !.pc = "match", !.seen = @ \cup {run[r].card.src},
               \* known also when somebody else inserted the row meanwhile: its id is another
               !.known = rec[run[r].area, run[r].card.src]])
  /\ UNCHANGED <<world, item, links>>

\* GetMediaItemByFingerprint, in the library below whose path the source was.
SameContent(c) == {f \in Files : item[f] # None /\ item[f].fp = c.fp
                                 /\ LibraryOf[f] = LibraryOf[c.src]}

Match(r) ==
  /\ run[r].pc = "match"
  /\ IF SameContent(run[r].card) = {} THEN WalksOn(r)
     ELSE \E f \in SameContent(run[r].card) :
            Becomes(r, [run[r] EXCEPT !.pc = "attach", !.row = f, !.lost = FALSE])
  /\ UNCHANGED <<world, item, index>>

\* UpsertMediaItem of the row as it was read, with the bundle.
Attached(r) == [item EXCEPT ![run[r].row] = [fp |-> run[r].card.fp, done |-> TRUE, mpd |-> run[r].place]]

\* Mutant: the item is written only for a bundle that is new in the index.
AttachNew(r) ==
  /\ run[r].pc = "attach"
  /\ item' = IF run[r].known = None THEN Attached(r) ELSE item
  /\ Becomes(r, [run[r] EXCEPT !.pc = "link", !.lost = @ /\ item[run[r].row] # None])
  /\ UNCHANGED <<world, index>>

\* A row that was deleted since it was read comes back.
Attach(r) ==
  /\ run[r].pc = "attach"
  /\ item' = Attached(r)
  /\ Becomes(r, [run[r] EXCEPT !.pc = "link", !.lost = @ /\ item[run[r].row] # None])
  /\ UNCHANGED <<world, index>>

\* Mutant: a second link between an artifact and an item.
NewLinksAgain(x, f, status) ==
  IF rec[x] = None \/ item[f] = None THEN {}
  ELSE {[art |-> x, file |-> f, status |-> status]}

\* CreateArtifactMediaLink: of rows that exist, and unless there is one.
NewLinks(x, f, status) ==
  IF rec[x] = None \/ item[f] = None \/ \E l \in links : l.art = x /\ l.file = f THEN {}
  ELSE {[art |-> x, file |-> f, status |-> status]}

\* record.ID is the id of the row only if the row is new.
LinkFound(r) ==
  /\ run[r].pc = "link"
  /\ links' = links \cup (IF run[r].known # None \/ run[r].lost THEN {}
                          ELSE NewLinks(<<run[r].area, run[r].card.src>>, run[r].row, "linked"))
  /\ WalksOn(r)
  /\ UNCHANGED <<world, item, rec>>

\* Mutant: the rows are listed though the walk broke off.
ListEarly(r) ==
  /\ run[r].pc = "walk"
  /\ Becomes(r, [run[r] EXCEPT !.pc = "mark",
       !.marks = {[file |-> f, health |-> rec[run[r].area, f].health] :
                    f \in {g \in Files : rec[run[r].area, g] # None}}])
  /\ UNCHANGED <<world, item, index>>

\* ListArtifactRecordsByStorageArea, when every directory was visited.
ListRecords(r) ==
  /\ run[r].pc = "walk" /\ run[r].todo = {}
  /\ Becomes(r, [run[r] EXCEPT !.pc = "mark",
       !.marks = {[file |-> f, health |-> rec[run[r].area, f].health] :
                    f \in {g \in Files : rec[run[r].area, g] # None}}])
  /\ UNCHANGED <<world, item, index>>

HealthFound(r, m, now) ==
  IF m.file \notin run[r].seen THEN "missing"
  ELSE IF m.health \in {"stale", "missing"} THEN "healthy" ELSE now

MarkRecord(r) ==
  /\ run[r].pc = "mark"
  /\ \E m \in run[r].marks :
       LET x == <<run[r].area, m.file>>
       IN /\ rec' = IF rec[x] = None THEN rec
                    ELSE [rec EXCEPT ![x].health = HealthFound(r, m, rec[x].health)]
          /\ Becomes(r, [run[r] EXCEPT !.marks = @ \ {m}])
  /\ UNCHANGED <<world, item, links>>

MarkStale(r) ==
  /\ run[r].pc = "mark" /\ run[r].marks = {}
  /\ rec' = [x \in Artifacts |->
       IF x[1] = run[r].area /\ rec[x] # None /\ rec[x].health # "missing" /\ rec[x].old
       THEN [rec[x] EXCEPT !.health = "stale"] ELSE rec[x]]
  /\ Goes(r, "indexed")
  /\ UNCHANGED <<world, item, links>>

AreaDone(r) ==
  /\ run[r].pc = "indexed" /\ Goes(r, "next")
  /\ UNCHANGED <<world, item, index>>

\* The request of HandleIndex or HandleRelink is cancelled: no statement succeeds any more.
Cancelled(r) ==
  /\ run[r].pc \notin {"off", "indexed", "relinked"}
  /\ Becomes(r, Idle)
  /\ UNCHANGED <<world, item, index>>

\* What a run goes on with when a statement fails or a directory cannot be read: the
\* directory is left, the area, the mark, or the artifact that was to be relinked.
Failed(r) ==
  LET pc == run[r].pc
  IN {new \in {Walking(r)} : pc \in {"register", "match", "attach", "link"}}
     \cup {new \in {[run[r] EXCEPT !.known = None]} : pc = "register"}
     \cup {new \in {[run[r] EXCEPT !.pc = "next"]} : pc = "walk"}
     \cup {[run[r] EXCEPT !.marks = @ \ {m}] : m \in run[r].marks}
     \cup {new \in {[run[r] EXCEPT !.pc = "indexed"]} : pc = "mark" /\ run[r].marks = {}}
     \cup {[run[r] EXCEPT !.arts = @ \ {u}] : u \in run[r].arts}

StatementFails(r) ==
  /\ \E new \in Failed(r) : run' = [Disturbed EXCEPT ![r] = [new EXCEPT !.calm = FALSE]]
  /\ UNCHANGED <<world, item, index>>

-----------------------------------------------------------------------------
(* RelinkExact                                                               *)

\* Mutant: what is missing is not relinked.
UnmatchedHealthy == {x \in Artifacts : rec[x] # None /\ rec[x].health = "healthy"
                                       /\ ~\E l \in links : l.art = x /\ l.status = "linked"}

\* GetUnmatchedArtifacts
Unmatched == {x \in Artifacts : rec[x] # None /\ ~\E l \in links : l.art = x /\ l.status = "linked"}

RelinkExact(r) ==
  /\ Unmatched # {}
  /\ Starts(r, [Idle EXCEPT !.pc = "relink", !.enabled = EnabledAreas,
                  !.arts = {[art |-> x, fp |-> rec[x].fp] : x \in Unmatched}])
  /\ UNCHANGED <<world, item, index>>

\* findMatchingMediaItems: of the items that are done, by the file as it is on disk, or
\* by its path; below the path of an enabled area no source path is an item's.
Matching(u, on) == {f \in Files : /\ item[f] # None /\ item[f].done
                                  /\ source[f] = u.fp \/ (u.art[2] = f /\ u.art[1] \notin on)}

\* Mutant: all that match are linked.
StatusAll(f, first) == "linked"

StatusOf(f, first) == IF f = first THEN "linked" ELSE "ambiguous"

RelinkOne(r) ==
  /\ run[r].pc = "relink"
  /\ \E u \in run[r].arts :
       LET found == Matching(u, run[r].enabled)
       IN /\ Becomes(r, [run[r] EXCEPT !.arts = @ \ {u}])
          /\ IF found = {} THEN UNCHANGED links
             ELSE \E first \in found :
                    links' = links \cup UNION {NewLinks(u.art, f, StatusOf(f, first)) : f \in found}
  /\ UNCHANGED <<world, item, rec>>

RelinkEnds(r) ==
  \/ /\ run[r].pc = "relink" /\ run[r].arts = {} /\ Goes(r, "relinked")
     /\ UNCHANGED <<world, item, index>>
  \/ /\ run[r].pc = "relinked" /\ Becomes(r, Idle)
     /\ UNCHANGED <<world, item, index>>

-----------------------------------------------------------------------------
(* What others do                                                            *)

\* A transcode ends, or HandleWriteSidecars runs: the sidecar is truncated, then written.
TranscodeEnds(f, p) ==
  /\ item[f] # None /\ p[1] \in mounted /\ Disturbs
  /\ disk[p] # None => disk[p].src \in {f, None}
  /\ item' = [item EXCEPT ![f].done = TRUE, ![f].mpd = p]
  /\ disk' = [disk EXCEPT ![p] = Broken]
  /\ UNCHANGED <<area, mounted, source, index, update>>

WriteSidecar(f) ==
  LET p == item[f].mpd
      fp == IF item[f].fp # None THEN item[f].fp ELSE source[f]
  IN /\ item[f] # None /\ p # None /\ fp # None /\ p[1] \in mounted
     /\ disk[p] # [src |-> f, fp |-> fp]
     /\ disk' = [disk EXCEPT ![p] = [src |-> f, fp |-> fp]]
     /\ run' = Disturbed
     /\ UNCHANGED <<area, mounted, source, item, index, update, changes>>

Enqueues(f) ==
  /\ item[f] # None /\ item[f].done /\ Disturbs
  /\ item' = [item EXCEPT ![f].done = FALSE]
  /\ UNCHANGED <<area, disk, mounted, source, index, update>>

\* The records of a content in enabled areas, and the bundles there that are not indexed.
Indexed(fp) == {x \in Artifacts : rec[x] # None /\ rec[x].fp = fp /\ x[1] \in EnabledAreas}
Unindexed(fp) == {b \in EnabledAreas \X Places :
                    b[2][1] = area[b[1]].path /\ Readable(b[2]) /\ disk[b[2]].fp = fp}

\* The item gets the bundle, and a link however many there are; either write may fail.
Discovers(f, fp, x, p) ==
  \/ UNCHANGED <<item, links>>
  \/ /\ item' = [item EXCEPT ![f] = [fp |-> fp, done |-> TRUE, mpd |-> p]]
     /\ \/ UNCHANGED links
        \/ /\ ~\E l \in links : l.art = x /\ l.file = f
           /\ links' = links \cup {[art |-> x, file |-> f, status |-> "linked"]}

\* By the row of a record, or else by a sidecar, whose record is written first.
LinksToBundle(f, fp) ==
  \/ \E x \in Indexed(fp) : Discovers(f, fp, x, rec[x].place) /\ UNCHANGED rec
  \/ \E b \in Unindexed(fp) :
       LET x == <<b[1], disk[b[2]].src>>
           new == Registered(rec[x], b[2], fp)
       IN Indexed(fp) = {} /\ rec' = [rec EXCEPT ![x] = new] /\ Discovers(f, fp, x, new.place)

\* No bundle has the content, or the fingerprint or a query fails.
StaysPlain(f, fp) ==
  /\ item' = [item EXCEPT ![f] = IF @ = None THEN [fp |-> fp, done |-> FALSE, mpd |-> None]
                                 ELSE [@ EXCEPT !.fp = fp]]
  /\ UNCHANGED index

\* The scanner meets a file: without a row, with one that is not done, or of another
\* size.  The fingerprint is computed, unless that fails, or the row has one already.
ScanFinds(f) ==
  LET known == IF item[f] = None THEN None ELSE item[f].fp
  IN /\ source[f] # None /\ Disturbs
     /\ item[f] # None /\ item[f].done => known # source[f]
     /\ \/ \E fp \in {source[f], known} : StaysPlain(f, fp)
        \/ \E fp \in {source[f], known} \ {None} : LinksToBundle(f, fp)
     /\ UNCHANGED <<area, disk, mounted, source, update>>

\* The links go with the row.
ScanDeletes(f) ==
  /\ item[f] # None /\ Changed
  /\ item' = [item EXCEPT ![f] = None]
  /\ links' = {l \in links : l.file # f}
  /\ run' = [r \in Runs |-> [Disturbed[r] EXCEPT !.lost = @ \/ run[r].row = f]]
  /\ UNCHANGED <<area, disk, mounted, source, rec, update>>

SourceChanges(f) ==
  /\ Disturbs
  /\ \E fp \in Fps \cup {None} : source' = [source EXCEPT ![f] = fp]
  /\ UNCHANGED <<area, disk, mounted, item, index, update>>

\* A bundle is removed, or another copied over it.
BundleChanges(p) ==
  /\ Disturbs
  /\ \E c \in {None} \cup {disk[q] : q \in Places} : disk' = [disk EXCEPT ![p] = c]
  /\ UNCHANGED <<area, mounted, source, item, index, update>>

Mounts(p) ==
  /\ Disturbs
  /\ mounted' = IF p \in mounted THEN mounted \ {p} ELSE mounted \cup {p}
  /\ UNCHANGED <<area, disk, source, item, index, update>>

\* No run lasts that long.
SevenDaysPass ==
  /\ Active = {} /\ Disturbs
  /\ rec' = [x \in Artifacts |-> IF rec[x] = None THEN None ELSE [rec[x] EXCEPT !.old = TRUE]]
  /\ UNCHANGED <<area, disk, mounted, source, item, links, update>>

\* The database is lost, and the server starts with a new one.
DatabaseLost ==
  /\ Changed
  /\ area' = [a \in Areas |-> None] /\ item' = [f \in Files |-> None]
  /\ rec' = [x \in Artifacts |-> None] /\ links' = {} /\ update' = None
  /\ run' = [r \in Runs |-> Idle]
  /\ UNCHANGED <<disk, mounted, source>>

Next ==
  \/ \E a \in Areas, p \in Roots, on \in BOOLEAN :
       CreateStorageArea(a, p, on) \/ UpdateStorageArea(a, p, on)
  \/ UpdateEnds
  \/ \E a \in Areas : DeleteStorageArea(a)
  \/ \E r \in Runs :
       \/ IndexAll(r) \/ IndexStorageArea(r) \/ Visit(r) \/ Register(r) \/ Match(r)
       \/ Attach(r) \/ LinkFound(r) \/ ListRecords(r) \/ MarkRecord(r) \/ MarkStale(r)
       \/ AreaDone(r) \/ Cancelled(r) \/ StatementFails(r)
       \/ RelinkExact(r) \/ RelinkOne(r) \/ RelinkEnds(r)
  \/ \E f \in Files, p \in Places : TranscodeEnds(f, p)
  \/ \E f \in Files :
       WriteSidecar(f) \/ Enqueues(f) \/ ScanFinds(f) \/ ScanDeletes(f) \/ SourceChanges(f)
  \/ \E p \in Places : BundleChanges(p)
  \/ \E p \in Roots : Mounts(p)
  \/ SevenDaysPass
  \/ DatabaseLost

Spec == Init /\ [][Next]_vars

-----------------------------------------------------------------------------
(* Properties *)

\* Every variable keeps to its set; links join rows that exist, one for each pair.
TypeOK ==
  /\ area \in [Areas -> Area \cup {None}]
  /\ disk \in [Places -> Card \cup {None, Broken}]
  /\ mounted \subseteq Roots
  /\ source \in [Files -> Fps \cup {None}]
  /\ item \in [Files -> Item \cup {None}]
  /\ rec \in [Artifacts -> Record \cup {None}]
  /\ links \subseteq Link
  /\ \A l \in links : rec[l.art] # None /\ item[l.file] # None
  /\ \A k, l \in links : k.art = l.art /\ k.file = l.file => k = l
  /\ \A x \in Artifacts : rec[x] # None => area[x[1]] # None

\* The bundles of an area by their source.
OnDisk(root) == {disk[p].src : p \in {q \in {root} \X Dirs : Readable(q)}}

\* When IndexStorageArea ends undisturbed, the area has a healthy record for each source
\* with a bundle there, and what it had besides is missing: whatever the index was before,
\* through unmounted disks, stale records and cancelled runs.  It does not say what a
\* record becomes whose sidecar is there and cannot be parsed.
IndexMatchesDisk ==
  \A r \in Runs : run[r].pc = "indexed" /\ run[r].calm =>
    /\ \A f \in OnDisk(run[r].root) :
         rec[run[r].area, f] # None /\ rec[run[r].area, f].health = "healthy"
    /\ \A f \in Files \ OnDisk(run[r].root) :
         rec[run[r].area, f] # None /\ Sidecar(rec[run[r].area, f].place) # Broken =>
           rec[run[r].area, f].health = "missing"

\* After it, every bundle whose content a media item of its library has is attached: such
\* an item is done, and its mpd_path is in a directory whose sidecar can be read and has
\* that content.
BundlesRecovered ==
  \A r \in Runs : run[r].pc = "indexed" /\ run[r].calm =>
    \A p \in {run[r].root} \X Dirs :
      Readable(p) /\ SameContent(disk[p]) # {} =>
        \E f \in SameContent(disk[p]) :
          /\ item[f].done /\ item[f].mpd # None
          /\ Readable(item[f].mpd) /\ disk[item[f].mpd].fp = disk[p].fp

\* The artifact of the link has no other link with status linked.
Sole(l, all) == \A k \in all : k.art = l.art /\ k.status = "linked" => k = l

\* Relinking that nothing disturbs gives no artifact a second link with status linked,
\* whether the first was there before or matches of the same content are many; the list
\* of unmatched artifacts it works from was read before all its inserts.
RelinkLinksOnce ==
  [][\A r \in Runs : RelinkOne(r) /\ run[r].calm =>
       \A l \in links' \ links : l.status = "linked" => Sole(l, links')]_vars

\* When RelinkExact ends undisturbed, an artifact without a link matches no item that
\* is done: the only ones that are asked for.
RelinkAttaches ==
  \A r \in Runs : run[r].pc = "relinked" /\ run[r].calm =>
    \A x \in Artifacts :
      rec[x] # None /\ Matching([art |-> x, fp |-> rec[x].fp], EnabledAreas) # {} =>
        \E l \in links : l.art = x

\* When RelinkExact ends undisturbed, an artifact whose content an item has is linked,
\* though the item was scanned into a new database and is not done (artifact-relinking).
RelinkAttachesRebuilt ==
  \A r \in Runs : run[r].pc = "relinked" /\ run[r].calm =>
    \A x \in Artifacts :
      rec[x] # None /\ (\E f \in Files : item[f] # None /\ item[f].fp = rec[x].fp) =>
        \E l \in links : l.art = x
=============================================================================
