--------------------------- MODULE LibraryScanProofs ---------------------------
(***************************************************************************)
(* Proofs about LibraryScan, for any paths, contents and number of scans   *)
(* that overlap with the watcher: types, what a deleted library leaves     *)
(* behind, that no scan takes back a finished transcode, and that an       *)
(* undisturbed scan leaves rows that describe the directory.               *)
(***************************************************************************)
EXTENDS LibraryScan, SequenceTheorems, TLAPS

-----------------------------------------------------------------------------
(* The inductive invariant *)

\* What a goroutine has at hand between two calls to the store.  In particular the row
\* it will write is a row, so that a conflict on its path is with a row that exists.
Held(r) ==
  /\ r.pc \in {"stat", "ident", "match", "move", "save", "avail"} => r.p \in Paths
  /\ r.pc \in {"episode", "show", "season"} => r.p \in Paths
  /\ r.pc \in {"avail", "save", "find", "relink", "move", "drop", "lose"} => r.i \in Ids
  /\ r.pc \in {"avail", "save", "find", "relink", "episode", "show", "season", "ident",
               "match", "move", "link", "upsert"} => r.m \in Row

AllHeld == \A s \in Procs : Held(proc[s])

\* The events of a directory of its own are about a nested path.
Told == {e \in Event : e.op = "mkdir" => e.p \in Nested}

ScanInv == TypeOK /\ AllHeld /\ DeletedIsEmpty /\ events \in Seq(Told)

\* What a step has to do with the rows, the goroutines, and the rest.
RowsKept ==
  /\ item' \in [Ids -> Row \cup {NoRow}]
  /\ library' = "deleted" => \A i \in Ids : item'[i] = NoRow
  /\ \A i \in Ids : item[i] # NoRow /\ item[i].tr = "done" /\ item'[i] # NoRow =>
       item'[i].tr = "done" \/ transcodes' # transcodes

ProcsKept ==
  /\ proc' \in [Procs -> Process]
  /\ \A s \in Procs : Held(proc'[s])
  /\ calm' \in Walkers \cup {None}

Around == <<disk, library, manager, parents, archive, watched, events, changes, transcodes>>

Kept == ScanInv' /\ RowsKept

-----------------------------------------------------------------------------
(* Rows and goroutines *)

\* A row that exists is a row; NULL is no path.
LEMMA RowsAreRows ==
  ASSUME TypeOK, NEW i \in Ids
  PROVE  /\ item[i] # NoRow => item[i] \in Row /\ item[i].path \in Paths
         /\ item[i] = NoRow => item[i].path \notin Paths
  BY ScanAssumption DEF TypeOK, Row, NoRow

LEMMA RowNotNoRow == NoRow \notin Row
  BY ScanAssumption DEF Row, NoRow

LEMMA IdleIsProcess == Idle \in Process /\ Idle.pc = "idle" /\ Held(Idle)
  BY DEF Idle, Process, Held

\* A goroutine goes on with what it is to have at hand.
LEMMA Going ==
  ASSUME ScanInv, NEW s \in Procs, NEW r \in Process, Held(r), Becomes(s, r)
  PROVE  ProcsKept
<1>1. proc \in [Procs -> Process] /\ calm \in Walkers \cup {None}
  BY DEF ScanInv, TypeOK
<1>2. proc' = [proc EXCEPT ![s] = r] /\ calm' = IF calm = s THEN s ELSE None
  BY DEF Becomes
<1>3. proc' \in [Procs -> Process] /\ calm' \in Walkers \cup {None}
  BY <1>1, <1>2
<1>4. ASSUME NEW t \in Procs
      PROVE  Held(proc'[t])
  <2>1. CASE t = s
    BY <1>1, <1>2, <2>1
  <2>2. CASE t # s
    BY <1>1, <1>2, <2>2 DEF ScanInv, AllHeld
  <2>3. QED
    BY <2>1, <2>2
<1>5. QED
  BY <1>3, <1>4 DEF ProcsKept

LEMMA GoingTo ==
  ASSUME ScanInv, NEW s \in Procs,
         NEW pc \in {"save", "find", "match", "link", "upsert", "show", "season", "ident", "mark",
                    "end"},
         Goto(s, pc),
         pc = "save" => proc[s].pc = "avail" /\ proc[s].p \in Paths,
         pc = "find" => proc[s].pc = "avail",
         pc \in {"upsert", "link"} => proc[s].pc \in {"match", "link"},
         pc \in {"show", "season", "ident"} => proc[s].pc \in {"episode", "show", "season"},
         pc = "match" => proc[s].pc = "ident"
  PROVE  ProcsKept
<1>1. PICK old \in Process : old = proc[s] /\ Held(old)
  BY DEF ScanInv, TypeOK, AllHeld
<1>2. PICK r : r = [old EXCEPT !.pc = pc]
  OBVIOUS
<1>3. /\ r \in Process /\ r.pc = pc /\ r.p = old.p /\ r.i = old.i /\ r.m = old.m
  BY <1>2 DEF Process
<1>4. Held(r)
  BY <1>1, <1>3 DEF Held
<1>5. Becomes(s, r)
  BY <1>1, <1>2 DEF Goto
<1>6. QED
  BY <1>3, <1>4, <1>5, Going

LEMMA GoingOn ==
  ASSUME ScanInv, NEW s \in Procs, NEW failed \in BOOLEAN, NextFile(s, failed)
  PROVE  ProcsKept
<1>1. PICK old \in Process : old = proc[s]
  BY DEF ScanInv, TypeOK
<1>2. PICK b \in BOOLEAN : b = ((s # Watcher) /\ (old.failed \/ failed))
  <2>1. ((s # Watcher) /\ (old.failed \/ failed)) \in BOOLEAN
    OBVIOUS
  <2>2. QED
    BY <2>1
<1>3. PICK pc \in {"idle", "walk"} : pc = IF s = Watcher THEN "idle" ELSE "walk"
  OBVIOUS
<1>4. PICK r : r = [old EXCEPT !.pc = pc, !.failed = b, !.p = None, !.i = None, !.m = NoRow]
  OBVIOUS
<1>5. r \in Process /\ r.pc = pc
  BY <1>4 DEF Process
<1>6. Held(r)
  BY <1>3, <1>5 DEF Held
<1>7. Becomes(s, r)
  BY <1>1, <1>2, <1>3, <1>4 DEF NextFile
<1>8. QED
  BY <1>5, <1>6, <1>7, Going

-----------------------------------------------------------------------------
(* The statements of the store *)

LEMMA RowsUnchanged ==
  ASSUME ScanInv, UNCHANGED <<item, library>>
  PROVE  RowsKept
  BY DEF ScanInv, TypeOK, RowsKept, DeletedIsEmpty, Exists

LEMMA UpsertKeeps ==
  ASSUME ScanInv, NEW i \in Ids, NEW m \in Row, CanUpsert(i, m), UpsertMediaItem(i, m),
         UNCHANGED library
  PROVE  RowsKept
<1>1. item \in [Ids -> Row \cup {NoRow}]
  BY DEF ScanInv, TypeOK
<1>2. m.path \in Paths
  BY DEF Row
<1>3. CASE At(m.path) = {}
  <2>1. item' = [item EXCEPT ![i] = m] /\ item[i] = NoRow /\ library # "deleted"
    BY <1>3 DEF UpsertMediaItem, CanUpsert, Exists
  <2>2. QED
    BY <1>1, <2>1 DEF RowsKept
<1>4. CASE At(m.path) # {}
  <2>1. PICK k \in Ids : item[k].path = m.path
    BY <1>4 DEF At
  <2>2. item[k] # NoRow
    BY <1>2, <2>1, RowsAreRows DEF ScanInv
  <2>3. library' # "deleted"
    BY <2>2 DEF ScanInv, DeletedIsEmpty, Exists
  <2>4. item' = [j \in Ids |->
         IF item[j].path # m.path THEN item[j]
         ELSE [m EXCEPT !.fp = IF @ = None THEN item[j].fp ELSE @,
                        !.tr = IF item[j].tr = "done" THEN "done" ELSE @]]
    BY <1>4 DEF UpsertMediaItem
  <2>5. ASSUME NEW j \in Ids, item[j].path = m.path
        PROVE  item'[j] \in Row /\ (item[j].tr = "done" => item'[j].tr = "done")
    <3>1. PICK old \in Row : old = item[j]
      BY <1>1, <1>2, <2>5, RowsAreRows DEF ScanInv
    <3>2. PICK fp \in Contents \cup {None} : fp = IF m.fp = None THEN old.fp ELSE m.fp
      BY DEF Row
    <3>3. PICK tr \in {"none", "active", "done"} : tr = IF old.tr = "done" THEN "done" ELSE m.tr
      BY DEF Row
    <3>4. item'[j] = [m EXCEPT !.fp = fp, !.tr = tr]
      BY <2>4, <2>5, <3>1, <3>2, <3>3
    <3>5. QED
      BY <3>1, <3>3, <3>4 DEF Row
  <2>6. ASSUME NEW j \in Ids
        PROVE  item'[j] \in Row \cup {NoRow} /\ (item[j].tr = "done" => item'[j].tr = "done")
    <3>1. CASE item[j].path = m.path
      BY <2>5, <3>1
    <3>2. CASE item[j].path # m.path
      BY <1>1, <2>4, <3>2
    <3>3. QED
      BY <3>1, <3>2
  <2>7. item' \in [Ids -> Row \cup {NoRow}]
    BY <2>4, <2>6
  <2>8. QED
    BY <2>3, <2>6, <2>7 DEF RowsKept
<1>5. QED
  BY <1>3, <1>4

\* A statement that changes one row at most: it is deleted, or written without a change
\* of its transcode.
LEMMA RowKeeps ==
  ASSUME ScanInv, NEW i \in Ids, UNCHANGED library,
         NEW row \in Row \cup {NoRow}, item' = [item EXCEPT ![i] = row],
         item[i] = NoRow => row = NoRow,
         row # NoRow => row.tr = item[i].tr
  PROVE  RowsKept
  BY DEF ScanInv, TypeOK, RowsKept, DeletedIsEmpty, Exists

LEMMA MoveKeeps ==
  ASSUME ScanInv, NEW i \in Ids, NEW p \in Paths, UpdateMediaItemFilePath(i, p), UNCHANGED library
  PROVE  RowsKept
<1>1. CASE ~Exists(i)
  BY <1>1, RowsUnchanged DEF UpdateMediaItemFilePath
<1>2. CASE Exists(i)
  <2>1. PICK old \in Row : old = item[i]
    BY <1>2, RowsAreRows DEF ScanInv, Exists
  <2>2. PICK row : row = [[old EXCEPT !.path = p] EXCEPT !.src = "available"]
    OBVIOUS
  <2>3. row \in Row /\ row.tr = old.tr
    BY <2>2 DEF Row
  <2>4. item' = [item EXCEPT ![i] = row]
    BY <1>2, <2>1, <2>2 DEF UpdateMediaItemFilePath, ScanInv, TypeOK
  <2>5. QED
    BY <1>2, <2>1, <2>3, <2>4, RowKeeps DEF Exists
<1>3. QED
  BY <1>1, <1>2

LEMMA SourceKeeps ==
  ASSUME ScanInv, NEW i \in Ids, NEW src \in {"available", "missing"},
         SetMediaSourceStatus(i, src), UNCHANGED library
  PROVE  RowsKept
<1>1. CASE ~Exists(i)
  BY <1>1, RowsUnchanged DEF SetMediaSourceStatus
<1>2. CASE Exists(i)
  <2>1. PICK old \in Row : old = item[i]
    BY <1>2, RowsAreRows DEF ScanInv, Exists
  <2>2. PICK row : row = [old EXCEPT !.src = src]
    OBVIOUS
  <2>3. row \in Row /\ row.tr = old.tr
    BY <2>2 DEF Row
  <2>4. item' = [item EXCEPT ![i] = row]
    BY <1>2, <2>1, <2>2 DEF SetMediaSourceStatus
  <2>5. QED
    BY <1>2, <2>1, <2>3, <2>4, RowKeeps DEF Exists
<1>3. QED
  BY <1>1, <1>2

LEMMA PruneKeeps ==
  ASSUME ScanInv, NEW seen \in SUBSET Paths, PruneDeletes(seen), UNCHANGED library
  PROVE  RowsKept
  BY DEF ScanInv, TypeOK, RowsKept, DeletedIsEmpty, Exists, PruneDeletes

LEMMA MarkKeeps ==
  ASSUME ScanInv, NEW seen \in SUBSET Paths, PruneMarks(seen), UNCHANGED library
  PROVE  RowsKept
<1>1. ASSUME NEW i \in Ids
      PROVE  /\ item'[i] \in Row \cup {NoRow}
             /\ item[i] = NoRow => item'[i] = NoRow
             /\ item[i] # NoRow => item'[i].tr = item[i].tr
  <2>1. PICK old \in Row \cup {NoRow} : old = item[i]
    BY DEF ScanInv, TypeOK
  <2>2. item'[i] = old \/ (old # NoRow /\ item'[i] = [old EXCEPT !.src = "missing"])
    BY <2>1 DEF PruneMarks, Exists
  <2>3. CASE item'[i] = old
    BY <2>1, <2>3
  <2>4. CASE old # NoRow /\ item'[i] = [old EXCEPT !.src = "missing"]
    BY <2>1, <2>4 DEF Row
  <2>5. QED
    BY <2>2, <2>3, <2>4
<1>2. item' \in [Ids -> Row \cup {NoRow}]
  BY <1>1 DEF PruneMarks
<1>3. library' = "deleted" => \A i \in Ids : item'[i] = NoRow
  BY <1>1 DEF ScanInv, DeletedIsEmpty, Exists
<1>4. QED
  BY <1>1, <1>2, <1>3 DEF RowsKept

\* The other variables, and how the parts come together.
Rest ==
  /\ disk \in [Paths -> Contents \cup {None}]
  /\ library \in {"none", "present", "deleted"} /\ manager \in {"none", "added", "removed"}
  /\ parents \subseteq {"show", "season"} /\ archive \subseteq Contents
  /\ library = "deleted" => parents = {}
  /\ watched \subseteq Nested /\ events \in Seq(Event) /\ events \in Seq(Told)
  /\ changes \in 0..MaxChanges /\ transcodes \in 0..MaxTranscodes

LEMMA RestHolds == ASSUME ScanInv PROVE Rest
  BY DEF ScanInv, TypeOK, DeletedIsEmpty, Rest

LEMMA Together ==
  ASSUME RowsKept, ProcsKept, Rest'
  PROVE  Kept
  BY DEF Kept, RowsKept, ProcsKept, Rest, ScanInv, TypeOK, AllHeld, DeletedIsEmpty, Exists

LEMMA AroundUnchanged ==
  ASSUME ScanInv, RowsKept, ProcsKept, UNCHANGED Around
  PROVE  Kept
<1>1. Rest'
  BY RestHolds DEF Rest, Around
<1>2. QED
  BY <1>1, Together

-----------------------------------------------------------------------------
(* upsertFile *)

\* A file that is taken for unchanged.
LEMMA KnownFileKeeps ==
  ASSUME ScanInv, NEW s \in Procs, proc[s].p \in Paths, NEW i \in Ids,
         item[i].path = proc[s].p, KnownFile(s, i)
  PROVE  ProcsKept
<1>1. PICK r \in Process : r = proc[s]
  BY DEF ScanInv, TypeOK
<1>2. PICK old \in Row : old = item[i]
  BY RowsAreRows DEF ScanInv
<1>3. ASSUME NEW pc \in {"avail", "save", "find"},
             Becomes(s, [r EXCEPT !.pc = pc, !.i = i, !.m = item[i]])
      PROVE  ProcsKept
  <2>1. PICK next : next = [r EXCEPT !.pc = pc, !.i = i, !.m = old]
    OBVIOUS
  <2>2. next \in Process /\ next.pc = pc /\ next.m = old /\ next.p = r.p /\ next.i = i
    BY <1>2, <2>1 DEF Process
  <2>3. Held(next)
    BY <1>1, <1>2, <2>2, Zenon DEF Held
  <2>4. QED
    BY <1>2, <1>3, <2>1, <2>2, <2>3, Going
<1>4. \/ NextFile(s, FALSE)
      \/ \E pc \in {"avail", "save", "find"} :
           Becomes(s, [r EXCEPT !.pc = pc, !.i = i, !.m = item[i]])
  BY <1>1, ZenonT(60) DEF KnownFile, AfterAvailable
<1>5. QED
  BY <1>3, <1>4, GoingOn, Zenon

LEMMA StatKeeps ==
  ASSUME ScanInv, NEW s \in Procs, Stat(s)
  PROVE  Kept
<1>1. PICK r \in Process : r = proc[s] /\ Held(r)
  BY DEF ScanInv, TypeOK, AllHeld
<1>2. PICK p \in Paths : p = r.p
  BY <1>1 DEF Stat, Held
<1>3. UNCHANGED Around /\ UNCHANGED <<item, library>>
  BY DEF Stat, Around, store, counters
<1>4. RowsKept
  BY <1>3, RowsUnchanged
<1>5. ASSUME disk[p] # None,
             Becomes(s, [r EXCEPT !.pc = IF Episodes THEN "episode" ELSE "ident", !.m = NewRow(p)])
      PROVE  ProcsKept
  <2>1. PICK new : new = NewRow(p)
    OBVIOUS
  <2>2. disk[p] \in Contents
    BY <1>5 DEF ScanInv, TypeOK
  <2>3. new \in Row
    BY <2>1, <2>2 DEF NewRow, Row, Sizes
  <2>4. PICK pc \in {"episode", "ident"} : pc = IF Episodes THEN "episode" ELSE "ident"
    BY ScanAssumption
  <2>5. PICK next : next = [r EXCEPT !.pc = pc, !.m = new]
    OBVIOUS
  <2>6. next \in Process /\ next.pc = pc /\ next.m = new /\ next.p = r.p
    BY <2>3, <2>5 DEF Process
  <2>7. Held(next)
    BY <1>2, <2>3, <2>6 DEF Held
  <2>8. QED
    BY <1>5, <2>1, <2>4, <2>5, <2>6, <2>7, Going
<1>6. \/ NextFile(s, TRUE)
      \/ disk[p] # None
         /\ Becomes(s, [r EXCEPT !.pc = IF Episodes THEN "episode" ELSE "ident", !.m = NewRow(p)])
      \/ \E i \in Ids : item[i].path = p /\ KnownFile(s, i)
  BY <1>1, <1>2, ZenonT(60) DEF Stat, SameSize, At
<1>7. ProcsKept
  BY <1>1, <1>2, <1>5, <1>6, GoingOn, KnownFileKeeps
<1>8. QED
  BY <1>3, <1>4, <1>7, AroundUnchanged

LEMMA ParseTVEpisodeKeeps ==
  ASSUME ScanInv, NEW s \in Procs, ParseTVEpisode(s)
  PROVE  Kept
<1>1. UNCHANGED Around /\ UNCHANGED <<item, library>>
  BY DEF ParseTVEpisode, Around, store, counters
<1>2. proc[s].pc = "episode" /\ proc[s].p \in Paths
  BY DEF ParseTVEpisode, ScanInv, AllHeld, Held
<1>3. \/ \E i \in Ids : item[i].path = proc[s].p /\ KnownFile(s, i)
      \/ NextFile(s, FALSE) \/ Goto(s, "show")
  BY DEF ParseTVEpisode, SameSize, At
<1>4. ProcsKept
  BY <1>2, <1>3, KnownFileKeeps, GoingOn, GoingTo
<1>5. QED
  BY <1>1, <1>4, RowsUnchanged, AroundUnchanged

LEMMA SourceIsBackKeeps ==
  ASSUME ScanInv, NEW s \in Procs, SourceIsBack(s)
  PROVE  Kept
<1>1. PICK r \in Process : r = proc[s] /\ Held(r) /\ r.pc = "avail"
  BY DEF ScanInv, TypeOK, AllHeld, SourceIsBack
<1>2. RowsKept
  BY <1>1, SourceKeeps DEF SourceIsBack, Held
<1>3. PICK pc \in {"return", "save", "find"} : pc = AfterAvailable(r.m)
  BY DEF AfterAvailable
<1>4. ProcsKept
  <2>1. CASE pc = "return"
    BY <1>1, <1>3, <2>1, GoingOn DEF SourceIsBack
  <2>2. CASE pc = "find"
    BY <1>1, <1>3, <2>2, GoingTo DEF SourceIsBack
  <2>3. CASE pc = "save"
    BY <1>1, <1>3, <2>3, GoingTo DEF SourceIsBack, Held
  <2>4. QED
    BY <1>3, <2>1, <2>2, <2>3
<1>5. QED
  BY <1>2, <1>4, AroundUnchanged DEF SourceIsBack, Around, counters

LEMMA SaveFingerprintKeeps ==
  ASSUME ScanInv, NEW s \in Procs, SaveFingerprint(s)
  PROVE  Kept
<1>1. PICK r \in Process : r = proc[s] /\ Held(r) /\ r.pc = "save"
  BY DEF ScanInv, TypeOK, AllHeld, SaveFingerprint
<1>2. r.p \in Paths /\ r.i \in Ids /\ r.m \in Row
  BY <1>1 DEF Held
<1>3. PICK fp \in GenerateDeterministic(r.p) :
        LET m == [r.m EXCEPT !.fp = fp]
        IN IF fp = None THEN NextFile(s, TRUE) /\ UNCHANGED item
           ELSE /\ Becomes(s, [r EXCEPT !.pc = "find", !.m = m])
                /\ IF CanUpsert(r.i, m) THEN UpsertMediaItem(r.i, m) ELSE UNCHANGED item
  BY <1>1 DEF SaveFingerprint
<1>4. UNCHANGED Around /\ UNCHANGED library
  BY DEF SaveFingerprint, Around, counters
<1>5. CASE fp = None
  <2>1. ProcsKept
    BY <1>3, <1>5, GoingOn
  <2>2. RowsKept
    BY <1>3, <1>4, <1>5, RowsUnchanged
  <2>3. QED
    BY <1>4, <2>1, <2>2, AroundUnchanged
<1>6. CASE fp # None
  <2>1. fp \in Contents
    BY <1>2, <1>6 DEF GenerateDeterministic, ScanInv, TypeOK
  <2>2. PICK old \in Row : old = r.m
    BY <1>2
  <2>3. PICK m : m = [old EXCEPT !.fp = fp]
    OBVIOUS
  <2>4. m \in Row
    BY <2>1, <2>3 DEF Row
  <2>5. PICK next : next = [r EXCEPT !.pc = "find", !.m = m]
    OBVIOUS
  <2>6. next \in Process /\ next.pc = "find" /\ next.m = m /\ next.i = r.i
    BY <2>4, <2>5 DEF Process
  <2>7. Held(next)
    BY <1>2, <2>4, <2>6 DEF Held
  <2>8. Becomes(s, next) /\ (IF CanUpsert(r.i, m) THEN UpsertMediaItem(r.i, m) ELSE UNCHANGED item)
    BY <1>3, <1>6, <2>2, <2>3, <2>5
  <2>9. RowsKept
    BY <1>2, <1>4, <2>4, <2>8, UpsertKeeps, RowsUnchanged
  <2>10. ProcsKept
    BY <2>6, <2>7, <2>8, Going
  <2>11. QED
    BY <1>4, <2>9, <2>10, AroundUnchanged
<1>7. QED
  BY <1>5, <1>6

\* The row with its bundle, in the hands of the goroutine.
LEMMA GoingBundled ==
  ASSUME ScanInv, NEW s \in Procs, NEW pc \in {"relink", "link"},
         proc[s].m \in Row, pc = "relink" => proc[s].i \in Ids,
         Becomes(s, [proc[s] EXCEPT !.pc = pc, !.m = Bundled(proc[s].m)])
  PROVE  ProcsKept
<1>1. PICK r \in Process : r = proc[s]
  BY DEF ScanInv, TypeOK
<1>2. PICK old \in Row : old = r.m
  BY <1>1
<1>3. PICK m : m = Bundled(old)
  OBVIOUS
<1>4. m \in Row
  BY <1>3 DEF Bundled, Row
<1>5. PICK next : next = [r EXCEPT !.pc = pc, !.m = m]
  OBVIOUS
<1>6. next \in Process /\ next.pc = pc /\ next.m = m /\ next.i = r.i
  BY <1>4, <1>5 DEF Process
<1>7. Held(next)
  BY <1>1, <1>4, <1>6 DEF Held
<1>8. Becomes(s, next)
  BY <1>1, <1>2, <1>3, <1>5
<1>9. QED
  BY <1>6, <1>7, <1>8, Going

LEMMA FindBundleKeeps ==
  ASSUME ScanInv, NEW s \in Procs, FindBundle(s)
  PROVE  Kept
<1>1. proc[s].m \in Row /\ proc[s].i \in Ids
  BY SMTT(60) DEF ScanInv, AllHeld, Held, FindBundle
<1>2. ProcsKept
  BY <1>1, GoingBundled, GoingOn DEF FindBundle
<1>3. RowsKept /\ UNCHANGED Around
  BY RowsUnchanged DEF FindBundle, Around, store, counters
<1>4. QED
  BY <1>2, <1>3, AroundUnchanged

LEMMA RelinkKeeps ==
  ASSUME ScanInv, NEW s \in Procs, Relink(s)
  PROVE  Kept
<1>1. proc[s].m \in Row /\ proc[s].i \in Ids
  BY DEF ScanInv, AllHeld, Held, Relink
<1>2. ProcsKept
  BY GoingOn DEF Relink
<1>3. RowsKept
  BY <1>1, UpsertKeeps, RowsUnchanged DEF Relink
<1>4. QED
  BY <1>2, <1>3, AroundUnchanged DEF Relink, Around, counters

LEMMA UpsertTVEpisodeFileKeeps ==
  ASSUME ScanInv, NEW s \in Procs, UpsertTVEpisodeFile(s)
  PROVE  Kept
<1>1. RowsKept
  BY RowsUnchanged DEF UpsertTVEpisodeFile
<1>2. ProcsKept
  <2>1. NextFile(s, TRUE) \/ Goto(s, "season") \/ Goto(s, "ident")
    BY DEF UpsertTVEpisodeFile
  <2>2. QED
    BY <2>1, GoingOn, GoingTo DEF UpsertTVEpisodeFile
<1>3. Rest'
  BY RestHolds DEF Rest, UpsertTVEpisodeFile, counters
<1>4. QED
  BY <1>1, <1>2, <1>3, Together

LEMMA IdentifyKeeps ==
  ASSUME ScanInv, NEW s \in Procs, Identify(s)
  PROVE  Kept
<1>1. PICK r \in Process : r = proc[s] /\ Held(r) /\ r.pc = "ident"
  BY DEF ScanInv, TypeOK, AllHeld, Identify
<1>2. r.p \in Paths /\ r.m \in Row
  BY <1>1 DEF Held
<1>3. PICK i \in Ids \cup {None}, fp \in GenerateDeterministic(r.p) :
        Becomes(s, [r EXCEPT !.pc = IF fp = None THEN "upsert" ELSE "match",
                             !.failed = (s # Watcher) /\ (@ \/ fp = None),
                             !.i = i, !.m.fp = fp])
  BY <1>1 DEF Identify, At
<1>4. fp \in Contents \cup {None}
  BY <1>2 DEF GenerateDeterministic, ScanInv, TypeOK
<1>5. PICK old \in Row : old = r.m
  BY <1>2
<1>6. PICK m : m = [old EXCEPT !.fp = fp]
  OBVIOUS
<1>7. m \in Row
  BY <1>4, <1>6 DEF Row
<1>8. PICK pc \in {"upsert", "match"} : pc = IF fp = None THEN "upsert" ELSE "match"
  OBVIOUS
<1>9. PICK f \in BOOLEAN : f = ((s # Watcher) /\ (r.failed \/ fp = None))
  <2>1. ((s # Watcher) /\ (r.failed \/ fp = None)) \in BOOLEAN
    OBVIOUS
  <2>2. QED
    BY <2>1
<1>17. PICK next : next = [r EXCEPT !.pc = pc, !.failed = f, !.i = i, !.m = m]
  OBVIOUS
<1>10. next \in Process /\ next.pc = pc /\ next.m = m /\ next.p = r.p
  BY <1>7, <1>17 DEF Process
<1>11. Held(next)
  BY <1>2, <1>7, <1>10 DEF Held
<1>12. next = [r EXCEPT !.pc = pc, !.failed = (s # Watcher) /\ (@ \/ fp = None), !.i = i,
                        !.m.fp = fp]
  BY <1>5, <1>6, <1>9, <1>17 DEF Process
<1>13. Becomes(s, next)
  BY <1>3, <1>8, <1>12
<1>14. ProcsKept
  BY <1>10, <1>11, <1>13, Going
<1>15. RowsKept /\ UNCHANGED Around
  BY RowsUnchanged DEF Identify, Around, store, counters
<1>16. QED
  BY <1>14, <1>15, AroundUnchanged

LEMMA MatchKeeps ==
  ASSUME ScanInv, NEW s \in Procs, Match(s)
  PROVE  Kept
<1>1. PICK r \in Process : r = proc[s] /\ Held(r) /\ r.pc = "match"
  BY DEF ScanInv, TypeOK, AllHeld, Match
<1>2. r.p \in Paths /\ r.m \in Row
  BY <1>1 DEF Held
<1>3. ASSUME NEW j \in Ids, Becomes(s, [r EXCEPT !.pc = "move", !.i = j])
      PROVE  ProcsKept
  <2>1. PICK next : next = [r EXCEPT !.pc = "move", !.i = j]
    OBVIOUS
  <2>2. next \in Process /\ next.pc = "move" /\ next.m = r.m /\ next.p = r.p /\ next.i = j
    BY <2>1 DEF Process
  <2>3. Held(next)
    BY <1>2, <2>2 DEF Held
  <2>4. QED
    BY <1>3, <2>1, <2>2, <2>3, Going
<1>4. \/ \E j \in Ids : Becomes(s, [r EXCEPT !.pc = "move", !.i = j])
      \/ Becomes(s, [r EXCEPT !.pc = "link", !.m = Bundled(r.m)])
      \/ Goto(s, "upsert")
  BY <1>1 DEF Match
<1>5. ProcsKept
  BY <1>1, <1>2, <1>3, <1>4, GoingBundled, GoingTo
<1>6. RowsKept /\ UNCHANGED Around
  BY RowsUnchanged DEF Match, Around, store, counters
<1>7. QED
  BY <1>5, <1>6, AroundUnchanged

LEMMA MoveRowKeeps ==
  ASSUME ScanInv, NEW s \in Procs, MoveRow(s)
  PROVE  Kept
<1>1. proc[s].p \in Paths /\ proc[s].i \in Ids
  BY DEF ScanInv, AllHeld, Held, MoveRow
<1>2. ProcsKept
  BY GoingOn DEF MoveRow
<1>3. RowsKept
  BY <1>1, MoveKeeps, RowsUnchanged DEF MoveRow
<1>4. QED
  BY <1>2, <1>3, AroundUnchanged DEF MoveRow, Around, counters

LEMMA WriteRowKeeps ==
  ASSUME ScanInv, NEW s \in Procs, WriteRow(s)
  PROVE  Kept
<1>1. PICK r \in Process : r = proc[s] /\ Held(r) /\ r.pc \in {"link", "upsert"}
  BY DEF ScanInv, TypeOK, AllHeld, WriteRow
<1>2. r.m \in Row /\ r.i \in Ids \cup {None}
  BY <1>1 DEF Held, Process
<1>3. PICK i \in Ids :
        IF CanUpsert(i, r.m)
          THEN /\ UpsertMediaItem(i, r.m)
               /\ IF r.pc = "link" THEN Becomes(s, [r EXCEPT !.pc = "upsert", !.i = i])
                                   ELSE NextFile(s, FALSE)
          ELSE NextFile(s, TRUE) /\ UNCHANGED item
  <2>1. (IF r.i = None THEN FreshIds ELSE {r.i}) \subseteq Ids
    BY <1>2 DEF FreshIds
  <2>2. QED
    BY <1>1, <2>1 DEF WriteRow
<1>4. RowsKept
  BY <1>2, <1>3, UpsertKeeps, RowsUnchanged DEF WriteRow
<1>5. ASSUME Becomes(s, [r EXCEPT !.pc = "upsert", !.i = i])
      PROVE  ProcsKept
  <2>1. PICK next : next = [r EXCEPT !.pc = "upsert", !.i = i]
    OBVIOUS
  <2>2. next \in Process /\ next.pc = "upsert" /\ next.m = r.m
    BY <2>1 DEF Process
  <2>3. Held(next)
    BY <1>2, <2>2 DEF Held
  <2>4. QED
    BY <1>5, <2>1, <2>2, <2>3, Going
<1>6. ProcsKept
  BY <1>3, <1>5, GoingOn
<1>7. QED
  BY <1>4, <1>6, AroundUnchanged DEF WriteRow, Around, counters

LEMMA StatementFailsKeeps ==
  ASSUME ScanInv, NEW s \in Procs, StatementFails(s)
  PROVE  Kept
<1>1. UNCHANGED Around /\ UNCHANGED <<item, library>>
  BY DEF StatementFails, Around, store, counters
<1>2. PICK r \in Process : r = proc[s] /\ Held(r)
  BY DEF ScanInv, TypeOK, AllHeld
<1>3. ASSUME NEW pc \in {"save", "find"}, r.pc = "avail",
             Becomes(s, [r EXCEPT !.pc = pc, !.failed = s # Watcher])
      PROVE  ProcsKept
  <2>1. PICK f \in BOOLEAN : f = (s # Watcher)
    <3>1. (s # Watcher) \in BOOLEAN
      OBVIOUS
    <3>2. QED
      BY <3>1
  <2>2. PICK next : next = [r EXCEPT !.pc = pc, !.failed = f]
    OBVIOUS
  <2>3. /\ next \in Process /\ next.pc = pc /\ next.m = r.m /\ next.p = r.p
        /\ next.i = r.i
    BY <2>2 DEF Process
  <2>4. Held(next)
    BY <1>2, <1>3, <2>3 DEF Held
  <2>5. QED
    BY <1>3, <2>1, <2>2, <2>3, <2>4, Going
<1>4. \/ NextFile(s, TRUE)
      \/ \E pc \in {"save", "find"} :
           r.pc = "avail" /\ Becomes(s, [r EXCEPT !.pc = pc, !.failed = s # Watcher])
  BY <1>2, ZenonT(60) DEF StatementFails, AfterAvailable
<1>5. ProcsKept
  BY <1>3, <1>4, GoingOn
<1>6. QED
  BY <1>1, <1>5, RowsUnchanged, AroundUnchanged

-----------------------------------------------------------------------------
(* The scan and the watcher *)

LEMMA ScanBeginsKeeps ==
  ASSUME ScanInv, NEW s \in Walkers, NEW request \in BOOLEAN, ScanBegins(s, request)
  PROVE  ProcsKept
<1>1. PICK entries \in SUBSET Paths : entries = Nested \cup {p \in Paths : disk[p] # None}
  BY ScanAssumption
<1>2. PICK todo \in SUBSET entries :
        proc' = [proc EXCEPT ![s] = [Idle EXCEPT !.pc = "walk", !.request = request,
                   !.todo = todo, !.failed = todo # entries,
                   !.unnoticed = {p \in Paths : Unnoticed(p)}]]
  BY <1>1 DEF ScanBegins
<1>3. PICK f \in BOOLEAN : f = (todo # entries)
  <2>1. (todo # entries) \in BOOLEAN
    OBVIOUS
  <2>2. QED
    BY <2>1
<1>4. PICK same \in SUBSET Paths : same = {p \in Paths : Unnoticed(p)}
  <2>1. {p \in Paths : Unnoticed(p)} \in SUBSET Paths
    OBVIOUS
  <2>2. QED
    BY <2>1
<1>5. PICK next : next = [Idle EXCEPT !.pc = "walk", !.request = request, !.todo = todo,
                                      !.failed = f, !.unnoticed = same]
  OBVIOUS
<1>6. next \in Process /\ Held(next)
  BY <1>1, <1>5 DEF Idle, Process, Held
<1>7. proc' = [proc EXCEPT ![s] = next] /\ calm' \in Walkers \cup {None}
  BY <1>2, <1>3, <1>4, <1>5 DEF ScanBegins
<1>8. proc \in [Procs -> Process] /\ s \in Procs /\ AllHeld
  BY DEF ScanInv, TypeOK, Procs
<1>9. proc' \in [Procs -> Process]
  BY <1>6, <1>7, <1>8
<1>10. \A t \in Procs : proc'[t] = IF t = s THEN next ELSE proc[t]
  BY <1>7, <1>8
<1>11. QED
  BY <1>6, <1>7, <1>8, <1>9, <1>10 DEF ProcsKept, AllHeld

LEMMA VisitKeeps ==
  ASSUME ScanInv, NEW s \in Walkers, NEW p \in Paths, Visit(s, p)
  PROVE  Kept
<1>1. PICK r \in Process : r = proc[s] /\ Held(r) /\ r.pc = "walk" /\ s \in Procs
  BY DEF ScanInv, TypeOK, AllHeld, Visit, Procs
<1>2. ASSUME Becomes(s, [r EXCEPT !.todo = @ \ {p}, !.seen = @ \cup {p}, !.pc = "stat", !.p = p])
      PROVE  ProcsKept
  <2>1. PICK next : next = [r EXCEPT !.todo = @ \ {p}, !.seen = @ \cup {p}, !.pc = "stat", !.p = p]
    OBVIOUS
  <2>2. next \in Process /\ next.pc = "stat" /\ next.p = p
    BY <2>1 DEF Process
  <2>3. Held(next)
    BY <2>2 DEF Held
  <2>4. QED
    BY <1>1, <1>2, <2>1, <2>2, <2>3, Going
<1>3. ASSUME Becomes(s, [r EXCEPT !.todo = @ \ {p}, !.failed = @ \/ disk[p] # None])
      PROVE  ProcsKept
  <2>1. PICK f \in BOOLEAN : f = (r.failed \/ disk[p] # None)
    <3>1. (r.failed \/ disk[p] # None) \in BOOLEAN
      OBVIOUS
    <3>2. QED
      BY <3>1
  <2>2. PICK next : next = [r EXCEPT !.todo = @ \ {p}, !.failed = f]
    OBVIOUS
  <2>3. next \in Process /\ next.pc = "walk"
    BY <1>1, <2>2 DEF Process
  <2>4. Held(next)
    BY <2>3 DEF Held
  <2>5. QED
    BY <1>1, <1>3, <2>1, <2>2, <2>3, <2>4, Going
<1>4. \/ Becomes(s, [r EXCEPT !.todo = @ \ {p}, !.seen = @ \cup {p}, !.pc = "stat", !.p = p])
      \/ Becomes(s, [r EXCEPT !.todo = @ \ {p}, !.failed = @ \/ disk[p] # None])
  BY <1>1 DEF Visit
<1>5. RowsKept /\ UNCHANGED Around
  BY RowsUnchanged DEF Visit, Around, store, counters
<1>6. QED
  BY <1>2, <1>3, <1>4, <1>5, AroundUnchanged

LEMMA PruneStepKeeps ==
  ASSUME ScanInv, NEW s \in Walkers, Prune(s)
  PROVE  Kept
<1>1. proc[s].seen \in SUBSET Paths /\ s \in Procs
  BY DEF ScanInv, TypeOK, Procs, Process
<1>2. RowsKept
  BY <1>1, PruneKeeps DEF Prune
<1>3. ProcsKept
  BY <1>1, GoingTo DEF Prune
<1>4. QED
  BY <1>2, <1>3, AroundUnchanged DEF Prune, Around, counters

LEMMA MarkStepKeeps ==
  ASSUME ScanInv, NEW s \in Walkers, Mark(s)
  PROVE  Kept
<1>1. proc[s].seen \in SUBSET Paths /\ s \in Procs
  BY DEF ScanInv, TypeOK, Procs, Process
<1>2. RowsKept
  BY <1>1, MarkKeeps DEF Mark
<1>3. ProcsKept
  BY <1>1, GoingTo DEF Mark
<1>4. QED
  BY <1>2, <1>3, AroundUnchanged DEF Mark, Around, counters

LEMMA PruningFailsKeeps ==
  ASSUME ScanInv, NEW s \in Walkers, PruningFails(s)
  PROVE  Kept
<1>1. PICK r \in Process : r = proc[s] /\ s \in Procs
  BY DEF ScanInv, TypeOK, Procs
<1>2. PICK next : next = [r EXCEPT !.pc = "end", !.failed = TRUE]
  OBVIOUS
<1>3. next \in Process /\ next.pc = "end"
  BY <1>2 DEF Process
<1>4. Held(next)
  BY <1>3 DEF Held
<1>5. ProcsKept
  BY <1>1, <1>2, <1>3, <1>4, Going DEF PruningFails
<1>6. RowsKept /\ UNCHANGED Around
  BY RowsUnchanged DEF PruningFails, Around, store, counters
<1>7. QED
  BY <1>5, <1>6, AroundUnchanged

LEMMA OffIsProcess == [Idle EXCEPT !.pc = "off"] \in Process /\ Held([Idle EXCEPT !.pc = "off"])
<1>1. PICK off : off = [Idle EXCEPT !.pc = "off"]
  OBVIOUS
<1>2. off \in Process /\ off.pc = "off"
  BY <1>1 DEF Idle, Process
<1>3. Held(off)
  BY <1>2 DEF Held
<1>4. QED
  BY <1>1, <1>2, <1>3

LEMMA ScanEndsKeeps ==
  ASSUME ScanInv, NEW s \in Walkers, ScanEnds(s)
  PROVE  Kept
<1>1. ProcsKept
  BY IdleIsProcess, Going DEF ScanEnds, Procs
<1>2. RowsKept /\ UNCHANGED Around
  BY RowsUnchanged DEF ScanEnds, Around, store, counters
<1>3. QED
  BY <1>1, <1>2, AroundUnchanged

LEMMA WatchBeginsKeeps ==
  ASSUME ScanInv, WatchBegins
  PROVE  Kept
<1>1. ProcsKept
  BY IdleIsProcess, Going DEF WatchBegins, Procs
<1>2. RowsKept
  BY RowsUnchanged DEF WatchBegins, store
<1>3. Rest'
  BY RestHolds DEF Rest, WatchBegins, store, counters
<1>4. QED
  BY <1>1, <1>2, <1>3, Together

LEMMA HandleEventKeeps ==
  ASSUME ScanInv, HandleEvent
  PROVE  Kept
<1>1. PICK e \in Told : e = Head(events) /\ events # <<>>
  BY HeadTailProperties DEF ScanInv, HandleEvent
<1>2. /\ e.p \in Paths /\ e.op \in {"create", "write", "mkdir", "remove"}
      /\ events' \in Seq(Event) /\ events' \in Seq(Told)
      /\ e.op = "mkdir" => e.p \in Nested
  BY <1>1, HeadTailProperties DEF Event, Told, ScanInv, TypeOK, HandleEvent
<1>3. Watcher \in Procs
  BY DEF Procs
<1>4. ASSUME Becomes(Watcher, [Idle EXCEPT !.pc = "stat", !.p = e.p])
      PROVE  ProcsKept
  <2>1. PICK next : next = [Idle EXCEPT !.pc = "stat", !.p = e.p]
    OBVIOUS
  <2>2. next \in Process /\ next.pc = "stat" /\ next.p \in Paths
    BY <1>2, <2>1 DEF Process, Idle
  <2>3. Held(next)
    BY <2>2 DEF Held
  <2>4. QED
    BY <1>3, <1>4, <2>1, <2>2, <2>3, Going
<1>5. ASSUME NEW i \in Ids, NEW pc \in {"drop", "lose"},
             Becomes(Watcher, [Idle EXCEPT !.i = i, !.pc = pc])
      PROVE  ProcsKept
  <2>1. PICK next : next = [Idle EXCEPT !.i = i, !.pc = pc]
    OBVIOUS
  <2>2. next \in Process /\ next.pc = pc /\ next.i = i
    BY <2>1 DEF Process, Idle
  <2>3. Held(next)
    BY <2>2, Zenon DEF Held
  <2>4. QED
    BY <1>3, <1>5, <2>1, <2>2, <2>3, Going
<1>6. /\ \/ Becomes(Watcher, [Idle EXCEPT !.pc = "stat", !.p = e.p])
         \/ Becomes(Watcher, Idle)
         \/ \E i \in Ids, pc \in {"drop", "lose"} : Becomes(Watcher, [Idle EXCEPT !.i = i, !.pc = pc])
      /\ watched' = watched \/ (watched' = watched \cup {e.p} /\ e.op = "mkdir")
  <2>1. CASE e.op \in {"create", "write"}
    BY <1>1, <2>1 DEF HandleEvent
  <2>2. CASE e.op = "mkdir"
    BY <1>1, <2>2 DEF HandleEvent
  <2>3. CASE e.op = "remove"
    BY <1>1, <2>3, ZenonT(60) DEF HandleEvent, At
  <2>4. QED
    BY <1>2, <2>1, <2>2, <2>3
<1>7. ProcsKept
  BY <1>3, <1>4, <1>5, <1>6, IdleIsProcess, Going
<1>8. RowsKept
  BY RowsUnchanged DEF HandleEvent, store
<1>9. Rest'
  <2>1. watched' \subseteq Nested
    BY <1>2, <1>6, RestHolds DEF Rest
  <2>2. UNCHANGED <<disk, library, manager, parents, archive, changes, transcodes>>
    BY DEF HandleEvent, store, counters
  <2>3. QED
    BY <1>2, <2>1, <2>2, RestHolds, SMTT(60) DEF Rest
<1>10. QED
  BY <1>7, <1>8, <1>9, Together

LEMMA SourceIsGoneKeeps ==
  ASSUME ScanInv, SourceIsGone
  PROVE  Kept
<1>1. Watcher \in Procs /\ proc[Watcher].i \in Ids
  BY DEF ScanInv, AllHeld, Held, SourceIsGone, Procs
<1>2. ProcsKept
  BY <1>1, GoingOn DEF SourceIsGone
<1>3. RowsKept
  <2>1. CASE DeleteMediaItem(proc[Watcher].i)
    BY <1>1, <2>1, RowKeeps DEF DeleteMediaItem, SourceIsGone
  <2>2. CASE SetMediaSourceStatus(proc[Watcher].i, "missing")
    BY <1>1, <2>2, SourceKeeps DEF SourceIsGone
  <2>3. QED
    BY <2>1, <2>2 DEF SourceIsGone
<1>4. QED
  BY <1>2, <1>3, AroundUnchanged DEF SourceIsGone, Around, counters

LEMMA CancelledKeeps ==
  ASSUME ScanInv, NEW s \in Procs, Cancelled(s)
  PROVE  Kept
<1>1. ProcsKept
  BY IdleIsProcess, OffIsProcess, Going DEF Cancelled
<1>2. RowsKept /\ UNCHANGED Around
  BY RowsUnchanged DEF Cancelled, Around, store, counters
<1>3. QED
  BY <1>1, <1>2, AroundUnchanged

-----------------------------------------------------------------------------
(* Libraries, the directory and the pool: no goroutine moves. *)

LEMMA ProcsUnchanged ==
  ASSUME ScanInv, UNCHANGED proc, calm' = None
  PROVE  ProcsKept
  BY DEF ScanInv, TypeOK, AllHeld, ProcsKept

LEMMA CreateLibraryKeeps ==
  ASSUME ScanInv, CreateLibrary
  PROVE  Kept
<1>1. RowsKept
  BY DEF ScanInv, TypeOK, RowsKept, CreateLibrary
<1>2. Rest'
  BY RestHolds DEF Rest, CreateLibrary, counters
<1>3. QED
  BY <1>1, <1>2, ProcsUnchanged, Together DEF CreateLibrary

LEMMA DeleteLibraryKeeps ==
  ASSUME ScanInv, DeleteLibrary
  PROVE  Kept
<1>1. RowsKept
  BY DEF RowsKept, DeleteLibrary
<1>2. Rest'
  BY RestHolds DEF Rest, DeleteLibrary, counters
<1>3. QED
  BY <1>1, <1>2, ProcsUnchanged, Together DEF DeleteLibrary

LEMMA RemoveScannerKeeps ==
  ASSUME ScanInv, RemoveScanner
  PROVE  Kept
<1>1. RowsKept
  BY RowsUnchanged DEF RemoveScanner, store
<1>2. Rest'
  BY RestHolds DEF Rest, RemoveScanner, store, counters
<1>3. QED
  BY <1>1, <1>2, ProcsUnchanged, Together DEF RemoveScanner

LEMMA AddScannerKeeps ==
  ASSUME ScanInv, NEW s \in Walkers, AddScanner(s)
  PROVE  Kept
<1>1. RowsKept
  BY RowsUnchanged DEF AddScanner, store
<1>2. Rest'
  BY RestHolds DEF Rest, AddScanner, store, counters
<1>3. ProcsKept
  BY ScanBeginsKeeps DEF AddScanner
<1>4. QED
  BY <1>1, <1>2, <1>3, Together

LEMMA ScanLibraryKeeps ==
  ASSUME ScanInv, NEW s \in Walkers, ScanLibrary(s)
  PROVE  Kept
<1>1. RowsKept
  BY RowsUnchanged DEF ScanLibrary, store
<1>2. Rest'
  BY RestHolds DEF Rest, ScanLibrary, store, counters
<1>3. ProcsKept
  BY ScanBeginsKeeps DEF ScanLibrary
<1>4. QED
  BY <1>1, <1>2, <1>3, Together

\* What the watcher is told.
LEMMA ToldOf ==
  ASSUME NEW p \in Paths
  PROVE  /\ Appears(p) \in Seq(Event) /\ Appears(p) \in Seq(Told)
         /\ Disappears(p) \in Seq(Event) /\ Disappears(p) \in Seq(Told)
<1>1. ASSUME NEW op \in {"create", "write", "mkdir", "remove"}, op = "mkdir" => p \in Nested
      PROVE  <<[op |-> op, p |-> p]>> \in Seq(Event) /\ <<[op |-> op, p |-> p]>> \in Seq(Told)
  <2>1. PICK e : e = [op |-> op, p |-> p]
    OBVIOUS
  <2>2. e \in Event /\ e \in Told
    BY <1>1, <2>1 DEF Event, Told
  <2>3. <<e>> \in Seq(Event) /\ <<e>> \in Seq(Told)
    BY <2>2
  <2>4. QED
    BY <2>1, <2>3
<1>2. <<>> \in Seq(Event) /\ <<>> \in Seq(Told)
  OBVIOUS
<1>3. Appears(p) \in Seq(Event) /\ Appears(p) \in Seq(Told)
  <2>1. PICK op \in {"create", "write"} : op = IF disk[p] = None THEN "create" ELSE "write"
    OBVIOUS
  <2>2. Appears(p) \in {<<[op |-> op, p |-> p]>>, <<>>}
        \/ (Appears(p) = <<[op |-> "mkdir", p |-> p]>> /\ p \in Nested)
    BY <2>1 DEF Appears, Watching
  <2>3. QED
    BY <1>1, <1>2, <2>2
<1>4. Disappears(p) \in Seq(Event) /\ Disappears(p) \in Seq(Told)
  BY <1>1, <1>2 DEF Disappears
<1>5. QED
  BY <1>3, <1>4

LEMMA ChangedKeeps ==
  ASSUME ScanInv, NEW d \in [Paths -> Contents \cup {None}], NEW e \in Seq(Event), e \in Seq(Told),
         Changed(d, e)
  PROVE  Kept
<1>1. RowsKept
  BY RowsUnchanged DEF Changed, store
<1>2. events' \in Seq(Event) /\ events' \in Seq(Told)
  BY ConcatProperties DEF ScanInv, TypeOK, Changed
<1>3. changes' \in 0..MaxChanges
  BY ScanAssumption DEF ScanInv, TypeOK, Changed
<1>4. Rest'
  BY <1>2, <1>3, RestHolds DEF Rest, Changed, store
<1>5. QED
  BY <1>1, <1>4, ProcsUnchanged, Together DEF Changed

LEMMA PutFileKeeps ==
  ASSUME ScanInv, NEW p \in Paths, NEW c \in Contents, PutFile(p, c)
  PROVE  Kept
<1>1. [disk EXCEPT ![p] = c] \in [Paths -> Contents \cup {None}]
  BY DEF ScanInv, TypeOK
<1>2. QED
  BY <1>1, ToldOf, ChangedKeeps DEF PutFile

LEMMA RemoveFileKeeps ==
  ASSUME ScanInv, NEW p \in Paths, RemoveFile(p)
  PROVE  Kept
<1>1. [disk EXCEPT ![p] = None] \in [Paths -> Contents \cup {None}]
  BY DEF ScanInv, TypeOK
<1>2. QED
  BY <1>1, ToldOf, ChangedKeeps DEF RemoveFile

LEMMA RenameFileKeeps ==
  ASSUME ScanInv, NEW p \in Paths, NEW q \in Paths, RenameFile(p, q)
  PROVE  Kept
<1>1. [disk EXCEPT ![p] = None, ![q] = disk[p]] \in [Paths -> Contents \cup {None}]
  BY DEF ScanInv, TypeOK
<1>2. PICK before \in Seq(Event), after \in Seq(Event) :
        /\ before = Disappears(p) /\ after = Appears(q)
        /\ before \in Seq(Told) /\ after \in Seq(Told)
  BY ToldOf
<1>3. before \o after \in Seq(Event) /\ before \o after \in Seq(Told)
  BY <1>2, ConcatProperties
<1>4. QED
  BY <1>1, <1>2, <1>3, ChangedKeeps DEF RenameFile

LEMMA TranscodingKeeps ==
  ASSUME ScanInv, NEW i \in Ids, Exists(i), NEW row \in Row, NEW a \in SUBSET Contents,
         Transcoding(i, row, a), transcodes' \in 0..MaxTranscodes,
         item[i].tr = "done" => row.tr = "done" \/ transcodes' # transcodes
  PROVE  Kept
<1>1. item' = [item EXCEPT ![i] = row] /\ UNCHANGED library
  BY DEF Transcoding
<1>2. RowsKept
  BY <1>1 DEF ScanInv, TypeOK, DeletedIsEmpty, Exists, RowsKept
<1>3. Rest'
  BY RestHolds DEF Rest, Transcoding
<1>4. QED
  BY <1>2, <1>3, ProcsUnchanged, Together DEF Transcoding

LEMMA TranscodeBeginsKeeps ==
  ASSUME ScanInv, NEW i \in Ids, TranscodeBegins(i)
  PROVE  Kept
<1>1. PICK old \in Row : old = item[i] /\ Exists(i)
  BY RowsAreRows DEF ScanInv, Exists, TranscodeBegins
<1>2. PICK row : row = [old EXCEPT !.tr = "active"]
  OBVIOUS
<1>3. row \in Row
  BY <1>2 DEF Row
<1>4. archive \in SUBSET Contents /\ transcodes' \in 0..MaxTranscodes /\ transcodes' # transcodes
  BY ScanAssumption DEF ScanInv, TypeOK, TranscodeBegins
<1>5. Transcoding(i, row, archive)
  BY <1>1, <1>2 DEF TranscodeBegins
<1>6. QED
  BY <1>1, <1>3, <1>4, <1>5, TranscodingKeeps

LEMMA OldBundleDroppedKeeps ==
  ASSUME ScanInv, NEW i \in Ids, OldBundleDropped(i)
  PROVE  Kept
<1>1. PICK old \in Row : old = item[i] /\ Exists(i) /\ old.tr = "active"
  BY RowsAreRows DEF ScanInv, Exists, OldBundleDropped
<1>2. PICK row : row = [old EXCEPT !.bundle = "none"]
  OBVIOUS
<1>3. row \in Row
  BY <1>2 DEF Row
<1>4. PICK a \in SUBSET Contents : Transcoding(i, row, a)
  BY <1>1, <1>2 DEF OldBundleDropped, ScanInv, TypeOK
<1>5. transcodes' \in 0..MaxTranscodes
  BY DEF ScanInv, TypeOK, OldBundleDropped
<1>6. QED
  BY <1>1, <1>3, <1>4, <1>5, TranscodingKeeps

LEMMA TranscodeEndsKeeps ==
  ASSUME ScanInv, NEW i \in Ids, TranscodeEnds(i)
  PROVE  Kept
<1>1. PICK old \in Row : old = item[i] /\ Exists(i)
  BY RowsAreRows DEF ScanInv, Exists, TranscodeEnds
<1>2. PICK row : row = [old EXCEPT !.tr = "done", !.bundle = "available"]
  OBVIOUS
<1>3. row \in Row /\ row.tr = "done"
  BY <1>2 DEF Row
<1>4. PICK c \in Contents : c = IF old.fp = None THEN disk[old.path] ELSE old.fp
  BY <1>1 DEF Row, ScanInv, TypeOK, TranscodeEnds
<1>5. archive \cup {c} \in SUBSET Contents
  BY DEF ScanInv, TypeOK
<1>6. Transcoding(i, row, archive \cup {c})
  BY <1>1, <1>2, <1>4 DEF TranscodeEnds
<1>7. transcodes' \in 0..MaxTranscodes
  BY DEF ScanInv, TypeOK, TranscodeEnds
<1>8. QED
  BY <1>1, <1>3, <1>5, <1>6, <1>7, TranscodingKeeps

-----------------------------------------------------------------------------
(* The theorems *)

LEMMA ScanInitially ==
  ASSUME Init
  PROVE  ScanInv
<1>1. proc \in [Procs -> Process] /\ AllHeld
  BY IdleIsProcess, OffIsProcess DEF Init, AllHeld
<1>2. events \in Seq(Event) /\ events \in Seq(Told)
  BY DEF Init
<1>3. QED
  BY <1>1, <1>2, ScanAssumption DEF Init, ScanInv, TypeOK, DeletedIsEmpty, Exists

LEMMA ScanStutters ==
  ASSUME ScanInv, UNCHANGED vars
  PROVE  Kept
<1>1. RowsKept
  BY RowsUnchanged DEF vars
<1>2. ProcsKept
  BY DEF ScanInv, TypeOK, AllHeld, ProcsKept, vars
<1>3. QED
  BY <1>1, <1>2, AroundUnchanged DEF vars, Around

LEMMA ScanSteps ==
  ASSUME ScanInv, [Next]_vars
  PROVE  Kept
<1>1. ASSUME NEW s \in Procs,
             \/ Stat(s) \/ SourceIsBack(s) \/ SaveFingerprint(s) \/ FindBundle(s) \/ Relink(s)
             \/ ParseTVEpisode(s) \/ UpsertTVEpisodeFile(s) \/ Identify(s) \/ Match(s)
             \/ MoveRow(s) \/ WriteRow(s) \/ StatementFails(s) \/ Cancelled(s)
      PROVE  Kept
  BY <1>1, StatKeeps, SourceIsBackKeeps, SaveFingerprintKeeps, FindBundleKeeps, RelinkKeeps,
     ParseTVEpisodeKeeps, UpsertTVEpisodeFileKeeps, IdentifyKeeps, MatchKeeps, MoveRowKeeps,
     WriteRowKeeps, StatementFailsKeeps, CancelledKeeps
<1>2. ASSUME NEW s \in Walkers,
             \/ \E p \in Paths : Visit(s, p)
             \/ Prune(s) \/ Mark(s) \/ PruningFails(s) \/ ScanEnds(s)
             \/ AddScanner(s) \/ ScanLibrary(s)
      PROVE  Kept
  BY <1>2, VisitKeeps, PruneStepKeeps, MarkStepKeeps, PruningFailsKeeps, ScanEndsKeeps, AddScannerKeeps,
     ScanLibraryKeeps
<1>3. CASE WatchBegins \/ HandleEvent \/ SourceIsGone \/ CreateLibrary \/ DeleteLibrary \/ RemoveScanner
  BY <1>3, WatchBeginsKeeps, HandleEventKeeps, SourceIsGoneKeeps, CreateLibraryKeeps,
     DeleteLibraryKeeps, RemoveScannerKeeps
<1>4. ASSUME NEW p \in Paths,
             \/ \E c \in Contents : PutFile(p, c)
             \/ RemoveFile(p)
             \/ \E q \in Paths : RenameFile(p, q)
      PROVE  Kept
  BY <1>4, PutFileKeeps, RemoveFileKeeps, RenameFileKeeps
<1>5. ASSUME NEW i \in Ids, TranscodeBegins(i) \/ OldBundleDropped(i) \/ TranscodeEnds(i)
      PROVE  Kept
  BY <1>5, TranscodeBeginsKeeps, OldBundleDroppedKeeps, TranscodeEndsKeeps
<1>6. CASE UNCHANGED vars
  BY <1>6, ScanStutters
<1>7. CASE Next
  BY <1>1, <1>2, <1>3, <1>4, <1>5, <1>7 DEF Next
<1>8. QED
  BY <1>6, <1>7

LEMMA ScanInvAlways == Spec => []ScanInv
<1>1. Init => ScanInv
  BY ScanInitially
<1>2. ScanInv /\ [Next]_vars => ScanInv'
  BY ScanSteps DEF Kept
<1>3. QED
  BY <1>1, <1>2, PTL DEF Spec

\* Rows, goroutines and events keep their types, whatever scans, watcher, files and
\* transcodes do (upsertFile, handleEvent).
THEOREM ScanTyped == Spec => []TypeOK
<1>1. ScanInv => TypeOK
  BY DEF ScanInv
<1>2. QED
  BY <1>1, ScanInvAlways, PTL

\* Any number of scans and the watcher, at any of their calls when the library is
\* deleted, bring back neither an item nor a show or season (UpsertMediaItem and
\* UpsertTVShow fail on the foreign key; a conflict needs a row that exists).
THEOREM DeletedStaysEmpty == Spec => []DeletedIsEmpty
<1>1. ScanInv => DeletedIsEmpty
  BY DEF ScanInv
<1>2. QED
  BY <1>1, ScanInvAlways, PTL

\* No scan and no watcher takes a finished transcode back, whatever row it read before
\* and writes now (the CASE of UpsertMediaItem's ON CONFLICT).
THEOREM DoneStaysDone == Spec => DoneStays
<1>1. ScanInv /\ [Next]_vars =>
        [\A i \in Ids : Exists(i) /\ item[i].tr = "done" /\ Exists(i)' =>
           item'[i].tr = "done" \/ transcodes' # transcodes]_vars
  BY ScanSteps DEF Kept, RowsKept, Exists
<1>2. QED
  BY <1>1, ScanInvAlways, PTL DEF Spec, DoneStays

-----------------------------------------------------------------------------
(* A scan that nothing disturbs: the files it is done with have their rows. *)

\* Where a scan is at a file, between its calls.
Working == {"stat", "avail", "save", "find", "relink", "episode", "show", "season", "ident",
            "match", "move", "link", "upsert"}
Scanning == Working \cup {"walk", "mark", "end", "drop", "lose"}

Done(r) == IF r.pc \in Working THEN r.seen \ {r.p} ELSE r.seen

\* The files whose rows the scan has not looked at.
Ahead(r) == IF r.pc \in {"stat", "episode"} THEN r.todo \cup {r.p} ELSE r.todo

\* The content of q has a row at a path in D.
Settled(q, D) ==
  \E i \in Ids : /\ Exists(i) /\ item[i].path \in D
                 /\ item[i].fp = disk[q] /\ disk[item[i].path] = disk[q]

\* The files the scan owes a row.
Promised(r, q) == q \notin r.unnoticed /\ ~(Episodes /\ q \in Unparsed)

Walks(r) ==
  /\ r.todo \cap r.seen = {}
  /\ \A p \in r.seen \cup (r.todo \ Nested) : disk[p] # None
  /\ r.pc \in Working => r.p \in r.seen
  /\ \A q \in Ahead(r) : Unnoticed(q) => q \in r.unnoticed

Owes(r) ==
  ~r.failed => /\ \A p \in Paths : disk[p] # None => p \in r.todo \cup r.seen
               /\ \A q \in Done(r) : Promised(r, q) => Settled(q, Done(r))

RowHere(i, p) == i \in Ids /\ Exists(i) /\ item[i].path = p /\ item[i].size = SizeOf[disk[p]]

\* What the scan has read of the file, and of the row it will write.
Holds(r) ==
  /\ r.pc \in {"avail", "save", "find", "relink"} => RowHere(r.i, r.p)
  /\ r.pc \in Working \ {"stat", "move"} => r.m.path = r.p /\ r.m.size = SizeOf[disk[r.p]]
  /\ r.pc = "match" => r.m.fp = disk[r.p]
  /\ r.pc = "move" => Exists(r.i) /\ item[r.i].fp = disk[r.p]
  /\ r.pc = "episode" => Episodes
  /\ r.pc \notin {"drop", "lose"}

\* The fingerprint of the file it owes a row.
Sure(r) ==
  ~r.failed /\ Promised(r, r.p) =>
    /\ r.pc \in {"find", "relink", "link", "upsert"} => r.m.fp = disk[r.p]
    /\ r.pc \in {"find", "relink"} => item[r.i].fp = disk[r.p]
    /\ r.pc = "avail" => item[r.i].fp = r.m.fp
                          /\ (r.m.fp = disk[r.p] \/ AfterAvailable(r.m) = "save")

Pruned(r) ==
  r.pc \in {"mark", "end"} =>
    /\ r.todo = {}
    /\ ~r.failed =>
         \A i \in Ids : Exists(i) /\ item[i].path \notin r.seen =>
           item[i].bundle = "available" /\ (r.pc = "end" => item[i].src = "missing")

Facts(r) == Walks(r) /\ Owes(r) /\ Holds(r) /\ Sure(r) /\ Pruned(r)

Scanned(s) == calm = s /\ proc[s].pc \in Scanning => Facts(proc[s])

\* Rows at paths in D keep their fingerprint, but may move to a path in E with their content.
Stays(D, E) ==
  \A i \in Ids : Exists(i) /\ item[i].path \in D =>
    /\ item'[i] # NoRow /\ item'[i].fp = item[i].fp
    /\ item'[i].path \in E
    /\ item'[i].path = item[i].path \/ disk[item'[i].path] = item[i].fp

\* No row comes to a path in T, or changes there.
NoneComes(T) ==
  \A i \in Ids : item'[i] # NoRow /\ item'[i].path \in T => item'[i] = item[i]

LEMMA ScannedBy ==
  ASSUME NEW s, NEW r, proc'[s] = r, r.pc \in Scanning => Facts(r)'
  PROVE  Scanned(s)'
  BY DEF Scanned, Facts, Walks, Owes, Holds, Sure, Pruned, Settled, Promised, Done, Ahead,
         RowHere, Exists, Unnoticed, SameSize, At, AfterAvailable

LEMMA SettledStays ==
  ASSUME NEW D, NEW E, NEW q, Settled(q, D), Stays(D, E), disk' = disk
  PROVE  Settled(q, E)'
<1>1. PICK i \in Ids : /\ Exists(i) /\ item[i].path \in D
                       /\ item[i].fp = disk[q] /\ disk[item[i].path] = disk[q]
  BY DEF Settled
<1>2. /\ item'[i] # NoRow /\ item'[i].fp = item[i].fp
      /\ item'[i].path \in E
      /\ item'[i].path = item[i].path \/ disk[item'[i].path] = item[i].fp
  BY <1>1 DEF Stays
<1>3. QED
  BY <1>1, <1>2 DEF Settled, Exists

\* What goes unnoticed of the files ahead was so before.
LEMMA UnnoticedStays ==
  ASSUME NEW T, NEW q \in T, NoneComes(T), disk' = disk, Unnoticed(q)', NoRow.path \notin T
  PROVE  Unnoticed(q)
<1>1. PICK i \in Ids : /\ item'[i].path = q /\ item'[i].size = SizeOf[disk[q]]
                       /\ item'[i].fp # disk[q] /\ AfterAvailable(item'[i]) # "save"
  BY DEF Unnoticed, SameSize, At, AfterAvailable
<1>2. item'[i] # NoRow
  BY <1>1
<1>3. item'[i] = item[i]
  BY <1>1, <1>2 DEF NoneComes
<1>4. QED
  BY <1>1, <1>3 DEF Unnoticed, SameSize, At, AfterAvailable

LEMMA NoRowNowhere == ASSUME NEW r \in Process, NEW T, T \subseteq r.todo PROVE NoRow.path \notin T
  BY ScanAssumption DEF Process, NoRow

\* A row with the fingerprint of the file at its path settles it.
LEMMA RowSettles ==
  ASSUME NEW i, NEW p, NEW D, p \in D, RowHere(i, p)', item'[i].fp = disk'[p]
  PROVE  Settled(p, D)'
  BY DEF Settled, RowHere, Exists

LEMMA RowsStay ==
  ASSUME item' = item, NEW D, NEW E, D \subseteq E
  PROVE  Stays(D, E) /\ \A T : NoneComes(T)
  BY DEF Stays, NoneComes, Exists

\* The scan is done with the file, or it failed;
LEMMA NextFileScanned ==
  ASSUME ScanInv, NEW s \in Walkers, NEW failed \in BOOLEAN, NextFile(s, failed), disk' = disk,
         NEW r \in Process, r = proc[s], Facts(r), r.pc \in Working,
         Stays(Done(r), r.seen), NoneComes(r.todo),
         ~failed /\ ~r.failed /\ Promised(r, r.p) => Settled(r.p, r.seen)'
  PROVE  Scanned(s)'
<1>1. s # Watcher /\ s \in Procs /\ proc \in [Procs -> Process]
  BY ScanAssumption DEF ScanInv, TypeOK, Procs
<1>2. PICK b \in BOOLEAN : b = (r.failed \/ failed)
  BY DEF Process
<1>3. PICK new : new = [r EXCEPT !.pc = "walk", !.failed = b, !.p = None, !.i = None, !.m = NoRow]
  BY Zenon
<1>4. /\ new.pc = "walk" /\ new.failed = b /\ new.todo = r.todo /\ new.seen = r.seen
      /\ new.unnoticed = r.unnoticed
  BY <1>3 DEF Process
<1>5. Becomes(s, new)
  <2>1. ((s # Watcher) /\ (r.failed \/ failed)) = b
    BY <1>1, <1>2
  <2>2. QED
    BY <1>1, <1>3, <2>1 DEF NextFile
<1>6. proc'[s] = new
  BY <1>1, <1>5 DEF Becomes
<1>7. Walks(r) /\ Owes(r) /\ r.pc \in Working /\ r.p \in r.seen
  BY DEF Facts, Walks
<1>8. Done(new) = r.seen /\ Done(r) = r.seen \ {r.p}
  BY <1>4, <1>7 DEF Done, Working
<1>9. ASSUME ~b, NEW q \in r.seen, Promised(r, q)
       PROVE  Settled(q, r.seen)'
  <2>1. ~r.failed /\ ~failed
    BY <1>2, <1>9
  <2>2. CASE q = r.p
    BY <1>9, <2>1, <2>2
  <2>3. CASE q # r.p
    <3>1. Settled(q, Done(r))
      BY <1>7, <1>8, <1>9, <2>1, <2>3 DEF Owes
    <3>2. QED
      BY <3>1, SettledStays
  <2>4. QED
    BY <2>2, <2>3
<1>10. Owes(new)'
  BY <1>2, <1>4, <1>7, <1>8, <1>9 DEF Owes, Promised
<1>11. Ahead(new) = r.todo /\ r.todo \subseteq Ahead(r)
  BY <1>4 DEF Ahead
<1>12. Walks(new)'
  BY <1>4, <1>7, <1>11, UnnoticedStays, NoRowNowhere DEF Walks, Working
<1>13. Holds(new)' /\ Sure(new)' /\ Pruned(new)'
  BY <1>4 DEF Holds, Sure, Pruned, Working
<1>14. QED
  BY <1>6, <1>10, <1>12, <1>13, ScannedBy DEF Facts

\* or goes on with it.
LEMMA SameFileScanned ==
  ASSUME ScanInv, NEW s \in Walkers, NEW new, Becomes(s, new), disk' = disk,
         NEW r \in Process, r = proc[s], Facts(r), r.pc \in Working, new.pc \in Working,
         new.p = r.p, new.todo = r.todo, new.seen = r.seen, r.failed => new.failed,
         new.unnoticed = r.unnoticed, Ahead(new) \subseteq Ahead(r),
         Stays(Done(r), Done(r)), NoneComes(Ahead(new)), Holds(new)', Sure(new)'
  PROVE  Scanned(s)'
<1>1. proc'[s] = new
  BY DEF Becomes, ScanInv, TypeOK, Procs
<1>2. Walks(r) /\ Owes(r) /\ Done(new) = Done(r) /\ Stays(Done(r), Done(r))
  BY DEF Facts, Done
<1>3. ASSUME ~r.failed, NEW q \in Done(r), Promised(r, q)
      PROVE  Settled(q, Done(r))'
  BY <1>2, <1>3, SettledStays DEF Owes
<1>4. Owes(new)'
  BY <1>2, <1>3 DEF Owes, Promised
<1>5. NoRow.path \notin Ahead(new)
  <2>1. r.p \in r.seen
    BY <1>2 DEF Walks
  <2>2. QED
    BY <2>1, ScanAssumption DEF Ahead, Process, NoRow
<1>6. Walks(new)'
  BY <1>2, <1>5, UnnoticedStays DEF Walks
<1>7. Pruned(new)'
  BY DEF Pruned, Working
<1>8. QED
  BY <1>1, <1>4, <1>6, <1>7, ScannedBy DEF Facts

\* What an upsert does to the rows: those at other paths stay, and there is one here.
LEMMA UpsertIs ==
  ASSUME ScanInv, NEW i \in Ids, NEW m \in Row, CanUpsert(i, m), UpsertMediaItem(i, m)
  PROVE  /\ \A j \in Ids : item[j].path # m.path /\ (Exists(j) \/ item'[j].path # m.path) =>
              item'[j] = item[j]
         /\ \A j \in Ids : item[j].path = m.path =>
              /\ item'[j] # NoRow /\ item'[j].path = m.path /\ item'[j].size = m.size
              /\ m.fp # None => item'[j].fp = m.fp
         /\ At(m.path) = {} => item'[i] = m
<1>1. item \in [Ids -> Row \cup {NoRow}] /\ m.path \in Paths
  BY DEF ScanInv, TypeOK, Row
<1>2. CASE At(m.path) = {}
  <2>1. item' = [item EXCEPT ![i] = m] /\ item[i] = NoRow
    BY <1>2 DEF UpsertMediaItem, CanUpsert, Exists
  <2>2. \A j \in Ids : item[j].path # m.path
    BY <1>2 DEF At
  <2>3. QED
    BY <1>1, <2>1, <2>2 DEF Exists
<1>3. CASE At(m.path) # {}
  <2>1. item' = [j \in Ids |->
         IF item[j].path # m.path THEN item[j]
         ELSE [m EXCEPT !.fp = IF @ = None THEN item[j].fp ELSE @,
                        !.tr = IF item[j].tr = "done" THEN "done" ELSE @]]
    BY <1>3 DEF UpsertMediaItem
  <2>2. ASSUME NEW j \in Ids, item[j].path = m.path
        PROVE  /\ item'[j] # NoRow /\ item'[j].path = m.path /\ item'[j].size = m.size
               /\ m.fp # None => item'[j].fp = m.fp
    <3>1. PICK old \in Row : old = item[j]
      BY <1>1, <2>2, RowsAreRows DEF ScanInv
    <3>2. PICK fp \in Contents \cup {None} : fp = IF m.fp = None THEN old.fp ELSE m.fp
      BY DEF Row
    <3>3. PICK tr \in {"none", "active", "done"} : tr = IF old.tr = "done" THEN "done" ELSE m.tr
      BY DEF Row
    <3>4. PICK new : new = [m EXCEPT !.fp = fp, !.tr = tr]
      BY Zenon
    <3>5. new \in Row /\ new.path = m.path /\ new.size = m.size /\ new.fp = fp
      BY <3>4 DEF Row
    <3>6. item'[j] = new
      BY <2>1, <2>2, <3>1, <3>2, <3>3, <3>4
    <3>7. QED
      BY <3>2, <3>5, <3>6, RowNotNoRow
  <2>3. QED
    BY <1>3, <2>1, <2>2
<1>4. QED
  BY <1>2, <1>3

LEMMA UpsertStays ==
  ASSUME ScanInv, NEW i \in Ids, NEW m \in Row, CanUpsert(i, m), UpsertMediaItem(i, m),
         NEW D, m.path \notin D, NEW E, D \subseteq E, disk' = disk,
         m.size = SizeOf[disk[m.path]]
  PROVE  /\ Stays(D, E)
         /\ \A T : m.path \notin T => NoneComes(T)
         /\ \A j \in Ids : item[j].path = m.path =>
              RowHere(j, m.path)' /\ (m.fp # None => item'[j].fp = m.fp)
         /\ \E j \in Ids : RowHere(j, m.path)' /\ (m.fp # None => item'[j].fp = m.fp)
<1>1. \A j \in Ids : item[j].path # m.path /\ (Exists(j) \/ item'[j].path # m.path) =>
        item'[j] = item[j]
  BY UpsertIs
<1>2. Stays(D, E)
  BY <1>1 DEF Stays, Exists
<1>3. \A j \in Ids : item[j].path = m.path =>
        RowHere(j, m.path)' /\ (m.fp # None => item'[j].fp = m.fp)
  BY UpsertIs DEF RowHere, Exists
<1>4. \E j \in Ids : RowHere(j, m.path)' /\ (m.fp # None => item'[j].fp = m.fp)
  <2>1. CASE At(m.path) = {}
    <3>1. item'[i] = m
      BY <2>1, UpsertIs
    <3>2. QED
      BY <3>1, RowNotNoRow DEF RowHere, Exists
  <2>2. CASE At(m.path) # {}
    BY <1>3, <2>2 DEF At
  <2>3. QED
    BY <2>1, <2>2
<1>5. ASSUME NEW T, m.path \notin T
      PROVE  NoneComes(T)
  <2>1. SUFFICES ASSUME NEW j \in Ids, item'[j] # NoRow, item'[j].path \in T
                 PROVE  item'[j] = item[j]
    BY DEF NoneComes
  <2>2. item'[j].path # m.path
    BY <1>5, <2>1
  <2>3. item[j].path # m.path
    BY <2>2, UpsertIs
  <2>4. QED
    BY <1>1, <2>2, <2>3
<1>6. QED
  BY <1>2, <1>3, <1>4, <1>5

\* The status of a source changes nothing else.
LEMMA SourceStays ==
  ASSUME ScanInv, NEW i \in Ids, NEW src \in {"available", "missing"}, SetMediaSourceStatus(i, src),
         NEW D, NEW E, D \subseteq E, disk' = disk
  PROVE  /\ Stays(D, E)
         /\ \A T : item[i].path \notin T => NoneComes(T)
         /\ \A j \in Ids, p \in Paths : RowHere(j, p) => RowHere(j, p)' /\ item'[j].fp = item[j].fp
<1>1. CASE ~Exists(i)
  BY <1>1, RowsStay DEF SetMediaSourceStatus, RowHere, Exists
<1>2. CASE Exists(i)
  <2>1. PICK old \in Row : old = item[i]
    BY <1>2, RowsAreRows DEF ScanInv, Exists
  <2>2. PICK row : row = [old EXCEPT !.src = src]
    BY Zenon
  <2>3. /\ row \in Row /\ row.path = old.path /\ row.size = old.size /\ row.fp = old.fp
    BY <2>2 DEF Row
  <2>4. item' = [item EXCEPT ![i] = row] /\ item \in [Ids -> Row \cup {NoRow}]
    BY <1>2, <2>1, <2>2 DEF SetMediaSourceStatus, ScanInv, TypeOK
  <2>5. \A j \in Ids : Exists(j) => /\ item'[j] # NoRow /\ item'[j].size = item[j].size
                                    /\ item'[j].fp = item[j].fp /\ item'[j].path = item[j].path
    BY <2>1, <2>3, <2>4, RowNotNoRow DEF Exists
  <2>6. ASSUME NEW T, old.path \notin T, NEW j \in Ids, item'[j].path \in T
        PROVE  item'[j] = item[j]
    BY <2>1, <2>3, <2>4, <2>6
  <2>7. \A T : item[i].path \notin T => NoneComes(T)
    BY <2>1, <2>6 DEF NoneComes
  <2>8. QED
    BY <2>5, <2>7 DEF Stays, RowHere, Exists
<1>3. QED
  BY <1>1, <1>2

\* A file that fails is counted, and nothing is said of it.
LEMMA FailedScanned ==
  ASSUME ScanInv, NEW s \in Walkers, NextFile(s, TRUE), UNCHANGED <<disk, item>>,
         Facts(proc[s]), proc[s].pc \in Working
  PROVE  Scanned(s)'
<1>1. PICK r \in Process : r = proc[s]
  BY DEF ScanInv, TypeOK, Procs
<1>2. Stays(Done(r), r.seen) /\ NoneComes(r.todo)
  BY RowsStay DEF Done
<1>3. QED
  BY <1>1, <1>2, NextFileScanned

\* The file has its row.
LEMMA FoundScanned ==
  ASSUME ScanInv, NEW s \in Walkers, NextFile(s, FALSE), disk' = disk,
         NEW r \in Process, r = proc[s], Facts(r), r.pc \in Working,
         Stays(Done(r), r.seen), NoneComes(r.todo), NEW i, RowHere(i, r.p)',
         ~r.failed /\ Promised(r, r.p) => item'[i].fp = disk[r.p]
  PROVE  Scanned(s)'
<1>1. r.p \in r.seen
  BY DEF Facts, Walks
<1>2. ~r.failed /\ Promised(r, r.p) => Settled(r.p, r.seen)'
  BY <1>1, RowSettles
<1>3. QED
  BY <1>2, NextFileScanned

\* It has a row of its size, which the scan takes for its own.
LEMMA KnownFileScanned ==
  ASSUME ScanInv, NEW s \in Walkers, Facts(proc[s]), proc[s].pc \in {"stat", "episode"},
         UNCHANGED <<disk, item>>, NEW i \in Ids, RowHere(i, proc[s].p), KnownFile(s, i)
  PROVE  Scanned(s)'
<1>1. PICK r \in Process : r = proc[s] /\ Held(r)
  BY DEF ScanInv, TypeOK, AllHeld, Procs
<1>2. r.pc \in {"stat", "episode"} /\ r.pc \in Working /\ r.p \in Paths /\ RowHere(i, r.p)
  BY <1>1 DEF Working, Held
<1>3. PICK old \in Row : old = item[i]
  BY <1>2, RowsAreRows DEF ScanInv, RowHere, Exists
<1>4. /\ old.path = r.p /\ old.size = SizeOf[disk[r.p]]
      /\ Promised(r, r.p) => old.fp = disk[r.p] \/ AfterAvailable(old) = "save"
  <2>1. r.p \in Ahead(r) /\ disk[r.p] # None
    BY <1>1, <1>2 DEF Ahead, Facts, Walks
  <2>2. Promised(r, r.p) => ~Unnoticed(r.p)
    BY <1>1, <2>1 DEF Promised, Facts, Walks
  <2>3. QED
    BY <1>2, <1>3, <2>1, <2>2 DEF Unnoticed, SameSize, At, RowHere
<1>5. Stays(Done(r), r.seen) /\ Stays(Done(r), Done(r)) /\ \A T : NoneComes(T)
  BY RowsStay DEF Done
<1>6. RowHere(i, r.p)' /\ item'[i] = old
  BY <1>2, <1>3 DEF RowHere, Exists
<1>7. ASSUME NextFile(s, FALSE), AfterAvailable(old) # "save"
      PROVE  Scanned(s)'
  BY <1>1, <1>2, <1>4, <1>5, <1>6, <1>7, FoundScanned
<1>8. ASSUME NEW pc \in {"avail", "save", "find"},
             pc = "find" => AfterAvailable(old) # "save",
             Becomes(s, [r EXCEPT !.pc = pc, !.i = i, !.m = item[i]])
      PROVE  Scanned(s)'
  <2>1. PICK next : next = [r EXCEPT !.pc = pc, !.i = i, !.m = old]
    BY Zenon
  <2>2. /\ next.pc = pc /\ next.m = old /\ next.p = r.p /\ next.i = i /\ next.todo = r.todo
        /\ next.seen = r.seen /\ next.failed = r.failed /\ next.unnoticed = r.unnoticed
    BY <2>1 DEF Process
  <2>3. Becomes(s, next)
    BY <1>3, <1>8, <2>1
  <2>4. Holds(next)' /\ next.pc \in Working
    BY <1>4, <1>6, <1>8, <2>2 DEF Holds, Working
  <2>5. Sure(next)'
    BY <1>4, <1>6, <1>8, <2>2 DEF Sure, Promised, AfterAvailable
  <2>6. Ahead(next) \subseteq Ahead(r)
    BY <1>8, <2>2 DEF Ahead
  <2>7. QED
    BY <1>1, <1>2, <1>5, <2>2, <2>3, <2>4, <2>5, <2>6, SameFileScanned
<1>9. \/ NextFile(s, FALSE) /\ AfterAvailable(old) # "save"
      \/ \E pc \in {"avail", "save", "find"} :
           /\ pc = "find" => AfterAvailable(old) # "save"
           /\ Becomes(s, [r EXCEPT !.pc = pc, !.i = i, !.m = item[i]])
  BY <1>1, <1>3, ZenonT(60) DEF KnownFile, AfterAvailable
<1>10. QED
  BY <1>7, <1>8, <1>9, Zenon

LEMMA StatScanned ==
  ASSUME ScanInv, NEW s \in Walkers, Facts(proc[s]), Stat(s)
  PROVE  Scanned(s)'
<1>1. PICK r \in Process : r = proc[s] /\ Held(r)
  BY DEF ScanInv, TypeOK, AllHeld, Procs
<1>2. PICK p \in Paths : p = r.p
  BY <1>1 DEF Stat, Held
<1>3. UNCHANGED <<disk, item>> /\ r.pc = "stat" /\ r.pc \in Working
  BY <1>1 DEF Stat, store, Working
<1>4. Stays(Done(r), Done(r)) /\ \A T : NoneComes(T)
  BY <1>3, RowsStay
<1>5. CASE NextFile(s, TRUE)
  BY <1>1, <1>3, <1>5, FailedScanned
<1>6. ASSUME Becomes(s, [r EXCEPT !.pc = IF Episodes THEN "episode" ELSE "ident", !.m = NewRow(p)])
      PROVE  Scanned(s)'
  <2>1. PICK row : row = NewRow(p)
    OBVIOUS
  <2>2. row.path = p /\ row.size = SizeOf[disk[p]]
    BY <2>1 DEF NewRow
  <2>3. PICK pc \in {"episode", "ident"} :
          pc = (IF Episodes THEN "episode" ELSE "ident") /\ (pc = "episode" => Episodes)
    BY ScanAssumption
  <2>4. PICK next : next = [r EXCEPT !.pc = pc, !.m = row]
    BY Zenon
  <2>5. /\ next.pc = pc /\ next.m = row /\ next.p = p /\ next.todo = r.todo
        /\ next.seen = r.seen /\ next.failed = r.failed /\ next.unnoticed = r.unnoticed
    BY <1>2, <2>4 DEF Process
  <2>6. Becomes(s, next)
    BY <1>6, <2>1, <2>3, <2>4
  <2>7. Holds(next)' /\ Sure(next)' /\ next.pc \in Working
    BY <1>3, <2>2, <2>3, <2>5 DEF Holds, Sure, Working
  <2>8. Ahead(next) \subseteq Ahead(r)
    BY <1>2, <1>3, <2>5 DEF Ahead
  <2>9. QED
    BY <1>1, <1>2, <1>3, <1>4, <2>5, <2>6, <2>7, <2>8, SameFileScanned
<1>7. ASSUME NEW i \in Ids, item[i].path = p, item[i].size = SizeOf[disk[p]], KnownFile(s, i)
      PROVE  Scanned(s)'
  <2>1. RowHere(i, p)
    BY <1>7, RowsAreRows DEF RowHere, Exists, ScanInv
  <2>2. QED
    BY <1>1, <1>2, <1>3, <1>7, <2>1, KnownFileScanned
<1>8. \/ NextFile(s, TRUE)
      \/ Becomes(s, [r EXCEPT !.pc = IF Episodes THEN "episode" ELSE "ident", !.m = NewRow(p)])
      \/ \E i \in Ids : /\ item[i].path = p /\ item[i].size = SizeOf[disk[p]]
                         /\ KnownFile(s, i)
  BY <1>1, <1>2, Zenon DEF Stat, SameSize, At
<1>9. QED
  BY <1>5, <1>6, <1>7, <1>8, Zenon

LEMMA SourceIsBackScanned ==
  ASSUME ScanInv, NEW s \in Walkers, Facts(proc[s]), SourceIsBack(s)
  PROVE  Scanned(s)'
<1>1. PICK r \in Process : r = proc[s] /\ Held(r)
  BY DEF ScanInv, TypeOK, AllHeld, Procs
<1>2. disk' = disk /\ r.pc = "avail" /\ r.pc \in Working /\ r.i \in Ids /\ r.p \in Paths
  BY <1>1 DEF SourceIsBack, Working, Held
<1>3. RowHere(r.i, r.p) /\ r.m.path = r.p /\ r.m.size = SizeOf[disk[r.p]]
  BY <1>1, <1>2 DEF Facts, Holds, Working
<1>4. Done(r) \subseteq r.seen /\ SetMediaSourceStatus(r.i, "available")
  BY <1>1 DEF SourceIsBack, Done
<1>5. /\ Stays(Done(r), r.seen) /\ Stays(Done(r), Done(r))
      /\ RowHere(r.i, r.p)' /\ item'[r.i].fp = item[r.i].fp
  BY <1>2, <1>3, <1>4, SourceStays
<1>10. NoneComes(r.todo)
  <2>1. item[r.i].path \notin r.todo
    BY <1>1, <1>2, <1>3 DEF RowHere, Facts, Walks
  <2>2. QED
    BY <1>2, <1>4, <2>1, SourceStays
<1>11. ~r.failed /\ Promised(r, r.p) /\ AfterAvailable(r.m) # "save" =>
         r.m.fp = disk[r.p] /\ item[r.i].fp = disk[r.p]
  BY <1>1, <1>2 DEF Facts, Sure
<1>6. CASE NextFile(s, FALSE) /\ AfterAvailable(r.m) = "return"
  BY <1>1, <1>2, <1>5, <1>6, <1>10, <1>11, FoundScanned
<1>7. ASSUME NEW pc \in {"save", "find"}, Goto(s, pc), pc = AfterAvailable(r.m)
      PROVE  Scanned(s)'
  <2>1. PICK next : next = [r EXCEPT !.pc = pc]
    BY Zenon
  <2>2. /\ next.pc = pc /\ next.m = r.m /\ next.p = r.p /\ next.i = r.i /\ next.todo = r.todo
        /\ next.seen = r.seen /\ next.failed = r.failed /\ next.unnoticed = r.unnoticed
    BY <2>1 DEF Process
  <2>3. Becomes(s, next)
    BY <1>1, <1>7, <2>1 DEF Goto
  <2>4. Holds(next)' /\ next.pc \in Working
    BY <1>2, <1>3, <1>5, <1>7, <2>2 DEF Holds, Working
  <2>5. Sure(next)'
    BY <1>2, <1>5, <1>7, <1>11, <2>2 DEF Sure, Promised
  <2>6. Ahead(next) = r.todo /\ r.todo \subseteq Ahead(r)
    BY <1>7, <2>2 DEF Ahead
  <2>7. QED
    BY <1>1, <1>2, <1>5, <1>10, <2>2, <2>3, <2>4, <2>5, <2>6, SameFileScanned
<1>8. \/ NextFile(s, FALSE) /\ AfterAvailable(r.m) = "return"
      \/ \E pc \in {"save", "find"} : Goto(s, pc) /\ pc = AfterAvailable(r.m)
  BY <1>1 DEF SourceIsBack, AfterAvailable
<1>9. QED
  BY <1>6, <1>7, <1>8

LEMMA SaveFingerprintScanned ==
  ASSUME ScanInv, NEW s \in Walkers, Facts(proc[s]), SaveFingerprint(s)
  PROVE  Scanned(s)'
<1>1. PICK r \in Process : r = proc[s] /\ Held(r)
  BY DEF ScanInv, TypeOK, AllHeld, Procs
<1>2. /\ disk' = disk /\ r.pc = "save" /\ r.pc \in Working
      /\ r.p \in Paths /\ r.i \in Ids /\ r.m \in Row
  BY <1>1 DEF SaveFingerprint, Working, Held
<1>3. RowHere(r.i, r.p) /\ r.m.path = r.p /\ r.m.size = SizeOf[disk[r.p]] /\ r.p \notin Done(r)
  BY <1>1, <1>2 DEF Facts, Holds, Working, Done
<1>4. PICK fp \in GenerateDeterministic(r.p) :
        LET m == [r.m EXCEPT !.fp = fp]
        IN IF fp = None THEN NextFile(s, TRUE) /\ UNCHANGED item
           ELSE /\ Becomes(s, [r EXCEPT !.pc = "find", !.m = m])
                /\ IF CanUpsert(r.i, m) THEN UpsertMediaItem(r.i, m) ELSE UNCHANGED item
  BY <1>1 DEF SaveFingerprint
<1>5. CASE fp = None
  <2>1. item' = item /\ NextFile(s, TRUE)
    BY <1>4, <1>5
  <2>2. QED
    BY <1>1, <1>2, <2>1, FailedScanned
<1>6. CASE fp # None
  <2>1. fp \in Contents /\ fp = disk[r.p]
    BY <1>2, <1>6 DEF GenerateDeterministic, ScanInv, TypeOK
  <2>2. PICK old \in Row : old = r.m
    BY <1>2
  <2>3. PICK m : m = [old EXCEPT !.fp = fp]
    BY Zenon
  <2>4. m \in Row /\ m.path = r.p /\ m.size = SizeOf[disk[r.p]] /\ m.fp = fp
    BY <1>3, <2>1, <2>2, <2>3 DEF Row
  <2>5. PICK next : next = [r EXCEPT !.pc = "find", !.m = m]
    BY Zenon
  <2>6. /\ next.pc = "find" /\ next.m = m /\ next.p = r.p /\ next.i = r.i /\ next.todo = r.todo
        /\ next.seen = r.seen /\ next.failed = r.failed /\ next.unnoticed = r.unnoticed
    BY <2>5 DEF Process
  <2>7. Becomes(s, next) /\ (IF CanUpsert(r.i, m) THEN UpsertMediaItem(r.i, m) ELSE UNCHANGED item)
    BY <1>4, <1>6, <2>2, <2>3, <2>5
  <2>8. item[r.i].path = m.path /\ CanUpsert(r.i, m)
    BY <1>2, <1>3, <2>4 DEF RowHere, CanUpsert, At
  <2>9. UpsertMediaItem(r.i, m) /\ m.path \notin Done(r) /\ m.size = SizeOf[disk[m.path]]
    BY <1>3, <2>4, <2>7, <2>8
  <2>10. /\ Stays(Done(r), Done(r)) /\ \A T : m.path \notin T => NoneComes(T)
         /\ \A j \in Ids : item[j].path = m.path =>
              RowHere(j, m.path)' /\ (m.fp # None => item'[j].fp = m.fp)
    BY <1>2, <2>4, <2>8, <2>9, UpsertStays
  <2>11. RowHere(r.i, r.p)' /\ item'[r.i].fp = disk[r.p]
    BY <1>2, <1>6, <2>1, <2>4, <2>8, <2>10
  <2>12. Ahead(next) = r.todo /\ r.todo \subseteq Ahead(r)
    BY <2>6 DEF Ahead
  <2>13. NoneComes(Ahead(next))
    <3>1. m.path \notin r.todo
      BY <1>1, <1>2, <2>4 DEF Facts, Walks
    <3>2. QED
      BY <2>10, <2>12, <3>1
  <2>14. Holds(next)' /\ Sure(next)' /\ next.pc \in Working
    BY <1>2, <2>1, <2>4, <2>6, <2>11 DEF Holds, Sure, Working
  <2>15. QED
    BY <1>1, <1>2, <2>6, <2>7, <2>10, <2>12, <2>13, <2>14, SameFileScanned
<1>7. QED
  BY <1>5, <1>6

\* Between two calls with no change of a row: from one pc to the next.
LEMMA GotoScanned ==
  ASSUME ScanInv, NEW s \in Walkers, Facts(proc[s]), proc[s].pc \in Working,
         UNCHANGED <<disk, item>>, NEW pc \in {"show", "season", "ident", "upsert"}, Goto(s, pc),
         proc[s].pc \notin {"stat", "move"}, pc = "upsert" => proc[s].pc = "match"
  PROVE  Scanned(s)'
<1>1. PICK r \in Process : r = proc[s]
  BY DEF ScanInv, TypeOK, Procs
<1>2. PICK next : next = [r EXCEPT !.pc = pc]
  BY Zenon
<1>3. /\ next.pc = pc /\ next.m = r.m /\ next.p = r.p /\ next.i = r.i /\ next.todo = r.todo
      /\ next.seen = r.seen /\ next.failed = r.failed /\ next.unnoticed = r.unnoticed
  BY <1>2 DEF Process
<1>4. Becomes(s, next)
  BY <1>1, <1>2 DEF Goto
<1>5. Stays(Done(r), Done(r)) /\ \A T : NoneComes(T)
  BY RowsStay
<1>6. Holds(r)
  BY <1>1 DEF Facts
<1>7. Holds(next)' /\ next.pc \in Working
  BY <1>1, <1>3, <1>6 DEF Holds, Working, RowHere, Exists
<1>8. Sure(next)' /\ Ahead(next) \subseteq Ahead(r)
  BY <1>1, <1>3, <1>6 DEF Sure, Ahead, Holds
<1>9. QED
  BY <1>1, <1>3, <1>4, <1>5, <1>7, <1>8, SameFileScanned

LEMMA BundledScanned ==
  ASSUME ScanInv, NEW s \in Walkers, Facts(proc[s]), proc[s].pc \in {"find", "match"},
         UNCHANGED <<disk, item>>, NEW pc \in {"relink", "link"},
         pc = "relink" <=> proc[s].pc = "find", proc[s].m \in Row,
         Becomes(s, [proc[s] EXCEPT !.pc = pc, !.m = Bundled(proc[s].m)])
  PROVE  Scanned(s)'
<1>1. PICK r \in Process : r = proc[s]
  BY DEF ScanInv, TypeOK, Procs
<1>2. PICK old \in Row : old = r.m
  BY <1>1
<1>3. PICK m : m = Bundled(old)
  BY Zenon
<1>4. m.path = old.path /\ m.size = old.size /\ m.fp = old.fp
  BY <1>3 DEF Bundled, Row
<1>5. PICK next : next = [r EXCEPT !.pc = pc, !.m = m]
  BY Zenon
<1>6. /\ next.pc = pc /\ next.m = m /\ next.p = r.p /\ next.i = r.i /\ next.todo = r.todo
      /\ next.seen = r.seen /\ next.failed = r.failed /\ next.unnoticed = r.unnoticed
  BY <1>5 DEF Process
<1>7. Becomes(s, next)
  BY <1>1, <1>2, <1>3, <1>5
<1>8. Stays(Done(r), Done(r)) /\ \A T : NoneComes(T)
  BY RowsStay
<1>9. Holds(r) /\ Sure(r)
  BY <1>1 DEF Facts
<1>10. Holds(next)' /\ next.pc \in Working /\ r.pc \in Working
  BY <1>1, <1>2, <1>4, <1>6, <1>9 DEF Holds, Working, RowHere, Exists
<1>11. Sure(next)' /\ Ahead(next) \subseteq Ahead(r)
  BY <1>1, <1>2, <1>4, <1>6, <1>9 DEF Sure, Promised, Ahead, Holds
<1>12. QED
  BY <1>1, <1>6, <1>7, <1>8, <1>10, <1>11, SameFileScanned

LEMMA FindBundleScanned ==
  ASSUME ScanInv, NEW s \in Walkers, Facts(proc[s]), FindBundle(s)
  PROVE  Scanned(s)'
<1>1. PICK r \in Process : r = proc[s] /\ Held(r)
  BY DEF ScanInv, TypeOK, AllHeld, Procs
<1>2. UNCHANGED <<disk, item>> /\ r.pc = "find" /\ r.pc \in Working /\ r.m \in Row
  BY <1>1 DEF FindBundle, store, Working, Held
<1>3. RowHere(r.i, r.p)' /\ (~r.failed /\ Promised(r, r.p) => item'[r.i].fp = disk[r.p])
  BY <1>1, <1>2 DEF Facts, Holds, Sure, RowHere, Exists
<1>4. Stays(Done(r), r.seen) /\ NoneComes(r.todo)
  BY <1>2, RowsStay DEF Done
<1>5. CASE NextFile(s, FALSE)
  BY <1>1, <1>2, <1>3, <1>4, <1>5, FoundScanned
<1>6. CASE Becomes(s, [proc[s] EXCEPT !.pc = "relink", !.m = Bundled(proc[s].m)])
  BY <1>1, <1>2, <1>6, BundledScanned
<1>7. QED
  BY <1>5, <1>6 DEF FindBundle

LEMMA RelinkScanned ==
  ASSUME ScanInv, NEW s \in Walkers, Facts(proc[s]), Relink(s)
  PROVE  Scanned(s)'
<1>1. PICK r \in Process : r = proc[s] /\ Held(r)
  BY DEF ScanInv, TypeOK, AllHeld, Procs
<1>2. disk' = disk /\ r.pc = "relink" /\ r.pc \in Working /\ r.m \in Row /\ r.i \in Ids
  BY <1>1 DEF Relink, Working, Held
<1>3. /\ RowHere(r.i, r.p) /\ r.m.path = r.p /\ r.m.size = SizeOf[disk[r.p]] /\ r.p \notin Done(r)
      /\ Done(r) \subseteq r.seen
  BY <1>1, <1>2 DEF Facts, Holds, Working, Done
<1>4. /\ IF CanUpsert(r.i, r.m) THEN UpsertMediaItem(r.i, r.m) ELSE UNCHANGED item
      /\ NextFile(s, FALSE)
  BY <1>1 DEF Relink
<1>5. item[r.i].path = r.m.path /\ CanUpsert(r.i, r.m)
  BY <1>2, <1>3 DEF RowHere, CanUpsert, At
<1>6. /\ Stays(Done(r), r.seen) /\ \A T : r.m.path \notin T => NoneComes(T)
      /\ \A j \in Ids : item[j].path = r.m.path =>
           RowHere(j, r.m.path)' /\ (r.m.fp # None => item'[j].fp = r.m.fp)
  BY <1>2, <1>3, <1>4, <1>5, UpsertStays
<1>7. r.m.path \notin r.todo /\ disk[r.p] # None
  BY <1>1, <1>2, <1>3 DEF Facts, Walks
<1>8. ~r.failed /\ Promised(r, r.p) => r.m.fp = disk[r.p]
  BY <1>1, <1>2 DEF Facts, Sure
<1>9. RowHere(r.i, r.p)' /\ (~r.failed /\ Promised(r, r.p) => item'[r.i].fp = disk[r.p])
  BY <1>2, <1>3, <1>5, <1>6, <1>7, <1>8
<1>10. QED
  BY <1>1, <1>2, <1>4, <1>6, <1>7, <1>9, FoundScanned

LEMMA ParseTVEpisodeScanned ==
  ASSUME ScanInv, NEW s \in Walkers, Facts(proc[s]), ParseTVEpisode(s)
  PROVE  Scanned(s)'
<1>1. PICK r \in Process : r = proc[s] /\ Held(r)
  BY DEF ScanInv, TypeOK, AllHeld, Procs
<1>2. UNCHANGED <<disk, item>> /\ r.pc = "episode" /\ r.pc \in Working /\ r.p \in Paths
  BY <1>1 DEF ParseTVEpisode, store, Working, Held
<1>3. r.m.size = SizeOf[disk[r.p]]
  BY <1>1, <1>2 DEF Facts, Holds
<1>4. ASSUME NEW i \in Ids, item[i].path = r.p, item[i].size = r.m.size, KnownFile(s, i)
      PROVE  Scanned(s)'
  <2>1. RowHere(i, r.p)
    BY <1>2, <1>3, <1>4, RowsAreRows DEF RowHere, Exists, ScanInv
  <2>2. QED
    BY <1>1, <1>2, <1>4, <2>1, KnownFileScanned
<1>5. ASSUME r.p \in Unparsed, NextFile(s, FALSE), Episodes
      PROVE  Scanned(s)'
  <2>1. ~Promised(r, r.p)
    BY <1>5 DEF Promised
  <2>2. Stays(Done(r), r.seen) /\ NoneComes(r.todo)
    BY <1>2, RowsStay DEF Done
  <2>3. QED
    BY <1>1, <1>2, <1>5, <2>1, <2>2, NextFileScanned
<1>6. CASE Goto(s, "show")
  BY <1>1, <1>2, <1>6, GotoScanned
<1>7. Episodes
  BY <1>1, <1>2 DEF Facts, Holds
<1>8. \/ \E i \in Ids : item[i].path = r.p /\ item[i].size = r.m.size /\ KnownFile(s, i)
      \/ r.p \in Unparsed /\ NextFile(s, FALSE)
      \/ Goto(s, "show")
  BY <1>1 DEF ParseTVEpisode, SameSize, At
<1>9. QED
  BY <1>4, <1>5, <1>6, <1>7, <1>8

LEMMA UpsertTVEpisodeFileScanned ==
  ASSUME ScanInv, NEW s \in Walkers, Facts(proc[s]), UpsertTVEpisodeFile(s)
  PROVE  Scanned(s)'
<1>1. UNCHANGED <<disk, item>> /\ proc[s].pc \in {"show", "season"} /\ proc[s].pc \in Working
  BY DEF UpsertTVEpisodeFile, Working
<1>2. NextFile(s, TRUE) \/ Goto(s, "season") \/ Goto(s, "ident")
  BY DEF UpsertTVEpisodeFile
<1>3. QED
  BY <1>1, <1>2, FailedScanned, GotoScanned

LEMMA IdentifyScanned ==
  ASSUME ScanInv, NEW s \in Walkers, Facts(proc[s]), Identify(s)
  PROVE  Scanned(s)'
<1>1. PICK r \in Process : r = proc[s] /\ Held(r)
  BY DEF ScanInv, TypeOK, AllHeld, Procs
<1>2. /\ UNCHANGED <<disk, item>> /\ r.pc = "ident" /\ r.pc \in Working
      /\ r.p \in Paths /\ r.m \in Row
  BY <1>1 DEF Identify, store, Working, Held
<1>3. PICK i \in Ids \cup {None}, fp \in GenerateDeterministic(r.p) :
        Becomes(s, [r EXCEPT !.pc = IF fp = None THEN "upsert" ELSE "match",
                             !.failed = (s # Watcher) /\ (@ \/ fp = None),
                             !.i = i, !.m.fp = fp])
  BY <1>1 DEF Identify, At
<1>4. fp \in Contents \cup {None} /\ (fp # None => fp = disk[r.p])
  BY <1>2 DEF GenerateDeterministic, ScanInv, TypeOK
<1>5. PICK old \in Row : old = r.m
  BY <1>2
<1>6. PICK m : m = [old EXCEPT !.fp = fp]
  BY Zenon
<1>7. m.path = old.path /\ m.size = old.size /\ m.fp = fp
  BY <1>4, <1>6 DEF Row
<1>8. PICK pc \in {"upsert", "match"} : pc = IF fp = None THEN "upsert" ELSE "match"
  OBVIOUS
<1>9. PICK f : f = ((s # Watcher) /\ (r.failed \/ fp = None))
  BY Zenon
<1>16. f = (r.failed \/ fp = None)
  BY <1>9, ScanAssumption DEF Process
<1>17. PICK next : next = [r EXCEPT !.pc = pc, !.failed = f, !.i = i, !.m = m]
  BY Zenon
<1>10. /\ next.pc = pc /\ next.m = m /\ next.p = r.p /\ next.todo = r.todo
       /\ next.seen = r.seen /\ next.failed = f /\ next.unnoticed = r.unnoticed
  BY <1>17 DEF Process
<1>11. Becomes(s, next)
  <2>1. next = [r EXCEPT !.pc = pc, !.failed = (s # Watcher) /\ (@ \/ fp = None), !.i = i,
                         !.m.fp = fp]
    BY <1>5, <1>6, <1>9, <1>17 DEF Process
  <2>2. QED
    BY <1>3, <1>8, <2>1
<1>12. Stays(Done(r), Done(r)) /\ \A T : NoneComes(T)
  BY <1>2, RowsStay
<1>13. r.m.path = r.p /\ r.m.size = SizeOf[disk[r.p]]
  BY <1>1, <1>2 DEF Facts, Holds, Working
<1>14. Holds(next)' /\ next.pc \in Working
  BY <1>2, <1>4, <1>5, <1>7, <1>8, <1>10, <1>13, Zenon DEF Holds, Working
<1>15. Sure(next)' /\ Ahead(next) \subseteq Ahead(r) /\ (r.failed => next.failed)
  BY <1>8, <1>10, <1>16 DEF Sure, Ahead
<1>18. QED
  BY <1>1, <1>2, <1>10, <1>11, <1>12, <1>14, <1>15, SameFileScanned

LEMMA MatchScanned ==
  ASSUME ScanInv, NEW s \in Walkers, Facts(proc[s]), Match(s)
  PROVE  Scanned(s)'
<1>1. PICK r \in Process : r = proc[s] /\ Held(r)
  BY DEF ScanInv, TypeOK, AllHeld, Procs
<1>2. UNCHANGED <<disk, item>> /\ r.pc = "match" /\ r.pc \in Working /\ r.m \in Row
  BY <1>1 DEF Match, store, Working, Held
<1>3. r.m.fp = disk[r.p]
  BY <1>1, <1>2 DEF Facts, Holds
<1>4. ASSUME NEW j \in Ids, Exists(j), item[j].fp = r.m.fp,
             Becomes(s, [r EXCEPT !.pc = "move", !.i = j])
      PROVE  Scanned(s)'
  <2>1. PICK next : next = [r EXCEPT !.pc = "move", !.i = j]
    BY Zenon
  <2>2. /\ next.pc = "move" /\ next.p = r.p /\ next.i = j /\ next.todo = r.todo
        /\ next.seen = r.seen /\ next.failed = r.failed /\ next.unnoticed = r.unnoticed
    BY <2>1 DEF Process
  <2>3. Becomes(s, next)
    BY <1>4, <2>1
  <2>4. Stays(Done(r), Done(r)) /\ \A T : NoneComes(T)
    BY <1>2, RowsStay
  <2>5. Holds(next)' /\ next.pc \in Working
    BY <1>2, <1>3, <1>4, <2>2, SMTT(60) DEF Holds, Working, Exists
  <2>6. Sure(next)' /\ Ahead(next) \subseteq Ahead(r)
    BY <2>2 DEF Sure, Ahead
  <2>7. QED
    BY <1>1, <1>2, <2>2, <2>3, <2>4, <2>5, <2>6, SameFileScanned
<1>5. \/ \E j \in Ids : /\ Exists(j) /\ item[j].fp = r.m.fp
                        /\ Becomes(s, [r EXCEPT !.pc = "move", !.i = j])
      \/ Becomes(s, [proc[s] EXCEPT !.pc = "link", !.m = Bundled(proc[s].m)])
      \/ Goto(s, "upsert")
  BY <1>1 DEF Match
<1>6. QED
  BY <1>1, <1>2, <1>4, <1>5, BundledScanned, GotoScanned

\* The row that had the content moves here with it.
LEMMA MoveRowScanned ==
  ASSUME ScanInv, NEW s \in Walkers, Facts(proc[s]), MoveRow(s)
  PROVE  Scanned(s)'
<1>1. PICK r \in Process : r = proc[s] /\ Held(r)
  BY DEF ScanInv, TypeOK, AllHeld, Procs
<1>2. disk' = disk /\ r.pc = "move" /\ r.pc \in Working /\ r.p \in Paths /\ r.i \in Ids
  BY <1>1 DEF MoveRow, Working, Held
<1>3. /\ Exists(r.i) /\ item[r.i].fp = disk[r.p] /\ r.p \in r.seen /\ Done(r) \subseteq r.seen
  BY <1>1, <1>2 DEF Facts, Holds, Walks, Done
<1>4. CASE CanMove(r.i, r.p)
  <2>1. UpdateMediaItemFilePath(r.i, r.p) /\ NextFile(s, FALSE)
    BY <1>1, <1>4 DEF MoveRow
  <2>2. PICK old \in Row : old = item[r.i]
    BY <1>2, <1>3, RowsAreRows DEF ScanInv, Exists
  <2>3. PICK row : row = [[old EXCEPT !.path = r.p] EXCEPT !.src = "available"]
    BY Zenon
  <2>4. row \in Row /\ row.path = r.p /\ row.size = old.size /\ row.fp = old.fp
    BY <1>2, <2>3 DEF Row
  <2>5. item \in [Ids -> Row \cup {NoRow}]
    BY DEF ScanInv, TypeOK
  <2>6. item' = [item EXCEPT ![r.i] = row]
    BY <1>2, <1>3, <2>1, <2>2, <2>3, <2>5 DEF UpdateMediaItemFilePath
  <2>7. item'[r.i] = row /\ \A j \in Ids : j # r.i => item'[j] = item[j]
    BY <1>2, <2>5, <2>6
  <2>8. Stays(Done(r), r.seen)
    BY <1>3, <2>2, <2>4, <2>7, RowNotNoRow DEF Stays, Exists
  <2>9. Settled(r.p, r.seen)'
    BY <1>2, <1>3, <2>2, <2>4, <2>7, RowNotNoRow DEF Settled, Exists
  <2>10. NoneComes(r.todo)
    <3>1. r.p \notin r.todo
      BY <1>1, <1>3 DEF Facts, Walks
    <3>2. QED
      BY <2>4, <2>7, <3>1 DEF NoneComes
  <2>11. QED
    BY <1>1, <1>2, <2>1, <2>8, <2>9, <2>10, NextFileScanned
<1>5. CASE ~CanMove(r.i, r.p)
  BY <1>1, <1>2, <1>5, FailedScanned DEF MoveRow
<1>6. QED
  BY <1>4, <1>5

LEMMA WriteRowScanned ==
  ASSUME ScanInv, NEW s \in Walkers, Facts(proc[s]), WriteRow(s)
  PROVE  Scanned(s)'
<1>1. PICK r \in Process : r = proc[s] /\ Held(r)
  BY DEF ScanInv, TypeOK, AllHeld, Procs
<1>2. /\ disk' = disk /\ r.pc \in {"link", "upsert"} /\ r.pc \in Working
      /\ r.m \in Row /\ r.i \in Ids \cup {None}
  BY <1>1 DEF WriteRow, Working, Held, Process
<1>3. /\ r.m.path = r.p /\ r.m.size = SizeOf[disk[r.p]] /\ r.p \notin Done(r)
      /\ Done(r) \subseteq r.seen
  BY <1>1, <1>2 DEF Facts, Holds, Working, Done
<1>4. PICK i \in Ids :
        IF CanUpsert(i, r.m)
          THEN /\ UpsertMediaItem(i, r.m)
               /\ IF r.pc = "link" THEN Becomes(s, [r EXCEPT !.pc = "upsert", !.i = i])
                                   ELSE NextFile(s, FALSE)
          ELSE NextFile(s, TRUE) /\ UNCHANGED item
  <2>1. (IF r.i = None THEN FreshIds ELSE {r.i}) \subseteq Ids
    BY <1>2 DEF FreshIds
  <2>2. QED
    BY <1>1, <2>1 DEF WriteRow
<1>5. CASE ~CanUpsert(i, r.m)
  BY <1>1, <1>2, <1>4, <1>5, FailedScanned
<1>6. CASE CanUpsert(i, r.m)
  <2>1. /\ Stays(Done(r), r.seen) /\ \A T : r.m.path \notin T => NoneComes(T)
        /\ \E j \in Ids : RowHere(j, r.m.path)' /\ (r.m.fp # None => item'[j].fp = r.m.fp)
    BY <1>2, <1>3, <1>4, <1>6, UpsertStays
  <2>2. Stays(Done(r), Done(r))
    BY <1>2, <1>3, <1>4, <1>6, UpsertStays
  <2>3. NoneComes(r.todo) /\ disk[r.p] # None
    BY <1>1, <1>2, <1>3, <2>1 DEF Facts, Walks
  <2>4. ~r.failed /\ Promised(r, r.p) => r.m.fp = disk[r.p]
    BY <1>1, <1>2 DEF Facts, Sure
  <2>5. CASE r.pc = "upsert"
    <3>1. NextFile(s, FALSE)
      BY <1>4, <1>6, <2>5
    <3>2. PICK j \in Ids : RowHere(j, r.p)' /\ (r.m.fp # None => item'[j].fp = r.m.fp)
      BY <1>3, <2>1
    <3>3. ~r.failed /\ Promised(r, r.p) => item'[j].fp = disk[r.p]
      BY <2>3, <2>4, <3>2
    <3>4. QED
      BY <1>1, <1>2, <2>1, <2>3, <3>1, <3>2, <3>3, FoundScanned
  <2>6. CASE r.pc = "link"
    <3>1. PICK next : next = [r EXCEPT !.pc = "upsert", !.i = i]
      BY Zenon
    <3>2. /\ next.pc = "upsert" /\ next.m = r.m /\ next.p = r.p /\ next.todo = r.todo
          /\ next.seen = r.seen /\ next.failed = r.failed /\ next.unnoticed = r.unnoticed
      BY <3>1 DEF Process
    <3>3. Becomes(s, next)
      BY <1>4, <1>6, <2>6, <3>1
    <3>4. Holds(next)' /\ next.pc \in Working
      BY <1>2, <1>3, <3>2 DEF Holds, Working
    <3>5. Sure(next)' /\ Ahead(next) = r.todo /\ r.todo \subseteq Ahead(r)
      BY <1>2, <2>4, <3>2 DEF Sure, Promised, Ahead
    <3>6. QED
      BY <1>1, <1>2, <2>2, <2>3, <3>2, <3>3, <3>4, <3>5, SameFileScanned
  <2>7. QED
    BY <1>2, <2>5, <2>6
<1>7. QED
  BY <1>5, <1>6

LEMMA StatementFailsScanned ==
  ASSUME ScanInv, NEW s \in Walkers, Facts(proc[s]), proc[s].pc \in Scanning, StatementFails(s)
  PROVE  Scanned(s)'
<1>1. PICK r \in Process : r = proc[s]
  BY DEF ScanInv, TypeOK, Procs
<1>2. UNCHANGED <<disk, item>> /\ r.pc \in Working
  BY <1>1 DEF StatementFails, store, Scanning, Working, Facts, Holds
<1>3. ASSUME NEW pc \in {"save", "find"}, r.pc = "avail",
             Becomes(s, [r EXCEPT !.pc = pc, !.failed = s # Watcher])
      PROVE  Scanned(s)'
  <2>1. PICK f : f = (s # Watcher)
    BY Zenon
  <2>2. f
    BY <2>1, ScanAssumption, Zenon
  <2>3. PICK next : next = [r EXCEPT !.pc = pc, !.failed = f]
    BY Zenon
  <2>4. /\ next.pc = pc /\ next.m = r.m /\ next.p = r.p /\ next.i = r.i
        /\ next.todo = r.todo /\ next.seen = r.seen /\ next.failed = f
        /\ next.unnoticed = r.unnoticed
    BY <2>3 DEF Process
  <2>5. Becomes(s, next)
    BY <1>3, <2>1, <2>3
  <2>6. Stays(Done(r), Done(r)) /\ \A T : NoneComes(T)
    BY <1>2, RowsStay
  <2>7. Holds(next)' /\ next.pc \in Working
    BY <1>1, <1>2, <1>3, <2>4 DEF Facts, Holds, Working, RowHere, Exists
  <2>8. Sure(next)' /\ Ahead(next) \subseteq Ahead(r)
    BY <2>2, <2>4 DEF Sure, Ahead
  <2>9. QED
    BY <1>1, <1>2, <2>2, <2>4, <2>5, <2>6, <2>7, <2>8, SameFileScanned
<1>4. \/ NextFile(s, TRUE)
      \/ \E pc \in {"save", "find"} :
           r.pc = "avail" /\ Becomes(s, [r EXCEPT !.pc = pc, !.failed = s # Watcher])
  BY <1>1, ZenonT(60) DEF StatementFails, AfterAvailable
<1>5. QED
  BY <1>1, <1>2, <1>3, <1>4, FailedScanned

LEMMA ScanBeginsScanned ==
  ASSUME ScanInv, NEW s \in Walkers, NEW request, ScanBegins(s, request),
         UNCHANGED <<disk, item>>
  PROVE  Scanned(s)'
<1>1. PICK entries : entries = Nested \cup {p \in Paths : disk[p] # None}
  BY Zenon
<1>2. PICK todo \in SUBSET entries :
        proc' = [proc EXCEPT ![s] = [Idle EXCEPT !.pc = "walk", !.request = request,
                   !.todo = todo, !.failed = todo # entries,
                   !.unnoticed = {p \in Paths : Unnoticed(p)}]]
  BY <1>1 DEF ScanBegins
<1>3. PICK f : f = (todo # entries)
  BY Zenon
<1>4. PICK same : same = {p \in Paths : Unnoticed(p)}
  BY Zenon
<1>5. PICK next : next = [Idle EXCEPT !.pc = "walk", !.request = request, !.todo = todo,
                                      !.failed = f, !.unnoticed = same]
  BY Zenon
<1>6. /\ next.pc = "walk" /\ next.todo = todo /\ next.seen = {} /\ next.failed = f
      /\ next.unnoticed = same
  BY <1>5 DEF Idle
<1>7. proc'[s] = next
  BY <1>2, <1>3, <1>4, <1>5 DEF ScanInv, TypeOK, Procs
<1>8. Done(next) = {} /\ Ahead(next) = todo
  BY <1>6 DEF Done, Ahead, Working
<1>9. \A q \in todo : Unnoticed(q)' => q \in same
  <2>1. todo \subseteq Paths
    BY <1>1, <1>2, ScanAssumption
  <2>2. \A q : Unnoticed(q)' => Unnoticed(q)
    BY DEF Unnoticed, SameSize, At
  <2>3. QED
    BY <1>4, <2>1, <2>2
<1>10. Walks(next)'
  BY <1>1, <1>2, <1>6, <1>8, <1>9 DEF Walks, Working
<1>11. Owes(next)'
  BY <1>1, <1>3, <1>6, <1>8 DEF Owes
<1>12. Holds(next)' /\ Sure(next)' /\ Pruned(next)'
  BY <1>6 DEF Holds, Sure, Pruned, Working
<1>13. QED
  BY <1>7, <1>10, <1>11, <1>12, ScannedBy DEF Facts

LEMMA VisitScanned ==
  ASSUME ScanInv, NEW s \in Walkers, Facts(proc[s]), NEW p \in Paths, Visit(s, p)
  PROVE  Scanned(s)'
<1>1. PICK r \in Process : r = proc[s]
  BY DEF ScanInv, TypeOK, Procs
<1>2. UNCHANGED <<disk, item>> /\ r.pc = "walk" /\ r.pc \notin Working /\ p \in r.todo
  BY <1>1 DEF Visit, store, Working
<1>3. Walks(r) /\ Owes(r) /\ Done(r) = r.seen /\ Ahead(r) = r.todo
  BY <1>1, <1>2 DEF Facts, Done, Ahead
<1>4. proc \in [Procs -> Process] /\ s \in Procs
  BY DEF ScanInv, TypeOK, Procs
<1>5. ASSUME ~r.failed, NEW q \in r.seen, Promised(r, q)
      PROVE  Settled(q, r.seen)'
  BY <1>2, <1>3, <1>5, RowsStay, SettledStays DEF Owes
<1>6. \A q \in r.todo : Unnoticed(q)' => q \in r.unnoticed
  <2>1. \A q : Unnoticed(q)' => Unnoticed(q)
    BY <1>2 DEF Unnoticed, SameSize, At
  <2>2. QED
    BY <1>3, <2>1 DEF Walks
<1>7. ASSUME p \notin Nested \/ disk[p] # None,
             Becomes(s, [r EXCEPT !.todo = @ \ {p}, !.seen = @ \cup {p}, !.pc = "stat", !.p = p])
      PROVE  Scanned(s)'
  <2>1. PICK next : next = [r EXCEPT !.todo = @ \ {p}, !.seen = @ \cup {p}, !.pc = "stat", !.p = p]
    BY Zenon
  <2>2. /\ next.pc = "stat" /\ next.p = p /\ next.todo = r.todo \ {p}
        /\ next.seen = r.seen \cup {p} /\ next.failed = r.failed /\ next.unnoticed = r.unnoticed
    BY <2>1 DEF Process
  <2>3. proc'[s] = next
    BY <1>4, <1>7, <2>1 DEF Becomes
  <2>4. Done(next) = r.seen /\ Ahead(next) = r.todo
    BY <1>2, <1>3, <2>2 DEF Done, Ahead, Walks, Working
  <2>5. disk[p] # None
    BY <1>2, <1>3, <1>7 DEF Walks
  <2>6. Walks(next)'
    BY <1>2, <1>3, <1>6, <2>2, <2>4, <2>5 DEF Walks
  <2>7. Owes(next)'
    BY <1>2, <1>3, <1>5, <2>2, <2>4 DEF Owes, Promised
  <2>8. Holds(next)' /\ Sure(next)' /\ Pruned(next)'
    BY <2>2 DEF Holds, Sure, Pruned, Working
  <2>9. QED
    BY <2>3, <2>6, <2>7, <2>8, ScannedBy DEF Facts
<1>8. ASSUME p \in Nested,
             Becomes(s, [r EXCEPT !.todo = @ \ {p}, !.failed = @ \/ disk[p] # None])
      PROVE  Scanned(s)'
  <2>1. PICK f : f = (r.failed \/ disk[p] # None)
    BY Zenon
  <2>2. PICK next : next = [r EXCEPT !.todo = @ \ {p}, !.failed = f]
    BY Zenon
  <2>3. /\ next.pc = "walk" /\ next.todo = r.todo \ {p} /\ next.seen = r.seen
        /\ next.failed = f /\ next.unnoticed = r.unnoticed
    BY <1>2, <2>2 DEF Process
  <2>4. proc'[s] = next
    BY <1>4, <1>8, <2>1, <2>2 DEF Becomes
  <2>5. Done(next) = r.seen /\ Ahead(next) = r.todo \ {p}
    BY <2>3 DEF Done, Ahead, Working
  <2>6. Walks(next)'
    BY <1>2, <1>3, <1>6, <2>3, <2>5 DEF Walks, Working
  <2>7. Owes(next)'
    BY <1>2, <1>3, <1>5, <2>1, <2>3, <2>5 DEF Owes, Promised
  <2>8. Holds(next)' /\ Sure(next)' /\ Pruned(next)'
    BY <2>3 DEF Holds, Sure, Pruned, Working
  <2>9. QED
    BY <2>4, <2>6, <2>7, <2>8, ScannedBy DEF Facts
<1>9. QED
  BY <1>1, <1>7, <1>8 DEF Visit

\* The rows that are not of a file: they have a bundle or go, and then their source is missing.
LEMMA PruneScanned ==
  ASSUME ScanInv, NEW s \in Walkers, Facts(proc[s]), Prune(s)
  PROVE  Scanned(s)'
<1>1. PICK r \in Process : r = proc[s]
  BY DEF ScanInv, TypeOK, Procs
<1>2. /\ disk' = disk /\ r.pc = "walk" /\ r.pc \notin Working /\ r.todo = {}
      /\ PruneDeletes(r.seen)
  BY <1>1 DEF Prune, Working
<1>3. Walks(r) /\ Owes(r) /\ Done(r) = r.seen
  BY <1>1, <1>2 DEF Facts, Done
<1>4. PICK next : next = [r EXCEPT !.pc = "mark"]
  BY Zenon
<1>5. /\ next.pc = "mark" /\ next.todo = r.todo /\ next.seen = r.seen /\ next.failed = r.failed /\ next.unnoticed = r.unnoticed
  BY <1>4 DEF Process
<1>6. proc'[s] = next
  BY <1>1, <1>4 DEF Prune, Goto, Becomes, ScanInv, TypeOK, Procs
<1>7. ASSUME NEW i \in Ids
      PROVE  /\ Exists(i) /\ item[i].path \in r.seen => item'[i] = item[i]
             /\ item'[i] # NoRow => item'[i] = item[i]
             /\ item'[i] # NoRow /\ item[i].path \notin r.seen => item[i].bundle # "none"
  BY <1>2 DEF PruneDeletes, Exists
<1>8. Stays(r.seen, r.seen)
  BY <1>7 DEF Stays, Exists
<1>9. ASSUME ~r.failed, NEW q \in r.seen, Promised(r, q)
      PROVE  Settled(q, r.seen)'
  BY <1>2, <1>3, <1>8, <1>9, SettledStays DEF Owes
<1>10. Done(next) = r.seen /\ Ahead(next) = {}
  BY <1>2, <1>3, <1>5 DEF Done, Ahead, Working
<1>11. Walks(next)' /\ Owes(next)'
  BY <1>2, <1>3, <1>5, <1>9, <1>10 DEF Walks, Owes, Promised, Working
<1>12. Pruned(next)'
  <2>1. ASSUME NEW i \in Ids, item'[i] # NoRow, item'[i].path \notin r.seen
        PROVE  item'[i].bundle = "available"
    <3>1. item'[i] = item[i] /\ item[i].bundle # "none" /\ item[i] # NoRow
      BY <1>7, <2>1
    <3>2. item[i] \in Row
      BY <3>1, RowsAreRows DEF ScanInv
    <3>3. QED
      BY <3>1, <3>2 DEF Row
  <2>2. QED
    BY <1>2, <1>5, <2>1 DEF Pruned, Exists
<1>13. Holds(next)' /\ Sure(next)'
  BY <1>5 DEF Holds, Sure, Working
<1>14. QED
  BY <1>6, <1>11, <1>12, <1>13, ScannedBy DEF Facts

LEMMA MarkScanned ==
  ASSUME ScanInv, NEW s \in Walkers, Facts(proc[s]), Mark(s)
  PROVE  Scanned(s)'
<1>1. PICK r \in Process : r = proc[s]
  BY DEF ScanInv, TypeOK, Procs
<1>2. disk' = disk /\ r.pc = "mark" /\ r.pc \notin Working /\ PruneMarks(r.seen)
  BY <1>1 DEF Mark, Working
<1>3. Walks(r) /\ Owes(r) /\ Pruned(r) /\ Done(r) = r.seen /\ r.todo = {}
  BY <1>1, <1>2 DEF Facts, Done, Pruned
<1>4. PICK next : next = [r EXCEPT !.pc = "end"]
  BY Zenon
<1>5. /\ next.pc = "end" /\ next.todo = r.todo /\ next.seen = r.seen /\ next.failed = r.failed /\ next.unnoticed = r.unnoticed
  BY <1>4 DEF Process
<1>6. proc'[s] = next
  BY <1>1, <1>4 DEF Mark, Goto, Becomes, ScanInv, TypeOK, Procs
<1>7. ASSUME NEW i \in Ids
      PROVE  /\ item[i] = NoRow => item'[i] = NoRow
             /\ item[i] # NoRow =>
                  /\ item'[i] # NoRow /\ item'[i].size = item[i].size /\ item'[i].fp = item[i].fp
                  /\ item'[i].path = item[i].path /\ item'[i].bundle = item[i].bundle
                  /\ item[i].bundle = "available" /\ item[i].path \notin r.seen =>
                       item'[i].src = "missing"
  <2>1. CASE item[i] = NoRow
    BY <1>2, <2>1 DEF PruneMarks, Exists
  <2>2. CASE item[i] # NoRow
    <3>1. PICK old \in Row : old = item[i]
      BY <2>2, RowsAreRows DEF ScanInv
    <3>2. PICK new : new = [old EXCEPT !.src = "missing"]
      BY Zenon
    <3>3. /\ new \in Row /\ new.size = old.size /\ new.fp = old.fp /\ new.path = old.path
          /\ new.bundle = old.bundle /\ new.src = "missing"
      BY <3>2 DEF Row
    <3>4. item'[i] = IF old.bundle = "available" /\ old.path \notin r.seen THEN new ELSE old
      BY <1>2, <2>2, <3>1, <3>2 DEF PruneMarks, Exists
    <3>5. QED
      BY <2>2, <3>1, <3>3, <3>4, RowNotNoRow
  <2>3. QED
    BY <2>1, <2>2
<1>8. Stays(r.seen, r.seen)
  BY <1>7 DEF Stays, Exists
<1>9. ASSUME ~r.failed, NEW q \in r.seen, Promised(r, q)
      PROVE  Settled(q, r.seen)'
  BY <1>2, <1>3, <1>8, <1>9, SettledStays DEF Owes
<1>10. Done(next) = r.seen /\ Ahead(next) = {}
  BY <1>2, <1>3, <1>5 DEF Done, Ahead, Working
<1>11. Walks(next)' /\ Owes(next)'
  BY <1>2, <1>3, <1>5, <1>9, <1>10 DEF Walks, Owes, Promised, Working
<1>12. Pruned(next)'
  BY <1>2, <1>3, <1>5, <1>7 DEF Pruned, Exists
<1>13. Holds(next)' /\ Sure(next)'
  BY <1>5 DEF Holds, Sure, Working
<1>14. QED
  BY <1>6, <1>11, <1>12, <1>13, ScannedBy DEF Facts

LEMMA PruningFailsScanned ==
  ASSUME ScanInv, NEW s \in Walkers, Facts(proc[s]), PruningFails(s)
  PROVE  Scanned(s)'
<1>1. PICK r \in Process : r = proc[s]
  BY DEF ScanInv, TypeOK, Procs
<1>2. UNCHANGED <<disk, item>> /\ r.pc \in {"walk", "mark"} /\ r.todo = {}
  BY <1>1 DEF PruningFails, store, Facts, Pruned
<1>3. PICK next : next = [r EXCEPT !.pc = "end", !.failed = TRUE]
  BY Zenon
<1>4. /\ next.pc = "end" /\ next.todo = {} /\ next.seen = r.seen /\ next.failed
      /\ next.unnoticed = r.unnoticed
  BY <1>2, <1>3 DEF Process
<1>5. proc'[s] = next
  BY <1>1, <1>3 DEF PruningFails, Becomes, ScanInv, TypeOK, Procs
<1>6. Walks(next)' /\ Owes(next)'
  BY <1>1, <1>2, <1>4 DEF Facts, Walks, Owes, Ahead, Working
<1>7. Holds(next)' /\ Sure(next)' /\ Pruned(next)'
  BY <1>4 DEF Holds, Sure, Pruned, Working
<1>8. QED
  BY <1>5, <1>6, <1>7, ScannedBy DEF Facts

\* Only the scan itself goes on without disturbing it.
Acts(t) == calm' = IF calm = t THEN t ELSE None

OwnStep(s) ==
  \/ Stat(s) \/ SourceIsBack(s) \/ SaveFingerprint(s) \/ FindBundle(s) \/ Relink(s)
  \/ ParseTVEpisode(s) \/ UpsertTVEpisodeFile(s) \/ Identify(s) \/ Match(s) \/ MoveRow(s)
  \/ WriteRow(s) \/ StatementFails(s)
  \/ \E p \in Paths : Visit(s, p)
  \/ Prune(s) \/ Mark(s) \/ PruningFails(s) \/ ScanEnds(s) \/ Cancelled(s)

LEMMA OwnStepActs ==
  ASSUME NEW t \in Procs, OwnStep(t)
  PROVE  Acts(t)
<1>1. ASSUME NEW r, Becomes(t, r)
      PROVE  Acts(t)
  BY <1>1 DEF Becomes, Acts
<1>2. ASSUME NEW failed, NextFile(t, failed)
      PROVE  Acts(t)
  BY <1>1, <1>2 DEF NextFile
<1>3. ASSUME NEW pc, Goto(t, pc)
      PROVE  Acts(t)
  BY <1>1, <1>3 DEF Goto
<1>18. ASSUME NEW i, KnownFile(t, i)
      PROVE  Acts(t)
  BY <1>1, <1>2, <1>18 DEF KnownFile
<1>4. CASE Stat(t) \/ ParseTVEpisode(t)
  BY <1>1, <1>2, <1>3, <1>4, <1>18 DEF Stat, ParseTVEpisode
<1>5. CASE SourceIsBack(t)
  BY <1>2, <1>3, <1>5 DEF SourceIsBack
<1>6. CASE SaveFingerprint(t)
  BY <1>1, <1>2, <1>6 DEF SaveFingerprint
<1>7. CASE FindBundle(t)
  BY <1>1, <1>2, <1>7 DEF FindBundle
<1>8. CASE Relink(t)
  BY <1>2, <1>8 DEF Relink
<1>9. CASE UpsertTVEpisodeFile(t)
  BY <1>2, <1>3, <1>9 DEF UpsertTVEpisodeFile
<1>10. CASE Identify(t)
  BY <1>1, <1>10 DEF Identify
<1>11. CASE Match(t)
  BY <1>1, <1>3, <1>11 DEF Match
<1>12. CASE MoveRow(t)
  BY <1>2, <1>12 DEF MoveRow
<1>13. CASE WriteRow(t)
  BY <1>1, <1>2, <1>13 DEF WriteRow
<1>14. CASE \E p \in Paths : Visit(t, p)
  BY <1>1, <1>14 DEF Visit
<1>15. CASE Prune(t) \/ Mark(t)
  BY <1>3, <1>15 DEF Prune, Mark
<1>16. CASE PruningFails(t) \/ ScanEnds(t) \/ Cancelled(t)
  BY <1>1, <1>16 DEF PruningFails, ScanEnds, Cancelled
<1>19. CASE StatementFails(t)
  BY <1>1, <1>2, <1>19 DEF StatementFails
<1>17. QED
  BY <1>4, <1>5, <1>6, <1>7, <1>8, <1>9, <1>10, <1>11, <1>12, <1>13, <1>14, <1>15, <1>16, <1>19
     DEF OwnStep

LEMMA CalmScan ==
  ASSUME ScanInv, [Next]_vars, NEW s \in Walkers, calm' = s
  PROVE  \/ calm = s /\ OwnStep(s)
         \/ UNCHANGED <<disk, item>> /\ \E request : ScanBegins(s, request)
         \/ calm = s /\ UNCHANGED <<disk, item, proc>>
<1>1. s # None /\ s # Watcher /\ s \in Procs
  BY ScanAssumption DEF Procs
<1>2. ASSUME NEW t \in Procs, OwnStep(t)
      PROVE  calm = s /\ OwnStep(s)
  BY <1>1, <1>2, OwnStepActs DEF Acts
<1>3. \A r : ~Becomes(Watcher, r)
  BY <1>1 DEF Becomes
<1>4. \A failed : ~NextFile(Watcher, failed)
  BY <1>3 DEF NextFile
<1>5. ~WatchBegins /\ ~HandleEvent /\ ~SourceIsGone
  <2>1. ~WatchBegins
    BY <1>3 DEF WatchBegins
  <2>2. ~HandleEvent
    <3>1. SUFFICES ASSUME HandleEvent PROVE FALSE
      OBVIOUS
    <3>2. PICK e \in Told : e = Head(events)
      BY <3>1, HeadTailProperties DEF ScanInv, HandleEvent
    <3>3. e.op \in {"create", "write"} \/ e.op = "mkdir" \/ e.op = "remove"
      BY <3>2 DEF Told, Event
    <3>4. QED
      BY <1>3, <3>1, <3>2, <3>3 DEF HandleEvent
  <2>3. ~SourceIsGone
    BY <1>4 DEF SourceIsGone
  <2>4. QED
    BY <2>1, <2>2, <2>3
<1>6. ASSUME NEW t \in Walkers, NEW request, ScanBegins(t, request)
      PROVE  t = s
  BY <1>1, <1>6 DEF ScanBegins
<1>7. ASSUME NEW t \in Walkers, AddScanner(t) \/ ScanLibrary(t)
      PROVE  UNCHANGED <<disk, item>> /\ \E request : ScanBegins(s, request)
  <2>1. PICK request : ScanBegins(t, request)
    BY <1>7 DEF AddScanner, ScanLibrary
  <2>2. t = s
    BY <1>6, <2>1
  <2>3. QED
    BY <1>7, <2>1, <2>2 DEF AddScanner, ScanLibrary, store
<1>8. ~CreateLibrary /\ ~DeleteLibrary /\ ~RemoveScanner
  BY <1>1 DEF CreateLibrary, DeleteLibrary, RemoveScanner
<1>9. /\ \A p \in Paths, c \in Contents : ~PutFile(p, c)
      /\ \A p \in Paths : ~RemoveFile(p)
      /\ \A p, q \in Paths : ~RenameFile(p, q)
  BY <1>1 DEF PutFile, RemoveFile, RenameFile, Changed
<1>10. \A i \in Ids : ~TranscodeBegins(i) /\ ~OldBundleDropped(i) /\ ~TranscodeEnds(i)
  BY <1>1 DEF TranscodeBegins, OldBundleDropped, TranscodeEnds, Transcoding
<1>11. CASE UNCHANGED vars
  BY <1>11 DEF vars
<1>12. CASE \E t \in Procs : OwnStep(t)
  BY <1>2, <1>12
<1>13. CASE \E t \in Walkers : AddScanner(t) \/ ScanLibrary(t)
  BY <1>7, <1>13
<1>14. QED
  BY <1>5, <1>8, <1>9, <1>10, <1>11, <1>12, <1>13 DEF Next, OwnStep, Procs

LEMMA ScannedStep ==
  ASSUME ScanInv, \A s \in Walkers : Scanned(s), [Next]_vars, NEW s \in Walkers
  PROVE  Scanned(s)'
<1>1. SUFFICES ASSUME calm' = s, proc'[s].pc \in Scanning
               PROVE  Scanned(s)'
  BY DEF Scanned
<1>2. CASE calm = s /\ OwnStep(s)
  <2>1. ~ScanEnds(s) /\ ~Cancelled(s)
    <3>1. ASSUME Becomes(s, Idle)
          PROVE  FALSE
      <4>1. proc'[s] = Idle
        BY <3>1 DEF Becomes, ScanInv, TypeOK, Procs
      <4>2. QED
        BY <1>1, <4>1 DEF Idle, Scanning, Working
    <3>2. s # Watcher
      BY ScanAssumption, Zenon
    <3>3. QED
      BY <3>1, <3>2 DEF ScanEnds, Cancelled
  <2>2. proc[s].pc \in Scanning
    BY <1>2, <2>1, Zenon DEF OwnStep, Scanning, Working, Stat, SourceIsBack, SaveFingerprint, FindBundle,
       Relink, ParseTVEpisode, UpsertTVEpisodeFile, Identify, Match, MoveRow, WriteRow,
       StatementFails, Visit, Prune, Mark, PruningFails
  <2>3. Facts(proc[s])
    BY <1>2, <2>2 DEF Scanned
  <2>4. QED
    BY <1>2, <2>1, <2>2, <2>3, StatScanned, SourceIsBackScanned, SaveFingerprintScanned,
       FindBundleScanned, RelinkScanned, ParseTVEpisodeScanned, UpsertTVEpisodeFileScanned,
       IdentifyScanned, MatchScanned, MoveRowScanned, WriteRowScanned, StatementFailsScanned,
       VisitScanned, PruneScanned, MarkScanned, PruningFailsScanned DEF OwnStep
<1>3. CASE UNCHANGED <<disk, item>> /\ \E request : ScanBegins(s, request)
  BY <1>3, ScanBeginsScanned
<1>4. CASE calm = s /\ UNCHANGED <<disk, item, proc>>
  <2>1. PICK r : r = proc[s]
    OBVIOUS
  <2>2. Facts(r) /\ proc'[s] = r
    BY <1>1, <1>4, <2>1 DEF Scanned
  <2>3. Facts(r)'
    BY <1>4, <2>2 DEF Facts, Walks, Owes, Holds, Sure, Pruned, Settled, Promised, Done, Ahead,
       RowHere, Exists, Unnoticed, SameSize, At, AfterAvailable
  <2>4. QED
    BY <2>2, <2>3, ScannedBy
<1>5. QED
  BY <1>1, <1>2, <1>3, <1>4, CalmScan

\* When ScanAll ends undisturbed and has met no error, the rows describe the directory, but
\* for the files that are no episodes or were replaced unnoticed: for any directory, any
\* sizes, any rows it began with, and files that moved, went missing or came back before.
THEOREM ScanningConverges == Spec => []ScanConverges
<1>1. Init => \A s \in Walkers : Scanned(s)
  BY ScanAssumption DEF Init, Scanned
<1>2. ScanInv /\ (\A s \in Walkers : Scanned(s)) /\ [Next]_vars => (\A s \in Walkers : Scanned(s))'
  BY ScannedStep
<1>3. ScanInv /\ (\A s \in Walkers : Scanned(s)) => ScanConverges
  <2>1. SUFFICES ASSUME ScanInv, NEW s \in Walkers, Scanned(s), CleanEnd(s)
                 PROVE  /\ \A p \in Paths : Indexable(s, p) =>
                             \E i \in Ids : /\ Exists(i) /\ item[i].fp = disk[p]
                                            /\ disk[item[i].path] = disk[p]
                        /\ \A i \in Ids : Exists(i) /\ disk[item[i].path] = None =>
                             item[i].bundle = "available" /\ item[i].src = "missing"
    BY DEF ScanConverges
  <2>2. PICK r : r = proc[s]
    OBVIOUS
  <2>3. /\ r.pc = "end" /\ ~r.failed /\ Walks(r) /\ Owes(r) /\ Pruned(r) /\ r.todo = {}
        /\ Done(r) = r.seen
    BY <2>1, <2>2 DEF CleanEnd, Scanned, Scanning, Facts, Pruned, Done, Working
  <2>4. \A p \in Paths : disk[p] # None => p \in r.seen
    BY <2>3 DEF Owes
  <2>5. \A p \in r.seen : disk[p] # None /\ (Promised(r, p) => Settled(p, r.seen))
    BY <2>3 DEF Walks, Owes
  <2>6. \A i \in Ids : Exists(i) /\ item[i].path \notin r.seen =>
          item[i].bundle = "available" /\ item[i].src = "missing"
    BY <2>3 DEF Pruned
  <2>7. \A p \in Paths : Indexable(s, p) => Promised(r, p) /\ disk[p] # None
    BY <2>2 DEF Indexable, Promised
  <2>8. QED
    BY <2>4, <2>5, <2>6, <2>7 DEF Settled
<1>4. QED
  BY <1>1, <1>2, <1>3, ScanInvAlways, PTL DEF Spec
=============================================================================
