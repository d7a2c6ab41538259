--------------------------- MODULE ArtifactsProofs ---------------------------
(***************************************************************************)
(* Theorems about Artifacts, for any areas, directories, files, libraries  *)
(* and runs, and any number of changes by others.                          *)
(***************************************************************************)
EXTENDS Artifacts, TLAPS

-----------------------------------------------------------------------------
(* A run                                                                    *)

AtPlace == {"register", "match", "attach", "link"}
Stages == AtPlace \cup {"walk", "mark", "indexed"}
Pcs == Stages \cup {"off", "next", "relink", "relinked"}

Or(S) == S \cup {None}
Queues == SUBSET [area : Areas, root : Roots]
Marks == SUBSET [file : Files, health : Health]
Lists == SUBSET [art : Artifacts, fp : Fps]

Run == [pc : Pcs, queue : Queues, area : Or(Areas), root : Or(Roots), todo : SUBSET Places,
        seen : SUBSET Files, place : Or(Places), card : Or(Card), known : Or(Record),
        row : Or(Files), lost : BOOLEAN, marks : Marks, arts : Lists, enabled : SUBSET Areas,
        calm : BOOLEAN]

RunsTyped == run \in [Runs -> Run]

\* One that walks has an area, and a bundle where it has stopped.
Aimed(r) ==
  /\ run[r].pc \in Stages => run[r].area \in Areas /\ run[r].root \in Roots
  /\ run[r].pc \in AtPlace => run[r].place \in Places /\ run[r].card \in Card
  /\ run[r].pc \in {"attach", "link"} => run[r].row \in Files

RunsOK == RunsTyped /\ \A r \in Runs : Aimed(r)

LEMMA IdleIsRun == Idle \in Run
  BY DEF Idle, Run, Pcs, Stages, AtPlace, Or, Queues, Marks, Lists

\* The stages, and what fits a field that may be NULL.
LEMMA Stops ==
  /\ {"next", "walk", "register", "match", "attach", "link", "mark", "relink"} \subseteq Pcs
  /\ \A S : None \in Or(S) /\ S \subseteq Or(S)
  BY DEF Pcs, Stages, AtPlace, Or

Art(r) == <<run[r].area, run[r].card.src>>

Others(r) == \A s \in Runs \ {r} : run'[s] = run[s]
SameArea(r) == /\ run'[r].queue = run[r].queue /\ run'[r].area = run[r].area
               /\ run'[r].root = run[r].root /\ run'[r].calm = run[r].calm
SamePlace(r) == /\ run'[r].todo = run[r].todo /\ run'[r].place = run[r].place
                /\ run'[r].card = run[r].card
SameFound(r) == run'[r].known = run[r].known /\ run'[r].row = run[r].row
SameMarks(r) == run'[r].marks = run[r].marks
SameSeen(r) == run'[r].seen = run[r].seen
SameRelink(r) == run'[r].arts = run[r].arts /\ run'[r].enabled = run[r].enabled

LEMMA RunIs ==
  ASSUME RunsTyped, NEW r \in Runs, NEW y \in Run, Becomes(r, y)
  PROVE  RunsTyped' /\ run'[r] = y /\ Others(r)
  BY DEF RunsTyped, Others, Becomes

LEMMA RunWalksOn ==
  ASSUME RunsTyped, NEW r \in Runs, WalksOn(r)
  PROVE  /\ RunsTyped' /\ Others(r)
         /\ run'[r].pc = "walk" /\ run'[r].todo = run[r].todo
         /\ SameArea(r) /\ SameSeen(r) /\ SameMarks(r) /\ SameRelink(r)
<1>1. PICK z \in Run : z = run[r]
  BY DEF RunsTyped
<1>2. PICK y : y = [z EXCEPT !.pc = "walk", !.place = None, !.card = None,
                        !.known = None, !.row = None, !.lost = FALSE]
  BY Zenon
<1>3. y \in Run
  BY <1>2, Stops DEF Run
<1>4. Becomes(r, y)
  BY <1>1, <1>2 DEF WalksOn, Walking
<1>5. RunsTyped' /\ run'[r] = y /\ Others(r)
  BY <1>3, <1>4, RunIs
<1>6. /\ y.pc = "walk" /\ y.known = None /\ y.todo = z.todo /\ y.queue = z.queue
      /\ y.area = z.area /\ y.root = z.root /\ y.calm = z.calm /\ y.seen = z.seen
      /\ y.marks = z.marks /\ y.arts = z.arts /\ y.enabled = z.enabled
  BY <1>2 DEF Run
<1>7. QED
  BY <1>1, <1>5, <1>6 DEF SameArea, SameSeen, SameMarks, SameRelink

LEMMA RunVisits ==
  ASSUME RunsTyped, NEW r \in Runs, Visit(r), disk \in [Places -> Card \cup {None, Broken}],
         rec \in [Artifacts -> Record \cup {None}], run[r].area \in Areas
  PROVE  /\ RunsTyped' /\ Others(r)
         /\ SameArea(r) /\ SameSeen(r) /\ SameMarks(r) /\ SameRelink(r)
         /\ \E p \in run[r].todo :
              /\ run'[r].todo = run[r].todo \ {p}
              /\ IF ~Readable(p) THEN run'[r].pc = "walk"
                 ELSE /\ run'[r].pc = "register" /\ run'[r].place = p
                      /\ run'[r].card = disk[p] /\ disk[p] \in Card
<1>1. PICK z \in Run : z = run[r]
  BY DEF RunsTyped
<1>2. z.pc = "walk"
  BY <1>1 DEF Visit
<1>3. PICK p \in z.todo :
        IF ~Readable(p) THEN Becomes(r, [z EXCEPT !.todo = z.todo \ {p}])
        ELSE Becomes(r, [z EXCEPT !.todo = z.todo \ {p}, !.pc = "register", !.place = p,
                          !.card = disk[p], !.known = rec[z.area, disk[p].src]])
  BY <1>1 DEF Visit
<1>4. p \in Places
  BY DEF Run
<1>5. CASE ~Readable(p)
  <2>1. PICK y : y = [z EXCEPT !.todo = z.todo \ {p}]
    BY Zenon
  <2>2. y \in Run
    <3>1. z.todo \ {p} \in SUBSET Places
      BY DEF Run
    <3>2. QED
      BY <2>1, <3>1 DEF Run
  <2>3. RunsTyped' /\ run'[r] = y /\ Others(r)
    BY <1>3, <1>5, <2>1, <2>2, RunIs
  <2>4. /\ y.pc = "walk" /\ y.todo = z.todo \ {p} /\ y.queue = z.queue
        /\ y.area = z.area /\ y.root = z.root /\ y.calm = z.calm /\ y.seen = z.seen
        /\ y.marks = z.marks /\ y.arts = z.arts /\ y.enabled = z.enabled
    BY <1>2, <2>1 DEF Run
  <2>5. QED
    BY <1>1, <1>5, <2>3, <2>4 DEF SameArea, SameSeen, SameMarks, SameRelink
<1>6. CASE Readable(p)
  <2>1. disk[p] \in Card
    BY <1>4, <1>6 DEF Readable, Sidecar
  <2>2. PICK c \in Card : c = disk[p]
    BY <2>1
  <2>3. <<z.area, c.src>> \in Artifacts
    BY <1>1, <2>1 DEF Artifacts, Card
  <2>4. PICK k \in Or(Record) : k = rec[z.area, c.src]
    BY <2>3 DEF Or
  <2>5. PICK y : y = [z EXCEPT !.todo = z.todo \ {p}, !.pc = "register", !.place = p,
                         !.card = c, !.known = k]
    BY Zenon
  <2>6. y \in Run
    <3>1. z.todo \ {p} \in SUBSET Places /\ p \in Or(Places) /\ c \in Or(Card)
      BY <1>4, Stops DEF Run
    <3>2. QED
      BY <2>5, <3>1, Stops DEF Run
  <2>7. Becomes(r, y)
    BY <1>3, <1>6, <2>2, <2>4, <2>5
  <2>8. RunsTyped' /\ run'[r] = y /\ Others(r)
    BY <2>6, <2>7, RunIs
  <2>9. /\ y.pc = "register" /\ y.todo = z.todo \ {p} /\ y.queue = z.queue
        /\ y.area = z.area /\ y.root = z.root /\ y.calm = z.calm /\ y.seen = z.seen
        /\ y.marks = z.marks /\ y.arts = z.arts /\ y.enabled = z.enabled
        /\ y.place = p /\ y.card = c
    BY <2>5 DEF Run
  <2>10. QED
    BY <1>1, <1>6, <2>1, <2>2, <2>8, <2>9 DEF SameArea, SameSeen, SameMarks, SameRelink
<1>7. QED
  BY <1>5, <1>6

LEMMA RunGoes ==
  ASSUME RunsTyped, NEW r \in Runs, NEW pc \in Pcs, Goes(r, pc)
  PROVE  /\ RunsTyped' /\ Others(r)
         /\ run'[r].pc = pc
         /\ SameArea(r) /\ SamePlace(r) /\ SameFound(r) /\ SameSeen(r) /\ SameMarks(r) /\ SameRelink(r)
<1>1. PICK z \in Run : z = run[r]
  BY DEF RunsTyped
<1>2. PICK y : y = [z EXCEPT !.pc = pc]
  BY Zenon
<1>3. y \in Run
  BY <1>2 DEF Run
<1>4. RunsTyped' /\ run'[r] = y /\ Others(r)
  BY <1>1, <1>2, <1>3, RunIs DEF Goes
<1>5. /\ y.pc = pc /\ y.todo = z.todo /\ y.queue = z.queue
      /\ y.area = z.area /\ y.root = z.root /\ y.calm = z.calm /\ y.seen = z.seen
      /\ y.marks = z.marks /\ y.arts = z.arts /\ y.enabled = z.enabled
      /\ y.place = z.place /\ y.card = z.card /\ y.known = z.known /\ y.row = z.row
  BY <1>2 DEF Run
<1>6. QED
  BY <1>1, <1>4, <1>5 DEF SameArea, SamePlace, SameFound, SameSeen, SameMarks, SameRelink

LEMMA RunIndexes ==
  ASSUME RunsTyped, NEW r \in Runs, IndexStorageArea(r), run[r].queue # {}
  PROVE  /\ RunsTyped' /\ Others(r)
         /\ \E q \in run[r].queue :
              /\ q.area \in Areas /\ q.root \in Roots
              /\ run'[r].pc = IF q.root \in mounted THEN "walk" ELSE "next"
              /\ run'[r].queue = run[r].queue \ {q}
              /\ run'[r].area = q.area /\ run'[r].root = q.root
              /\ run'[r].todo = {q.root} \X Dirs /\ run'[r].calm = run[r].calm
              /\ run'[r].seen = {} /\ run'[r].marks = {} /\ run'[r].arts = {}
<1>1. PICK z \in Run : z = run[r]
  BY DEF RunsTyped
<1>2. PICK q \in z.queue :
        Becomes(r, [Idle EXCEPT
          !.pc = IF q.root \in mounted THEN "walk" ELSE "next",
          !.queue = z.queue \ {q}, !.area = q.area, !.root = q.root,
          !.todo = {q.root} \X Dirs, !.calm = z.calm])
  BY <1>1 DEF IndexStorageArea
<1>3. q.area \in Areas /\ q.root \in Roots
  BY DEF Run, Queues
<1>4. PICK pc \in {"walk", "next"} : pc = IF q.root \in mounted THEN "walk" ELSE "next"
  OBVIOUS
<1>5. PICK y : y = [Idle EXCEPT !.pc = pc, !.queue = z.queue \ {q}, !.area = q.area,
                      !.root = q.root, !.todo = {q.root} \X Dirs, !.calm = z.calm]
  BY Zenon
<1>6. PICK i \in Run : i = Idle /\ i.seen = {} /\ i.marks = {} /\ i.arts = {}
  BY IdleIsRun DEF Idle
<1>7. PICK Q \in Queues, D \in SUBSET Places : Q = z.queue \ {q} /\ D = {q.root} \X Dirs
  BY <1>3 DEF Places, Run, Queues
<1>8. y = [i EXCEPT !.pc = pc, !.queue = Q, !.area = q.area,
                      !.root = q.root, !.todo = D, !.calm = z.calm]
  BY <1>5, <1>6, <1>7
<1>9. y \in Run
  <2>1. q.area \in Or(Areas) /\ q.root \in Or(Roots) /\ pc \in Pcs
    BY <1>3, Stops
  <2>2. z.calm \in BOOLEAN
    BY DEF Run
  <2>3. QED
    BY <1>8, <2>1, <2>2 DEF Run
<1>10. RunsTyped' /\ run'[r] = y /\ Others(r)
  BY <1>2, <1>4, <1>5, <1>9, RunIs
<1>11. /\ y.pc = pc /\ y.queue = z.queue \ {q} /\ y.area = q.area /\ y.root = q.root
       /\ y.todo = {q.root} \X Dirs /\ y.calm = z.calm
       /\ y.seen = {} /\ y.marks = {} /\ y.arts = {}
  BY <1>6, <1>7, <1>8 DEF Run
<1>12. QED
  BY <1>1, <1>3, <1>4, <1>10, <1>11

LEMMA RunRegisters ==
  ASSUME RunsTyped, NEW r \in Runs, Register(r), area[run[r].area] # None,
         rec \in [Artifacts -> Record \cup {None}], Aimed(r)
  PROVE  /\ RunsTyped' /\ Others(r)
         /\ run'[r].pc = "match" /\ run'[r].known = rec[Art(r)]
         /\ run'[r].seen = run[r].seen \cup {run[r].card.src}
         /\ SameArea(r) /\ SamePlace(r) /\ SameMarks(r) /\ SameRelink(r)
<1>1. PICK z \in Run : z = run[r]
  BY DEF RunsTyped
<1>2. PICK s \in Files : s = z.card.src
  BY <1>1 DEF Register, Aimed, AtPlace, Card
<1>3. <<z.area, s>> \in Artifacts
  BY <1>1 DEF Register, Aimed, AtPlace, Stages, Artifacts
<1>4. PICK k \in Or(Record) : k = rec[z.area, s]
  BY <1>3 DEF Or
<1>5. PICK y : y = [z EXCEPT !.pc = "match", !.seen = z.seen \cup {s}, !.known = k]
  BY Zenon
<1>6. y \in Run
  <2>1. z.seen \cup {s} \in SUBSET Files
    BY DEF Run
  <2>2. QED
    BY <1>5, <2>1, Stops DEF Run
<1>7. Becomes(r, y)
  BY <1>1, <1>2, <1>4, <1>5 DEF Register
<1>8. RunsTyped' /\ run'[r] = y /\ Others(r)
  BY <1>6, <1>7, RunIs
<1>9. /\ y.pc = "match" /\ y.known = k /\ y.seen = z.seen \cup {s}
      /\ y.todo = z.todo /\ y.queue = z.queue
      /\ y.area = z.area /\ y.root = z.root /\ y.calm = z.calm
      /\ y.marks = z.marks /\ y.arts = z.arts /\ y.enabled = z.enabled
      /\ y.place = z.place /\ y.card = z.card
  BY <1>5 DEF Run
<1>10. QED
  BY <1>1, <1>2, <1>4, <1>8, <1>9 DEF SameArea, SamePlace, SameMarks, SameRelink, Art

LEMMA RunMatches ==
  ASSUME RunsTyped, NEW r \in Runs, Match(r), SameContent(run[r].card) # {}
  PROVE  /\ RunsTyped' /\ Others(r)
         /\ run'[r].pc = "attach" /\ run'[r].known = run[r].known
         /\ run'[r].row \in SameContent(run[r].card) /\ run'[r].row \in Files
         /\ SameArea(r) /\ SamePlace(r) /\ SameSeen(r) /\ SameMarks(r) /\ SameRelink(r)
<1>1. PICK z \in Run : z = run[r]
  BY DEF RunsTyped
<1>2. PICK f \in SameContent(z.card) :
        Becomes(r, [z EXCEPT !.pc = "attach", !.row = f, !.lost = FALSE])
  BY <1>1 DEF Match
<1>3. PICK y : y = [z EXCEPT !.pc = "attach", !.row = f, !.lost = FALSE]
  BY Zenon
<1>4. f \in Files
  BY DEF SameContent
<1>5. y \in Run
  BY <1>3, <1>4, Stops DEF Run
<1>6. RunsTyped' /\ run'[r] = y /\ Others(r)
  BY <1>2, <1>3, <1>5, RunIs
<1>7. /\ y.pc = "attach" /\ y.known = z.known /\ y.row = f /\ y.seen = z.seen
      /\ y.todo = z.todo /\ y.queue = z.queue
      /\ y.area = z.area /\ y.root = z.root /\ y.calm = z.calm
      /\ y.marks = z.marks /\ y.arts = z.arts /\ y.enabled = z.enabled
      /\ y.place = z.place /\ y.card = z.card
  BY <1>3 DEF Run
<1>8. QED
  BY <1>1, <1>2, <1>4, <1>6, <1>7 DEF SameArea, SamePlace, SameSeen, SameMarks, SameRelink

LEMMA RunAttaches ==
  ASSUME RunsTyped, NEW r \in Runs, Attach(r)
  PROVE  /\ RunsTyped' /\ Others(r)
         /\ run'[r].pc = "link"
         /\ SameArea(r) /\ SamePlace(r) /\ SameFound(r) /\ SameSeen(r) /\ SameMarks(r) /\ SameRelink(r)
<1>1. PICK z \in Run : z = run[r]
  BY DEF RunsTyped
<1>2. PICK b \in BOOLEAN : b = (z.lost /\ item[z.row] # None)
  OBVIOUS
<1>3. PICK y : y = [z EXCEPT !.pc = "link", !.lost = b]
  BY Zenon
<1>4. y \in Run
  BY <1>3, Stops DEF Run
<1>5. Becomes(r, y)
  BY <1>1, <1>2, <1>3 DEF Attach
<1>6. RunsTyped' /\ run'[r] = y /\ Others(r)
  BY <1>4, <1>5, RunIs
<1>7. /\ y.pc = "link" /\ y.known = z.known /\ y.row = z.row /\ y.seen = z.seen
      /\ y.todo = z.todo /\ y.queue = z.queue
      /\ y.area = z.area /\ y.root = z.root /\ y.calm = z.calm
      /\ y.marks = z.marks /\ y.arts = z.arts /\ y.enabled = z.enabled
      /\ y.place = z.place /\ y.card = z.card
  BY <1>3 DEF Run
<1>8. QED
  BY <1>1, <1>6, <1>7 DEF SameArea, SamePlace, SameFound, SameSeen, SameMarks, SameRelink

LEMMA RunLists ==
  ASSUME RunsTyped, NEW r \in Runs, ListRecords(r), rec \in [Artifacts -> Record \cup {None}],
         Aimed(r)
  PROVE  /\ RunsTyped' /\ Others(r)
         /\ run'[r].pc = "mark" /\ run'[r].todo = run[r].todo
         /\ \A f \in Files : rec[run[r].area, f] # None => \E m \in run'[r].marks : m.file = f
         /\ SameArea(r) /\ SamePlace(r) /\ SameSeen(r) /\ SameRelink(r)
<1>1. PICK z \in Run : z = run[r]
  BY DEF RunsTyped
<1>2. PICK M : M = {[file |-> f, health |-> rec[z.area, f].health] :
                      f \in {g \in Files : rec[z.area, g] # None}}
  OBVIOUS
<1>3. ASSUME NEW f \in Files, rec[z.area, f] # None
      PROVE  [file |-> f, health |-> rec[z.area, f].health] \in [file : Files, health : Health]
  <2>1. <<z.area, f>> \in Artifacts
    BY <1>1 DEF ListRecords, Aimed, Stages, Artifacts
  <2>2. rec[z.area, f] \in Record
    BY <1>3, <2>1
  <2>3. QED
    BY <2>2 DEF Record
<1>4. M \subseteq [file : Files, health : Health]
  BY <1>2, <1>3
<1>5. \A f \in Files : rec[z.area, f] # None => \E m \in M : m.file = f
  <2>1. ASSUME NEW f \in Files, rec[z.area, f] # None
        PROVE  \E m \in M : m.file = f
    <3>1. PICK m \in [file : Files, health : Health] : m = [file |-> f, health |-> rec[z.area, f].health]
      BY <1>3, <2>1
    <3>2. m.file = f
      BY <3>1
    <3>3. m \in M
      BY <1>2, <2>1, <3>1
    <3>4. QED
      BY <3>2, <3>3
  <2>2. QED
    BY <2>1
<1>6. PICK y : y = [z EXCEPT !.pc = "mark", !.marks = M]
  BY Zenon
<1>7. y \in Run
  <2>1. M \in Marks
    BY <1>4 DEF Marks
  <2>2. QED
    BY <1>6, <2>1, Stops DEF Run
<1>8. Becomes(r, y)
  BY <1>1, <1>2, <1>6 DEF ListRecords
<1>9. RunsTyped' /\ run'[r] = y /\ Others(r)
  BY <1>7, <1>8, RunIs
<1>10. /\ y.pc = "mark" /\ y.marks = M /\ y.seen = z.seen
       /\ y.todo = z.todo /\ y.queue = z.queue
       /\ y.area = z.area /\ y.root = z.root /\ y.calm = z.calm
       /\ y.arts = z.arts /\ y.enabled = z.enabled
       /\ y.place = z.place /\ y.card = z.card
  BY <1>6 DEF Run
<1>11. QED
  BY <1>1, <1>5, <1>9, <1>10 DEF SameArea, SamePlace, SameSeen, SameRelink

LEMMA RunMarks ==
  ASSUME RunsTyped, NEW r \in Runs, MarkRecord(r)
  PROVE  /\ RunsTyped' /\ Others(r)
         /\ run'[r].pc = "mark" /\ run'[r].todo = run[r].todo
         /\ \E m \in run[r].marks :
              /\ m.file \in Files /\ m.health \in Health
              /\ run'[r].marks = run[r].marks \ {m}
              /\ rec' = IF rec[run[r].area, m.file] = None THEN rec
                        ELSE [rec EXCEPT ![<<run[r].area, m.file>>].health =
                                HealthFound(r, m, rec[run[r].area, m.file].health)]
         /\ SameArea(r) /\ SamePlace(r) /\ SameSeen(r) /\ SameRelink(r)
<1>1. PICK z \in Run : z = run[r]
  BY DEF RunsTyped
<1>2. PICK m \in z.marks :
        /\ rec' = IF rec[z.area, m.file] = None THEN rec
                  ELSE [rec EXCEPT ![<<z.area, m.file>>].health =
                          HealthFound(r, m, rec[z.area, m.file].health)]
        /\ Becomes(r, [z EXCEPT !.marks = z.marks \ {m}])
  BY <1>1 DEF MarkRecord
<1>3. m.file \in Files /\ m.health \in Health
  BY DEF Run, Marks
<1>4. PICK y : y = [z EXCEPT !.marks = z.marks \ {m}]
  BY Zenon
<1>5. y \in Run
  <2>1. z.marks \ {m} \in Marks
    BY DEF Run, Marks
  <2>2. QED
    BY <1>4, <2>1 DEF Run
<1>6. RunsTyped' /\ run'[r] = y /\ Others(r)
  BY <1>2, <1>4, <1>5, RunIs
<1>7. z.pc = "mark"
  BY <1>1 DEF MarkRecord
<1>8. /\ y.pc = "mark" /\ y.marks = z.marks \ {m} /\ y.seen = z.seen
      /\ y.todo = z.todo /\ y.queue = z.queue
      /\ y.area = z.area /\ y.root = z.root /\ y.calm = z.calm
      /\ y.arts = z.arts /\ y.enabled = z.enabled
      /\ y.place = z.place /\ y.card = z.card
  BY <1>4, <1>7 DEF Run
<1>9. QED
  BY <1>1, <1>2, <1>3, <1>6, <1>8 DEF SameArea, SamePlace, SameSeen, SameRelink

LEMMA RunRelinks ==
  ASSUME RunsTyped, NEW r \in Runs, RelinkOne(r)
  PROVE  /\ RunsTyped' /\ Others(r)
         /\ run'[r].pc = "relink"
         /\ \E u \in run[r].arts :
              /\ u \in [art : Artifacts, fp : Fps]
              /\ run'[r].arts = run[r].arts \ {u}
              /\ LET found == Matching(u, run[r].enabled)
                 IN IF found = {} THEN UNCHANGED links
                    ELSE \E first \in found :
                      links' = links \cup UNION {NewLinks(u.art, f, StatusOf(f, first)) : f \in found}
         /\ SameArea(r) /\ run'[r].enabled = run[r].enabled
<1>1. PICK z \in Run : z = run[r]
  BY DEF RunsTyped
<1>2. PICK u \in z.arts :
        /\ LET found == Matching(u, z.enabled)
           IN IF found = {} THEN UNCHANGED links
              ELSE \E first \in found :
                links' = links \cup UNION {NewLinks(u.art, f, StatusOf(f, first)) : f \in found}
        /\ Becomes(r, [z EXCEPT !.arts = z.arts \ {u}])
  BY <1>1 DEF RelinkOne
<1>3. PICK y : y = [z EXCEPT !.arts = z.arts \ {u}]
  BY Zenon
<1>4. y \in Run
  <2>1. z.arts \ {u} \in Lists
    BY DEF Run, Lists
  <2>2. QED
    BY <1>3, <2>1 DEF Run
<1>5. RunsTyped' /\ run'[r] = y /\ Others(r)
  BY <1>2, <1>3, <1>4, RunIs
<1>6. z.pc = "relink" /\ u \in [art : Artifacts, fp : Fps]
  BY <1>1 DEF RelinkOne, Run, Lists
<1>7. /\ y.pc = "relink" /\ y.arts = z.arts \ {u}
      /\ y.queue = z.queue /\ y.area = z.area /\ y.root = z.root /\ y.calm = z.calm
      /\ y.enabled = z.enabled
  BY <1>3, <1>6 DEF Run
<1>8. QED
  BY <1>1, <1>2, <1>5, <1>6, <1>7 DEF SameArea

\* All but whether it is disturbed, and whether the row it read was deleted.
Like(y, z) ==
  /\ y.pc = z.pc /\ y.queue = z.queue /\ y.area = z.area /\ y.root = z.root
  /\ y.todo = z.todo /\ y.seen = z.seen /\ y.place = z.place /\ y.card = z.card
  /\ y.known = z.known /\ y.row = z.row /\ y.marks = z.marks /\ y.arts = z.arts
  /\ y.enabled = z.enabled

LEMMA RunDisturbed ==
  ASSUME RunsTyped, NEW s \in Runs
  PROVE  Disturbed[s] \in Run /\ Like(Disturbed[s], run[s]) /\ Disturbed[s].calm = FALSE
<1>1. PICK z \in Run : z = run[s]
  BY DEF RunsTyped
<1>2. PICK y : y = [z EXCEPT !.calm = FALSE]
  BY Zenon
<1>3. Disturbed[s] = y
  BY <1>1, <1>2 DEF Disturbed
<1>4. y \in Run
  BY <1>2 DEF Run
<1>5. y.calm = FALSE /\ Like(y, z)
  BY <1>2 DEF Run, Like
<1>6. QED
  BY <1>1, <1>3, <1>4, <1>5

LEMMA RunsDisturbed ==
  ASSUME RunsTyped, run' = Disturbed
  PROVE  RunsTyped' /\ \A s \in Runs : Like(run'[s], run[s]) /\ run'[s].calm = FALSE
<1>1. run' \in [Runs -> Run]
  <2>1. run' = [s \in Runs |-> Disturbed[s]]
    BY DEF Disturbed
  <2>2. \A s \in Runs : Disturbed[s] \in Run
    BY RunDisturbed
  <2>3. QED
    BY <2>1, <2>2
<1>2. QED
  BY <1>1, RunDisturbed DEF RunsTyped

LEMMA RunsLose ==
  ASSUME RunsTyped, NEW f \in Files, ScanDeletes(f)
  PROVE  RunsTyped' /\ \A s \in Runs : Like(run'[s], run[s]) /\ run'[s].calm = FALSE
<1>1. run' = [s \in Runs |-> [Disturbed[s] EXCEPT !.lost = @ \/ run[s].row = f]]
  BY DEF ScanDeletes
<1>2. ASSUME NEW s \in Runs
      PROVE  run'[s] \in Run /\ Like(run'[s], run[s]) /\ run'[s].calm = FALSE
  <2>1. PICK z \in Run : z = Disturbed[s] /\ Like(z, run[s]) /\ z.calm = FALSE
    BY RunDisturbed
  <2>2. PICK b \in BOOLEAN : b = (z.lost \/ run[s].row = f)
    OBVIOUS
  <2>3. PICK y : y = [z EXCEPT !.lost = b]
    BY Zenon
  <2>4. run'[s] = y
    BY <1>1, <2>1, <2>2, <2>3
  <2>5. y \in Run
    BY <2>3 DEF Run
  <2>6. Like(y, z) /\ y.calm = FALSE
    BY <2>1, <2>3 DEF Run, Like
  <2>7. QED
    BY <2>1, <2>4, <2>5, <2>6 DEF Like
<1>3. run' \in [Runs -> Run]
  <2>1. run' = [s \in Runs |-> run'[s]]
    BY <1>1
  <2>2. QED
    BY <1>2, <2>1
<1>4. QED
  BY <1>2, <1>3 DEF RunsTyped

\* A run begins with what new says, and is undisturbed if no other is active.
LEMMA RunStarts ==
  ASSUME RunsTyped, NEW r \in Runs, NEW new \in Run, Starts(r, new)
  PROVE  /\ RunsTyped'
         /\ run[r].pc = "off"
         /\ Like(run'[r], new) /\ run'[r].calm = (Active = {})
         /\ \A s \in Runs \ {r} : Like(run'[s], run[s]) /\ run'[s].calm = FALSE
<1>1. PICK b \in BOOLEAN : b = (Active = {})
  OBVIOUS
<1>2. PICK y : y = [new EXCEPT !.calm = b]
  BY Zenon
<1>3. PICK d : d = Disturbed
  OBVIOUS
<1>4. run' = [d EXCEPT ![r] = y]
  BY <1>1, <1>2, <1>3 DEF Starts
<1>5. d \in [Runs -> Run]
  <2>1. d = [s \in Runs |-> Disturbed[s]]
    BY <1>3 DEF Disturbed
  <2>2. QED
    BY <2>1, RunDisturbed
<1>6. y \in Run
  BY <1>2 DEF Run
<1>7. Like(y, new) /\ y.calm = b
  BY <1>2 DEF Run, Like
<1>8. RunsTyped' /\ run'[r] = y /\ \A s \in Runs \ {r} : run'[s] = d[s]
  BY <1>4, <1>5, <1>6 DEF RunsTyped
<1>9. QED
  BY <1>1, <1>3, <1>7, <1>8, RunDisturbed DEF Starts

\* What beginning does to every run.
Begins(r) ==
  /\ RunsTyped' /\ run[r].pc = "off" /\ run'[r].calm = (Active = {})
  /\ \A s \in Runs \ {r} : Like(run'[s], run[s]) /\ run'[s].calm = FALSE

LEMMA RunSpawned ==
  ASSUME RunsTyped, NEW a \in Areas, NEW row \in Area, Spawns(a, row)
  PROVE  \E r \in Runs :
           /\ Begins(r) /\ run'[r].pc = "next"
           /\ \A q \in run'[r].queue : q.area = a
<1>1. PICK q \in [area : Areas, root : Roots] : q = [area |-> a, root |-> row.path]
  BY DEF Area
<1>2. q.area = a
  BY <1>1
<1>3. PICK new : new = [Idle EXCEPT !.pc = "next", !.queue = {q}]
  BY Zenon
<1>4. new \in Run /\ new.pc = "next" /\ new.queue = {q}
  <2>1. PICK i \in Run : i = Idle
    BY IdleIsRun
  <2>2. new = [i EXCEPT !.pc = "next", !.queue = {q}]
    BY <1>3, <2>1
  <2>3. QED
    <3>1. {q} \in Queues
      BY DEF Queues
    <3>2. QED
      BY <2>2, <3>1, Stops DEF Run
<1>5. PICK r \in Runs : Starts(r, new)
  BY <1>1, <1>3 DEF Spawns
<1>6. Begins(r) /\ Like(run'[r], new)
  BY <1>4, <1>5, RunStarts DEF Begins
<1>7. run'[r].pc = "next" /\ run'[r].queue = {q}
  BY <1>4, <1>6 DEF Like
<1>8. QED
  BY <1>2, <1>6, <1>7

LEMMA RunAllAreas ==
  ASSUME RunsTyped, NEW r \in Runs, IndexAll(r), area \in [Areas -> Area \cup {None}]
  PROVE  /\ Begins(r) /\ run'[r].pc = "next"
         /\ \A q \in run'[r].queue : q.area \in EnabledAreas
<1>1. PICK Q : Q = {[area |-> a, root |-> area[a].path] : a \in EnabledAreas}
  OBVIOUS
<1>2. ASSUME NEW q \in Q
      PROVE  q \in [area : Areas, root : Roots] /\ q.area \in EnabledAreas
  <2>1. PICK a \in EnabledAreas : q = [area |-> a, root |-> area[a].path]
    BY <1>1
  <2>2. a \in Areas /\ area[a] \in Area
    BY DEF EnabledAreas
  <2>3. QED
    BY <2>1, <2>2 DEF Area
<1>3. PICK new : new = [Idle EXCEPT !.pc = "next", !.queue = Q]
  BY Zenon
<1>4. new \in Run /\ new.pc = "next" /\ new.queue = Q
  <2>1. PICK i \in Run : i = Idle
    BY IdleIsRun
  <2>2. new = [i EXCEPT !.pc = "next", !.queue = Q]
    BY <1>3, <2>1
  <2>3. QED
    <3>1. Q \in Queues
      BY <1>2 DEF Queues
    <3>2. QED
      BY <2>2, <3>1, Stops DEF Run
<1>5. Starts(r, new)
  BY <1>1, <1>3 DEF IndexAll
<1>6. Begins(r) /\ Like(run'[r], new)
  BY <1>4, <1>5, RunStarts DEF Begins
<1>7. run'[r].pc = "next" /\ run'[r].queue = Q
  BY <1>4, <1>6 DEF Like
<1>8. QED
  BY <1>2, <1>6, <1>7

LEMMA RunRelinkStarts ==
  ASSUME RunsTyped, NEW r \in Runs, RelinkExact(r), rec \in [Artifacts -> Record \cup {None}]
  PROVE  /\ Begins(r) /\ run'[r].pc = "relink" /\ run'[r].enabled = EnabledAreas
         /\ run'[r].queue = {}
         /\ \A u \in run'[r].arts : u.art \in Unmatched /\ u.fp = rec[u.art].fp
         /\ \A u, v \in run'[r].arts : u.art = v.art => u = v
         /\ \A x \in Unmatched : \E u \in run'[r].arts : u.art = x
<1>1. PICK A : A = {[art |-> x, fp |-> rec[x].fp] : x \in Unmatched}
  OBVIOUS
<1>2. ASSUME NEW x \in Unmatched, NEW u, u = [art |-> x, fp |-> rec[x].fp]
      PROVE  u \in [art : Artifacts, fp : Fps] /\ u.art = x /\ u.fp = rec[x].fp
  <2>1. x \in Artifacts /\ rec[x] \in Record
    BY DEF Unmatched
  <2>2. QED
    BY <1>2, <2>1 DEF Record
<1>3. \A u \in A : \E x \in Unmatched : u = [art |-> x, fp |-> rec[x].fp]
  BY <1>1
<1>4. \A u \in A : /\ u \in [art : Artifacts, fp : Fps] /\ u.art \in Unmatched
                   /\ u.fp = rec[u.art].fp
  BY <1>2, <1>3
<1>5. \A u, v \in A : u.art = v.art => u = v
  BY <1>4
<1>6. ASSUME NEW x \in Unmatched
      PROVE  \E u \in A : u.art = x
  <2>1. PICK u : u = [art |-> x, fp |-> rec[x].fp]
    BY Zenon
  <2>2. QED
    BY <1>1, <1>2, <2>1
<1>7. PICK E \in SUBSET Areas : E = EnabledAreas
  BY DEF EnabledAreas
<1>8. PICK new : new = [Idle EXCEPT !.pc = "relink", !.enabled = E, !.arts = A]
  BY Zenon
<1>9. new \in Run /\ new.pc = "relink" /\ new.arts = A /\ new.enabled = E /\ new.queue = {}
  <2>1. PICK i \in Run : i = Idle /\ i.queue = {}
    BY IdleIsRun DEF Idle
  <2>2. new = [i EXCEPT !.pc = "relink", !.enabled = E, !.arts = A]
    BY <1>8, <2>1
  <2>3. QED
    <3>1. A \in Lists
      BY <1>4 DEF Lists
    <3>2. QED
      BY <2>1, <2>2, <3>1, Stops DEF Run
<1>10. Starts(r, new)
  BY <1>1, <1>7, <1>8 DEF RelinkExact
<1>11. Begins(r) /\ Like(run'[r], new)
  BY <1>9, <1>10, RunStarts DEF Begins
<1>12. /\ run'[r].pc = "relink" /\ run'[r].arts = A /\ run'[r].enabled = EnabledAreas
       /\ run'[r].queue = {}
  BY <1>7, <1>9, <1>11 DEF Like
<1>13. QED
  BY <1>4, <1>5, <1>6, <1>11, <1>12

-----------------------------------------------------------------------------
(* Types                                                                    *)

UpdateOK == update # None => update.area \in Areas /\ update.was \in Area

WorldOK ==
  /\ area \in [Areas -> Area \cup {None}]
  /\ disk \in [Places -> Card \cup {None, Broken}]
  /\ mounted \subseteq Roots
  /\ source \in [Files -> Fps \cup {None}]
  /\ UpdateOK

RecordsOK ==
  /\ rec \in [Artifacts -> Record \cup {None}]
  /\ \A x \in Artifacts : rec[x] # None => area[x[1]] # None

\* No statement inserts a link of rows that are gone, nor a second one for a pair.
LinksOK ==
  /\ links \subseteq Link
  /\ \A l \in links : rec[l.art] # None /\ item[l.file] # None
  /\ \A k, l \in links : k.art = l.art /\ k.file = l.file => k = l

ItemsOK == item \in [Files -> Item \cup {None}]

LEMMA PartsOfType == TypeOK /\ UpdateOK <=> WorldOK /\ RecordsOK /\ LinksOK /\ ItemsOK
  BY DEF TypeOK, WorldOK, RecordsOK, LinksOK, ItemsOK

LEMMA AllAimed ==
  ASSUME RunsOK, RunsTyped', NEW r \in Runs, Aimed(r)',
         \A s \in Runs \ {r} : run'[s] = run[s] \/ Like(run'[s], run[s])
  PROVE  RunsOK'
<1>1. \A s \in Runs \ {r} : Aimed(s)'
  BY DEF RunsOK, Aimed, Like
<1>2. QED
  BY <1>1 DEF RunsOK

LEMMA AllLike ==
  ASSUME RunsOK, RunsTyped', \A s \in Runs : Like(run'[s], run[s])
  PROVE  RunsOK'
  BY DEF RunsOK, Aimed, Like

LEMMA BegunAimed ==
  ASSUME RunsOK, NEW r \in Runs, Begins(r), run'[r].pc \in {"next", "relink"}
  PROVE  RunsOK'
<1>1. Aimed(r)'
  BY DEF Aimed, Stages, AtPlace
<1>2. QED
  BY <1>1, AllAimed DEF Begins

LEMMA IdleAimed ==
  ASSUME RunsOK, NEW r \in Runs, Becomes(r, Idle)
  PROVE  RunsOK'
<1>1. RunsTyped' /\ run'[r] = Idle /\ Others(r)
  BY RunIs, IdleIsRun DEF RunsOK
<1>2. Aimed(r)'
  BY <1>1 DEF Aimed, Stages, AtPlace, Idle
<1>3. QED
  BY <1>1, <1>2, AllAimed DEF Others

\* The statements of a run.
Steps(r) ==
  \/ IndexStorageArea(r) \/ Visit(r) \/ Register(r) \/ Match(r)
  \/ Attach(r) \/ LinkFound(r) \/ ListRecords(r) \/ MarkRecord(r) \/ MarkStale(r)
  \/ AreaDone(r) \/ Cancelled(r) \/ RelinkOne(r) \/ RelinkEnds(r)

LEMMA OwnRunsStep ==
  ASSUME RunsOK, WorldOK, RecordsOK, NEW r \in Runs, Steps(r)
  PROVE  RunsOK'
<1>0. RunsTyped /\ Aimed(r) /\ disk \in [Places -> Card \cup {None, Broken}]
      /\ rec \in [Artifacts -> Record \cup {None}]
  BY DEF RunsOK, WorldOK, RecordsOK
<1>1. ASSUME RunsTyped', Aimed(r)', Others(r)
      PROVE  RunsOK'
  BY <1>1, AllAimed DEF Others
<1>2. CASE IndexStorageArea(r)
  <2>1. CASE run[r].queue = {}
    BY <1>2, <2>1, IdleAimed DEF IndexStorageArea
  <2>2. CASE run[r].queue # {}
    BY <1>0, <1>1, <1>2, <2>2, RunIndexes DEF Aimed, AtPlace
  <2>3. QED
    BY <2>1, <2>2
<1>3. CASE Visit(r)
  <2>1. run[r].area \in Areas /\ run[r].root \in Roots
    BY <1>0, <1>3 DEF Visit, Aimed, Stages
  <2>2. PICK p \in run[r].todo :
              IF ~Readable(p) THEN run'[r].pc = "walk"
              ELSE run'[r].place = p /\ run'[r].card \in Card /\ run'[r].pc = "register"
    BY <1>0, <1>3, <2>1, RunVisits
  <2>3. p \in Places
    BY <1>0 DEF RunsTyped, Run
  <2>4. RunsTyped' /\ Others(r) /\ SameArea(r)
    BY <1>0, <1>3, <2>1, RunVisits
  <2>5. Aimed(r)'
    BY <2>1, <2>2, <2>3, <2>4 DEF Aimed, AtPlace, SameArea
  <2>6. QED
    BY <1>1, <2>4, <2>5
<1>4. CASE Register(r)
  <2>1. CASE area[run[r].area] = None
    BY <1>0, <1>1, <1>4, <2>1, RunWalksOn DEF Register, Aimed, SameArea, AtPlace, Stages
  <2>2. CASE area[run[r].area] # None
    <3>1. RunsTyped' /\ Others(r) /\ SameArea(r) /\ SamePlace(r) /\ run'[r].pc = "match"
      BY <1>0, <1>4, <2>2, RunRegisters
    <3>2. Aimed(r)'
      BY <1>0, <1>4, <3>1 DEF Aimed, AtPlace, Stages, SameArea, SamePlace, Register
    <3>3. QED
      BY <1>1, <3>1, <3>2
  <2>3. QED
    BY <2>1, <2>2
<1>5. CASE Match(r)
  <2>1. CASE SameContent(run[r].card) = {}
    BY <1>0, <1>1, <1>5, <2>1, RunWalksOn DEF Match, Aimed, SameArea, AtPlace, Stages
  <2>2. CASE SameContent(run[r].card) # {}
    <3>1. /\ RunsTyped' /\ Others(r) /\ SameArea(r) /\ SamePlace(r)
          /\ run'[r].pc = "attach" /\ run'[r].row \in Files
      BY <1>0, <1>5, <2>2, RunMatches
    <3>2. Aimed(r)'
      BY <1>0, <1>5, <3>1 DEF Aimed, AtPlace, Stages, SameArea, SamePlace, Match
    <3>3. QED
      BY <1>1, <3>1, <3>2
  <2>3. QED
    BY <2>1, <2>2
<1>6. CASE Attach(r)
  <2>1. RunsTyped' /\ Others(r) /\ SameArea(r) /\ SamePlace(r) /\ SameFound(r) /\ run'[r].pc = "link"
    BY <1>0, <1>6, RunAttaches
  <2>2. Aimed(r)'
    BY <1>0, <1>6, <2>1 DEF Aimed, AtPlace, Stages, SameArea, SamePlace, SameFound, Attach
  <2>3. QED
    BY <1>1, <2>1, <2>2
<1>7. CASE LinkFound(r)
  BY <1>0, <1>1, <1>7, RunWalksOn DEF LinkFound, Aimed, SameArea, AtPlace, Stages
<1>8. CASE ListRecords(r)
  <2>1. RunsTyped' /\ Others(r) /\ SameArea(r) /\ run'[r].pc = "mark"
    BY <1>0, <1>8, RunLists
  <2>2. Aimed(r)'
    BY <1>0, <1>8, <2>1 DEF Aimed, AtPlace, Stages, SameArea, ListRecords
  <2>3. QED
    BY <1>1, <2>1, <2>2
<1>9. CASE MarkRecord(r)
  <2>1. RunsTyped' /\ Others(r) /\ SameArea(r) /\ run'[r].pc = "mark"
    BY <1>0, <1>9, RunMarks
  <2>2. Aimed(r)'
    BY <1>0, <1>9, <2>1 DEF Aimed, AtPlace, Stages, SameArea, MarkRecord
  <2>3. QED
    BY <1>1, <2>1, <2>2
<1>10. CASE MarkStale(r)
  <2>1. RunsTyped' /\ Others(r) /\ SameArea(r) /\ run'[r].pc = "indexed"
    BY <1>0, <1>10, RunGoes DEF MarkStale, Pcs, Stages
  <2>2. Aimed(r)'
    BY <1>0, <1>10, <2>1 DEF Aimed, AtPlace, Stages, SameArea, MarkStale
  <2>3. QED
    BY <1>1, <2>1, <2>2
<1>11. CASE AreaDone(r)
  <2>1. RunsTyped' /\ Others(r) /\ run'[r].pc = "next"
    BY <1>0, <1>11, RunGoes DEF AreaDone, Pcs
  <2>2. Aimed(r)'
    BY <2>1 DEF Aimed, AtPlace, Stages
  <2>3. QED
    BY <1>1, <2>1, <2>2
<1>12. CASE Cancelled(r)
  BY <1>12, IdleAimed DEF Cancelled
<1>13. CASE RelinkOne(r)
  <2>1. RunsTyped' /\ Others(r) /\ run'[r].pc = "relink"
    BY <1>0, <1>13, RunRelinks
  <2>2. Aimed(r)'
    BY <2>1 DEF Aimed, AtPlace, Stages
  <2>3. QED
    BY <1>1, <2>1, <2>2
<1>14. CASE RelinkEnds(r)
  <2>1. CASE Goes(r, "relinked")
    <3>1. RunsTyped' /\ Others(r) /\ run'[r].pc = "relinked"
      BY <1>0, <2>1, RunGoes DEF Pcs
    <3>2. Aimed(r)'
      BY <3>1 DEF Aimed, AtPlace, Stages
    <3>3. QED
      BY <1>1, <3>1, <3>2
  <2>2. CASE Becomes(r, Idle)
    BY <2>2, IdleAimed
  <2>3. QED
    BY <1>14, <2>1, <2>2 DEF RelinkEnds
<1>15. QED
  BY <1>2, <1>3, <1>4, <1>5, <1>6, <1>7, <1>8, <1>9, <1>10, <1>11, <1>12, <1>13, <1>14 DEF Steps

LEMMA RunFails ==
  ASSUME RunsTyped, NEW r \in Runs, StatementFails(r), Aimed(r)
  PROVE  /\ RunsTyped' /\ Aimed(r)' /\ \A s \in Runs : run'[s].calm = FALSE
         /\ \A s \in Runs \ {r} : Like(run'[s], run[s])
<1>1. PICK z \in Run : z = run[r]
  BY DEF RunsTyped
<1>2. PICK new \in Failed(r) : run' = [Disturbed EXCEPT ![r] = [new EXCEPT !.calm = FALSE]]
  BY DEF StatementFails
<1>3. new \in Run /\ new.area = z.area /\ new.root = z.root
      /\ \/ new.pc = "walk" /\ z.pc \in Stages
         \/ new.pc = "next"
         \/ new.pc = "indexed" /\ z.pc \in Stages
         \/ new.pc = z.pc /\ new.place = z.place /\ new.card = z.card /\ new.row = z.row
  <2>1. CASE new = Walking(r) /\ z.pc \in {"register", "match", "attach", "link"}
    <3>1. PICK y : y = [z EXCEPT !.pc = "walk", !.place = None, !.card = None,
                          !.known = None, !.row = None, !.lost = FALSE]
      BY Zenon
    <3>2. y \in Run /\ y.pc = "walk" /\ y.area = z.area /\ y.root = z.root
      BY <3>1, Stops DEF Run
    <3>3. new = y
      BY <1>1, <2>1, <3>1 DEF Walking
    <3>4. QED
      BY <2>1, <3>2, <3>3 DEF Stages, AtPlace
  <2>2. CASE new = [run[r] EXCEPT !.known = None]
    <3>1. PICK y : y = [z EXCEPT !.known = None]
      BY Zenon
    <3>2. y \in Run /\ y.pc = z.pc /\ y.area = z.area /\ y.root = z.root
          /\ y.place = z.place /\ y.card = z.card /\ y.row = z.row
      BY <3>1, Stops DEF Run
    <3>3. QED
      BY <1>1, <2>2, <3>1, <3>2
  <2>3. ASSUME NEW pc \in Pcs, new = [run[r] EXCEPT !.pc = pc]
        PROVE  new \in Run /\ new.pc = pc /\ new.area = z.area /\ new.root = z.root
    <3>1. PICK y : y = [z EXCEPT !.pc = pc]
      BY Zenon
    <3>2. y \in Run /\ y.pc = pc /\ y.area = z.area /\ y.root = z.root
      BY <3>1 DEF Run
    <3>3. QED
      BY <1>1, <2>3, <3>1, <3>2
  <2>4. CASE new = [run[r] EXCEPT !.pc = "next"]
    BY <2>3, <2>4, Stops
  <2>5. CASE new = [run[r] EXCEPT !.pc = "indexed"] /\ z.pc = "mark"
    <3>1. "indexed" \in Pcs /\ "mark" \in Stages
      BY DEF Pcs, Stages
    <3>2. QED
      BY <2>3, <2>5, <3>1
  <2>6. ASSUME NEW m \in z.marks, new = [run[r] EXCEPT !.marks = z.marks \ {m}]
        PROVE  new \in Run /\ new.area = z.area /\ new.root = z.root
               /\ new.pc = z.pc /\ new.place = z.place /\ new.card = z.card /\ new.row = z.row
    <3>1. PICK M \in Marks : M = z.marks \ {m}
      BY DEF Run, Marks
    <3>2. PICK y : y = [z EXCEPT !.marks = M]
      BY Zenon
    <3>3. y \in Run /\ y.pc = z.pc /\ y.area = z.area /\ y.root = z.root
          /\ y.place = z.place /\ y.card = z.card /\ y.row = z.row
      BY <3>2 DEF Run
    <3>4. QED
      BY <1>1, <2>6, <3>1, <3>2, <3>3
  <2>7. ASSUME NEW u \in z.arts, new = [run[r] EXCEPT !.arts = z.arts \ {u}]
        PROVE  new \in Run /\ new.area = z.area /\ new.root = z.root
               /\ new.pc = z.pc /\ new.place = z.place /\ new.card = z.card /\ new.row = z.row
    <3>1. PICK L \in Lists : L = z.arts \ {u}
      BY DEF Run, Lists
    <3>2. PICK y : y = [z EXCEPT !.arts = L]
      BY Zenon
    <3>3. y \in Run /\ y.pc = z.pc /\ y.area = z.area /\ y.root = z.root
          /\ y.place = z.place /\ y.card = z.card /\ y.row = z.row
      BY <3>2 DEF Run
    <3>4. QED
      BY <1>1, <2>7, <3>1, <3>2, <3>3
  <2>8. \/ new = Walking(r) /\ z.pc \in {"register", "match", "attach", "link"}
        \/ new = [run[r] EXCEPT !.known = None]
        \/ new = [run[r] EXCEPT !.pc = "next"]
        \/ new = [run[r] EXCEPT !.pc = "indexed"] /\ z.pc = "mark"
        \/ \E m \in z.marks : new = [run[r] EXCEPT !.marks = z.marks \ {m}]
        \/ \E u \in z.arts : new = [run[r] EXCEPT !.arts = z.arts \ {u}]
    BY <1>1, Zenon DEF Failed
  <2>9. QED
    BY <2>1, <2>2, <2>4, <2>5, <2>6, <2>7, <2>8
<1>4. PICK y : y = [new EXCEPT !.calm = FALSE]
  BY Zenon
<1>5. y \in Run /\ y.calm = FALSE /\ Like(y, new)
  BY <1>3, <1>4 DEF Run, Like
<1>6. PICK d : d = Disturbed
  OBVIOUS
<1>7. d \in [Runs -> Run]
  <2>1. d = [s \in Runs |-> Disturbed[s]]
    BY <1>6 DEF Disturbed
  <2>2. QED
    BY <2>1, RunDisturbed
<1>8. run' = [d EXCEPT ![r] = y]
  BY <1>2, <1>4, <1>6
<1>9. RunsTyped' /\ run'[r] = y /\ \A s \in Runs \ {r} : run'[s] = d[s]
  BY <1>5, <1>7, <1>8 DEF RunsTyped
<1>10. Aimed(r)'
  BY <1>1, <1>3, <1>5, <1>9 DEF Aimed, Like, Stages, AtPlace
<1>11. QED
  BY <1>5, <1>6, <1>9, <1>10, RunDisturbed

\* What others do to the runs, a run that begins, and one that a statement fails.
Disturbing ==
  \/ DatabaseLost
  \/ run' = Disturbed
  \/ \E f \in Files : ScanDeletes(f)
  \/ \E r \in Runs : StatementFails(r)
  \/ \E r \in Runs :
       /\ Begins(r) /\ run'[r].pc = "next"
       /\ \A q \in run'[r].queue : area'[q.area] # None
  \/ \E r \in Runs : RelinkExact(r)

LEMMA DisturbedRuns ==
  ASSUME RunsOK, RecordsOK, Disturbing
  PROVE  RunsOK'
<1>1. CASE DatabaseLost
  <2>1. run' = [r \in Runs |-> Idle]
    BY <1>1 DEF DatabaseLost
  <2>2. RunsTyped' /\ \A r \in Runs : run'[r] = Idle
    BY <2>1, IdleIsRun DEF RunsTyped
  <2>3. Idle.pc \notin Stages
    BY DEF Idle, Stages, AtPlace
  <2>4. QED
    BY <2>2, <2>3 DEF RunsOK, Aimed, Stages, AtPlace
<1>2. CASE run' = Disturbed
  BY <1>2, RunsDisturbed, AllLike DEF RunsOK
<1>3. CASE \E f \in Files : ScanDeletes(f)
  BY <1>3, RunsLose, AllLike DEF RunsOK
<1>4. CASE \E r \in Runs : Begins(r) /\ run'[r].pc = "next"
  BY <1>4, BegunAimed
<1>5. CASE \E r \in Runs : RelinkExact(r)
  BY <1>5, RunRelinkStarts, BegunAimed DEF RunsOK, RecordsOK
<1>6. ASSUME NEW r \in Runs, StatementFails(r)
      PROVE  RunsOK'
  BY <1>6, RunFails, AllAimed DEF RunsOK
<1>7. QED
  BY <1>1, <1>2, <1>3, <1>4, <1>5, <1>6 DEF Disturbing

\* Every step is one of a run that is under way, or disturbs all that is, or leaves the
\* runs and what they read and write alone.
LEMMA StepKinds ==
  ASSUME RunsOK, WorldOK, RecordsOK, [Next]_vars
  PROVE  \/ \E r \in Runs : Steps(r) /\ UNCHANGED <<area, disk, mounted, source>>
         \/ Disturbing
         \/ UNCHANGED <<area, disk, mounted, source, item, rec, links, run>>
<1>0. RunsTyped /\ area \in [Areas -> Area \cup {None}] /\ UpdateOK
      /\ rec \in [Artifacts -> Record \cup {None}]
  BY DEF RunsOK, WorldOK, RecordsOK
<1>1. ASSUME NEW a \in Areas, NEW row \in Area, Spawns(a, row), area'[a] # None
      PROVE  Disturbing
  BY <1>0, <1>1, RunSpawned DEF Disturbing
<1>2. ASSUME NEW a \in Areas, NEW p \in Roots, NEW on \in BOOLEAN, CreateStorageArea(a, p, on)
      PROVE  Disturbing
  <2>1. CASE on
    <3>1. PICK row \in Area : row = [path |-> p, enabled |-> on]
      BY DEF Area
    <3>2. area'[a] = row /\ row # None
      BY <1>0, <1>2, <3>1, RowAssumption DEF CreateStorageArea
    <3>3. Spawns(a, row)
      BY <1>2, <2>1, <3>2 DEF CreateStorageArea
    <3>4. QED
      BY <1>1, <3>2, <3>3
  <2>2. CASE ~on
    BY <1>2, <2>2 DEF CreateStorageArea, Disturbing
  <2>3. QED
    BY <2>1, <2>2
<1>3. ASSUME UpdateEnds
      PROVE  \/ Disturbing
             \/ UNCHANGED <<area, disk, mounted, source, item, rec, links, run>>
  <2>1. CASE UNCHANGED run
    BY <1>3, <2>1 DEF UpdateEnds, index
  <2>2. CASE area[update.area] # None /\ Spawns(update.area, area[update.area])
    <3>1. update.area \in Areas
      BY <1>0, <1>3 DEF UpdateEnds, UpdateOK
    <3>2. area[update.area] \in Area
      BY <1>0, <2>2, <3>1
    <3>3. area' = area
      BY <1>3 DEF UpdateEnds
    <3>4. QED
      BY <1>1, <2>2, <3>1, <3>2, <3>3
  <2>3. QED
    BY <1>3, <2>1, <2>2 DEF UpdateEnds
<1>4. ASSUME NEW r \in Runs, IndexAll(r)
      PROVE  Disturbing
  <2>1. area' = area
    BY <1>4 DEF IndexAll, world
  <2>2. QED
    BY <1>0, <1>4, <2>1, RunAllAreas DEF Disturbing, EnabledAreas
<1>5. ASSUME NEW r \in Runs, Steps(r)
      PROVE  UNCHANGED <<area, disk, mounted, source>>
  <2>1. CASE IndexStorageArea(r) \/ Visit(r) \/ Register(r) \/ Match(r)
    BY <2>1 DEF IndexStorageArea, Visit, Register, Match, world
  <2>2. CASE Attach(r) \/ LinkFound(r) \/ ListRecords(r) \/ MarkRecord(r) \/ MarkStale(r)
    BY <2>2 DEF Attach, LinkFound, ListRecords, MarkRecord, MarkStale, world
  <2>3. CASE AreaDone(r) \/ Cancelled(r) \/ RelinkOne(r) \/ RelinkEnds(r)
    BY <2>3 DEF AreaDone, Cancelled, RelinkOne, RelinkEnds, world
  <2>4. QED
    BY <1>5, <2>1, <2>2, <2>3, ZenonT(60) DEF Steps
<1>6. ASSUME NEW a \in Areas, NEW p \in Roots, NEW on \in BOOLEAN, UpdateStorageArea(a, p, on)
      PROVE  Disturbing
  BY <1>6 DEF UpdateStorageArea, Disturbs, Disturbing, index
<1>7. ASSUME NEW a \in Areas, DeleteStorageArea(a)
      PROVE  Disturbing
  BY <1>7 DEF DeleteStorageArea, Disturbs, Disturbing
<1>8. ASSUME NEW f \in Files, NEW p \in Places, TranscodeEnds(f, p)
      PROVE  Disturbing
  BY <1>8 DEF TranscodeEnds, Disturbs, Disturbing, index
<1>9. ASSUME NEW f \in Files, WriteSidecar(f) \/ Enqueues(f) \/ ScanFinds(f) \/ SourceChanges(f)
      PROVE  Disturbing
  BY <1>9 DEF WriteSidecar, Enqueues, ScanFinds, SourceChanges, Disturbs, Disturbing, index
<1>10. ASSUME NEW p, BundleChanges(p) \/ Mounts(p) \/ SevenDaysPass
       PROVE  Disturbing
  BY <1>10 DEF BundleChanges, Mounts, SevenDaysPass, Disturbs, Disturbing, index
<1>11. CASE UNCHANGED vars
  BY <1>11 DEF vars, index
<1>12. CASE Next
  BY <1>2, <1>3, <1>4, <1>5, <1>6, <1>7, <1>8, <1>9, <1>10, <1>12 DEF Next, Disturbing, Steps
<1>13. QED
  BY <1>11, <1>12

LEMMA RunsStep ==
  ASSUME RunsOK, WorldOK, RecordsOK, [Next]_vars
  PROVE  RunsOK'
<1>1. CASE UNCHANGED run
  BY <1>1 DEF RunsOK, RunsTyped, Aimed
<1>2. QED
  BY <1>1, StepKinds, OwnRunsStep, DisturbedRuns

LEMMA WorldStep ==
  ASSUME WorldOK, ItemsOK, [Next]_vars
  PROVE  WorldOK'
<1>0. None \notin Area
  BY RowAssumption
<1>1. ASSUME UNCHANGED <<area, disk, mounted, source, update>>
      PROVE  WorldOK'
  BY <1>1 DEF WorldOK, UpdateOK
<1>2. ASSUME NEW a \in Areas, NEW p \in Roots, NEW on \in BOOLEAN,
             CreateStorageArea(a, p, on) \/ UpdateStorageArea(a, p, on)
      PROVE  WorldOK'
  <2>1. PICK row \in Area : row = [path |-> p, enabled |-> on]
    BY DEF Area
  <2>2. area' = [area EXCEPT ![a] = row]
    BY <1>2, <2>1 DEF CreateStorageArea, UpdateStorageArea
  <2>3. area' \in [Areas -> Area \cup {None}]
    BY <2>2 DEF WorldOK
  <2>4. UpdateOK'
    <3>1. CASE CreateStorageArea(a, p, on)
      BY <3>1 DEF CreateStorageArea, WorldOK, UpdateOK
    <3>2. CASE UpdateStorageArea(a, p, on)
      <4>1. area[a] \in Area
        BY <3>2 DEF UpdateStorageArea, WorldOK
      <4>2. PICK w : w = area[a]
        OBVIOUS
      <4>3. update' = [area |-> a, was |-> w]
        BY <3>2, <4>2 DEF UpdateStorageArea
      <4>4. QED
        BY <4>1, <4>2, <4>3 DEF UpdateOK
    <3>3. QED
      BY <1>2, <3>1, <3>2
  <2>5. QED
    BY <1>2, <2>3, <2>4 DEF CreateStorageArea, UpdateStorageArea, WorldOK
<1>3. ASSUME UpdateEnds
      PROVE  WorldOK'
  BY <1>3 DEF UpdateEnds, WorldOK, UpdateOK
<1>4. ASSUME NEW a \in Areas, DeleteStorageArea(a)
      PROVE  WorldOK'
  BY <1>4 DEF DeleteStorageArea, WorldOK, UpdateOK
<1>5. ASSUME NEW r \in Runs, Steps(r) \/ IndexAll(r) \/ RelinkExact(r) \/ StatementFails(r)
      PROVE  UNCHANGED <<area, disk, mounted, source, update>>
  BY <1>5 DEF Steps, IndexStorageArea, Visit, Register, Match, Attach, LinkFound, ListRecords,
    MarkRecord, MarkStale, AreaDone, Cancelled, RelinkOne, RelinkEnds, IndexAll, RelinkExact, StatementFails, world
<1>6. ASSUME NEW f \in Files, NEW p \in Places, TranscodeEnds(f, p)
      PROVE  WorldOK'
  BY <1>6 DEF TranscodeEnds, WorldOK, UpdateOK
<1>7. ASSUME NEW f \in Files, WriteSidecar(f)
      PROVE  WorldOK'
  <2>1. item[f] \in Item /\ source[f] \in Fps \cup {None}
    BY <1>7 DEF WriteSidecar, ItemsOK, WorldOK
  <2>2. PICK fp : fp = IF item[f].fp # None THEN item[f].fp ELSE source[f]
    OBVIOUS
  <2>3. fp # None /\ item[f].mpd # None /\ disk' = [disk EXCEPT ![item[f].mpd] = [src |-> f, fp |-> fp]]
    BY <1>7, <2>2 DEF WriteSidecar
  <2>4. fp \in Fps /\ item[f].mpd \in Places
    BY <2>1, <2>2, <2>3 DEF Item
  <2>5. PICK c \in Card : c = [src |-> f, fp |-> fp]
    BY <2>4 DEF Card
  <2>6. disk' \in [Places -> Card \cup {None, Broken}]
    BY <2>3, <2>4, <2>5 DEF WorldOK
  <2>7. QED
    BY <1>7, <2>6 DEF WriteSidecar, WorldOK, UpdateOK
<1>8. ASSUME NEW f \in Files, Enqueues(f) \/ ScanFinds(f) \/ ScanDeletes(f)
      PROVE  WorldOK'
  BY <1>1, <1>8 DEF Enqueues, ScanFinds, ScanDeletes
<1>9. ASSUME NEW f \in Files, SourceChanges(f)
      PROVE  WorldOK'
  BY <1>9 DEF SourceChanges, WorldOK, UpdateOK
<1>10. ASSUME NEW p \in Places, BundleChanges(p)
       PROVE  WorldOK'
  BY <1>10 DEF BundleChanges, WorldOK, UpdateOK
<1>11. ASSUME NEW p \in Roots, Mounts(p)
       PROVE  WorldOK'
  BY <1>11 DEF Mounts, WorldOK, UpdateOK
<1>12. ASSUME SevenDaysPass \/ UNCHANGED vars
       PROVE  WorldOK'
  BY <1>1, <1>12 DEF SevenDaysPass, vars
<1>13. ASSUME DatabaseLost
       PROVE  WorldOK'
  BY <1>13 DEF DatabaseLost, WorldOK, UpdateOK
<1>14. QED
  BY <1>1, <1>2, <1>3, <1>4, <1>5, <1>6, <1>7, <1>8, <1>9, <1>10, <1>11, <1>12, <1>13
  DEF Next, Steps

\* What the scanner writes for a file: its row, perhaps a record, perhaps one link.
LEMMA ScanWrites ==
  ASSUME WorldOK, RecordsOK, ItemsOK, NEW f \in Files, ScanFinds(f)
  PROVE  /\ item' = item \/ \E j \in Item : item' = [item EXCEPT ![f] = j]
         /\ rec' = rec \/ \E x \in Artifacts, y \in Record :
                            area[x[1]] # None /\ rec' = [rec EXCEPT ![x] = y]
         /\ \/ links' = links
            \/ /\ item'[f] # None
               /\ \E x \in Artifacts, l \in Link :
                    /\ links' = links \cup {l} /\ l.art = x /\ l.file = f /\ rec'[x] # None
                    /\ ~\E k \in links : k.art = x /\ k.file = f
<1>0. /\ source[f] \in Fps /\ item[f] \in Item \cup {None}
      /\ rec \in [Artifacts -> Record \cup {None}] /\ item \in [Files -> Item \cup {None}]
      /\ area \in [Areas -> Area \cup {None}] /\ disk \in [Places -> Card \cup {None, Broken}]
  BY DEF ScanFinds, WorldOK, RecordsOK, ItemsOK
<1>1. PICK known \in Fps \cup {None} : known = IF item[f] = None THEN None ELSE item[f].fp
  <2>1. item[f] # None => item[f].fp \in Fps \cup {None}
    BY <1>0 DEF Item
  <2>2. QED
    BY <2>1
<1>2. ASSUME NEW fp \in Fps \cup {None}, StaysPlain(f, fp)
      PROVE  links' = links /\ rec' = rec /\ \E j \in Item : item' = [item EXCEPT ![f] = j]
  <2>1. links' = links /\ rec' = rec
    BY <1>2 DEF StaysPlain, index
  <2>2. CASE item[f] = None
    <3>1. PICK j \in Item : j = [fp |-> fp, done |-> FALSE, mpd |-> None]
      BY DEF Item
    <3>2. item' = [item EXCEPT ![f] = j]
      BY <1>2, <2>2, <3>1 DEF StaysPlain
    <3>3. QED
      BY <2>1, <3>2
  <2>3. CASE item[f] # None
    <3>1. PICK i \in Item : i = item[f]
      BY <1>0, <2>3
    <3>2. PICK j : j = [i EXCEPT !.fp = fp]
      BY Zenon
    <3>3. j \in Item
      BY <3>2 DEF Item
    <3>4. item' = [item EXCEPT ![f] = j]
      BY <1>2, <2>3, <3>1, <3>2 DEF StaysPlain
    <3>5. QED
      BY <2>1, <3>3, <3>4
  <2>4. QED
    BY <2>2, <2>3
<1>3. ASSUME NEW fp \in Fps, NEW x \in Artifacts, NEW p \in Places, Discovers(f, fp, x, p), rec'[x] # None
      PROVE  /\ item' = item \/ \E j \in Item : item' = [item EXCEPT ![f] = j]
             /\ \/ links' = links
                \/ /\ item'[f] # None
                   /\ \E l \in Link : /\ links' = links \cup {l} /\ l.art = x /\ l.file = f
                                      /\ ~\E k \in links : k.art = x /\ k.file = f
  <2>1. PICK j \in Item : j = [fp |-> fp, done |-> TRUE, mpd |-> p]
    BY DEF Item
  <2>2. PICK l \in Link : l = [art |-> x, file |-> f, status |-> "linked"]
    BY DEF Link, LinkStatus
  <2>3. l.art = x /\ l.file = f
    BY <2>2
  <2>4. j # None
    BY <2>1, RowAssumption
  <2>5. \/ item' = item /\ links' = links
        \/ /\ item' = [item EXCEPT ![f] = j]
           /\ \/ links' = links
              \/ links' = links \cup {l} /\ ~\E k \in links : k.art = x /\ k.file = f
    BY <1>3, <2>1, <2>2 DEF Discovers
  <2>6. item' = [item EXCEPT ![f] = j] => item'[f] # None
    BY <1>0, <2>4
  <2>7. QED
    BY <2>3, <2>5, <2>6
<1>4. ASSUME NEW fp \in Fps, NEW x \in Indexed(fp), Discovers(f, fp, x, rec[x].place), rec' = rec
      PROVE  x \in Artifacts /\ rec[x].place \in Places /\ rec'[x] # None
  <2>1. x \in Artifacts /\ rec[x] \in Record
    BY <1>0 DEF Indexed
  <2>2. QED
    BY <1>4, <2>1, RowAssumption DEF Record
<1>5. ASSUME NEW fp \in Fps, NEW b \in Unindexed(fp)
      PROVE  /\ <<b[1], disk[b[2]].src>> \in Artifacts /\ area[b[1]] # None
             /\ \A x : x = <<b[1], disk[b[2]].src>> =>
                  /\ Registered(rec[x], b[2], fp) \in Record
                  /\ Registered(rec[x], b[2], fp).place \in Places
  <2>1. b[1] \in Areas /\ b[2] \in Places /\ area[b[1]] # None /\ disk[b[2]] \in Card
    BY <1>0 DEF Unindexed, EnabledAreas, Readable, Sidecar
  <2>2. PICK c \in Card : c = disk[b[2]]
    BY <2>1
  <2>3. PICK x \in Artifacts : x = <<b[1], disk[b[2]].src>>
    BY <2>1, <2>2 DEF Artifacts, Card
  <2>4. PICK p \in Places : p = IF rec[x] # None THEN rec[x].place ELSE b[2]
    <3>1. rec[x] # None => rec[x].place \in Places
      BY <1>0 DEF Record
    <3>2. QED
      BY <2>1, <3>1
  <2>5. PICK y \in Record : y = [place |-> p, fp |-> fp, health |-> "healthy", old |-> FALSE]
    BY DEF Record, Health
  <2>6. y.place = p
    BY <2>5
  <2>7. Registered(rec[x], b[2], fp) = y
    BY <2>4, <2>5 DEF Registered
  <2>8. QED
    BY <2>1, <2>3, <2>6, <2>7
<1>6. ASSUME NEW fp \in Fps, LinksToBundle(f, fp)
      PROVE  \E x \in Artifacts, p \in Places :
               /\ Discovers(f, fp, x, p) /\ rec'[x] # None
               /\ rec' = rec \/ \E y \in Record : area[x[1]] # None /\ rec' = [rec EXCEPT ![x] = y]
  <2>1. ASSUME NEW x \in Indexed(fp), Discovers(f, fp, x, rec[x].place), rec' = rec
        PROVE  \E p \in Places : x \in Artifacts /\ Discovers(f, fp, x, p) /\ rec'[x] # None
    BY <1>4, <2>1
  <2>2. ASSUME NEW b \in Unindexed(fp), NEW x, NEW new, x = <<b[1], disk[b[2]].src>>,
               new = Registered(rec[x], b[2], fp),
               rec' = [rec EXCEPT ![x] = new], Discovers(f, fp, x, new.place)
        PROVE  /\ x \in Artifacts /\ new.place \in Places /\ rec'[x] # None
               /\ new \in Record /\ area[x[1]] # None
    <3>1. x \in Artifacts /\ new \in Record /\ new.place \in Places /\ area[b[1]] # None
      BY <1>5, <2>2
    <3>2. x[1] = b[1] /\ new # None
      BY <2>2, <3>1, RowAssumption
    <3>3. QED
      BY <1>0, <2>2, <3>1, <3>2
  <2>3. QED
    BY <1>6, <2>1, <2>2 DEF LinksToBundle
<1>7. \/ \E fp \in Fps \cup {None} : StaysPlain(f, fp)
      \/ \E fp \in Fps : LinksToBundle(f, fp)
  BY <1>0, <1>1 DEF ScanFinds
<1>8. QED
  BY <1>2, <1>3, <1>6, <1>7

LEMMA ItemsStep ==
  ASSUME ItemsOK, WorldOK, RecordsOK, RunsOK, [Next]_vars
  PROVE  ItemsOK'
<1>1. ASSUME NEW r \in Runs, Steps(r) \/ IndexAll(r) \/ RelinkExact(r) \/ StatementFails(r), ~Attach(r)
      PROVE  item' = item
  BY <1>1 DEF Steps, IndexStorageArea, Visit, Register, Match, LinkFound, ListRecords,
    MarkRecord, MarkStale, AreaDone, Cancelled, RelinkOne, RelinkEnds, IndexAll, RelinkExact, StatementFails
<1>2. ASSUME NEW r \in Runs, Attach(r)
      PROVE  ItemsOK'
  <2>1. run[r].card \in Card /\ run[r].place \in Places /\ run[r].row \in Files
    BY <1>2 DEF Attach, RunsOK, Aimed, AtPlace
  <2>2. PICK i \in Item : i = [fp |-> run[r].card.fp, done |-> TRUE, mpd |-> run[r].place]
    BY <2>1 DEF Item, Card
  <2>3. item' = [item EXCEPT ![run[r].row] = i]
    BY <1>2, <2>2 DEF Attach, Attached
  <2>4. QED
    BY <2>1, <2>3 DEF ItemsOK
<1>3. ASSUME NEW f \in Files, NEW p \in Places, TranscodeEnds(f, p)
      PROVE  ItemsOK'
  <2>1. PICK i \in Item : i = item[f]
    BY <1>3 DEF TranscodeEnds, ItemsOK
  <2>2. PICK j : j = [i EXCEPT !.done = TRUE, !.mpd = p]
    BY Zenon
  <2>3. j \in Item
    BY <2>2 DEF Item
  <2>4. item' = [item EXCEPT ![f] = j]
    BY <1>3, <2>1, <2>2 DEF TranscodeEnds, ItemsOK
  <2>5. QED
    BY <2>3, <2>4 DEF ItemsOK
<1>4. ASSUME NEW f \in Files, Enqueues(f)
      PROVE  ItemsOK'
  <2>1. PICK i \in Item : i = item[f]
    BY <1>4 DEF Enqueues, ItemsOK
  <2>2. PICK j : j = [i EXCEPT !.done = FALSE]
    BY Zenon
  <2>3. j \in Item
    BY <2>2 DEF Item
  <2>4. item' = [item EXCEPT ![f] = j]
    BY <1>4, <2>1, <2>2 DEF Enqueues, ItemsOK
  <2>5. QED
    BY <2>3, <2>4 DEF ItemsOK
<1>5. ASSUME NEW f \in Files, ScanFinds(f)
      PROVE  ItemsOK'
  BY <1>5, ScanWrites DEF ItemsOK
<1>6. ASSUME NEW f \in Files, ScanDeletes(f)
      PROVE  ItemsOK'
  BY <1>6 DEF ScanDeletes, ItemsOK
<1>7. ASSUME DatabaseLost
      PROVE  ItemsOK'
  BY <1>7 DEF DatabaseLost, ItemsOK
<1>8. ASSUME item' = item
      PROVE  ItemsOK'
  BY <1>8 DEF ItemsOK
<1>9. ASSUME NEW a \in Areas, NEW p \in Roots, NEW on \in BOOLEAN,
             CreateStorageArea(a, p, on) \/ UpdateStorageArea(a, p, on)
      PROVE  item' = item
  BY <1>9 DEF CreateStorageArea, UpdateStorageArea
<1>10. ASSUME NEW a \in Areas, DeleteStorageArea(a)
       PROVE  item' = item
  BY <1>10 DEF DeleteStorageArea
<1>11. ASSUME NEW f \in Files, WriteSidecar(f) \/ SourceChanges(f)
       PROVE  item' = item
  BY <1>11 DEF WriteSidecar, SourceChanges
<1>12. ASSUME NEW p, BundleChanges(p) \/ Mounts(p)
       PROVE  item' = item
  BY <1>12 DEF BundleChanges, Mounts
<1>13. ASSUME SevenDaysPass \/ UpdateEnds \/ UNCHANGED vars
       PROVE  item' = item
  BY <1>13 DEF SevenDaysPass, UpdateEnds, vars
<1>14. QED
  BY <1>1, <1>2, <1>3, <1>4, <1>5, <1>6, <1>7, <1>8, <1>9, <1>10, <1>11, <1>12, <1>13
  DEF Next, Steps

LEMMA HealthTyped ==
  ASSUME NEW r, NEW m, NEW h \in Health
  PROVE  HealthFound(r, m, h) \in Health
  BY DEF HealthFound, Health

\* The statements that write records of a run.
LEMMA RecordWritten ==
  ASSUME RunsOK, WorldOK, RecordsOK, NEW r \in Runs, Register(r), area[run[r].area] # None
  PROVE  /\ Art(r) \in Artifacts
         /\ \E y \in Record : /\ rec' = [rec EXCEPT ![Art(r)] = y]
                              /\ y.health = "healthy" /\ y.old = FALSE /\ y.fp = run[r].card.fp
<1>1. /\ run[r].area \in Areas /\ run[r].place \in Places /\ run[r].card \in Card
      /\ run[r] \in Run
  BY DEF Register, RunsOK, RunsTyped, Aimed, AtPlace, Stages
<1>2. Art(r) \in Artifacts
  BY <1>1 DEF Art, Artifacts, Card
<1>3. run[r].known # None => run[r].known \in Record
  BY <1>1 DEF Run, Or
<1>4. PICK q \in Places : q = IF run[r].known # None THEN run[r].known.place ELSE run[r].place
  BY <1>1, <1>3 DEF Record
<1>5. PICK y \in Record : y = [place |-> q, fp |-> run[r].card.fp, health |-> "healthy", old |-> FALSE]
  BY <1>1 DEF Record, Card, Health
<1>6. rec' = [rec EXCEPT ![Art(r)] = y]
  BY <1>4, <1>5 DEF Register, UpsertArtifactRecord, Registered, Art
<1>7. y.health = "healthy" /\ y.old = FALSE /\ y.fp = run[r].card.fp
  BY <1>5
<1>8. QED
  BY <1>2, <1>6, <1>7

\* A statement that marks a record changes its health only.
LEMMA RecordMarked ==
  ASSUME RunsOK, WorldOK, RecordsOK, NEW r \in Runs, MarkRecord(r)
  PROVE  \E m \in run[r].marks :
           /\ m.file \in Files /\ <<run[r].area, m.file>> \in Artifacts
           /\ run'[r].marks = run[r].marks \ {m}
           /\ \/ rec' = rec /\ rec[run[r].area, m.file] = None
              \/ /\ rec[run[r].area, m.file] \in Record
                 /\ \E y \in Record :
                      /\ rec' = [rec EXCEPT ![<<run[r].area, m.file>>] = y]
                      /\ y.health = HealthFound(r, m, rec[run[r].area, m.file].health)
                      /\ y.fp = rec[run[r].area, m.file].fp /\ y.old = rec[run[r].area, m.file].old
<1>1. RunsTyped /\ run[r].area \in Areas /\ rec \in [Artifacts -> Record \cup {None}]
  BY DEF RunsOK, MarkRecord, Aimed, Stages, RecordsOK
<1>2. PICK m \in run[r].marks :
        /\ m.file \in Files
        /\ run'[r].marks = run[r].marks \ {m}
        /\ rec' = IF rec[run[r].area, m.file] = None THEN rec
                  ELSE [rec EXCEPT ![<<run[r].area, m.file>>].health =
                          HealthFound(r, m, rec[run[r].area, m.file].health)]
  BY <1>1, RunMarks
<1>3. PICK x \in Artifacts : x = <<run[r].area, m.file>>
  BY <1>1, <1>2 DEF Artifacts
<1>4. ASSUME rec[x] # None
      PROVE  \E y \in Record :
               /\ rec' = [rec EXCEPT ![x] = y]
               /\ y.health = HealthFound(r, m, rec[x].health)
               /\ y.fp = rec[x].fp /\ y.old = rec[x].old
  <2>1. PICK c \in Record : c = rec[x]
    BY <1>1, <1>4
  <2>2. PICK h \in Health : h = HealthFound(r, m, c.health)
    BY HealthTyped DEF Record
  <2>3. PICK y : y = [c EXCEPT !.health = h]
    BY Zenon
  <2>4. y \in Record /\ y.health = h /\ y.fp = c.fp /\ y.old = c.old
    BY <2>3 DEF Record
  <2>5. rec' = [rec EXCEPT ![x] = y]
    BY <1>1, <1>2, <1>3, <1>4, <2>1, <2>2, <2>3
  <2>6. QED
    BY <2>1, <2>2, <2>4, <2>5
<1>5. rec[x] # None => rec[x] \in Record
  BY <1>1
<1>6. QED
  BY <1>2, <1>3, <1>4, <1>5

LEMMA RecordsMarked ==
  ASSUME RecordsOK, NEW r \in Runs, MarkStale(r)
  PROVE  /\ rec' \in [Artifacts -> Record \cup {None}]
         /\ \A x \in Artifacts : rec[x] = None <=> rec'[x] = None
         /\ \A x \in Artifacts :
              rec[x] # None /\ (rec[x].health = "missing" \/ ~rec[x].old) => rec'[x] = rec[x]
         /\ \A x \in Artifacts : rec[x] # None => rec'[x].fp = rec[x].fp
<1>1. ASSUME NEW c \in Record
      PROVE  /\ [c EXCEPT !.health = "stale"] \in Record /\ [c EXCEPT !.health = "stale"] # None
             /\ [c EXCEPT !.health = "stale"].fp = c.fp
  <2>1. PICK y : y = [c EXCEPT !.health = "stale"]
    BY Zenon
  <2>2. y \in Record /\ y.fp = c.fp
    BY <2>1 DEF Record, Health
  <2>3. y # None
    BY <2>2, RowAssumption
  <2>4. QED
    BY <2>1, <2>2, <2>3
<1>2. \A x \in Artifacts : rec'[x] = IF x[1] = run[r].area /\ rec[x] # None /\ rec[x].health # "missing"
                                        /\ rec[x].old
                                     THEN [rec[x] EXCEPT !.health = "stale"] ELSE rec[x]
  BY DEF MarkStale
<1>3. \A x \in Artifacts : rec[x] \in Record \cup {None}
  BY DEF RecordsOK
<1>4. \A x \in Artifacts : rec'[x] \in Record \cup {None} /\ (rec[x] = None <=> rec'[x] = None)
  BY <1>1, <1>2, <1>3
<1>5. \A x \in Artifacts : rec[x] # None => rec'[x].fp = rec[x].fp
  BY <1>1, <1>2, <1>3
<1>6. rec' \in [Artifacts -> Record \cup {None}]
  <2>1. \E g : rec' = [x \in Artifacts |-> g[x]]
    <3>1. rec' = [x \in Artifacts |-> rec'[x]]
      BY DEF MarkStale
    <3>2. QED
      BY <3>1
  <2>2. QED
    BY <1>4, <2>1
<1>7. QED
  BY <1>2, <1>4, <1>5, <1>6

LEMMA RecordsAge ==
  ASSUME RecordsOK, SevenDaysPass
  PROVE  /\ rec' \in [Artifacts -> Record \cup {None}]
         /\ \A x \in Artifacts : rec[x] = None <=> rec'[x] = None
<1>1. ASSUME NEW c \in Record
      PROVE  [c EXCEPT !.old = TRUE] \in Record /\ [c EXCEPT !.old = TRUE] # None
  <2>1. PICK y : y = [c EXCEPT !.old = TRUE]
    BY Zenon
  <2>2. y \in Record
    BY <2>1 DEF Record
  <2>3. y # None
    BY <2>2, RowAssumption
  <2>4. QED
    BY <2>1, <2>2, <2>3
<1>2. rec' = [x \in Artifacts |-> IF rec[x] = None THEN None ELSE [rec[x] EXCEPT !.old = TRUE]]
  BY DEF SevenDaysPass
<1>3. \A x \in Artifacts : rec[x] \in Record \cup {None}
  BY DEF RecordsOK
<1>4. \A x \in Artifacts : rec'[x] \in Record \cup {None} /\ (rec[x] = None <=> rec'[x] = None)
  BY <1>1, <1>2, <1>3
<1>5. rec' \in [Artifacts -> Record \cup {None}]
  <2>1. rec' = [x \in Artifacts |-> rec'[x]]
    BY <1>2
  <2>2. QED
    BY <1>4, <2>1
<1>6. QED
  BY <1>4, <1>5

\* What a step does to the records: none goes but with its area, or the database.
LEMMA RecordsGo ==
  ASSUME RunsOK, WorldOK, RecordsOK, ItemsOK, [Next]_vars
  PROVE  /\ rec' \in [Artifacts -> Record \cup {None}]
         /\ \/ DatabaseLost
            \/ \E a \in Areas : DeleteStorageArea(a)
            \/ \A x \in Artifacts : rec[x] # None => rec'[x] # None
         /\ \A x \in Artifacts : rec'[x] # None => rec[x] # None \/ area[x[1]] # None
<1>1. ASSUME rec' = rec
      PROVE  /\ rec' \in [Artifacts -> Record \cup {None}]
             /\ \A x \in Artifacts : rec[x] # None <=> rec'[x] # None
  BY <1>1 DEF RecordsOK
<1>2. ASSUME NEW r \in Runs, Steps(r) \/ IndexAll(r) \/ RelinkExact(r) \/ StatementFails(r),
             ~Register(r), ~MarkRecord(r), ~MarkStale(r)
      PROVE  rec' = rec
  BY <1>2 DEF Steps, IndexStorageArea, Visit, Match, Attach, LinkFound, ListRecords,
    AreaDone, Cancelled, RelinkOne, RelinkEnds, IndexAll, RelinkExact, StatementFails, index
<1>3. ASSUME NEW r \in Runs, Register(r)
      PROVE  /\ rec' \in [Artifacts -> Record \cup {None}]
             /\ \A x \in Artifacts : rec[x] # None => rec'[x] # None
             /\ \A x \in Artifacts : rec'[x] # None => rec[x] # None \/ area[x[1]] # None
  <2>1. CASE area[run[r].area] = None
    BY <1>1, <1>3, <2>1 DEF Register
  <2>2. CASE area[run[r].area] # None
    <3>1. PICK y \in Record : rec' = [rec EXCEPT ![Art(r)] = y]
      BY <1>3, <2>2, RecordWritten
    <3>2. y # None /\ Art(r) \in Artifacts /\ Art(r)[1] = run[r].area
      BY <1>3, <2>2, RecordWritten, RowAssumption DEF Art
    <3>3. QED
      BY <2>2, <3>1, <3>2 DEF RecordsOK
  <2>3. QED
    BY <2>1, <2>2
<1>4. ASSUME NEW r \in Runs, MarkRecord(r)
      PROVE  /\ rec' \in [Artifacts -> Record \cup {None}]
             /\ \A x \in Artifacts : rec[x] # None <=> rec'[x] # None
  <2>1. rec' = rec \/ \E x \in Artifacts, y \in Record : rec[x] # None /\ rec' = [rec EXCEPT ![x] = y]
    BY <1>4, RecordMarked, RowAssumption
  <2>2. \A y \in Record : y # None
    BY RowAssumption
  <2>3. QED
    BY <1>1, <2>1, <2>2 DEF RecordsOK
<1>5. ASSUME NEW r \in Runs, MarkStale(r)
      PROVE  /\ rec' \in [Artifacts -> Record \cup {None}]
             /\ \A x \in Artifacts : rec[x] # None <=> rec'[x] # None
  BY <1>5, RecordsMarked
<1>6. ASSUME SevenDaysPass
      PROVE  /\ rec' \in [Artifacts -> Record \cup {None}]
             /\ \A x \in Artifacts : rec[x] # None <=> rec'[x] # None
  BY <1>6, RecordsAge
<1>7. ASSUME DatabaseLost \/ \E a \in Areas : DeleteStorageArea(a)
      PROVE  /\ rec' \in [Artifacts -> Record \cup {None}]
             /\ \A x \in Artifacts : rec'[x] # None => rec[x] # None
  BY <1>7 DEF DatabaseLost, DeleteStorageArea, RecordsOK
<1>8. ASSUME NEW a \in Areas, NEW p \in Roots, NEW on \in BOOLEAN,
             CreateStorageArea(a, p, on) \/ UpdateStorageArea(a, p, on)
      PROVE  rec' = rec
  BY <1>8 DEF CreateStorageArea, UpdateStorageArea, index
<1>9. ASSUME UpdateEnds \/ UNCHANGED vars
      PROVE  rec' = rec
  BY <1>9 DEF UpdateEnds, vars, index
<1>10. ASSUME NEW f \in Files, NEW p \in Places, TranscodeEnds(f, p)
       PROVE  rec' = rec
  BY <1>10 DEF TranscodeEnds, index
<1>11. ASSUME NEW f \in Files, WriteSidecar(f) \/ Enqueues(f) \/ ScanDeletes(f) \/ SourceChanges(f)
       PROVE  rec' = rec
  BY <1>11 DEF WriteSidecar, Enqueues, ScanDeletes, SourceChanges, index
<1>12. ASSUME NEW p, BundleChanges(p) \/ Mounts(p)
       PROVE  rec' = rec
  BY <1>12 DEF BundleChanges, Mounts, index
<1>13. ASSUME NEW f \in Files, ScanFinds(f)
       PROVE  /\ rec' \in [Artifacts -> Record \cup {None}]
              /\ \A x \in Artifacts : rec[x] # None => rec'[x] # None
              /\ \A x \in Artifacts : rec'[x] # None => rec[x] # None \/ area[x[1]] # None
  <2>1. CASE rec' = rec
    BY <1>1, <2>1
  <2>2. ASSUME NEW x \in Artifacts, NEW y \in Record, area[x[1]] # None, rec' = [rec EXCEPT ![x] = y]
        PROVE  /\ rec' \in [Artifacts -> Record \cup {None}]
               /\ \A z \in Artifacts : rec[z] # None => rec'[z] # None
               /\ \A z \in Artifacts : rec'[z] # None => rec[z] # None \/ area[z[1]] # None
    <3>1. y # None
      BY RowAssumption
    <3>2. QED
      BY <2>2, <3>1 DEF RecordsOK
  <2>3. QED
    BY <1>13, <2>1, <2>2, ScanWrites
<1>14. QED
  BY <1>1, <1>2, <1>3, <1>4, <1>5, <1>6, <1>7, <1>8, <1>9, <1>10, <1>11, <1>12, <1>13 DEF Next, Steps

LEMMA RecordsStep ==
  ASSUME RunsOK, WorldOK, RecordsOK, ItemsOK, [Next]_vars
  PROVE  RecordsOK'
<1>1. CASE DatabaseLost
  BY <1>1, RecordsGo DEF DatabaseLost, RecordsOK
<1>2. ASSUME NEW a \in Areas, DeleteStorageArea(a)
      PROVE  RecordsOK'
  <2>1. \A x \in Artifacts : rec'[x] # None => rec[x] # None /\ x[1] # a /\ x[1] \in Areas
    BY <1>2 DEF DeleteStorageArea, Artifacts
  <2>2. \A b \in Areas \ {a} : area'[b] = area[b]
    BY <1>2 DEF DeleteStorageArea, WorldOK
  <2>3. QED
    BY <2>1, <2>2, RecordsGo DEF RecordsOK
<1>3. ASSUME ~DatabaseLost, \A a \in Areas : ~DeleteStorageArea(a)
      PROVE  RecordsOK'
  <2>1. \A a \in Areas : area[a] # None => area'[a] # None
    <3>1. ASSUME NEW b \in Areas, NEW p \in Roots, NEW on \in BOOLEAN,
                 CreateStorageArea(b, p, on) \/ UpdateStorageArea(b, p, on)
          PROVE  \A a \in Areas : area[a] # None => area'[a] # None
      <4>1. PICK row \in Area : row = [path |-> p, enabled |-> on]
        BY DEF Area
      <4>2. area' = [area EXCEPT ![b] = row] /\ row # None
        BY <3>1, <4>1, RowAssumption DEF CreateStorageArea, UpdateStorageArea
      <4>3. QED
        BY <4>2 DEF WorldOK
    <3>2. CASE UNCHANGED area
      BY <3>2
    <3>3. ASSUME NEW f \in Files, NEW p \in Places, TranscodeEnds(f, p)
          PROVE  UNCHANGED area
      BY <3>3 DEF TranscodeEnds
    <3>4. ASSUME NEW f \in Files,
                 WriteSidecar(f) \/ Enqueues(f) \/ ScanFinds(f) \/ ScanDeletes(f) \/ SourceChanges(f)
          PROVE  UNCHANGED area
      BY <3>4 DEF WriteSidecar, Enqueues, ScanFinds, ScanDeletes, SourceChanges
    <3>5. ASSUME NEW p, BundleChanges(p) \/ Mounts(p) \/ SevenDaysPass \/ UpdateEnds \/ UNCHANGED vars
          PROVE  UNCHANGED area
      BY <3>5 DEF BundleChanges, Mounts, SevenDaysPass, UpdateEnds, vars
    <3>6. ASSUME NEW r \in Runs, Steps(r) \/ IndexAll(r) \/ RelinkExact(r) \/ StatementFails(r)
          PROVE  UNCHANGED area
      <4>1. CASE IndexStorageArea(r) \/ Visit(r) \/ Register(r) \/ Match(r) \/ Attach(r)
        BY <4>1 DEF IndexStorageArea, Visit, Register, Match, Attach, world
      <4>2. CASE LinkFound(r) \/ ListRecords(r) \/ MarkRecord(r) \/ MarkStale(r) \/ AreaDone(r)
        BY <4>2 DEF LinkFound, ListRecords, MarkRecord, MarkStale, AreaDone, world
      <4>3. CASE Cancelled(r) \/ RelinkOne(r) \/ RelinkEnds(r) \/ IndexAll(r) \/ RelinkExact(r) \/ StatementFails(r)
        BY <4>3 DEF Cancelled, RelinkOne, RelinkEnds, IndexAll, RelinkExact, StatementFails, world
      <4>4. QED
        BY <3>6, <4>1, <4>2, <4>3, ZenonT(60) DEF Steps
    <3>7. QED
      BY <1>3, <3>1, <3>2, <3>3, <3>4, <3>5, <3>6 DEF Next, Steps
  <2>2. \A x \in Artifacts : x[1] \in Areas
    BY DEF Artifacts
  <2>3. QED
    BY <2>1, <2>2, RecordsGo DEF RecordsOK
<1>4. QED
  BY <1>1, <1>2, <1>3

\* CreateArtifactMediaLink inserts what it says, of rows that exist, and no second link.
LEMMA NewLinksAre ==
  ASSUME NEW x \in Artifacts, NEW f \in Files, NEW status \in LinkStatus
  PROVE  /\ \A l \in NewLinks(x, f, status) :
              /\ l \in Link /\ l.art = x /\ l.file = f /\ l.status = status
              /\ rec[x] # None /\ item[f] # None
              /\ \A k \in links : ~(k.art = x /\ k.file = f)
         /\ \A k, l \in NewLinks(x, f, status) : k = l
         /\ \/ NewLinks(x, f, status) # {} \/ rec[x] = None \/ item[f] = None
            \/ \E l \in links : l.art = x /\ l.file = f
<1>1. PICK new \in Link : new = [art |-> x, file |-> f, status |-> status]
  BY DEF Link
<1>2. new.art = x /\ new.file = f /\ new.status = status
  BY <1>1
<1>3. NewLinks(x, f, status) =
        IF rec[x] = None \/ item[f] = None \/ \E l \in links : l.art = x /\ l.file = f THEN {} ELSE {new}
  BY <1>1 DEF NewLinks
<1>4. QED
  BY <1>2, <1>3

\* The links of one artifact and several files.
LEMMA RelinkLinks ==
  ASSUME RunsOK, NEW r \in Runs, RelinkOne(r)
  PROVE  \E u \in run[r].arts :
           /\ u.art \in Artifacts /\ run'[r].arts = run[r].arts \ {u}
           /\ \/ Matching(u, run[r].enabled) = {} /\ links' = links
              \/ \E first \in Matching(u, run[r].enabled) :
                   /\ links \subseteq links'
                   /\ \A l \in links' \ links :
                        \E f \in Files : l \in NewLinks(u.art, f, StatusOf(f, first))
                   /\ \A f \in Matching(u, run[r].enabled) :
                        NewLinks(u.art, f, StatusOf(f, first)) \subseteq links'
<1>1. RunsTyped
  BY DEF RunsOK
<1>2. PICK u \in run[r].arts :
        /\ u \in [art : Artifacts, fp : Fps] /\ run'[r].arts = run[r].arts \ {u}
        /\ LET found == Matching(u, run[r].enabled)
           IN IF found = {} THEN UNCHANGED links
              ELSE \E first \in found :
                links' = links \cup UNION {NewLinks(u.art, f, StatusOf(f, first)) : f \in found}
  BY <1>1, RunRelinks
<1>3. Matching(u, run[r].enabled) \subseteq Files
  BY DEF Matching
<1>4. PICK F \in SUBSET Files : F = Matching(u, run[r].enabled)
  BY <1>3
<1>5. CASE F = {}
  BY <1>2, <1>4, <1>5
<1>6. CASE F # {}
  <2>1. PICK first \in F : links' = links \cup UNION {NewLinks(u.art, f, StatusOf(f, first)) : f \in F}
    BY <1>2, <1>4, <1>6
  <2>2. \A f \in F : NewLinks(u.art, f, StatusOf(f, first)) \subseteq links'
    BY <2>1
  <2>3. \A l \in links' \ links : \E f \in F : l \in NewLinks(u.art, f, StatusOf(f, first))
    BY <2>1
  <2>4. links \subseteq links'
    BY <2>1
  <2>5. QED
    BY <1>2, <1>4, <2>2, <2>3, <2>4
<1>7. QED
  BY <1>5, <1>6

LEMMA StatusTyped == \A f, first : StatusOf(f, first) \in LinkStatus
  BY DEF StatusOf, LinkStatus

\* The steps that insert links, and the steps that delete them with a row.
LEMMA LinksGo ==
  ASSUME RunsOK, WorldOK, RecordsOK, [Next]_vars
  PROVE  \/ links' = links
         \/ DatabaseLost
         \/ \E a \in Areas : DeleteStorageArea(a)
         \/ \E f \in Files : ScanDeletes(f)
         \/ \E f \in Files : ScanFinds(f)
         \/ \E r \in Runs : LinkFound(r) \/ RelinkOne(r)
<1>1. ASSUME NEW a \in Areas, NEW p \in Roots, NEW on \in BOOLEAN,
             CreateStorageArea(a, p, on) \/ UpdateStorageArea(a, p, on)
      PROVE  links' = links
  BY <1>1 DEF CreateStorageArea, UpdateStorageArea, index
<1>2. ASSUME UpdateEnds \/ SevenDaysPass \/ UNCHANGED vars
      PROVE  links' = links
  BY <1>2 DEF UpdateEnds, SevenDaysPass, vars, index
<1>3. ASSUME NEW f \in Files, NEW p \in Places, TranscodeEnds(f, p)
      PROVE  links' = links
  BY <1>3 DEF TranscodeEnds, index
<1>4. ASSUME NEW f \in Files, WriteSidecar(f) \/ Enqueues(f) \/ SourceChanges(f)
      PROVE  links' = links
  BY <1>4 DEF WriteSidecar, Enqueues, SourceChanges, index
<1>5. ASSUME NEW p, BundleChanges(p) \/ Mounts(p)
      PROVE  links' = links
  BY <1>5 DEF BundleChanges, Mounts, index
<1>6. ASSUME NEW r \in Runs, Steps(r) \/ IndexAll(r) \/ RelinkExact(r) \/ StatementFails(r), ~LinkFound(r), ~RelinkOne(r)
      PROVE  links' = links
  <2>1. CASE IndexStorageArea(r) \/ Visit(r) \/ Register(r) \/ Match(r) \/ Attach(r)
    BY <2>1 DEF IndexStorageArea, Visit, Register, Match, Attach, index
  <2>2. CASE ListRecords(r) \/ MarkRecord(r) \/ MarkStale(r) \/ AreaDone(r)
    BY <2>2 DEF ListRecords, MarkRecord, MarkStale, AreaDone, index
  <2>3. CASE Cancelled(r) \/ RelinkEnds(r) \/ IndexAll(r) \/ RelinkExact(r) \/ StatementFails(r)
    BY <2>3 DEF Cancelled, RelinkEnds, IndexAll, RelinkExact, StatementFails, index
  <2>4. QED
    BY <1>6, <2>1, <2>2, <2>3, ZenonT(60) DEF Steps
<1>7. QED
  BY <1>1, <1>2, <1>3, <1>4, <1>5, <1>6 DEF Next, Steps

\* No item goes but with its row, or the database.
LEMMA ItemsGo ==
  ASSUME RunsOK, WorldOK, RecordsOK, ItemsOK, [Next]_vars
  PROVE  \/ DatabaseLost
         \/ \E f \in Files : ScanDeletes(f)
         \/ \A f \in Files : item[f] # None => item'[f] # None
<1>0. \A i \in Item : i # None
  BY RowAssumption
<1>1. ASSUME NEW a \in Areas, NEW p \in Roots, NEW on \in BOOLEAN,
             CreateStorageArea(a, p, on) \/ UpdateStorageArea(a, p, on)
      PROVE  item' = item
  BY <1>1 DEF CreateStorageArea, UpdateStorageArea
<1>2. ASSUME UpdateEnds \/ SevenDaysPass \/ UNCHANGED vars
      PROVE  item' = item
  BY <1>2 DEF UpdateEnds, SevenDaysPass, vars
<1>3. ASSUME NEW g \in Files, NEW p \in Places, TranscodeEnds(g, p)
      PROVE  \A f \in Files : item[f] # None => item'[f] # None
  <2>1. PICK i \in Item : i = item[g]
    BY <1>3 DEF TranscodeEnds, ItemsOK
  <2>2. PICK j : j = [i EXCEPT !.done = TRUE, !.mpd = p]
    BY Zenon
  <2>3. j \in Item
    BY <2>2 DEF Item
  <2>4. item' = [item EXCEPT ![g] = j]
    BY <1>3, <2>1, <2>2 DEF TranscodeEnds, ItemsOK
  <2>5. QED
    BY <1>0, <2>3, <2>4 DEF ItemsOK
<1>4. ASSUME NEW f \in Files, WriteSidecar(f) \/ SourceChanges(f)
      PROVE  item' = item
  BY <1>4 DEF WriteSidecar, SourceChanges
<1>5. ASSUME NEW g \in Files, Enqueues(g) \/ ScanFinds(g)
      PROVE  \A f \in Files : item[f] # None => item'[f] # None
  <2>1. CASE ScanFinds(g)
    BY <1>0, <2>1, ScanWrites DEF ItemsOK
  <2>2. CASE Enqueues(g)
    <3>1. PICK i \in Item : i = item[g]
      BY <2>2 DEF Enqueues, ItemsOK
    <3>2. PICK j : j = [i EXCEPT !.done = FALSE]
      BY Zenon
    <3>3. j \in Item
      BY <3>2 DEF Item
    <3>4. item' = [item EXCEPT ![g] = j]
      BY <2>2, <3>1, <3>2 DEF Enqueues, ItemsOK
    <3>5. QED
      BY <1>0, <3>3, <3>4 DEF ItemsOK
  <2>3. QED
    BY <1>5, <2>1, <2>2
<1>6. ASSUME NEW p, BundleChanges(p) \/ Mounts(p)
      PROVE  item' = item
  BY <1>6 DEF BundleChanges, Mounts
<1>7. ASSUME NEW r \in Runs, Steps(r) \/ IndexAll(r) \/ RelinkExact(r) \/ StatementFails(r), ~Attach(r)
      PROVE  item' = item
  <2>1. CASE IndexStorageArea(r) \/ Visit(r) \/ Register(r) \/ Match(r) \/ LinkFound(r)
    BY <2>1 DEF IndexStorageArea, Visit, Register, Match, LinkFound
  <2>2. CASE ListRecords(r) \/ MarkRecord(r) \/ MarkStale(r) \/ AreaDone(r) \/ Cancelled(r)
    BY <2>2 DEF ListRecords, MarkRecord, MarkStale, AreaDone, Cancelled
  <2>3. CASE RelinkOne(r) \/ RelinkEnds(r) \/ IndexAll(r) \/ RelinkExact(r) \/ StatementFails(r)
    BY <2>3 DEF RelinkOne, RelinkEnds, IndexAll, RelinkExact, StatementFails
  <2>4. QED
    BY <1>7, <2>1, <2>2, <2>3, ZenonT(60) DEF Steps
<1>8. ASSUME NEW r \in Runs, Attach(r)
      PROVE  \A f \in Files : item[f] # None => item'[f] # None
  <2>1. run[r].card \in Card /\ run[r].place \in Places /\ run[r].row \in Files
    BY <1>8 DEF Attach, RunsOK, Aimed, AtPlace
  <2>2. PICK i \in Item : i = [fp |-> run[r].card.fp, done |-> TRUE, mpd |-> run[r].place]
    BY <2>1 DEF Item, Card
  <2>3. item' = [item EXCEPT ![run[r].row] = i]
    BY <1>8, <2>2 DEF Attach, Attached
  <2>4. QED
    BY <1>0, <2>1, <2>3 DEF ItemsOK
<1>9. ASSUME NEW a \in Areas, DeleteStorageArea(a)
      PROVE  item' = item
  BY <1>9 DEF DeleteStorageArea
<1>10. QED
  BY <1>1, <1>2, <1>3, <1>4, <1>5, <1>6, <1>7, <1>8, <1>9 DEF Next, Steps

LEMMA LinksStep ==
  ASSUME RunsOK, WorldOK, RecordsOK, LinksOK, ItemsOK, [Next]_vars
  PROVE  LinksOK'
<1>1. CASE DatabaseLost
  BY <1>1 DEF DatabaseLost, LinksOK
<1>2. ASSUME NEW a \in Areas, DeleteStorageArea(a)
      PROVE  LinksOK'
  <2>1. links' \subseteq links /\ \A l \in links' : l.art[1] # a
    BY <1>2 DEF DeleteStorageArea
  <2>2. \A x \in Artifacts : x[1] # a => rec'[x] = rec[x]
    BY <1>2 DEF DeleteStorageArea
  <2>3. item' = item
    BY <1>2 DEF DeleteStorageArea
  <2>4. \A l \in links : l.art \in Artifacts
    BY DEF LinksOK, Link
  <2>5. QED
    BY <2>1, <2>2, <2>3, <2>4 DEF LinksOK
<1>3. ASSUME NEW f \in Files, ScanDeletes(f)
      PROVE  LinksOK'
  <2>1. links' \subseteq links /\ \A l \in links' : l.file # f
    BY <1>3 DEF ScanDeletes
  <2>2. rec' = rec /\ \A g \in Files : g # f => item'[g] = item[g]
    BY <1>3 DEF ScanDeletes, ItemsOK
  <2>3. \A l \in links : l.file \in Files
    BY DEF LinksOK, Link
  <2>4. QED
    BY <2>1, <2>2, <2>3 DEF LinksOK
<1>4. ASSUME \A x \in Artifacts : rec[x] # None => rec'[x] # None,
             \A f \in Files : item[f] # None => item'[f] # None
      PROVE  LinksOK'
  <2>1. \A l \in links : l.art \in Artifacts /\ l.file \in Files
    BY DEF LinksOK, Link
  <2>2. CASE links' = links
    BY <1>4, <2>1, <2>2 DEF LinksOK
  <2>3. ASSUME NEW r \in Runs, LinkFound(r)
        PROVE  LinksOK'
    <3>1. PICK x \in Artifacts, f \in Files : x = Art(r) /\ f = run[r].row
      BY <2>3 DEF LinkFound, RunsOK, Aimed, AtPlace, Stages, Art, Artifacts, Card
    <3>2. links' = links \/ links' = links \cup NewLinks(x, f, "linked")
      BY <2>3, <3>1 DEF LinkFound, Art
    <3>3. "linked" \in LinkStatus
      BY DEF LinkStatus
    <3>4. CASE links' = links
      BY <2>2, <3>4
    <3>5. CASE links' = links \cup NewLinks(x, f, "linked")
      BY <1>4, <2>1, <3>1, <3>3, <3>5, NewLinksAre DEF LinksOK
    <3>6. QED
      BY <3>2, <3>4, <3>5
  <2>4. ASSUME NEW r \in Runs, RelinkOne(r)
        PROVE  LinksOK'
    <3>1. PICK u \in run[r].arts :
            /\ u.art \in Artifacts
            /\ links' = links \/ \E first \in Files :
                 /\ links \subseteq links'
                 /\ \A l \in links' \ links :
                      \E f \in Files : l \in NewLinks(u.art, f, StatusOf(f, first))
      BY <2>4, RelinkLinks DEF Matching
    <3>2. CASE links' = links
      BY <2>2, <3>2
    <3>3. ASSUME NEW first \in Files, links \subseteq links',
                 \A l \in links' \ links : \E f \in Files : l \in NewLinks(u.art, f, StatusOf(f, first))
          PROVE  LinksOK'
      <4>1. \A l \in links' \ links :
              /\ l \in Link /\ rec[l.art] # None /\ item[l.file] # None
              /\ l.art \in Artifacts /\ l.file \in Files
              /\ \A k \in links : ~(k.art = l.art /\ k.file = l.file)
        BY <3>1, <3>3, NewLinksAre, StatusTyped
      <4>2. \A k, l \in links' \ links : k.art = l.art /\ k.file = l.file => k = l
        BY <3>1, <3>3, NewLinksAre, StatusTyped
      <4>3. links' \subseteq Link /\ \A l \in links' : rec'[l.art] # None /\ item'[l.file] # None
        BY <1>4, <2>1, <4>1 DEF LinksOK
      <4>4. \A k, l \in links' : k.art = l.art /\ k.file = l.file => k = l
        BY <4>1, <4>2 DEF LinksOK
      <4>5. QED
        BY <4>3, <4>4 DEF LinksOK
    <3>4. QED
      BY <3>1, <3>2, <3>3
  <2>5. CASE DatabaseLost \/ (\E a \in Areas : DeleteStorageArea(a)) \/ \E f \in Files : ScanDeletes(f)
    BY <1>1, <1>2, <1>3, <2>5
  <2>6. ASSUME NEW f \in Files, ScanFinds(f)
        PROVE  LinksOK'
    <3>1. CASE links' # links
      <4>1. PICK x \in Artifacts, l \in Link :
              /\ links' = links \cup {l} /\ l.art = x /\ l.file = f
              /\ item'[f] # None /\ rec'[x] # None
              /\ ~\E k \in links : k.art = x /\ k.file = f
        BY <2>6, <3>1, ScanWrites
      <4>2. QED
        BY <1>4, <2>1, <4>1 DEF LinksOK
    <3>2. QED
      BY <2>2, <3>1
  <2>7. QED
    BY <2>2, <2>3, <2>4, <2>5, <2>6, LinksGo
<1>5. QED
  BY <1>1, <1>2, <1>3, <1>4, RecordsGo, ItemsGo

TypesOK == TypeOK /\ UpdateOK /\ RunsOK

LEMMA TypesParts == TypesOK <=> WorldOK /\ RecordsOK /\ LinksOK /\ ItemsOK /\ RunsOK
  BY PartsOfType DEF TypesOK

LEMMA TypesHere ==
  ASSUME TypesOK
  PROVE  /\ RunsTyped /\ RunsOK /\ WorldOK /\ RecordsOK /\ LinksOK
         /\ \A r \in Runs : Aimed(r)
         /\ disk \in [Places -> Card \cup {None, Broken}]
         /\ rec \in [Artifacts -> Record \cup {None}]
         /\ item \in [Files -> Item \cup {None}]
<1>1. WorldOK /\ RecordsOK /\ LinksOK /\ ItemsOK /\ RunsOK
  BY TypesParts
<1>2. RunsTyped /\ \A r \in Runs : Aimed(r)
  BY <1>1 DEF RunsOK
<1>3. disk \in [Places -> Card \cup {None, Broken}]
  BY <1>1 DEF WorldOK
<1>4. rec \in [Artifacts -> Record \cup {None}]
  BY <1>1 DEF RecordsOK
<1>5. item \in [Files -> Item \cup {None}]
  BY <1>1 DEF ItemsOK
<1>6. QED
  BY <1>1, <1>2, <1>3, <1>4, <1>5

LEMMA TypesStep == TypesOK /\ [Next]_vars => TypesOK'
<1>1. ASSUME TypesOK, [Next]_vars
      PROVE  WorldOK' /\ RecordsOK' /\ LinksOK' /\ ItemsOK' /\ RunsOK'
  BY <1>1, TypesParts, WorldStep, RecordsStep, LinksStep, ItemsStep, RunsStep
<1>2. WorldOK' /\ RecordsOK' /\ LinksOK' /\ ItemsOK' /\ RunsOK' => TypesOK'
  BY TypesParts, PTL
<1>3. QED
  BY <1>1, <1>2

LEMMA TypesInit == Init => TypesOK
<1>1. Init => UpdateOK /\ RunsOK
  <2>1. ASSUME Init
        PROVE  RunsOK
    <3>1. run \in [Runs -> Run] /\ \A r \in Runs : run[r].pc = "off"
      BY <2>1, IdleIsRun DEF Init, Idle
    <3>2. QED
      BY <3>1 DEF RunsOK, RunsTyped, Aimed, Stages, AtPlace
  <2>2. QED
    BY <2>1 DEF Init, UpdateOK
<1>2. Init => TypeOK
  <2>1. ASSUME Init
        PROVE  TypeOK
    <3>1. area \in [Areas -> Area \cup {None}]
      BY <2>1 DEF Init, Area
    <3>2. item \in [Files -> Item \cup {None}]
      BY <2>1 DEF Init, Item
    <3>3. disk \in [Places -> Card \cup {None, Broken}] /\ source \in [Files -> Fps \cup {None}]
      BY <2>1 DEF Init
    <3>4. rec \in [Artifacts -> Record \cup {None}] /\ links = {} /\ mounted \subseteq Roots
          /\ \A x \in Artifacts : rec[x] = None
      BY <2>1 DEF Init
    <3>5. QED
      BY <3>1, <3>2, <3>3, <3>4 DEF TypeOK
  <2>2. QED
    BY <2>1
<1>3. QED
  BY <1>1, <1>2 DEF TypesOK

LEMMA TypesAlways == Spec => []TypesOK
  BY TypesInit, TypesStep, PTL DEF Spec

\* Rows, sidecars and links keep to their sets: a link joins rows that exist, one for
\* each pair, and a record belongs to an area that exists, through runs that hold rows
\* deleted since, areas deleted under a walk, cancelled requests and lost databases.
THEOREM ArtifactsTyped == Spec => []TypeOK
<1>1. TypesOK => TypeOK
  BY DEF TypesOK
<1>2. QED
  BY <1>1, TypesAlways, PTL

\* A statement of a run is no other run's.
LEMMA OwnOthers ==
  ASSUME RunsOK, NEW r \in Runs, Steps(r)
  PROVE  Others(r) /\ run[r].pc # "off"
<1>1. ASSUME NEW new, Becomes(r, new)
      PROVE  Others(r)
  BY <1>1 DEF RunsOK, RunsTyped, Becomes, Others
<1>2. CASE IndexStorageArea(r)
  BY <1>1, <1>2 DEF IndexStorageArea
<1>3. CASE Visit(r)
  BY <1>1, <1>3 DEF Visit
<1>4. CASE Register(r)
  BY <1>1, <1>4 DEF Register, WalksOn
<1>5. CASE Match(r)
  BY <1>1, <1>5 DEF Match, WalksOn
<1>6. CASE Attach(r)
  BY <1>1, <1>6 DEF Attach
<1>7. CASE LinkFound(r)
  BY <1>1, <1>7 DEF LinkFound, WalksOn
<1>8. CASE ListRecords(r)
  BY <1>1, <1>8 DEF ListRecords
<1>9. CASE MarkRecord(r)
  BY <1>1, <1>9 DEF MarkRecord
<1>10. CASE MarkStale(r) \/ AreaDone(r) \/ RelinkEnds(r)
  BY <1>1, <1>10 DEF MarkStale, AreaDone, RelinkEnds, Goes
<1>11. CASE Cancelled(r)
  BY <1>1, <1>11 DEF Cancelled
<1>12. CASE RelinkOne(r)
  BY <1>1, <1>12 DEF RelinkOne
<1>13. QED
  BY <1>2, <1>3, <1>4, <1>5, <1>6, <1>7, <1>8, <1>9, <1>10, <1>11, <1>12 DEF Steps

-----------------------------------------------------------------------------
(* A run that nothing has disturbed is the only one, and the world is as it *)
(* was when the run began.                                                  *)

Alone == \A r \in Runs : run[r].calm => run[r].pc # "off" /\ \A s \in Runs \ {r} : run[s].pc = "off"

\* On to the next directory: the area is gone, no item has the content, or it is linked.
Leaves(r) ==
  /\ WalksOn(r) /\ UNCHANGED <<rec, item>>
  /\ \/ run[r].pc = "register" /\ area[run[r].area] = None
     \/ run[r].pc = "match" /\ SameContent(run[r].card) = {}
     \/ run[r].pc = "link"

\* Where the statements of a run lead.
LEMMA OwnPcs ==
  ASSUME TypesOK, NEW r \in Runs, Steps(r)
  PROVE  /\ run'[r].calm => run[r].calm /\ run'[r].pc # "off"
         /\ run'[r].pc = "walk" => IndexStorageArea(r) \/ Visit(r) \/ Leaves(r)
         /\ run'[r].pc = "register" => Visit(r)
         /\ run'[r].pc = "match" => Register(r) /\ area[run[r].area] # None
         /\ run'[r].pc = "attach" => Match(r) /\ SameContent(run[r].card) # {}
         /\ run'[r].pc = "link" => Attach(r)
         /\ run'[r].pc = "mark" => ListRecords(r) \/ MarkRecord(r)
         /\ run'[r].pc = "indexed" => MarkStale(r)
         /\ run'[r].pc = "next" => IndexStorageArea(r) \/ AreaDone(r)
         /\ run'[r].pc = "relink" => RelinkOne(r)
         /\ run'[r].pc = "relinked" => run[r].pc = "relink" /\ run[r].arts = {} /\ Goes(r, "relinked")
<1>0. /\ RunsTyped /\ Aimed(r)
      /\ disk \in [Places -> Card \cup {None, Broken}]
      /\ rec \in [Artifacts -> Record \cup {None}]
  BY TypesHere
<1>1. ASSUME Becomes(r, Idle)
      PROVE  run'[r].pc = "off" /\ run'[r].calm = FALSE
  BY <1>0, <1>1, RunIs, IdleIsRun DEF Idle
<1>2. ASSUME Leaves(r)
      PROVE  run'[r].pc = "walk" /\ run'[r].calm = run[r].calm
  BY <1>0, <1>2, RunWalksOn DEF SameArea, Leaves
<1>3. ASSUME NEW pc \in Pcs, Goes(r, pc)
      PROVE  run'[r].pc = pc /\ run'[r].calm = run[r].calm
  BY <1>0, <1>3, RunGoes DEF SameArea
<1>4. CASE IndexStorageArea(r)
  <2>1. CASE run[r].queue = {}
    <3>1. Becomes(r, Idle)
      BY <1>4, <2>1 DEF IndexStorageArea
    <3>2. QED
      BY <1>1, <3>1
  <2>2. CASE run[r].queue # {}
    <3>1. run'[r].pc \in {"walk", "next"} /\ run'[r].calm = run[r].calm
      BY <1>0, <1>4, <2>2, RunIndexes
    <3>2. QED
      BY <1>4, <3>1
  <2>3. QED
    BY <2>1, <2>2
<1>5. CASE Visit(r)
  <2>1. run[r].area \in Areas
    BY <1>0, <1>5 DEF Visit, Aimed, Stages
  <2>2. run'[r].pc \in {"walk", "register"} /\ run'[r].calm = run[r].calm
    BY <1>0, <1>5, <2>1, RunVisits DEF SameArea
  <2>3. QED
    BY <1>5, <2>2
<1>6. CASE Register(r)
  <2>1. CASE area[run[r].area] = None
    <3>1. Leaves(r)
      BY <1>6, <2>1 DEF Register, Leaves
    <3>2. QED
      BY <1>2, <3>1
  <2>2. CASE area[run[r].area] # None
    <3>1. run'[r].pc = "match" /\ run'[r].calm = run[r].calm
      BY <1>0, <1>6, <2>2, RunRegisters DEF SameArea
    <3>2. QED
      BY <1>6, <2>2, <3>1
  <2>3. QED
    BY <2>1, <2>2
<1>7. CASE Match(r)
  <2>1. CASE SameContent(run[r].card) = {}
    <3>1. Leaves(r)
      BY <1>7, <2>1 DEF Match, Leaves, index
    <3>2. QED
      BY <1>2, <3>1
  <2>2. CASE SameContent(run[r].card) # {}
    <3>1. run'[r].pc = "attach" /\ run'[r].calm = run[r].calm
      BY <1>0, <1>7, <2>2, RunMatches DEF SameArea
    <3>2. QED
      BY <1>7, <2>2, <3>1
  <2>3. QED
    BY <2>1, <2>2
<1>8. CASE Attach(r)
  <2>1. run'[r].pc = "link" /\ run'[r].calm = run[r].calm
    BY <1>0, <1>8, RunAttaches DEF SameArea
  <2>2. QED
    BY <1>8, <2>1
<1>9. CASE LinkFound(r)
  <2>1. Leaves(r)
    BY <1>9 DEF LinkFound, Leaves
  <2>2. QED
    BY <1>2, <2>1
<1>10. CASE ListRecords(r)
  <2>1. run'[r].pc = "mark" /\ run'[r].calm = run[r].calm
    BY <1>0, <1>10, RunLists DEF SameArea
  <2>2. QED
    BY <1>10, <2>1
<1>11. CASE MarkRecord(r)
  <2>1. run'[r].pc = "mark" /\ run'[r].calm = run[r].calm
    BY <1>0, <1>11, RunMarks DEF SameArea
  <2>2. QED
    BY <1>11, <2>1
<1>12. CASE MarkStale(r)
  <2>1. Goes(r, "indexed") /\ "indexed" \in Pcs
    BY <1>12 DEF MarkStale, Pcs, Stages
  <2>2. QED
    BY <1>3, <1>12, <2>1
<1>13. CASE AreaDone(r)
  <2>1. Goes(r, "next") /\ "next" \in Pcs
    BY <1>13 DEF AreaDone, Pcs
  <2>2. QED
    BY <1>3, <1>13, <2>1
<1>14. CASE Cancelled(r)
  <2>1. Becomes(r, Idle)
    BY <1>14 DEF Cancelled
  <2>2. QED
    BY <1>1, <2>1
<1>15. CASE RelinkOne(r)
  <2>1. run'[r].pc = "relink" /\ run'[r].calm = run[r].calm
    BY <1>0, <1>15, RunRelinks DEF SameArea
  <2>2. QED
    BY <1>15, <2>1
<1>16. CASE RelinkEnds(r)
  <2>1. CASE Becomes(r, Idle)
    BY <1>1, <2>1
  <2>2. CASE run[r].pc = "relink" /\ run[r].arts = {} /\ Goes(r, "relinked")
    <3>1. "relinked" \in Pcs
      BY DEF Pcs
    <3>2. QED
      BY <1>3, <2>2, <3>1
  <2>3. QED
    BY <1>16, <2>1, <2>2 DEF RelinkEnds
<1>17. QED
  BY <1>4, <1>5, <1>6, <1>7, <1>8, <1>9, <1>10, <1>11, <1>12, <1>13, <1>14, <1>15, <1>16 DEF Steps

\* What can happen to an undisturbed run without disturbing it.
LEMMA CalmStep ==
  ASSUME TypesOK, Alone, [Next]_vars, NEW r \in Runs, run'[r].calm
  PROVE  /\ \/ Steps(r) /\ run[r].calm /\ UNCHANGED <<area, disk, mounted, source>>
            \/ /\ run'[r].pc = "next"
               /\ \A q \in run'[r].queue : area'[q.area] # None
            \/ RelinkExact(r)
            \/ run'[r] = run[r] /\ UNCHANGED <<area, disk, mounted, source, item, rec, links>>
         /\ run'[r].pc # "off" /\ \A s \in Runs \ {r} : run'[s].pc = "off"
<1>0. /\ RunsTyped /\ RunsOK /\ WorldOK /\ RecordsOK
      /\ rec \in [Artifacts -> Record \cup {None}]
  BY TypesHere
<1>1. ASSUME NEW s \in Runs, Steps(s), UNCHANGED <<area, disk, mounted, source>>
      PROVE  /\ Steps(r) /\ run[r].calm /\ UNCHANGED <<area, disk, mounted, source>>
             /\ run'[r].pc # "off" /\ \A q \in Runs \ {r} : run'[q].pc = "off"
  <2>1. Others(s) /\ run[s].pc # "off"
    BY <1>0, <1>1, OwnOthers
  <2>2. s = r
    <3>1. CASE s # r
      <4>1. run[r].calm
        BY <2>1, <3>1 DEF Others
      <4>2. QED
        BY <2>1, <3>1, <4>1 DEF Alone
    <3>2. QED
      BY <3>1
  <2>3. run[r].calm /\ run'[r].pc # "off"
    BY <1>1, <2>2, OwnPcs
  <2>4. \A q \in Runs \ {r} : run'[q].pc = "off"
    BY <2>1, <2>2, <2>3 DEF Alone, Others
  <2>5. QED
    BY <1>1, <2>2, <2>3, <2>4
<1>2. ASSUME NEW s \in Runs, Begins(s), run'[s].pc # "off"
      PROVE  /\ s = r
             /\ run'[r].pc # "off" /\ \A q \in Runs \ {r} : run'[q].pc = "off"
  <2>1. s = r
    BY <1>2 DEF Begins
  <2>2. Active = {}
    BY <1>2, <2>1 DEF Begins
  <2>3. \A q \in Runs \ {r} : run'[q].pc = "off"
    BY <1>2, <2>1, <2>2 DEF Begins, Like, Active
  <2>4. QED
    BY <1>2, <2>1, <2>3
<1>3. CASE DatabaseLost
  <2>1. run'[r] = Idle
    BY <1>3 DEF DatabaseLost
  <2>2. QED
    BY <2>1 DEF Idle
<1>4. CASE run' = Disturbed
  BY <1>0, <1>4, RunsDisturbed
<1>5. CASE \E f \in Files : ScanDeletes(f)
  BY <1>0, <1>5, RunsLose
<1>6. ASSUME NEW s \in Runs, Begins(s), run'[s].pc = "next",
             \A q \in run'[s].queue : area'[q.area] # None
      PROVE  /\ run'[r].pc = "next" /\ \A q \in run'[r].queue : area'[q.area] # None
             /\ \A q \in Runs \ {r} : run'[q].pc = "off"
  BY <1>2, <1>6
<1>7. ASSUME NEW s \in Runs, RelinkExact(s)
      PROVE  /\ RelinkExact(r) /\ run'[r].pc # "off"
             /\ \A q \in Runs \ {r} : run'[q].pc = "off"
  <2>1. Begins(s) /\ run'[s].pc = "relink"
    BY <1>0, <1>7, RunRelinkStarts
  <2>2. QED
    BY <1>2, <1>7, <2>1
<1>8. CASE UNCHANGED <<area, disk, mounted, source, item, rec, links, run>>
  BY <1>8 DEF Alone
<1>9. ASSUME NEW s \in Runs, StatementFails(s)
      PROVE  FALSE
  BY <1>0, <1>9, RunFails DEF RunsOK
<1>10. QED
  BY <1>0, <1>1, <1>3, <1>4, <1>5, <1>6, <1>7, <1>8, <1>9, StepKinds DEF Disturbing

LEMMA AloneStep == TypesOK /\ Alone /\ [Next]_vars => Alone'
  BY CalmStep DEF Alone

LEMMA AloneInit == Init => Alone
  BY DEF Init, Alone, Idle

-----------------------------------------------------------------------------
(* Relinking that nothing disturbs: what is still to be tried has no link,  *)
(* and one entry in the list.                                               *)

Apart(r) ==
  run[r].calm /\ run[r].pc = "relink" =>
    /\ \A u, v \in run[r].arts : u.art = v.art => u = v
    /\ \A u \in run[r].arts, l \in links : l.art = u.art => l.status # "linked"

LEMMA RelinkOnly ==
  ASSUME TypesOK, NEW r \in Runs, RelinkOne(r)
  PROVE  \E u \in run[r].arts :
           /\ run'[r].arts = run[r].arts \ {u} /\ links \subseteq links'
           /\ \A k, l \in links' \ links :
                /\ k.art = u.art
                /\ k.status = "linked" /\ l.status = "linked" => k = l
<1>1. RunsOK
  BY TypesHere
<1>2. PICK u \in run[r].arts :
        /\ u.art \in Artifacts /\ run'[r].arts = run[r].arts \ {u}
        /\ \/ links' = links
           \/ \E first \in Files :
                /\ links \subseteq links'
                /\ \A l \in links' \ links :
                     \E f \in Files : l \in NewLinks(u.art, f, StatusOf(f, first))
  BY <1>1, RelinkLinks DEF Matching
<1>3. ASSUME NEW first \in Files,
             \A l \in links' \ links : \E f \in Files : l \in NewLinks(u.art, f, StatusOf(f, first))
      PROVE  \A k, l \in links' \ links : /\ k.art = u.art
                                          /\ k.status = "linked" /\ l.status = "linked" => k = l
  <2>1. ASSUME NEW k \in links' \ links
        PROVE  k.art = u.art /\ (k.status = "linked" => k \in NewLinks(u.art, first, "linked"))
    <3>1. PICK f \in Files : k \in NewLinks(u.art, f, StatusOf(f, first))
      BY <1>3
    <3>2. k.art = u.art /\ k.status = StatusOf(f, first)
      BY <1>2, <3>1, NewLinksAre, StatusTyped
    <3>3. StatusOf(f, first) = "linked" => f = first
      BY DEF StatusOf
    <3>4. QED
      BY <3>1, <3>2, <3>3
  <2>2. \A k, l \in NewLinks(u.art, first, "linked") : k = l
    BY <1>2, NewLinksAre DEF LinkStatus
  <2>3. QED
    BY <2>1, <2>2
<1>4. CASE links' = links
  BY <1>2, <1>4
<1>5. QED
  BY <1>2, <1>3, <1>4

LEMMA ApartStep ==
  ASSUME TypesOK, Alone, \A r \in Runs : Apart(r), [Next]_vars, NEW r \in Runs
  PROVE  Apart(r)'
<1> SUFFICES ASSUME run'[r].calm, run'[r].pc = "relink"
             PROVE  /\ \A u, v \in run'[r].arts : u.art = v.art => u = v
                    /\ \A u \in run'[r].arts, l \in links' : l.art = u.art => l.status # "linked"
  BY DEF Apart
<1>1. RunsTyped /\ rec \in [Artifacts -> Record \cup {None}]
  BY TypesHere
<1>2. CASE Steps(r) /\ run[r].calm
  <2>1. RelinkOne(r)
    BY <1>2, OwnPcs
  <2>2. Apart(r) /\ run[r].pc = "relink"
    BY <2>1 DEF RelinkOne
  <2>3. PICK u \in run[r].arts :
          /\ run'[r].arts = run[r].arts \ {u}
          /\ \A l \in links' \ links : l.art = u.art
    BY <2>1, RelinkOnly
  <2>4. QED
    BY <1>2, <2>2, <2>3 DEF Apart
<1>3. CASE RelinkExact(r)
  <2>1. links' = links
    BY <1>3 DEF RelinkExact, index
  <2>2. /\ \A u \in run'[r].arts : u.art \in Unmatched
        /\ \A u, v \in run'[r].arts : u.art = v.art => u = v
    BY <1>1, <1>3, RunRelinkStarts
  <2>3. QED
    BY <2>1, <2>2 DEF Unmatched
<1>4. CASE run'[r] = run[r] /\ links' = links
  <2>1. Apart(r)
    OBVIOUS
  <2>2. QED
    BY <1>4, <2>1 DEF Apart
<1>5. QED
  BY <1>2, <1>3, <1>4, CalmStep

\* Relinking that nothing disturbs gives no artifact a second link with status linked,
\* of however many records and items the contents are.
THEOREM RelinkingLinksOnce == Spec => RelinkLinksOnce
<1>1. Init => \A r \in Runs : Apart(r)
  BY DEF Init, Apart, Idle
<1>2. TypesOK /\ Alone /\ (\A r \in Runs : Apart(r)) /\ [Next]_vars => (\A r \in Runs : Apart(r))'
  BY ApartStep
<1>3. TypesOK /\ (\A r \in Runs : Apart(r)) =>
        [\A r \in Runs : RelinkOne(r) /\ run[r].calm =>
           \A l \in links' \ links : l.status = "linked" => Sole(l, links')]_vars
  <2> SUFFICES ASSUME TypesOK, NEW r \in Runs, Apart(r), RelinkOne(r), run[r].calm,
                      NEW l \in links' \ links, l.status = "linked"
               PROVE  Sole(l, links')
    OBVIOUS
  <2>1. PICK u \in run[r].arts :
          \A k, j \in links' \ links :
            k.art = u.art /\ (k.status = "linked" /\ j.status = "linked" => k = j)
    BY RelinkOnly
  <2>2. run[r].pc = "relink"
    BY DEF RelinkOne
  <2>3. \A k \in links : k.art = u.art => k.status # "linked"
    BY <2>2 DEF Apart
  <2>4. QED
    BY <2>1, <2>3 DEF Sole
<1>4. QED
  BY <1>1, <1>2, <1>3, AloneInit, AloneStep, TypesAlways, PTL DEF Spec, RelinkLinksOnce

-----------------------------------------------------------------------------
(* Relinking: each record is still to be tried, or has a link, or matches   *)
(* no item.                                                                 *)

HasLink(x) == \E l \in links : l.art = x

Tried(r, x) ==
  \/ \E u \in run[r].arts : u.art = x
  \/ HasLink(x)
  \/ Matching([art |-> x, fp |-> rec[x].fp], EnabledAreas) = {}

Relinks(r) ==
  run[r].calm /\ run[r].pc \in {"relink", "relinked"} =>
    /\ run[r].enabled = EnabledAreas
    /\ run[r].pc = "relinked" => run[r].arts = {}
    /\ \A u \in run[r].arts : rec[u.art] # None /\ rec[u.art].fp = u.fp
    /\ \A x \in Artifacts : rec[x] # None => Tried(r, x)

LEMMA MatchingByFields ==
  ASSUME NEW u, NEW x, NEW fp, u.art = x, u.fp = fp, NEW on
  PROVE  Matching([art |-> x, fp |-> fp], on) = Matching(u, on)
<1>1. PICK v : v = [art |-> x, fp |-> fp]
  BY Zenon
<1>2. v.art = x /\ v.fp = fp
  BY <1>1
<1>3. QED
  BY <1>1, <1>2 DEF Matching

LEMMA RelinksStep ==
  ASSUME TypesOK, Alone, \A r \in Runs : Relinks(r), [Next]_vars, NEW r \in Runs
  PROVE  Relinks(r)'
<1> SUFFICES ASSUME run'[r].calm, run'[r].pc \in {"relink", "relinked"}
             PROVE  /\ run'[r].enabled = EnabledAreas'
                    /\ run'[r].pc = "relinked" => run'[r].arts = {}
                    /\ \A u \in run'[r].arts : rec'[u.art] # None /\ rec'[u.art].fp = u.fp
                    /\ \A x \in Artifacts : rec'[x] # None => Tried(r, x)'
  BY DEF Relinks
<1>0. /\ RunsTyped /\ RunsOK /\ WorldOK /\ RecordsOK
      /\ rec \in [Artifacts -> Record \cup {None}]
  BY TypesHere
<1>1. CASE Steps(r) /\ run[r].calm /\ UNCHANGED <<area, disk, mounted, source>>
  <2>1. CASE RelinkOne(r)
    <3>1. rec' = rec /\ item' = item /\ source' = source /\ area' = area
      BY <2>1, <1>1 DEF RelinkOne
    <3>2. run[r].pc = "relink" /\ run'[r].pc = "relink" /\ run'[r].enabled = run[r].enabled
      BY <1>0, <2>1, RunRelinks DEF RelinkOne
    <3>3. Relinks(r)
      OBVIOUS
    <3>4. /\ run[r].enabled = EnabledAreas
          /\ \A u \in run[r].arts : rec[u.art] # None /\ rec[u.art].fp = u.fp
          /\ \A x \in Artifacts : rec[x] # None => Tried(r, x)
      BY <1>1, <3>2, <3>3 DEF Relinks
    <3>5. EnabledAreas' = EnabledAreas
      BY <3>1 DEF EnabledAreas
    <3>6. PICK u \in run[r].arts :
            /\ u.art \in Artifacts /\ run'[r].arts = run[r].arts \ {u}
            /\ \/ Matching(u, EnabledAreas) = {} /\ links' = links
               \/ \E first \in Matching(u, EnabledAreas) :
                    /\ links \subseteq links'
                    /\ \A f \in Matching(u, EnabledAreas) :
                         NewLinks(u.art, f, StatusOf(f, first)) \subseteq links'
      BY <1>0, <2>1, <3>4, RelinkLinks
    <3>7. links \subseteq links'
      BY <3>6
    <3>8. Matching(u, EnabledAreas) = {} \/ HasLink(u.art)'
      <4>1. CASE Matching(u, EnabledAreas) # {}
        <5>1. PICK f \in Matching(u, EnabledAreas), first \in Matching(u, EnabledAreas) :
                NewLinks(u.art, f, StatusOf(f, first)) \subseteq links'
          BY <3>6, <4>1
        <5>2. f \in Files /\ item[f] # None
          BY DEF Matching
        <5>3. rec[u.art] # None
          BY <3>4
        <5>4. CASE NewLinks(u.art, f, StatusOf(f, first)) = {}
          BY <3>6, <3>7, <5>2, <5>3, <5>4, NewLinksAre, StatusTyped DEF HasLink
        <5>5. CASE NewLinks(u.art, f, StatusOf(f, first)) # {}
          BY <3>6, <5>1, <5>2, <5>5, NewLinksAre, StatusTyped DEF HasLink
        <5>6. QED
          BY <5>4, <5>5
      <4>2. QED
        BY <4>1
    <3>9. ASSUME NEW x \in Artifacts, rec[x] # None
          PROVE  Tried(r, x)'
      <4>1. CASE \E v \in run[r].arts : v.art = x /\ v # u
        BY <3>6, <4>1 DEF Tried
      <4>2. CASE u.art = x
        <5>1. u.fp = rec[x].fp
          BY <3>4, <4>2
        <5>2. Matching([art |-> x, fp |-> rec[x].fp], EnabledAreas) = Matching(u, EnabledAreas)
          BY <4>2, <5>1, MatchingByFields
        <5>3. Matching([art |-> x, fp |-> rec[x].fp], EnabledAreas)'
                = Matching([art |-> x, fp |-> rec[x].fp], EnabledAreas)
          BY <3>1, <3>5 DEF Matching
        <5>4. QED
          BY <3>8, <4>2, <5>2, <5>3 DEF Tried
      <4>3. CASE HasLink(x)
        BY <3>7, <4>3 DEF HasLink, Tried
      <4>4. CASE Matching([art |-> x, fp |-> rec[x].fp], EnabledAreas) = {}
        <5>1. Matching([art |-> x, fp |-> rec[x].fp], EnabledAreas)'
                = Matching([art |-> x, fp |-> rec[x].fp], EnabledAreas)
          BY <3>1, <3>5 DEF Matching
        <5>2. QED
          BY <4>4, <5>1 DEF Tried
      <4>5. QED
        BY <3>4, <3>9, <4>1, <4>2, <4>3, <4>4 DEF Tried
    <3>10. QED
      BY <3>1, <3>2, <3>4, <3>5, <3>6, <3>9
  <2>2. CASE run[r].pc = "relink" /\ run[r].arts = {} /\ Goes(r, "relinked")
    <3>1. SameRelink(r) /\ run'[r].pc = "relinked"
      BY <1>0, <2>2, RunGoes DEF Pcs
    <3>2. rec' = rec /\ item' = item /\ links' = links
      <4>1. RelinkEnds(r)
        BY <1>1, <2>2 DEF Steps, RelinkEnds, IndexStorageArea, Visit, Register, Match, Attach, LinkFound,
          ListRecords, MarkRecord, MarkStale, AreaDone, Cancelled, RelinkOne
      <4>2. QED
        BY <4>1 DEF RelinkEnds, index
    <3>3. Relinks(r)
      OBVIOUS
    <3>4. EnabledAreas' = EnabledAreas
      BY <1>1 DEF EnabledAreas
    <3>5. /\ run[r].enabled = EnabledAreas
          /\ \A x \in Artifacts : rec[x] # None => Tried(r, x)
      BY <1>1, <2>2, <3>3 DEF Relinks
    <3>6. ASSUME NEW x \in Artifacts, rec[x] # None
          PROVE  Tried(r, x)'
      <4>1. Matching([art |-> x, fp |-> rec[x].fp], EnabledAreas)'
                = Matching([art |-> x, fp |-> rec[x].fp], EnabledAreas)
        BY <1>1, <3>2, <3>4 DEF Matching
      <4>2. QED
        BY <2>2, <3>2, <3>5, <3>6, <4>1 DEF Tried, HasLink
    <3>7. QED
      BY <2>2, <3>1, <3>2, <3>4, <3>5, <3>6 DEF SameRelink
  <2>3. QED
    BY <1>1, <2>1, <2>2, OwnPcs
<1>2. CASE run'[r].pc = "next"
  BY <1>2
<1>3. CASE RelinkExact(r)
  <2>1. rec' = rec /\ links' = links /\ area' = area
    BY <1>3 DEF RelinkExact, world, index
  <2>2. EnabledAreas' = EnabledAreas
    BY <2>1 DEF EnabledAreas
  <2>3. /\ run'[r].pc = "relink" /\ run'[r].enabled = EnabledAreas
        /\ \A u \in run'[r].arts : u.art \in Unmatched /\ u.fp = rec[u.art].fp
        /\ \A x \in Unmatched : \E u \in run'[r].arts : u.art = x
    BY <1>0, <1>3, RunRelinkStarts
  <2>4. ASSUME NEW x \in Artifacts, rec[x] # None
        PROVE  Tried(r, x)'
    <3>1. CASE x \in Unmatched
      BY <2>3, <3>1 DEF Tried
    <3>2. CASE x \notin Unmatched
      BY <2>1, <2>4, <3>2 DEF Tried, HasLink, Unmatched
    <3>3. QED
      BY <3>1, <3>2
  <2>5. QED
    BY <2>1, <2>2, <2>3, <2>4 DEF Unmatched
<1>4. CASE run'[r] = run[r] /\ UNCHANGED <<area, disk, mounted, source, item, rec, links>>
  <2>1. Relinks(r)
    OBVIOUS
  <2>2. EnabledAreas' = EnabledAreas
    BY <1>4 DEF EnabledAreas
  <2>3. ASSUME NEW x \in Artifacts, rec[x] # None, Tried(r, x)
        PROVE  Tried(r, x)'
    <3>1. Matching([art |-> x, fp |-> rec[x].fp], EnabledAreas)'
              = Matching([art |-> x, fp |-> rec[x].fp], EnabledAreas)
      BY <1>4, <2>2 DEF Matching
    <3>2. QED
      BY <1>4, <2>3, <3>1 DEF Tried, HasLink
  <2>4. QED
    BY <1>4, <2>1, <2>2, <2>3 DEF Relinks
<1>5. QED
  BY <1>1, <1>2, <1>3, <1>4, CalmStep

\* When RelinkExact ends undisturbed, every artifact that an item that is done matches
\* has a link, whatever was linked before and in whichever order the artifacts are tried.
THEOREM RelinkingAttaches == Spec => []RelinkAttaches
<1>1. Init => \A r \in Runs : Relinks(r)
  BY DEF Init, Relinks, Idle
<1>2. TypesOK /\ Alone /\ (\A r \in Runs : Relinks(r)) /\ [Next]_vars => (\A r \in Runs : Relinks(r))'
  BY RelinksStep
<1>3. (\A r \in Runs : Relinks(r)) => RelinkAttaches
  BY DEF Relinks, Tried, HasLink, RelinkAttaches
<1>4. QED
  BY <1>1, <1>2, <1>3, AloneInit, AloneStep, TypesAlways, PTL DEF Spec

-----------------------------------------------------------------------------
(* Indexing: the directories that the walk is done with have been seen, and *)
(* what was seen is in the index.                                           *)

LEMMA OwnQueue ==
  ASSUME TypesOK, NEW r \in Runs, Steps(r), run'[r].calm
  PROVE  run'[r].queue \subseteq run[r].queue
<1>0. /\ RunsTyped /\ Aimed(r)
      /\ disk \in [Places -> Card \cup {None, Broken}]
      /\ rec \in [Artifacts -> Record \cup {None}]
  BY TypesHere
<1>1. CASE IndexStorageArea(r)
  <2>1. run[r].queue # {}
    <3>1. CASE run[r].queue = {}
      <4>1. run'[r] = Idle
        BY <1>0, <1>1, <3>1, RunIs, IdleIsRun DEF IndexStorageArea
      <4>2. QED
        BY <4>1 DEF Idle
    <3>2. QED
      BY <3>1
  <2>2. QED
    BY <1>0, <1>1, <2>1, RunIndexes
<1>2. CASE Visit(r)
  <2>1. run[r].pc = "walk"
    BY <1>2 DEF Visit
  <2>2. run[r].area \in Areas
    BY <1>0, <2>1 DEF Aimed, Stages
  <2>3. QED
    BY <1>0, <1>2, <2>2, RunVisits DEF SameArea
<1>3. CASE Register(r)
  <2>1. CASE area[run[r].area] = None
    BY <1>0, <1>3, <2>1, RunWalksOn DEF SameArea, Register
  <2>2. CASE area[run[r].area] # None
    BY <1>0, <1>3, <2>2, RunRegisters DEF SameArea
  <2>3. QED
    BY <2>1, <2>2
<1>4. CASE Match(r)
  BY <1>0, <1>4, RunMatches, RunWalksOn DEF SameArea, Match
<1>5. CASE Attach(r)
  BY <1>0, <1>5, RunAttaches DEF SameArea
<1>6. CASE LinkFound(r)
  BY <1>0, <1>6, RunWalksOn DEF SameArea, LinkFound
<1>7. CASE ListRecords(r)
  BY <1>0, <1>7, RunLists DEF SameArea
<1>8. CASE MarkRecord(r)
  BY <1>0, <1>8, RunMarks DEF SameArea
<1>9. ASSUME NEW pc \in Pcs, Goes(r, pc)
      PROVE  run'[r].queue = run[r].queue
  BY <1>0, <1>9, RunGoes DEF SameArea
<1>10. CASE MarkStale(r) \/ AreaDone(r)
  BY <1>9, <1>10 DEF MarkStale, AreaDone, Pcs, Stages
<1>11. ~Becomes(r, Idle)
  <2>1. CASE Becomes(r, Idle)
    <3>1. run'[r] = Idle
      BY <1>0, <2>1, RunIs, IdleIsRun
    <3>2. QED
      BY <3>1 DEF Idle
  <2>2. QED
    BY <2>1
<1>12. CASE Cancelled(r) \/ RelinkEnds(r)
  BY <1>9, <1>11, <1>12 DEF Cancelled, RelinkEnds, Pcs
<1>13. CASE RelinkOne(r)
  BY <1>0, <1>13, RunRelinks DEF SameArea
<1>14. QED
  BY <1>1, <1>2, <1>3, <1>4, <1>5, <1>6, <1>7, <1>8, <1>10, <1>12, <1>13 DEF Steps

Queued(r) == run[r].calm => \A q \in run[r].queue : area[q.area] # None

LEMMA QueuedStep ==
  ASSUME TypesOK, Alone, \A r \in Runs : Queued(r), [Next]_vars, NEW r \in Runs
  PROVE  Queued(r)'
<1>1. ASSUME run'[r].calm, Steps(r), run[r].calm, area' = area
      PROVE  \A q \in run'[r].queue : area'[q.area] # None
  BY <1>1, OwnQueue DEF Queued
<1>2. ASSUME run'[r].calm, RelinkExact(r)
      PROVE  run'[r].queue = {}
  BY <1>2, TypesHere, RunRelinkStarts
<1>3. QED
  BY <1>1, <1>2, CalmStep DEF Queued

\* The directories below the root that the walk is done with.
Left(r) == run[r].todo \cup (IF run[r].pc \in AtPlace THEN {run[r].place} ELSE {})
Past(r) == ({run[r].root} \X Dirs) \ Left(r)

Healthy(a, f) == rec[a, f] # None /\ rec[a, f].health = "healthy" /\ ~rec[a, f].old

Walked(r) ==
  run[r].calm /\ run[r].pc \in Stages =>
    /\ area[run[r].area] # None /\ run[r].root \in mounted
    /\ run[r].todo \subseteq {run[r].root} \X Dirs
    /\ run[r].pc \in AtPlace => /\ run[r].place \in {run[r].root} \X Dirs
                                /\ Readable(run[r].place) /\ run[r].card = disk[run[r].place]
    /\ run[r].pc \in {"match", "attach", "link"} => run[r].card.src \in run[r].seen
    /\ \A p \in Past(r) : Readable(p) => disk[p].src \in run[r].seen
    /\ run[r].seen \subseteq OnDisk(run[r].root)
    /\ \A f \in run[r].seen : Healthy(run[r].area, f)
    /\ run[r].pc \in {"mark", "indexed"} => run[r].todo = {}

\* Where the run is to look changes, but nothing that it has seen.
LEMMA DiskSame ==
  ASSUME disk' = disk, mounted' = mounted
  PROVE  /\ \A p : Readable(p)' <=> Readable(p)
         /\ \A p : OnDisk(p)' = OnDisk(p)
<1>1. \A p : Readable(p)' <=> Readable(p)
  BY DEF Readable, Sidecar
<1>2. \A p : OnDisk(p)' = OnDisk(p)
  BY DEF OnDisk, Readable, Sidecar
<1>3. QED
  BY <1>1, <1>2

\* The run stays in its area and its list of what was seen.
LEMMA WalkedFrame ==
  ASSUME NEW r \in Runs, Walked(r), UNCHANGED <<area, disk, mounted>>, run[r].calm,
         run[r].pc \in Stages, SameArea(r), SameSeen(r),
         run'[r].todo \subseteq {run[r].root} \X Dirs,
         run'[r].pc \in AtPlace => /\ run'[r].place \in {run[r].root} \X Dirs
                                   /\ Readable(run'[r].place) /\ run'[r].card = disk[run'[r].place],
         run'[r].pc \in {"match", "attach", "link"} => run'[r].card.src \in run[r].seen,
         \A p \in {run[r].root} \X Dirs : p \in Left(r) /\ p \notin Left(r)' /\ Readable(p)
                                            => disk[p].src \in run[r].seen,
         \A f \in run[r].seen : Healthy(run[r].area, f)',
         run'[r].pc \in {"mark", "indexed"} => run'[r].todo = {}
  PROVE  Walked(r)'
<1>1. /\ run'[r].area = run[r].area /\ run'[r].root = run[r].root /\ run'[r].seen = run[r].seen
  BY DEF SameArea, SameSeen
<1>2. /\ area[run[r].area] # None /\ run[r].root \in mounted
      /\ \A p \in Past(r) : Readable(p) => disk[p].src \in run[r].seen
      /\ run[r].seen \subseteq OnDisk(run[r].root)
      /\ \A f \in run[r].seen : Healthy(run[r].area, f)
  BY DEF Walked
<1>3. \A p : Readable(p)' <=> Readable(p)
  BY DiskSame
<1>4. OnDisk(run[r].root)' = OnDisk(run[r].root)
  <2>1. PICK root : root = run[r].root
    OBVIOUS
  <2>2. OnDisk(root)' = OnDisk(root)
    BY DiskSame
  <2>3. run'[r].root = root
    BY <1>1, <2>1
  <2>4. QED
    BY <2>1, <2>2, <2>3
<1>5. \A p \in Past(r)' : Readable(p)' => disk'[p].src \in run'[r].seen
  BY <1>1, <1>2, <1>3 DEF Past
<1>6. \A f \in run'[r].seen : Healthy(run[r].area, f)'
  BY <1>1
<1>7. QED
  BY <1>1, <1>2, <1>3, <1>4, <1>5, <1>6 DEF Walked

\* Where the area and the records are the same, what was seen is as healthy as before.
LEMMA HealthySame ==
  ASSUME NEW r \in Runs, SameArea(r), rec' = rec, \A f \in run[r].seen : Healthy(run[r].area, f)
  PROVE  \A f \in run[r].seen : Healthy(run[r].area, f)'
<1>1. run'[r].area = run[r].area
  BY DEF SameArea
<1>2. QED
  BY <1>1 DEF Healthy

LEMMA WalkedToWalk ==
  ASSUME TypesOK, NEW r \in Runs, Walked(r), Queued(r), Steps(r), run[r].calm,
         UNCHANGED <<area, disk, mounted>>, run'[r].pc = "walk", run'[r].calm
  PROVE  Walked(r)'
<1>0. /\ RunsTyped /\ Aimed(r)
      /\ disk \in [Places -> Card \cup {None, Broken}]
      /\ rec \in [Artifacts -> Record \cup {None}]
  BY TypesHere
<1>1. CASE IndexStorageArea(r)
  <2>1. CASE run[r].queue = {}
    <3>1. run'[r] = Idle
      BY <1>0, <1>1, <2>1, RunIs, IdleIsRun DEF IndexStorageArea
    <3>2. QED
      BY <3>1 DEF Idle
  <2>2. CASE run[r].queue # {}
    <3>1. PICK q \in run[r].queue :
            /\ q.root \in Roots /\ run'[r].pc = IF q.root \in mounted THEN "walk" ELSE "next"
            /\ run'[r].area = q.area /\ run'[r].root = q.root
            /\ run'[r].todo = {q.root} \X Dirs /\ run'[r].seen = {}
      BY <1>0, <1>1, <2>2, RunIndexes
    <3>2. area'[run'[r].area] # None /\ run'[r].root \in mounted'
      BY <3>1 DEF Queued
    <3>3. Past(r)' = {}
      BY <3>1 DEF Past, Left
    <3>4. QED
      BY <3>1, <3>2, <3>3 DEF Walked, AtPlace
  <2>3. QED
    BY <2>1, <2>2
<1>2. CASE Visit(r)
  <2>1. run[r].area \in Areas /\ run[r].pc = "walk" /\ run[r].pc \in Stages /\ rec' = rec
    BY <1>0, <1>2 DEF Visit, Aimed, Stages, index
  <2>2. /\ SameArea(r) /\ SameSeen(r)
        /\ \E p \in run[r].todo :
             /\ run'[r].todo = run[r].todo \ {p}
             /\ IF ~Readable(p) THEN run'[r].pc = "walk"
                ELSE /\ run'[r].pc = "register" /\ run'[r].place = p
                     /\ run'[r].card = disk[p] /\ disk[p] \in Card
    BY <1>0, <1>2, <2>1, RunVisits
  <2>3. PICK p \in run[r].todo : run'[r].todo = run[r].todo \ {p} /\ ~Readable(p)
    BY <2>2
  <2>4. run[r].todo \subseteq {run[r].root} \X Dirs /\ \A f \in run[r].seen : Healthy(run[r].area, f)
    BY <2>1 DEF Walked
  <2>5. \A f \in run[r].seen : Healthy(run[r].area, f)'
    BY <2>1, <2>2, <2>4, HealthySame
  <2>6. \A d \in {run[r].root} \X Dirs : d \in Left(r) /\ d \notin Left(r)' /\ Readable(d)
                                            => disk[d].src \in run[r].seen
    BY <2>1, <2>3 DEF Left, AtPlace
  <2>7. QED
    BY <2>1, <2>2, <2>3, <2>4, <2>5, <2>6, WalkedFrame DEF AtPlace
<1>3. CASE Leaves(r)
  <2>1. /\ SameArea(r) /\ SameSeen(r) /\ run'[r].todo = run[r].todo /\ rec' = rec
    BY <1>0, <1>3, RunWalksOn DEF Leaves
  <2>2. run[r].pc \in {"register", "match", "link"} /\ run[r].pc \in Stages /\ run[r].pc \in AtPlace
    BY <1>3 DEF Leaves, Stages, AtPlace
  <2>3. /\ area[run[r].area] # None
        /\ run[r].card = disk[run[r].place]
        /\ run[r].pc \in {"match", "link"} => run[r].card.src \in run[r].seen
        /\ run[r].todo \subseteq {run[r].root} \X Dirs /\ \A f \in run[r].seen : Healthy(run[r].area, f)
    BY <2>2 DEF Walked
  <2>4. disk[run[r].place].src \in run[r].seen
    BY <1>3, <2>3 DEF Leaves
  <2>5. \A f \in run[r].seen : Healthy(run[r].area, f)'
    BY <2>1, <2>3, HealthySame
  <2>6. \A d \in {run[r].root} \X Dirs : d \in Left(r) /\ d \notin Left(r)' /\ Readable(d)
                                            => disk[d].src \in run[r].seen
    BY <2>1, <2>4 DEF Left, AtPlace
  <2>7. QED
    BY <2>1, <2>2, <2>3, <2>5, <2>6, WalkedFrame DEF AtPlace
<1>4. QED
  BY <1>1, <1>2, <1>3, OwnPcs

LEMMA WalkedToRegister ==
  ASSUME TypesOK, NEW r \in Runs, Walked(r), Steps(r), run[r].calm,
         UNCHANGED <<area, disk, mounted>>, run'[r].pc = "register"
  PROVE  Walked(r)'
<1>0. /\ RunsTyped /\ Aimed(r)
      /\ disk \in [Places -> Card \cup {None, Broken}]
      /\ rec \in [Artifacts -> Record \cup {None}]
  BY TypesHere
<1>1. Visit(r)
  BY OwnPcs
<1>2. run[r].area \in Areas /\ run[r].pc = "walk" /\ run[r].pc \in Stages /\ rec' = rec
  BY <1>0, <1>1 DEF Visit, Aimed, Stages, index
<1>3. /\ SameArea(r) /\ SameSeen(r)
      /\ \E p \in run[r].todo :
           /\ run'[r].todo = run[r].todo \ {p}
           /\ IF ~Readable(p) THEN run'[r].pc = "walk"
              ELSE /\ run'[r].pc = "register" /\ run'[r].place = p
                   /\ run'[r].card = disk[p] /\ disk[p] \in Card
  BY <1>0, <1>1, <1>2, RunVisits
<1>4. PICK p \in run[r].todo :
        /\ run'[r].todo = run[r].todo \ {p}
        /\ Readable(p) /\ run'[r].place = p /\ run'[r].card = disk[p]
  BY <1>3
<1>5. run[r].todo \subseteq {run[r].root} \X Dirs /\ \A f \in run[r].seen : Healthy(run[r].area, f)
  BY <1>2 DEF Walked
<1>6. \A f \in run[r].seen : Healthy(run[r].area, f)'
  BY <1>2, <1>3, <1>5, HealthySame
<1>7. \A d \in {run[r].root} \X Dirs : d \in Left(r) => d \in Left(r)'
  BY <1>2, <1>4 DEF Left, AtPlace
<1>8. QED
  BY <1>2, <1>3, <1>4, <1>5, <1>6, <1>7, WalkedFrame

LEMMA WalkedToMatch ==
  ASSUME TypesOK, NEW r \in Runs, Walked(r), Steps(r), run[r].calm,
         UNCHANGED <<area, disk, mounted>>, run'[r].pc = "match"
  PROVE  Walked(r)'
<1>0. /\ RunsTyped /\ Aimed(r) /\ RunsOK /\ WorldOK /\ RecordsOK
      /\ rec \in [Artifacts -> Record \cup {None}]
  BY TypesHere
<1>1. Register(r) /\ area[run[r].area] # None /\ run[r].pc = "register"
  BY OwnPcs DEF Register
<1>2. /\ run'[r].seen = run[r].seen \cup {run[r].card.src} /\ SameArea(r) /\ SamePlace(r)
  BY <1>0, <1>1, RunRegisters
<1>3. run[r].pc \in Stages /\ run[r].pc \in AtPlace
  BY <1>1 DEF Stages, AtPlace
<1>4. /\ run[r].root \in mounted
      /\ run[r].todo \subseteq {run[r].root} \X Dirs
      /\ run[r].place \in {run[r].root} \X Dirs
      /\ Readable(run[r].place) /\ run[r].card = disk[run[r].place]
      /\ \A p \in Past(r) : Readable(p) => disk[p].src \in run[r].seen
      /\ run[r].seen \subseteq OnDisk(run[r].root)
      /\ \A f \in run[r].seen : Healthy(run[r].area, f)
  BY <1>3 DEF Walked
<1>5. PICK y \in Record : /\ rec' = [rec EXCEPT ![Art(r)] = y]
                          /\ y.health = "healthy" /\ y.old = FALSE
  BY <1>0, <1>1, RecordWritten
<1>6. /\ run'[r].area = run[r].area /\ run'[r].root = run[r].root /\ run'[r].todo = run[r].todo
      /\ run'[r].place = run[r].place /\ run'[r].card = run[r].card
  BY <1>2 DEF SameArea, SamePlace
<1>7. Past(r)' = Past(r)
  BY <1>1, <1>6 DEF Past, Left, AtPlace
<1>8. \A p : Readable(p)' <=> Readable(p)
  BY DiskSame
<1>9. PICK root : root = run[r].root
  OBVIOUS
<1>10. OnDisk(root)' = OnDisk(root)
  BY DiskSame
<1>11. run[r].card.src \in OnDisk(root)
  BY <1>4, <1>9 DEF OnDisk
<1>12. \A f \in run'[r].seen : Healthy(run[r].area, f)'
  <2>1. ASSUME NEW f \in run'[r].seen
        PROVE  Healthy(run[r].area, f)'
    <3>1. CASE f = run[r].card.src
      <4>1. rec'[run[r].area, f] = y
        BY <1>0, <1>1, <1>5, <3>1, RecordWritten DEF Art
      <4>2. QED
        BY <1>5, <1>6, <4>1, RowAssumption DEF Healthy
    <3>2. CASE f # run[r].card.src
      <4>1. <<run[r].area, f>> # Art(r)
        BY <3>2 DEF Art
      <4>2. f \in run[r].seen /\ f \in Files /\ run[r].area \in Areas
        BY <1>0, <1>2, <1>3, <3>2 DEF RunsTyped, Run, Aimed
      <4>3. <<run[r].area, f>> \in Artifacts
        BY <4>2 DEF Artifacts
      <4>4. rec'[run[r].area, f] = rec[run[r].area, f]
        BY <1>0, <1>5, <4>1, <4>3
      <4>5. QED
        BY <1>4, <1>6, <4>2, <4>4 DEF Healthy
    <3>3. QED
      BY <3>1, <3>2
  <2>2. QED
    BY <2>1
<1>13. run'[r].seen \subseteq OnDisk(run[r].root)'
  <2>1. run'[r].root = root
    BY <1>6, <1>9
  <2>2. OnDisk(run[r].root)' = OnDisk(root)
    BY <1>10, <2>1
  <2>3. QED
    BY <1>2, <1>4, <1>9, <1>11, <2>2
<1>14. QED
  BY <1>1, <1>2, <1>4, <1>6, <1>7, <1>8, <1>12, <1>13 DEF Walked, AtPlace

LEMMA WalkedAtPlace ==
  ASSUME TypesOK, NEW r \in Runs, Walked(r), Steps(r), run[r].calm,
         UNCHANGED <<area, disk, mounted>>, run'[r].pc \in {"attach", "link"}
  PROVE  Walked(r)'
<1>0. RunsTyped
  BY TypesHere
<1>1. /\ run[r].pc \in {"match", "attach"} /\ rec' = rec
      /\ SameArea(r) /\ SamePlace(r) /\ SameSeen(r)
  <2>1. CASE run'[r].pc = "attach"
    <3>1. Match(r) /\ SameContent(run[r].card) # {}
      BY <2>1, OwnPcs
    <3>2. QED
      BY <1>0, <3>1, RunMatches DEF Match, index
  <2>2. CASE run'[r].pc = "link"
    <3>1. Attach(r)
      BY <2>2, OwnPcs
    <3>2. QED
      BY <1>0, <3>1, RunAttaches DEF Attach, index
  <2>3. QED
    BY <2>1, <2>2
<1>2. run[r].pc \in Stages /\ run[r].pc \in AtPlace
  BY <1>1 DEF Stages, AtPlace
<1>3. /\ run[r].todo \subseteq {run[r].root} \X Dirs
      /\ run[r].place \in {run[r].root} \X Dirs
      /\ Readable(run[r].place) /\ run[r].card = disk[run[r].place]
      /\ run[r].card.src \in run[r].seen
      /\ \A f \in run[r].seen : Healthy(run[r].area, f)
  BY <1>1, <1>2 DEF Walked
<1>4. \A f \in run[r].seen : Healthy(run[r].area, f)'
  BY <1>1, <1>3, HealthySame
<1>5. run'[r].todo = run[r].todo /\ run'[r].place = run[r].place /\ run'[r].card = run[r].card
  BY <1>1 DEF SamePlace
<1>6. Left(r)' = Left(r)
  BY <1>2, <1>5 DEF Left, AtPlace
<1>7. run'[r].pc \notin {"mark", "indexed"}
  OBVIOUS
<1>8. QED
  BY <1>1, <1>2, <1>3, <1>4, <1>5, <1>6, <1>7, WalkedFrame

\* A record that was seen stays healthy when the records are marked.
LEMMA SeenStaysHealthy ==
  ASSUME TypesOK, NEW r \in Runs, MarkRecord(r) \/ MarkStale(r), SameArea(r),
         \A f \in run[r].seen : Healthy(run[r].area, f)
  PROVE  \A f \in run[r].seen : Healthy(run[r].area, f)'
<1>0. /\ RunsOK /\ WorldOK /\ RecordsOK
      /\ rec \in [Artifacts -> Record \cup {None}]
  BY TypesHere
<1>1. run[r].area \in Areas /\ run[r].seen \subseteq Files
  BY <1>0 DEF RunsOK, Aimed, MarkRecord, MarkStale, Stages, RunsTyped, Run
<1>2. ASSUME NEW f \in run[r].seen
      PROVE  /\ <<run[r].area, f>> \in Artifacts
             /\ rec[run[r].area, f] # None /\ rec[run[r].area, f].health = "healthy"
             /\ ~rec[run[r].area, f].old
  BY <1>1 DEF Healthy, Artifacts
<1>3. ASSUME NEW f \in run[r].seen
      PROVE  /\ rec'[run[r].area, f] # None /\ rec'[run[r].area, f].health = "healthy"
             /\ ~rec'[run[r].area, f].old
  <2>1. PICK x \in Artifacts : x = <<run[r].area, f>>
    BY <1>2
  <2>2. CASE MarkStale(r)
    <3>1. rec'[x] = rec[x]
      BY <1>0, <1>2, <2>1, <2>2, RecordsMarked
    <3>2. QED
      BY <1>2, <2>1, <3>1
  <2>3. CASE MarkRecord(r)
    <3>1. PICK m \in run[r].marks :
            \/ rec' = rec
            \/ \E y \in Record :
                 /\ rec' = [rec EXCEPT ![<<run[r].area, m.file>>] = y]
                 /\ y.health = HealthFound(r, m, rec[run[r].area, m.file].health)
                 /\ y.old = rec[run[r].area, m.file].old
      BY <1>0, <2>3, RecordMarked
    <3>2. CASE rec' = rec
      BY <1>2, <2>1, <3>2
    <3>3. CASE rec' # rec
      <4>1. PICK y \in Record :
              /\ rec' = [rec EXCEPT ![<<run[r].area, m.file>>] = y]
              /\ y.health = HealthFound(r, m, rec[run[r].area, m.file].health)
              /\ y.old = rec[run[r].area, m.file].old
        BY <3>1, <3>3
      <4>2. CASE m.file # f
        <5>1. <<run[r].area, m.file>> # x
          BY <2>1, <4>2
        <5>2. rec'[x] = rec[x]
          BY <1>0, <4>1, <5>1
        <5>3. QED
          BY <1>2, <2>1, <5>2
      <4>3. CASE m.file = f
        <5>1. rec'[x] = y
          BY <1>0, <2>1, <4>1, <4>3
        <5>2. y.health = "healthy" /\ ~y.old
          BY <1>2, <2>1, <4>1, <4>3 DEF HealthFound
        <5>3. QED
          BY <2>1, <5>1, <5>2, RowAssumption
      <4>4. QED
        BY <4>2, <4>3
    <3>4. QED
      BY <3>2, <3>3
  <2>4. QED
    BY <2>2, <2>3
<1>4. run'[r].area = run[r].area
  BY DEF SameArea
<1>5. QED
  BY <1>3, <1>4 DEF Healthy

LEMMA WalkedToEnd ==
  ASSUME TypesOK, NEW r \in Runs, Walked(r), Steps(r), run[r].calm,
         UNCHANGED <<area, disk, mounted>>, run'[r].pc \in {"mark", "indexed"}
  PROVE  Walked(r)'
<1>0. /\ RunsTyped /\ Aimed(r) /\ rec \in [Artifacts -> Record \cup {None}]
  BY TypesHere
<1>1. ListRecords(r) \/ MarkRecord(r) \/ MarkStale(r)
  BY OwnPcs
<1>2. SameArea(r) /\ SamePlace(r) /\ SameSeen(r)
  <2>1. CASE MarkStale(r)
    BY <1>0, <2>1, RunGoes DEF MarkStale, Pcs, Stages
  <2>2. QED
    BY <1>0, <1>1, <2>1, RunLists, RunMarks
<1>3. run[r].pc \in {"walk", "mark"} /\ run[r].pc \in Stages /\ run[r].pc \notin AtPlace
  BY <1>1 DEF ListRecords, MarkRecord, MarkStale, Stages, AtPlace
<1>4. run[r].todo = {} /\ \A f \in run[r].seen : Healthy(run[r].area, f)
  BY <1>1, <1>3 DEF Walked, ListRecords, MarkRecord, MarkStale
<1>5. \A f \in run[r].seen : Healthy(run[r].area, f)'
  <2>1. CASE ListRecords(r)
    BY <1>2, <1>4, <2>1, HealthySame DEF ListRecords, index
  <2>2. CASE MarkRecord(r) \/ MarkStale(r)
    BY <1>2, <1>4, <2>2, SeenStaysHealthy
  <2>3. QED
    BY <1>1, <2>1, <2>2
<1>6. run'[r].todo = {}
  BY <1>2, <1>4 DEF SamePlace
<1>7. Left(r) = {}
  BY <1>3, <1>4 DEF Left
<1>8. run'[r].pc \notin AtPlace /\ run'[r].pc \notin {"match", "attach", "link"}
  BY DEF AtPlace
<1>9. QED
  BY <1>2, <1>3, <1>5, <1>6, <1>7, <1>8, WalkedFrame

LEMMA WalkedStep ==
  ASSUME TypesOK, Alone, \A r \in Runs : Walked(r), \A r \in Runs : Queued(r), [Next]_vars,
         NEW r \in Runs
  PROVE  Walked(r)'
<1>1. SUFFICES ASSUME run'[r].calm, run'[r].pc \in Stages
               PROVE  Walked(r)'
  BY DEF Walked
<1>2. CASE Steps(r) /\ run[r].calm /\ UNCHANGED <<area, disk, mounted, source>>
  <2>1. run'[r].pc \in {"walk", "register", "match", "attach", "link", "mark", "indexed"}
    BY <1>1 DEF Stages, AtPlace
  <2>2. QED
    BY <1>1, <1>2, <2>1, WalkedToWalk, WalkedToRegister, WalkedToMatch, WalkedAtPlace, WalkedToEnd
<1>3. CASE run'[r].pc = "next"
  BY <1>1, <1>3 DEF Stages, AtPlace
<1>4. CASE RelinkExact(r)
  <2>1. run'[r].pc = "relink"
    BY <1>4, TypesHere, RunRelinkStarts
  <2>2. QED
    BY <1>1, <2>1 DEF Stages, AtPlace
<1>5. CASE run'[r] = run[r] /\ UNCHANGED <<area, disk, mounted, rec>>
  <2>1. run[r].calm /\ run[r].pc \in Stages
    BY <1>1, <1>5
  <2>2. SameArea(r) /\ SameSeen(r) /\ Left(r)' = Left(r)
    BY <1>5 DEF SameArea, SameSeen, Left
  <2>3. \A f \in run[r].seen : Healthy(run[r].area, f)'
    BY <1>5, <2>1, <2>2, HealthySame DEF Walked
  <2>4. QED
    BY <1>5, <2>1, <2>2, <2>3, WalkedFrame DEF Walked
<1>6. QED
  BY <1>1, <1>2, <1>3, <1>4, <1>5, CalmStep

\* A record of the area that was not seen is missing, or to be marked.
Accounted(r, f) == \/ f \in run[r].seen
                   \/ rec[run[r].area, f].health = "missing"
                   \/ \E m \in run[r].marks : m.file = f

Marked(r) ==
  run[r].calm /\ run[r].pc \in {"mark", "indexed"} =>
    /\ run[r].pc = "indexed" => run[r].marks = {}
    /\ \A f \in Files : rec[run[r].area, f] # None => Accounted(r, f)

LEMMA MarkedByRecord ==
  ASSUME TypesOK, NEW r \in Runs, Marked(r), MarkRecord(r), run[r].calm
  PROVE  Marked(r)'
<1>0. /\ RunsOK /\ WorldOK /\ RecordsOK /\ RunsTyped
      /\ rec \in [Artifacts -> Record \cup {None}]
  BY TypesHere
<1>1. /\ run[r].area \in Areas /\ run[r].pc = "mark"
  BY <1>0 DEF RunsOK, Aimed, MarkRecord, Stages
<1>2. SameArea(r) /\ SameSeen(r) /\ run'[r].pc = "mark"
  BY <1>0, RunMarks
<1>3. run'[r].area = run[r].area /\ run'[r].seen = run[r].seen
  BY <1>2 DEF SameArea, SameSeen
<1>4. PICK m \in run[r].marks :
        /\ m.file \in Files /\ run'[r].marks = run[r].marks \ {m}
        /\ \/ rec' = rec /\ rec[run[r].area, m.file] = None
           \/ /\ rec[run[r].area, m.file] \in Record
              /\ \E y \in Record :
                   /\ rec' = [rec EXCEPT ![<<run[r].area, m.file>>] = y]
                   /\ y.health = HealthFound(r, m, rec[run[r].area, m.file].health)
                   /\ y.fp = rec[run[r].area, m.file].fp /\ y.old = rec[run[r].area, m.file].old
  BY <1>0, RecordMarked, Zenon
<1>5. ASSUME NEW f \in Files, rec'[run[r].area, f] # None
      PROVE  \/ f \in run[r].seen
             \/ rec'[run[r].area, f].health = "missing"
             \/ \E n \in run'[r].marks : n.file = f
  <2>1. PICK x \in Artifacts : x = <<run[r].area, f>>
    BY <1>1 DEF Artifacts
  <2>2. CASE f = m.file
    <3>1. PICK y \in Record :
            /\ rec' = [rec EXCEPT ![<<run[r].area, m.file>>] = y]
            /\ y.health = HealthFound(r, m, rec[run[r].area, m.file].health)
      BY <1>4, <1>5, <2>2
    <3>2. rec'[x] = y
      BY <1>0, <2>1, <2>2, <3>1
    <3>3. QED
      BY <2>1, <2>2, <3>1, <3>2 DEF HealthFound
  <2>3. CASE f # m.file
    <3>1. <<run[r].area, m.file>> # x
      BY <2>1, <2>3
    <3>2. rec'[x] = rec[x]
      BY <1>0, <1>4, <2>1, <3>1
    <3>3. Accounted(r, f)
      BY <1>1, <1>5, <2>1, <3>2 DEF Marked
    <3>4. QED
      BY <1>4, <2>1, <2>3, <3>2, <3>3 DEF Accounted
  <2>4. QED
    BY <2>2, <2>3
<1>6. \A f \in Files : rec'[run'[r].area, f] # None => Accounted(r, f)'
  BY <1>3, <1>5 DEF Accounted
<1>7. QED
  BY <1>2, <1>6 DEF Marked

LEMMA MarkedStep ==
  ASSUME TypesOK, Alone, \A r \in Runs : Marked(r), [Next]_vars, NEW r \in Runs
  PROVE  Marked(r)'
<1>0. /\ RunsOK /\ WorldOK /\ RecordsOK /\ RunsTyped /\ Aimed(r)
      /\ rec \in [Artifacts -> Record \cup {None}]
  BY TypesHere
<1>1. SUFFICES ASSUME run'[r].calm, run'[r].pc \in {"mark", "indexed"}
               PROVE  Marked(r)'
  BY DEF Marked
<1>2. CASE Steps(r) /\ run[r].calm
  <2>1. CASE ListRecords(r)
    <3>1. /\ run'[r].pc = "mark" /\ SameArea(r) /\ rec' = rec
          /\ \A f \in Files : rec[run[r].area, f] # None => \E m \in run'[r].marks : m.file = f
      BY <1>0, <2>1, RunLists DEF ListRecords, index
    <3>2. run'[r].area = run[r].area
      BY <3>1 DEF SameArea
    <3>3. QED
      BY <3>1, <3>2 DEF Marked, Accounted
  <2>2. CASE MarkRecord(r)
    BY <1>2, <2>2, MarkedByRecord
  <2>3. CASE MarkStale(r)
    <3>1. Goes(r, "indexed") /\ "indexed" \in Pcs /\ run[r].pc = "mark" /\ run[r].marks = {}
      BY <2>3 DEF MarkStale, Pcs, Stages
    <3>2. SameArea(r) /\ SameSeen(r) /\ SameMarks(r)
      BY <1>0, <3>1, RunGoes
    <3>3. run'[r].area = run[r].area /\ run'[r].seen = run[r].seen /\ run'[r].marks = {}
      BY <3>1, <3>2 DEF SameArea, SameSeen, SameMarks
    <3>4. ASSUME NEW f \in Files, rec'[run[r].area, f] # None
          PROVE  f \in run[r].seen \/ rec'[run[r].area, f].health = "missing"
      <4>1. run[r].area \in Areas
        BY <1>0, <3>1 DEF Aimed, Stages
      <4>2. PICK x \in Artifacts : x = <<run[r].area, f>>
        BY <4>1 DEF Artifacts
      <4>3. rec[x] # None /\ (rec[x].health = "missing" => rec'[x] = rec[x])
        BY <1>0, <2>3, <3>4, <4>2, RecordsMarked
      <4>4. Accounted(r, f)
        BY <1>2, <3>1, <4>2, <4>3 DEF Marked
      <4>5. QED
        BY <3>1, <4>2, <4>3, <4>4 DEF Accounted
    <3>5. QED
      BY <3>3, <3>4 DEF Marked, Accounted
  <2>4. QED
    BY <1>1, <1>2, <2>1, <2>2, <2>3, OwnPcs
<1>3. CASE run'[r].pc = "next"
  BY <1>1, <1>3
<1>4. CASE RelinkExact(r)
  <2>1. run'[r].pc = "relink"
    BY <1>0, <1>4, RunRelinkStarts
  <2>2. QED
    BY <1>1, <2>1
<1>5. CASE run'[r] = run[r] /\ rec' = rec
  <2>1. \A f : Accounted(r, f) => Accounted(r, f)'
    BY <1>5 DEF Accounted
  <2>2. Marked(r)
    OBVIOUS
  <2>3. QED
    BY <1>5, <2>1, <2>2 DEF Marked
<1>6. QED
  BY <1>1, <1>2, <1>3, <1>4, <1>5, CalmStep

\* What the walk has seen is what is on disk, and the marks leave nothing else in the index.
LEMMA IndexedMatches ==
  ASSUME TypesOK, NEW r \in Runs, Walked(r), Marked(r), run[r].pc = "indexed", run[r].calm
  PROVE  /\ {f \in Files : rec[run[r].area, f] # None /\ rec[run[r].area, f].health # "missing"}
              = OnDisk(run[r].root)
         /\ \A f \in OnDisk(run[r].root) : rec[run[r].area, f].health = "healthy"
<1>1. run[r].pc \in Stages /\ run[r].pc \notin AtPlace
  BY DEF Stages, AtPlace
<1>2. /\ run[r].todo = {} /\ run[r].seen \subseteq OnDisk(run[r].root)
      /\ \A p \in Past(r) : Readable(p) => disk[p].src \in run[r].seen
      /\ \A f \in run[r].seen : Healthy(run[r].area, f)
  BY <1>1 DEF Walked
<1>3. Past(r) = {run[r].root} \X Dirs
  BY <1>1, <1>2 DEF Past, Left
<1>4. OnDisk(run[r].root) = run[r].seen
  BY <1>2, <1>3 DEF OnDisk
<1>5. run[r].seen \subseteq Files
  BY TypesHere DEF RunsTyped, Run
<1>6. \A f \in Files : rec[run[r].area, f] # None /\ rec[run[r].area, f].health # "missing" => f \in run[r].seen
  BY DEF Marked, Accounted
<1>7. \A f \in run[r].seen : rec[run[r].area, f] # None /\ rec[run[r].area, f].health = "healthy"
  BY <1>2 DEF Healthy
<1>8. QED
  BY <1>4, <1>5, <1>6, <1>7

\* When IndexStorageArea ends undisturbed, the sources of the bundles on disk have healthy
\* records and the others none but missing ones: whatever the index was before, for any
\* number of directories, and with every statement of the walk a step of its own.
THEOREM IndexingMatchesDisk == Spec => []IndexMatchesDisk
<1>1. Init => (\A r \in Runs : Walked(r)) /\ (\A r \in Runs : Queued(r)) /\ (\A r \in Runs : Marked(r))
  <2>1. Init => \A r \in Runs : run[r].calm = FALSE
    BY DEF Init, Idle
  <2>2. QED
    BY <2>1 DEF Walked, Queued, Marked
<1>2. TypesOK /\ Alone /\ (\A r \in Runs : Walked(r)) /\ (\A r \in Runs : Queued(r)) /\ [Next]_vars
        => (\A r \in Runs : Walked(r))' /\ (\A r \in Runs : Queued(r))'
  BY WalkedStep, QueuedStep
<1>3. TypesOK /\ Alone /\ (\A r \in Runs : Marked(r)) /\ [Next]_vars => (\A r \in Runs : Marked(r))'
  BY MarkedStep
<1>4. TypesOK /\ (\A r \in Runs : Walked(r)) /\ (\A r \in Runs : Marked(r)) => IndexMatchesDisk
  BY IndexedMatches DEF IndexMatchesDisk
<1>5. QED
  BY <1>1, <1>2, <1>3, <1>4, AloneInit, AloneStep, TypesAlways, PTL DEF Spec

-----------------------------------------------------------------------------
(* Recovery: the bundles that the walk is done with play again.             *)

Plays(f, c) == /\ item[f].done /\ item[f].mpd # None
               /\ Readable(item[f].mpd) /\ disk[item[f].mpd].fp = c.fp

Recovered(p) ==
  Readable(p) /\ SameContent(disk[p]) # {} => \E f \in SameContent(disk[p]) : Plays(f, disk[p])

Attaches(r) ==
  run[r].calm /\ run[r].pc \in Stages =>
    /\ \A p \in Past(r) : Recovered(p)
    /\ run[r].pc = "attach" => run[r].row \in SameContent(run[r].card)
    /\ run[r].pc = "link" => Recovered(run[r].place)

LEMMA ContentSame ==
  ASSUME item' = item, disk' = disk, mounted' = mounted
  PROVE  /\ \A c : SameContent(c)' = SameContent(c)
         /\ \A p : Recovered(p)' <=> Recovered(p)
<1>1. \A c : SameContent(c)' = SameContent(c)
  BY DEF SameContent
<1>2. \A p : Readable(p)' <=> Readable(p)
  BY DiskSame
<1>3. \A f, c : Plays(f, c)' <=> Plays(f, c)
  BY DEF Plays, Readable, Sidecar
<1>4. \A p : Recovered(p)' <=> Recovered(p)
  BY <1>1, <1>2, <1>3 DEF Recovered
<1>5. QED
  BY <1>1, <1>4

\* The run goes on in its area, and the items stay.
LEMMA AttachesFrame ==
  ASSUME NEW r \in Runs, Attaches(r), run[r].calm, run[r].pc \in Stages,
         UNCHANGED <<disk, mounted, item>>, run'[r].root = run[r].root,
         \A p \in {run[r].root} \X Dirs : p \in Left(r) /\ p \notin Left(r)' => Recovered(p),
         run'[r].pc = "attach" => run'[r].row \in SameContent(run'[r].card),
         run'[r].pc = "link" => Recovered(run'[r].place)
  PROVE  Attaches(r)'
<1>1. \A p \in Past(r)' : Recovered(p)
  BY DEF Past, Attaches
<1>2. \A p \in Past(r)' : Recovered(p)'
  BY <1>1, ContentSame
<1>3. run'[r].pc = "attach" => run'[r].row \in SameContent(run[r].card)'
  <2>1. PICK c : c = run'[r].card
    OBVIOUS
  <2>2. SameContent(c)' = SameContent(c)
    BY ContentSame
  <2>3. SameContent(run[r].card)' = SameContent(c)'
    BY <2>1
  <2>4. QED
    BY <2>1, <2>2, <2>3
<1>4. run'[r].pc = "link" => Recovered(run[r].place)'
  <2>1. PICK p : p = run'[r].place
    OBVIOUS
  <2>2. Recovered(p)' <=> Recovered(p)
    BY ContentSame
  <2>3. Recovered(run[r].place)' <=> Recovered(p)'
    BY <2>1 DEF Recovered
  <2>4. QED
    BY <2>1, <2>2, <2>3
<1>5. QED
  BY <1>2, <1>3, <1>4 DEF Attaches

LEMMA AttachesToWalk ==
  ASSUME TypesOK, NEW r \in Runs, Attaches(r), Walked(r), Steps(r), run[r].calm,
         UNCHANGED <<disk, mounted>>, run'[r].pc = "walk", run'[r].calm
  PROVE  Attaches(r)'
<1>0. /\ RunsTyped /\ Aimed(r)
      /\ disk \in [Places -> Card \cup {None, Broken}]
      /\ rec \in [Artifacts -> Record \cup {None}]
  BY TypesHere
<1>1. CASE IndexStorageArea(r)
  <2>1. CASE run[r].queue = {}
    <3>1. run'[r] = Idle
      BY <1>0, <1>1, <2>1, RunIs, IdleIsRun DEF IndexStorageArea
    <3>2. QED
      BY <3>1 DEF Idle
  <2>2. CASE run[r].queue # {}
    <3>1. PICK q \in run[r].queue : run'[r].root = q.root /\ run'[r].todo = {q.root} \X Dirs
      BY <1>0, <1>1, <2>2, RunIndexes
    <3>2. Past(r)' = {}
      BY <3>1 DEF Past, Left
    <3>3. QED
      BY <3>2 DEF Attaches
  <2>3. QED
    BY <2>1, <2>2
<1>2. CASE Visit(r)
  <2>1. run[r].area \in Areas /\ run[r].pc = "walk" /\ run[r].pc \in Stages /\ item' = item
    BY <1>0, <1>2 DEF Visit, Aimed, Stages
  <2>2. /\ SameArea(r)
        /\ \E p \in run[r].todo :
             /\ run'[r].todo = run[r].todo \ {p}
             /\ IF ~Readable(p) THEN run'[r].pc = "walk"
                ELSE /\ run'[r].pc = "register" /\ run'[r].place = p
                     /\ run'[r].card = disk[p] /\ disk[p] \in Card
    BY <1>0, <1>2, <2>1, RunVisits
  <2>3. PICK p \in run[r].todo : run'[r].todo = run[r].todo \ {p} /\ ~Readable(p)
    BY <2>2
  <2>4. \A d \in {run[r].root} \X Dirs : d \in Left(r) /\ d \notin Left(r)' => Recovered(d)
    BY <2>1, <2>3 DEF Left, AtPlace, Recovered
  <2>5. QED
    BY <2>1, <2>2, <2>4, AttachesFrame DEF SameArea
<1>3. CASE Leaves(r)
  <2>1. SameArea(r) /\ run'[r].todo = run[r].todo /\ item' = item
    BY <1>0, <1>3, RunWalksOn DEF Leaves
  <2>2. run[r].pc \in {"register", "match", "link"} /\ run[r].pc \in Stages /\ run[r].pc \in AtPlace
    BY <1>3 DEF Leaves, Stages, AtPlace
  <2>3. area[run[r].area] # None /\ run[r].card = disk[run[r].place]
    BY <2>2 DEF Walked
  <2>4. Recovered(run[r].place)
    <3>1. CASE run[r].pc = "link"
      BY <2>2, <3>1 DEF Attaches
    <3>2. CASE run[r].pc # "link"
      BY <1>3, <2>3, <3>2 DEF Leaves, Recovered
    <3>3. QED
      BY <3>1, <3>2
  <2>5. \A d \in {run[r].root} \X Dirs : d \in Left(r) /\ d \notin Left(r)' => Recovered(d)
    BY <2>1, <2>4 DEF Left, AtPlace
  <2>6. QED
    BY <2>1, <2>2, <2>5, AttachesFrame DEF SameArea
<1>4. QED
  BY <1>1, <1>2, <1>3, OwnPcs

\* The row is written back with the bundle: no item's content changes, and the items that
\* played still do.
LEMMA AttachesToLink ==
  ASSUME TypesOK, NEW r \in Runs, Attaches(r), Walked(r), Attach(r), run[r].calm,
         UNCHANGED <<disk, mounted>>
  PROVE  Attaches(r)'
<1>0. /\ RunsTyped /\ Aimed(r) /\ item \in [Files -> Item \cup {None}]
  BY TypesHere
<1>1. /\ run'[r].pc = "link" /\ SameArea(r) /\ SamePlace(r)
  BY <1>0, RunAttaches
<1>2. /\ run[r].pc = "attach" /\ run[r].pc \in Stages /\ run[r].pc \in AtPlace
  BY DEF Attach, Stages, AtPlace
<1>3. /\ run[r].place \in Places /\ run[r].card \in Card /\ run[r].row \in Files
  BY <1>0, <1>2 DEF Aimed
<1>4. /\ run[r].card = disk[run[r].place] /\ Readable(run[r].place)
      /\ run[r].row \in SameContent(run[r].card)
      /\ \A p \in Past(r) : Recovered(p)
  BY <1>2 DEF Walked, Attaches
<1>5. PICK y : y = [fp |-> run[r].card.fp, done |-> TRUE, mpd |-> run[r].place]
  BY Zenon
<1>6. y \in Item /\ y.fp = run[r].card.fp /\ y.done = TRUE /\ y.mpd = run[r].place
  BY <1>3, <1>5 DEF Item, Card
<1>7. y # None /\ run[r].place # None
  BY <1>3, <1>6, RowAssumption, ArtifactAssumption DEF Places
<1>8. item' = [item EXCEPT ![run[r].row] = y]
  BY <1>5 DEF Attach, Attached
<1>9. item'[run[r].row] = y /\ \A f \in Files : f # run[r].row => item'[f] = item[f]
  BY <1>0, <1>3, <1>8
<1>10. item[run[r].row] # None /\ item[run[r].row].fp = run[r].card.fp
  BY <1>4 DEF SameContent
<1>11. \A c : SameContent(c)' = SameContent(c)
  BY <1>6, <1>7, <1>9, <1>10 DEF SameContent
<1>12. \A p : Readable(p)' <=> Readable(p)
  BY DiskSame
<1>13. ASSUME NEW c, c.fp = run[r].card.fp, NEW f, f = run[r].row
       PROVE  Plays(f, c)'
  <2>1. item'[f].done /\ item'[f].mpd = run[r].place /\ item'[f].mpd # None
    BY <1>6, <1>7, <1>9, <1>13
  <2>2. Readable(item[f].mpd)' /\ disk'[item'[f].mpd].fp = c.fp
    <3>1. PICK p : p = run[r].place
      OBVIOUS
    <3>2. Readable(p)' /\ item'[f].mpd = p
      BY <1>4, <1>12, <2>1, <3>1
    <3>3. QED
      BY <1>4, <1>13, <3>1, <3>2 DEF Readable, Sidecar
  <2>3. QED
    BY <2>1, <2>2 DEF Plays
<1>14. ASSUME NEW f \in Files, NEW c, f \in SameContent(c), Plays(f, c)
       PROVE  Plays(f, c)'
  <2>1. CASE f = run[r].row
    <3>1. c.fp = run[r].card.fp
      BY <1>10, <1>14, <2>1 DEF SameContent
    <3>2. QED
      BY <1>13, <2>1, <3>1
  <2>2. CASE f # run[r].row
    <3>1. item'[f] = item[f]
      BY <1>9, <2>2
    <3>2. QED
      BY <1>14, <3>1 DEF Plays, Readable, Sidecar
  <2>3. QED
    BY <2>1, <2>2
<1>15. \A p : Recovered(p) => Recovered(p)'
  <2>1. SUFFICES ASSUME NEW p, Recovered(p), Readable(p)', (SameContent(disk[p]) # {})'
                 PROVE  \E f \in SameContent(disk[p])' : Plays(f, disk[p])'
    BY DEF Recovered
  <2>2. PICK c : c = disk[p]
    OBVIOUS
  <2>3. SameContent(disk[p])' = SameContent(c)
    BY <1>11, <2>2
  <2>4. PICK f \in SameContent(c) : Plays(f, c)
    BY <1>12, <2>1, <2>2, <2>3 DEF Recovered
  <2>5. f \in Files /\ Plays(f, c)'
    BY <1>14, <2>4 DEF SameContent
  <2>6. Plays(f, disk[p])'
    BY <2>2, <2>5
  <2>7. QED
    BY <2>3, <2>4, <2>6
<1>16. Recovered(run[r].place)'
  <2>1. PICK p : p = run[r].place
    OBVIOUS
  <2>2. PICK c : c = disk[p]
    OBVIOUS
  <2>3. c = run[r].card
    BY <1>4, <2>1, <2>2
  <2>4. PICK f \in Files : f = run[r].row
    BY <1>3
  <2>5. f \in SameContent(c)' /\ Plays(f, c)'
    <3>1. f \in SameContent(c)
      BY <1>4, <2>3, <2>4
    <3>2. f \in SameContent(c)'
      BY <1>11, <3>1
    <3>3. Plays(f, c)'
      BY <1>13, <2>3, <2>4
    <3>4. QED
      BY <3>2, <3>3
  <2>6. f \in SameContent(disk[p])' /\ Plays(f, disk[p])'
    BY <2>2, <2>5
  <2>7. Recovered(p)'
    BY <2>6 DEF Recovered
  <2>8. run'[r].place = p
    BY <1>1, <2>1 DEF SamePlace
  <2>9. QED
    BY <2>7, <2>8
<1>17. Past(r)' = Past(r)
  BY <1>1, <1>2 DEF SameArea, SamePlace, Past, Left, AtPlace
<1>18. \A p \in Past(r)' : Recovered(p)'
  BY <1>4, <1>15, <1>17
<1>19. QED
  BY <1>1, <1>16, <1>18 DEF Attaches

LEMMA AttachesToRegister ==
  ASSUME TypesOK, NEW r \in Runs, Attaches(r), Steps(r), run[r].calm,
         UNCHANGED <<disk, mounted>>, run'[r].pc = "register"
  PROVE  Attaches(r)'
<1>0. /\ RunsTyped /\ Aimed(r)
      /\ disk \in [Places -> Card \cup {None, Broken}]
      /\ rec \in [Artifacts -> Record \cup {None}]
  BY TypesHere
<1>1. Visit(r)
  BY OwnPcs
<1>2. run[r].area \in Areas /\ run[r].pc = "walk" /\ run[r].pc \in Stages /\ item' = item
  BY <1>0, <1>1 DEF Visit, Aimed, Stages
<1>3. /\ SameArea(r)
      /\ \E p \in run[r].todo :
           /\ run'[r].todo = run[r].todo \ {p}
           /\ IF ~Readable(p) THEN run'[r].pc = "walk"
              ELSE /\ run'[r].pc = "register" /\ run'[r].place = p
                   /\ run'[r].card = disk[p] /\ disk[p] \in Card
  BY <1>0, <1>1, <1>2, RunVisits
<1>4. PICK p \in run[r].todo : run'[r].todo = run[r].todo \ {p} /\ run'[r].place = p
  BY <1>3
<1>5. \A d \in {run[r].root} \X Dirs : d \in Left(r) => d \in Left(r)'
  BY <1>2, <1>4 DEF Left, AtPlace
<1>6. QED
  BY <1>2, <1>3, <1>5, AttachesFrame DEF SameArea

\* The item that is found has the content until it is written.
LEMMA AttachesAtPlace ==
  ASSUME TypesOK, NEW r \in Runs, Attaches(r), Steps(r), run[r].calm,
         UNCHANGED <<disk, mounted>>, run'[r].pc \in {"match", "attach"}
  PROVE  Attaches(r)'
<1>0. /\ RunsTyped /\ Aimed(r) /\ rec \in [Artifacts -> Record \cup {None}]
  BY TypesHere
<1>1. /\ run[r].pc \in {"register", "match"} /\ item' = item /\ SameArea(r) /\ SamePlace(r)
      /\ run'[r].pc = "attach" => run'[r].row \in SameContent(run[r].card)
  <2>1. CASE run'[r].pc = "match"
    <3>1. Register(r) /\ area[run[r].area] # None
      BY <2>1, OwnPcs
    <3>2. QED
      BY <1>0, <2>1, <3>1, RunRegisters DEF Register
  <2>2. CASE run'[r].pc = "attach"
    <3>1. Match(r) /\ SameContent(run[r].card) # {}
      BY <2>2, OwnPcs
    <3>2. QED
      BY <1>0, <3>1, RunMatches DEF Match
  <2>3. QED
    BY <2>1, <2>2
<1>2. run[r].pc \in Stages /\ run[r].pc \in AtPlace
  BY <1>1 DEF Stages, AtPlace
<1>3. Left(r)' = Left(r)
  BY <1>1, <1>2 DEF Left, AtPlace, SamePlace
<1>4. run'[r].card = run[r].card /\ run'[r].root = run[r].root
  BY <1>1 DEF SamePlace, SameArea
<1>5. QED
  BY <1>1, <1>2, <1>3, <1>4, AttachesFrame

LEMMA AttachesToEnd ==
  ASSUME TypesOK, NEW r \in Runs, Attaches(r), Steps(r), run[r].calm,
         UNCHANGED <<disk, mounted>>, run'[r].pc \in {"mark", "indexed"}
  PROVE  Attaches(r)'
<1>0. /\ RunsTyped /\ Aimed(r) /\ rec \in [Artifacts -> Record \cup {None}]
  BY TypesHere
<1>1. ListRecords(r) \/ MarkRecord(r) \/ MarkStale(r)
  BY OwnPcs
<1>2. SameArea(r) /\ SamePlace(r)
  <2>1. CASE MarkStale(r)
    BY <1>0, <2>1, RunGoes DEF MarkStale, Pcs, Stages
  <2>2. QED
    BY <1>0, <1>1, <2>1, RunLists, RunMarks
<1>3. run[r].pc \in {"walk", "mark"} /\ run[r].pc \in Stages /\ run[r].pc \notin AtPlace /\ item' = item
  BY <1>1 DEF ListRecords, MarkRecord, MarkStale, Stages, AtPlace
<1>4. Left(r) \subseteq Left(r)'
  BY <1>2, <1>3 DEF Left, SamePlace
<1>5. QED
  BY <1>2, <1>3, <1>4, AttachesFrame DEF SameArea

LEMMA AttachesStep ==
  ASSUME TypesOK, Alone, \A r \in Runs : Walked(r), \A r \in Runs : Attaches(r), [Next]_vars,
         NEW r \in Runs
  PROVE  Attaches(r)'
<1>1. SUFFICES ASSUME run'[r].calm, run'[r].pc \in Stages
               PROVE  Attaches(r)'
  BY DEF Attaches
<1>2. CASE Steps(r) /\ run[r].calm /\ UNCHANGED <<area, disk, mounted, source>>
  <2>1. run'[r].pc \in {"walk", "register", "match", "attach", "link", "mark", "indexed"}
    BY <1>1 DEF Stages, AtPlace
  <2>2. run'[r].pc = "link" => Attach(r)
    BY <1>2, OwnPcs
  <2>3. QED
    BY <1>1, <1>2, <2>1, <2>2, AttachesToWalk, AttachesToRegister, AttachesAtPlace, AttachesToLink,
       AttachesToEnd
<1>3. CASE run'[r].pc = "next"
  BY <1>1, <1>3 DEF Stages, AtPlace
<1>4. CASE RelinkExact(r)
  <2>1. run'[r].pc = "relink"
    BY <1>4, TypesHere, RunRelinkStarts
  <2>2. QED
    BY <1>1, <2>1 DEF Stages, AtPlace
<1>5. CASE run'[r] = run[r] /\ UNCHANGED <<disk, mounted, item>>
  <2>1. run[r].calm /\ run[r].pc \in Stages
    BY <1>1, <1>5
  <2>2. Left(r)' = Left(r)
    BY <1>5 DEF Left
  <2>3. QED
    BY <1>5, <2>1, <2>2, AttachesFrame DEF Attaches
<1>6. QED
  BY <1>1, <1>2, <1>3, <1>4, <1>5, CalmStep

\* When IndexStorageArea ends undisturbed, every bundle there whose content an item of its
\* library has plays again: such an item is done and its bundle has that content.
THEOREM BundlesPlayAgain == Spec => []BundlesRecovered
<1>1. Init => (\A r \in Runs : Walked(r)) /\ (\A r \in Runs : Queued(r)) /\ (\A r \in Runs : Attaches(r))
  <2>1. Init => \A r \in Runs : run[r].calm = FALSE
    BY DEF Init, Idle
  <2>2. QED
    BY <2>1 DEF Walked, Queued, Attaches
<1>2. TypesOK /\ Alone /\ (\A r \in Runs : Walked(r)) /\ (\A r \in Runs : Queued(r)) /\ [Next]_vars
        => (\A r \in Runs : Walked(r))' /\ (\A r \in Runs : Queued(r))'
  BY WalkedStep, QueuedStep
<1>3. TypesOK /\ Alone /\ (\A r \in Runs : Walked(r)) /\ (\A r \in Runs : Attaches(r)) /\ [Next]_vars
        => (\A r \in Runs : Attaches(r))'
  BY AttachesStep
<1>4. (\A r \in Runs : Walked(r)) /\ (\A r \in Runs : Attaches(r)) => BundlesRecovered
  <2>1. SUFFICES ASSUME NEW r \in Runs, Walked(r), Attaches(r), run[r].pc = "indexed", run[r].calm,
                        NEW p \in {run[r].root} \X Dirs
                 PROVE  Recovered(p)
    BY DEF BundlesRecovered, Recovered, Plays
  <2>2. run[r].pc \in Stages /\ run[r].pc \notin AtPlace
    BY <2>1 DEF Stages, AtPlace
  <2>3. run[r].todo = {} /\ \A q \in Past(r) : Recovered(q)
    BY <2>1, <2>2 DEF Walked, Attaches
  <2>4. p \in Past(r)
    BY <2>1, <2>2, <2>3 DEF Past, Left
  <2>5. QED
    BY <2>3, <2>4
<1>5. QED
  BY <1>1, <1>2, <1>3, <1>4, AloneInit, AloneStep, TypesAlways, PTL DEF Spec
=============================================================================
