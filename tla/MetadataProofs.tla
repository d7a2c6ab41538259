---------------------------- MODULE MetadataProofs ----------------------------
(***************************************************************************)
(* Proofs about Metadata, for any rows, any number of goroutines and       *)
(* whatever TMDB knows: no row that TMDB has a match for is forgotten.     *)
(***************************************************************************)
EXTENDS Metadata, TLAPS

-----------------------------------------------------------------------------
(* The inductive invariant: somebody is in charge of every row that waits   *)

Refreshing == {"shows", "seasons", "list"}
AtShow == {"show", "askShow"}
AtSeason == AtShow \cup {"readShow", "season", "askSeason"}
Loading == {"loadShow", "loadSeason"}
AtEpisode == AtSeason \cup Loading \cup {"episode"}
AtItem == AtEpisode \cup {"movie"}

\* An item that is still to do is done with its season and show, and by itself if it
\* had no metadata when it was listed.
Waiting(x, r) == \E i \in x.todo : r \in Parts(i) /\ (r = i => i \notin x.have)

\* What is still to do for the item at hand.  A show that has no metadata when it is
\* read back ends it.
Working(x, r) ==
  \/ x.pc \in {"movie", "episode"} /\ r = x.item
  \/ /\ x.pc \in AtSeason /\ (x.pc = "readShow" => row[Show(x.item)] = "set")
     /\ \/ r = x.item /\ r \notin x.have
        \/ r = Season(x.item) /\ ~x.season
  \/ x.pc \in AtShow /\ r = Show(x.item) /\ ~x.show
  \/ /\ x.pc \in Loading
     /\ \/ r = x.item /\ r \notin x.have
        \/ r = Season(x.item)
        \/ r = Show(x.item) /\ (x.pc = "loadSeason" => ~x.show)

InCharge(x, r) == x.pc \in Refreshing \/ Waiting(x, r) \/ Working(x, r)

\* The items a run has still to do, the one at hand included.
Hands(x) == x.todo \cup {i \in Items : i = x.item /\ x.pc \in AtItem}

\* An item that was written and is about to be read back, and that nobody has at hand: it
\* is still without metadata when it is read.
Fresh(i) ==
  /\ row[i] = "none" /\ \A g \in Runs : i \notin Hands(run[g])
  /\ \E g \in Runs : run[g].pc = "written" /\ run[g].item = i

WantedFor(i, r) == There(i) /\ r \in Known /\ (i \in Episodes => Show(i) \in Known)

Covered ==
  \A i \in Items : \A r \in Parts(i) : WantedFor(i, r) =>
    row[r] = "set" \/ r \in lost \/ Fresh(i) \/ \E g \in Runs : InCharge(run[g], r)

RunsOK ==
  \A g \in Runs :
    /\ run[g].pc \in {"off", "written"} => run[g].todo = {}
    /\ run[g].pc = "written" => run[g].item \in Items /\ row[run[g].item] # "absent"
    /\ run[g].pc = "movie" => run[g].item \in Movies /\ row[run[g].item] # "absent"
    /\ run[g].pc \in AtEpisode => run[g].item \in Episodes
    /\ run[g].pc = "askShow" => ~run[g].show
    /\ run[g].pc = "askSeason" => ~run[g].season
    /\ \A i \in run[g].todo : row[i] # "absent"
    /\ run[g].pc \in AtEpisode => row[run[g].item] # "absent"

\* A season and its show come with the first episode, and go together.
RowsOK ==
  \A i \in Items : row[i] # "absent" =>
    /\ \A r \in Parts(i) : row[r] # "absent"
    /\ i \in Episodes => (There(Season(i)) <=> There(Show(i)))

RowsTyped ==
  /\ row \in [Rows -> {"absent", "none", "set", "gone"}]
  /\ \A i \in Items : There(i) => \A r \in Parts(i) : There(r)
  /\ lost \subseteq Rows /\ \A r \in lost : row[r] # "set"

MetadataInv == TypeOK /\ Covered /\ RunsOK /\ RowsOK

-----------------------------------------------------------------------------
(* Rows *)

LEMMA PartsAre ==
  ASSUME NEW i \in Items
  PROVE  /\ i \in Rows /\ i \in Parts(i) /\ Parts(i) \subseteq Rows
         /\ \A r \in Parts(i) : r = i \/ (i \in Episodes /\ (r = Season(i) \/ r = Show(i)))
         /\ i \in Episodes => /\ i \notin Movies /\ Season(i) \in Seasons /\ Show(i) \in Shows
                              /\ Parts(i) = {i, Season(i), Show(i)}
         /\ i \in Movies => Parts(i) = {i}
  BY MetadataAssumption DEF Parts, Rows, Items, Season, Show

\* Rows of different kinds are different rows.
LEMMA PartsOf ==
  ASSUME NEW i \in Items, NEW j \in Items
  PROVE  /\ i \in Parts(j) => i = j
         /\ i \in Episodes /\ Season(i) \in Parts(j) => j \in Episodes /\ Season(j) = Season(i) /\ Show(j) = Show(i)
         /\ i \in Episodes /\ Show(i) \in Parts(j) => j \in Episodes /\ Show(j) = Show(i)
  BY MetadataAssumption DEF Parts, Rows, Items, Season, Show

\* Nothing is wanted of an episode, nor of its season, whose show TMDB does not know.
LEMMA ShowUnknown ==
  ASSUME NEW i \in Episodes, Show(i) \notin Known, NEW r \in Parts(i)
  PROVE  r \notin Wanted
<1>1. i \in Items
  BY DEF Items
<1>2. r = i \/ r = Season(i) \/ r = Show(i)
  BY <1>1, PartsAre
<1>3. SUFFICES ASSUME r \in Wanted PROVE FALSE
  OBVIOUS
<1>4. r \in Known /\ \E j \in Items : r \in Parts(j) /\ (j \in Episodes => Show(j) \in Known)
  BY <1>3 DEF Wanted
<1>5. QED
  BY <1>1, <1>2, <1>4, PartsOf

\* Rows only gain metadata.
RowsGrow == \A r \in Rows : row'[r] = row[r] \/ (row[r] = "none" /\ row'[r] = "set")

LEMMA GrowingKeeps ==
  ASSUME RowsGrow, RowsOK, row \in [Rows -> {"absent", "none", "set", "gone"}]
  PROVE  /\ Wanted' = Wanted /\ RowsOK'
         /\ \A r \in Rows : There(r)' = There(r) /\ (row[r] = "set" => row'[r] = "set")
                            /\ (row[r] # "absent" => row'[r] # "absent")
<1>1. \A r \in Rows : /\ There(r)' <=> There(r)
                      /\ row[r] = "set" => row'[r] = "set"
                      /\ row[r] # "absent" <=> row'[r] # "absent"
  BY DEF RowsGrow, There
<1>2. Known \subseteq Rows /\ Items \subseteq Rows
  BY MetadataAssumption DEF Rows
<1>3. Wanted' = Wanted
  BY <1>1, <1>2 DEF Wanted
<1>4. RowsOK'
  BY <1>1, <1>2, PartsAre DEF RowsOK, Rows
<1>5. \A r \in Rows : There(r)' = There(r)
  BY DEF RowsGrow, There
<1>6. QED
  BY <1>1, <1>3, <1>4, <1>5

\* Those whose run did not change are still in charge.
LEMMA StillInCharge ==
  ASSUME RowsGrow, RunsOK, NEW h \in Runs, run'[h] = run[h], NEW r, InCharge(run[h], r)
  PROVE  InCharge(run[h], r)'
<1>1. run[h].pc = "readShow" => Show(run[h].item) \in Rows
  BY PartsAre DEF RunsOK, AtEpisode, AtSeason, AtShow, Loading, Items
<1>2. run[h].pc = "readShow" /\ row[Show(run[h].item)] = "set" => row'[Show(run[h].item)] = "set"
  BY <1>1 DEF RowsGrow
<1>3. Working(run[h], r) => Working(run[h], r)'
  BY <1>2 DEF Working
<1>4. QED
  BY <1>3 DEF InCharge, Waiting

\* What is wanted for an item is there.
LEMMA WantedForIsWanted ==
  ASSUME \A j \in Items : There(j) => \A q \in Parts(j) : There(q), NEW i \in Items,
         NEW r \in Parts(i), WantedFor(i, r)
  PROVE  r \in Wanted
  BY DEF Wanted, WantedFor

\* A step of one run that takes up no item, and changes none but its own, leaves the
\* fresh items fresh.
Keeping(g) == run[g].pc # "written" /\ Hands(run[g])' \subseteq Hands(run[g])

LEMMA FreshStays ==
  ASSUME NEW g \in Runs, Keeping(g), \A h \in Runs \ {g} : run'[h] = run[h],
         \A j \in Items : row'[j] = row[j] \/ j \in Hands(run[g]),
         NEW i \in Items, Fresh(i)
  PROVE  Fresh(i)'
<1>1. \A h \in Runs \ {g} : Hands(run[h])' = Hands(run[h])
  BY DEF Hands
<1>2. \A h \in Runs : i \notin Hands(run[h])'
  BY <1>1 DEF Fresh, Keeping
<1>3. PICK h \in Runs : run[h].pc = "written" /\ run[h].item = i
  BY DEF Fresh
<1>4. run'[h] = run[h]
  BY <1>3 DEF Keeping
<1>5. row'[i] = "none"
  BY DEF Fresh
<1>6. QED
  BY <1>2, <1>3, <1>4, <1>5 DEF Fresh

\* What one run hands over is set, lost, or still its own.
LEMMA Handover ==
  ASSUME MetadataInv, RowsGrow, NEW g \in Runs, \A h \in Runs \ {g} : run'[h] = run[h],
         Keeping(g), \A j \in Items : row'[j] = row[j] \/ j \in Hands(run[g]),
         \A r \in Wanted : r \in lost => r \in lost' \/ row'[r] = "set",
         \A r \in Wanted : InCharge(run[g], r) => row'[r] = "set" \/ r \in lost' \/ InCharge(run[g], r)'
  PROVE  Covered'
<1>1. Wanted' = Wanted /\ \A r \in Rows : row[r] = "set" => row'[r] = "set"
  BY GrowingKeeps DEF MetadataInv, TypeOK
<1>2. Wanted \subseteq Rows
  BY MetadataAssumption DEF Wanted
<1>3. ASSUME NEW r \in Wanted, NEW h \in Runs \ {g}, InCharge(run[h], r)
      PROVE  InCharge(run[h], r)'
  BY <1>3, StillInCharge DEF MetadataInv
<1>4. ASSUME NEW i \in Items, NEW r \in Parts(i), WantedFor(i, r)'
      PROVE  row'[r] = "set" \/ r \in lost' \/ Fresh(i)' \/ \E h \in Runs : InCharge(run[h], r)'
  <2>1. There(i)' = There(i)
    BY GrowingKeeps, PartsAre DEF MetadataInv, TypeOK
  <2>2. WantedFor(i, r)
    BY <1>4, <2>1 DEF WantedFor, Show
  <2>3. r \in Wanted
    BY <2>2, WantedForIsWanted DEF MetadataInv, TypeOK
  <2>4. row[r] = "set" \/ r \in lost \/ Fresh(i) \/ \E h \in Runs : InCharge(run[h], r)
    BY <2>2 DEF MetadataInv, Covered
  <2>5. Fresh(i) => Fresh(i)'
    BY FreshStays
  <2>6. QED
    BY <1>1, <1>2, <1>3, <2>3, <2>4, <2>5
<1>5. QED
  BY <1>4 DEF Covered, Parts, Season, Show

-----------------------------------------------------------------------------
(* Runs *)

\* What every step has to say of a run that it changes.
RunOK(x) ==
  /\ x.pc \in {"off", "written"} => x.todo = {}
  /\ x.pc = "written" => x.item \in Items /\ row[x.item] # "absent"
  /\ x.pc = "movie" => x.item \in Movies /\ row[x.item] # "absent"
  /\ x.pc \in AtEpisode => x.item \in Episodes /\ row[x.item] # "absent"
  /\ x.pc = "askShow" => ~x.show
  /\ x.pc = "askSeason" => ~x.season
  /\ \A i \in x.todo : row[i] # "absent"

LEMMA RunsOKSplit == RunsOK <=> \A g \in Runs : RunOK(run[g])
  BY DEF RunsOK, RunOK

LEMMA IdleIsRun == Idle \in Run /\ Idle.pc = "off" /\ Idle.todo = {}
  BY DEF Idle, Run, Stages

\* One run changes, into one that is all right; the others stay so while rows only
\* come into being.
LEMMA OneRun ==
  ASSUME run \in [Runs -> Run], RunsOK, NEW g \in Runs, NEW new \in Run,
         run' = [run EXCEPT ![g] = new], RunOK(new)',
         \A r \in Rows : row[r] # "absent" => row'[r] # "absent"
  PROVE  /\ RunsOK' /\ run' \in [Runs -> Run] /\ run'[g] = new
         /\ \A h \in Runs \ {g} : run'[h] = run[h]
<1>1. run' \in [Runs -> Run] /\ run'[g] = new /\ \A h \in Runs \ {g} : run'[h] = run[h]
  OBVIOUS
<1>2. ASSUME NEW h \in Runs
      PROVE  RunOK(run[h])'
  <2>1. CASE h = g
    BY <1>1, <2>1 DEF RunOK
  <2>2. CASE h # g
    <3>1. run'[h] = run[h] /\ RunOK(run[h]) /\ run[h] \in Run
      BY <1>1, <2>2, RunsOKSplit
    <3>2. /\ run[h].todo \subseteq Rows /\ (run[h].pc \in AtEpisode => run[h].item \in Rows)
          /\ run[h].pc \in {"written", "movie"} => run[h].item \in Rows
      BY <3>1 DEF Run, RunOK, Rows, Items
    <3>3. QED
      BY <3>1, <3>2 DEF RunOK
  <2>3. QED
    BY <2>1, <2>2
<1>3. RunsOK'
  BY <1>2 DEF RunsOK, RunOK
<1>4. QED
  BY <1>1, <1>3

\* A goroutine that is done with its item still has the others to do.
LEMMA EndingItem ==
  ASSUME run \in [Runs -> Run], RunsOK, NEW g \in Runs, ItemEnds(g), run[g].pc # "written",
         \A r \in Rows : row[r] # "absent" => row'[r] # "absent"
  PROVE  /\ RunsOK' /\ run' \in [Runs -> Run]
         /\ \A h \in Runs \ {g} : run'[h] = run[h]
         /\ \A r : Waiting(run[g], r) => Waiting(run[g], r)'
         /\ Keeping(g)
<1>1. run[g] \in Run /\ RunOK(run[g])
  BY RunsOKSplit
<1>2. CASE run[g].todo = {}
  <2>1. PICK new \in Run : new = Idle /\ new.pc = "off" /\ new.todo = {}
    BY IdleIsRun
  <2>2. run' = [run EXCEPT ![g] = new] /\ RunOK(new)'
    BY <1>2, <2>1 DEF ItemEnds, RunOK, AtEpisode, AtSeason, AtShow, Loading
  <2>3. /\ RunsOK' /\ run' \in [Runs -> Run] /\ run'[g] = new
        /\ \A h \in Runs \ {g} : run'[h] = run[h]
    BY <2>1, <2>2, OneRun
  <2>4. Hands(run[g])' = {}
    BY <2>1, <2>3 DEF Hands, AtItem, AtEpisode, AtSeason, AtShow, Loading
  <2>5. QED
    BY <1>2, <2>3, <2>4 DEF Waiting, Keeping
<1>3. CASE run[g].todo # {}
  <2>1. PICK todo \in SUBSET Items, have \in SUBSET Items :
          todo = run[g].todo /\ have = run[g].have \cap run[g].todo
    BY <1>1 DEF Run
  <2>2. PICK new : new = [[[Idle EXCEPT !.pc = "next"] EXCEPT !.todo = todo] EXCEPT !.have = have]
    OBVIOUS
  <2>3. new \in Run /\ new.pc = "next" /\ new.todo = todo /\ new.have = have
    BY <2>2 DEF Idle, Run, Stages
  <2>4. run' = [run EXCEPT ![g] = new]
    BY <1>3, <2>1, <2>2 DEF ItemEnds
  <2>5. \A i \in todo : row'[i] # "absent"
    BY <1>1, <2>1 DEF RunOK, Rows
  <2>6. RunOK(new)'
    BY <2>3, <2>5 DEF RunOK, AtEpisode, AtSeason, AtShow, Loading
  <2>7. /\ RunsOK' /\ run' \in [Runs -> Run] /\ run'[g] = new
        /\ \A h \in Runs \ {g} : run'[h] = run[h]
    BY <2>3, <2>4, <2>6, OneRun
  <2>8. ASSUME NEW r, Waiting(run[g], r)
        PROVE  Waiting(run[g], r)'
    BY <2>1, <2>3, <2>7, <2>8 DEF Waiting
  <2>9. Hands(run[g])' \subseteq Hands(run[g])
    BY <2>1, <2>3, <2>7 DEF Hands, AtItem, AtEpisode, AtSeason, AtShow, Loading
  <2>10. QED
    BY <2>7, <2>8, <2>9 DEF Keeping
<1>4. QED
  BY <1>2, <1>3

\* A goroutine that goes on at its item has the same to do.
LEMMA Going ==
  ASSUME run \in [Runs -> Run], RunsOK, NEW g \in Runs, NEW new \in Run,
         run' = [run EXCEPT ![g] = new], new.todo = run[g].todo, new.have = run[g].have,
         new.item = run[g].item, new.pc \notin {"off", "written", "movie"}, run[g].pc \in AtEpisode,
         new.pc = "askShow" => ~new.show, new.pc = "askSeason" => ~new.season,
         \A r \in Rows : row[r] # "absent" => row'[r] # "absent"
  PROVE  /\ RunsOK' /\ run' \in [Runs -> Run] /\ run'[g] = new
         /\ \A h \in Runs \ {g} : run'[h] = run[h]
         /\ \A r : Waiting(run[g], r) => Waiting(run[g], r)'
         /\ Keeping(g)
<1>1. run[g] \in Run /\ RunOK(run[g])
  BY RunsOKSplit
<1>2. run[g].todo \subseteq Rows /\ run[g].item \in Rows
  BY <1>1 DEF Run, RunOK, Rows, Items
<1>3. RunOK(new)'
  BY <1>1, <1>2 DEF RunOK
<1>4. /\ RunsOK' /\ run' \in [Runs -> Run] /\ run'[g] = new
      /\ \A h \in Runs \ {g} : run'[h] = run[h]
  BY <1>3, OneRun
<1>5. \A r : Waiting(run[g], r) => Waiting(run[g], r)'
  BY <1>4 DEF Waiting
<1>6. Hands(run[g])' \subseteq Hands(run[g])
  BY <1>4 DEF Hands, AtItem
<1>7. run[g].pc # "written"
  BY DEF AtEpisode, AtSeason, AtShow, Loading
<1>8. QED
  BY <1>4, <1>5, <1>6, <1>7 DEF Keeping

-----------------------------------------------------------------------------
(* Steps that only give metadata to rows *)

\* A step of one run: its own part of the invariant is what is left to show.
LEMMA RunStep ==
  ASSUME MetadataInv, RowsGrow, RowsTyped', key' \in BOOLEAN,
         RunsOK', run' \in [Runs -> Run], NEW g \in Runs, \A h \in Runs \ {g} : run'[h] = run[h],
         Keeping(g), \A j \in Items : row'[j] = row[j] \/ j \in Hands(run[g]),
         \A r \in Wanted : r \in lost => r \in lost' \/ row'[r] = "set",
         \A r \in Wanted : InCharge(run[g], r) => row'[r] = "set" \/ r \in lost' \/ InCharge(run[g], r)'
  PROVE  MetadataInv'
<1>1. TypeOK'
  BY DEF TypeOK, RowsTyped
<1>2. RowsOK'
  BY GrowingKeeps DEF MetadataInv, TypeOK
<1>3. Covered'
  BY Handover
<1>4. QED
  BY <1>1, <1>2, <1>3 DEF MetadataInv

LEMMA Unchanged ==
  ASSUME MetadataInv, UNCHANGED <<row, lost>>
  PROVE  RowsGrow /\ RowsTyped' /\ \A r \in Rows : row[r] # "absent" => row'[r] # "absent"
  BY DEF MetadataInv, TypeOK, RowsTyped, RowsGrow, There

LEMMA Losing ==
  ASSUME MetadataInv, NEW rows \in SUBSET Rows, Lose(rows), UNCHANGED row
  PROVE  /\ RowsGrow /\ RowsTyped' /\ \A r \in Rows : row[r] # "absent" => row'[r] # "absent"
         /\ lost \subseteq lost' /\ \A r \in rows : row'[r] = "set" \/ r \in lost'
  BY DEF MetadataInv, TypeOK, RowsTyped, RowsGrow, There, Lose

LEMMA Updating ==
  ASSUME MetadataInv, NEW r \in Rows, Update(r)
  PROVE  /\ RowsGrow /\ RowsTyped' /\ \A q \in Rows : row[q] # "absent" => row'[q] # "absent"
         /\ There(r) => row'[r] = "set"
         /\ \A q \in Rows : q # r => row'[q] = row[q] /\ (q \in lost => q \in lost')
<1>1. row \in [Rows -> {"absent", "none", "set", "gone"}]
  BY DEF MetadataInv, TypeOK
<1>2. /\ row' \in [Rows -> {"absent", "none", "set", "gone"}]
      /\ There(r) => row'[r] = "set"
      /\ ~There(r) => row'[r] = row[r]
      /\ \A q \in Rows : q # r => row'[q] = row[q]
      /\ lost' = lost \ {r}
  BY <1>1 DEF Update
<1>3. \A q \in Rows : There(q)' <=> There(q)
  BY <1>2 DEF There
<1>4. RowsGrow /\ \A q \in Rows : row[q] # "absent" => row'[q] # "absent"
  BY <1>1, <1>2 DEF RowsGrow, There
<1>5. RowsTyped'
  BY <1>2, <1>3, PartsAre DEF MetadataInv, TypeOK, RowsTyped
<1>6. QED
  BY <1>2, <1>4, <1>5

\* What TMDB's answer for a row does: it sets the row, or nothing is to be had for it,
\* or these rows are lost.
LEMMA Answered ==
  ASSUME MetadataInv, NEW r \in Rows, NEW rows \in SUBSET Rows, NEW a \in Answers(r), Stores(r, a, rows)
  PROVE  /\ RowsGrow /\ RowsTyped' /\ \A q \in Rows : row[q] # "absent" => row'[q] # "absent"
         /\ \A q \in Wanted : q \in lost => q \in lost' \/ row'[q] = "set"
         /\ a = "found" => (r \in Wanted => row'[r] = "set") /\ (There(r) => row'[r] = "set")
         /\ a = "none" => r \notin Known
         /\ a = "failed" => \A q \in rows : row'[q] = "set" \/ q \in lost'
         /\ a \in {"found", "none", "failed"}
         /\ \A q \in Rows : q # r => row'[q] = row[q]
<1>1. Wanted \subseteq Rows /\ \A q \in Wanted : There(q)
  BY MetadataAssumption DEF Wanted
<1>2. a \in {"found", "none", "failed"} /\ (a = "none" => r \notin Known)
  BY DEF Answers
<1>3. CASE a = "found"
  BY <1>1, <1>2, <1>3, Updating DEF Stores
<1>4. CASE a = "none"
  BY <1>1, <1>2, <1>4, Unchanged DEF Stores
<1>5. CASE a = "failed"
  BY <1>1, <1>2, <1>5, Losing DEF Stores
<1>6. QED
  BY <1>2, <1>3, <1>4, <1>5

LEMMA MovieKeeps == ASSUME MetadataInv, NEW g \in Runs, MovieAnswered(g) PROVE MetadataInv'
<1> DEFINE i == run[g].item
<1>1. /\ run \in [Runs -> Run] /\ RunsOK /\ i \in Movies /\ i \in Rows /\ i \in Items
      /\ run[g].pc = "movie" /\ run[g].pc # "written" /\ ItemEnds(g) /\ key' \in BOOLEAN
  BY DEF MetadataInv, TypeOK, RunsOK, MovieAnswered, At, Rows, Items
<1>2. PICK r \in Rows, rows \in SUBSET Rows : r = i /\ rows = {i} /\ r \in rows
  BY <1>1
<1>7. PICK a \in Answers(r) : Stores(r, a, rows)
  BY <1>2 DEF MovieAnswered, Search
<1>3. /\ RowsGrow /\ RowsTyped' /\ \A q \in Rows : row[q] # "absent" => row'[q] # "absent"
      /\ \A q \in Wanted : q \in lost => q \in lost' \/ row'[q] = "set"
      /\ a = "found" => (r \in Wanted => row'[r] = "set")
      /\ a = "none" => r \notin Known
      /\ a = "failed" => row'[r] = "set" \/ r \in lost'
      /\ a \in {"found", "none", "failed"}
      /\ \A q \in Rows : q # r => row'[q] = row[q]
  <2>1. \A q \in rows : a = "failed" => row'[q] = "set" \/ q \in lost'
    BY <1>2, <1>7, Answered
  <2>2. QED
    BY <1>2, <1>7, <2>1, Answered
<1>4. /\ RunsOK' /\ run' \in [Runs -> Run] /\ \A h \in Runs \ {g} : run'[h] = run[h]
      /\ \A q : Waiting(run[g], q) => Waiting(run[g], q)'
      /\ Keeping(g)
  BY <1>1, <1>3, EndingItem
<1>5. ASSUME NEW q \in Wanted, InCharge(run[g], q)
      PROVE  row'[q] = "set" \/ q \in lost' \/ InCharge(run[g], q)'
  <2>1. CASE Waiting(run[g], q)
    BY <1>4, <2>1 DEF InCharge
  <2>2. CASE q = r
    BY <1>3, <1>5, <2>2 DEF Wanted
  <2>3. QED
    BY <1>1, <1>2, <1>5, <2>1, <2>2 DEF InCharge, Working, Refreshing, AtSeason, AtShow, Loading
<1>8. \A j \in Items : row'[j] = row[j] \/ j \in Hands(run[g])
  BY <1>1, <1>2, <1>3 DEF Hands, Rows, AtItem
<1>9. QED
  BY <1>1, <1>3, <1>4, <1>5, <1>8, RunStep

LEMMA EpisodeKeeps == ASSUME MetadataInv, NEW g \in Runs, EpisodeAnswered(g) PROVE MetadataInv'
<1> DEFINE i == run[g].item
<1>1. /\ run \in [Runs -> Run] /\ RunsOK /\ i \in Rows
      /\ run[g].pc = "episode" /\ run[g].pc # "written" /\ ItemEnds(g) /\ key' \in BOOLEAN
  BY DEF MetadataInv, TypeOK, RunsOK, EpisodeAnswered, At, Rows, Items, AtEpisode
<1>2. PICK r \in Rows, rows \in SUBSET Rows : r = i /\ rows = {i} /\ r \in rows
  BY <1>1
<1>3. PICK a \in Answers(r) : Stores(r, a, rows)
  BY <1>2 DEF EpisodeAnswered, GetTVEpisode
<1>4. /\ RowsGrow /\ RowsTyped' /\ \A q \in Rows : row[q] # "absent" => row'[q] # "absent"
      /\ \A q \in Wanted : q \in lost => q \in lost' \/ row'[q] = "set"
      /\ a = "found" => (r \in Wanted => row'[r] = "set")
      /\ a = "none" => r \notin Known
      /\ a = "failed" => row'[r] = "set" \/ r \in lost'
      /\ a \in {"found", "none", "failed"}
      /\ \A q \in Rows : q # r => row'[q] = row[q]
  <2>1. \A q \in rows : a = "failed" => row'[q] = "set" \/ q \in lost'
    BY <1>2, <1>3, Answered
  <2>2. QED
    BY <1>2, <1>3, <2>1, Answered
<1>5. /\ RunsOK' /\ run' \in [Runs -> Run] /\ \A h \in Runs \ {g} : run'[h] = run[h]
      /\ \A q : Waiting(run[g], q) => Waiting(run[g], q)'
      /\ Keeping(g)
  BY <1>1, <1>4, EndingItem
<1>6. ASSUME NEW q \in Wanted, InCharge(run[g], q)
      PROVE  row'[q] = "set" \/ q \in lost' \/ InCharge(run[g], q)'
  <2>1. CASE Waiting(run[g], q)
    BY <1>5, <2>1 DEF InCharge
  <2>2. CASE q = r
    BY <1>4, <1>6, <2>2 DEF Wanted
  <2>3. QED
    BY <1>1, <1>2, <1>6, <2>1, <2>2 DEF InCharge, Working, Refreshing, AtSeason, AtShow, Loading
<1>9. \A j \in Items : row'[j] = row[j] \/ j \in Hands(run[g])
  BY <1>1, <1>2, <1>4 DEF Hands, Rows, AtItem, AtEpisode
<1>10. QED
  BY <1>1, <1>4, <1>5, <1>6, <1>9, RunStep

-----------------------------------------------------------------------------
(* Taking the next item                                                     *)

\* A goroutine that leaves an item out still has the others to do.
LEMMA Skipping ==
  ASSUME run \in [Runs -> Run], RunsOK, NEW g \in Runs, At(g, "next"),
         NEW i \in run[g].todo, Skips(g, i), UNCHANGED row
  PROVE  /\ RunsOK' /\ run' \in [Runs -> Run] /\ Keeping(g)
         /\ \A h \in Runs \ {g} : run'[h] = run[h]
         /\ \A q : InCharge(run[g], q) =>
              InCharge(run[g], q)' \/ (q \in Parts(i) /\ (q = i => i \notin run[g].have))
<1>1. run[g] \in Run /\ RunOK(run[g]) /\ run[g].pc = "next"
  BY RunsOKSplit DEF At
<1>2. \A r \in Rows : row[r] # "absent" => row'[r] # "absent"
  OBVIOUS
<1>3. ASSUME NEW q, InCharge(run[g], q)
      PROVE  Waiting(run[g], q)
  BY <1>1, <1>3 DEF InCharge, Working, Refreshing, AtSeason, AtShow, Loading
<1>4. CASE run[g].todo = {i}
  <2>1. PICK new \in Run : new = Idle /\ new.pc = "off" /\ new.todo = {}
    BY IdleIsRun
  <2>2. run' = [run EXCEPT ![g] = new]
    BY <1>4, <2>1 DEF Skips
  <2>3. RunOK(new)'
    BY <2>1 DEF RunOK, AtEpisode, AtSeason, AtShow, Loading
  <2>4. /\ RunsOK' /\ run' \in [Runs -> Run]
        /\ \A h \in Runs \ {g} : run'[h] = run[h]
    BY <1>2, <2>2, <2>3, OneRun
  <2>5. Keeping(g)
    BY <1>1, <2>1, <2>2 DEF Keeping, Hands, AtItem, AtEpisode, AtSeason, AtShow, Loading
  <2>6. QED
    BY <1>3, <1>4, <2>4, <2>5 DEF Waiting
<1>5. CASE run[g].todo # {i}
  <2>1. PICK todo \in SUBSET Items, have \in SUBSET Items :
          todo = run[g].todo \ {i} /\ have = run[g].have \ {i}
    BY <1>1 DEF Run
  <2>2. PICK old \in Run : old = run[g]
    BY <1>1
  <2>3. PICK new : new = [[old EXCEPT !.todo = todo] EXCEPT !.have = have]
    OBVIOUS
  <2>4. new \in Run /\ new.pc = "next" /\ new.todo = todo /\ new.have = have
    BY <1>1, <2>2, <2>3 DEF Run
  <2>5. run' = [run EXCEPT ![g] = new]
    BY <1>5, <2>1, <2>2, <2>3 DEF Skips
  <2>6. \A j \in todo : row'[j] # "absent"
    BY <1>1, <2>1 DEF RunOK, Rows
  <2>7. RunOK(new)'
    BY <2>4, <2>6 DEF RunOK, AtEpisode, AtSeason, AtShow, Loading
  <2>8. /\ RunsOK' /\ run' \in [Runs -> Run] /\ run'[g] = new
        /\ \A h \in Runs \ {g} : run'[h] = run[h]
    BY <1>2, <2>4, <2>5, <2>7, OneRun
  <2>9. ASSUME NEW q, Waiting(run[g], q)
        PROVE  Waiting(run[g], q)' \/ (q \in Parts(i) /\ (q = i => i \notin run[g].have))
    BY <2>1, <2>4, <2>8, <2>9 DEF Waiting
  <2>10. Keeping(g)
    BY <1>1, <2>1, <2>4, <2>8 DEF Keeping, Hands, AtItem, AtEpisode, AtSeason, AtShow, Loading
  <2>11. QED
    BY <1>3, <2>8, <2>9, <2>10 DEF InCharge
<1>6. QED
  BY <1>4, <1>5

\* A goroutine that takes an item has that at hand and the others still to do.
LEMMA Taking ==
  ASSUME run \in [Runs -> Run], RunsOK, NEW g \in Runs, At(g, "next"),
         NEW i \in run[g].todo, NEW pc \in {"movie", "loadShow"},
         Takes(g, i, pc), UNCHANGED row,
         i \in IF pc = "movie" THEN Movies ELSE Episodes
  PROVE  /\ RunsOK' /\ run' \in [Runs -> Run] /\ Keeping(g)
         /\ \A h \in Runs \ {g} : run'[h] = run[h]
         /\ run'[g].pc = pc /\ run'[g].item = i /\ run'[g].have = run[g].have
         /\ \A q : InCharge(run[g], q) =>
              InCharge(run[g], q)' \/ (q \in Parts(i) /\ (q = i => i \notin run[g].have))
<1>1. run[g] \in Run /\ RunOK(run[g]) /\ run[g].pc = "next"
  BY RunsOKSplit DEF At
<1>2. PICK todo \in SUBSET Items : todo = run[g].todo \ {i}
  BY <1>1 DEF Run
<1>3. PICK old \in Run : old = run[g]
  BY <1>1
<1>4. i \in Items
  BY <1>1 DEF Run
<1>5. PICK new : new = [old EXCEPT !.pc = pc, !.todo = todo, !.item = i]
  OBVIOUS
<1>6. /\ new \in Run /\ new.pc = pc /\ new.todo = todo /\ new.have = old.have /\ new.item = i
  BY <1>4, <1>5 DEF Run, Stages
<1>7. run' = [run EXCEPT ![g] = new]
  BY <1>2, <1>3, <1>5 DEF Takes
<1>8. \A j \in run[g].todo : row'[j] # "absent"
  BY <1>1 DEF RunOK
<1>9. RunOK(new)'
  BY <1>2, <1>6, <1>8 DEF RunOK, AtEpisode, AtSeason, AtShow, Loading
<1>10. /\ RunsOK' /\ run' \in [Runs -> Run] /\ run'[g] = new
       /\ \A h \in Runs \ {g} : run'[h] = run[h]
  BY <1>6, <1>7, <1>9, OneRun
<1>11. ASSUME NEW q, InCharge(run[g], q)
       PROVE  InCharge(run[g], q)' \/ (q \in Parts(i) /\ (q = i => i \notin run[g].have))
  <2>1. Waiting(run[g], q)
    BY <1>1, <1>11 DEF InCharge, Working, Refreshing, AtSeason, AtShow, Loading
  <2>2. QED
    BY <1>2, <1>3, <1>6, <1>10, <2>1 DEF InCharge, Waiting
<1>12. Keeping(g)
  BY <1>1, <1>2, <1>4, <1>6, <1>10 DEF Keeping, Hands, AtItem, AtEpisode, AtSeason, AtShow, Loading
<1>13. QED
  BY <1>3, <1>6, <1>10, <1>11, <1>12

LEMMA EnrichItemKeeps ==
  ASSUME MetadataInv, NEW g \in Runs, NEW i \in Items, EnrichItem(g, i) PROVE MetadataInv'
<1>1. /\ run \in [Runs -> Run] /\ RunsOK /\ At(g, "next") /\ i \in run[g].todo /\ i \in Movies
      /\ key' \in BOOLEAN /\ UNCHANGED row /\ Parts(i) = {i} /\ i \in Rows
  BY PartsAre DEF MetadataInv, TypeOK, EnrichItem
<1>2. CASE key /\ i \notin run[g].have
  <2>1. Takes(g, i, "movie") /\ UNCHANGED lost
    BY <1>2 DEF EnrichItem
  <2>2. /\ RunsOK' /\ run' \in [Runs -> Run] /\ Keeping(g) /\ \A h \in Runs \ {g} : run'[h] = run[h]
        /\ run'[g].pc = "movie" /\ run'[g].item = i
        /\ \A q : InCharge(run[g], q) => InCharge(run[g], q)' \/ q = i
    BY <1>1, <2>1, Taking
  <2>3. InCharge(run[g], i)'
    BY <2>2 DEF InCharge, Working
  <2>4. RowsGrow /\ RowsTyped'
    BY <1>1, <2>1, Unchanged
  <2>5. QED
    BY <1>1, <2>1, <2>2, <2>3, <2>4, RunStep
<1>3. CASE ~(key /\ i \notin run[g].have)
  <2>1. PICK rows \in SUBSET Rows : rows = IF key THEN {} ELSE {i}
    BY <1>1
  <2>2. Skips(g, i) /\ Lose(rows)
    BY <1>3, <2>1 DEF EnrichItem
  <2>3. /\ RunsOK' /\ run' \in [Runs -> Run] /\ Keeping(g) /\ \A h \in Runs \ {g} : run'[h] = run[h]
        /\ \A q : InCharge(run[g], q) => InCharge(run[g], q)' \/ (q = i /\ i \notin run[g].have)
    BY <1>1, <2>2, Skipping
  <2>4. RowsGrow /\ RowsTyped' /\ lost \subseteq lost' /\ \A r \in rows : row'[r] = "set" \/ r \in lost'
    BY <1>1, <2>2, Losing
  <2>5. ASSUME NEW q \in Wanted, InCharge(run[g], q)
        PROVE  row'[q] = "set" \/ q \in lost' \/ InCharge(run[g], q)'
    BY <1>3, <2>1, <2>3, <2>4, <2>5
  <2>6. \A r \in Wanted : r \in lost => r \in lost' \/ row'[r] = "set"
    BY <2>4
  <2>7. QED
    BY <1>1, <2>3, <2>4, <2>5, <2>6, RunStep
<1>4. QED
  BY <1>2, <1>3

LEMMA EnrichTVEpisodeKeeps ==
  ASSUME MetadataInv, NEW g \in Runs, NEW i \in Episodes, EnrichTVEpisode(g, i) PROVE MetadataInv'
<1>1. /\ run \in [Runs -> Run] /\ RunsOK /\ At(g, "next") /\ i \in run[g].todo
      /\ key' \in BOOLEAN /\ UNCHANGED row /\ i \in Items
  BY DEF MetadataInv, TypeOK, EnrichTVEpisode, Items
<1>2. Parts(i) = {i, Season(i), Show(i)} /\ Parts(i) \subseteq Rows
  BY <1>1, PartsAre
<1>3. CASE key
  <2>1. Takes(g, i, "loadShow") /\ UNCHANGED lost
    BY <1>3 DEF EnrichTVEpisode
  <2>2. /\ RunsOK' /\ run' \in [Runs -> Run] /\ Keeping(g) /\ \A h \in Runs \ {g} : run'[h] = run[h]
        /\ run'[g].pc = "loadShow" /\ run'[g].item = i /\ run'[g].have = run[g].have
        /\ \A q : InCharge(run[g], q) =>
             InCharge(run[g], q)' \/ (q \in Parts(i) /\ (q = i => i \notin run[g].have))
    BY <1>1, <2>1, Taking
  <2>3. RowsGrow /\ RowsTyped'
    BY <1>1, <2>1, Unchanged
  <2>4. ASSUME NEW q \in Parts(i), q = i => i \notin run[g].have
        PROVE  InCharge(run[g], q)'
    BY <1>2, <2>2, <2>4 DEF InCharge, Working, Loading, Season, Show
  <2>5. \A q \in Wanted : InCharge(run[g], q) => row'[q] = "set" \/ q \in lost' \/ InCharge(run[g], q)'
    BY <2>2, <2>4
  <2>6. QED
    BY <1>1, <2>1, <2>2, <2>3, <2>5, RunStep
<1>4. CASE ~key
  <2>1. PICK rows \in SUBSET Rows : rows = Parts(i)
    BY <1>2
  <2>2. Skips(g, i) /\ Lose(rows)
    BY <1>4, <2>1 DEF EnrichTVEpisode
  <2>3. /\ RunsOK' /\ run' \in [Runs -> Run] /\ Keeping(g) /\ \A h \in Runs \ {g} : run'[h] = run[h]
        /\ \A q : InCharge(run[g], q) => InCharge(run[g], q)' \/ q \in Parts(i)
    BY <1>1, <2>2, Skipping
  <2>4. RowsGrow /\ RowsTyped' /\ lost \subseteq lost' /\ \A r \in rows : row'[r] = "set" \/ r \in lost'
    BY <1>1, <2>2, Losing
  <2>5. ASSUME NEW q \in Wanted, InCharge(run[g], q)
        PROVE  row'[q] = "set" \/ q \in lost' \/ InCharge(run[g], q)'
    BY <2>1, <2>3, <2>4, <2>5
  <2>6. \A r \in Wanted : r \in lost => r \in lost' \/ row'[r] = "set"
    BY <2>4
  <2>7. QED
    BY <1>1, <2>3, <2>4, <2>5, <2>6, RunStep
<1>5. QED
  BY <1>3, <1>4

-----------------------------------------------------------------------------
(* The show                                                                 *)

\* An item that is at hand: none of its rows is wanted once its show is gone, and its
\* season and show are there together.
LEMMA AtHand ==
  ASSUME MetadataInv, NEW g \in Runs, run[g].pc \in AtEpisode
  PROVE  LET i == run[g].item
         IN  /\ i \in Episodes /\ i \in Items /\ i \in Rows /\ Season(i) \in Rows /\ Show(i) \in Rows
             /\ Parts(i) = {i, Season(i), Show(i)} /\ Parts(i) \subseteq Rows
             /\ ~There(Show(i)) => \A q \in Parts(i) : q \notin Wanted
<1> DEFINE i == run[g].item
<1>1. i \in Episodes /\ i \in Items /\ row[i] # "absent"
  BY DEF MetadataInv, RunsOK, Items
<1>2. /\ Parts(i) = {i, Season(i), Show(i)} /\ Parts(i) \subseteq Rows /\ i \in Rows
      /\ Season(i) \in Rows /\ Show(i) \in Rows
  BY <1>1, PartsAre
<1>3. (There(Season(i)) <=> There(Show(i))) /\ (There(i) => There(Show(i)))
  BY <1>1, <1>2 DEF MetadataInv, RowsOK, TypeOK
<1>4. \A q \in Wanted : There(q)
  BY DEF Wanted
<1>5. QED
  BY <1>1, <1>2, <1>3, <1>4

\* An item whose rows are all given up.
LEMMA GivesUp ==
  ASSUME MetadataInv, NEW g \in Runs, run[g].pc \in AtEpisode, ItemEnds(g),
         Lose(Parts(run[g].item)), UNCHANGED row, key' \in BOOLEAN
  PROVE  MetadataInv'
<1> DEFINE i == run[g].item
<1>1. /\ run \in [Runs -> Run] /\ RunsOK /\ run[g].pc # "written"
      /\ run[g].pc \notin Refreshing \cup {"movie"}
  BY DEF MetadataInv, TypeOK, Refreshing, AtEpisode, AtSeason, AtShow, Loading
<1>2. Parts(i) = {i, Season(i), Show(i)} /\ Parts(i) \subseteq Rows
  BY AtHand
<1>3. PICK rows \in SUBSET Rows : rows = Parts(i)
  BY <1>2
<1>4. RowsGrow /\ RowsTyped' /\ lost \subseteq lost' /\ \A r \in rows : row'[r] = "set" \/ r \in lost'
  BY <1>3, Losing
<1>5. /\ RunsOK' /\ run' \in [Runs -> Run] /\ \A h \in Runs \ {g} : run'[h] = run[h]
      /\ \A q : Waiting(run[g], q) => Waiting(run[g], q)'
      /\ Keeping(g)
  BY <1>1, EndingItem
<1>6. \A q : Working(run[g], q) => q \in rows
  BY <1>1, <1>2, <1>3 DEF Working
<1>7. ASSUME NEW q \in Wanted, InCharge(run[g], q)
      PROVE  row'[q] = "set" \/ q \in lost' \/ InCharge(run[g], q)'
  BY <1>1, <1>4, <1>5, <1>6, <1>7 DEF InCharge
<1>8. \A r \in Wanted : r \in lost => r \in lost' \/ row'[r] = "set"
  BY <1>4
<1>9. QED
  BY <1>4, <1>5, <1>7, <1>8, RunStep

LEMMA LoadsShowKeeps ==
  ASSUME MetadataInv, NEW g \in Runs, LoadsShow(g) PROVE MetadataInv'
<1> DEFINE i == run[g].item
<1>1. /\ run \in [Runs -> Run] /\ RunsOK /\ run[g].pc = "loadShow" /\ run[g] \in Run
      /\ run[g].pc \in AtEpisode /\ key' \in BOOLEAN /\ UNCHANGED row
  BY DEF MetadataInv, TypeOK, LoadsShow, At, AtEpisode, Loading
<1>2. CASE UNCHANGED lost /\ run' = [run EXCEPT ![g].pc = "loadSeason", ![g].show = (row[Show(i)] = "set")]
  <2>1. PICK old \in Run : old = run[g]
    BY <1>1
  <2>2. PICK has \in BOOLEAN : has = (row[Show(i)] = "set")
    OBVIOUS
  <2>3. PICK new : new = [old EXCEPT !.pc = "loadSeason", !.show = has]
    OBVIOUS
  <2>4. /\ new \in Run /\ new.pc = "loadSeason" /\ new.todo = old.todo /\ new.have = old.have
        /\ new.item = old.item /\ new.show = has
    BY <2>3 DEF Run, Stages
  <2>5. run' = [run EXCEPT ![g] = new]
    BY <1>2, <2>1, <2>2, <2>3
  <2>6. /\ RunsOK' /\ run' \in [Runs -> Run] /\ run'[g] = new
        /\ \A h \in Runs \ {g} : run'[h] = run[h]
        /\ \A q : Waiting(run[g], q) => Waiting(run[g], q)'
        /\ Keeping(g)
    BY <1>1, <2>1, <2>4, <2>5, Going
  <2>7. RowsGrow /\ RowsTyped'
    BY <1>1, <1>2, Unchanged
  <2>8. ASSUME NEW q \in Wanted, InCharge(run[g], q)
        PROVE  row'[q] = "set" \/ q \in lost' \/ InCharge(run[g], q)'
    <3>1. CASE Waiting(run[g], q)
      BY <2>6, <3>1 DEF InCharge
    <3>2. CASE q = Show(i) /\ has
      BY <1>1, <2>2, <3>2
    <3>3. CASE Working(run[g], q) /\ ~(q = Show(i) /\ has)
      <4>1. \/ q = i /\ q \notin run[g].have
            \/ q = Season(i)
            \/ q = Show(i) /\ ~has
        BY <1>1, <3>3 DEF Working, AtSeason, AtShow, Loading
      <4>2. Working(new, q)'
        BY <2>1, <2>4, <4>1 DEF Working, Loading, Season, Show
      <4>3. QED
        BY <2>6, <4>2 DEF InCharge
    <3>4. QED
      BY <1>1, <2>8, <3>1, <3>2, <3>3 DEF InCharge, Refreshing
  <2>9. QED
    BY <1>1, <1>2, <2>6, <2>7, <2>8, RunStep
<1>3. CASE ItemEnds(g) /\ Lose(Parts(i))
  BY <1>1, <1>3, GivesUp
<1>4. QED
  BY <1>2, <1>3 DEF LoadsShow

LEMMA LoadsSeasonKeeps ==
  ASSUME MetadataInv, NEW g \in Runs, LoadsSeason(g) PROVE MetadataInv'
<1> DEFINE i == run[g].item
<1>1. /\ run \in [Runs -> Run] /\ RunsOK /\ run[g].pc = "loadSeason" /\ run[g] \in Run
      /\ run[g].pc \in AtEpisode /\ key' \in BOOLEAN /\ UNCHANGED row
  BY DEF MetadataInv, TypeOK, LoadsSeason, At, AtEpisode, Loading
<1>2. CASE UNCHANGED lost /\ run' = [run EXCEPT ![g].pc = "show", ![g].season = (row[Season(i)] = "set")]
  <2>1. PICK old \in Run : old = run[g]
    BY <1>1
  <2>2. PICK has \in BOOLEAN : has = (row[Season(i)] = "set")
    OBVIOUS
  <2>3. PICK new : new = [old EXCEPT !.pc = "show", !.season = has]
    OBVIOUS
  <2>4. /\ new \in Run /\ new.pc = "show" /\ new.todo = old.todo /\ new.have = old.have
        /\ new.item = old.item /\ new.show = old.show /\ new.season = has
    BY <2>3 DEF Run, Stages
  <2>5. run' = [run EXCEPT ![g] = new]
    BY <1>2, <2>1, <2>2, <2>3
  <2>6. /\ RunsOK' /\ run' \in [Runs -> Run] /\ run'[g] = new
        /\ \A h \in Runs \ {g} : run'[h] = run[h]
        /\ \A q : Waiting(run[g], q) => Waiting(run[g], q)'
        /\ Keeping(g)
    BY <1>1, <2>1, <2>4, <2>5, Going
  <2>7. RowsGrow /\ RowsTyped'
    BY <1>1, <1>2, Unchanged
  <2>8. ASSUME NEW q \in Wanted, InCharge(run[g], q)
        PROVE  row'[q] = "set" \/ q \in lost' \/ InCharge(run[g], q)'
    <3>1. CASE Waiting(run[g], q)
      BY <2>6, <3>1 DEF InCharge
    <3>2. CASE q = Season(i) /\ has
      BY <1>1, <2>2, <3>2
    <3>3. CASE Working(run[g], q) /\ ~(q = Season(i) /\ has)
      <4>1. \/ q = i /\ q \notin run[g].have
            \/ q = Season(i) /\ ~has
            \/ q = Show(i) /\ ~old.show
        BY <1>1, <2>1, <3>3 DEF Working, AtSeason, AtShow, Loading
      <4>2. Working(new, q)'
        BY <2>1, <2>4, <4>1 DEF Working, AtSeason, AtShow, Loading, Season, Show
      <4>3. QED
        BY <2>6, <4>2 DEF InCharge
    <3>4. QED
      BY <1>1, <2>8, <3>1, <3>2, <3>3 DEF InCharge, Refreshing
  <2>9. QED
    BY <1>1, <1>2, <2>6, <2>7, <2>8, RunStep
<1>3. CASE ItemEnds(g) /\ Lose(Parts(i))
  BY <1>1, <1>3, GivesUp
<1>4. QED
  BY <1>2, <1>3 DEF LoadsSeason

LEMMA EnrichTVShowKeeps ==
  ASSUME MetadataInv, NEW g \in Runs, EnrichTVShow(g) PROVE MetadataInv'
<1> DEFINE i == run[g].item
<1>1. /\ run \in [Runs -> Run] /\ RunsOK /\ run[g].pc = "show" /\ run[g] \in Run
      /\ key' \in BOOLEAN /\ UNCHANGED row /\ i \in Episodes
  BY DEF MetadataInv, TypeOK, EnrichTVShow, At, RunsOK, AtEpisode, AtSeason, AtShow, Loading
<1>2. Parts(i) = {i, Season(i), Show(i)} /\ Parts(i) \subseteq Rows
  BY <1>1, AtHand DEF AtEpisode, AtSeason, AtShow, Loading
<1>3. PICK old \in Run : old = run[g]
  BY <1>1
<1>4. CASE ~run[g].show /\ Goes(g, "askShow") /\ UNCHANGED lost
  <2>1. PICK new : new = [old EXCEPT !.pc = "askShow"]
    OBVIOUS
  <2>2. /\ new \in Run /\ new.pc = "askShow" /\ new.todo = old.todo /\ new.have = old.have
        /\ new.item = old.item /\ new.show = old.show /\ new.season = old.season
    BY <2>1 DEF Run, Stages
  <2>3. run' = [run EXCEPT ![g] = new]
    BY <1>3, <1>4, <2>1 DEF Goes
  <2>4. /\ RunsOK' /\ run' \in [Runs -> Run] /\ run'[g] = new
        /\ \A h \in Runs \ {g} : run'[h] = run[h]
        /\ \A r : Waiting(run[g], r) => Waiting(run[g], r)'
        /\ Keeping(g)
    BY <1>1, <1>3, <1>4, <2>2, <2>3, Going DEF AtEpisode, AtSeason, AtShow, Loading
  <2>5. RowsGrow /\ RowsTyped'
    BY <1>1, <1>4, Unchanged
  <2>6. ASSUME NEW q \in Wanted, InCharge(run[g], q)
        PROVE  row'[q] = "set" \/ q \in lost' \/ InCharge(run[g], q)'
    BY <1>1, <1>3, <2>2, <2>4, <2>6 DEF InCharge, Working, Refreshing, AtSeason, AtShow, Loading, Season
  <2>7. QED
    BY <1>1, <1>4, <2>4, <2>5, <2>6, RunStep
<1>5. CASE run[g].show /\ run' = [run EXCEPT ![g].pc = "season", ![g].show = FALSE] /\ UNCHANGED lost
  <2>1. PICK new : new = [[old EXCEPT !.pc = "season"] EXCEPT !.show = FALSE]
    OBVIOUS
  <2>2. /\ new \in Run /\ new.pc = "season" /\ new.todo = old.todo /\ new.have = old.have
        /\ new.item = old.item /\ new.season = old.season
    BY <2>1 DEF Run, Stages
  <2>3. run' = [run EXCEPT ![g] = new]
    BY <1>3, <1>5, <2>1
  <2>4. /\ RunsOK' /\ run' \in [Runs -> Run] /\ run'[g] = new
        /\ \A h \in Runs \ {g} : run'[h] = run[h]
        /\ \A r : Waiting(run[g], r) => Waiting(run[g], r)'
        /\ Keeping(g)
    BY <1>1, <1>3, <2>2, <2>3, Going DEF AtEpisode, AtSeason, AtShow, Loading
  <2>5. RowsGrow /\ RowsTyped'
    BY <1>1, <1>5, Unchanged
  <2>6. ASSUME NEW q \in Wanted, InCharge(run[g], q)
        PROVE  row'[q] = "set" \/ q \in lost' \/ InCharge(run[g], q)'
    BY <1>1, <1>3, <1>5, <2>2, <2>4, <2>6 DEF InCharge, Working, Refreshing, AtSeason, AtShow, Loading, Season
  <2>7. QED
    BY <1>1, <1>5, <2>4, <2>5, <2>6, RunStep
<1>6. CASE ItemEnds(g) /\ Lose(Parts(i))
  BY <1>1, <1>6, GivesUp DEF AtEpisode, AtSeason, AtShow, Loading
<1>7. QED
  BY <1>4, <1>5, <1>6 DEF EnrichTVShow

LEMMA ShowAnsweredKeeps ==
  ASSUME MetadataInv, NEW g \in Runs, ShowAnswered(g) PROVE MetadataInv'
<1> DEFINE i == run[g].item
<1>1. /\ run \in [Runs -> Run] /\ RunsOK /\ run[g].pc = "askShow" /\ run[g] \in Run /\ i \in Episodes
      /\ key' \in BOOLEAN
  BY DEF MetadataInv, TypeOK, ShowAnswered, At, RunsOK, AtEpisode, AtSeason, AtShow, Loading
<1>2. /\ Parts(i) = {i, Season(i), Show(i)} /\ Parts(i) \subseteq Rows
      /\ ~There(Show(i)) => \A q \in Parts(i) : q \notin Wanted
  BY <1>1, AtHand DEF AtEpisode, AtSeason, AtShow, Loading
<1>3. PICK r \in Rows, rows \in SUBSET Rows : r = Show(i) /\ rows = Parts(i)
  BY <1>2
<1>4. PICK a \in Answers(r) : Stores(r, a, rows) /\ (IF a = "found" THEN Goes(g, "readShow") ELSE ItemEnds(g))
  BY <1>3 DEF ShowAnswered, Search
<1>5. /\ RowsGrow /\ RowsTyped' /\ \A q \in Rows : row[q] # "absent" => row'[q] # "absent"
      /\ \A q \in Wanted : q \in lost => q \in lost' \/ row'[q] = "set"
      /\ a = "found" => (There(r) => row'[r] = "set")
      /\ a = "none" => r \notin Known
      /\ a = "failed" => \A q \in rows : row'[q] = "set" \/ q \in lost'
      /\ a \in {"found", "none", "failed"}
      /\ \A j \in Items : row'[j] = row[j]
  <2>1. r \in Shows
    BY <1>1, <1>3, PartsAre DEF Items
  <2>2. \A j \in Items : j # r /\ j \in Rows
    BY <2>1, MetadataAssumption DEF Rows
  <2>3. QED
    BY <1>4, <2>2, Answered
<1>6. CASE a = "found"
  <2>1. PICK old \in Run : old = run[g]
    BY <1>1
  <2>2. PICK new : new = [old EXCEPT !.pc = "readShow"]
    OBVIOUS
  <2>3. /\ new \in Run /\ new.pc = "readShow" /\ new.todo = old.todo /\ new.have = old.have
        /\ new.item = old.item /\ new.show = old.show /\ new.season = old.season
    BY <2>2 DEF Run, Stages
  <2>4. run' = [run EXCEPT ![g] = new]
    BY <1>4, <1>6, <2>1, <2>2 DEF Goes
  <2>5. /\ RunsOK' /\ run' \in [Runs -> Run] /\ run'[g] = new
        /\ \A h \in Runs \ {g} : run'[h] = run[h]
        /\ \A q : Waiting(run[g], q) => Waiting(run[g], q)'
        /\ Keeping(g)
    BY <1>1, <1>5, <2>1, <2>3, <2>4, Going DEF AtEpisode, AtSeason, AtShow, Loading
  <2>6. ASSUME NEW q \in Wanted, InCharge(run[g], q)
        PROVE  row'[q] = "set" \/ q \in lost' \/ InCharge(run[g], q)'
    <3>1. CASE Waiting(run[g], q)
      BY <2>5, <3>1 DEF InCharge
    <3>2. CASE Working(run[g], q)
      <4>1. q \in Parts(i)
        BY <1>1, <1>2, <3>2 DEF Working, AtSeason, AtShow, Loading
      <4>2. row'[r] = "set"
        BY <1>2, <1>3, <1>5, <1>6, <4>1
      <4>3. q = r \/ (q = i /\ q \notin run[g].have) \/ (q = Season(i) /\ ~run[g].season)
        BY <1>1, <1>3, <3>2 DEF Working, AtSeason, AtShow, Loading
      <4>4. row'[Show(new.item)] = "set"
        BY <1>3, <2>1, <2>3, <4>2
      <4>5. new.item = i /\ new.have = run[g].have /\ new.season = run[g].season
        BY <2>1, <2>3
      <4>6. CASE q = i /\ q \notin run[g].have
        BY <2>3, <2>5, <4>4, <4>5, <4>6 DEF InCharge, Working, AtSeason, AtShow, Loading, Show
      <4>7. CASE q = Season(i) /\ ~run[g].season
        BY <2>3, <2>5, <4>4, <4>5, <4>7 DEF InCharge, Working, AtSeason, AtShow, Loading, Show, Season
      <4>8. QED
        BY <4>2, <4>3, <4>6, <4>7
    <3>3. QED
      BY <1>1, <2>6, <3>1, <3>2 DEF InCharge, Refreshing
  <2>7. QED
    BY <1>1, <1>5, <2>5, <2>6, RunStep
<1>7. CASE a # "found"
  <2>1. /\ RunsOK' /\ run' \in [Runs -> Run] /\ \A h \in Runs \ {g} : run'[h] = run[h]
        /\ \A q : Waiting(run[g], q) => Waiting(run[g], q)'
        /\ Keeping(g)
    BY <1>1, <1>4, <1>5, <1>7, EndingItem
  <2>2. ASSUME NEW q \in Wanted, InCharge(run[g], q)
        PROVE  row'[q] = "set" \/ q \in lost' \/ InCharge(run[g], q)'
    <3>1. CASE Waiting(run[g], q)
      BY <2>1, <3>1 DEF InCharge
    <3>2. CASE Working(run[g], q)
      <4>1. q \in Parts(i)
        BY <1>1, <1>2, <3>2 DEF Working, AtSeason, AtShow, Loading
      <4>2. a # "none"
        BY <1>1, <1>3, <1>5, <2>2, <4>1, ShowUnknown
      <4>3. QED
        BY <1>3, <1>5, <1>7, <4>1, <4>2
    <3>3. QED
      BY <1>1, <2>2, <3>1, <3>2 DEF InCharge, Refreshing
  <2>3. QED
    BY <1>1, <1>5, <2>1, <2>2, RunStep
<1>8. QED
  BY <1>6, <1>7

LEMMA ReadsShowKeeps ==
  ASSUME MetadataInv, NEW g \in Runs, ReadsShow(g) PROVE MetadataInv'
<1> DEFINE i == run[g].item
<1>1. /\ run \in [Runs -> Run] /\ RunsOK /\ run[g].pc = "readShow" /\ run[g] \in Run
      /\ run[g].pc \in AtEpisode /\ run[g].pc # "written" /\ key' \in BOOLEAN /\ UNCHANGED row
  BY DEF MetadataInv, TypeOK, ReadsShow, At, AtEpisode, AtSeason
<1>2. CASE UNCHANGED lost /\ row[Show(i)] = "set" /\ Goes(g, "season")
  <2>1. PICK old \in Run : old = run[g]
    BY <1>1
  <2>2. PICK new : new = [old EXCEPT !.pc = "season"]
    OBVIOUS
  <2>3. /\ new \in Run /\ new.pc = "season" /\ new.todo = old.todo /\ new.have = old.have
        /\ new.item = old.item /\ new.show = old.show /\ new.season = old.season
    BY <2>2 DEF Run, Stages
  <2>4. run' = [run EXCEPT ![g] = new]
    BY <1>2, <2>1, <2>2 DEF Goes
  <2>5. /\ RunsOK' /\ run' \in [Runs -> Run] /\ run'[g] = new
        /\ \A h \in Runs \ {g} : run'[h] = run[h]
        /\ \A q : Waiting(run[g], q) => Waiting(run[g], q)'
        /\ Keeping(g)
    BY <1>1, <2>1, <2>3, <2>4, Going
  <2>6. RowsGrow /\ RowsTyped'
    BY <1>1, <1>2, Unchanged
  <2>7. ASSUME NEW q \in Wanted, InCharge(run[g], q)
        PROVE  row'[q] = "set" \/ q \in lost' \/ InCharge(run[g], q)'
    BY <1>1, <2>1, <2>3, <2>5, <2>7 DEF InCharge, Working, Refreshing, AtSeason, AtShow, Loading, Season
  <2>8. QED
    BY <1>1, <1>2, <2>5, <2>6, <2>7, RunStep
<1>3. CASE UNCHANGED lost /\ row[Show(i)] # "set" /\ ItemEnds(g)
  <2>1. /\ RunsOK' /\ run' \in [Runs -> Run] /\ \A h \in Runs \ {g} : run'[h] = run[h]
        /\ \A q : Waiting(run[g], q) => Waiting(run[g], q)'
        /\ Keeping(g)
    BY <1>1, <1>3, EndingItem
  <2>2. RowsGrow /\ RowsTyped'
    BY <1>1, <1>3, Unchanged
  <2>3. ASSUME NEW q \in Wanted, InCharge(run[g], q)
        PROVE  row'[q] = "set" \/ q \in lost' \/ InCharge(run[g], q)'
    BY <1>1, <1>3, <2>1, <2>3 DEF InCharge, Working, Refreshing, AtSeason, AtShow, Loading
  <2>4. QED
    BY <1>1, <1>3, <2>1, <2>2, <2>3, RunStep
<1>4. CASE ItemEnds(g) /\ Lose(Parts(i))
  BY <1>1, <1>4, GivesUp
<1>5. QED
  BY <1>2, <1>3, <1>4 DEF ReadsShow

-----------------------------------------------------------------------------
(* The season                                                               *)

\* After the season only the episode is left at hand.
LEMMA GoingToEpisode ==
  ASSUME MetadataInv, NEW g \in Runs, run[g].pc \in {"season", "askSeason"}, AfterSeason(g),
         \A r \in Rows : row[r] # "absent" => row'[r] # "absent"
  PROVE  /\ RunsOK' /\ run' \in [Runs -> Run] /\ Keeping(g) /\ \A h \in Runs \ {g} : run'[h] = run[h]
         /\ \A q : InCharge(run[g], q) =>
              InCharge(run[g], q)' \/ (q = Season(run[g].item) /\ ~run[g].season)
<1> DEFINE i == run[g].item
<1>1. run \in [Runs -> Run] /\ RunsOK /\ run[g] \in Run
  BY DEF MetadataInv, TypeOK
<1>2. \A q : InCharge(run[g], q) => \/ Waiting(run[g], q)
                                    \/ q = i /\ q \notin run[g].have
                                    \/ q = Season(i) /\ ~run[g].season
  BY DEF InCharge, Working, Refreshing, AtSeason, AtShow, Loading
<1>3. CASE i \in run[g].have
  <2>1. /\ RunsOK' /\ run' \in [Runs -> Run] /\ \A h \in Runs \ {g} : run'[h] = run[h]
        /\ \A q : Waiting(run[g], q) => Waiting(run[g], q)'
        /\ Keeping(g)
    BY <1>1, <1>3, EndingItem DEF AfterSeason
  <2>2. QED
    BY <1>2, <1>3, <2>1 DEF InCharge
<1>4. CASE i \notin run[g].have
  <2>1. PICK old \in Run : old = run[g]
    BY <1>1
  <2>2. PICK new : new = [[old EXCEPT !.pc = "episode"] EXCEPT !.season = FALSE]
    OBVIOUS
  <2>3. /\ new \in Run /\ new.pc = "episode" /\ new.todo = old.todo /\ new.have = old.have
        /\ new.item = old.item
    BY <2>2 DEF Run, Stages
  <2>4. run' = [run EXCEPT ![g] = new]
    BY <1>4, <2>1, <2>2 DEF AfterSeason
  <2>5. /\ RunsOK' /\ run' \in [Runs -> Run] /\ run'[g] = new
        /\ \A h \in Runs \ {g} : run'[h] = run[h]
        /\ \A q : Waiting(run[g], q) => Waiting(run[g], q)'
        /\ Keeping(g)
    BY <1>1, <2>1, <2>3, <2>4, Going DEF AtEpisode, AtSeason, AtShow, Loading
  <2>6. ASSUME NEW q, InCharge(run[g], q)
        PROVE  InCharge(run[g], q)' \/ (q = Season(i) /\ ~run[g].season)
    <3>1. CASE q = i
      BY <2>1, <2>3, <2>5, <3>1 DEF InCharge, Working
    <3>2. QED
      BY <1>2, <2>5, <2>6, <3>1 DEF InCharge
  <2>7. QED
    BY <2>5, <2>6
<1>5. QED
  BY <1>3, <1>4

LEMMA EnrichTVSeasonKeeps ==
  ASSUME MetadataInv, NEW g \in Runs, EnrichTVSeason(g) PROVE MetadataInv'
<1> DEFINE i == run[g].item
<1>1. /\ run \in [Runs -> Run] /\ RunsOK /\ run[g].pc = "season" /\ run[g] \in Run
      /\ key' \in BOOLEAN /\ UNCHANGED row
  BY DEF MetadataInv, TypeOK, EnrichTVSeason, At
<1>2. Season(i) \in Rows
  BY <1>1, AtHand DEF AtEpisode, AtSeason, AtShow, Loading
<1>3. CASE key /\ ~run[g].season
  <2>1. PICK old \in Run : old = run[g]
    BY <1>1
  <2>2. PICK new : new = [old EXCEPT !.pc = "askSeason"]
    OBVIOUS
  <2>3. /\ new \in Run /\ new.pc = "askSeason" /\ new.todo = old.todo /\ new.have = old.have
        /\ new.item = old.item /\ new.show = old.show /\ new.season = old.season
    BY <2>2 DEF Run, Stages
  <2>4. run' = [run EXCEPT ![g] = new] /\ UNCHANGED lost
    BY <1>3, <2>1, <2>2 DEF Goes, EnrichTVSeason
  <2>5. /\ RunsOK' /\ run' \in [Runs -> Run] /\ run'[g] = new
        /\ \A h \in Runs \ {g} : run'[h] = run[h]
        /\ \A q : Waiting(run[g], q) => Waiting(run[g], q)'
        /\ Keeping(g)
    BY <1>1, <1>3, <2>1, <2>3, <2>4, Going DEF AtEpisode, AtSeason, AtShow, Loading
  <2>6. RowsGrow /\ RowsTyped'
    BY <1>1, <2>4, Unchanged
  <2>7. ASSUME NEW q \in Wanted, InCharge(run[g], q)
        PROVE  row'[q] = "set" \/ q \in lost' \/ InCharge(run[g], q)'
    BY <1>1, <2>1, <2>3, <2>5, <2>7 DEF InCharge, Working, Refreshing, AtSeason, AtShow, Loading, Season
  <2>8. QED
    BY <1>1, <2>4, <2>5, <2>6, <2>7, RunStep
<1>4. CASE ~(key /\ ~run[g].season)
  <2>1. PICK rows \in SUBSET Rows : rows = IF run[g].season THEN {} ELSE {Season(i)}
    BY <1>2
  <2>2. AfterSeason(g) /\ Lose(rows)
    BY <1>4, <2>1 DEF EnrichTVSeason
  <2>3. /\ RowsGrow /\ RowsTyped' /\ \A r \in Rows : row[r] # "absent" => row'[r] # "absent"
        /\ lost \subseteq lost' /\ \A r \in rows : row'[r] = "set" \/ r \in lost'
    BY <1>1, <2>2, Losing
  <2>4. /\ RunsOK' /\ run' \in [Runs -> Run] /\ Keeping(g) /\ \A h \in Runs \ {g} : run'[h] = run[h]
        /\ \A q : InCharge(run[g], q) =>
             InCharge(run[g], q)' \/ (q = Season(run[g].item) /\ ~run[g].season)
    BY <1>1, <2>2, <2>3, GoingToEpisode
  <2>5. \A q \in Wanted : InCharge(run[g], q) => row'[q] = "set" \/ q \in lost' \/ InCharge(run[g], q)'
    BY <2>1, <2>3, <2>4
  <2>6. \A r \in Wanted : r \in lost => r \in lost' \/ row'[r] = "set"
    BY <2>3
  <2>7. QED
    BY <1>1, <2>3, <2>4, <2>5, <2>6, RunStep
<1>5. QED
  BY <1>3, <1>4

LEMMA SeasonAnsweredKeeps ==
  ASSUME MetadataInv, NEW g \in Runs, SeasonAnswered(g) PROVE MetadataInv'
<1> DEFINE s == Season(run[g].item)
<1>1. /\ run \in [Runs -> Run] /\ RunsOK /\ run[g].pc = "askSeason" /\ AfterSeason(g) /\ key' \in BOOLEAN
  BY DEF MetadataInv, TypeOK, SeasonAnswered, At
<1>2. s \in Rows
  BY <1>1, AtHand DEF AtEpisode, AtSeason, AtShow, Loading
<1>3. PICK r \in Rows, rows \in SUBSET Rows : r = s /\ rows = {s}
  BY <1>2
<1>4. PICK a \in Answers(r) : Stores(r, a, rows)
  BY <1>3 DEF SeasonAnswered, GetTVSeason
<1>5. /\ RowsGrow /\ RowsTyped' /\ \A q \in Rows : row[q] # "absent" => row'[q] # "absent"
      /\ \A q \in Wanted : q \in lost => q \in lost' \/ row'[q] = "set"
      /\ a = "found" => (r \in Wanted => row'[r] = "set")
      /\ a = "none" => r \notin Known
      /\ a = "failed" => row'[r] = "set" \/ r \in lost'
      /\ a \in {"found", "none", "failed"}
      /\ \A j \in Items : row'[j] = row[j]
  <2>1. r \in Seasons
    BY <1>1, <1>3, AtHand, PartsAre DEF Items, AtEpisode, AtSeason
  <2>2. \A j \in Items : j # r /\ j \in Rows
    BY <2>1, MetadataAssumption DEF Rows
  <2>3. QED
    BY <1>3, <1>4, <2>2, Answered
<1>6. /\ RunsOK' /\ run' \in [Runs -> Run] /\ Keeping(g) /\ \A h \in Runs \ {g} : run'[h] = run[h]
      /\ \A q : InCharge(run[g], q) => InCharge(run[g], q)' \/ q = r
  BY <1>1, <1>3, <1>5, GoingToEpisode
<1>7. ASSUME NEW q \in Wanted, InCharge(run[g], q)
      PROVE  row'[q] = "set" \/ q \in lost' \/ InCharge(run[g], q)'
  BY <1>5, <1>6, <1>7 DEF Wanted
<1>8. QED
  BY <1>1, <1>5, <1>6, <1>7, RunStep

-----------------------------------------------------------------------------
(* Scanner, deletions                                                       *)

LEMMA ScanFindsKeeps ==
  ASSUME MetadataInv, NEW g \in Runs, NEW i \in Items, ScanFinds(g, i) PROVE MetadataInv'
<1>1. /\ run \in [Runs -> Run] /\ RunsOK /\ RowsOK /\ key' \in BOOLEAN /\ UNCHANGED lost
      /\ row \in [Rows -> {"absent", "none", "set", "gone"}] /\ run[g].pc = "off" /\ run[g].todo = {}
      /\ lost \subseteq Rows /\ \A r \in lost : row[r] # "set"
  BY DEF MetadataInv, TypeOK, ScanFinds, At, RunsOK
<1>2. /\ i \in Parts(i) /\ Parts(i) \subseteq Rows /\ \A r \in Parts(i) : row[r] # "gone"
      /\ \A j \in Items : Parts(j) \subseteq Rows /\ j \in Rows /\ (i # j => j \notin Parts(i))
  BY PartsAre, PartsOf DEF ScanFinds
<1>3. /\ row' \in [Rows -> {"absent", "none", "set", "gone"}]
      /\ \A r \in Rows : row'[r] = row[r] \/ (row[r] = "absent" /\ row'[r] = "none" /\ r \in Parts(i))
      /\ \A r \in Parts(i) : row'[r] \in {"none", "set"}
  BY <1>1, <1>2 DEF ScanFinds, UpsertParts
<1>4. \A r \in Rows : (row[r] # "absent" => row'[r] = row[r]) /\ (There(r) => There(r)')
  BY <1>3 DEF There
<1>5. RowsTyped'
  <2>1. ASSUME NEW j \in Items, There(j)', NEW r \in Parts(j)
        PROVE  There(r)'
    <3>1. CASE j = i
      BY <1>3, <2>1, <3>1 DEF There
    <3>2. CASE j # i
      <4>1. There(j)
        BY <1>2, <1>3, <2>1, <3>2 DEF There
      <4>2. There(r)
        BY <2>1, <4>1 DEF MetadataInv, TypeOK
      <4>3. QED
        BY <1>2, <1>4, <4>2
    <3>3. QED
      BY <3>1, <3>2
  <2>2. QED
    BY <1>1, <1>3, <2>1 DEF RowsTyped
<1>6. RowsOK'
  <2>1. ASSUME NEW j \in Items, row'[j] # "absent"
        PROVE  /\ \A r \in Parts(j) : row'[r] # "absent"
               /\ j \in Episodes => (There(Season(j))' <=> There(Show(j))')
    <3>1. j \in Episodes => Season(j) \in Parts(j) /\ Show(j) \in Parts(j)
      BY PartsAre
    <3>2. CASE j = i
      BY <1>3, <3>1, <3>2 DEF There
    <3>3. CASE j # i
      <4>1. row[j] # "absent"
        BY <1>2, <1>3, <2>1, <3>3
      <4>2. \A r \in Parts(j) : row[r] # "absent" /\ row'[r] = row[r]
        BY <1>1, <1>2, <1>4, <4>1 DEF RowsOK
      <4>3. j \in Episodes => (There(Season(j)) <=> There(Show(j)))
        BY <1>1, <4>1 DEF RowsOK
      <4>4. QED
        BY <3>1, <4>2, <4>3 DEF There
    <3>4. QED
      BY <3>2, <3>3
  <2>2. QED
    BY <2>1 DEF RowsOK
<1>8. PICK new : new = [Idle EXCEPT !.pc = "written", !.item = i]
  OBVIOUS
<1>9. new \in Run /\ new.pc = "written" /\ new.item = i /\ new.todo = {}
  BY <1>8 DEF Idle, Run, Stages
<1>10. run' = [run EXCEPT ![g] = new]
  BY <1>8 DEF ScanFinds
<1>11. RunOK(new)'
  BY <1>2, <1>3, <1>9 DEF RunOK, AtEpisode, AtSeason, AtShow, Loading
<1>12. /\ RunsOK' /\ run' \in [Runs -> Run] /\ run'[g] = new
       /\ \A h \in Runs \ {g} : run'[h] = run[h]
  BY <1>1, <1>4, <1>9, <1>10, <1>11, OneRun
<1>13. ASSUME NEW r, NEW h \in Runs, InCharge(run[h], r)
       PROVE  InCharge(run[h], r)'
  <2>1. h # g
    BY <1>1, <1>13 DEF InCharge, Waiting, Working, Refreshing, AtSeason, AtShow, Loading
  <2>2. run'[h] = run[h]
    BY <1>12, <2>1
  <2>3. run[h].pc = "readShow" => Show(run[h].item) \in Rows
    BY <1>1, PartsAre DEF RunsOK, AtEpisode, AtSeason, AtShow, Loading, Items
  <2>4. run[h].pc = "readShow" /\ row[Show(run[h].item)] = "set" => row'[Show(run[h].item)] = "set"
    BY <1>4, <2>3
  <2>5. Working(run[h], r) => Working(run[h], r)'
    BY <2>2, <2>4 DEF Working
  <2>6. QED
    BY <1>13, <2>2, <2>5 DEF InCharge, Waiting
<1>14. ASSUME NEW j \in Items, There(j), Fresh(j)
       PROVE  Fresh(j)'
  <2>1. \A h \in Runs : Hands(run[h])' \subseteq Hands(run[h])
    BY <1>9, <1>12 DEF Hands, AtItem, AtEpisode, AtSeason, AtShow, Loading
  <2>2. row'[j] = "none"
    BY <1>2, <1>4, <1>14 DEF There, Fresh
  <2>3. PICK h \in Runs : run[h].pc = "written" /\ run[h].item = j
    BY <1>14 DEF Fresh
  <2>4. run'[h] = run[h]
    BY <1>1, <1>12, <2>3
  <2>5. QED
    BY <1>14, <2>1, <2>2, <2>3, <2>4 DEF Fresh
<1>15. ASSUME row[i] = "absent"
       PROVE  Fresh(i)'
  <2>1. \A h \in Runs : i \notin Hands(run[h])
    BY <1>1, <1>15 DEF Hands, RunsOK, AtItem
  <2>2. \A h \in Runs : i \notin Hands(run[h])'
    BY <1>9, <1>12, <2>1 DEF Hands, AtItem, AtEpisode, AtSeason, AtShow, Loading
  <2>3. row'[i] = "none"
    BY <1>2, <1>3, <1>15
  <2>4. QED
    BY <1>9, <1>12, <2>2, <2>3 DEF Fresh
<1>16. Covered'
  <2>1. ASSUME NEW j \in Items, NEW r \in Parts(j), WantedFor(j, r)'
        PROVE  row'[r] = "set" \/ r \in lost' \/ Fresh(j)' \/ \E h \in Runs : InCharge(run[h], r)'
    <3>1. CASE There(j)
      <4>1. WantedFor(j, r)
        BY <2>1, <3>1 DEF WantedFor, Show
      <4>2. There(r) /\ r \in Rows
        BY <1>2, <3>1 DEF MetadataInv, TypeOK
      <4>3. row'[r] = row[r]
        BY <1>4, <4>2 DEF There
      <4>4. row[r] = "set" \/ r \in lost \/ Fresh(j) \/ \E h \in Runs : InCharge(run[h], r)
        BY <4>1 DEF MetadataInv, Covered
      <4>5. QED
        BY <1>1, <1>13, <1>14, <3>1, <4>3, <4>4
    <3>2. CASE ~There(j)
      <4>1. There(j)'
        BY <2>1 DEF WantedFor
      <4>2. j = i /\ row[i] = "absent"
        BY <1>2, <1>3, <3>2, <4>1 DEF There
      <4>3. QED
        BY <1>15, <4>2
    <3>3. QED
      BY <3>1, <3>2
  <2>2. QED
    BY <2>1 DEF Covered, Parts, Season, Show
<1>17. QED
  BY <1>1, <1>5, <1>6, <1>12, <1>16 DEF MetadataInv, TypeOK, RowsTyped


\* The row is found as it was written, or somebody has seen to it since.
LEMMA ScanReadsBackKeeps ==
  ASSUME MetadataInv, NEW g \in Runs, ScanReadsBack(g) PROVE MetadataInv'
<1>1. /\ run \in [Runs -> Run] /\ RunsOK /\ key' \in BOOLEAN /\ UNCHANGED row
      /\ run[g].pc = "written" /\ run[g] \in Run /\ run[g].todo = {}
  BY DEF MetadataInv, TypeOK, ScanReadsBack, At, RunsOK
<1>2. PICK i \in Items : i = run[g].item /\ row[i] # "absent"
  BY <1>1 DEF RunsOK
<1>3. Parts(i) \subseteq Rows /\ i \in Rows
  BY PartsAre
<1>4. PICK todo \in SUBSET Items : todo = {i}
  OBVIOUS
<1>5. PICK starts : starts = [Idle EXCEPT !.pc = "next", !.todo = todo]
  OBVIOUS
<1>6. starts \in Run /\ starts.pc = "next" /\ starts.todo = {i} /\ starts.have = {}
  BY <1>4, <1>5 DEF Idle, Run, Stages
<1>7. PICK new \in Run : new = IF run' = [run EXCEPT ![g] = starts] THEN starts ELSE Idle
  BY <1>6, IdleIsRun
<1>8. /\ run' = [run EXCEPT ![g] = new]
      /\ \/ UNCHANGED lost /\ (row[i] = "none" => new = starts)
         \/ Lose(Parts(i))
  BY <1>1, <1>2, <1>4, <1>5, <1>7 DEF ScanReadsBack
<1>9. RunOK(new)'
  BY <1>1, <1>2, <1>6, <1>7, IdleIsRun DEF RunOK, AtEpisode, AtSeason, AtShow, Loading
<1>10. /\ RunsOK' /\ run' \in [Runs -> Run] /\ run'[g] = new
       /\ \A h \in Runs \ {g} : run'[h] = run[h]
  BY <1>1, <1>8, <1>9, OneRun
<1>11. /\ RowsGrow /\ RowsTyped' /\ lost \subseteq lost'
       /\ \/ row[i] = "none" => new = starts
          \/ \A r \in Parts(i) : row'[r] = "set" \/ r \in lost'
  <2>1. PICK rows \in SUBSET Rows : rows = Parts(i)
    BY <1>3
  <2>2. CASE UNCHANGED lost /\ (row[i] = "none" => new = starts)
    BY <1>1, <2>2, Unchanged
  <2>3. CASE Lose(rows)
    BY <1>1, <2>1, <2>3, Losing
  <2>4. QED
    BY <1>8, <2>1, <2>2, <2>3
<1>12. RowsOK'
  BY <1>11, GrowingKeeps DEF MetadataInv, TypeOK
<1>13. ASSUME NEW r, NEW h \in Runs, InCharge(run[h], r)
       PROVE  InCharge(run[h], r)'
  <2>1. h # g
    BY <1>1, <1>13 DEF InCharge, Waiting, Working, Refreshing, AtSeason, AtShow, Loading
  <2>2. QED
    BY <1>10, <1>11, <1>13, <2>1, StillInCharge DEF MetadataInv
<1>14. ASSUME NEW j \in Items, j # i, Fresh(j)
       PROVE  Fresh(j)'
  <2>1. \A h \in Runs : j \notin Hands(run[h])'
    <3>1. Hands(new) \subseteq {i}
      BY <1>6, <1>7, IdleIsRun DEF Hands, AtItem, AtEpisode, AtSeason, AtShow, Loading
    <3>2. QED
      BY <1>10, <1>14, <3>1 DEF Fresh, Hands
  <2>2. PICK h \in Runs : run[h].pc = "written" /\ run[h].item = j
    BY <1>14 DEF Fresh
  <2>3. run'[h] = run[h]
    BY <1>2, <1>10, <1>14, <2>2
  <2>4. QED
    BY <1>1, <1>14, <2>1, <2>2, <2>3 DEF Fresh
<1>15. ASSUME NEW j \in Items, NEW r \in Parts(j), WantedFor(j, r)'
       PROVE  row'[r] = "set" \/ r \in lost' \/ Fresh(j)' \/ \E h \in Runs : InCharge(run[h], r)'
  <2>1. WantedFor(j, r)
    BY <1>1, <1>15 DEF WantedFor, There, Show
  <2>2. row[r] = "set" \/ r \in lost \/ Fresh(j) \/ \E h \in Runs : InCharge(run[h], r)
    BY <2>1 DEF MetadataInv, Covered
  <2>3. CASE j = i /\ new = starts
    BY <1>6, <1>10, <1>15, <2>3 DEF InCharge, Waiting, Parts, Season, Show
  <2>4. CASE j = i /\ new # starts
    <3>1. ~Fresh(j) \/ \A q \in Parts(i) : row'[q] = "set" \/ q \in lost'
      BY <1>8, <1>11, <2>4 DEF Fresh
    <3>2. QED
      BY <1>1, <1>11, <1>13, <1>15, <2>2, <2>4, <3>1
  <2>5. CASE j # i
    BY <1>1, <1>11, <1>13, <1>14, <2>2, <2>5
  <2>6. QED
    BY <2>3, <2>4, <2>5
<1>16. Covered'
  BY <1>15 DEF Covered, Parts, Season, Show
<1>17. QED
  BY <1>1, <1>10, <1>11, <1>12, <1>16 DEF MetadataInv, TypeOK, RowsTyped

LEMMA DeleteItemKeeps ==
  ASSUME MetadataInv, NEW i \in Items, DeleteItem(i) PROVE MetadataInv'
<1>1. /\ run \in [Runs -> Run] /\ RunsOK /\ RowsOK /\ UNCHANGED <<key, run, lost>> /\ key \in BOOLEAN
      /\ row \in [Rows -> {"absent", "none", "set", "gone"}] /\ There(i)
      /\ lost \subseteq Rows /\ \A r \in lost : row[r] # "set"
  BY DEF MetadataInv, TypeOK, DeleteItem
<1>2. /\ i \in Rows /\ \A j \in Items : i \in Parts(j) => i = j
      /\ \A j \in Items : Parts(j) \subseteq Rows /\ j \in Rows
      /\ \A j \in Episodes : j \in Items /\ Season(j) \in Parts(j) /\ Show(j) \in Parts(j)
                             /\ Season(j) # i /\ Show(j) # i
  BY MetadataAssumption, PartsAre, PartsOf DEF Items
<1>3. /\ row' \in [Rows -> {"absent", "none", "set", "gone"}] /\ row'[i] = "gone"
      /\ \A r \in Rows : r # i => row'[r] = row[r]
  BY <1>1, <1>2 DEF DeleteItem
<1>4. \A r \in Rows : row[r] # "absent" <=> row'[r] # "absent"
  BY <1>1, <1>3 DEF There
<1>5. RowsTyped'
  BY <1>1, <1>2, <1>3 DEF RowsTyped, There, MetadataInv, TypeOK
<1>6. RowsOK'
  BY <1>1, <1>2, <1>3, <1>4 DEF RowsOK, There
<1>7. RunsOK'
  <2>1. ASSUME NEW g \in Runs
        PROVE  RunOK(run[g])'
    <3>1. run[g] \in Run /\ RunOK(run[g]) /\ run'[g] = run[g]
      BY <1>1, RunsOKSplit
    <3>2. /\ run[g].todo \subseteq Rows /\ (run[g].pc \in AtEpisode => run[g].item \in Rows)
          /\ run[g].pc \in {"written", "movie"} => run[g].item \in Rows
      BY <3>1 DEF Run, RunOK, Rows, Items
    <3>3. QED
      BY <1>4, <3>1, <3>2 DEF RunOK
  <2>2. QED
    BY <2>1 DEF RunsOK, RunOK
<1>8. ASSUME NEW r, NEW h \in Runs, InCharge(run[h], r)
      PROVE  InCharge(run[h], r)'
  <2>1. run[h].pc = "readShow" => run[h].item \in Episodes
    BY <1>1 DEF RunsOK, AtEpisode, AtSeason, AtShow, Loading
  <2>2. run[h].pc = "readShow" => row'[Show(run[h].item)] = row[Show(run[h].item)]
    BY <1>2, <1>3, <2>1
  <2>3. Working(run[h], r) => Working(run[h], r)'
    BY <1>1, <2>2 DEF Working
  <2>4. QED
    BY <1>1, <1>8, <2>3 DEF InCharge, Waiting
<1>9. ASSUME NEW j \in Items, NEW r \in Parts(j), WantedFor(j, r)'
      PROVE  row'[r] = "set" \/ r \in lost' \/ Fresh(j)' \/ \E h \in Runs : InCharge(run[h], r)'
  <2>1. j # i /\ There(j) /\ row'[j] = row[j]
    BY <1>2, <1>3, <1>9 DEF WantedFor, There
  <2>2. WantedFor(j, r)
    BY <1>9, <2>1 DEF WantedFor, Show
  <2>3. r # i /\ r \in Rows /\ row'[r] = row[r]
    BY <1>2, <1>3, <2>1
  <2>4. Fresh(j) => Fresh(j)'
    BY <1>1, <2>1 DEF Fresh, Hands
  <2>5. row[r] = "set" \/ r \in lost \/ Fresh(j) \/ \E h \in Runs : InCharge(run[h], r)
    BY <2>2 DEF MetadataInv, Covered
  <2>6. QED
    BY <1>1, <1>8, <2>3, <2>4, <2>5
<1>10. Covered'
  BY <1>9 DEF Covered, Parts, Season, Show
<1>11. QED
  BY <1>1, <1>5, <1>6, <1>7, <1>10 DEF MetadataInv, TypeOK, RowsTyped

LEMMA DeleteLibraryKeeps == ASSUME MetadataInv, DeleteLibrary PROVE MetadataInv'
<1>1. /\ run \in [Runs -> Run] /\ RunsOK /\ RowsOK /\ UNCHANGED <<key, run, lost>> /\ key \in BOOLEAN
      /\ row \in [Rows -> {"absent", "none", "set", "gone"}]
      /\ lost \subseteq Rows /\ \A r \in lost : row[r] # "set"
  BY DEF MetadataInv, TypeOK, DeleteLibrary
<1>2. /\ \A j \in Items : Parts(j) \subseteq Rows /\ j \in Rows
      /\ \A j \in Episodes : j \in Items /\ Season(j) \in Rows /\ Show(j) \in Rows
  BY PartsAre DEF Items
<1>3. /\ row' \in [Rows -> {"absent", "none", "set", "gone"}] /\ \A r \in Rows : ~There(r)'
      /\ \A r \in Rows : row[r] # "absent" <=> row'[r] # "absent"
  BY <1>1 DEF DeleteLibrary, There
<1>4. RowsTyped'
  BY <1>1, <1>2, <1>3 DEF RowsTyped, There
<1>5. RowsOK'
  BY <1>1, <1>2, <1>3 DEF RowsOK
<1>6. RunsOK'
  <2>1. ASSUME NEW g \in Runs
        PROVE  RunOK(run[g])'
    <3>1. run[g] \in Run /\ RunOK(run[g]) /\ run'[g] = run[g]
      BY <1>1, RunsOKSplit
    <3>2. /\ run[g].todo \subseteq Rows /\ (run[g].pc \in AtEpisode => run[g].item \in Rows)
          /\ run[g].pc \in {"written", "movie"} => run[g].item \in Rows
      BY <3>1 DEF Run, RunOK, Rows, Items
    <3>3. QED
      BY <1>3, <3>1, <3>2 DEF RunOK
  <2>2. QED
    BY <2>1 DEF RunsOK, RunOK
<1>7. Covered'
  BY <1>2, <1>3 DEF Covered, WantedFor
<1>8. QED
  BY <1>1, <1>4, <1>5, <1>6, <1>7 DEF MetadataInv, TypeOK, RowsTyped

-----------------------------------------------------------------------------
(* The refresh                                                              *)

\* While a run is about to list the items, it is in charge of everything.
LEMMA ClearingKeeps ==
  ASSUME MetadataInv, NEW g \in Runs, run[g].pc \in {"off", "shows", "seasons"},
         NEW pc \in Refreshing, Goes(g, pc), NEW rows \in SUBSET Rows, Clear(rows), UNCHANGED key
  PROVE  MetadataInv'
<1>1. /\ run \in [Runs -> Run] /\ RunsOK /\ RowsOK /\ key' \in BOOLEAN /\ run[g] \in Run
      /\ row \in [Rows -> {"absent", "none", "set", "gone"}]
      /\ lost \subseteq Rows /\ \A r \in lost : row[r] # "set"
  BY DEF MetadataInv, TypeOK
<1>2. /\ row' \in [Rows -> {"absent", "none", "set", "gone"}]
      /\ \A r \in Rows : /\ There(r)' <=> There(r)
                         /\ row[r] # "absent" <=> row'[r] # "absent"
                         /\ row'[r] = "set" => row[r] = "set" /\ r \notin rows
      /\ lost' = lost \ rows
  BY <1>1 DEF Clear, There
<1>3. /\ \A j \in Items : Parts(j) \subseteq Rows /\ j \in Rows
      /\ \A j \in Episodes : j \in Items /\ Season(j) \in Rows /\ Show(j) \in Rows
  BY PartsAre DEF Items
<1>4. RowsTyped'
  BY <1>1, <1>2, <1>3 DEF RowsTyped, MetadataInv, TypeOK
<1>5. RowsOK'
  BY <1>1, <1>2, <1>3 DEF RowsOK
<1>6. PICK old \in Run : old = run[g]
  BY <1>1
<1>7. PICK new : new = [old EXCEPT !.pc = pc]
  OBVIOUS
<1>8. new \in Run /\ new.pc = pc /\ new.todo = old.todo
  BY <1>7 DEF Run, Stages, Refreshing
<1>9. run' = [run EXCEPT ![g] = new]
  BY <1>6, <1>7 DEF Goes
<1>10. RunOK(run[g]) /\ run[g].todo \subseteq Rows
  BY <1>1, RunsOKSplit DEF Run, Rows
<1>11. RunOK(new)'
  BY <1>2, <1>6, <1>8, <1>10 DEF RunOK, Refreshing, AtEpisode, AtSeason, AtShow, Loading
<1>12. RunsOK' /\ run' \in [Runs -> Run] /\ run'[g] = new
  BY <1>1, <1>2, <1>8, <1>9, <1>11, OneRun
<1>13. Covered'
  BY <1>8, <1>12 DEF Covered, InCharge
<1>14. QED
  BY <1>1, <1>4, <1>5, <1>12, <1>13 DEF MetadataInv, TypeOK, RowsTyped

LEMMA RefreshListsKeeps ==
  ASSUME MetadataInv, NEW g \in Runs, RefreshLists(g) PROVE MetadataInv'
<1>1. /\ run \in [Runs -> Run] /\ RunsOK /\ UNCHANGED <<row, lost>> /\ key' \in BOOLEAN
      /\ run[g].pc = "list" /\ run[g] \in Run
  BY DEF MetadataInv, TypeOK, RefreshLists, At
<1>2. /\ RowsGrow /\ RowsTyped' /\ \A r \in Rows : row[r] # "absent" => row'[r] # "absent"
      /\ Wanted' = Wanted /\ RowsOK'
  BY <1>1, Unchanged, GrowingKeeps DEF MetadataInv, TypeOK
<1>3. PICK todo \in SUBSET Items, have \in SUBSET Items :
        todo = Listed /\ have = {i \in Listed : row[i] = "set"}
  BY DEF Listed
<1>4. \A r \in Wanted : \E i \in todo : r \in Parts(i)
  BY <1>3 DEF Wanted, Listed
<1>5. PICK new : new = IF todo = {} THEN Idle ELSE [Idle EXCEPT !.pc = "next", !.todo = todo, !.have = have]
  OBVIOUS
<1>6. /\ new \in Run /\ new.todo = todo /\ new.pc \in {"off", "next"} /\ (new.pc = "off" => todo = {})
      /\ todo # {} => new.have = have
  <2>1. CASE todo = {}
    BY <1>5, <2>1, IdleIsRun
  <2>2. CASE todo # {}
    BY <1>5, <2>2 DEF Idle, Run, Stages
  <2>3. QED
    BY <2>1, <2>2
<1>7. run' = [run EXCEPT ![g] = new]
  BY <1>3, <1>5 DEF RefreshLists
<1>8. \A i \in todo : row'[i] # "absent"
  BY <1>1, <1>3 DEF Listed, There
<1>9. RunOK(new)'
  BY <1>6, <1>8 DEF RunOK, AtEpisode, AtSeason, AtShow, Loading
<1>10. RunsOK' /\ run' \in [Runs -> Run] /\ run'[g] = new
  BY <1>1, <1>2, <1>6, <1>7, <1>9, OneRun
<1>11. ASSUME NEW r \in Wanted
       PROVE  row'[r] = "set" \/ InCharge(run[g], r)'
  <2>1. PICK i \in todo : r \in Parts(i)
    BY <1>4
  <2>2. r = i /\ i \in new.have => row'[r] = "set"
    BY <1>1, <1>3, <1>6, <2>1
  <2>3. QED
    BY <1>6, <1>10, <2>1, <2>2 DEF InCharge, Waiting
<1>12. Covered'
  <2>1. ASSUME NEW i \in Items, NEW r \in Parts(i), WantedFor(i, r)'
        PROVE  row'[r] = "set" \/ InCharge(run[g], r)'
    BY <1>1, <1>11, <2>1, WantedForIsWanted DEF WantedFor, There, Show, MetadataInv, TypeOK
  <2>2. QED
    BY <2>1 DEF Covered, Parts, Season, Show
<1>13. QED
  BY <1>1, <1>2, <1>10, <1>12 DEF MetadataInv, TypeOK, RowsTyped

-----------------------------------------------------------------------------
(* Cancellation, settings, restart                                          *)

LEMMA GivingUpKeeps ==
  ASSUME MetadataInv, Lose(Rows), UNCHANGED <<key, row>>, run' \in [Runs -> Run], RunsOK'
  PROVE  MetadataInv'
<1>1. PICK rows \in SUBSET Rows : rows = Rows
  OBVIOUS
<1>2. /\ RowsGrow /\ RowsTyped' /\ \A r \in Rows : row'[r] = "set" \/ r \in lost'
  BY <1>1, Losing
<1>3. Wanted' = Wanted /\ RowsOK' /\ Wanted \subseteq Rows
  BY <1>2, GrowingKeeps, MetadataAssumption DEF MetadataInv, TypeOK, Wanted
<1>4. Covered'
  BY <1>2, PartsAre DEF Covered, Parts, Season, Show
<1>5. key' \in BOOLEAN
  BY DEF MetadataInv, TypeOK
<1>6. QED
  BY <1>2, <1>3, <1>4, <1>5 DEF MetadataInv, TypeOK, RowsTyped

LEMMA RefreshCancelledKeeps ==
  ASSUME MetadataInv, NEW g \in Runs, RefreshCancelled(g) PROVE MetadataInv'
<1>1. /\ run \in [Runs -> Run] /\ RunsOK /\ Lose(Rows) /\ UNCHANGED <<key, row>>
  BY DEF MetadataInv, TypeOK, RefreshCancelled
<1>2. PICK new \in Run : new = Idle /\ new.pc = "off" /\ new.todo = {}
  BY IdleIsRun
<1>3. run' = [run EXCEPT ![g] = new] /\ RunOK(new)'
  BY <1>2 DEF RefreshCancelled, RunOK, AtEpisode, AtSeason, AtShow, Loading
<1>4. run' \in [Runs -> Run] /\ RunsOK'
  BY <1>1, <1>2, <1>3, OneRun
<1>5. QED
  BY <1>1, <1>4, GivingUpKeeps

LEMMA ServerRestartsKeeps == ASSUME MetadataInv, ServerRestarts PROVE MetadataInv'
<1>1. PICK new \in Run : new = Idle /\ new.pc = "off" /\ new.todo = {}
  BY IdleIsRun
<1>2. run' = [g \in Runs |-> new]
  BY <1>1 DEF ServerRestarts
<1>3. run' \in [Runs -> Run] /\ \A g \in Runs : run'[g] = new
  BY <1>1, <1>2
<1>4. RunsOK'
  BY <1>1, <1>3 DEF RunsOK, AtEpisode, AtSeason, AtShow, Loading
<1>5. QED
  BY <1>3, <1>4, GivingUpKeeps DEF ServerRestarts

LEMMA NothingNew ==
  ASSUME MetadataInv, UNCHANGED <<row, run, lost>>, key' \in BOOLEAN
  PROVE  MetadataInv'
<1>1. Wanted' = Wanted
  BY DEF Wanted, There, Parts, Show, Season
<1>2. \A g \in Runs : \A r : InCharge(run[g], r)' <=> InCharge(run[g], r)
  BY DEF InCharge, Waiting, Working, Parts, Show, Season
<1>3. Covered'
  <2>1. \A i \in Items : Fresh(i)' <=> Fresh(i)
    BY DEF Fresh, Hands
  <2>2. \A i \in Items : \A r \in Parts(i) : WantedFor(i, r)' <=> WantedFor(i, r)
    BY DEF WantedFor, There, Show, Season
  <2>3. QED
    BY <1>2, <2>1, <2>2 DEF MetadataInv, Covered, Parts, Season, Show
<1>4. RunsOK' /\ RowsOK'
  BY DEF MetadataInv, RunsOK, RowsOK, There, Parts, Show, Season
<1>5. TypeOK'
  BY DEF MetadataInv, TypeOK, There, Parts, Show, Season
<1>6. QED
  BY <1>3, <1>4, <1>5 DEF MetadataInv

-----------------------------------------------------------------------------
(* The specification                                                        *)

LEMMA MetadataInit == ASSUME Init PROVE MetadataInv
<1>1. \A i \in Items : ~There(i)
  BY DEF Init, There, Rows
<1>2. \A i \in Items : i \in Rows /\ row[i] = "absent"
  BY DEF Init, Rows
<1>3. TypeOK
  BY <1>2, IdleIsRun DEF Init, TypeOK, There
<1>4. RowsOK
  BY <1>2 DEF RowsOK
<1>5. RunsOK
  BY IdleIsRun DEF Init, RunsOK, AtEpisode, AtSeason, AtShow, Loading
<1>6. QED
  BY <1>1, <1>3, <1>4, <1>5 DEF MetadataInv, Covered, WantedFor

LEMMA MetadataNext == ASSUME MetadataInv, [Next]_vars PROVE MetadataInv'
<1>1. ASSUME NEW g \in Runs, NEW i \in Items, ScanFinds(g, i) \/ EnrichItem(g, i)
      PROVE  MetadataInv'
  BY <1>1, ScanFindsKeeps, EnrichItemKeeps
<1>2. ASSUME NEW g \in Runs, NEW i \in Episodes, EnrichTVEpisode(g, i)
      PROVE  MetadataInv'
  BY <1>2, EnrichTVEpisodeKeeps
<1>11. ASSUME NEW g \in Runs, ScanReadsBack(g) \/ LoadsShow(g) \/ LoadsSeason(g)
       PROVE  MetadataInv'
  BY <1>11, ScanReadsBackKeeps, LoadsShowKeeps, LoadsSeasonKeeps
<1>3. ASSUME NEW g \in Runs, RefreshBegins(g) \/ RefreshClearsShows(g) \/ RefreshClearsSeasons(g)
      PROVE  MetadataInv'
  <2>1. PICK items \in SUBSET Rows, shows \in SUBSET Rows, seasons \in SUBSET Rows :
          items = Items /\ shows = Shows /\ seasons = Seasons
    BY DEF Rows
  <2>2. CASE RefreshBegins(g)
    BY <2>1, <2>2, ClearingKeeps DEF RefreshBegins, At, Refreshing
  <2>3. CASE RefreshClearsShows(g)
    BY <2>1, <2>3, ClearingKeeps DEF RefreshClearsShows, At, Refreshing
  <2>4. CASE RefreshClearsSeasons(g)
    BY <2>1, <2>4, ClearingKeeps DEF RefreshClearsSeasons, At, Refreshing
  <2>5. QED
    BY <1>3, <2>2, <2>3, <2>4
<1>4. ASSUME NEW g \in Runs, RefreshLists(g) \/ RefreshCancelled(g)
      PROVE  MetadataInv'
  BY <1>4, RefreshListsKeeps, RefreshCancelledKeeps
<1>5. ASSUME NEW g \in Runs, \/ MovieAnswered(g) \/ EnrichTVShow(g) \/ ShowAnswered(g) \/ ReadsShow(g)
                             \/ EnrichTVSeason(g) \/ SeasonAnswered(g) \/ EpisodeAnswered(g)
      PROVE  MetadataInv'
  BY <1>5, MovieKeeps, EnrichTVShowKeeps, ShowAnsweredKeeps, ReadsShowKeeps, EnrichTVSeasonKeeps,
     SeasonAnsweredKeeps, EpisodeKeeps
<1>6. ASSUME NEW i \in Items, DeleteItem(i) PROVE MetadataInv'
  BY <1>6, DeleteItemKeeps
<1>7. CASE DeleteLibrary \/ ServerRestarts
  BY <1>7, DeleteLibraryKeeps, ServerRestartsKeeps
<1>8. CASE UpdateSetting
  BY <1>8, NothingNew DEF UpdateSetting
<1>9. CASE UNCHANGED vars
  BY <1>9, NothingNew DEF vars, MetadataInv, TypeOK
<1>10. QED
  BY <1>1, <1>2, <1>3, <1>4, <1>5, <1>6, <1>7, <1>8, <1>9, <1>11 DEF Next

THEOREM MetadataInvariant == Spec => []MetadataInv
<1>1. Init => MetadataInv
  BY MetadataInit
<1>2. MetadataInv /\ [Next]_vars => MetadataInv'
  BY MetadataNext
<1>3. QED
  BY <1>1, <1>2, PTL DEF Spec

\* Every variable keeps to its set, whatever scans, refreshes and deletions overlap.
THEOREM MetadataTyped == Spec => []TypeOK
<1>1. MetadataInv => TypeOK
  BY DEF MetadataInv
<1>2. QED
  BY <1>1, MetadataInvariant, PTL

\* Once every goroutine of the scanner and of the refresh is over, each row that TMDB has
\* a match for has its metadata, unless a fetch for it failed or was given up.
THEOREM NothingForgotten == Spec => []EnrichedOrLost
<1>1. ASSUME MetadataInv, \A g \in Runs : At(g, "off")
      PROVE  \A r \in Wanted : row[r] = "set" \/ r \in lost
  <2>1. ASSUME NEW g \in Runs
        PROVE  run[g].pc # "written" /\ \A r : ~InCharge(run[g], r)
    <3>1. run[g].pc = "off" /\ run[g].todo = {}
      BY <1>1 DEF MetadataInv, RunsOK, At
    <3>2. QED
      BY <3>1 DEF InCharge, Waiting, Working, Refreshing, AtSeason, AtShow, Loading
  <2>2. ASSUME NEW r \in Wanted
        PROVE  row[r] = "set" \/ r \in lost
    <3>1. PICK i \in Items : r \in Parts(i) /\ WantedFor(i, r)
      BY DEF Wanted, WantedFor
    <3>2. QED
      BY <1>1, <2>1, <3>1 DEF MetadataInv, Covered, Fresh
  <2>3. QED
    BY <2>2
<1>2. MetadataInv => EnrichedOrLost
  BY <1>1 DEF EnrichedOrLost
<1>3. QED
  BY <1>2, MetadataInvariant, PTL
=============================================================================
