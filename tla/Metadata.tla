------------------------------- MODULE Metadata -------------------------------
(***************************************************************************)
(* TMDB metadata of movies, shows, seasons and episodes: the goroutine the *)
(* scanner starts for a row without metadata, the refresh of everything    *)
(* with its three clears, its list of items and its goroutine that works   *)
(* through the list as it was read, answers of TMDB that match, do not     *)
(* match or fail, a key that comes and goes, rows that are deleted,        *)
(* requests that are cancelled and a server that restarts.                 *)
(*                                                                         *)
(* A row has metadata when its tmdb_id is set; what a failed request for   *)
(* details leaves out is not told apart.                                   *)
(***************************************************************************)
EXTENDS Naturals

CONSTANTS
  Movies, Episodes, Seasons, Shows,   \* ids of rows
  SeasonOf,   \* the season of each episode
  ShowOf,     \* the show of each season
  Known,      \* rows TMDB has a match for
  Runs,       \* goroutines, and requests that become one
  None

Items == Movies \cup Episodes
Rows == Items \cup Seasons \cup Shows

ASSUME MetadataAssumption ==
  /\ SeasonOf \in [Episodes -> Seasons] /\ ShowOf \in [Seasons -> Shows]
  /\ Known \subseteq Rows /\ None \notin Rows
  /\ Movies \cap Episodes = {} /\ Items \cap (Seasons \cup Shows) = {} /\ Seasons \cap Shows = {}

VARIABLES
  key,    \* whether the setting tmdb_api_key is set
  row,    \* per row: absent, none (without metadata), set, or gone for good
  run,    \* what each goroutine or request does
  lost    \* a history: rows that wait for the next refresh, as a fetch of theirs failed

vars == <<key, row, run, lost>>

Stages == {"off", "written", "shows", "seasons", "list", "next", "movie", "loadShow",
           "loadSeason", "show", "askShow", "readShow", "season", "askSeason", "episode"}
Run == [pc : Stages,
        todo : SUBSET Items,    \* items still to do
        have : SUBSET Items,    \* of these, items that had metadata when they were listed
        item : Items \cup {None},
        show : BOOLEAN, season : BOOLEAN]   \* whether the copies read have metadata
Idle == [pc |-> "off", todo |-> {}, have |-> {}, item |-> None, show |-> FALSE, season |-> FALSE]

Init ==
  /\ key \in BOOLEAN
  /\ row = [r \in Rows |-> "absent"]
  /\ run = [g \in Runs |-> Idle]
  /\ lost = {}

There(r) == row[r] \in {"none", "set"}
At(g, pc) == run[g].pc = pc
Goes(g, pc) == run' = [run EXCEPT ![g].pc = pc]
Season(i) == SeasonOf[i]
Show(i) == ShowOf[SeasonOf[i]]

\* The rows that a goroutine for this item fetches.
Parts(i) == IF i \in Movies THEN {i} ELSE {i, Season(i), Show(i)}

\* No one is going to fetch what these rows are without.
Lose(rows) == lost' = lost \cup {r \in rows : row[r] # "set"}

\* The item is dealt with; a goroutine with nothing left to do is over.
ItemEnds(g) ==
  run' = [run EXCEPT ![g] = IF run[g].todo = {} THEN Idle
                            ELSE [Idle EXCEPT !.pc = "next", !.todo = run[g].todo,
                                              !.have = run[g].have \cap run[g].todo]]

\* UpdateMediaMetadata, UpdateTVShowMetadata, UpdateTVSeasonMetadata
Update(r) ==
  /\ row' = [row EXCEPT ![r] = IF There(r) THEN "set" ELSE @]
  /\ lost' = lost \ {r}

\* ClearAllMediaMetadata, ClearAllTVShowMetadata, ClearAllTVSeasonMetadata
Clear(rows) ==
  /\ row' = [r \in Rows |-> IF r \in rows /\ row[r] = "set" THEN "none" ELSE row[r]]
  /\ lost' = lost \ rows

-----------------------------------------------------------------------------
(* TMDB: what a request may come to.  Without a match the list of results   *)
(* is empty, or the answer is 404; a request fails when it times out, when  *)
(* the answer has another status, and when it cannot be decoded.            *)

Answers(r) == IF r \in Known THEN {"found", "failed"} ELSE {"none", "failed"}

Search(r) == Answers(r)         \* SearchMovie and SearchTV
GetTVSeason(s) == Answers(s)
GetTVEpisode(i) == Answers(i)

-----------------------------------------------------------------------------
(* The scanner *)

\* Mutant: the season of a new episode is not upserted.
UpsertShowOnly(i) ==
  [r \in Rows |-> IF r \in Parts(i) \ Seasons /\ row[r] = "absent" THEN "none" ELSE row[r]]

\* UpsertTVShow, UpsertTVSeason and UpsertMediaItem keep the metadata there is.
UpsertParts(i) ==
  [r \in Rows |-> IF r \in Parts(i) /\ row[r] = "absent" THEN "none" ELSE row[r]]

\* A new or changed file.
ScanFinds(g, i) ==
  /\ At(g, "off")
  /\ \A r \in Parts(i) : row[r] # "gone"
  /\ row' = UpsertParts(i)
  /\ run' = [run EXCEPT ![g] = [Idle EXCEPT !.pc = "written", !.item = i]]
  /\ UNCHANGED <<key, lost>>

\* The row is read back, and without metadata a goroutine starts; when it cannot be read,
\* none does.
ScanReadsBack(g) ==
  LET i == run[g].item
      starts == [Idle EXCEPT !.pc = "next", !.todo = {i}]
  IN /\ At(g, "written")
     /\ \/ /\ run' = [run EXCEPT ![g] = IF row[i] = "none" THEN starts ELSE Idle]
           /\ UNCHANGED lost
        \/ run' = [run EXCEPT ![g] = Idle] /\ Lose(Parts(i))
     /\ UNCHANGED <<key, row>>

DeleteItem(i) ==
  /\ There(i)
  /\ row' = [row EXCEPT ![i] = "gone"]
  /\ UNCHANGED <<key, run, lost>>

\* Rows go with their library.
DeleteLibrary ==
  /\ row' = [r \in Rows |-> IF There(r) THEN "gone" ELSE row[r]]
  /\ UNCHANGED <<key, run, lost>>

-----------------------------------------------------------------------------
(* RefreshAllMetadata *)

RefreshBegins(g) ==
  /\ At(g, "off") /\ Goes(g, "shows")
  /\ Clear(Items)
  /\ UNCHANGED key

RefreshClearsShows(g) ==
  /\ At(g, "shows") /\ Goes(g, "seasons")
  /\ Clear(Shows)
  /\ UNCHANGED key

RefreshClearsSeasons(g) ==
  /\ At(g, "seasons") /\ Goes(g, "list")
  /\ Clear(Seasons)
  /\ UNCHANGED key

\* ListAllMediaItemsAll
Listed == {i \in Items : There(i)}

\* The answer is sent and the goroutine goes on with the items as they were read.
RefreshLists(g) ==
  /\ At(g, "list")
  /\ run' = [run EXCEPT ![g] = IF Listed = {} THEN Idle
                               ELSE [Idle EXCEPT !.pc = "next", !.todo = Listed,
                                        !.have = {i \in Listed : row[i] = "set"}]]
  /\ UNCHANGED <<key, row, lost>>

\* The client goes away between two statements: what was cleared is not fetched again.
RefreshCancelled(g) ==
  /\ run[g].pc \in {"shows", "seasons", "list"}
  /\ run' = [run EXCEPT ![g] = Idle]
  /\ Lose(Rows)
  /\ UNCHANGED <<key, row>>

-----------------------------------------------------------------------------
(* Enricher *)

\* The next item; the one it starts with is of no importance.
Takes(g, i, pc) ==
  run' = [run EXCEPT ![g].pc = pc, ![g].todo = @ \ {i}, ![g].item = i]

Skips(g, i) ==
  IF run[g].todo = {i} THEN run' = [run EXCEPT ![g] = Idle]
  ELSE run' = [run EXCEPT ![g].todo = @ \ {i}, ![g].have = @ \ {i}]

\* EnrichItem up to its search.
EnrichItem(g, i) ==
  /\ At(g, "next") /\ i \in run[g].todo \cap Movies
  /\ IF key /\ i \notin run[g].have THEN Takes(g, i, "movie") /\ UNCHANGED lost
     ELSE Skips(g, i) /\ Lose(IF key THEN {} ELSE {i})
  /\ UNCHANGED <<key, row>>

\* What an answer does to row r; without one, these rows are not fetched.
Stores(r, a, rows) ==
  \/ a = "found" /\ Update(r)
  \/ a = "none" /\ UNCHANGED <<row, lost>>
  \/ a = "failed" /\ Lose(rows) /\ UNCHANGED row

\* Details that TMDB has besides are stored with it, and without them what was found.
MovieAnswered(g) ==
  LET i == run[g].item
  IN /\ At(g, "movie") /\ ItemEnds(g)
     /\ \E a \in Search(i) : Stores(i, a, {i})
     /\ UNCHANGED key

EnrichTVEpisode(g, i) ==
  /\ At(g, "next") /\ i \in run[g].todo \cap Episodes
  /\ IF key THEN Takes(g, i, "loadShow") /\ UNCHANGED lost
            ELSE Skips(g, i) /\ Lose(Parts(i))
  /\ UNCHANGED <<key, row>>

\* It reads the show and then the season; without one of them the item is dealt with.
LoadsShow(g) ==
  LET z == Show(run[g].item)
  IN /\ At(g, "loadShow")
     /\ \/ /\ There(z) /\ UNCHANGED lost
           /\ run' = [run EXCEPT ![g].pc = "loadSeason", ![g].show = (row[z] = "set")]
        \/ ItemEnds(g) /\ Lose(Parts(run[g].item))
     /\ UNCHANGED <<key, row>>

LoadsSeason(g) ==
  LET z == Season(run[g].item)
  IN /\ At(g, "loadSeason")
     /\ \/ /\ There(z) /\ UNCHANGED lost
           /\ run' = [run EXCEPT ![g].pc = "show", ![g].season = (row[z] = "set")]
        \/ ItemEnds(g) /\ Lose(Parts(run[g].item))
     /\ UNCHANGED <<key, row>>

\* EnrichTVShow: nothing to do for a show with metadata, nor without a key.
EnrichTVShow(g) ==
  /\ At(g, "show")
  /\ \/ ~run[g].show /\ key /\ Goes(g, "askShow") /\ UNCHANGED lost
     \/ run[g].show /\ run' = [run EXCEPT ![g].pc = "season", ![g].show = FALSE] /\ UNCHANGED lost
     \/ ~run[g].show /\ ~key /\ ItemEnds(g) /\ Lose(Parts(run[g].item))
  /\ UNCHANGED <<key, row>>

ShowAnswered(g) ==
  LET i == run[g].item
  IN /\ At(g, "askShow")
     /\ \E a \in Search(Show(i)) :
          /\ Stores(Show(i), a, Parts(i))
          /\ IF a = "found" THEN Goes(g, "readShow") ELSE ItemEnds(g)
     /\ UNCHANGED key

\* The show is read back; it may have been cleared or deleted again, and without its copy
\* the item is dealt with.
ReadsShow(g) ==
  /\ At(g, "readShow")
  /\ \/ /\ IF row[Show(run[g].item)] = "set" THEN Goes(g, "season") ELSE ItemEnds(g)
        /\ UNCHANGED lost
     \/ ItemEnds(g) /\ Lose(Parts(run[g].item))
  /\ UNCHANGED <<key, row>>

\* The episode is next, unless its copy has metadata.
AfterSeason(g) == IF run[g].item \in run[g].have THEN ItemEnds(g)
                 ELSE run' = [run EXCEPT ![g].pc = "episode", ![g].season = FALSE]

\* Mutant: the season is asked for by the item's copy instead of its own.
EnrichTVSeasonByItem(g) ==
  /\ At(g, "season")
  /\ IF key /\ run[g].item \notin run[g].have THEN Goes(g, "askSeason") /\ UNCHANGED lost
     ELSE AfterSeason(g) /\ Lose(IF key THEN {} ELSE {Season(run[g].item)})
  /\ UNCHANGED <<key, row>>

\* EnrichTVSeason
EnrichTVSeason(g) ==
  /\ At(g, "season")
  /\ IF key /\ ~run[g].season THEN Goes(g, "askSeason") /\ UNCHANGED lost
     ELSE AfterSeason(g) /\ Lose(IF run[g].season THEN {} ELSE {Season(run[g].item)})
  /\ UNCHANGED <<key, row>>

SeasonAnswered(g) ==
  LET s == Season(run[g].item)
  IN /\ At(g, "askSeason") /\ AfterSeason(g)
     /\ \E a \in GetTVSeason(s) : Stores(s, a, {s})
     /\ UNCHANGED key

\* With the client it began with, whatever became of the key.
EpisodeAnswered(g) ==
  LET i == run[g].item
  IN /\ At(g, "episode") /\ ItemEnds(g)
     /\ \E a \in GetTVEpisode(i) : Stores(i, a, {i})
     /\ UNCHANGED key

-----------------------------------------------------------------------------

\* UpdateSetting
UpdateSetting ==
  /\ key' = ~key
  /\ UNCHANGED <<row, run, lost>>

ServerRestarts ==
  /\ run' = [g \in Runs |-> Idle]
  /\ Lose(Rows)
  /\ UNCHANGED <<key, row>>

Next ==
  \/ \E g \in Runs :
       \/ \E i \in Items : ScanFinds(g, i) \/ EnrichItem(g, i)
       \/ \E i \in Episodes : EnrichTVEpisode(g, i)
       \/ ScanReadsBack(g) \/ LoadsShow(g) \/ LoadsSeason(g)
       \/ RefreshBegins(g) \/ RefreshClearsShows(g) \/ RefreshClearsSeasons(g)
       \/ RefreshLists(g) \/ RefreshCancelled(g)
       \/ MovieAnswered(g) \/ EnrichTVShow(g) \/ ShowAnswered(g) \/ ReadsShow(g)
       \/ EnrichTVSeason(g) \/ SeasonAnswered(g) \/ EpisodeAnswered(g)
  \/ \E i \in Items : DeleteItem(i)
  \/ DeleteLibrary \/ UpdateSetting \/ ServerRestarts

Spec == Init /\ [][Next]_vars

-----------------------------------------------------------------------------
(* Properties *)

\* Every variable keeps to its set, a row that is there has its season and show, and
\* what was lost is without metadata.
TypeOK ==
  /\ key \in BOOLEAN
  /\ row \in [Rows -> {"absent", "none", "set", "gone"}]
  /\ run \in [Runs -> Run]
  /\ \A i \in Items : There(i) => \A r \in Parts(i) : There(r)
  /\ lost \subseteq Rows /\ \A r \in lost : row[r] # "set"

\* What TMDB can be asked for: for a season or an episode its show has to match.
Wanted ==
  {r \in Known : There(r) /\
     \E i \in Items : There(i) /\ r \in Parts(i) /\ (i \in Episodes => Show(i) \in Known)}

\* When no goroutine is left, everything TMDB has a match for has its metadata, but for the
\* rows that, since the last refresh, a fetch or a read failed for, that were skipped for
\* want of a key, or that a cancelled request or a restart gave up: however scans and
\* refreshes overlap, with the stale copies they work from, no row is forgotten, and a
\* failure harms no row but its own, the show and the season it belongs to and those below.
EnrichedOrLost ==
  (\A g \in Runs : At(g, "off")) => \A r \in Wanted : row[r] = "set" \/ r \in lost
=============================================================================
