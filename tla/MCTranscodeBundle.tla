------------------------- MODULE MCTranscodeBundle -------------------------
(* Small instances of TranscodeBundle for TLC. *)
EXTENDS TranscodeBundle, TLC

\* Profiles, goroutines, areas and workers are interchangeable.
Symmetry == Permutations(Profiles) \cup Permutations(Locals) \cup Permutations(Areas)
              \cup Permutations(Workers)

\* What is not followed further: an item whose sub-jobs have hit each other's files, of
\* which nothing is claimed; one that a bulk enqueue put back, which has nothing to claim
\* (queue_bulk); and an administrator at work after a crash or the first worker.
Followed ==
  /\ "clash" \notin spoiled
  /\ job[Item].status = "pending" => \E k \in Kinds : StatusOf(k) = "pending"
  /\ \/ \A ad \in Admins : regen[ad] = Nothing
     \/ restarts = 0 /\ \A w \in Workers : worker[w].status = "new"
=============================================================================
