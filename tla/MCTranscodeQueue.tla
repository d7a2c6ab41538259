-------------------------- MODULE MCTranscodeQueue --------------------------
(* Small instances of TranscodeQueue for TLC. *)
EXTENDS TranscodeQueue, TLC

\* Media items, profiles, goroutines and request slots are interchangeable; so
\* are workers, since a worker is ephemeral by its row and not by its name.
Symmetry == Permutations(Media) \cup Permutations(Profiles) \cup Permutations(Locals)
              \cup Permutations(Slots) \cup Permutations(Workers)
=============================================================================
