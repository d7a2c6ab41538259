----------------------------- MODULE MCArtifacts -----------------------------
(* Small instances of Artifacts for TLC. *)
EXTENDS Artifacts, TLC

OneLibrary == [f \in Files |-> "library"]
Symmetry == Permutations(Runs) \cup Permutations(Dirs) \cup Permutations(Fps)
=============================================================================
