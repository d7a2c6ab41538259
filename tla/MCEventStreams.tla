--------------------------- MODULE MCEventStreams ---------------------------
(* Small instances of EventStreams for TLC. *)
EXTENDS EventStreams, TLC

Symmetry == Permutations(Publishers) \cup Permutations(Clients)
=============================================================================
