------------------------------ MODULE MCMetadata ------------------------------
(* A small instance of Metadata for TLC: one season, one episode without a match. *)
EXTENDS Metadata, TLC

CONSTANTS m1, e1, e2, z1, s1

OneSeason == [i \in Episodes |-> z1]
OneShow == [s \in Seasons |-> s1]
AllButOne == {m1, e1, z1, s1}
Symmetry == Permutations(Runs)
=============================================================================
