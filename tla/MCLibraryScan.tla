--------------------------- MODULE MCLibraryScan ---------------------------
(* Small instances of LibraryScan for TLC. *)
EXTENDS LibraryScan, TLC

CONSTANT Twins  \* contents of one size

TwinSizes == [c \in Contents |-> IF c \in Twins THEN Twins ELSE {c}]

\* At most two files at a time, of two sizes only once the directory has changed, and
\* the one without an episode's name has a size of its own; a change of the directory
\* or a second transcode.
Small ==
  /\ changes + transcodes <= 2
  /\ Cardinality({p \in Paths : disk[p] # None}) <= 2
  /\ \A p \in Paths : disk[p] \in IF p \in Unparsed THEN {None} \cup (Contents \ Twins)
                                 ELSE IF changes = 0 THEN {None} \cup Twins
                                 ELSE {None} \cup Contents

\* Ids, contents of one size and goroutines of ScanAll are interchangeable; paths are not, since
\* one is nested.
Symmetry == Permutations(Ids) \cup Permutations(Twins) \cup Permutations(Walkers)
=============================================================================
