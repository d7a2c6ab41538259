SPECIFICATION Spec
CONSTANTS
  Areas = {a1}
  Roots = {p1}
  Dirs = {d1}
  Files = {f1, f2}
  Fps = {x, y}
  LibraryOf <- OneLibrary
  Runs = {r1}
  None = None
  MaxChanges = 2
SYMMETRY Symmetry
INVARIANTS
  TypeOK
  IndexMatchesDisk
  BundlesRecovered
  RelinkAttaches
PROPERTIES
  RelinkLinksOnce
CHECK_DEADLOCK FALSE
