SPECIFICATION Spec
CONSTANTS
  Paths = {a, b, c}
  Nested = {b}
  Contents = {x, y, z}
  Twins = {x, y}
  SizeOf <- TwinSizes
  Ids = {i1, i2}
  None = None
  Walkers = {s1}
  Watcher = watcher
  Episodes = TRUE
  Unparsed = {c}
  MaxChanges = 1
  MaxTranscodes = 2
CONSTRAINT Small
SYMMETRY Symmetry
INVARIANTS
  TypeOK
  ScanConverges
  DeletedIsEmpty
PROPERTIES
  DoneStays
CHECK_DEADLOCK FALSE
