SPECIFICATION Spec
CONSTANTS
  Media = {m1}
  Item = m1
  Profiles = {v1}
  Subtitles = subtitles
  Workers = {w1}
  NoWorker = NoWorker
  MaxPriority = 0
  MaxClock = 0
  MaxGen = 2
  Areas = {a1}
  NoArea = NoArea
  Locals = {l1}
  Admins = {ad}
  MaxRestarts = 1
SYMMETRY Symmetry
CONSTRAINT Followed
INVARIANTS
  TypeOK
  ManifestBacked
  ManifestComplete
CHECK_DEADLOCK FALSE
