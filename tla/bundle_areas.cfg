SPECIFICATION Spec
CONSTANTS
  Media = {m1}
  Item = m1
  Profiles = {v1, v2}
  Subtitles = subtitles
  Workers = {}
  NoWorker = NoWorker
  MaxPriority = 0
  MaxClock = 0
  MaxGen = 1
  Areas = {a1, a2}
  NoArea = NoArea
  Locals = {l1}
  Admins = {}
  MaxRestarts = 0
SYMMETRY Symmetry
INVARIANT SegmentsBesideManifest
CHECK_DEADLOCK FALSE
