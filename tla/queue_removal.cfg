SPECIFICATION Spec
CONSTANTS
  Media = {m1}
  Profiles = {v1}
  Subtitles = subtitles
  Workers = {w1}
  NoWorker = NoWorker
  MaxPriority = 0
  MaxClock = 0
  MaxGen = 1
  Locals = {l1}
  Slots = {c1}
  Threads = 1
  MaxRestarts = 0
PROPERTIES
  RemovedGivesBack
CHECK_DEADLOCK FALSE
