SPECIFICATION FairSpec
CONSTANTS
  Media = {m1}
  Profiles = {v1}
  Subtitles = subtitles
  Workers = {w1}
  NoWorker = NoWorker
  MaxPriority = 1
  MaxClock = 1
  MaxGen = 2
  Locals = {l1}
  Slots = {c1}
  Threads = 1
  MaxRestarts = 1
INVARIANTS
  WorkIsWatched
PROPERTIES
  
  NoJobStarves
CHECK_DEADLOCK FALSE
