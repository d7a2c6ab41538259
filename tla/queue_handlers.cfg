SPECIFICATION Spec
CONSTANTS
  Media = {m1}
  Profiles = {v1}
  Subtitles = subtitles
  Workers = {w1}
  NoWorker = NoWorker
  MaxPriority = 0
  MaxClock = 0
  MaxGen = 2
  Locals = {l1, l2}
  Slots = {c1, c2}
  Threads = 1
  MaxRestarts = 0
SYMMETRY Symmetry
INVARIANTS
  TypeOK
  DoneIsComplete
  WorkRemains
  WaitingIsClaimable
  LocalExclusive
  RunningNotClaimable
  WithinThreads
PROPERTIES
  FinishedStaysFinished
  FollowsLifecycle
CHECK_DEADLOCK FALSE
