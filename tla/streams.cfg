SPECIFICATION FairSpec
CONSTANTS
  Media = {m1}
  Clients = {u1}
  Publishers = {l1}
  Ticker = ticker
  NoItem = NoItem
  HubBuffer = 2
  BusBuffer = 1
INVARIANTS
  TypeOK
  EndIsOnItsWay
PROPERTIES
  KeepsPromise
  NoStreamHangs
  AnnouncedIsEnqueued
CHECK_DEADLOCK FALSE
