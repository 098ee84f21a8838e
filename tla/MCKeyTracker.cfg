CONSTANTS
  Slots = {s1, s2, s3, s4}
  Threads = {main, w1, w2}
  Main = main
  NoThread = none
  NoKey = nokey
  Wrapped = TRUE
SPECIFICATION TrackerSpec
INVARIANTS
  TrackerTypeOK
  NoKeyForgotten
  DeletesOnlyOwnKeys
  EachKeyPushedOnce
  ListNotShared
  NoOrphans
PROPERTY LeaseKept
