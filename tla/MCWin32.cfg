CONSTANTS
  Slots = {s1, s2, s3, s4, s5, s6}
  Workers = {w1, w2}
  Threads = {main, w1, w2}
  Main = main
  NoThread = none
  NoKey = nokey
  Wrapped = FALSE
  SpawnMayFail = TRUE
  LinkMode = "win32"
  Plugins = {"leak_plugin"}
  MaxRounds = 4
  MaxTasks = 2
  SamplePeriod = 2
SPECIFICATION Spec
SYMMETRY Symmetry
INVARIANTS
  VerdictIsRight
  SamplesAddUp
  EstimateIsNotLate
  EveryRoundLeaks
PROPERTY ProbeIsExact
