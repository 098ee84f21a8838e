CONSTANTS
  Slots = {s1, s2, s3, s4}
  Workers = {w1, w2, w3}
  Threads = {main, w1, w2, w3}
  Main = main
  NoThread = none
  NoKey = nokey
  Wrapped = TRUE
  SpawnMayFail = TRUE
  LinkMode = "fix"
  Plugins = {"leak_plugin", "no_symbol", "no_file"}
  MaxRounds = 3
  MaxTasks = 4
  SamplePeriod = 2
SPECIFICATION Spec
SYMMETRY Symmetry
INVARIANTS
  TypeOK
  NoThreadOutlivesImage
  FixedPluginNeverStarves
  ProbeLeavesNoTrace
  FailuresAreCounted
PROPERTY TrackerSpec
