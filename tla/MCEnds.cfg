CONSTANTS
  Slots = {s1, s2, s3}
  Workers = {w1, w2}
  Threads = {main, w1, w2}
  Main = main
  NoThread = none
  NoKey = nokey
  Wrapped = TRUE
  SpawnMayFail = TRUE
  LinkMode = "fix"
  Plugins = {"leak_plugin", "no_symbol"}
  MaxRounds = 2
  MaxTasks = 2
  SamplePeriod = 2
SPECIFICATION Spec
PROPERTY AlwaysEnds
