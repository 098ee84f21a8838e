CONSTANTS
  Slots = {s1, s2, s3}
  Workers = {w1, w2}
  Threads = {main, w1, w2}
  Main = main
  NoThread = none
  NoKey = nokey
  Wrapped = FALSE
  SpawnMayFail = TRUE
  LinkMode = "static"
  Plugins = {"leak_plugin"}
  MaxRounds = 2
  MaxTasks = 2
  SamplePeriod = 2
SPECIFICATION Spec
INVARIANT StaticReproducesLeak
