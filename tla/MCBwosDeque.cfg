CONSTANTS
  NumBlocks = 4
  BlockSize = 2
  MaxRange = 2
  MaxCounter = 4
  t1 = t1
  t2 = t2
  Thieves <- MCThieves
SPECIFICATION Spec
INVARIANTS
  AccountedFor
  NoEndlessSpin
PROPERTIES
  FullMeansFull
  EmptyMeansEmpty
  DequeIsBag
SYMMETRY Symmetry
