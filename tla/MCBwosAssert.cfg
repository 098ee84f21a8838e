CONSTANTS
  NumBlocks = 4
  BlockSize = 1
  MaxRange = 2
  MaxCounter = 4
  t1 = t1
  t2 = t2
  Thieves <- MCThieves
SPECIFICATION Spec
INVARIANT OwnerIsAhead
SYMMETRY Symmetry
