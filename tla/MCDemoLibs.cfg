CONSTANTS
  Slots = {0, 1, 2, 3, 4, 5}
  Zero = 0
  RuntimeKeys = {1, 2}
  MaxCycles = 8
SPECIFICATION Spec
INVARIANT DemoAccount
