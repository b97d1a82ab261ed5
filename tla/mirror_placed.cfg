SPECIFICATION Spec
CONSTANTS
  Paths = {a}
  Others = 1
  Windows = {"placed"}
  MaxVersion = 4
  MaxRev = 7
  MaxForeign = 1
  MaxFault = 0
  Faults = {}
INVARIANT SyncedMeansSame
