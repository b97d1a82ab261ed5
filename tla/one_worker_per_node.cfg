SPECIFICATION Spec
CONSTANTS
  Files = {f1}
  Workers = {w1, w2}
  MaxBlob = 2
  MaxRev = 3
  MaxForeign = 0
  MaxCrash = 0
  MaxFault = 0
  Faults = {}
  Wholeness = {TRUE}
CHECK_DEADLOCK FALSE
INVARIANT OneWorkerPerNode
