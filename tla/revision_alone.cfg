SPECIFICATION Spec
CONSTANTS
  Files = {f1, f2}
  Workers = {w1, w2}
  MaxBlob = 2
  MaxRev = 3
  MaxForeign = 0
  MaxCrash = 0
  MaxFault = 1
  Faults = {"check", "send", "readback"}
  Wholeness = {TRUE}
CHECK_DEADLOCK FALSE
INVARIANTS
  SealedInv
  JobsNewest
  AloneInv
CONSTRAINT OneWorkerPerNode
