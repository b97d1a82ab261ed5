SPECIFICATION Spec
CONSTANTS
  Files = {f1}
  Workers = {w1, w2}
  MaxBlob = 2
  MaxRev = 3
  MaxForeign = 1
  MaxCrash = 1
  MaxFault = 1
  Faults = {"refuse", "check", "send", "answer"}
  Wholeness = {TRUE, FALSE}
SYMMETRY Interchangeable
CONSTRAINT OneWorkerPerNode
CHECK_DEADLOCK FALSE
INVARIANTS
  SealedInv
  RowsNewest
  JobsNewest
PROPERTY
  OnlyOrphansGoBack
