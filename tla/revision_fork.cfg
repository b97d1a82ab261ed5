SPECIFICATION FairSpec
CONSTANTS
  Files = {f1}
  Workers = {w1}
  MaxBlob = 3
  MaxRev = 5
  MaxForeign = 0
  MaxCrash = 0
  MaxFault = 2
  Faults = {"check", "send", "readback"}
  Wholeness = {TRUE}
CHECK_DEADLOCK FALSE
INVARIANTS
  Inv
  NoSelfFork
PROPERTIES
  EveryWriteSettles
