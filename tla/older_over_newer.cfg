SPECIFICATION Spec
CONSTANTS
  Files = {f1}
  Workers = {w1}
  MaxBlob = 2
  MaxRev = 4
  MaxForeign = 0
  MaxCrash = 2
  MaxFault = 0
  Faults = {}
  Wholeness = {TRUE}
CHECK_DEADLOCK FALSE
PROPERTY NeverStepsBack
