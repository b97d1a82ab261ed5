SPECIFICATION Spec
CONSTANTS
  Roots = {p}
  Listers = {l}
  MaxEvents = 2
  Faults = {}
  MaxFault = 0
  MaxCrash = 0
INVARIANT FailsClosed
CHECK_DEADLOCK FALSE
