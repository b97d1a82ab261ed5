SPECIFICATION Spec
CONSTANTS
  Files = {f, g}
  Workers = {w, v}
  Names = {a, b, c}
  Transient = {}
  HoldAttempts = 1
  MintRaces = FALSE
  QuickRestart = TRUE
  WalkFirst = TRUE
  MaxBlob = 0
  MaxNode = 3
  MaxCall = 4
  MaxForeign = 0
  MaxFault = 0
  Faults = {}
  MaxCrash = 0
SYMMETRY Symmetry
INVARIANTS NeverShared
CHECK_DEADLOCK FALSE
