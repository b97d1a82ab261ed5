SPECIFICATION Spec
CONSTANTS
  Files = {f, g}
  Workers = {w, v}
  Names = {a, b}
  Transient = {}
  HoldAttempts = 1
  MintRaces = FALSE
  QuickRestart = TRUE
  WalkFirst = TRUE
  MaxBlob = 0
  MaxNode = 3
  MaxCall = 3
  MaxForeign = 0
  MaxFault = 1
  Faults = {"answer"}
  MaxCrash = 0
SYMMETRY Symmetry
INVARIANTS NeverShared
CHECK_DEADLOCK FALSE
