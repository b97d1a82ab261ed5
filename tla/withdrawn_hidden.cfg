SPECIFICATION Spec
CONSTANTS
  Files = {f}
  Workers = {w}
  Names = {a}
  Transient = {}
  HoldAttempts = 1
  MintRaces = FALSE
  QuickRestart = TRUE
  WalkFirst = TRUE
  MaxBlob = 1
  MaxNode = 3
  MaxCall = 3
  MaxForeign = 0
  MaxFault = 2
  Faults = {"answer", "trash twin"}
  MaxCrash = 0
SYMMETRY Symmetry
INVARIANTS NothingLeftBehind
CHECK_DEADLOCK FALSE
