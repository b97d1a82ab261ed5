SPECIFICATION Spec
CONSTANTS
  Files = {f, g}
  Workers = {w, v}
  Names = {a, b}
  Transient = {}
  HoldAttempts = 1
  MintRaces = FALSE
  QuickRestart = TRUE
  WalkFirst = TRUE
  MaxBlob = 1
  MaxNode = 3
  MaxCall = 3
  MaxForeign = 1
  MaxFault = 1
  Faults = {"send", "readback", "trash"}
  MaxCrash = 0
SYMMETRY Symmetry
INVARIANTS Inv ScratchInv QuietHolds LeftHolds
CHECK_DEADLOCK FALSE
