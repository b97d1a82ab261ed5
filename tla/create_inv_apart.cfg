SPECIFICATION Spec
CONSTANTS
  Files = {f}
  Workers = {w, v}
  Names = {a, b}
  Transient = {a}
  HoldAttempts = 1
  MintRaces = TRUE
  QuickRestart = FALSE
  WalkFirst = TRUE
  MaxBlob = 2
  MaxNode = 3
  MaxCall = 2
  MaxForeign = 1
  MaxFault = 2
  Faults = {"inline", "answer", "send", "readback", "trash", "trash twin"}
  MaxCrash = 1
SYMMETRY Symmetry
INVARIANTS Inv ScratchInv KeptInv TrashedGone
CONSTRAINT Apart
CHECK_DEADLOCK FALSE
