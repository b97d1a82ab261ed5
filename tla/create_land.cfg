SPECIFICATION Spec
CONSTANTS
  Files = {f, g}
  Workers = {w, v}
  Names = {a, b}
  Transient = {}
  HoldAttempts = 1
  MintRaces = FALSE
  QuickRestart = TRUE
  WalkFirst = TRUE
  MaxBlob = 1
  MaxNode = 3
  MaxCall = 4
  MaxForeign = 1
  MaxFault = 0
  Faults = {}
  MaxCrash = 0
SYMMETRY Symmetry
CONSTRAINT FourTouches
INVARIANTS OneFilePerNode OnlyOurs WritesKept NamesKept
CHECK_DEADLOCK FALSE
