SPECIFICATION FairSpec
CONSTANTS
  Files = {f}
  Workers = {w}
  Names = {a, t}
  Transient = {t}
  HoldAttempts = 1
  MintRaces = FALSE
  QuickRestart = TRUE
  WalkFirst = TRUE
  MaxBlob = 2
  MaxNode = 3
  MaxCall = 3
  MaxForeign = 0
  MaxFault = 2
  Faults = {"inline", "answer", "send", "readback", "trash"}
  MaxCrash = 1
INVARIANTS NothingLeftBehind TreeFollows NoScratchUploaded
PROPERTY EveryCreateSettles
CHECK_DEADLOCK FALSE
