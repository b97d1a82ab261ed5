SPECIFICATION FairSpec
CONSTANTS
  mkdir = mkdir
  create = create
  rename = rename
  upload = upload
  Ops = {upload}
  Workers = {w1, w2}
  Node <- MCNode
  Folder <- MCFolder
  Polls = FALSE
  MayExpire = TRUE
  MayStop = TRUE
  MaxQueued = 1
  MaxFail = 1
  MaxPause = 0
  MaxRetry = 1
  MaxDbFault = 1
INVARIANT ClaimsHaveWorkers
PROPERTY EveryOpDrains
PROPERTY StopEnds
PROPERTY IdleWorkersRest
CHECK_DEADLOCK FALSE
