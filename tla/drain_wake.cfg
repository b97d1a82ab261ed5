SPECIFICATION FairSpec
CONSTANTS
  mkdir = mkdir
  create = create
  rename = rename
  upload = upload
  Ops = {mkdir, create}
  Workers = {w1, w2}
  Node <- MCNode
  Folder <- MCFolder
  Polls = FALSE
  MayExpire = FALSE
  MayStop = FALSE
  MaxQueued = 2
  MaxFail = 0
  MaxPause = 1
  MaxRetry = 0
  MaxDbFault = 0
INVARIANT NoLostWakeup
PROPERTY EveryOpDrains
CHECK_DEADLOCK FALSE
