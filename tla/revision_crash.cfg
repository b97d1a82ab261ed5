SPECIFICATION Spec
CONSTANTS
  Files = {f1}
  Workers = {w1}
  MaxBlob = 2
  MaxRev = 4
  MaxForeign = 1
  MaxCrash = 1
  MaxFault = 1
  Faults = {"refuse", "enqueue", "check", "fill", "copy", "send", "trash", "answer", "readback"}
  Wholeness = {TRUE, FALSE}
CHECK_DEADLOCK FALSE
INVARIANTS
  NothingLost
  QueuedBytesStaged
  PendingReadable
  ReadsOwnWrites
PROPERTIES
  OlderNeverOverNewer
  KeepsPromise
