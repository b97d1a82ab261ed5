SPECIFICATION FairSpec
CONSTANTS
  Roots = {p}
  Listers = {l}
  MaxEvents = 2
  Faults = {"omit", "publish", "reload", "list", "apply", "ack", "fetch", "readback"}
  MaxFault = 1
  MaxCrash = 1
INVARIANTS FailClosed DeniedAtOnce
PROPERTIES BlockedReported AccessComesBack
CHECK_DEADLOCK FALSE
