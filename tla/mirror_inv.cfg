SPECIFICATION Spec
CONSTANTS
  Paths = {a, b}
  Others = 0
  Windows = {}
  MaxVersion = 3
  MaxRev = 3
  MaxForeign = 1
  MaxFault = 1
  Faults = {"unmounted", "unreadable", "list", "short", "empty", "fetch", "remove", "trash",
            "check", "send", "answer", "readback", "crash"}
INVARIANT Inv
CHECK_DEADLOCK FALSE
