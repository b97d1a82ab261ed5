SPECIFICATION FairSpec
CONSTANTS
  Paths = {a}
  Others = 1
  Windows = {}
  MaxVersion = 4
  MaxRev = 7
  MaxForeign = 1
  MaxFault = 1
  Faults = {"unmounted", "unreadable", "list", "short", "empty", "fetch", "remove", "trash",
            "check", "send", "answer", "readback", "crash"}
INVARIANTS NoEditLost SyncedMeansSame
PROPERTIES OnlyRealDeletes Converges
