SPECIFICATION Spec
CONSTANTS
    Files = {f}
    Present = {f}
    MaxEvents = 1
    MaxOwn = 0
    Faults = {"sdk"}
    MaxFault = 1
INVARIANT RetryApplies
CHECK_DEADLOCK FALSE
