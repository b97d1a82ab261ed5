SPECIFICATION Spec
CONSTANTS
    Files = {f, g}
    Present = {f}
    MaxEvents = 3
    MaxOwn = 2
    Faults = {"sdk", "ack", "duplicate", "swap", "expire", "crash"}
    MaxFault = 1
INVARIANT Inv
SYMMETRY Symmetry
CHECK_DEADLOCK FALSE
