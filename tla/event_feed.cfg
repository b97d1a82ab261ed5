SPECIFICATION FairSpec
CONSTANTS
    Files = {f, g}
    Present = {f}
    MaxEvents = 3
    MaxOwn = 1
    Faults = {"sdk", "ack", "duplicate", "swap", "expire", "crash"}
    MaxFault = 1
INVARIANTS ListingCurrent
PROPERTIES OwnBytesKept FeedIsRead
CHECK_DEADLOCK FALSE
