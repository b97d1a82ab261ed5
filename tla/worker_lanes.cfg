SPECIFICATION FairSpec
CONSTANTS
    Reserved = {m}
    General = {g}
    Callers = {c, d}
    MetaJobs = {a, b}
    TransferJobs = {s, t}
INVARIANT NoLostWakeup
PROPERTIES MetaServed StopReturns EveryJobRuns
CHECK_DEADLOCK FALSE
