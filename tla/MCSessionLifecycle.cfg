SPECIFICATION FairLifecycleSpec
CONSTANTS
    Plans <- MCPlans
    MaxLosses = 1
INVARIANT WaitNotified
INVARIANT NothingLeft
INVARIANT InputAlive
INVARIANT StartAfterStop
PROPERTY StopReturns
