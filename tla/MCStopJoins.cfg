SPECIFICATION LifecycleSpec
CONSTANTS
    Plans <- MCPlans
    MaxLosses = 1
INVARIANT AudioJoined
