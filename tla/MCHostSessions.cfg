CONSTANTS
    Endpoints = {e1, e2}
    Limit = 3
    MaxSessions = 4
    NoEndpoint = NoEndpoint
    NoSession = NoSession
SPECIFICATION SessionsSpec
INVARIANT ClientLimit
INVARIANT InitializingTracked
INVARIANT ApprovedIsServed
SYMMETRY MCSymmetry
CHECK_DEADLOCK FALSE
