SPECIFICATION FairSpec
CONSTANTS
    Requests = {r1, r2, r3}
    FailureThreshold = 2
    SuccessThreshold = 2
    OpenTimeout = 2
    HalfOpenMaxInFlight = 2
    DefaultOpenTimeout = 3
INVARIANTS ProbesAccounted PeekAgreesWithAllow
PROPERTY ClosesAfterRecovery
