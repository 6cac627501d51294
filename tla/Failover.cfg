SPECIFICATION Spec
CONSTANTS
    c1 = c1
    c2 = c2
    Requests = {c1, c2}
    NumProviders = 2
    NumKeys <- MCNumKeys
    Scopes = {"default", "responses"}
    ScopeOf <- MCScopeOf
    Capable <- MCCapable
    HintsOf <- MCHintsOf
    ReactivateAfter = 2
    Cooldowns = {0, 2}
    BusyDelays <- OneDelay
    MaxInlineWait = 1
    BusyProbeMax = 1
    SendsOf <- MCSendsOf
    Leavers = {c1}
    FailureThreshold = 1
    SuccessThreshold = 1
    OpenTimeout = 1
    HalfOpenMaxInFlight = 1
    DefaultOpenTimeout = 1
INVARIANTS NoDeadEnd GivesUpLast QuietMeansRecovered
PROPERTIES PenaltyStands
