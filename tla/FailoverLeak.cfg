SPECIFICATION Spec
CONSTANTS
    c1 = c1
    c2 = c2
    Requests = {c1, c2}
    NumProviders = 2
    NumKeys <- MCNumKeys
    Scopes = {"default", "responses"}
    ScopeOf <- MCScopeOf
    Capable <- MCCapable
    HintsOf <- MCHintsOf
    ReactivateAfter = 1
    Cooldowns = {0, 1}
    BusyDelays <- OneDelay
    MaxInlineWait = 1
    BusyProbeMax = 1
    SendsOf <- MCSendsOf
    Leavers = {}
    FailureThreshold = 1
    SuccessThreshold = 1
    OpenTimeout = 1
    HalfOpenMaxInFlight = 1
    DefaultOpenTimeout = 1
INVARIANT SkippedProvidersComeBack
