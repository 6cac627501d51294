CHECK_DEADLOCK FALSE
SPECIFICATION Spec
SYMMETRY AnyOrder
CONSTANTS
    FailureThreshold = 1
    SuccessThreshold = 1
    OpenTimeout = 1
    HalfOpenMaxInFlight = 1
    DefaultOpenTimeout = 1
    ExplicitTTL = 1
    CacheHintTTL = 1
    DynamicFeatureTTL = 1
    ResponseLookupTTL = 1
    DynamicFeatureCapacity = 1
    Slots = {s1, s2}
    MaxReloads = 1
    Requests = {r1, r2}
    ScopeOf <- OneScopeEach
    Configs <- FourConfigs
    Conversations <- ThreeTurns
INVARIANT BindingsFollowTheirProvider
INVARIANT AimsWithinItsProxy
PROPERTY HealthOutlivesReload
PROPERTY OldestFeatureGoesFirst
