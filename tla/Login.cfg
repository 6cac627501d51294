SPECIFICATION Spec
CONSTANTS
    NSessions = 2
    Requests = {r1, r2}
    Identities = {"a"}
    Regions = {"default"}
    FixedPort = TRUE
    FirstStore <- OneAccount
    Scenes <- TwoScenes
INVARIANTS SavedLoginCompletes
PROPERTIES LinksStayApart EveryRequestReturns
CHECK_DEADLOCK FALSE
