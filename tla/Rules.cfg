SPECIFICATION Spec
CONSTANTS
    MaxCooldown = 100
    ShortBusyWait = 3
    MaxOAuthCooldown = 200
    GeminiModels = {"gemini-pro"}
    None = None
    Above200K = 3
    Above272K = 5
    StreamLength = 5
    PathLength = 3
INVARIANTS RefusalsUnderstood StreamCutExact RouteIsStable EveryTokenPricedOnce PlansStay EachGetsItsOwn
