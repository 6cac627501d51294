SPECIFICATION FairRefreshSpec
CONSTANTS
    Callers = {c1, c2}
    NoCaller = NoCaller
    MaxLines = 2
    MaxGen = 1
    MaxImports = 1
    MaxDeletes = 1
INVARIANTS ImportStands
PROPERTIES RotationKept NoStepBack EveryCallerReturns ImportEnds
