SPECIFICATION FairSpec
CONSTANTS
    a = a
    b = b
    Broken = Broken
    Names = {"p", "q"}
    Identities = {a, b}
    Requests = {r}
    EditorConfigs <- MCEditorConfigs
    MaxWrites = 4
    MaxUsage = 1
INVARIANTS DifferenceIsNoticed AppliedBeforeAnswer PlainRenameKeepsUsage
PROPERTIES UsageGoesWithItsProvider EditsTakeEffect
CHECK_DEADLOCK FALSE
