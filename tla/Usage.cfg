SPECIFICATION FairSpec
CONSTANTS
    Names = {p, q}
    Requests = {r}
    Handlers = {h}
    MaxRevision = 2
    MaxTotal = 2
INVARIANTS CleanIsDurable EachRequestCountedOnce
PROPERTIES FileNeverRegresses EventuallyDurable
