SPECIFICATION LocalSpec
CONSTANTS
    Clients = {"openai", "claude", "google"}
    None = None
    MinTimeout = 5
    MinBody = 4
    HandWritten <- MCHandWritten
    HandWrittenGlobals <- MCHandWrittenGlobals
    CreateRequests <- MCCreateRequests
    UpdateRequests <- MCUpdateRequests
    ClientRequests <- MCClientRequests
    Orders <- MCOrders
    GlobalChanges <- MCGlobalChanges
    MaxEdits = 2
    Layouts <- MCLayouts
    MaxUserEdits = 2
    MaxCalls = 3
    MaxWriteFailures = 1
    MaxStops = 1
    Addresses = {v1, v2}
    Absent = Absent
    Torn = Torn
    Hidden = Hidden
    Keys = {v1, v2}
    QueueCapacity = 2
    MaxPerMinute = 2
    DedupeWindow = 2
    Minute = 3
    SendTimeout = 1
    DisableCooldown = 4
    Requests = {r1, r2, r3}
    Hosts = {v1, v2}
    Capacity = 1
    LongestLife = 2
    Backoff = 1
    MostAddresses = 2
    Updaters = {v1, v2}
    MaxFailures = 3
    MaxCrashes = 1
SYMMETRY AnyAddress
INVARIANTS UsersFilesKept NotificationsPaced ConnectionsAreOwn
PROPERTIES AnswersAreHonest
CHECK_DEADLOCK FALSE
