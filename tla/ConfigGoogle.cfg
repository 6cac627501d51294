SPECIFICATION Spec
CONSTANTS
    Clients = {"google"}
    None = None
    MinTimeout = 5
    MinBody = 4
    HandWritten <- MCHandWritten
    HandWrittenGlobals <- MCHandWrittenGlobals
    CreateRequests <- MCCreateRequests
    UpdateRequests <- MCUpdateRequests
    ClientRequests <- MCClientRequests
    Orders <- MCOrders
    GlobalChanges <- MCGlobalChanges
    MaxEdits = 1
PROPERTIES ThinkingLevelIsTaken
CHECK_DEADLOCK FALSE
