SPECIFICATION SyncSpec
CONSTANTS
    Entities = {"lamp", "relay"}
    MaxCalls = 5
    MaxDrops = 2
INVARIANT NoHandlerOutlivesItsCall
CHECK_DEADLOCK FALSE
