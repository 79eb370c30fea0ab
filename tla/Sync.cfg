SPECIFICATION SyncSpec
CONSTANTS
    Entities = {"lamp", "relay"}
    MaxCalls = 5
    MaxDrops = 2
PROPERTIES ListIsComplete InfoIsOfThisSession NameFollowsInfo CallsEnd
CHECK_DEADLOCK FALSE
