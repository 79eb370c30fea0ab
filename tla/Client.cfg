SPECIFICATION ClientFairSpec
CONSTANTS
    Configs <- LampRelayVent
    SendsIds = FALSE
    MaxCalls = 4
    MaxChanges = 1
    MaxDrops = 2
INVARIANTS CacheIsCurrent NamedEntityFound
PROPERTY SubscriptionFillsStore
CHECK_DEADLOCK FALSE
