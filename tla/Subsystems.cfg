SPECIFICATION SubSpec
CONSTANTS
    Programs <- SomePrograms
    Instances = {"uart0", "uart1"}
    MaxCalls = 3
    MaxMessages = 1
    MaxDrops = 1
INVARIANTS EveryHandlerHears DeviceHearsCalls PinsExactlyOnce ReadsOwnWrites
PROPERTY PinsAnswered
CHECK_DEADLOCK FALSE
