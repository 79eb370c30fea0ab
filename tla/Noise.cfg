SPECIFICATION NoiseSpec
CONSTANTS
    Devices <- AllDevices
    PskOfClient = "k"
    ExpectedName = "dev"
    Base = 2
    HeaderLen = 1
    TagLen = 1
    PayloadLens = {0, 1}
    MaxSent = 2
INVARIANT ReadyMeansAgreed
PROPERTIES NoiseImplementsChannel HandshakeSettles EveryMessageDecrypted
CHECK_DEADLOCK FALSE
