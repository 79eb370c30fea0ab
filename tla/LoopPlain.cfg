CONSTANTS
  TimerIds = {1, 2, 3}
  Messages = {"NoiseHello", "Hello", "Auth", "Ping", "Pong", "DisconnectRequest", "DisconnectResponse", "App"}
  Encrypted = FALSE
  Login = TRUE
  Keepalive = TRUE
  MaxQueue = 1

SPECIFICATION LoopSpec
CHECK_DEADLOCK FALSE

INVARIANTS
  IndInv
PROPERTIES
  PongWaitEnds
  AttemptSettles
