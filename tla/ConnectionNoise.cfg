CONSTANTS
  TimerIds = {1, 2, 3, 4}
  Messages = {"NoiseHello", "Hello", "Auth", "Ping", "Pong", "DisconnectRequest", "DisconnectResponse", "App"}
  Encrypted = TRUE
  Login = FALSE
  Keepalive = TRUE
  MaxQueue = 2

SPECIFICATION Spec
CHECK_DEADLOCK FALSE

INVARIANTS
  TypeOK
  KeepaliveWatches
  OnePingTimer
  DeadlineGuardsAttempt
  ReadPumpRuns
  WritesSerialised
  ClosedIsReleased
  HandshakeComesFirst
