CONSTANTS
  MaxFramePayload = 40
  Types = {128, 268435455}
  SenderFields <- MCSenderFields
  ReaderFields <- MCReaderFields
  Messages <- MCMessages
  Payloads <- MCPayloads
  MaxFrames = 2
  MaxChunk = 6

SPECIFICATION StreamSpec
CHECK_DEADLOCK FALSE

INVARIANTS
  MessagesDecoded

PROPERTIES
  ImplementsChannel
  EveryFrameDelivered
