CONSTANTS
  Addresses = {1, 3}
  Handles = {1}
  AddressSpan = 4
  Batches = 2
  MaxCalls = 3
  MaxInbox = 1

SPECIFICATION GattSpec
CHECK_DEADLOCK FALSE

INVARIANTS
  EachDoneOnce
  NoDoneForgotten
  ResultIsForTheCall
  ServicesInOrder
