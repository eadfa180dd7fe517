SPECIFICATION FairSpec
CONSTANTS
  Key = {"k", "l"}
  Version = {"a", "b"}
  Capacity = 1
  MaximumPayload = 6
  Unit = 2
  MaximumHoles = 4
  Timeout = 1
INVARIANT TableOK
INVARIANT HolesAreMissingBytes
INVARIANT FirstArrivalWins
INVARIANT DeliveredIsReceived
PROPERTY EverySlotIsFreed
