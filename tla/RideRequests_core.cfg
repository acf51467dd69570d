SPECIFICATION FairSpec
CONSTANTS
  Drivers = {d1}
  Passengers = {p1}
  NumSlots = 1
  Empty = Empty
  NoDoc = NoDoc
  Nobody = Nobody
  MaxPending = 3
  MaxLookups = 1
  MaxAway = 1
INVARIANTS
  TypeOK OnlyDriversHoldRequests NoHiddenRequest DriverRequestHasTarget
PROPERTIES BoardSpec InvitationStays RequestIsStored
