SPECIFICATION Spec
CONSTANTS
  Drivers = {d1}
  Passengers = {p1}
  NumSlots = 1
  Empty = Empty
  NoDoc = NoDoc
  Nobody = Nobody
  MaxPending = 2
  MaxLookups = 1
  MaxAway = 2
PROPERTIES RequestReachesTheDriver
