SPECIFICATION Spec
CONSTANTS
  Employees = {e1, e2}
  Responsables = {r1, r2}
  Nil = Nil
  MaxImages = 3
INVARIANTS OpenedRideIsTheDrivers
CHECK_DEADLOCK FALSE
