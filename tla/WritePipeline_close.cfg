SPECIFICATION Spec
CONSTANTS
  Users = {u1, u2}
  MaxPendingWrites = 2
  MaxWrites = 3
  MaxCloses = 2
  MaxDisturbances = 1
INVARIANTS GracefulStopIsDesirable
CHECK_DEADLOCK FALSE
