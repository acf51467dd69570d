SPECIFICATION FairSpec
CONSTANTS
  Requests = {r1, r2}
  Loads = {l1, l2}
  MayFail = TRUE
INVARIANTS TypeOK SettledListIsComplete
PROPERTIES TabSettles
CHECK_DEADLOCK FALSE
