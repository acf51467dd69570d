SPECIFICATION FairSpec
CONSTANTS
  Days = {Seg, Ter, Qua}
  FirstDay = Seg
  Periods = {manha, tarde}
  Nil = Nil
  Loads = {l1, l2}
  MayFail = TRUE
INVARIANTS TypeOK RowsHaveRides AtMostOneSelected PatientUserSeesItsDay
PROPERTIES SpinnerStops
CHECK_DEADLOCK FALSE
