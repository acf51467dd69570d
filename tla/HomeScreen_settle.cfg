SPECIFICATION Spec
CONSTANTS
  Days = {Seg, Ter, Qua}
  FirstDay = Seg
  Periods = {manha, tarde}
  Nil = Nil
  Loads = {l1, l2}
  MayFail = FALSE
INVARIANTS CardsSettle
CHECK_DEADLOCK FALSE
