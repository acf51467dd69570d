SPECIFICATION FairSpec
CONSTANTS
  Employees = {e1, e2}
  Responsables = {r1, r2}
  Nil = Nil
  MaxImages = 3
INVARIANTS TypeOK RowsAreTheMatches EmployeesAreComplete
PROPERTIES ListIsShown
CHECK_DEADLOCK FALSE
