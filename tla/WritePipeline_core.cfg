SPECIFICATION FairSpec
CONSTANTS
  Users = {u1, u2}
  MaxPendingWrites = 2
  MaxWrites = 3
  MaxCloses = 2
  MaxDisturbances = 1
INVARIANTS
  TypeOK PipelineIsPrefix AnswersFollowPipeline NoWriteIsForgotten
  AssertionsHold CallbacksTellTheTruth AcknowledgedStays
PROPERTIES PromiseSpec WritesAreResolved
CHECK_DEADLOCK FALSE
