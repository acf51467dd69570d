SPECIFICATION FairSpec
CONSTANTS
  MaxReplies = 3
  MaxWrites = 3
INVARIANTS TypeOK HeardAsSent OneWriteAtATime NeverBlocks FinishedOnce
PROPERTIES ChannelSpec EndIsNoticed
CHECK_DEADLOCK FALSE
