SPECIFICATION FairSpec
CONSTANTS
  Handlers = 6
  MaxRetry = 20
  Environments <- AllEnvironments
INVARIANTS TypeOK AllOrNothing OwnConnectionReleased
PROPERTIES OthersKeepConnection SessionAdvances ConfigureReturns
CHECK_DEADLOCK FALSE
