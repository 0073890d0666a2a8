SPECIFICATION Spec
CONSTANTS
  Handlers = 6
  MaxRetry = 20
  Environments <- AllEnvironments
INVARIANT ConnectionReleased
CHECK_DEADLOCK FALSE
