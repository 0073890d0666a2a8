SPECIFICATION Spec
CONSTANTS
  Instance = {i1}
  Foreign = {}
  Request = {r1}
  OutOfProcess = TRUE
  Null = Null
INVARIANT CallsThroughLiveObject
