SPECIFICATION Spec
CONSTANTS
  Instance = {i1}
  Foreign = {}
  Request = {}
  OutOfProcess = TRUE
  Null = Null
INVARIANT CrashNoticed
