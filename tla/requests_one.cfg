SPECIFICATION Spec
CONSTANTS
  Caller = {t1}
  Calls <- AllCalls
  Items <- Lengths
  None = None
INVARIANTS TypeOK SuccessIsCtrlms ListsWithinLimits CacheIsLatest
