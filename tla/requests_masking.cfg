SPECIFICATION Spec
CONSTANTS
  Caller = {t1}
  Calls <- StatusCalls
  Items <- Empty
  None = None
INVARIANT MaskedPayloadsHidden
