SPECIFICATION Spec
CONSTANTS
  Caller = {t1, t2}
  Calls <- StatusCalls
  Items <- Empty
  None = None
SYMMETRY Interchangeable
INVARIANTS AnswerIsCurrent ClearOnlyIfReported
