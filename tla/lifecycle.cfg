SPECIFICATION FairSpec
CONSTANTS
  Instance = {i1, i2}
  Foreign = {f1}
  Request = {r1}
  OutOfProcess = TRUE
  Null = Null
INVARIANTS TypeOK InitializeAsserts ShellAccounting QuiescentClean TerminatedUnreferenced NoSpuriousJob
PROPERTIES NoticeKept ActivationReturns CrashHandled
