SPECIFICATION SystemSpec
CONSTANTS
  Instance = {i1, i2}
  Observer = {s1, s2}
  Sink = {s1, s2}
  Thread = {t1, t2}
  MaxEvents = 1
  Handlers = 2
  MaxRetry = 1
  Null = Null
INVARIANTS ActivationComplete DeactivationComplete SinkAlive NoCircularWait
PROPERTIES PartsKept ServiceKept TransitionAdvances TransitionsEnd
ACTION_CONSTRAINT FixedNames
