SPECIFICATION Spec
CONSTANTS
  Instance = {i1, i2}
  Observer = {s1, s2, o1}
  Sink = {s1, s2}
  Thread = {t1, t2}
  MaxEvents = 2
  Null = Null
INVARIANTS TypeOK InstanceAlive RefsBalanced CalledReferenced
PROPERTY BroadcastInOrder
CHECK_DEADLOCK FALSE
