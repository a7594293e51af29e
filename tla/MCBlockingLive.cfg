SPECIFICATION LiveSpec
CONSTANTS
  Task = {t1, t2}
  Channel = {c1}
  Broadcast = {c1}
  Idle = idle
  t1 = t1  t2 = t2  c1 = c1
PROPERTIES
  EventuallyEnds
CHECK_DEADLOCK FALSE
