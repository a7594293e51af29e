SPECIFICATION WaitSpec
CONSTANTS
  Task = {t1, t2}
  Channel = {c1, c2}
  Broadcast = {c1}
  Idle = idle
  t1 = t1  t2 = t2  c1 = c1
SYMMETRY Symmetry
INVARIANTS
  WaitsExact
  NotAsleepThrough
CHECK_DEADLOCK FALSE
