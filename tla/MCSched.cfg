SPECIFICATION Spec
CONSTANTS
  Task = {t1, t2, t3}
  idle_task = idle
  HZ = 4
  Watched = t1
SYMMETRY Symmetry
INVARIANTS TypeOK RunqueueExact Bookkeeping
PROPERTIES DispatchBest BoostTotal ImplementsRunSet
CHECK_DEADLOCK TRUE
