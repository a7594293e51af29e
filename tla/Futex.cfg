SPECIFICATION Spec
CONSTANTS
  Thread = {f1, f2, f3}
  Leader = f1
  Lock = Lock
  None = None
  Bit = {1, 2}
INVARIANTS
  LocksAndJoins
CHECK_DEADLOCK FALSE
