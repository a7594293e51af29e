SPECIFICATION UnionSpec
CONSTANTS
  User = {u1, u2}
  Kthread = {k1}
  idle_task = idle
  kernel_pc = kpc
  ALRM = ALRM  USR = USR  Real = Real
INVARIANTS
  Consistent
  NoSleepThroughChild
  DispatchSafe
PROPERTIES
  ExitReportedOnce
  ExpiriesExact
  ClockExact
CHECK_DEADLOCK FALSE
