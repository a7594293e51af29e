SPECIFICATION Spec
CONSTANTS
  User = {u1, u2}
  Kthread = {k1}
  idle_task = idle
  kernel_pc = kpc
INVARIANTS
  RunnableReachable
