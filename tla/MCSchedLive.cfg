SPECIFICATION LiveSpec
CONSTANTS
  Task = {t1, t2, t3}
  idle_task = idle
  HZ = 2
  Watched = t1
PROPERTIES WatchedNotStarved
