SPECIFICATION UnionSpec
CONSTANTS
  Reader = {r1}
  Writer = {w1, w2}
  NoTask = NoTask
  PIPE_SIZE = 2
  SYS_FILE_BUF_SIZE = 1
  ReadLens = {1, 2}
  WriteLens = {2, 4}
INVARIANTS
  PathsResolve
  
  
  
  EndsAnswered
  SmallWritesWhole
PROPERTIES
  ImplementsByteQueue
CHECK_DEADLOCK FALSE
