SPECIFICATION UnionSpec
CONSTANTS
  Thread = {t1, t2}
  Leader = t1
  Sig = {9, 18, 20}
  UserMask = {{9, 18}}
  Disposition <- Handlers
  IsInit = FALSE
  AltStack = {}
  Faults = FALSE
  MaxSends = 2
  reader1 = reader1  reader2 = reader2  t1 = t1  t2 = t2
INVARIANTS
  SignalsAnswered
  ContextKept
  
  StartsExact
  InputExact
  ConfigExact
PROPERTIES
  ExecAlone
  SequencesRestart
CHECK_DEADLOCK FALSE
