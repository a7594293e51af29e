SPECIFICATION Spec
INVARIANTS
  
  StorageConsistent
  CrashSafe
PROPERTY
  ImplementsStorage
CHECK_DEADLOCK FALSE
