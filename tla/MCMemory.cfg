SPECIFICATION Spec
CONSTANTS
  m1 = m1  m2 = m2  small = small  big = big
INVARIANTS
  SpaceConsistent
  AllocationsExact
PROPERTIES
  
  ImplementsPageMap
CHECK_DEADLOCK FALSE
