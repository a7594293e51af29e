SPECIFICATION MergeSpec
CONSTANTS
  m1 = m1  m2 = m2  small = small  big = big
PROPERTY
  MergeImplementsPageMap
CHECK_DEADLOCK FALSE
