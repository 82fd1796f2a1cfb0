CONSTANTS
  Key = {k1, k2}
  Trailing = {k1}
  MaxEvents = 4
SPECIFICATION FairSpec
INVARIANTS
  NothingForgotten
PROPERTIES
  NoOverlap
  EventuallySeen
CHECK_DEADLOCK FALSE
