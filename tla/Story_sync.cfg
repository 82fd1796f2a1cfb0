CONSTANTS
  Branch = {b1, b2}
  Root = b1
  NoBranch = NoBranch
  Task = {1, 2}
  Own = {3}
  Chosen = {"active", "completed"}
  Copies = TRUE
  MaxActs = 4
  MaxFaults = 1
SPECIFICATION Spec
INVARIANTS
  Agree
  FollowsActive
  PlanReachesTracker
PROPERTY FollowBackIsNarrow
CHECK_DEADLOCK FALSE
