CONSTANTS
  Branch = {b1, b2}
  Root = b1
  NoBranch = NoBranch
  Task = {1, 2}
  Own = {3}
  Chosen = {"active", "completed"}
  Copies = FALSE
  MaxActs = 4
  MaxFaults = 0
SPECIFICATION Spec
INVARIANT ChecksAreKept
CHECK_DEADLOCK FALSE
