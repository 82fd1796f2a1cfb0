CONSTANTS
  Variant = {1}
  Request = {g1}
  Filler = filler
  NoGen = NoGen
  Settled = Settled
  Schema = {"one"}
  MaxActs = 2
  MaxFaults = 0
SPECIFICATION Spec
INVARIANT JobIsActive
CHECK_DEADLOCK FALSE
