CONSTANTS
  Variant = {1, 2}
  Request = {g1, g2}
  Filler = filler
  NoGen = NoGen
  Settled = Settled
  Schema = {"one", "two"}
  MaxActs = 3
  MaxFaults = 1
SPECIFICATION FairSpec
INVARIANTS
  Accounts
  Joinable
PROPERTIES
  CommitsAreFresh
  StopsWhenTold
  EveryRunEnds
CHECK_DEADLOCK FALSE
