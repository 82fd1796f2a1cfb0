CONSTANTS
  MaxJobs = 3
  Message = {m1}
  NoMessage = NoMessage
  MaxOrdinary = 1
  MaxRestarts = 1
  MaxMisreads = 1
SPECIFICATION FairSpec
INVARIANTS
  RunningHasExecutor
  CancelHolds
  StopsOnlyItsJob
PROPERTIES
  ImplementsLedger
  CancelBeatsGeneration
  EveryJobSettles
CHECK_DEADLOCK FALSE
