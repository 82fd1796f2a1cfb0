CONSTANTS
  Entry = {exe, web}
  Exe = exe
  NoEntry = NoEntry
  MaxSwaps = 3
  MaxCommands = 3
  MaxDeaths = 1
SPECIFICATION Spec
INVARIANTS
  VerdictIsTrue
  NothingIsLost
  WayBackIsGuarded
  RollbackIsWhole
CHECK_DEADLOCK FALSE
