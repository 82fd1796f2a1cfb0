CONSTANTS
  Full = 4
  Hysteresis = 1
  DropPoints = 2
  Windowed = {w1}
  Balance = {b1}
  NoAdapter = NoAdapter
  TwoStep = {w1}
  Key = {k1, k2}
  NoKey = NoKey
  Config <- Display
  Used = {0}
  Boundary = {1}
  MaxTime = 1
  MaxRearms = 0
  MaxInFlight = 2
  MaxEdits = 2
  MaxCrashes = 1
  MaxStops = 1
  StoreMayFail = FALSE
SPECIFICATION FairSpec
INVARIANTS
  KeepsPolling
  DeletedStaysQuiet
PROPERTY EventuallyCurrent
CHECK_DEADLOCK FALSE
