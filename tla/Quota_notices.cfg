CONSTANTS
  Full = 4
  Hysteresis = 2
  DropPoints = 2
  Windowed = {w1}
  Balance = {}
  NoAdapter = NoAdapter
  TwoStep = {}
  Key = {k1}
  NoKey = NoKey
  Config <- Notify
  Used = {0, 2, 3}
  Boundary = {1, 2}
  MaxTime = 4
  MaxRearms = 1
  MaxInFlight = 2
  MaxEdits = 1
  MaxCrashes = 1
  MaxStops = 0
  StoreMayFail = TRUE
SPECIFICATION Spec
INVARIANT LatchedMeansTold
PROPERTY NoNagging
CHECK_DEADLOCK FALSE
