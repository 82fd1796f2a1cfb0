CONSTANTS
  Request = {q1}
  Emission <- TimerOrReplies
  MaxRevision = 2
  MaxSessions = 1
  MaxEffects = 2
  MaxRetries = 0
  MaxCrashes = 0
SPECIFICATION Spec
PROPERTY ScriptSeatsAreAsked
CHECK_DEADLOCK FALSE
