CONSTANTS
  Request = {q1}
  Emission <- TimerOrReplies
  MaxRevision = 3
  MaxSessions = 2
  MaxEffects = 2
  MaxRetries = 1
  MaxCrashes = 1
SPECIFICATION FairSpec
INVARIANTS
  AnswersAreTrue
  NoSilentRerun
  RunningIsRun
  TicksHitTheirMoment
  ResultsAreAccountedFor
PROPERTIES ImplementsLedger EffectsSettle
CHECK_DEADLOCK FALSE
