CONSTANTS
  Key = {k1}
  Run = {r1, r2}
  Sub = {s1}
  Kind = {"error", "abort", "ask"}
  MaxEvents = 2
  NoKey = NoKey
  NoRun = NoRun
SPECIFICATION FairSpec
INVARIANTS
  NoticesTellTheTruth
  ExactReplay
  NoLostWakeup
  EndAfterWholeLog
PROPERTIES
  ImplementsSlot
  SubscriberSettles
CHECK_DEADLOCK FALSE
