SPECIFICATION FairSpec
CONSTANTS
  Tasks = {t1, t2}
  Sessions = {s1, s2}
  NoSession = NoSession
  Operations = {"init", "request", "update", "refresh", "test", "auto", "external", "remove"}
  AddedAtRuntime = FALSE
INVARIANTS SingleFlight RecoveryPublishes
PROPERTIES StagedStaysDown TokenKeepsPair GuardReleased WaitersReturn
CHECK_DEADLOCK FALSE
