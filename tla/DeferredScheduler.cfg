CONSTANTS
  Early = Early
  Late = Late
  Task = {Early, Late}
  Caller = {c1, c2}
  FireAt <- MCFireAt
  Grace = 0
  MaxClock = 3
  MaxEpoch = 2
  MaxCalls = 3
  NoId = NoId
SPECIFICATION FairSpec
INVARIANTS
  TypeOK
  SingleRun
  ScheduleSurvives
  CancelHolds
PROPERTIES
  Fires
CHECK_DEADLOCK FALSE
