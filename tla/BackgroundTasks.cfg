CONSTANTS
  Task = {t1, t2}
  Worker = {w1, w2}
  MaxQueued = 1
  NoTask = NoTask
SPECIFICATION FairSpec
INVARIANTS
  TypeOK
  AtMostOnce
  RejectedNeverRuns
  NoStuckRecord
PROPERTIES
  TerminalKept
  Settles
