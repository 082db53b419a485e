CONSTANTS
  Task = {t1, t2}
  Worker = {w1}
  MaxQueued = 1
  NoTask = NoTask
SPECIFICATION Spec
PROPERTIES
  ColdStartRecovers
