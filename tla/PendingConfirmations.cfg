CONSTANTS
  Session = {k1, k2}
  Order = {o1, o2, o3}
  Slot = {s1, s2}
  Gaps = 2
  Ttl = 1
  MaxClock = 2
  MaxTurns = 4
  MaxCrashes = 1
  NoFile = NoFile
  Torn = Torn
  NoSession = NoSession
  Nothing = Nothing
SPECIFICATION Spec
CHECK_DEADLOCK FALSE
SYMMETRY Symmetry
INVARIANTS
  TypeOK
  QuestionKept
  AnswersOpenQuestion
  AnsweredOnce
