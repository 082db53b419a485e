SPECIFICATION Spec
CONSTANTS
  A = A
  B = B
  mainA = mainA
  jobA = jobA
  mainB = mainB
  Node = {A, B}
  Step = {s1, s2}
  Thread = {mainA, jobA, mainB}
  NodeOf <- MCNodeOf
  Agent = {mainA, jobA}
  Server = {mainA, mainB}
  ResumeLimit = 1
  MaxCalls = 3
  MaxPackages = 1
  MaxCrashes = 1
INVARIANTS
  TypeOK
  CompletedWasRun
  OkMeansImported
PROPERTIES
  ImplementsBoard
CHECK_DEADLOCK FALSE
