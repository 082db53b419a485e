SPECIFICATION FairTurns
CONSTANTS
  i1 = i1
  i2 = i2
  i3 = i3
  c1 = c1
  c2 = c2
  Instruction = {i1, i2, i3}
  Loop = {l1, l2}
  MaxDepth = 2
  MaxParallel = 1
  NoLoop = NoLoop
  NoInstruction = NoInstruction
  Connection = {c1, c2}
  ConnOf <- MCConnOf
  Chat = Chat
  OtherChat = OtherChat
  Visitor = Visitor
INVARIANTS
  TurnTypeOK
  Fifo
  Concurrency
  HistoryInOrder
  InFlightAccounted
  WaitsAccounted
PROPERTIES
  Drains
CHECK_DEADLOCK FALSE
