CONSTANTS
  Instruction = {i1, i2, i3}
  Loop = {l1, l2}
  MaxDepth = 2
  MaxParallel = 1
  NoLoop = NoLoop
  NoInstruction = NoInstruction
SPECIFICATION Spec
PROPERTIES
  CollectedIdle
CHECK_DEADLOCK FALSE
