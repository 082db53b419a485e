CONSTANTS
  n1 = n1
  n2 = n2
  n3 = n3
  p1 = p1
  p2 = p2
  p3 = p3
  NoNode = NoNode
  NoToken = NoToken
  Node = {n1, n2}
  Process = {p1, p2}
  ProcOf <- OwnProcess
  Token = {t1, t2, t3, t4}
  Ttl = 2
  MaxTime = 4
SPECIFICATION Spec
PROPERTIES
  NoLiveTakeover
