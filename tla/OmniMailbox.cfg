SPECIFICATION FairSpec
CONSTANTS
  daemon = daemon
  shell = shell
  chat = chat
  Process = {daemon, shell}
  Session = {chat}
  NoSession = NoSession
  Message <- MCMessage
  MaxRows = 2
  MaxFaults = 1
  Daemon = daemon
  Limit = 2
  Remember = 2
  Keep = 1
  MaxEmits = 2
INVARIANTS
  TypeOK
  AtMostOnce
  ClaimedIsHeld
  ProcessedWasAnswered
  NothingForgotten
PROPERTIES
  SessionInOrder
  Delivered
CHECK_DEADLOCK FALSE
