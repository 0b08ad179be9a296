SPECIFICATION FairSpec
CONSTANTS
  x1 = x1
  Session = {x1}
  Stream = {s1, s2}
  Worker = {w1}
  NoStream = NoStream
  NoWorker = NoWorker
  SessionOf <- OneSession
  Admits <- LiveTrouble
  MaxStalls = 1
PROPERTIES  LockReturned
CHECK_DEADLOCK FALSE
