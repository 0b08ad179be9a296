SPECIFICATION DeadWorkerSpec
CONSTANTS
  x1 = x1
  Session = {x1}
  Stream = {s1}
  Worker = {w1}
  NoStream = NoStream
  NoWorker = NoWorker
  SessionOf <- OneSession
  Admits <- OneCrash
  MaxStalls = 1
PROPERTY NeverHangs
CHECK_DEADLOCK FALSE
