SPECIFICATION DeadWorkerSpec
CONSTANTS
  x1 = x1
  Session = {x1}
  Stream = {s1}
  Worker = {w1}
  NoStream = NoStream
  NoWorker = NoWorker
  SessionOf <- OneSession
  Admits <- DeleteTrouble
  MaxStalls = 1
PROPERTY DeleteEnds
CHECK_DEADLOCK FALSE
