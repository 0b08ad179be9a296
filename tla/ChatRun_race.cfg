SPECIFICATION Spec
CONSTANTS
  x1 = x1
  Session = {x1}
  Stream = {s1, s2}
  Worker = {w1}
  NoStream = NoStream
  NoWorker = NoWorker
  SessionOf <- OneSession
  Admits <- CrashAndFail
  MaxStalls = 1
INVARIANT ReleaseOwnOnly
CHECK_DEADLOCK FALSE
