SPECIFICATION Spec
CONSTANTS
  x1 = x1
  Session = {x1}
  Stream = {s1, s2}
  Worker = {w1, w2}
  NoStream = NoStream
  NoWorker = NoWorker
  SessionOf <- OneSession
  Admits <- Trouble
  MaxStalls = 1
SYMMETRY Symmetric
INVARIANTS TypeOK HoldsLock Exclusive OneTerminal HasCustodian
PROPERTIES ClosedIsFinal ImplementsSessionRuns
CHECK_DEADLOCK FALSE
