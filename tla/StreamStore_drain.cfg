SPECIFICATION Spec
CONSTANTS
  Client = {c1}
  MaxEvents = 2
  MaxDrops = 0
  MaxExpiries = 0
INVARIANT DrainsFinalEvent
CHECK_DEADLOCK FALSE
