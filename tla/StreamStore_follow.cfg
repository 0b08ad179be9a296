SPECIFICATION FairSpec
CONSTANTS
  Client = {c1, c2}
  MaxEvents = 3
  MaxDrops = 2
  MaxExpiries = 1
INVARIANTS TypeOK InOrder NoGap MarkerLast
PROPERTY FollowersFinish
CHECK_DEADLOCK FALSE
