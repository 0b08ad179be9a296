CONSTANTS
    Item = {i1, i2}
    MaxRuns = 2
    MaxUpsets = 1
    NoItem = noItem
SPECIFICATION QueueSpec
INVARIANT InflightIsWaitedFor
CHECK_DEADLOCK FALSE
