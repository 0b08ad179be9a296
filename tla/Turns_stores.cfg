CONSTANTS
    MaxScheduleJobs = 3
    MaxScheduleFaults = 2
    Stager = {s1, s2}
    Delivery = {d1, d2}
    Edit = {e1}
    NoEdit = noEdit
    NoDelivery = noDelivery
    Item = {i1, i2}
    MaxRuns = 2
    MaxUpsets = 1
    NoItem = noItem
    Image = {m1}
    Snippet = snippet
    Ask = {q1, q2}
    NoAsk = noAsk
    MaxPins = 3
    MaxToolCalls = 2
    MaxSlice = 4
    MaxWall = 8
SPECIFICATION Spec
INVARIANTS
    TurnTypeOK
    ScheduleArmed 
    EditHandedOnce RunsAfterOwnConsume OrderlyEndHoldsNoClaim
     SteeredOncePerRun
     RefusedGivesBack
    StoppedHasNoOutput FewWaits
PROPERTY SettledPolicyIsFinal
CHECK_DEADLOCK FALSE
