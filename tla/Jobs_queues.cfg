CONSTANTS
    Pass = {p1, p2, p3}
    MaxMessages = 2
    MaxDelta = 1
    MaxReconsider = 1
    MaxProfileFaults = 1
    MaxVersions = 2
    MaxRequests = 3
    MaxTroubles = 1
SPECIFICATION Spec
SYMMETRY Passes
INVARIANTS
    JobsTypeOK
     QuietMeansDone
    
     GoodVersionKept SiteSettles
CHECK_DEADLOCK FALSE
