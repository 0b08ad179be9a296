CONSTANTS
    Request = {r1, r2}
    Source = source
    NoOne = noOne
    MaxResends = 0
SPECIFICATION Spec
INVARIANT OneJob
CHECK_DEADLOCK FALSE
