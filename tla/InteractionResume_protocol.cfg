CONSTANTS
    Request = {r1, r2, r3}
    Source = source
    NoOne = noOne
    MaxResends = 1
SPECIFICATION Spec
INVARIANTS TypeOK AnsweredOnce AnswerWasQueued LockHasUser
PROPERTY SettledStays
CHECK_DEADLOCK FALSE
