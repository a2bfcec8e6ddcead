SPECIFICATION Spec
CONSTANTS
    Sessions = {s1}
    Users = {u1, u2}
    NoOne = NoOne
    Awards = {2}
    Amounts = {1}
    Day = 1
    Month = 2
    DailyLimit = 1
    MonthlyLimit = 2
    Never = 9
    MaxRows = 5
    MaxAsks = 2
    MaxTime = 1
SYMMETRY Interchangeable
INVARIANTS DailyLimitKept
CHECK_DEADLOCK FALSE
