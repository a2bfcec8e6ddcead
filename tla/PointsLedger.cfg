SPECIFICATION Spec
CONSTANTS
    Sessions = {s1, s2}
    Users = {u1, u2}
    NoOne = NoOne
    Awards = {2}
    Amounts = {1, 2}
    Day = 1
    Month = 2
    DailyLimit = 2
    MonthlyLimit = 3
    Never = 9
    MaxRows = 3
    MaxAsks = 1
    MaxTime = 1
SYMMETRY Interchangeable
INVARIANTS TallyIsTheLedger MovedOnce
PROPERTIES SettledWithinWorth
CHECK_DEADLOCK FALSE
