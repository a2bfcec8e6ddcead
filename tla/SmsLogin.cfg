SPECIFICATION Spec
CONSTANTS
    r1 = r1
    r2 = r2
    Requests = {r1, r2}
    Flows = {"browser", "grant"}
    Cooldown = 2
    Window = 5
    Lifetime = 3
    MaxInWindow = 2
    MaxCodes = 4
    MaxTime = 7
    BusyTime = 2
INVARIANTS TypeOK BudgetKept OneGuessPerCode
PROPERTIES LatestMessageOnly
CONSTRAINT ShortWhenBusy
SYMMETRY RequestSymmetry
CHECK_DEADLOCK FALSE
