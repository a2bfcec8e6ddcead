SPECIFICATION SessionSpec
CONSTANTS
    Tabs = {t1}
    NoSession = NoSession
    MaxSessions = 2
    MaxLoads = 2
INVARIANTS LoggedOutStaysOut
CHECK_DEADLOCK FALSE
