SPECIFICATION SessionSpec
CONSTANTS
    Tabs = {t1}
    NoSession = NoSession
    MaxSessions = 3
    MaxLoads = 3
INVARIANTS SessionTypeOK StorageMatches
PROPERTIES LoadingEnds
CHECK_DEADLOCK FALSE
