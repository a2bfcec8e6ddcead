SPECIFICATION Spec
CONSTANTS
    Sessions = {s1, s2}
    Numbers = {n1, n2}
    NoNumber = NoNumber
    Cooldown = 1
    CodeLife = 1
    Hour = 2
    MaxPerAccount = 1
    MaxPerNumber = 1
    MaxAttempts = 2
    CodeCount = 1
    MaxMade = 2
    MaxTime = 2
SYMMETRY Interchangeable
INVARIANTS RecoveryCodeWorksOnce SecretWorksOnce OnlyTheLastIsLive LimitsKept NumberAnswered
CHECK_DEADLOCK FALSE
