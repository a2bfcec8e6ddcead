SPECIFICATION Spec
CONSTANTS
    Sweeps = {w1}
    Sessions = {s1}
    Batch = 3
    Remembered = 2
    SameInstant = FALSE
    MaxFailures = 2
    MaxEnded = 2
    MaxAged = 1
    MaxRestarts = 1
    None = None
INVARIANTS FailureWrittenOnce NothingBehindTheMark LogoutSaysSo
PROPERTIES Mirrored
CHECK_DEADLOCK FALSE
