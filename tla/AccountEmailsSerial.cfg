SPECIFICATION Spec
CONSTANTS
    Accounts = {u1, u2}
    Addresses = {x, y}
    Sessions = {s1}
    MaxHeld = 2
    None = None
    MaxMade = 3
    MaxTokens = 1
    MaxTime = 2
SYMMETRY Interchangeable
INVARIANTS VerifiedByProof AddressesAgree
PROPERTIES StaleTokenIgnored
CHECK_DEADLOCK FALSE
