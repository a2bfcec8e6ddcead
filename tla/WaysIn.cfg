SPECIFICATION Spec
CONSTANTS
    Aliases = {google, facebook}
    Passkeys = {key}
    Devices = {d1, d2}
    MaxPasswords = 2
    MaxEmails = 2
    Callers = {c1, c2}
    None = None
    Desks <- AtTheDesks
    MaxAsked = 2
    MaxElsewhere = 2
INVARIANTS LogIsTrue KeepsAWayIn  
SYMMETRY Interchangeable
CHECK_DEADLOCK FALSE
