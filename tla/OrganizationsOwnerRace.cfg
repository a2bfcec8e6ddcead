SPECIFICATION Spec
CONSTANTS
    u1 = u1
    u2 = u2
    u3 = u3
    home = home
    work = work
    other = other
    NoOne = NoOne
    Orgs = {o1}
    Users = {u1, u2}
    Addresses = {home, work, other}
    SignInAddress <- TwoUsersSignIn
    VerifiedAddresses <- TwoUsersVerified
    Sessions = {s1, s2}
INVARIANT AlwaysAdministered
