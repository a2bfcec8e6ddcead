SPECIFICATION Spec
CONSTANTS
    u1 = u1
    u2 = u2
    u3 = u3
    home = home
    work = work
    other = other
    NoOne = NoOne
    Orgs = {o1}
    Users = {u1, u2, u3}
    Addresses = {home, work}
    SignInAddress <- ThreeUsersSignIn
    VerifiedAddresses <- ThreeUsersVerified
    Sessions = {s1}
INVARIANT AlwaysAdministered
INVARIANT AcceptedByOnlyWhenAccepted
PROPERTY MembershipByConsent
PROPERTY LastOwnerKept
PROPERTY ArchivedStaysAsItWas
