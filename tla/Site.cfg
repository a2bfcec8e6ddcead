SPECIFICATION Spec
CONSTANTS
    Rows = {r1, sms}
    Sms = sms
    None = none
    Cards = {"emails", "sso", "passkeys", "factors", "wallet", "activity", "password", "profile", "notifications", "entrance"}
    MaxSent <- Most
    RefusalsBeforeCode = 1
    SetsUpApps = TRUE
    MaxStamp = 3
    MaxTrips = 2
INVARIANTS
    ScreenTypeOK
    OfferedIsAllowed
    NothingStuck
    CodesShownWork
    LandsWhereAsked
    ProfileKept
PROPERTIES
    NeverGoesBack
    WalletAsPromised
CHECK_DEADLOCK FALSE
