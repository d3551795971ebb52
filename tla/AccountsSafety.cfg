\* Registrations, logins and authenticated calls, three in all.
SPECIFICATION Spec
CONSTANTS
    r1 = r1
    r2 = r2
    r3 = r3
    adminId = adminId
    userId  = userId
    Requests    <- ThreeRequests
    Addresses   <- MCAddresses
    NormalEmail <- MCNormal
    Passwords   <- MCPasswords
    Hashable    <- MCHashable
    BcryptKey   <- MCBcryptKey
    DummyId     <- MCDummyId
    DummyEmail  <- MCDummyEmail
    AccessTTL  = 1
    MaxTime    = 1
    MaxCrashes = 1
SYMMETRY Symmetry
INVARIANTS
    TypeOK
    OneAccountPerAddress
    RefusedIsNotRegistered
    IdentitiesAreReal
    LoginNeedsPassword
PROPERTIES
    RegisteredCanLogIn
    AccountsAreStable
