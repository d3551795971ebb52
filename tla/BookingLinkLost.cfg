\* README.md:208, a lost answer to the INSERT.
SPECIFICATION FairSpec
CONSTANTS
    alice = alice
    bob   = bob
    root  = root
    s1    = s1
    s2    = s2
    r1    = r1
    r2    = r2
    r3    = r3
    Requests   <- TwoRequests
    Users      <- MCUsers
    Admins     <- NoAdmins
    Slots      <- OneSlot
    StartAt    <- StartOne
    MaxTime    = 0
    MaxCrashes = 0
    FailDelete = FALSE
INVARIANTS
    StoredLinkIsAlive
