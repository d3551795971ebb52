\* Two requests, users and an admin, two slots: every call is answered.
SPECIFICATION FairSpec
CONSTANTS
    alice = alice
    bob   = bob
    root  = root
    s1    = s1
    s2    = s2
    r1    = r1
    r2    = r2
    r3    = r3
    Requests   <- TwoRequests
    Users      <- MCPeople
    Admins     <- MCAdmins
    Slots      <- TwoSlots
    StartAt    <- StartTwo
    MaxTime    = 1
    MaxCrashes = 1
    FailDelete = TRUE
PROPERTIES
    EveryRequestAnswered
