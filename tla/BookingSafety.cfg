\* Three requests of two users for one slot: every invariant and action property.
SPECIFICATION Spec
CONSTANTS
    alice = alice
    bob   = bob
    root  = root
    s1    = s1
    s2    = s2
    r1    = r1
    r2    = r2
    r3    = r3
    Requests   <- ThreeRequests
    Users      <- MCUsers
    Admins     <- NoAdmins
    Slots      <- OneSlot
    StartAt    <- StartOne
    MaxTime    = 1
    MaxCrashes = 1
    FailDelete = TRUE
SYMMETRY Symmetry
INVARIANTS
    TypeOK
    OneActivePerSlot
    RejectionIsFinal
    CreatedIsDurable
    NoSilentLeak
    CancelledReplyIsTrue
PROPERTIES
    OnlyOwnerCancels
    RowsOnlyGetCancelled
    ImplementsReservation
