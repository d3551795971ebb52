\* Two requests, a client that reads, one room, slots that would overlap.
SPECIFICATION ServiceSpec
CONSTANTS
    alice = alice
    bob   = bob
    root  = root
    s1 = s1
    s2 = s2
    s3 = s3
    r1 = r1
    r2 = r2
    office = office
    client = client
    maker  = maker
    Users    <- MCUsers
    Admins   <- MCAdmins
    Slots    <- MCSlots
    StartAt  <- MCStartAt
    Requests <- MCRequests
    Clients  <- MCClients
    Rooms    <- OneRoom
    Hours    <- MCHours
    RowOf    <- MCRowOf
    Moments  <- MCMoments
    LastDay    = 1
    MaxTime    = 1
    MaxCrashes = 1
    FailDelete = FALSE
SYMMETRY Symmetry
CHECK_DEADLOCK FALSE
INVARIANTS
    RoomNeverDoubleBooked
    ListRespectsAnswers
    OffersFollowHours
    MineAreShown
