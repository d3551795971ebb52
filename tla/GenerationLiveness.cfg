\* Two rooms, one fault of any kind, and the calendar moving on.
SPECIFICATION FairSpec
CONSTANTS
    office = office
    lab = lab
    c1 = c1
    c2 = c2
    slotWorker = slotWorker
    Rooms  <- TwoRooms
    Calls  <- TwoCalls
    Inputs <- Regular
    Worker <- slotWorker
    Roles  <- Admins
    GenerationDays = 1
    MaxDay    = 1
    MaxFaults = 1
PROPERTIES
    HorizonIsCovered
INVARIANTS
    RoundIsolatesFailures
