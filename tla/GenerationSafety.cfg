\* Two calls for one room race: schedules that would overlap.
SPECIFICATION Spec
CONSTANTS
    office = office
    lab = lab
    c1 = c1
    c2 = c2
    slotWorker = slotWorker
    Rooms  <- OneRoom
    Calls  <- TwoCalls
    Inputs <- Conflicting
    Worker <- slotWorker
    Roles  <- AllRoles
    GenerationDays = 1
    MaxDay    = 1
    MaxFaults = 2
SYMMETRY Symmetry
INVARIANTS
    TypeOK
    NoOverlap
    RefusalStoresNothing
    CreatedMeansGenerated
PROPERTIES
    ImplementsCalendar
