\* Two runs of the command, one after the other or at once, and one fault.
SPECIFICATION Spec
CONSTANTS
    board = board
    focus = focus
    w1 = w1
    w2 = w2
    Runs       <- MCRuns
    SeedRooms  <- MCRooms
    HoursOf    <- MCHours
    OtherHours <- MCOtherHours
    Target         = 540
    GenerationDays = 3
    MaxDay    = 1
    MaxFaults = 1
SYMMETRY Symmetry
\* The command ends.
CHECK_DEADLOCK FALSE
PROPERTIES
    SuccessIsComplete
    RemainsAreNoReasonToFail
    ImplementsCalendar
