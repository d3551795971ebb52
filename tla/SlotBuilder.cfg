\* Boundary times, a fortnight of first days, two days generated at a time.
SPECIFICATION Spec
CONSTANTS
    Minutes     <- BoundaryMinutes
    WeekdaySets <- SomeWeekdays
    Days    = 2
    LastDay = 8
\* The calendar of the instance ends.
CHECK_DEADLOCK FALSE
INVARIANTS
    LoopMeetsDefinition
    BuildMeetsReference
PROPERTIES
    HorizonMovesByADay
