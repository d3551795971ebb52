\* A page past the last one.
SPECIFICATION Spec
CONSTANTS
    b1 = b1
    b2 = b2
    b3 = b3
    b4 = b4
    Ids       <- FourIds
    Pages     <- SmallPages
    PageSizes <- SmallSizes
    DefaultPageSize = 3
    MaxPageSize = 3
    MaxInt  = 7
    MaxTime = 3
CHECK_DEADLOCK FALSE
PROPERTIES
    TotalCountsAll
