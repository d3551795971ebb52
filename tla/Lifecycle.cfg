\* Two requests and the configured timeouts.
SPECIFICATION FairSpec
CONSTANTS
    r1 = r1
    r2 = r2
    slotWorker = slotWorker
    Requests <- TwoRequests
    Worker   <- slotWorker
    Attempts = 10
    Pause    = 2
    ConnectTimeout  = 10
    RequestTimeout  = 10
    ShutdownTimeout = 30
INVARIANTS
    TypeOK
    LeakIsBounded
    ShutdownIsGraceful
PROPERTIES
    SignalEndsProcess
