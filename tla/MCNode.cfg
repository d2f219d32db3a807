SPECIFICATION NodeSpec
CONSTANTS
    Day = 1
    RatchetVersion = 2
    Requests <- MCRequests
    Shapes <- MCShapes
    Batches <- MCBatches
    EventsOf <- MCEventsOf
    MaxTime = 1
    MaxEvents = 2
    MaxReplies = 2
    MaxWork = 3
INVARIANTS NoCursorMeansLastPage WindowCountsAgree AcksAreTrue StopIsComplete
PROPERTIES ShutdownReturns
CHECK_DEADLOCK FALSE
