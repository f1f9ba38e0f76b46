CONSTANTS
    Task = {"s", "l", "o"}
    Kind <- MCKind
    Interval <- MCInterval
SPECIFICATION FairSpec
INVARIANTS VisitsEachOnce
PROPERTIES ImplementsTasks EventuallyCalled StopReturns
CHECK_DEADLOCK FALSE
