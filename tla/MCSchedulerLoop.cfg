CONSTANTS
    Task = {"s", "l", "o"}
    Kind <- MCKind
    Interval <- MCInterval
SPECIFICATION Spec
INVARIANTS EndsWhenAsked
CHECK_DEADLOCK FALSE
