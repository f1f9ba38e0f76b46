CONSTANTS
    x = x
    y = y
    z = z
    Address = {"o1", "r1", "r2"}
    GuidAt <- MCGuidAt
    OwnGuid = "own"
    State = {x, y, z}
    Blank = blank
    MaxId = 2
    MaxFlight = 2
    MaxRounds = 2
SPECIFICATION MCSpec
INVARIANTS TwoRoundsSuffice
SYMMETRY Symmetry
CHECK_DEADLOCK FALSE
