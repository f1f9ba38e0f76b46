CONSTANTS
    Address = {"p1", "p2", "q1"}
    Guid = {"gp", "gq"}
    Key = {"kp"}
    KeyGuid <- MCKeyGuid
    State = {"s"}
    NoKey = NoKey
    NoGuid = NoGuid
    NoState = NoState
    Timeout = 1
    MaxNonce = 8
    MaxStateId = 1
    Player = {"p", "q"}
    KeyOf <- MCKeyOf
    GuidOf <- MCGuidOf
    Ports <- MCPorts
    MaxFaults = 1
SPECIFICATION HSpec
INVARIANTS AuthenticatedIsOwner
PROPERTIES DeadChallengesStayDead
CHECK_DEADLOCK FALSE
