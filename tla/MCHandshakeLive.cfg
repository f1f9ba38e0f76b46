CONSTANTS
    Address = {"p1", "p2"}
    Guid = {"gp"}
    Key = {"kp"}
    KeyGuid <- MCKeyGuid
    State = {"s"}
    NoKey = NoKey
    NoGuid = NoGuid
    NoState = NoState
    Timeout = 1
    MaxNonce = 5
    MaxStateId = 1
    Player = {"p"}
    KeyOf <- MCKeyOf
    GuidOf <- MCGuidOf
    Ports <- MCPorts
    MaxFaults = 2
SPECIFICATION FairHSpec
PROPERTIES EventuallyAuthenticated EventuallyOnlyRunning
CHECK_DEADLOCK FALSE
