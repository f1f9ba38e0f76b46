CONSTANTS
    a1 = a1
    a2 = a2
    Address = {a1, a2}
    Guid = {"ga", "gb"}
    Key = {"ka", "kb"}
    KeyGuid <- MCKeyGuid
    State = {"s"}
    NoKey = NoKey
    NoGuid = NoGuid
    NoState = NoState
    Timeout = 1
    MaxNonce = 3
    MaxStateId = 3
SPECIFICATION Spec
INVARIANTS EntriesWellFormed ChallengesDistinct BroadcastOnlyLive
PROPERTIES StateIdsName ImplementsSessions
