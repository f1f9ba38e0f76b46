CONSTANTS
    Commands = {"state", "authResponse"}
    Unknown = "unknown"
    Signals = {"first", "second", "third"}
    MaxInbox = 3
SPECIFICATION FairSpec
INVARIANTS ObjectsOutliveThread FirstStopInTime
PROPERTIES StopEnds
