CONSTANTS
    Component = {"updater", "launcher", "splash", "scheduler", "network"}
    Priority <- MCPriority
    Updater = "updater"
    Scheduler = "scheduler"
    Network = "network"
    Splash = "splash"
    GameThread = {"worker", "other"}
    WindowThread = "main"
SPECIFICATION FairSpec
INVARIANTS UpdateFirst ExitAfterDestroy ThreadsJoined
PROPERTIES HangsOnlyOnWindow
CHECK_DEADLOCK FALSE
