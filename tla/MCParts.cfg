SPECIFICATION MCSpec
CONSTANTS
    Places <- MCPlaces
    Targets <- MCTargets
    Grid <- MCGrid
    Reach = 16
    Granule = 8
    Slot = 3
    Width = 2
    MaxBlocks = 3
    Retries = 2
    Body = 3
    Listening = TRUE
    Texts = {"a", "b"}
    Working = {"a"}
    MaxMembers = 3
    Object <- Objects
    ClassOf <- MCClassOf
    Resource = {1, 2, 3}
    Name = {"a", "b"}
    MaxBlock = 5
    MaxLength = 2
    Detour = {"d", "e", "f"}
    Place = {"p", "q"}
INVARIANTS PatchesHold FailsOnlyWhenFull
INVARIANTS AnsweredOrStopped SettingsKept OwnedOnce BlocksOwned PlacesRestored NotLeftBehind
PROPERTIES StopEnds SplashEnds
CHECK_DEADLOCK FALSE
