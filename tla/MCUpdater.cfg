CONSTANTS
    Host = "w3m.exe"
    Listed <- MCListed
    Stray = {"stray"}
    Threads = 2
    MaxMishaps = 3
SPECIFICATION FairSpec
INVARIANTS HostKept EndsWhatBegan WrittenMeansCurrent
PROPERTIES Converges
CHECK_DEADLOCK FALSE
