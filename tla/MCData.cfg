SPECIFICATION Spec
CONSTANTS
    Base = 4
    Item = 2
    Messages <- MCMessages
    Lines <- MCLines
    Players <- MCPlayers
    Words <- MCWords
    Known <- MCKnown
    Numbers <- MCNumbers
    Decimal <- MCDecimal
    Ipv4Text <- MCIpv4Text
    Endpoints <- MCEndpoints
    Somewhere <- MCSomewhere
    Byte = 8
    Wide = 64
    Size = 4
    Strings <- MCStrings
    WideNames <- MCWideNames
    Arrays <- MCArrays
    DataNames = {"data", "database"}
    FileNames <- MCFileNames
    Folders <- MCFolders
    Lists <- MCLists
    Pieces <- MCPieces
    Roots <- MCRoots
    Own <- MCOwn
    Custom <- MCCustom
    Radix = 2
    Lane = 4
    Enough = 1
    Searches <- MCSearches
    Cores = {1, 2, 3, 4, 5, 6}
    Machines <- MCMachines
INVARIANTS ArrivesExactly AddressesHold NamesSurvive FilesChosen ToolsWork
