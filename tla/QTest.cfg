SPECIFICATION Spec
CONSTANTS
    NBlocks = 6
    Strings = {"a", "b"}
    MaxFiles = 2
    Lines <- MCLines
    FirstFiles <- MCFirstFiles
    MaxCuts = 1
    MaxSources = 2
    Levels = {1, 4}
    BigQueue = 1
INVARIANTS QueueConsistent DamageNeedsCut CommandsEndClean ConsoleBlocksKept
PROPERTIES RefinesDeque Terminates
