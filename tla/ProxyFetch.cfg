SPECIFICATION Spec
CONSTANTS
    Modes = {"proxy"}
    Streams <- MCStreams
    MaxLine = 4
    RioBufSize = 3
    Capacity = 4
    MaxAddrs = 3
    PClients = {1, 2}
    PThreads = {1, 2}
    Fds = {4, 5, 6, 7}
    Uris <- MCUris
    MaxFaults = 1
    TClients = {1, 2}
    Requests <- MCRequests
    Substrings <- MCSubstrings
    Files <- MCFiles
    MaxRemovals = 1
    SClients = {1, 2, 3}
    Habits <- MCHabits
    FdSetSize = 6
    MaxLines <- MCMaxLines
    EKinds = {"i", "p", "t", "s"}
    EClients = {1, 2}
    MaxTyped = 2
    Demos = {"badcnt", "psum-mutex", "psum-array", "psum-local", "race", "norace", "sharing"}
    DThreads = {0, 1}
    PerThread = 3
INVARIANT FetchedAsDirectly
CHECK_DEADLOCK FALSE
