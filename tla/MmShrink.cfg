SPECIFICATION Spec
CONSTANTS
    WordMod = 4096
    HeapLo = 1024
    MAX_HEAP = 80
    Indices = {1, 2}
    Sizes = {4, 8, 20}
    Shrinking = TRUE
    Junk = {0}
    MaxTrace = 3
    MaxRequests = 7
INVARIANT NoMallocError
CHECK_DEADLOCK FALSE
