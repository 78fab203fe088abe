SPECIFICATION Spec
CONSTANTS
    WordMod = 4096
    HeapLo = 1024
    MAX_HEAP = 80
    Indices = {1, 2, 3, 4}
    Sizes = {4, 8, 20}
    Shrinking = FALSE
    Junk = {0}
    MaxTrace = 5
    MaxRequests = 7
INVARIANTS HeapConsistent DataKept PassesAgree
PROPERTIES CrashesAreKnown BestFitOrGrow
CHECK_DEADLOCK FALSE
