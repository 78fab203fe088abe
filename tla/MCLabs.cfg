SPECIFICATION Spec
CONSTANTS
    SetBits = 1
    BlockBits = 1
    Associativities <- MCAssociativities
    Addresses = {0, 1, 2, 4, 8}
    Lines = {1, 2, 3, 4, 5}
    MaxTrace = 5
    Invocations <- MCInvocations
    Lists <- MCLists
    TestRange = 3
    RandomWords <- MCRandomWords
    BTOptions <- MCBTOptions
    MaxTimeouts = 1
    Args <- MCArgs
    MaxArgs = 2
INVARIANTS CountsMatchLines TransposesJudged ReportIsRight PuzzlesCorrect ChargesAreRight ShownIsExact
PROPERTIES ImplementsLRU
