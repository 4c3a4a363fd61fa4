SPECIFICATION Spec
CONSTANTS
    Sources = {0, 1}
    Leftovers <- MCLeftovers
    MaxPart = 5
    MaxTx = 2
    Hardlinks = {TRUE, FALSE}
    MaxRestarts = 2
    Segments <- MCSegments
    MaxSegments = 3
CHECK_DEADLOCK FALSE
INVARIANTS
    BytesKept
    OneOwnerEach
    ToldOnce
    BlockedForCause
    StreamingMatches
PROPERTIES
    ImplementsOutcomes
    SettledIsFinished
