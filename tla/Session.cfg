SPECIFICATION Spec
CONSTANTS
    Null = Null
    c1 = c1
    c2 = c2
    r1 = r1
    h1 = h1
    h2 = h2
    h3 = h3
    x1 = x1
    x2 = x2
    x3 = x3
    Clients = {c1, c2}
    Readers = {r1}
    Handles = {h1, h2, h3}
    Contexts = {x1, x2, x3}
    MaxChunks = 2
    MaxGuards = 2
    MaxFaults = 1
    MaxEvents = 2
    MaxRestarts = 1
    ReadersOutliveCard = FALSE
INVARIANTS
    TypeOK
    SessionInv
    FlagMeansTransaction
    GuardHoldsCard
    ChainNotInterleaved
    LeaksOnlyByFaults
PROPERTIES
    OthersUndisturbed
    ImplementsExclusiveCard
SYMMETRY Symmetry
CHECK_DEADLOCK FALSE
