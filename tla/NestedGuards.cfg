SPECIFICATION Spec
CONSTANTS
    Null = Null
    c1 = c1
    c2 = c2
    r1 = r1
    h1 = h1
    h2 = h2
    x1 = x1
    x2 = x2
    Clients = {c1, c2}
    Readers = {r1}
    Handles = {h1, h2}
    Contexts = {x1, x2}
    MaxChunks = 1
    MaxGuards = 2
    MaxFaults = 0
    MaxEvents = 0
    MaxRestarts = 0
    ReadersOutliveCard = TRUE
INVARIANT RefusedOnlyOutsideTransaction
