SPECIFICATION Spec
CONSTANTS
    Null = Null
    c1 = c1
    r1 = r1
    h1 = h1
    h2 = h2
    x1 = x1
    x2 = x2
    Clients = {c1}
    Readers = {r1}
    Handles = {h1, h2}
    Contexts = {x1, x2}
    MaxChunks = 1
    MaxGuards = 1
    MaxFaults = 0
    MaxEvents = 0
    MaxRestarts = 0
    ReadersOutliveCard = FALSE
INVARIANT ReturnedCardAnswers
