SPECIFICATION FairSpec
CONSTANTS
    r1 = r1
    Readers = {r1, r2, r3}
    NameLength <- NameLengths
    Cards = {a1, a2}
    Null = Null
    Reports <- FourReports
    MaxEvents = 3
INVARIANTS
    ListingInv
    ListIsSnapshot
    AtrIsOfThisReader
    OutcomeHasCause
    StatusStringTells
PROPERTY
    CatchesUp
