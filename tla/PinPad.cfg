SPECIFICATION FairSpec
CONSTANTS
    Announcements <- MCAnnouncements
    Commands <- MCCommands
    MinLengths = {4, 5}
    Languages = {1061}
    MaxCalls = 3
    MaxFaults = 2
INVARIANTS
    PadInv
    FeaturesAsAnnounced
    PinPadMeansEntry
    RequestReadsAsMeant
    OneTryPerCall
    AnswerIsOfThisCall
    EntryIsReported
PROPERTY
    CallReturns
CHECK_DEADLOCK FALSE
