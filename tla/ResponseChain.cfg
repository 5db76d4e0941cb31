SPECIFICATION FairSpec
CONSTANTS
    Lengths = {0, 7}
    MaxReplies = 5
INVARIANTS
    ChainInv
    WholeAnswer
    CallerNeverSees61
    AsksForWhatIsAnnounced
    NothingBadIsJoined
PROPERTY Terminates
CHECK_DEADLOCK FALSE
