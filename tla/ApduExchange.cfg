SPECIFICATION Spec
CONSTANTS
    Commands <- MCCommands
    CommandBytes <- MCCommandBytes
    Replies <- MCReplies
    Expectations <- MCExpectations
INVARIANTS
    TypeOK
    CardUnderstands
    BytesReachCard
    ReturnedMeansExpected
    ErrorShowsDifference
CHECK_DEADLOCK FALSE
