SPECIFICATION Spec
CONSTANTS
    HeaderBytes = {1, 14, 48, 130}
    OwnLengths = {0}
    BlockLengths = {255}
    Shortfalls = {0, 200}
INVARIANT
    LengthIsFromHeader
CHECK_DEADLOCK FALSE
