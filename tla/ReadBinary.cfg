SPECIFICATION Spec
CONSTANTS
    HeaderBytes = {1, 14, 48, 130}
    OwnLengths = {0, 1, 256, 700, 33100}
    BlockLengths = {100, 255, 256, 300}
    Shortfalls = {0, 200}
INVARIANTS
    TypeOK
    ReturnsTheFile
    NeverAhead
    HeaderLengthAddressable
CHECK_DEADLOCK FALSE
