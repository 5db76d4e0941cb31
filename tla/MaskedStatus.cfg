SPECIFICATION Spec
CONSTANTS
    Lengths = {0, 7}
    MaxReplies = 2
INVARIANT StatusLetThrough
CHECK_DEADLOCK FALSE
