SPECIFICATION Spec
CONSTANTS
    a = a
    b = b
    Labels <- TwoLabels
    Appends <- OddAppends
    MaxLines = 5
    MaxDepth = 2
SYMMETRY Symmetry
INVARIANTS CmdlineIsLastAppend InitrdFollowsCmdline Ranked
CHECK_DEADLOCK FALSE
