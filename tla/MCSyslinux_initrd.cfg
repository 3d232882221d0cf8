SPECIFICATION Spec
CONSTANTS
    a = a
    b = b
    Labels <- TwoLabels
    Appends <- TwoInitrds
    MaxLines = 4
    MaxDepth = 2
INVARIANT LastAppendWins
CHECK_DEADLOCK FALSE
