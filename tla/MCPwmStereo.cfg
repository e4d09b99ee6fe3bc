SPECIFICATION PSpec
CONSTANTS
    Size = 16
    MaxBytes = 9
    MinFree = 4
    Wide = TRUE
    Left = TRUE
    Right = FALSE
    BitWidths = {16}
    Channels = {2}
    InSizes = {6, 20}
    MaxSem = 2
INVARIANT LeftPlaysLeft
