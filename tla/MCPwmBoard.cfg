SPECIFICATION PFairSpec
CONSTANTS
    Size = 16
    MaxBytes = 5
    MinFree = 4
    Wide = TRUE
    Left = TRUE
    Right = FALSE
    BitWidths = {8, 16}
    Channels = {1, 2}
    InSizes = {18}
    MaxSem = 2
INVARIANTS NoByteLost WakeupArmed MonoSamplesWhole
PROPERTIES WriterWakes FifoSpec
