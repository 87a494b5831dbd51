\* Three messages; the writer may have no more to say, so that all may stop.
CONSTANTS
    Lengths = {8, 12, 132, 260}
    Piece = 4
    MaxMessages = 3
    MaxBytes = 280
    Garbage = {64, 2147483647}
    ShuffleAt = 20
SPECIFICATION StreamSpec
INVARIANT
    CutsAreMessages
PROPERTY
    DeliversAll
CHECK_DEADLOCK FALSE
