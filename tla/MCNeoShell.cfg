SPECIFICATION FairSpec
CONSTANTS
    CHARS <- MCChars
    ACCEPTED <- MCAccepted
    LINE_MAX = 2
    RX_DEPTH = 1
    TX_DEPTH = 2
    KEYS = 5
INVARIANTS TypeOK ScreenTellsTheTruth
PROPERTIES Answered
CHECK_DEADLOCK FALSE
