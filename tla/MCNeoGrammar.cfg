SPECIFICATION GSpec
CONSTANTS
    LINES <- MCLines
    INTENTS <- MCIntents
    MAX_CMDS = 2
    PAYLOAD_MAX = 4
    POOL_SIZE = 5
INVARIANTS TypeOK SlicesTile BytesCostText WholeLineParsed CommandsWellFormed IInv RoundTrip
PROPERTY Terminates
CHECK_DEADLOCK FALSE
