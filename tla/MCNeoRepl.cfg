SPECIFICATION RSpec
CONSTANTS
    LINES <- MCOther
    MAX_CMDS = 2
    PAYLOAD_MAX = 6
    POOL_SIZE = 8
    INTENTS <- MCIntents
    OUTS = {179}
    RX_BYTES = {10}
    PINS = {90}
    OUT_MAX = 2
INVARIANTS DoneAsMeant PromisesKept
PROPERTY PromptReturns
CHECK_DEADLOCK FALSE
