SPECIFICATION FairSpec
CONSTANTS
    NB = 2
    BITS = 3
    BIN_SIGNATURE = 33
    FILES <- Programs
    NOISE = {11}
    SECTOR = 12
    FLASH = 36
    MEM = 8
    CMDS = 3
    RESETS = 1
INVARIANTS TypeOK StartsIntact RoundTrip HandOver
PROPERTIES KeptLoads Settles
CHECK_DEADLOCK FALSE
