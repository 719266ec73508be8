SPECIFICATION Spec
CONSTANTS
    NB = 2
    BITS = 3
    BIN_SIGNATURE = 33
    FILES <- OneProgram
    NOISE = {}
    SECTOR = 12
    FLASH = 36
    MEM = 8
    CMDS = 2
    RESETS = 1
PROPERTY AutoBootFallsBack
CHECK_DEADLOCK FALSE
