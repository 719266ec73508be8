SPECIFICATION FairSpec
CONSTANTS
    PAGE = 4
    SECTOR = 8
    HUGE_MAX = 16
    SIZE = 24
    BITS = {0, 1}
    JOBS <- TwoPages
    CALLS = 1
    RESETS = 0
INVARIANT HugeLands
CHECK_DEADLOCK FALSE
