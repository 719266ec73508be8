SPECIFICATION FairSpec
CONSTANTS
    PAGE = 4
    SECTOR = 8
    HUGE_MAX = 16
    SIZE = 24
    BITS = {0, 1}
    JOBS <- MCJobs
    CALLS = 3
    RESETS = 1
INVARIANTS TypeOK Landed CheckMeansReady HugePagesErased
PROPERTY Returns
CHECK_DEADLOCK FALSE
