SPECIFICATION FairSpec
CONSTANTS
    CALLS <- MCCalls
    BYTES = {90, 165}
    CLKSTR = FALSE
    MAX_CALLS = 3
INVARIANTS NothingLeftOver
PROPERTIES Atomic Returns
CHECK_DEADLOCK FALSE
