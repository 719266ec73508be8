SPECIFICATION FairSpec
CONSTANTS
    STACKS <- Once
    LENGTH = 1
PROPERTY NoStarvation
CHECK_DEADLOCK FALSE
