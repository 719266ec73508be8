SPECIFICATION FairSpec
CONSTANTS
    STACKS <- Twice
    LENGTH = 2
INVARIANTS LaunchTruthful SharedDataReady
PROPERTIES Exclusive Core1Unlocks
CHECK_DEADLOCK FALSE
