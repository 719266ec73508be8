SPECIFICATION FairSpec
CONSTANTS
    TXNS <- MCTxns
    RX_BYTES = {10, 65}
    PINS = {0, 90}
    OUT_MAX = 2
INVARIANTS TypeOK BusReleased TransactionSent MarksAreTrue
PROPERTIES BusLegal Returns
CHECK_DEADLOCK FALSE
