SPECIFICATION Spec
CONSTANTS
    MaxCalls = 2
    MaxLen = 5
    NXPSC_TX_FRAME_MAX = 2
    CardFrame = 2
    MaxAnswer = 3
    Endless = Endless
    Cap = 4
INVARIANT TypeOK
PROPERTIES Implements Returned
CHECK_DEADLOCK FALSE
