SPECIFICATION Spec
CONSTANTS
    FrameLens = {4, 5, 40, 70}
    MaxApps = 3
    Cap = 2
INVARIANTS TypeOK Listed
PROPERTY Returned
