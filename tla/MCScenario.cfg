CONSTANTS
    Last = 3
    Legacy = {1}
    Skipped = {2}
    LastTry = 1
    NoId = NoId
    NotTold = NotTold
    MayTimeOut = {"test"}
    MayStray = TRUE
    MaxTimeouts = 1
    MaxUnits <- Units
SPECIFICATION Spec
INVARIANTS
    FaithfulVerdict
    StepsAreOwn
    NoRowLeftRunning
