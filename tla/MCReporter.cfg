CONSTANTS
    Call = {c1, c2}
    RunStart = {r1}
    NoRun = NoRun
    Retries = 1
SPECIFICATION FairSpec
INVARIANTS
    AcknowledgedIsRecorded
    StrictIsExact
    GreenIsRecorded
    FlushCoversEarlierSteps
PROPERTY EveryCallSettles
