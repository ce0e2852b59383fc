CONSTANTS
    LastScenario = 2
    LastTry <- Tries
    Legacy = {1}
    MaxFaults = 1
    Slug <- Slugs
    EarlierStems <- Earlier
    StepsOf <- Steps
    None = None
SPECIFICATION Spec
CHECK_DEADLOCK FALSE
INVARIANTS
    TypeOK
    WalksAlone
    FootageIsOwn
    RecordingsApart
