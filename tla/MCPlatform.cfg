CONSTANTS
    Run = {r1}
    Scenario = {s1, s2}
    Handler = {h1, h2}
    NoRun = NoRun
    NoRequest = NoRequest
    StaleAfter = 0
    LastAttempt = 1
    MaxRequests = 5
SPECIFICATION FairSpec
INVARIANTS
    VerdictIsExact
    RunShowsWorstScenario
PROPERTIES
    ReaperTakesOnlySilentRuns
    EveryRunEnds
    ImplementsLifecycle
