CONSTANTS
    Proc = {1, 2}
    LastTry <- FirstOne
    Skipped <- OthersSkip
    Class = {"fixme", "pending"}
    MaxScenarios <- One
    MaxSteps <- FirstOne
    Write = {w1, w2}
    NoPart = NoPart
    Nobody = Nobody
SPECIFICATION Spec
SYMMETRY Symmetry
INVARIANTS
    OneAttemptShown
    NoScenarioTwice
    UndisturbedWriteHeals
    FinishedShownAsOnDashboard
