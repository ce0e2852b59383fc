CONSTANTS
    Proc = {1}
    LastTry <- Zero
    Skipped = {}
    Class = {"plain"}
    MaxScenarios <- One
    MaxSteps <- FirstTwo
    Write = {w1, w2}
    NoPart = NoPart
    Nobody = Nobody
SPECIFICATION Spec
INVARIANT ShownInAuthoringOrder
