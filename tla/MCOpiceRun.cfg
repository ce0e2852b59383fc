CONSTANTS
    Cli = {c1, c2}
    Pid = {p1, p2}
    Run = {r1, r2, r3}
    NoPid = NoPid
    NoRun = NoRun
SPECIFICATION Spec
SYMMETRY Symmetry
INVARIANTS
    OpenRunsHaveAnOwner
PROPERTIES
    NoLiveRunIsFinished
    GreenStrictRunIsClosed
