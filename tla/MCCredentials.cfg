SPECIFICATION Spec
CONSTANTS
    Op = {o1, o2}
    Cred = {c1, c2, c3}
    NoCred = NoCred
SYMMETRY Symmetry
INVARIANTS
    WorkingIsListed
    RotationAloneReplaces
