SPECIFICATION Spec
CONSTANTS
    Step <- MCStep
    Req = {q1, q2}
    Nothing = Nothing
    Video = Video
    Share = {own, other}
    OwnShare = {own}
    NoShare = NoShare
SYMMETRY Symmetry
INVARIANTS
    GapsAreFlagged
    ShownInAuthoringOrder
    ShownAssetsAreServed
    ShareShowsItsRunOnly
