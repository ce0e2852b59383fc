CONSTANTS
    Client = {c1, c2}
    MaxServers = 2
SPECIFICATION BSSpec
INVARIANTS
    ReachableUnlessOverlapped
PROPERTIES
    PageIsKept
    ToldToEndEnds
