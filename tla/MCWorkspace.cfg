SPECIFICATION Spec
CONSTANTS
    v1 = v1
    v2 = v2
    w1 = w1
    Sessions = {v1, v2}
    VKIds = {w1}
    UserUrls = {"page", w1}
    Agent = Agent
    NoWs = NoWs
    NoTab = NoTab
    MaxId = 3
SYMMETRY Symmetry
INVARIANTS TypeOK TreeInv VoyageInv
PROPERTIES ViewsFollowTabs EntriesConserved VoyagesKept
CHECK_DEADLOCK FALSE
