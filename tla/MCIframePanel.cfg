SPECIFICATION Spec
CONSTANTS
    t1 = t1
    t2 = t2
    t3 = t3
    Tabs = {t1, t2, t3}
    SameOrigin = {t1}
    Views <- ShownTogether
    Voyages = {v1, v2}
    MaxRetained = 2
    MaxActs = 3
    MaxErrors = 1
    MaxPolls = 1
    NoVoyage = NoVoyage
INVARIANTS TypeOK FramesInPlace PreviousKept
PROPERTY LoadingEnds
CHECK_DEADLOCK FALSE
