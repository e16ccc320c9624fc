SPECIFICATION FairSpec
CONSTANTS
    Roles = {"reviewer"}
    MaxCalls = 2
    MaxSessions = 4
    MaxTurns = 8
    MaxFaults = 1
    Starts <- MCStarts
    LimitTurns = 1
    NoRole = NoRole
INVARIANTS TypeOK ToldOnce SeenWereShown
PROPERTY RunnersSettle
CHECK_DEADLOCK FALSE
