SPECIFICATION WatchdogSpec
CONSTANTS
    Procs = {p1, p2}
    MaxLevel = 3
    Threshold = 1
    GrowthDelta = 2
    Reminder = 2
    TriggerStreak = 2
    ResolveStreak = 2
    MaxFaults = 1
    Host = Host
INVARIANT ToldUnlessFailed
PROPERTY KeptHighIsTold
