SPECIFICATION FairSpec
CONSTANTS
    d1 = d1
    d2 = d2
    s1 = s1
    s2 = s2
    r1 = r1
    w1 = w1
    Deliveries = {d1, d2}
    Shas = {s1, s2}
    Repos = {r1}
    RepoOf <- OneRepo
    NamedRepos = {}
    Workspaces = {w1}
    BranchOf <- OneWorkspace
    NoSha = NoSha
    NoWorkspace = NoWorkspace
    MaxRestarts = 1
INVARIANTS ClaimsAccounted NoDoublePrompt
PROPERTY EveryDeliveryAnswered
CHECK_DEADLOCK FALSE
