SPECIFICATION StoreSpec
CONSTANTS
    VoyageIds = {1, 2, 3, 4}
    Tree <- MCTree
    HomeCrafts = {0}
    Origins = {o1}
    Stores <- MCStores
    NewVoyages <- MCNewVoyages
    MaxScripts = 2
    VKIds = {"vk1"}
    Agent = Agent
    NoWs = NoWs
    None = None
INVARIANT WorkspaceAccepts
PROPERTIES VoyagesKept ShownAsBefore
CHECK_DEADLOCK FALSE
