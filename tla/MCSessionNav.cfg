CONSTANTS
    Crafts = {1, 2, 3}
    SpaceOf <- MCSpaceOf
    Workspaces <- MCWorkspaces
    Voyages <- MCVoyages
    Urls <- MCUrls
    NoVoyage = NoVoyage
    NoRoute = NoRoute
    NoSelection = NoSelection
    MaxEntries = 3
    MaxCopies = 2
SPECIFICATION Spec
INVARIANT TypeOK
INVARIANT ShowsVoyage
INVARIANT FollowsUrl
PROPERTY OthersKept
