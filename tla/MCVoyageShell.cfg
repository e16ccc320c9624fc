SPECIFICATION Spec
CONSTANTS
    craft1 = craft1
    craft2 = craft2
    newCraft = newCraft
    voyage1 = voyage1
    voyage2 = voyage2
    newVoyage = newVoyage
    Crafts <- MCCrafts
    Voyages <- MCVoyages
    NoCraft = NoCraft
    NoVoyage = NoVoyage
    Nothing = Nothing
    Loads <- MCLoads
    Slots = {1, 2}
    MaxAsked = 3
    MaxMirrors = 1
SYMMETRY Alike
INVARIANTS TypeOK NothingHangs RestsOnEntry
PROPERTIES StaysInVoyage StaysOpened
CHECK_DEADLOCK FALSE
