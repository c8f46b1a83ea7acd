SPECIFICATION EditorFairSpec
CONSTANTS
    f1 = f1
    f2 = f2
    c1 = c1
    c2 = c2
    l1 = l1
    l2 = l2
    None = None
    FieldId <- Fields
    Old <- Existing
    Mutation <- Calls
    Load <- Loads
    Grid = 2
    PlacedWidth = 1
    MaxActs = 3
INVARIANTS
    ViewInv
    ShownIsStored
PROPERTIES
    ViewSettles
CHECK_DEADLOCK FALSE
