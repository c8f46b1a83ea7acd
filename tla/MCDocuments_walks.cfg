SPECIFICATION FairSpec
CONSTANTS
    page1 = page1
    mine = mine
    theirs = theirs
    None = None
    MaxDocs = 3
    Old = 2
    Uploader <- Uploaders
    Org <- Orgs
    Home = mine
    Limit = 1
    MaxFaults = 1
INVARIANTS
    LinksLeadToFiles
    WalkIsFaithful
PROPERTIES
    ClientsSettle
CHECK_DEADLOCK FALSE
