SPECIFICATION FairSpec
CONSTANTS
    t1 = t1
    t2 = t2
    c1 = c1
    c2 = c2
    None = None
    Tab <- Tabs
    Call <- Calls
    Field <- Fields
    Type <- TypeOf
    Required <- IsRequired
    MaxFaults = 1
INVARIANTS
    OnceUnlessRaced
    CompleteMeansRecorded
    RacesAreExplained
PROPERTIES
    DoneIsShown
CHECK_DEADLOCK FALSE
