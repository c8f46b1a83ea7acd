SPECIFICATION FairSpec
CONSTANTS
    s1 = s1
    s2 = s2
    c1 = c1
    c2 = c2
    None = None
    Stream <- Streams
    Call <- Calls
    Final = 3
    MaxActs = 2
PROPERTIES
    ShownNeverGoesBack
    FollowingEnds
CHECK_DEADLOCK FALSE
