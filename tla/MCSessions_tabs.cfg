SPECIFICATION FairSpec
CONSTANTS
    left = left
    right = right
    q1 = q1
    q2 = q2
    None = None
    Tab <- Tabs
    Request <- Requests
    MaxTokens = 3
    MaxCalls = 2
    MaxExpiries = 1
    MaxFaults = 1
INVARIANTS
    CookieIsCurrent
    UnsharedIsServed
PROPERTIES
    LogoutIsFinal
    LockIsReleased
CHECK_DEADLOCK FALSE
