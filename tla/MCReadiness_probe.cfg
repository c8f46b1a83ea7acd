SPECIFICATION ReadinessFairSpec
CONSTANTS
    email = email
    letters = letters
    pdf = pdf
    Client <- Clients
    MaxPings = 2
    MaxChanges = 4
PROPERTIES
    RedisDecides
    StartsEnd
    DegradedIsExplained
CHECK_DEADLOCK FALSE
