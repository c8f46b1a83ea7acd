SPECIFICATION FairFinalSpec
CONSTANTS
    ann = ann
    bob = bob
    first = first
    second = second
    w1 = w1
    Pdf = Pdf
    None = None
    Record <- Records
    Signer <- Signers
    Request <- Followed
    Run <- Runs
    MaxStalls = 1
    MaxCrashes = 1
    MaxJobs = 1
    MaxAttempts = 2
INVARIANTS
    FinalMeansSigned
PROPERTIES
    CompletionIsFollowedThrough
CHECK_DEADLOCK FALSE
