SPECIFICATION FairSpec
CONSTANTS
    first = first
    second = second
    mail = mail
    w1 = w1
    w2 = w2
    Pdf = Pdf
    None = None
    Record <- Records
    Request <- Requests
    Run <- Runs
    MaxStalls = 1
    MaxCrashes = 1
    MaxJobs = 1
INVARIANTS
    CompletedMeansFile
    SettledJobIsSound
    MailsAreAccountedFor
CHECK_DEADLOCK FALSE
