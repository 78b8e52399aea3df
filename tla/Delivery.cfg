SPECIFICATION FairDelivery
CONSTANTS
    j1 = j1
    j2 = j2
    w1 = w1
    w2 = w2
    None = None
    Job = {j1}
    Worker = {w1, w2}
    MaxAttempts = 2
    LeaseDuration = 2
    RetryDelay = 1
    Horizon = 1
    BatchLimit = 2
    MaxCrashes = 1
    PromptSettle = FALSE
PROPERTIES
    ClosedReminderIsFinal
    RemindersReachUser
    JobsSettle
