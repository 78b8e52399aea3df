SPECIFICATION DeliverySpec
CONSTANTS
    j1 = j1
    j2 = j2
    w1 = w1
    w2 = w2
    None = None
    Job = {j1}
    Worker = {w1}
    MaxAttempts = 1
    LeaseDuration = 1
    RetryDelay = 1
    Horizon = 1
    BatchLimit = 2
    MaxCrashes = 0
    PromptSettle = TRUE
PROPERTIES ClosedReminderIsSilent
