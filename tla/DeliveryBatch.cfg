SPECIFICATION DeliverySpec
CONSTANTS
    j1 = j1
    j2 = j2
    w1 = w1
    w2 = w2
    None = None
    Job = {j1, j2}
    Worker = {w1, w2}
    MaxAttempts = 2
    LeaseDuration = 1
    RetryDelay = 1
    Horizon = 1
    BatchLimit = 2
    MaxCrashes = 0
    PromptSettle = TRUE
SYMMETRY Symmetry
INVARIANTS
    
    DeliveryTypeOK
    NoReminderLost
    NotifiedOnceAndOnlyIfDue

    
