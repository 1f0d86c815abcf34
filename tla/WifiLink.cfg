SPECIFICATION Spec
CONSTANTS
    MaxRetry = 5
    MaxEvents = 3
    SlowAttempts = TRUE
INVARIANTS TypeOK ServersFollowLink NeverStranded
PROPERTY ComesBack
