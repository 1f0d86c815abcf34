SPECIFICATION Spec
CONSTANTS
    Blinks = 4
    Width = 16
    MayStop = TRUE
INVARIANT StatusDark
PROPERTY HeartbeatReturns
