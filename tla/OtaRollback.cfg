SPECIFICATION Spec
CONSTANTS
    Image = {good, newer, bad}
    Good = {good, newer}
    Factory = good
    RingCap = 1
    Careful = TRUE
INVARIANT Recoverable
PROPERTIES BootEnds ImplementsSwitch
