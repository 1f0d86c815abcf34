SPECIFICATION Spec
CONSTANTS
    Chains = {c1, c2, c3}
    Scripts <- ShortScripts
    MayReload = FALSE
INVARIANT RunningHasPoller
PROPERTIES EveryEntryPolled SequenceEnds
