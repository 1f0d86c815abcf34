SPECIFICATION Spec
CONSTANTS
    x = x
    Nul = Nul
    Char = {x}
    Narrow = 2
    Wide = 3
    Values <- Lengths
    Default <- NoName
    Unset = Unset
    Absent = Absent
    Garbage = Garbage
    StoreMayFail = TRUE
    Overlap = FALSE
INVARIANT NamesFollowStore
PROPERTIES ImplementsSettings KeepsWhatWasSent ReadsBack SaveKeepsFitting
