SPECIFICATION SerialSpec
CONSTANTS
    Task = {"t1", "t2"}
    ClaimsOf <- AnyClaimsOf
    ReleasesOf <- AnyReleasesOf
    EnableMayFail = TRUE
INVARIANTS RecordNamesUser DriversExclusive DriverMatchesRecord HeldIsPowered
PROPERTIES ReleaseSwitchesOff ImplementsLock
