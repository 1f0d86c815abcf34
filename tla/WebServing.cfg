SPECIFICATION Spec
CONSTANTS
    Socket = {s1, s2, s3, s4}
    MaxClients = 3
    Free = Free
INVARIANTS TypeOK SessionsTracked OwnFragments UsedUnderWebClaim ClaimHasSession
PROPERTY StopEnds
