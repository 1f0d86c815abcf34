SPECIFICATION Spec
CONSTANTS
    Task = {"httpd", "tinyusb", "bulk"}
    ClaimsOf <- MCClaimsOf
    ReleasesOf <- MCReleasesOf
    EnableMayFail = FALSE
PROPERTY AlreadyClaimedIsOwn
