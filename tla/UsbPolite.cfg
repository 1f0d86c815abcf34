SPECIFICATION VendorSpec
CONSTANTS
    RxCap = 3
    BufCap = 3
    MaxFile = 4
    MaxSend = 2
    HexItems = {"line", "ctrl"}
    Host = "polite"
    OtaMayFail = TRUE
    WebUser = TRUE
    Uses = {"lin", "btl", "hex", "ota", "power"}
    MayUnplug = FALSE
    Timeouts = {"hex", "ota"}
INVARIANTS VendorTypeOK CommandHandlerSet UsedUnderClaim NoClaimLeft FileLive
PROPERTY HandlerNeverReplaced
CHECK_DEADLOCK FALSE
