SPECIFICATION VendorSpec
CONSTANTS
    RxCap = 2
    BufCap = 2
    MaxFile = 4
    MaxSend = 2
    HexItems = {"line", "ctrl"}
    Host = "polite"
    OtaMayFail = FALSE
    WebUser = FALSE
    Uses = {"hex"}
    MayUnplug = FALSE
    Timeouts = {"lin", "btl"}
PROPERTY TransferAnswered
CHECK_DEADLOCK FALSE
