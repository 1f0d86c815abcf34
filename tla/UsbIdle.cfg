SPECIFICATION VendorSpec
CONSTANTS
    RxCap = 3
    BufCap = 3
    MaxFile = 7
    MaxSend = 4
    HexItems = {"line", "ctrl"}
    Host = "idle"
    OtaMayFail = TRUE
    WebUser = TRUE
    Uses = {"lin", "btl", "hex", "ota"}
    MayUnplug = TRUE
    Timeouts = {"lin", "btl"}
INVARIANTS StartsFresh StartsTakeEffect
PROPERTIES NoRecordLost TransferAnswered CommandAnswered
