SPECIFICATION Spec
CONSTANTS
    Lib = {"runtime"}
    Base = {1, 2}
    Slot = {1, 2}
    Sym = {"fork", "close"}
    Plt <- MCPlt
    Fn <- MCFn
    Loaded <- MCLoaded
    InFile <- MCInFile
    Ptr = {}
    Null = "null"
    NoLib = "none"
    SelfLib = "none"
    MaxPending = 2
    Failures = {"scan", "move", "copy"}
INVARIANTS TypeOK HooksRecordOriginal MovedWhileHooked
PROPERTIES ImplementsPltView
