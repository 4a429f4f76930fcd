SPECIFICATION OwnersSpec
CONSTANTS
    Lib = {"runtime", "zygisk"}
    Base = {1, 2}
    Slot = {1, 2}
    Sym = {"fork"}
    Plt <- MCPlt
    Fn <- MCFn
    Loaded <- MCLoaded
    InFile <- MCInFile
    Ptr = {"zygisk", "module1", "module2"}
    Callback <- MCCallback
    Null = "null"
    NoLib = "none"
    SelfLib = "zygisk"
    MaxPending = 3
    Failures = {"scan", "restore"}
INVARIANT ChainIsHeld
