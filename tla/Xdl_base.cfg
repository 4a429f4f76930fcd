SPECIFICATION Spec
CONSTANTS
    Thread = {"t1", "t2"}
    Nobody = "nobody"
    Lib = {"lib", "liblzma"}
    Device <- MCDevice
    MaxHandle = 2
    MaxCalls = 3
INVARIANTS SearchesSeeWholeTables LinkerIsLocked HeldStaysMapped
PROPERTY CallsReturn
CHECK_DEADLOCK FALSE
