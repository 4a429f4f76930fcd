SPECIFICATION Spec
CONSTANTS
    Method <- MCMethod
    Name = {"forkApp", "forkServer"}
    NameOf <- MCNameOf
    Known = {"app_l", "app_o", "server_l"}
    Class <- MCClass
    Callback = {f1, f2, f3}
    Shared = FALSE
    MaxList = 2
    Null = Null
INVARIANTS TypeOK AllOrNothing RestoreUndoes CallsReachOriginal
CHECK_DEADLOCK FALSE
