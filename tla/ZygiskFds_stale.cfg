SPECIFICATION FairSpec
CONSTANTS
    MaxFd = 4
    AtFork = {0, 2}
    Method = {"fork", "server", "specialize"}
    MaxCalls = 5
    MaxAttempts = 5
    ArrayMayFail = TRUE
CHECK_DEADLOCK FALSE
PROPERTY ReturnsTheConnection
