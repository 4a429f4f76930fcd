\* Forks may fail: every replaced method still returns, with
\* SIGCHLD unblocked, and a process is left by Zygisk once it has been
\* specialised.
CONSTANTS
    Zygote = 1
    Child = {2}
    Module = {m1, m2}
    InfoReplies <- MCInfoReplies
    ForkMayFail = TRUE
    CommitMayFail = FALSE
SPECIFICATION FairSpec
INVARIANTS
    SigchldRestored
PROPERTIES
    CallsReturn
    SpecialisedIsLeft
CHECK_DEADLOCK FALSE
