\* Forks succeed, commits of hooks may fail: one zygote, two children, one module.
CONSTANTS
    Zygote = 1
    Child = {2, 3}
    Module = {m1}
    InfoReplies <- FewReplies
    ForkMayFail = FALSE
    CommitMayFail = TRUE
SPECIFICATION Spec
INVARIANTS
    TypeOK
    ZygotePristine
    DeniedIsolated
    PrePostPaired
    ReturnedPidIsTheChild
    NothingDangles
PROPERTIES
    ImplementsInjection
CHECK_DEADLOCK FALSE
