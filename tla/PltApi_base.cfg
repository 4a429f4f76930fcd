SPECIFICATION Spec
CONSTANTS
    Module = {"m1", "m2", "m4"}
    Version <- MCVersion
    Lib = {1, 2}
    AtStart = {1}
    Sym = {"read", "dlopen"}
    NoSymbol = ""
    Found <- MCFound
    Fn = {"m1", "m2", "m4"}
    Owner <- MCOwner
    Original = "libc"
    Regex <- MCRegex
    Exclusion <- MCExclusion
    Failures = {"scan", "slot"}
    Made <- MCMade
INVARIANTS CallsEnd ExclusionsHold TrueMeansHooked
CHECK_DEADLOCK FALSE
