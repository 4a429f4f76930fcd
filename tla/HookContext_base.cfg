SPECIFICATION Spec
CONSTANTS
    t1 = t1
    t2 = t2
    Thread = {t1, t2}
    Main = t1
    Plain = {"fork"}
    Registers <- RegisterFiles
INVARIANTS
    FaultNeedsCause
    
    UnloadsItself
CHECK_DEADLOCK FALSE
