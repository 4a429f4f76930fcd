SPECIFICATION Spec
CONSTANTS
    Child = {"c1", "c2"}
    Other = {"o1"}
    Devices = {{}, {"bind"}, {"crash"}, {"fork"}}
    Backlog = 1
    LastDelay = 200
PROPERTIES
    AskersGoOn
    ListenerAnswers
    DaemonListens
CHECK_DEADLOCK FALSE
