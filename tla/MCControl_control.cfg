SPECIFICATION Spec
CONSTANTS
    Daemons = {d1, d2}
    Pids = {p1, p2}
    None = None
    MaxCommands = 3
    MaxFaults = 1
INVARIANTS
    TypeOK
    ControlInv
    Reachable
    OneRuntime
PROPERTIES
    StopLeavesNothing
    CommandsEnd
CHECK_DEADLOCK FALSE
