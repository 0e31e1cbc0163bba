CONSTANTS
    Names = {a1, a2}
    Pids = {p1, p2}
    Slots = {s1, s2}
    NoName = NoName
    NoPid = NoPid
    NoSlot = NoSlot
    RESTART_BURST_LIMIT = 1
    Policies = {"always"}
    Faults = {"crash_in_spawn", "pid_write_fails"}
SPECIFICATION Spec
SYMMETRY Symmetry
VIEW StateView
INVARIANT OneSlotPerRuntime
