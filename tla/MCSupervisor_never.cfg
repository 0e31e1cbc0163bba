CONSTANTS
    Names = {a1}
    Pids = {p1, p2}
    Slots = {s1}
    NoName = NoName
    NoPid = NoPid
    NoSlot = NoSlot
    RESTART_BURST_LIMIT = 2
    Policies = {"never"}
    Faults = {}
SPECIFICATION Spec
SYMMETRY Symmetry
INVARIANT NeverRelaunched
