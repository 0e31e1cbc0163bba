CONSTANTS
    Names = {a1}
    Pids = {p1, p2, p3, p4}
    Slots = {s1}
    NoName = NoName
    NoPid = NoPid
    NoSlot = NoSlot
    RESTART_BURST_LIMIT = 2
    Policies = {"on-failure"}
    Faults = {}
SPECIFICATION Spec
SYMMETRY Symmetry
VIEW HistoryView
INVARIANT TypeOK
INVARIANT OneRuntime
INVARIANT PidFileNamesRuntime
INVARIANT CrashLoopBounded
INVARIANT Supervised
INVARIANT IInv
INVARIANT BurstInv
