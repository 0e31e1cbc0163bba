CONSTANTS
    Names = {a1}
    Pids = {p1, p2}
    Slots = {s1}
    NoName = NoName
    NoPid = NoPid
    NoSlot = NoSlot
    RESTART_BURST_LIMIT = 1
    Policies = {"never", "on-failure"}
    Faults = {}
SPECIFICATION FairSpec
PROPERTY StopHonoured
PROPERTY RestartTaken
