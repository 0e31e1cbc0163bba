CONSTANTS
    w1 = w1
    w2 = w2
    Fan = Fan
    Workers = {w1, w2}
    Operator = Operator
    Unknown = Unknown
    Nobody = Nobody
    MAX_TARGETS = 2
    Deployments <- ReviewersOverAgentfs
    Requests = {"review", "other", "ping", "result"}
    MaxTask = 4
    CAP = 4
    MaxCrashes = 0
SPECIFICATION Spec
CHECK_DEADLOCK FALSE
INVARIANT RepliesAreCredited
