CONSTANTS
    w1 = w1
    w2 = w2
    Fan = Fan
    Workers = {w1, w2}
    Operator = Operator
    Unknown = Unknown
    Nobody = Nobody
    MAX_TARGETS = 2
    Deployments <- Supported
    Requests = {"review", "other", "ping", "result"}
    MaxTask = 4
    CAP = 4
    MaxCrashes = 1
SPECIFICATION Spec
CHECK_DEADLOCK FALSE
INVARIANT TypeOK
INVARIANT DelegationInv
INVARIANT CompletedMeansAnswered
INVARIANT RepliesAreCredited
INVARIANT ActiveTasksAreOwned
INVARIANT AnswersAreOnRecord
PROPERTY EndedTasksStay
PROPERTY TasksEnd
