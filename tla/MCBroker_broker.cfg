SPECIFICATION Spec
CONSTANTS
    agentA = agentA
    agentB = agentB
    a1 = a1
    b1 = b1
    b2 = b2
    t1 = t1
    t2 = t2
    t3 = t3
    t4 = t4
    Agents = {agentA, agentB}
    Procs = {a1, b1, b2}
    Threads = {t1, t2, t3, t4}
    AgentOf <- MCAgentOf
    ProcOf <- MCProcOf
    Leader <- MCLeader
    Main <- MCMain
    Wants <- MCWants
    Requests <- MCRequests
    Answers <- MCAnswers
    None = None
    Operator = Operator
    Policies <- MCPolicies
    MAX_PATTERNS = 1
    INBOX_CAP = 1
    MaxCalls = 2
    MaxFaults = 1
INVARIANTS
    TypeOK
    ExchangeExclusive
    OwnAnswer
    BrokerInv
PROPERTIES
    ReachesAddressee
    ClientView
    RequestsAnswered
CHECK_DEADLOCK FALSE
