SPECIFICATION FairSpec
CONSTANTS
    inbox = inbox
    outbox = outbox
    c1 = c1
    c2 = c2
    t1 = t1
    t2 = t2
    NoTask = NoTask
    NoBox = NoBox
    Boxes = {inbox, outbox}
    Clients = {c1, c2}
    Tasks = {t1, t2}
    AGENTFS_MAX_MESSAGE = 2
    AGENTFS_MAX_QUEUE_BYTES = 3
    AGENTFS_MAX_QUEUE_MSGS = 2
    Faults = {"remount", "enomem"}
VIEW View
INVARIANT TypeOK
INVARIANT NoLostWakeup
INVARIANT AgentFSInv
INVARIANT Counted
INVARIANT BytesExact
PROPERTY ImplementsMailbox
PROPERTY ReadersServed
