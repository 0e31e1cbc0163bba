SPECIFICATION FairSpec
CONSTANTS
    inbox = inbox
    c1 = c1
    c2 = c2
    t1 = t1
    NoTask = NoTask
    NoBox = NoBox
    Boxes = {inbox}
    Clients = {c1, c2}
    Tasks = {t1}
    AGENTFS_MAX_MESSAGE = 1
    AGENTFS_MAX_QUEUE_BYTES = 1
    AGENTFS_MAX_QUEUE_MSGS = 1
    Faults = {}
PROPERTY SpaceWakesPoller
