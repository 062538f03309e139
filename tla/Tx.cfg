\* Three packets, two of them queued at most, two sessions.
CONSTANTS
    txQueueLength = 2
    MaxPackets = 3
    MaxOpens = 2
    MaxTimeouts = 1
    MaxSuspends = 1
    NULL = NULL
    EAGAIN = EAGAIN
SPECIFICATION FairSpec
INVARIANTS SentInOrder WorkIsNoticed PowerFollows
PROPERTY ThreadResponds
CHECK_DEADLOCK FALSE
