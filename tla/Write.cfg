\* Two threads on the control client, and one that takes signals on its own.
CONSTANTS
    w1 = w1
    w2 = w2
    w3 = w3
    c1 = c1
    c2 = c2
    Clients = {c1, c2}
    Writers = {w1, w2, w3}
    ClientOf <- TwoAndOne
    Interruptible = {w1, w3}
    Freed = Freed
SPECIFICATION FairSpec
INVARIANTS OnePopPerAdd UrbAlive StrayOnlyBySignal
PROPERTY WriteReturns
CHECK_DEADLOCK FALSE
