\* Three threads read one userspace client; no signals.
CONSTANTS
    r1 = r1
    r2 = r2
    r3 = r3
    Readers = {r1, r2, r3}
    TransactionOf <- AnyTransaction
    Interruptible = {}
    Tids = {0, 1}
    MaxUnread = 4
    MaxWaiting = 3
    NoReader = NoReader
SPECIFICATION FairSpec
INVARIANTS NoLostWakeup NoDanglingSem
PROPERTY ImplementsMailBox
CHECK_DEADLOCK FALSE
