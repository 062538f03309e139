\* A signal between the removal from the notify list and UpSem.
CONSTANTS
    r1 = r1
    r2 = r2
    r3 = r3
    Readers = {r1, r2}
    TransactionOf <- AnyTransaction
    Interruptible = {r1, r2}
    Tids = {1}
    MaxUnread = 2
    MaxWaiting = 3
    NoReader = NoReader
SPECIFICATION Spec
INVARIANT NoDanglingSem
CHECK_DEADLOCK FALSE
