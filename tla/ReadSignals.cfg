\* Three requests open on the control client; signals may end two of them.
CONSTANTS
    r1 = r1
    r2 = r2
    r3 = r3
    Readers = {r1, r2, r3}
    TransactionOf <- OwnTransactions
    Interruptible = {r1, r2}
    Tids = {0, 1, 2}
    MaxUnread = 2
    MaxWaiting = 3
    NoReader = NoReader
SPECIFICATION FairSpec
INVARIANT SleeperCanBeWoken
PROPERTY ReadersReturn
CHECK_DEADLOCK FALSE
