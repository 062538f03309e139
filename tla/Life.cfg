\* Two threads and the descriptors of one file, until the device is gone.
CONSTANTS
  Threads = {t1, t2}
  Files = {f1}
  QMIWDA = WDA QMIWDS = WDS QMIDMS = DMS QMICTL = QMICTL
  UserServices = {WDA}
  None = None
  MaxFds = 2
  MaxIds = 1
SPECIFICATION FairSpec
INVARIANTS RefsCounted NoUseAfterFree FreedInTheEnd ClientHasOwner ClientsReleased
PROPERTY DisconnectEnds
CHECK_DEADLOCK FALSE
