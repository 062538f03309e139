----------------------------- MODULE DeviceLife -----------------------------
(***************************************************************************)
(* The life of one sGobiUSBNet: the USB thread that probes and unbinds it, *)
(* qmi_sync_thread, and the calls of user programs on /dev/qcqmiX.  Each   *)
(* holds the structure through mpDev->refcount, and the clients on         *)
(* mpClientMemList belong to files, to the driver or to a call under way.  *)
(*                                                                         *)
(* A call is a thread's: several threads may be in calls on one file, and  *)
(* a file may have several descriptors (dup, fork).  close() is            *)
(* UserspaceClose, the flush operation, run for every descriptor; the      *)
(* kernel keeps the file, and with it a reference to the cdev, until the   *)
(* descriptors and the calls are gone.  Reads and polls are here for what  *)
(* they hold and wait for; what they deliver is in module ReadStore.       *)
(***************************************************************************)
EXTENDS Integers, Sequences, FiniteSets

CONSTANTS Threads, Files,
          UserServices,    \* the services programs ask for
          QMIWDA, QMIWDS, QMIDMS, QMICTL,
          None,
          MaxFds,          \* bound on the descriptors of a file
          MaxIds           \* bound on the clients the device gives a service

Services == UserServices \cup {QMIWDA, QMIWDS, QMIDMS}
DeviceIds == Services \X (1 .. MaxIds)
Clients == DeviceIds \cup {QMICTL}

ASSUME DeviceLifeAssumption ==
    /\ IsFiniteSet(Threads) /\ IsFiniteSet(Files)
    /\ MaxFds \in Nat /\ MaxIds \in Nat \ {0}
    /\ None \notin Clients \cup Files \cup Services
    /\ QMICTL \notin DeviceIds

VARIABLES refcount, freed,  \* kfree of the sGobiUSBNet
          mbQMIValid, mbDeregisterQMIDevice, mbQMIReady,
          cdev,             \* none, added, live (there is a device node), deleted
          usb, victim,      \* where the probe or unbind is, the client it releases
          sync, syncLeft, syncClient, \* qmi_sync_thread: place, services left
          mpClientMemList,  \* the clients; QMICTL, the first, is its head
          granted,          \* the client IDs the device has given
          pc, call,         \* per thread: place and arguments of its call
          fds,              \* per file: its descriptors
          data,             \* per file: the sQMIFilpStorage
          private,          \* per file: private_data points to it
          client,           \* per file: its mClientID, None for -1
          doubled,          \* history: closes that dropped a reference twice
          timedOut,         \* history: the wait for the cdev ran out
          orphans,          \* history: clients whose number was lost
          late              \* history: clients the release loop missed

devVars == <<refcount, freed, mbQMIValid, mbDeregisterQMIDevice, mbQMIReady, cdev>>
syncVars == <<sync, syncLeft, syncClient>>
fileVars == <<fds, data, private, client>>
clientVars == <<mpClientMemList, granted, orphans, late>>
history == <<doubled, timedOut>>
vars == <<devVars, usb, victim, syncVars, clientVars, pc, call, fileVars, history>>

Places == {"idle", "wait", "opened", "check", "alloc", "get", "add", "store",
           "steal", "stolen", "scan", "release", "delete", "drop", "read",
           "join", "poll", "woken"}
Calls == [file : Files \cup {None}, service : Services \cup {None},
          client : Clients \cup {None}, retried : BOOLEAN]
NoCall == [file |-> None, service |-> None, client |-> None, retried |-> FALSE]

CountTypes == refcount \in Int /\ doubled \in Nat
FlagTypes ==
    /\ freed \in BOOLEAN /\ timedOut \in BOOLEAN
    /\ mbQMIValid \in BOOLEAN /\ mbDeregisterQMIDevice \in BOOLEAN
    /\ mbQMIReady \in BOOLEAN
PlaceTypes ==
    /\ cdev \in {"none", "added", "live", "deleted"}
    /\ usb \in {"register", "kthread", "cdev", "bound", "unbind", "releasing",
                "deleting", "closing", "destroying", "waiting", "unref", "gone"}
    /\ sync \in {"none", "next", "add", "use", "release", "delete", "finish",
                 "unref", "done"}
ClientTypes ==
    /\ victim \in Clients \cup {None} /\ syncClient \in Clients \cup {None}
    /\ syncLeft \in Seq(Services)
    /\ mpClientMemList \subseteq Clients /\ granted \subseteq DeviceIds
    /\ orphans \subseteq Clients /\ late \subseteq Clients
CallTypes ==
    /\ pc \in [Threads -> Places]
    /\ call \in [Threads -> Calls]
FileTypes ==
    /\ fds \in [Files -> Nat]
    /\ data \in [Files -> {"none", "live", "freed"}]
    /\ private \in [Files -> BOOLEAN]
    /\ client \in [Files -> Clients \cup {None}]

TypeOK ==
    /\ CountTypes /\ FlagTypes /\ PlaceTypes /\ ClientTypes /\ CallTypes
    /\ FileTypes

\* GobiUSBNetProbe up to its call of RegisterQMIDevice.
Init ==
    /\ refcount = 1 /\ freed = FALSE
    /\ mbQMIValid = FALSE /\ mbDeregisterQMIDevice = FALSE /\ mbQMIReady = FALSE
    /\ cdev = "none" /\ usb = "register" /\ victim = None
    /\ sync = "none" /\ syncLeft = <<QMIWDA, QMIWDS, QMIDMS>> /\ syncClient = None
    /\ mpClientMemList = {} /\ granted = {} /\ orphans = {} /\ late = {}
    /\ pc = [t \in Threads |-> "idle"] /\ call = [t \in Threads |-> NoCall]
    /\ fds = [f \in Files |-> 0] /\ data = [f \in Files |-> "none"]
    /\ private = [f \in Files |-> FALSE] /\ client = [f \in Files |-> None]
    /\ doubled = 0 /\ timedOut = FALSE

-----------------------------------------------------------------------------
(* What the callers share.                                                 *)

\* A file the kernel keeps: it has a descriptor, or a call is under way on it.
\* It holds a reference to the cdev.
Held(f) == fds[f] > 0 \/ \E t \in Threads : call[t].file = f

\* atomic_dec_and_test and kfree.
DropAndFree ==
    /\ refcount' = refcount - 1
    /\ freed' = (freed \/ refcount = 1)

\* waitqueue_active: a thread sleeps in poll, or has not left it yet.
WaitqueueActive(c) ==
    \E t \in Threads : pc[t] \in {"poll", "woken"} /\ call[t].client = c

\* Deleting client c: its readers are notified; a wait queue somebody sleeps
\* on is left to leak, and nobody will wake it.
WakeReaders(c) ==
    [t \in Threads |-> IF pc[t] = "read" /\ call[t].client = c THEN "woken" ELSE pc[t]]
ForgetQueue(c) ==
    [t \in Threads |-> IF pc[t] \in {"poll", "woken", "read"} /\ call[t].client = c
                       THEN [call[t] EXCEPT !.client = None] ELSE call[t]]

\* GetClientID's exchange with the device over QMICTL.
Granted(service, c) ==
    /\ mbQMIValid /\ QMICTL \in mpClientMemList
    /\ c \in DeviceIds \ granted /\ c[1] = service
    /\ granted' = granted \cup {c}

\* ReleaseClientID's; its errors are not fatal.
Returned(c) ==
    \/ QMICTL \in mpClientMemList /\ granted' = granted \ {c}
    \/ UNCHANGED granted

\* GetClientID puts the new client on the list.
AddClient(c) ==
    /\ c \notin mpClientMemList
    /\ mpClientMemList' = mpClientMemList \cup {c}
    /\ late' = IF usb \in {"closing", "destroying", "waiting", "unref", "gone"}
               THEN late \cup {c} ELSE late

-----------------------------------------------------------------------------
(* RegisterQMIDevice, in the USB thread.                                   *)

\* The QMICTL client and the URBs.  A failing StartRead leaves the client.
RegisterQMIDevice ==
    /\ usb = "register"
    /\ \/ /\ mbQMIValid' = TRUE /\ mpClientMemList' = {QMICTL}
          /\ usb' = "kthread" /\ UNCHANGED late
       \/ /\ UNCHANGED mbQMIValid
          /\ \/ UNCHANGED <<mpClientMemList, late>>
             \/ mpClientMemList' = {QMICTL} /\ late' = {QMICTL}
          /\ usb' = "unbind"
    /\ UNCHANGED <<victim, refcount, freed, mbDeregisterQMIDevice, mbQMIReady, cdev,
                   syncVars, granted, orphans, pc, call, fileVars, history>>

\* Variant: the thread does not get a reference of its own.
StartSyncNoRef ==
    /\ usb = "kthread"
    /\ sync' = "next" /\ usb' = "cdev"
    /\ UNCHANGED <<devVars, victim, syncLeft, syncClient, clientVars, pc, call,
                   fileVars, history>>

\* kthread_run of qmi_sync_thread, with a reference.
StartSync ==
    /\ usb = "kthread"
    /\ \/ sync' = "next" /\ refcount' = refcount + 1 /\ usb' = "cdev"
       \/ UNCHANGED <<sync, refcount>> /\ usb' = "unbind"
    /\ UNCHANGED <<victim, freed, mbQMIValid, mbDeregisterQMIDevice, mbQMIReady, cdev,
                   syncLeft, syncClient, clientVars, pc, call, fileVars, history>>

\* cdev_add, and with a name for it device_create.
AddCdev ==
    /\ usb = "cdev"
    /\ \/ cdev' = "live" /\ usb' = "bound"
       \/ cdev' \in {"none", "added"} /\ usb' = "unbind"
    /\ UNCHANGED <<victim, refcount, freed, mbQMIValid, mbDeregisterQMIDevice, mbQMIReady,
                   syncVars, clientVars, pc, call, fileVars, history>>

-----------------------------------------------------------------------------
(* GobiNetDriverUnbind and DeregisterQMIDevice, in the USB thread.         *)

Disconnect ==
    /\ usb = "bound" /\ usb' = "unbind"
    /\ UNCHANGED <<devVars, victim, syncVars, clientVars, pc, call, fileVars, history>>

\* A device that is not valid is left as it is.
DeregisterQMIDevice ==
    /\ usb = "unbind"
    /\ IF mbQMIValid
       THEN mbDeregisterQMIDevice' = TRUE /\ usb' = "releasing"
       ELSE UNCHANGED mbDeregisterQMIDevice /\ usb' = "unref"
    /\ UNCHANGED <<victim, refcount, freed, mbQMIValid, mbQMIReady, cdev, syncVars,
                   clientVars, pc, call, fileVars, history>>

\* The head of mpClientMemList.
Heads == IF QMICTL \in mpClientMemList THEN {QMICTL} ELSE mpClientMemList

\* Variant: sleeps without waking anybody.
WakeNobody ==
    /\ usb = "releasing"
    /\ \E c \in Heads : WaitqueueActive(c)
    /\ UNCHANGED vars

\* A round for a client somebody polls: wake them, sleep, look again.
WakePollers ==
    /\ usb = "releasing"
    /\ \E c \in Heads :
           /\ WaitqueueActive(c)
           /\ pc' = [t \in Threads |-> IF pc[t] = "poll" /\ call[t].client = c
                                       THEN "woken" ELSE pc[t]]
    /\ UNCHANGED <<devVars, usb, victim, syncVars, clientVars, call, fileVars, history>>

\* Another round: nobody is seen on the wait queue, and the lock is dropped.
ReleaseHead ==
    /\ usb = "releasing"
    /\ \E c \in Heads : ~WaitqueueActive(c) /\ victim' = c
    /\ usb' = "deleting"
    /\ UNCHANGED <<devVars, syncVars, clientVars, pc, call, fileVars, history>>

\* ReleaseClientID of that client.  QMICTL was the first to go: the requests
\* for the others fail at once.
DeleteHead ==
    /\ usb = "deleting"
    /\ mpClientMemList' = mpClientMemList \ {victim}
    /\ pc' = WakeReaders(victim) /\ call' = ForgetQueue(victim)
    /\ usb' = "releasing" /\ victim' = None
    /\ UNCHANGED <<devVars, syncVars, granted, orphans, late, fileVars, history>>

\* Variant: done when the first client is released.
AllReleasedEarly ==
    /\ usb = "releasing" /\ QMICTL \notin mpClientMemList
    /\ mbQMIValid' = FALSE
    /\ usb' = IF cdev = "none" THEN "unref" ELSE "closing"
    /\ UNCHANGED <<victim, refcount, freed, mbDeregisterQMIDevice, mbQMIReady, cdev,
                   syncVars, clientVars, pc, call, fileVars, history>>

\* No client is left: KillRead (module ReadChain), and the device is invalid.
AllReleased ==
    /\ usb = "releasing" /\ mpClientMemList = {}
    /\ mbQMIValid' = FALSE
    /\ usb' = IF cdev = "none" THEN "unref" ELSE "closing"
    /\ UNCHANGED <<victim, refcount, freed, mbDeregisterQMIDevice, mbQMIReady, cdev,
                   syncVars, clientVars, pc, call, fileVars, history>>

\* One pass over the descriptors of all tasks.  UserspaceClose returns -ENXIO
\* for each: the files keep what they hold of the device.
ForceClose ==
    /\ usb = "closing"
    /\ fds' = [f \in Files |-> 0]
    /\ usb' = "destroying"
    /\ UNCHANGED <<devVars, victim, syncVars, clientVars, pc, call, data, private,
                   client, history>>

\* device_destroy: no more opens.
RemoveNode ==
    /\ usb = "destroying"
    /\ cdev' = "added" /\ usb' = "waiting"
    /\ UNCHANGED <<victim, refcount, freed, mbQMIValid, mbDeregisterQMIDevice,
                   mbQMIReady, syncVars, clientVars, pc, call, fileVars, history>>

\* The file is held by someone who may take longer than 30 seconds: a program
\* that keeps it open, or a call that sleeps.  The other steps take less.
HeldForLong(f) ==
    \/ fds[f] > 0
    \/ \E t \in Threads : call[t].file = f /\ pc[t] \in {"read", "poll"}

\* The wait for the references to the cdev, and cdev_del.
DeleteCdev ==
    /\ usb = "waiting"
    /\ \/ (\A f \in Files : ~Held(f)) /\ UNCHANGED timedOut
       \/ (\E f \in Files : HeldForLong(f)) /\ timedOut' = TRUE
    /\ cdev' = "deleted" /\ usb' = "unref"
    /\ UNCHANGED <<victim, refcount, freed, mbQMIValid, mbDeregisterQMIDevice,
                   mbQMIReady, syncVars, clientVars, pc, call, fileVars, doubled>>

\* Variant: frees the structure whoever holds it.
UnbindFrees ==
    /\ usb = "unref" /\ usb' = "gone"
    /\ refcount' = refcount - 1 /\ freed' = TRUE
    /\ UNCHANGED <<victim, mbQMIValid, mbDeregisterQMIDevice, mbQMIReady, cdev,
                   syncVars, clientVars, pc, call, fileVars, history>>

\* The probe's reference.
GobiNetDriverUnbind ==
    /\ usb = "unref" /\ usb' = "gone"
    /\ DropAndFree
    /\ UNCHANGED <<victim, mbQMIValid, mbDeregisterQMIDevice, mbQMIReady, cdev,
                   syncVars, clientVars, pc, call, fileVars, history>>

-----------------------------------------------------------------------------
(* qmi_sync_thread: it makes the device ready and needs a client for each  *)
(* of three services, of which it keeps the WDS one.                       *)

\* QMIReady, QMICTLSyncProc or a GetClientID fails.
SyncFails ==
    /\ sync \in {"next", "add"} /\ sync' = "finish"
    /\ UNCHANGED <<devVars, usb, victim, syncLeft, syncClient, clientVars, pc, call,
                   fileVars, history>>

SyncGetClient ==
    /\ sync = "next" /\ syncLeft # <<>>
    /\ \E c \in DeviceIds : Granted(Head(syncLeft), c) /\ syncClient' = c
    /\ sync' = "add"
    /\ UNCHANGED <<devVars, usb, victim, syncLeft, mpClientMemList, orphans, late,
                   pc, call, fileVars, history>>

SyncAddClient ==
    /\ sync = "add" /\ AddClient(syncClient) /\ sync' = "use"
    /\ UNCHANGED <<devVars, usb, victim, syncLeft, syncClient, granted, orphans, pc,
                   call, fileVars, history>>

\* The requests of QMIWDASetDataFormat, SetupQMIWDSCallback and
\* QMIDMSGetMEID; an error returns without releasing the client.
SyncUse ==
    /\ sync = "use"
    /\ \/ /\ sync' = IF Head(syncLeft) = QMIWDS THEN "next" ELSE "release"
          /\ syncLeft' = IF Head(syncLeft) = QMIWDS THEN Tail(syncLeft) ELSE syncLeft
          /\ UNCHANGED orphans
       \/ /\ sync' = "finish" /\ UNCHANGED syncLeft
          /\ orphans' = orphans \cup {syncClient}
    /\ UNCHANGED <<devVars, usb, victim, syncClient, mpClientMemList, granted, late,
                   pc, call, fileVars, history>>

SyncRelease ==
    /\ sync = "release"
    /\ IF mbQMIValid
       THEN Returned(syncClient) /\ sync' = "delete" /\ UNCHANGED syncLeft
       ELSE UNCHANGED granted /\ sync' = "next" /\ syncLeft' = Tail(syncLeft)
    /\ UNCHANGED <<devVars, usb, victim, syncClient, mpClientMemList, orphans, late,
                   pc, call, fileVars, history>>

SyncDelete ==
    /\ sync = "delete" /\ sync' = "next" /\ syncLeft' = Tail(syncLeft)
    /\ mpClientMemList' = mpClientMemList \ {syncClient}
    /\ pc' = WakeReaders(syncClient) /\ call' = ForgetQueue(syncClient)
    /\ UNCHANGED <<devVars, usb, victim, syncClient, granted, orphans, late, fileVars,
                   history>>

\* However it went, the openers are let in ...
SyncFinish ==
    /\ \/ sync = "finish"
       \/ sync = "next" /\ syncLeft = <<>>
    /\ mbQMIReady' = TRUE /\ sync' = "unref"
    /\ UNCHANGED <<refcount, freed, mbQMIValid, mbDeregisterQMIDevice, cdev, usb,
                   victim, syncLeft, syncClient, clientVars, pc, call, fileVars,
                   history>>

\* Variant: a decrement without the test.
SyncUnrefOnly ==
    /\ sync = "unref" /\ sync' = "done" /\ refcount' = refcount - 1
    /\ UNCHANGED <<freed, mbQMIValid, mbDeregisterQMIDevice, mbQMIReady, cdev, usb,
                   victim, syncLeft, syncClient, clientVars, pc, call, fileVars, history>>

\* ... and the reference goes.
SyncUnref ==
    /\ sync = "unref" /\ sync' = "done"
    /\ DropAndFree
    /\ UNCHANGED <<mbQMIValid, mbDeregisterQMIDevice, mbQMIReady, cdev, usb, victim,
                   syncLeft, syncClient, clientVars, pc, call, fileVars, history>>

SyncThread ==
    \/ SyncFails \/ SyncGetClient \/ SyncAddClient \/ SyncUse \/ SyncRelease
    \/ SyncDelete \/ SyncFinish \/ SyncUnref

Probe == RegisterQMIDevice \/ StartSync \/ AddCdev

Unbind ==
    \/ DeregisterQMIDevice \/ WakePollers \/ ReleaseHead \/ DeleteHead
    \/ AllReleased \/ ForceClose \/ RemoveNode \/ DeleteCdev \/ GobiNetDriverUnbind

-----------------------------------------------------------------------------
(* The calls of programs.                                                  *)

\* Thread t goes on to place p of its call.
GoTo(t, p) == pc' = [pc EXCEPT ![t] = p] /\ UNCHANGED call

\* Thread t enters a call on file f for client c.
Enter(t, p, f, c) ==
    /\ pc[t] = "idle"
    /\ pc' = [pc EXCEPT ![t] = p]
    /\ call' = [call EXCEPT ![t] = [NoCall EXCEPT !.file = f, !.client = c]]

Return(t) ==
    /\ pc' = [pc EXCEPT ![t] = "idle"]
    /\ call' = [call EXCEPT ![t] = NoCall]

\* A file that a call can be made on, as far as the calls' first checks go.
Usable(f) == fds[f] > 0 /\ private[f] /\ mbQMIValid

\* open: UserspaceOpen takes a reference for its wait.
UserspaceOpen(t, f) ==
    /\ cdev = "live" /\ data[f] = "none" /\ ~Held(f)
    /\ refcount' = refcount + 1
    /\ Enter(t, IF mbQMIReady THEN "opened" ELSE "wait", f, None)
    /\ UNCHANGED <<freed, mbQMIValid, mbDeregisterQMIDevice, mbQMIReady, cdev, usb,
                   victim, syncVars, clientVars, fileVars, history>>

OpenReady(t) ==
    /\ pc[t] = "wait" /\ mbQMIReady /\ GoTo(t, "opened")
    /\ UNCHANGED <<devVars, usb, victim, syncVars, clientVars, fileVars, history>>

\* 15 seconds, or a signal.
OpenTimeout(t) ==
    /\ pc[t] = "wait" /\ ~mbQMIReady
    /\ DropAndFree /\ Return(t)
    /\ UNCHANGED <<mbQMIValid, mbDeregisterQMIDevice, mbQMIReady, cdev, usb, victim,
                   syncVars, clientVars, fileVars, history>>

\* atomic_dec, nothing else: IsDeviceValid follows.
OpenUnref(t) ==
    /\ pc[t] = "opened" /\ refcount' = refcount - 1 /\ GoTo(t, "check")
    /\ UNCHANGED <<freed, mbQMIValid, mbDeregisterQMIDevice, mbQMIReady, cdev, usb,
                   victim, syncVars, clientVars, fileVars, history>>

\* IsDeviceValid, and the memory for the file's storage.
OpenCheck(t) ==
    /\ pc[t] = "check"
    /\ \/ mbQMIValid /\ GoTo(t, "alloc")
       \/ Return(t)
    /\ UNCHANGED <<devVars, usb, victim, syncVars, clientVars, fileVars, history>>

\* The file's own reference; the descriptor is installed.
OpenReturn(t) ==
    LET f == call[t].file
    IN  /\ pc[t] = "alloc" /\ Return(t)
        /\ refcount' = refcount + 1
        /\ data' = [data EXCEPT ![f] = "live"]
        /\ private' = [private EXCEPT ![f] = TRUE]
        /\ fds' = [fds EXCEPT ![f] = 1]
        /\ UNCHANGED <<freed, mbQMIValid, mbDeregisterQMIDevice, mbQMIReady, cdev,
                       usb, victim, syncVars, clientVars, client, history>>

\* dup or fork.
Dup(f) ==
    /\ fds[f] \in 1 .. MaxFds - 1
    /\ fds' = [fds EXCEPT ![f] = @ + 1]
    /\ UNCHANGED <<devVars, usb, victim, syncVars, clientVars, pc, call, data, private,
                   client, history>>

\* ioctl IOCTL_QMI_GET_SERVICE_FILE.
UserspaceIOCTL(t, f) ==
    /\ Usable(f) /\ client[f] = None
    /\ \E s \in UserServices :
           /\ pc[t] = "idle" /\ pc' = [pc EXCEPT ![t] = "get"]
           /\ call' = [call EXCEPT ![t] = [NoCall EXCEPT !.file = f, !.service = s]]
    /\ UNCHANGED <<devVars, usb, victim, syncVars, clientVars, fileVars, history>>

\* GetClientID: the device's answer ...
GetClientID(t) ==
    /\ pc[t] = "get"
    /\ \E c \in DeviceIds :
           /\ Granted(call[t].service, c)
           /\ call' = [call EXCEPT ![t].client = c]
    /\ pc' = [pc EXCEPT ![t] = "add"]
    /\ UNCHANGED <<devVars, usb, victim, syncVars, mpClientMemList, orphans, late,
                   fileVars, history>>

\* ... the client's memory ...
IoctlAddClient(t) ==
    /\ pc[t] = "add" /\ AddClient(call[t].client) /\ GoTo(t, "store")
    /\ UNCHANGED <<devVars, usb, victim, syncVars, granted, orphans, fileVars, history>>

\* ... and its number in the file, which another call may have closed or given
\* another client meanwhile.
IoctlStore(t) ==
    LET f == call[t].file
    IN  /\ pc[t] = "store" /\ Return(t)
        /\ client' = [client EXCEPT ![f] = call[t].client]
        /\ orphans' = orphans \cup (IF private[f] THEN {client[f]} \ {None}
                                                 ELSE {call[t].client})
        /\ UNCHANGED <<devVars, usb, victim, syncVars, mpClientMemList, granted, late,
                       fds, data, private, history>>

\* GetClientID fails: for WDA the driver releases client 1 and tries again.
IoctlFails(t) ==
    /\ pc[t] \in {"get", "add"}
    /\ IF call[t].service = QMIWDA /\ ~call[t].retried
       THEN /\ pc' = [pc EXCEPT ![t] = "steal"]
            /\ call' = [call EXCEPT ![t].client = <<QMIWDA, 1>>, ![t].retried = TRUE]
       ELSE Return(t)
    /\ UNCHANGED <<devVars, usb, victim, syncVars, clientVars, fileVars, history>>

\* ReleaseClientID in a call, from a place to the next: the request ...
ReleaseRequest(t, from, deleting, next) ==
    /\ pc[t] = from
    /\ IF mbQMIValid THEN Returned(call[t].client) /\ GoTo(t, deleting)
                     ELSE UNCHANGED granted /\ GoTo(t, next)
    /\ UNCHANGED <<devVars, usb, victim, syncVars, mpClientMemList, orphans, late,
                   fileVars, history>>

\* ... and the memory.
ReleaseMemory(t, from, next) ==
    LET c == call[t].client
    IN  /\ pc[t] = from
        /\ mpClientMemList' = mpClientMemList \ {c}
        /\ pc' = [WakeReaders(c) EXCEPT ![t] = next]
        /\ call' = [ForgetQueue(c) EXCEPT ![t].client = None]
        /\ UNCHANGED <<devVars, usb, victim, syncVars, granted, orphans, late, fileVars,
                       history>>

IoctlRelease(t) ==
    \/ ReleaseRequest(t, "steal", "stolen", "get")
    \/ ReleaseMemory(t, "stolen", "get")

\* close: a descriptor goes; UserspaceClose looks at private_data ...
UserspaceClose(t, f) ==
    /\ fds[f] > 0
    /\ fds' = [fds EXCEPT ![f] = @ - 1]
    /\ IF private[f] THEN Enter(t, "scan", f, None)
                     ELSE pc[t] = "idle" /\ UNCHANGED <<pc, call>>
    /\ UNCHANGED <<devVars, usb, victim, syncVars, clientVars, data, private, client,
                   history>>

\* Variant: leaves the client to the disconnect.
CloseScanKeeps(t) ==
    LET f == call[t].file
    IN  /\ pc[t] = "scan"
        /\ IF fds[f] = 0 /\ mbQMIValid
           THEN /\ private' = [private EXCEPT ![f] = FALSE] /\ GoTo(t, "drop")
           ELSE UNCHANGED private /\ Return(t)
        /\ UNCHANGED <<devVars, usb, victim, syncVars, clientVars, fds, data, client,
                       doubled, timedOut>>

\* ... whether another descriptor is left, and whether the device is valid.
CloseScan(t) ==
    LET f == call[t].file
    IN  /\ pc[t] = "scan"
        /\ IF fds[f] = 0 /\ mbQMIValid
           THEN /\ private' = [private EXCEPT ![f] = FALSE]
                /\ IF client[f] # None /\ ~mbDeregisterQMIDevice
                   THEN /\ pc' = [pc EXCEPT ![t] = "release"]
                        /\ call' = [call EXCEPT ![t].client = client[f]]
                   ELSE GoTo(t, "drop")
           ELSE UNCHANGED private /\ Return(t)
        /\ UNCHANGED <<devVars, usb, victim, syncVars, clientVars, fds, data, client,
                       doubled, timedOut>>

CloseRelease(t) ==
    \/ ReleaseRequest(t, "release", "delete", "drop")
    \/ ReleaseMemory(t, "delete", "drop")

\* atomic_dec, and kfree of the storage.
CloseUnref(t) ==
    LET f == call[t].file
    IN  /\ pc[t] = "drop" /\ Return(t)
        /\ refcount' = refcount - 1
        /\ data' = [data EXCEPT ![f] = "freed"]
        /\ doubled' = IF data[f] = "freed" THEN doubled + 1 ELSE doubled
        /\ UNCHANGED <<freed, mbQMIValid, mbDeregisterQMIDevice, mbQMIReady, cdev, usb,
                       victim, syncVars, clientVars, fds, private, client, timedOut>>

\* ReadSync has registered as a reader; module ReadStore has the rest.
UserspaceRead(t, f) ==
    /\ Usable(f) /\ client[f] \in mpClientMemList /\ Enter(t, "read", f, client[f])
    /\ UNCHANGED <<devVars, usb, victim, syncVars, clientVars, fileVars, history>>

\* UserspacePoll's checks ...
UserspacePoll(t, f) ==
    /\ Usable(f) /\ ~mbDeregisterQMIDevice /\ client[f] # None
    /\ Enter(t, "join", f, client[f])
    /\ UNCHANGED <<devVars, usb, victim, syncVars, clientVars, fileVars, history>>

\* ... and, under the lock, the client's wait queue.
PollJoin(t) ==
    /\ pc[t] = "join"
    /\ IF call[t].client \in mpClientMemList THEN GoTo(t, "poll") ELSE Return(t)
    /\ UNCHANGED <<devVars, usb, victim, syncVars, clientVars, fileVars, history>>

\* Data, a timeout or a signal.
Wake(t) ==
    /\ pc[t] \in {"read", "poll"} /\ Return(t)
    /\ UNCHANGED <<devVars, usb, victim, syncVars, clientVars, fileVars, history>>

\* Woken for the end of the client.
LeaveWait(t) ==
    /\ pc[t] = "woken" /\ Return(t)
    /\ UNCHANGED <<devVars, usb, victim, syncVars, clientVars, fileVars, history>>

\* A call that has begun goes on ...
Continue(t) ==
    \/ OpenReady(t) \/ OpenTimeout(t) \/ OpenUnref(t) \/ OpenCheck(t) \/ OpenReturn(t)
    \/ IoctlAddClient(t) \/ IoctlStore(t) \/ IoctlRelease(t)
    \/ CloseScan(t) \/ CloseRelease(t) \/ CloseUnref(t)
    \/ PollJoin(t) \/ LeaveWait(t)

\* ... or waits for the device, for data or for a signal.
Answer(t) == GetClientID(t) \/ IoctlFails(t) \/ Wake(t)

Begin(t, f) ==
    \/ UserspaceOpen(t, f) \/ UserspaceIOCTL(t, f) \/ UserspaceClose(t, f)
    \/ UserspaceRead(t, f) \/ UserspacePoll(t, f)

Next ==
    \/ Probe \/ Disconnect \/ Unbind \/ SyncThread
    \/ \E t \in Threads : Continue(t) \/ Answer(t) \/ \E f \in Files : Begin(t, f)
    \/ \E f \in Files : Dup(f)

Spec == Init /\ [][Next]_vars

\* The unbind, qmi_sync_thread and calls in the kernel run on.  A call waits
\* for the device's answer as long as the QMICTL client is there.
Fairness ==
    /\ WF_vars(Unbind) /\ WF_vars(SyncThread)
    /\ \A t \in Threads :
           /\ WF_vars(Continue(t))
           /\ WF_vars(IoctlFails(t) /\ (pc[t] = "add" \/ QMICTL \notin mpClientMemList))

FairSpec == Spec /\ Fairness

-----------------------------------------------------------------------------
(* The properties.                                                         *)

\* The openers that wait and the files not closed: each has a reference, and so
\* have the probe and qmi_sync_thread.
Openers == {t \in Threads : pc[t] \in {"wait", "opened"}}
Kept == {f \in Files : data[f] = "live"}
One(has) == IF has THEN 1 ELSE 0

\* refcount is the number of those who have a reference, less the closes that
\* gave back a file's reference a second time.
RefsCounted ==
    refcount = One(usb # "gone") + One(sync \notin {"none", "done"})
               + Cardinality(Openers) + Cardinality(Kept) - doubled

\* Nobody is in a call, and no program has the device open.
NoCalls == \A t \in Threads : pc[t] = "idle"
NoFiles == \A f \in Files : fds[f] = 0

\* The structure, with the cdev in it, is freed when nobody needs it any more,
\* unless two closes of one file overlapped or the wait for the cdev ran out.
NoUseAfterFree ==
    freed /\ doubled = 0 /\ ~timedOut =>
        usb = "gone" /\ sync \in {"none", "done"} /\ NoCalls /\ NoFiles

\* When everybody is done the structure is freed; it leaks only with a file
\* that was open when the device went, or after one of the two races.
FreedInTheEnd ==
    usb = "gone" /\ sync \in {"none", "done"} /\ NoCalls /\ NoFiles =>
        \/ freed
        \/ Kept # {}
        \/ doubled > 0 \/ timedOut

\* Every client on the list is somebody's who will release it: a file's, the
\* driver's own or a call's; a client is lost only when two calls on one file
\* overlap or the driver's own requests fail.
ClientHasOwner ==
    ~mbDeregisterQMIDevice =>
        \A c \in mpClientMemList \ orphans :
            \/ c = QMICTL
            \/ \E f \in Files : data[f] = "live" /\ client[f] = c
            \/ \E t \in Threads : call[t].client = c
            \/ c[1] = QMIWDS
            \/ sync \in {"use", "release", "delete"} /\ syncClient = c

\* The disconnect leaves no client behind but those that a GetClientID under
\* way lists after the others were released, or a failed probe.
ClientsReleased == usb = "gone" => mpClientMemList \subseteq late

\* The disconnect ends, whoever polls, reads or holds the device open.
DisconnectEnds == usb = "releasing" ~> usb = "gone"
=============================================================================
