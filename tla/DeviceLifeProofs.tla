-------------------------- MODULE DeviceLifeProofs --------------------------
(***************************************************************************)
(* The references to an sGobiUSBNet are counted right, and it is not freed *)
(* under anybody, for any number of threads, files, descriptors and        *)
(* clients.  The count (RefsCounted) shows that a decrement to zero leaves *)
(* nobody with a reference; those without one are the calls on a file the  *)
(* kernel still keeps, and GoneQuiet says that the unbind has waited for   *)
(* these, which is where an expired wait comes in.                         *)
(***************************************************************************)
EXTENDS DeviceLife, FiniteSetTheorems, SequenceTheorems, TLAPS

-----------------------------------------------------------------------------
(* Types.                                                                  *)

\* The places where Next does not touch the calls but for waking threads up.
Quiet == Probe \/ Disconnect \/ Unbind \/ SyncThread

\* A call with another client is a call on the same file.
LEMMA CallWithClient ==
    ASSUME NEW r \in Calls, NEW c \in Clients \cup {None}
    PROVE  /\ [r EXCEPT !.client = c] \in Calls
           /\ [r EXCEPT !.client = c].file = r.file
           /\ [r EXCEPT !.client = c].client = c
  BY DEF Calls

\* The end of a client leaves the calls on their files; reads are woken, and
\* only reads and polls are touched.
LEMMA ForgetKeeps ==
    ASSUME NEW c, CallTypes
    PROVE  /\ ForgetQueue(c) \in [Threads -> Calls]
           /\ WakeReaders(c) \in [Threads -> Places]
           /\ \A t \in Threads :
                  /\ ForgetQueue(c)[t].file = call[t].file
                  /\ pc[t] \notin {"poll", "woken", "read"} =>
                         ForgetQueue(c)[t] = call[t]
                  /\ WakeReaders(c)[t] =
                         IF pc[t] = "read" /\ call[t].client = c THEN "woken" ELSE pc[t]
<1> DEFINE new(t) == [call[t] EXCEPT !.client = None]
<1>1. \A t \in Threads : new(t) \in Calls /\ new(t).file = call[t].file
  BY CallWithClient DEF CallTypes
<1>2. ForgetQueue(c) = [t \in Threads |->
          IF pc[t] \in {"poll", "woken", "read"} /\ call[t].client = c
          THEN new(t) ELSE call[t]]
  BY DEF ForgetQueue
<1>3. \A t \in Threads : call[t] \in Calls
  BY DEF CallTypes
<1> HIDE DEF new
<1>4. ForgetQueue(c) \in [Threads -> Calls]
  BY <1>1, <1>2, <1>3
<1>5. \A t \in Threads :
          /\ ForgetQueue(c)[t].file = call[t].file
          /\ pc[t] \notin {"poll", "woken", "read"} => ForgetQueue(c)[t] = call[t]
  BY <1>1, <1>2
<1>6. \A t \in Threads :
          WakeReaders(c)[t] = IF pc[t] = "read" /\ call[t].client = c THEN "woken"
                                                                     ELSE pc[t]
  BY DEF WakeReaders
<1>7. WakeReaders(c) \in [Threads -> Places]
  BY DEF CallTypes, Places, WakeReaders
<1> QED BY <1>4, <1>5, <1>6, <1>7

\* A thread in a call is in a call on a file.
CallsOK ==
    \A t \in Threads :
        /\ pc[t] # "idle" => call[t].file \in Files
        /\ pc[t] \in {"add", "store"} => call[t].client \in Clients

Typed == CountTypes /\ CallTypes /\ FileTypes /\ CallsOK

LEMMA QuietTyped == ASSUME Typed, Quiet PROVE Typed'
<1> USE DEF Typed
<1>1. CASE UNCHANGED <<pc, call, fileVars, doubled>> /\ refcount' \in Int
  BY <1>1 DEF CountTypes, CallTypes, FileTypes, CallsOK, fileVars
<1>2. CASE WakePollers
  <2>1. UNCHANGED <<call, fileVars, doubled, refcount>>
    BY <1>2 DEF WakePollers, devVars, history
  <2>2. PICK c : pc' = [t \in Threads |-> IF pc[t] = "poll" /\ call[t].client = c
                                         THEN "woken" ELSE pc[t]]
    BY <1>2 DEF WakePollers
  <2> QED BY <2>1, <2>2 DEF CountTypes, CallTypes, Places, FileTypes, CallsOK, fileVars
<1>3. CASE DeleteHead \/ SyncDelete
  <2>1. PICK c : pc' = WakeReaders(c) /\ call' = ForgetQueue(c)
    BY <1>3 DEF DeleteHead, SyncDelete
  <2>2. UNCHANGED <<fileVars, doubled, refcount>>
    BY <1>3 DEF DeleteHead, SyncDelete, devVars, history
  <2>3. CallTypes'
    BY <2>1, ForgetKeeps DEF CallTypes
  <2>4. CallsOK'
    BY <2>1, ForgetKeeps DEF CallsOK
  <2> QED BY <2>2, <2>3, <2>4 DEF CountTypes, FileTypes, fileVars
<1>4. CASE ForceClose
  BY <1>4 DEF ForceClose, CountTypes, CallTypes, FileTypes, CallsOK, devVars, history
<1>5. ASSUME ~WakePollers, ~DeleteHead, ~SyncDelete, ~ForceClose
      PROVE  UNCHANGED <<pc, call, fileVars, doubled>> /\ refcount' \in Int
  <2>1. CASE Probe \/ Disconnect
    BY <2>1 DEF CountTypes, devVars, fileVars, history, Probe, RegisterQMIDevice, StartSync,
          AddCdev, Disconnect
  <2>2. CASE Unbind
    BY <1>5, <2>2 DEF CountTypes, devVars, fileVars, history, Unbind, DeregisterQMIDevice,
          ReleaseHead, AllReleased, RemoveNode, DeleteCdev, GobiNetDriverUnbind, DropAndFree
  <2>3. CASE SyncThread
    BY <1>5, <2>3 DEF CountTypes, devVars, fileVars, history, SyncThread, SyncFails,
          SyncGetClient, SyncAddClient, SyncUse, SyncRelease, SyncFinish, SyncUnref, DropAndFree
  <2> QED BY <2>1, <2>2, <2>3 DEF Quiet
<1> QED BY <1>1, <1>2, <1>3, <1>4, <1>5

\* A thread's own steps.
LEMMA CallTyped ==
    ASSUME Typed, NEW t \in Threads, Continue(t) \/ Answer(t)
    PROVE  Typed'
<1> USE DEF Typed
<1>1. CASE \E p \in Places \ {"add", "store"} : pc' = [pc EXCEPT ![t] = p] /\ UNCHANGED <<call, fileVars, doubled>> /\ pc[t] # "idle"
           /\ refcount' \in Int
  BY <1>1 DEF CountTypes, CallTypes, FileTypes, CallsOK, fileVars
<1>2. CASE Return(t) /\ UNCHANGED <<fileVars, doubled>> /\ refcount' \in Int
  BY <1>2 DEF Return, CountTypes, CallTypes, Places, FileTypes, CallsOK, fileVars, Calls, NoCall
<1>3. CASE OpenReady(t) \/ OpenTimeout(t) \/ OpenUnref(t) \/ OpenCheck(t)
  BY <1>1, <1>2, <1>3 DEF OpenReady, OpenTimeout, OpenUnref, OpenCheck, GoTo, Places, DropAndFree, CountTypes, devVars, history
<1>4. CASE OpenReturn(t)
  BY <1>4 DEF OpenReturn, Return, CountTypes, CallTypes, Places, FileTypes, CallsOK, Calls, NoCall, history
<1>5. CASE PollJoin(t) \/ LeaveWait(t) \/ Wake(t)
  BY <1>1, <1>2, <1>5 DEF PollJoin, LeaveWait, Wake, GoTo, Places, CountTypes, devVars, history
<1>11. CASE IoctlAddClient(t)
  BY <1>11 DEF IoctlAddClient, GoTo, CountTypes, CallTypes, Places, FileTypes, CallsOK,
        devVars, fileVars, history
<1>6. CASE IoctlStore(t)
  BY <1>6 DEF IoctlStore, Return, CountTypes, CallTypes, Places, FileTypes, CallsOK, Calls, NoCall, devVars, history
<1>7. CASE IoctlRelease(t) \/ CloseRelease(t)
  <2>1. ASSUME NEW from, NEW deleting \in Places \ {"add", "store"},
               NEW next \in Places \ {"add", "store"}, from # "idle",
               ReleaseRequest(t, from, deleting, next)
        PROVE  Typed'
    BY <1>1, <2>1 DEF ReleaseRequest, GoTo, CountTypes, devVars, history
  <2>2. ASSUME NEW from, NEW next \in Places \ {"add", "store"}, from # "idle",
               from \notin {"poll", "woken", "read"}, ReleaseMemory(t, from, next)
        PROVE  Typed'
    <3> DEFINE c == call[t].client
    <3>1. pc' = [WakeReaders(c) EXCEPT ![t] = next]
      BY <2>2 DEF ReleaseMemory
    <3>2. call' = [ForgetQueue(c) EXCEPT ![t] = [ForgetQueue(c)[t] EXCEPT !.client = None]]
      BY <2>2 DEF ReleaseMemory
    <3>3. UNCHANGED <<fileVars, doubled, refcount>>
      BY <2>2 DEF ReleaseMemory, devVars, history
    <3>4. ForgetQueue(c)[t] = call[t] /\ call[t] \in Calls /\ pc[t] # "idle"
      BY <2>2, ForgetKeeps DEF ReleaseMemory, CallTypes
    <3> DEFINE new == [call[t] EXCEPT !.client = None]
    <3>5. new \in Calls /\ new.file = call[t].file
      BY <3>4, CallWithClient
    <3> HIDE DEF new, c
    <3>6. call' = [ForgetQueue(c) EXCEPT ![t] = new]
      BY <3>2, <3>4 DEF new
    <3>7. CallTypes'
      BY <3>1, <3>5, <3>6, ForgetKeeps DEF CallTypes
    <3>8. CallsOK'
      BY <3>1, <3>4, <3>5, <3>6, ForgetKeeps DEF CallsOK
    <3> QED BY <3>3, <3>7, <3>8 DEF CountTypes, FileTypes, fileVars
  <2> QED BY <1>7, <2>1, <2>2 DEF IoctlRelease, CloseRelease, Places
<1>8. CASE CloseScan(t)
  <2> DEFINE f == call[t].file
  <2>1. f \in Files /\ call[t] \in Calls /\ client[f] \in Clients \cup {None}
    BY <1>8 DEF CloseScan, CallsOK, CallTypes, FileTypes
  <2> DEFINE new == [call[t] EXCEPT !.client = client[f]]
  <2>2. new \in Calls /\ new.file = f
    BY <2>1, CallWithClient
  <2>3. /\ pc[t] = "scan"
        /\ \/ pc' = [pc EXCEPT ![t] = "release"] /\ call' = [call EXCEPT ![t] = new]
           \/ GoTo(t, "drop")
           \/ Return(t)
        /\ private' = private \/ private' = [private EXCEPT ![f] = FALSE]
        /\ UNCHANGED <<refcount, fds, data, client, doubled>>
    BY <1>8 DEF CloseScan, devVars
  <2> HIDE DEF new, f
  <2>4. FileTypes' /\ CountTypes'
    BY <2>3 DEF FileTypes, CountTypes
  <2>5. CallTypes'
    <3>1. NoCall \in Calls
      BY DEF NoCall, Calls
    <3> QED BY <2>2, <2>3, <3>1 DEF CallTypes, Places, GoTo, Return
  <2>6. CallsOK'
    BY <2>1, <2>2, <2>3 DEF CallsOK, CallTypes, GoTo, Return, NoCall
  <2> QED BY <2>4, <2>5, <2>6
<1>9. CASE CloseUnref(t)
  BY <1>9 DEF CloseUnref, Return, CountTypes, CallTypes, Places, FileTypes, CallsOK, Calls, NoCall
<1>10. CASE GetClientID(t)
  <2>1. PICK c \in DeviceIds : call' = [call EXCEPT ![t] = [call[t] EXCEPT !.client = c]]
    BY <1>10 DEF GetClientID
  <2> DEFINE new == [call[t] EXCEPT !.client = c]
  <2>2. /\ pc[t] = "get" /\ pc' = [pc EXCEPT ![t] = "add"]
        /\ UNCHANGED <<refcount, doubled, fileVars>>
    BY <1>10 DEF GetClientID, devVars, history
  <2>3. call[t] \in Calls /\ c \in Clients /\ call[t].file \in Files
    BY <2>2 DEF CallTypes, Clients, CallsOK
  <2>4. new \in Calls /\ new.file = call[t].file /\ new.client = c
    BY <2>3, CallWithClient
  <2> HIDE DEF new
  <2>5. call' = [call EXCEPT ![t] = new]
    BY <2>1 DEF new
  <2>6. CallTypes' /\ CallsOK'
    BY <2>2, <2>3, <2>4, <2>5 DEF CallTypes, Places, CallsOK
  <2> QED BY <2>2, <2>6 DEF CountTypes, FileTypes, fileVars
<1>12. CASE IoctlFails(t)
  <2> DEFINE new == [call[t] EXCEPT !.client = <<QMIWDA, 1>>, !.retried = TRUE]
  <2>1. /\ \/ pc' = [pc EXCEPT ![t] = "steal"] /\ call' = [call EXCEPT ![t] = new]
           \/ Return(t)
        /\ pc[t] # "idle" /\ UNCHANGED <<refcount, doubled, fileVars>>
    BY <1>12 DEF IoctlFails, devVars, history
  <2>2. call[t] \in Calls /\ <<QMIWDA, 1>> \in Clients /\ call[t].file \in Files
    BY <2>1, DeviceLifeAssumption DEF CallTypes, CallsOK, Clients, DeviceIds, Services
  <2>3. new \in Calls /\ new.file = call[t].file
    BY <2>2 DEF Calls
  <2> HIDE DEF new
  <2>4. CASE Return(t)
    BY <1>2, <2>1, <2>4 DEF CountTypes
  <2>5. CASE pc' = [pc EXCEPT ![t] = "steal"] /\ call' = [call EXCEPT ![t] = new]
    <3>1. CallTypes' /\ CallsOK'
      BY <2>2, <2>3, <2>5 DEF CallTypes, Places, CallsOK
    <3> QED BY <2>1, <3>1 DEF CountTypes, FileTypes, fileVars
  <2> QED BY <2>1, <2>4, <2>5
<1> QED BY <1>3, <1>4, <1>5, <1>6, <1>7, <1>8, <1>9, <1>10, <1>11, <1>12 DEF Continue, Answer

\* A call begins, or a descriptor is duplicated.
LEMMA BeginTyped ==
    ASSUME Typed, NEW f \in Files, Dup(f) \/ \E t \in Threads : Begin(t, f)
    PROVE  Typed'
<1> USE DEF Typed
<1>1. CASE Dup(f)
  BY <1>1 DEF Dup, CountTypes, CallTypes, FileTypes, CallsOK, devVars, history
<1>2. ASSUME NEW t \in Threads, Begin(t, f) PROVE Typed'
  <2> DEFINE new(c) == [NoCall EXCEPT !.file = f, !.client = c]
             asked(s) == [NoCall EXCEPT !.file = f, !.service = s]
  <2>1. \A c \in Clients \cup {None} : new(c) \in Calls /\ new(c).file = f
    BY DEF NoCall, Calls
  <2>2. \A s \in UserServices : asked(s) \in Calls /\ asked(s).file = f
    BY DEF NoCall, Calls, Services
  <2>3. client[f] \in Clients \cup {None}
    BY DEF FileTypes
  <2>4. \/ UNCHANGED <<pc, call>>
        \/ /\ \E p \in Places \ {"add", "store"} : pc' = [pc EXCEPT ![t] = p]
           /\ \/ \E c \in Clients \cup {None} : call' = [call EXCEPT ![t] = new(c)]
              \/ \E s \in UserServices : call' = [call EXCEPT ![t] = asked(s)]
    BY <1>2, <2>3 DEF Begin, UserspaceOpen, UserspaceIOCTL, UserspaceClose,
          UserspaceRead, UserspacePoll, Enter, Places
  <2>5. /\ refcount' \in Int /\ UNCHANGED <<data, private, client, doubled>>
        /\ (fds' = fds) \/ (fds[f] > 0 /\ fds' = [fds EXCEPT ![f] = fds[f] - 1])
    <3>1. CASE UserspaceOpen(t, f)
      BY <3>1 DEF UserspaceOpen, CountTypes, fileVars, history
    <3>2. CASE UserspaceClose(t, f)
      BY <3>2 DEF UserspaceClose, CountTypes, devVars, history
    <3>3. CASE UserspaceIOCTL(t, f) \/ UserspaceRead(t, f) \/ UserspacePoll(t, f)
      BY <3>3 DEF UserspaceIOCTL, UserspaceRead, UserspacePoll, CountTypes, devVars,
            fileVars, history
    <3> QED BY <1>2, <3>1, <3>2, <3>3 DEF Begin
  <2> HIDE DEF new, asked
  <2>6. CallTypes' /\ CallsOK'
    BY <2>1, <2>2, <2>4 DEF CallTypes, CallsOK
  <2>7. FileTypes' /\ CountTypes'
    BY <2>5 DEF FileTypes, CountTypes
  <2> QED BY <2>6, <2>7
<1> QED BY <1>1, <1>2

-----------------------------------------------------------------------------
(* What a step does to the calls and the files.                            *)

Opening == {"wait", "opened", "check", "alloc"}
Closing == {"scan", "release", "delete", "drop"}

\* Thread u is at most woken up.
AtMostWoken(u) ==
    /\ call'[u].file = call[u].file
    /\ \/ pc'[u] = pc[u]
       \/ pc[u] \in {"read", "poll"} /\ pc'[u] = "woken"

LEMMA QuietKeeps ==
    ASSUME Typed, Quiet
    PROVE  /\ \A u \in Threads : AtMostWoken(u)
           /\ UNCHANGED <<data, private, doubled>>
           /\ (fds' = fds) \/ (fds' = [f \in Files |-> 0])
<1> USE DEF Typed
<1>1. CASE UNCHANGED <<pc, call, fileVars, doubled>>
  BY <1>1 DEF AtMostWoken, fileVars
<1>2. CASE WakePollers
  <2>1. UNCHANGED <<call, fileVars, doubled>>
    BY <1>2 DEF WakePollers, history
  <2>2. PICK c : pc' = [t \in Threads |-> IF pc[t] = "poll" /\ call[t].client = c
                                         THEN "woken" ELSE pc[t]]
    BY <1>2 DEF WakePollers
  <2> QED BY <2>1, <2>2 DEF AtMostWoken, fileVars
<1>3. CASE DeleteHead \/ SyncDelete
  <2>1. PICK c : pc' = WakeReaders(c) /\ call' = ForgetQueue(c)
    BY <1>3 DEF DeleteHead, SyncDelete
  <2>2. UNCHANGED <<fileVars, doubled>>
    BY <1>3 DEF DeleteHead, SyncDelete, history
  <2> QED BY <2>1, <2>2, ForgetKeeps DEF AtMostWoken, fileVars
<1>4. CASE ForceClose
  BY <1>4 DEF ForceClose, AtMostWoken, history
<1>5. ASSUME ~WakePollers, ~DeleteHead, ~SyncDelete, ~ForceClose
      PROVE  UNCHANGED <<pc, call, fileVars, doubled>>
  <2>1. CASE Probe \/ Disconnect
    BY <2>1 DEF history, Probe, RegisterQMIDevice, StartSync, AddCdev, Disconnect
  <2>2. CASE Unbind
    BY <1>5, <2>2 DEF history, Unbind, DeregisterQMIDevice, ReleaseHead, AllReleased,
          RemoveNode, DeleteCdev, GobiNetDriverUnbind
  <2>3. CASE SyncThread
    BY <1>5, <2>3 DEF history, SyncThread, SyncFails, SyncGetClient, SyncAddClient, SyncUse,
          SyncRelease, SyncFinish, SyncUnref
  <2> QED BY <2>1, <2>2, <2>3 DEF Quiet
<1> QED BY <1>1, <1>2, <1>3, <1>4, <1>5

\* Thread t returns, or goes on with the same kind of call.
GoesOn(t) ==
    \/ pc'[t] = "idle" /\ call'[t].file = None
    \/ /\ call'[t].file = call[t].file /\ pc[t] # "idle" /\ pc'[t] # "idle"
       /\ (pc[t] \in Opening) <=> (pc'[t] \in Opening)
       /\ (pc[t] \in Closing) <=> (pc'[t] \in Closing)

\* What thread t does to the files.
FilesStep(t) ==
    LET f == call[t].file
    IN  \/ /\ UNCHANGED <<fds, data>>
           /\ (private' = private) \/ (private' = [private EXCEPT ![f] = FALSE])
        \/ OpenReturn(t)
        \/ CloseUnref(t)

LEMMA CallKeeps ==
    ASSUME Typed, NEW t \in Threads, Continue(t) \/ Answer(t)
    PROVE  /\ \A u \in Threads \ {t} : AtMostWoken(u)
           /\ GoesOn(t)
           /\ FilesStep(t)
<1> USE DEF Typed
<1> DEFINE Others == \A u \in Threads \ {t} : AtMostWoken(u)
<1>1. ASSUME Return(t) PROVE Others /\ GoesOn(t)
  BY <1>1 DEF Return, CallTypes, AtMostWoken, GoesOn, NoCall
<1>2. ASSUME NEW p, GoTo(t, p), pc[t] # "idle", p # "idle",
             (pc[t] \in Opening) <=> (p \in Opening), (pc[t] \in Closing) <=> (p \in Closing)
      PROVE  Others /\ GoesOn(t)
  BY <1>2 DEF GoTo, CallTypes, AtMostWoken, GoesOn
<1>3. CASE OpenReady(t) \/ OpenTimeout(t) \/ OpenUnref(t) \/ OpenCheck(t)
  <2>1. Others /\ GoesOn(t)
    BY <1>1, <1>2, <1>3 DEF OpenReady, OpenTimeout, OpenUnref, OpenCheck, Opening, Closing
  <2>2. FilesStep(t)
    BY <1>3 DEF OpenReady, OpenTimeout, OpenUnref, OpenCheck, FilesStep, fileVars
  <2> QED BY <2>1, <2>2
<1>4. CASE OpenReturn(t)
  BY <1>1, <1>4 DEF OpenReturn, FilesStep
<1>5. CASE PollJoin(t) \/ LeaveWait(t) \/ Wake(t)
  <2>1. Others /\ GoesOn(t)
    BY <1>1, <1>2, <1>5 DEF PollJoin, LeaveWait, Wake, Opening, Closing
  <2>2. FilesStep(t)
    BY <1>5 DEF PollJoin, LeaveWait, Wake, FilesStep, fileVars
  <2> QED BY <2>1, <2>2
<1>6. CASE IoctlStore(t) \/ IoctlAddClient(t)
  <2>1. Others /\ GoesOn(t)
    BY <1>1, <1>2, <1>6 DEF IoctlStore, IoctlAddClient, Opening, Closing
  <2>2. FilesStep(t)
    BY <1>6 DEF IoctlStore, IoctlAddClient, FilesStep, fileVars
  <2> QED BY <2>1, <2>2
<1>7. CASE IoctlRelease(t) \/ CloseRelease(t)
  <2>1. ASSUME NEW from, NEW next, ReleaseMemory(t, from, next), from # "idle", next # "idle",
               from \notin {"poll", "woken", "read"},
               (from \in Opening) <=> (next \in Opening),
               (from \in Closing) <=> (next \in Closing)
        PROVE  Others /\ GoesOn(t)
    <3> DEFINE c == call[t].client
               new == [call[t] EXCEPT !.client = None]
    <3>1. pc' = [WakeReaders(c) EXCEPT ![t] = next] /\ pc[t] = from
      BY <2>1 DEF ReleaseMemory
    <3>2. call' = [ForgetQueue(c) EXCEPT ![t] = [ForgetQueue(c)[t] EXCEPT !.client = None]]
      BY <2>1 DEF ReleaseMemory
    <3>3. ForgetQueue(c)[t] = call[t] /\ call[t] \in Calls
      BY <2>1, <3>1, ForgetKeeps DEF CallTypes
    <3>4. new.file = call[t].file
      BY <3>3, CallWithClient
    <3> HIDE DEF new, c
    <3>5. call' = [ForgetQueue(c) EXCEPT ![t] = new]
      BY <3>2, <3>3 DEF new
    <3> QED BY <2>1, <3>1, <3>4, <3>5, ForgetKeeps DEF AtMostWoken, GoesOn
  <2>2. Others /\ GoesOn(t)
    BY <1>2, <1>7, <2>1 DEF IoctlRelease, CloseRelease, ReleaseRequest, Opening, Closing
  <2>3. FilesStep(t)
    BY <1>7 DEF IoctlRelease, CloseRelease, ReleaseRequest, ReleaseMemory, FilesStep, fileVars
  <2> QED BY <2>2, <2>3
<1>8. CASE CloseScan(t)
  <2> DEFINE f == call[t].file
  <2>1. f \in Files /\ call[t] \in Calls /\ client[f] \in Clients \cup {None}
    BY <1>8 DEF CloseScan, CallsOK, CallTypes, FileTypes
  <2> DEFINE new == [call[t] EXCEPT !.client = client[f]]
  <2>2. new.file = f
    BY <2>1, CallWithClient
  <2>3. /\ pc[t] = "scan"
        /\ \/ pc' = [pc EXCEPT ![t] = "release"] /\ call' = [call EXCEPT ![t] = new]
           \/ GoTo(t, "drop")
           \/ Return(t)
    BY <1>8 DEF CloseScan
  <2>4. FilesStep(t)
    BY <1>8 DEF CloseScan, FilesStep
  <2> HIDE DEF new
  <2>5. Others /\ GoesOn(t)
    <3>1. CASE pc' = [pc EXCEPT ![t] = "release"] /\ call' = [call EXCEPT ![t] = new]
      BY <2>2, <2>3, <3>1 DEF CallTypes, AtMostWoken, GoesOn, Opening, Closing
    <3> QED BY <1>1, <1>2, <2>3, <3>1 DEF Opening, Closing
  <2> QED BY <2>4, <2>5
<1>9. CASE CloseUnref(t)
  BY <1>1, <1>9 DEF CloseUnref, FilesStep
<1>10. CASE GetClientID(t) \/ IoctlFails(t)
  <2>1. FilesStep(t)
    BY <1>10 DEF GetClientID, IoctlFails, FilesStep, fileVars
  <2>2. CASE Return(t)
    BY <1>1, <2>1, <2>2
  <2>3. ASSUME ~Return(t) PROVE Others /\ GoesOn(t)
    <3>1. pc[t] \in {"get", "add"} /\ call[t] \in Calls
      BY <1>10 DEF GetClientID, IoctlFails, CallTypes
    <3>2. PICK new \in {r \in Calls : r.file = call[t].file} : call' = [call EXCEPT ![t] = new]
      <4>1. CASE GetClientID(t)
        <5>1. PICK c \in DeviceIds : call' = [call EXCEPT ![t] = [call[t] EXCEPT !.client = c]]
          BY <4>1 DEF GetClientID
        <5>2. c \in Clients
          BY DEF Clients
        <5> QED BY <3>1, <5>1, <5>2, CallWithClient
      <4>2. CASE IoctlFails(t)
        <5> DEFINE r == [call[t] EXCEPT !.client = <<QMIWDA, 1>>, !.retried = TRUE]
        <5>1. call' = [call EXCEPT ![t] = r]
          BY <2>3, <4>2 DEF IoctlFails
        <5>2. <<QMIWDA, 1>> \in Clients
          BY DeviceLifeAssumption DEF Clients, DeviceIds, Services
        <5>3. r \in Calls /\ r.file = call[t].file
          BY <3>1, <5>2 DEF Calls
        <5> QED BY <5>1, <5>3
      <4> QED BY <1>10, <4>1, <4>2
    <3>3. pc' = [pc EXCEPT ![t] = "add"] \/ pc' = [pc EXCEPT ![t] = "steal"]
      BY <1>10, <2>3 DEF GetClientID, IoctlFails
    <3> QED BY <3>1, <3>2, <3>3 DEF CallTypes, AtMostWoken, GoesOn, Opening, Closing
  <2> QED BY <2>1, <2>2, <2>3
<1> QED BY <1>3, <1>4, <1>5, <1>6, <1>7, <1>8, <1>9, <1>10 DEF Continue, Answer

\* A call that begins: an open of a file nobody has, or a call on an open one.
LEMMA BeginKeeps ==
    ASSUME Typed, NEW f \in Files, NEW t \in Threads, Begin(t, f)
    PROVE  /\ \A u \in Threads \ {t} : AtMostWoken(u)
           /\ UNCHANGED <<data, private>>
           /\ (fds' = fds) \/ (fds[f] > 0 /\ fds' = [fds EXCEPT ![f] = fds[f] - 1])
           /\ \/ UNCHANGED <<pc, call>>
              \/ /\ pc[t] = "idle" /\ pc'[t] # "idle" /\ call'[t].file = f
                 /\ \/ /\ UserspaceOpen(t, f)
                       /\ pc'[t] \in {"wait", "opened"}
                    \/ /\ fds[f] > 0 /\ ~UserspaceOpen(t, f)
                       /\ pc'[t] \notin Opening
                       /\ (pc'[t] \in Closing) => private[f]
<1> USE DEF Typed
<1> DEFINE new(c) == [NoCall EXCEPT !.file = f, !.client = c]
           asked(s) == [NoCall EXCEPT !.file = f, !.service = s]
<1>1. (\A c : new(c).file = f) /\ (\A s : asked(s).file = f)
  BY DEF NoCall
<1> HIDE DEF new, asked
<1>2. ASSUME NEW c, NEW p, pc[t] = "idle", pc' = [pc EXCEPT ![t] = p],
             call' = [call EXCEPT ![t] = new(c)] \/ call' = [call EXCEPT ![t] = asked(c)]
      PROVE  /\ \A u \in Threads \ {t} : AtMostWoken(u)
             /\ pc'[t] = p /\ call'[t].file = f
  BY <1>1, <1>2 DEF CallTypes, AtMostWoken
<1>3. CASE UserspaceOpen(t, f)
  <2>1. PICK p \in {"wait", "opened"} : /\ pc[t] = "idle" /\ pc' = [pc EXCEPT ![t] = p]
                                       /\ call' = [call EXCEPT ![t] = new(None)]
    BY <1>3 DEF UserspaceOpen, Enter, new
  <2>2. UNCHANGED <<data, private, fds>>
    BY <1>3 DEF UserspaceOpen, fileVars
  <2> QED BY <1>2, <1>3, <2>1, <2>2
<1>4. CASE UserspaceIOCTL(t, f)
  <2>1. PICK s : /\ pc[t] = "idle" /\ pc' = [pc EXCEPT ![t] = "get"]
                 /\ call' = [call EXCEPT ![t] = asked(s)]
    BY <1>4 DEF UserspaceIOCTL, asked
  <2>2. UNCHANGED <<data, private, fds>> /\ fds[f] > 0
    BY <1>4 DEF UserspaceIOCTL, Usable, fileVars
  <2>3. ~UserspaceOpen(t, f)
    BY <2>1, <1>2 DEF UserspaceOpen, Enter, CallTypes
  <2>4. (\A u \in Threads \ {t} : AtMostWoken(u)) /\ pc'[t] = "get" /\ call'[t].file = f
    BY <1>2, <2>1
  <2> QED BY <2>1, <2>2, <2>3, <2>4 DEF Opening, Closing
<1>5. CASE UserspaceClose(t, f)
  <2>1. /\ UNCHANGED <<data, private>> /\ fds[f] > 0
        /\ fds' = [fds EXCEPT ![f] = fds[f] - 1]
    BY <1>5 DEF UserspaceClose
  <2>2. CASE ~private[f]
    BY <1>5, <2>1, <2>2 DEF UserspaceClose, AtMostWoken
  <2>3. CASE private[f]
    <3>1. /\ pc[t] = "idle" /\ pc' = [pc EXCEPT ![t] = "scan"]
          /\ call' = [call EXCEPT ![t] = new(None)]
      BY <1>5, <2>3 DEF UserspaceClose, Enter, new
    <3>2. ~UserspaceOpen(t, f)
      BY <3>1 DEF UserspaceOpen, Enter, CallTypes
    <3> QED BY <1>2, <2>1, <2>3, <3>1, <3>2 DEF Opening, Closing
  <2> QED BY <2>2, <2>3
<1>6. CASE UserspaceRead(t, f) \/ UserspacePoll(t, f)
  <2>1. PICK p \in {"read", "join"} : /\ pc[t] = "idle" /\ pc' = [pc EXCEPT ![t] = p]
                                     /\ call' = [call EXCEPT ![t] = new(client[f])]
    BY <1>6 DEF UserspaceRead, UserspacePoll, Enter, new
  <2>2. UNCHANGED <<data, private, fds>> /\ fds[f] > 0
    BY <1>6 DEF UserspaceRead, UserspacePoll, Usable, fileVars
  <2>3. ~UserspaceOpen(t, f)
    BY <2>1 DEF UserspaceOpen, Enter, CallTypes
  <2> QED BY <1>2, <2>1, <2>2, <2>3 DEF Opening, Closing
<1> QED BY <1>3, <1>4, <1>5, <1>6 DEF Begin

-----------------------------------------------------------------------------
(* An open has its file to itself, and a close has a file to close.        *)

OwnFiles ==
    /\ \A f \in Files : data[f] = "none" => ~private[f] /\ fds[f] = 0
    /\ \A t \in Threads : pc[t] = "idle" => call[t].file = None
    /\ \A t \in Threads : pc[t] \in Opening =>
           /\ data[call[t].file] = "none"
           /\ \A u \in Threads : call[u].file = call[t].file => u = t
    /\ \A t \in Threads : pc[t] \in Closing => data[call[t].file] # "none"

LEMMA QuietOwnFiles == ASSUME Typed, OwnFiles, Quiet PROVE OwnFiles'
<1>1. \A t \in Threads :
          /\ call'[t].file = call[t].file
          /\ (pc'[t] = "idle") <=> (pc[t] = "idle")
          /\ (pc'[t] \in Opening) <=> (pc[t] \in Opening)
          /\ (pc'[t] \in Closing) <=> (pc[t] \in Closing)
  BY QuietKeeps DEF AtMostWoken, Opening, Closing
<1>2. /\ UNCHANGED <<data, private>>
      /\ \A f \in Files : fds'[f] = fds[f] \/ fds'[f] = 0
  BY QuietKeeps
<1> QED BY <1>1, <1>2 DEF OwnFiles

LEMMA CallOwnFiles ==
    ASSUME Typed, OwnFiles, NEW t \in Threads, Continue(t) \/ Answer(t)
    PROVE  OwnFiles'
<1> DEFINE f == call[t].file
<1>1. /\ \A u \in Threads \ {t} : AtMostWoken(u)
      /\ GoesOn(t)
      /\ FilesStep(t)
  BY CallKeeps
<1>2. \A u \in Threads \ {t} :
          /\ call'[u].file = call[u].file
          /\ (pc'[u] = "idle") <=> (pc[u] = "idle")
          /\ (pc'[u] \in Opening) <=> (pc[u] \in Opening)
          /\ (pc'[u] \in Closing) <=> (pc[u] \in Closing)
  BY <1>1 DEF AtMostWoken, Opening, Closing
<1>3. ASSUME NEW u \in Threads PROVE pc[u] # "idle" => call[u].file # None
  BY DeviceLifeAssumption DEF Typed, CallsOK
<1>4. "idle" \notin Opening /\ "idle" \notin Closing
  BY DEF Opening, Closing
<1>5. CASE UNCHANGED <<fds, data>>
  <2>1. private' = private \/ private' = [private EXCEPT ![f] = FALSE]
    <3>1. ~OpenReturn(t) /\ ~CloseUnref(t) => (private' = private) \/ (private' = [private EXCEPT ![f] = FALSE])
      BY <1>1 DEF FilesStep
    <3>2. CASE OpenReturn(t)
      <4>1. f \in Files /\ data[f] = "none" /\ data'[f] = "live"
        BY <3>2 DEF OpenReturn, OwnFiles, Opening, Typed, CallsOK, FileTypes
      <4> QED BY <4>1, <1>5
    <3>3. CASE CloseUnref(t)
      BY <3>3 DEF CloseUnref
    <3> QED BY <3>1, <3>2, <3>3
  <2>2. \A g \in Files : data'[g] = "none" => ~private'[g] /\ fds'[g] = 0
    BY <1>5, <2>1 DEF OwnFiles, Typed, FileTypes
  <2> HIDE DEF f
  <2> QED BY <1>1, <1>2, <1>3, <1>4, <1>5, <2>2 DEF OwnFiles, GoesOn
<1>6. CASE OpenReturn(t)
  <2>1. pc[t] = "alloc" /\ f \in Files /\ pc'[t] = "idle" /\ call'[t].file = None
    BY <1>6 DEF OpenReturn, Return, Typed, CallsOK, CallTypes, NoCall
  <2>2. /\ data' = [data EXCEPT ![f] = "live"]
        /\ private' = [private EXCEPT ![f] = TRUE]
        /\ fds' = [fds EXCEPT ![f] = 1]
    BY <1>6 DEF OpenReturn
  <2>3. \A u \in Threads \ {t} : call[u].file # f
    BY <2>1 DEF OwnFiles, Opening
  <2>4. \A g \in Files : data'[g] = IF g = f THEN "live" ELSE data[g]
    BY <2>2 DEF Typed, FileTypes
  <2>5. \A g \in Files : data'[g] = "none" => ~private'[g] /\ fds'[g] = 0
    BY <2>1, <2>2, <2>4 DEF OwnFiles, Typed, FileTypes
  <2>6. \A u \in Threads : pc[u] # "idle" => call[u].file \in Files
    BY DEF Typed, CallsOK
  <2> HIDE DEF f
  <2> QED BY <1>2, <1>3, <1>4, <2>1, <2>3, <2>4, <2>5, <2>6 DEF OwnFiles
<1>7. CASE CloseUnref(t)
  <2>1. pc[t] = "drop" /\ f \in Files /\ pc'[t] = "idle" /\ call'[t].file = None
    BY <1>7 DEF CloseUnref, Return, Typed, CallsOK, CallTypes, NoCall
  <2>2. data' = [data EXCEPT ![f] = "freed"] /\ UNCHANGED <<fds, private>>
    BY <1>7 DEF CloseUnref
  <2>3. \A g \in Files : data'[g] = IF g = f THEN "freed" ELSE data[g]
    BY <2>2 DEF Typed, FileTypes
  <2>4. data[f] # "none"
    BY <2>1 DEF OwnFiles, Closing
  <2>5. \A u \in Threads : pc[u] # "idle" => call[u].file \in Files
    BY DEF Typed, CallsOK
  <2> HIDE DEF f
  <2> QED BY <1>2, <1>3, <1>4, <2>1, <2>2, <2>3, <2>4, <2>5 DEF OwnFiles
<1> QED BY <1>1, <1>5, <1>6, <1>7 DEF FilesStep

LEMMA BeginOwnFiles ==
    ASSUME Typed, OwnFiles, NEW f \in Files, Dup(f) \/ \E t \in Threads : Begin(t, f)
    PROVE  OwnFiles'
<1>1. CASE Dup(f)
  BY <1>1 DEF Dup, OwnFiles, Typed, FileTypes
<1>2. ASSUME NEW t \in Threads, Begin(t, f) PROVE OwnFiles'
  <2>1. /\ \A u \in Threads \ {t} :
               /\ call'[u].file = call[u].file
               /\ (pc'[u] = "idle") <=> (pc[u] = "idle")
               /\ (pc'[u] \in Opening) <=> (pc[u] \in Opening)
               /\ (pc'[u] \in Closing) <=> (pc[u] \in Closing)
        /\ UNCHANGED <<data, private>>
        /\ \A g \in Files : fds[g] = 0 => fds'[g] = 0
    BY <1>2, BeginKeeps DEF AtMostWoken, Opening, Closing, Typed, FileTypes
  <2>2. CASE UNCHANGED <<pc, call>>
    BY <2>1, <2>2 DEF OwnFiles
  <2>3. CASE UserspaceOpen(t, f) /\ pc'[t] \in {"wait", "opened"} /\ call'[t].file = f
    <3>1. data[f] = "none" /\ \A u \in Threads : call[u].file # f
      BY <2>3 DEF UserspaceOpen, Held
    <3>2. pc'[t] # "idle" /\ pc'[t] \in Opening /\ pc'[t] \notin Closing
      BY <2>3 DEF Opening, Closing
    <3> QED BY <2>1, <2>3, <3>1, <3>2 DEF OwnFiles
  <2>4. CASE /\ pc'[t] # "idle" /\ call'[t].file = f /\ fds[f] > 0
             /\ pc'[t] \notin Opening
             /\ (pc'[t] \in Closing) => private[f]
    <3>1. data[f] # "none"
      BY <2>4 DEF OwnFiles
    <3>2. \A u \in Threads : pc[u] \in Opening => call[u].file # f
      BY <3>1 DEF OwnFiles
    <3> QED BY <2>1, <2>4, <3>1, <3>2 DEF OwnFiles
  <2> QED BY <1>2, BeginKeeps, <2>2, <2>3, <2>4
<1> QED BY <1>1, <1>2

-----------------------------------------------------------------------------
(* The unbind waits for the calls and the files.                           *)

GoneQuiet ==
    /\ usb \in {"register", "kthread"} => sync = "none"
    /\ usb \in {"register", "kthread", "cdev"} => cdev = "none"
    /\ usb \in {"waiting", "unref", "gone"} => cdev # "live"
    /\ usb \in {"kthread", "cdev", "bound"} => mbQMIValid
    /\ usb = "unbind" /\ ~mbQMIValid => cdev = "none"
    /\ cdev = "none" => NoCalls /\ NoFiles
    /\ usb \in {"unref", "gone"} /\ ~timedOut => NoCalls /\ NoFiles

\* A step of the driver's own threads leaves nobody in a call who was not.
LEMMA QuietStays ==
    ASSUME Typed, Quiet PROVE NoCalls /\ NoFiles => NoCalls' /\ NoFiles'
  BY QuietKeeps DEF NoCalls, NoFiles, AtMostWoken

LEMMA QuietGoneQuiet == ASSUME Typed, GoneQuiet, Quiet PROVE GoneQuiet'
<1>1. NoCalls /\ NoFiles => NoCalls' /\ NoFiles'
  BY QuietStays
<1>2. CASE Probe \/ Disconnect
  BY <1>1, <1>2 DEF GoneQuiet, Probe, RegisterQMIDevice, StartSync, AddCdev, Disconnect,
        devVars, syncVars, history
<1>3. CASE SyncThread
  BY <1>1, <1>3 DEF GoneQuiet, SyncThread, SyncFails, SyncGetClient, SyncAddClient, SyncUse,
        SyncRelease, SyncDelete, SyncFinish, SyncUnref, devVars, syncVars, history
<1>4. CASE DeleteCdev
  <2>1. (\A f \in Files : ~Held(f)) => NoCalls /\ NoFiles
    BY DEF Held, NoCalls, NoFiles, Typed, CallsOK, FileTypes
  <2> QED BY <1>1, <1>4, <2>1 DEF GoneQuiet, DeleteCdev, syncVars
<1>5. CASE Unbind /\ ~DeleteCdev
  BY <1>1, <1>5 DEF GoneQuiet, Unbind, DeregisterQMIDevice, WakePollers, ReleaseHead,
        DeleteHead, AllReleased, ForceClose, RemoveNode, GobiNetDriverUnbind,
        devVars, syncVars, history
<1> QED BY <1>2, <1>3, <1>4, <1>5 DEF Quiet

LEMMA CallGoneQuiet ==
    ASSUME Typed, GoneQuiet, NEW t \in Threads,
           Continue(t) \/ Answer(t) \/ \E f \in Files : Begin(t, f) \/ Dup(f)
    PROVE  GoneQuiet'
<1>1. UNCHANGED <<usb, sync, cdev, mbQMIValid, timedOut>>
  BY DEF Continue, Answer, Begin, OpenReady, OpenTimeout, OpenUnref, OpenCheck, OpenReturn,
        IoctlAddClient, IoctlStore, IoctlRelease, CloseScan, CloseRelease, CloseUnref,
        PollJoin, LeaveWait, GetClientID, IoctlFails, Wake, ReleaseRequest, ReleaseMemory,
        UserspaceOpen, UserspaceIOCTL, UserspaceClose, UserspaceRead, UserspacePoll, Dup,
        devVars, syncVars, history
<1>2. NoCalls /\ NoFiles => cdev = "live"
  <2>1. ASSUME NoCalls PROVE ~Continue(t) /\ ~Answer(t)
    BY <2>1 DEF NoCalls, Continue, Answer, OpenReady, OpenTimeout, OpenUnref, OpenCheck,
          OpenReturn, IoctlAddClient, IoctlStore, IoctlRelease, CloseScan, CloseRelease,
          CloseUnref, PollJoin, LeaveWait, GetClientID, IoctlFails, Wake, ReleaseRequest,
          ReleaseMemory
  <2>2. ASSUME NoFiles, NEW f \in Files, Begin(t, f) \/ Dup(f) PROVE cdev = "live"
    <3>1. ~(fds[f] > 0)
      BY <2>2 DEF NoFiles
    <3>2. ~Dup(f)
      BY <3>1, DeviceLifeAssumption DEF Dup
    <3>3. ~UserspaceIOCTL(t, f) /\ ~UserspaceRead(t, f) /\ ~UserspacePoll(t, f)
      BY <3>1 DEF UserspaceIOCTL, UserspaceRead, UserspacePoll, Usable
    <3>4. ~UserspaceClose(t, f)
      BY <3>1 DEF UserspaceClose
    <3> QED BY <2>2, <3>2, <3>3, <3>4 DEF Begin, UserspaceOpen
  <2> QED BY <2>1, <2>2
<1> QED BY <1>1, <1>2 DEF GoneQuiet

-----------------------------------------------------------------------------
(* The count.                                                              *)

\* The references of the driver's own threads.
Own == One(usb # "gone") + One(sync \notin {"none", "done"})

LEMMA QuietCounts ==
    ASSUME Typed, GoneQuiet, Quiet
    PROVE  refcount' = refcount + Own' - Own
<1> USE DEF Typed, CountTypes
<1>1. CASE RegisterQMIDevice \/ AddCdev \/ Disconnect
  BY <1>1 DEF RegisterQMIDevice, AddCdev, Disconnect, Own, One, devVars, syncVars
<1>2. CASE StartSync
  BY <1>2 DEF StartSync, GoneQuiet, Own, One
<1>3. CASE GobiNetDriverUnbind
  BY <1>3 DEF GobiNetDriverUnbind, DropAndFree, Own, One, syncVars
<1>4. CASE Unbind /\ ~GobiNetDriverUnbind
  BY <1>4 DEF Unbind, DeregisterQMIDevice, WakePollers, ReleaseHead, DeleteHead,
        AllReleased, ForceClose, RemoveNode, DeleteCdev, Own, One, devVars, syncVars
<1>5. CASE SyncUnref
  BY <1>5 DEF SyncUnref, DropAndFree, Own, One
<1>6. CASE SyncThread /\ ~SyncUnref
  BY <1>6 DEF SyncThread, SyncFails, SyncGetClient, SyncAddClient, SyncUse, SyncRelease,
        SyncDelete, SyncFinish, Own, One, devVars
<1> QED BY <1>1, <1>2, <1>3, <1>4, <1>5, <1>6 DEF Quiet, Probe

LEMMA CountsFinite ==
    /\ IsFiniteSet(Openers) /\ IsFiniteSet(Kept)
    /\ Cardinality(Openers) \in Nat /\ Cardinality(Kept) \in Nat
  BY DeviceLifeAssumption, FS_Subset, FS_CardinalityType DEF Openers, Kept

LEMMA QuietRefs ==
    ASSUME Typed, GoneQuiet, RefsCounted, Quiet
    PROVE  RefsCounted'
<1>1. Openers' = Openers /\ Kept' = Kept /\ doubled' = doubled
  BY QuietKeeps DEF AtMostWoken, Openers, Kept
<1>2. refcount' = refcount + Own' - Own
  BY QuietCounts
<1>3. refcount \in Int /\ doubled \in Int /\ Own \in Int /\ Own' \in Int
  BY DEF Typed, CountTypes, Own, One
<1>4. refcount = Own + Cardinality(Openers) + Cardinality(Kept) - doubled
  BY DEF RefsCounted, Own
<1>5. refcount' = Own' + Cardinality(Openers') + Cardinality(Kept') - doubled'
  BY <1>1, <1>2, <1>3, <1>4, CountsFinite
<1> QED BY <1>5 DEF RefsCounted, Own

\* A call that neither takes nor drops a reference.
LEMMA OthersKeepRefs ==
    ASSUME RefsCounted, UNCHANGED <<refcount, usb, sync, doubled, data>>, Openers' = Openers
    PROVE  RefsCounted'
  BY DEF RefsCounted, Kept

\* The number of openers and files kept, when one more or one less is.
LEMMA RefsMove ==
    ASSUME Typed, RefsCounted, UNCHANGED <<usb, sync>>, doubled' \in Nat,
           NEW x, NEW y,
           \/ /\ x \notin Openers /\ Openers' = Openers \cup {x} /\ Kept' = Kept
              /\ refcount' = refcount + 1 /\ doubled' = doubled
           \/ /\ x \in Openers /\ Openers' = Openers \ {x} /\ Kept' = Kept
              /\ refcount' = refcount - 1 /\ doubled' = doubled
           \/ /\ y \notin Kept /\ Kept' = Kept \cup {y} /\ Openers' = Openers
              /\ refcount' = refcount + 1 /\ doubled' = doubled
           \/ /\ y \in Kept /\ Kept' = Kept \ {y} /\ Openers' = Openers
              /\ refcount' = refcount - 1 /\ doubled' = doubled
           \/ /\ Kept' = Kept /\ Openers' = Openers
              /\ refcount' = refcount - 1 /\ doubled' = doubled + 1
    PROVE  RefsCounted'
<1>1. /\ x \notin Openers => Cardinality(Openers \cup {x}) = Cardinality(Openers) + 1
      /\ x \in Openers => Cardinality(Openers \ {x}) = Cardinality(Openers) - 1
      /\ y \notin Kept => Cardinality(Kept \cup {y}) = Cardinality(Kept) + 1
      /\ y \in Kept => Cardinality(Kept \ {y}) = Cardinality(Kept) - 1
  BY CountsFinite, FS_AddElement, FS_RemoveElement
<1>2. refcount = Own + Cardinality(Openers) + Cardinality(Kept) - doubled
  BY DEF RefsCounted, Own
<1>3. Own' = Own /\ Own \in Int
  BY DEF Own, One
<1> DEFINE o == Cardinality(Openers)  k == Cardinality(Kept)
           p == Cardinality(Openers') q == Cardinality(Kept')
<1>4. \/ p = o + 1 /\ q = k /\ refcount' = refcount + 1 /\ doubled' = doubled
      \/ p = o - 1 /\ q = k /\ refcount' = refcount - 1 /\ doubled' = doubled
      \/ q = k + 1 /\ p = o /\ refcount' = refcount + 1 /\ doubled' = doubled
      \/ q = k - 1 /\ p = o /\ refcount' = refcount - 1 /\ doubled' = doubled
      \/ q = k /\ p = o /\ refcount' = refcount - 1 /\ doubled' = doubled + 1
  BY <1>1
<1>5. o \in Nat /\ k \in Nat /\ refcount \in Int /\ doubled \in Int
  BY CountsFinite DEF Typed, CountTypes
<1>6. refcount = Own + o + k - doubled
  BY <1>2
<1>7. refcount' = Own' + p + q - doubled'
  <2> HIDE DEF o, k, p, q
  <2> QED BY <1>3, <1>4, <1>5, <1>6
<1> QED BY <1>7 DEF RefsCounted, Own

LEMMA CallRefs ==
    ASSUME Typed, OwnFiles, RefsCounted, NEW t \in Threads, Continue(t) \/ Answer(t)
    PROVE  RefsCounted'
<1> DEFINE f == call[t].file
<1>1. (\A u \in Threads \ {t} : AtMostWoken(u)) /\ GoesOn(t)
  BY CallKeeps
<1>2. \A u \in Threads \ {t} : (u \in Openers') <=> (u \in Openers)
  BY <1>1 DEF Openers, AtMostWoken
<1>3. UNCHANGED <<usb, sync>>
  BY DEF Continue, Answer, OpenReady, OpenTimeout, OpenUnref, OpenCheck, OpenReturn,
        IoctlAddClient, IoctlStore, IoctlRelease, CloseScan, CloseRelease, CloseUnref,
        PollJoin, LeaveWait, GetClientID, IoctlFails, Wake, ReleaseRequest, ReleaseMemory,
        syncVars
<1>4. CASE OpenTimeout(t) \/ OpenUnref(t)
  <2>1. pc[t] \in {"wait", "opened"} /\ pc'[t] \in {"idle", "check"}
    BY <1>4 DEF OpenTimeout, OpenUnref, Return, GoTo, Typed, CallTypes
  <2>2. t \in Openers /\ Openers' = Openers \ {t}
    BY <1>2, <2>1 DEF Openers
  <2>3. refcount' = refcount - 1 /\ doubled' = doubled /\ Kept' = Kept
    BY <1>4 DEF OpenTimeout, OpenUnref, DropAndFree, Kept, fileVars, history
  <2> QED BY <1>3, <2>2, <2>3, RefsMove DEF Typed, CountTypes
<1>5. CASE OpenReturn(t)
  <2>1. pc[t] = "alloc" /\ pc'[t] = "idle" /\ f \in Files /\ data[f] # "live"
    BY <1>5 DEF OpenReturn, Return, Typed, CallTypes, CallsOK, OwnFiles, Opening
  <2>2. Openers' = Openers
    BY <1>2, <2>1 DEF Openers
  <2>3. f \notin Kept /\ Kept' = Kept \cup {f}
    BY <1>5, <2>1 DEF OpenReturn, Kept, Typed, FileTypes
  <2>4. refcount' = refcount + 1 /\ doubled' = doubled
    BY <1>5 DEF OpenReturn, history
  <2> QED BY <1>3, <2>2, <2>3, <2>4, RefsMove DEF Typed, CountTypes
<1>6. CASE CloseUnref(t)
  <2>1. pc[t] = "drop" /\ pc'[t] = "idle" /\ f \in Files /\ data[f] \in {"live", "freed"}
    BY <1>6 DEF CloseUnref, Return, Typed, CallTypes, CallsOK, FileTypes, OwnFiles, Closing
  <2>2. Openers' = Openers
    BY <1>2, <2>1 DEF Openers
  <2>3. /\ refcount' = refcount - 1
        /\ data' = [data EXCEPT ![f] = "freed"]
        /\ doubled' = IF data[f] = "freed" THEN doubled + 1 ELSE doubled
    BY <1>6 DEF CloseUnref
  <2>4. CASE data[f] = "live"
    <3>1. f \in Kept /\ Kept' = Kept \ {f} /\ doubled' = doubled
      BY <2>1, <2>3, <2>4 DEF Kept, Typed, FileTypes
    <3> QED BY <1>3, <2>2, <2>3, <3>1, RefsMove DEF Typed, CountTypes
  <2>5. CASE data[f] = "freed"
    <3>1. Kept' = Kept /\ doubled' = doubled + 1
      BY <2>1, <2>3, <2>5 DEF Kept, Typed, FileTypes
    <3> QED BY <1>3, <2>2, <2>3, <3>1, RefsMove DEF Typed, CountTypes
  <2> QED BY <2>1, <2>4, <2>5
<1>7. ASSUME ~OpenTimeout(t), ~OpenUnref(t), ~OpenReturn(t), ~CloseUnref(t)
      PROVE  RefsCounted'
  <2>1. UNCHANGED <<refcount, doubled, data>>
    BY <1>7 DEF Continue, Answer, OpenReady, OpenCheck, IoctlAddClient, IoctlStore,
          IoctlRelease, CloseScan, CloseRelease, PollJoin, LeaveWait, GetClientID,
          IoctlFails, Wake, ReleaseRequest, ReleaseMemory, devVars, fileVars, history
  <2>2. (pc[t] \in {"wait", "opened"}) <=> (pc'[t] \in {"wait", "opened"})
    <3>1. CASE OpenReady(t)
      BY <3>1 DEF OpenReady, GoTo, Typed, CallTypes
    <3>2. CASE OpenCheck(t)
      BY <3>2 DEF OpenCheck, GoTo, Return, Typed, CallTypes
    <3>3. ASSUME ~OpenReady(t), ~OpenCheck(t) PROVE pc[t] \notin Opening
      BY <1>7, <3>3 DEF Continue, Answer, IoctlAddClient, IoctlStore, IoctlRelease,
            CloseScan, CloseRelease, PollJoin, LeaveWait, GetClientID, IoctlFails, Wake,
            ReleaseRequest, ReleaseMemory, Opening
    <3>4. ASSUME pc[t] \notin Opening PROVE pc'[t] \notin Opening
      BY <1>1, <3>4 DEF GoesOn, Opening
    <3> QED BY <3>1, <3>2, <3>3, <3>4 DEF Opening
  <2>3. Openers' = Openers
    BY <1>2, <2>2 DEF Openers
  <2> QED BY <1>3, <2>1, <2>3, OthersKeepRefs
<1> QED BY <1>4, <1>5, <1>6, <1>7

LEMMA BeginRefs ==
    ASSUME Typed, RefsCounted, NEW f \in Files, Dup(f) \/ \E t \in Threads : Begin(t, f)
    PROVE  RefsCounted'
<1>1. CASE Dup(f)
  <2>1. UNCHANGED <<refcount, usb, sync, doubled, data, pc>>
    BY <1>1 DEF Dup, devVars, syncVars, history
  <2> QED BY <2>1, OthersKeepRefs DEF Openers
<1>2. ASSUME NEW t \in Threads, Begin(t, f) PROVE RefsCounted'
  <2>1. UNCHANGED <<usb, sync, doubled, data>>
    BY <1>2 DEF Begin, UserspaceOpen, UserspaceIOCTL, UserspaceClose, UserspaceRead,
          UserspacePoll, syncVars, fileVars, history
  <2>2. \A u \in Threads \ {t} : (u \in Openers') <=> (u \in Openers)
    BY <1>2, BeginKeeps DEF Openers, AtMostWoken
  <2>3. CASE UserspaceOpen(t, f)
    <3>1. pc[t] = "idle" /\ pc'[t] \in {"wait", "opened"} /\ refcount' = refcount + 1
      BY <2>3 DEF UserspaceOpen, Enter, Typed, CallTypes
    <3>2. t \notin Openers /\ Openers' = Openers \cup {t} /\ Kept' = Kept
      BY <2>1, <2>2, <3>1 DEF Openers, Kept
    <3> QED BY <2>1, <3>1, <3>2, RefsMove DEF Typed, CountTypes
  <2>4. CASE ~UserspaceOpen(t, f)
    <3>1. refcount' = refcount
      BY <1>2, <2>4 DEF Begin, UserspaceIOCTL, UserspaceClose, UserspaceRead,
            UserspacePoll, devVars
    <3>2. UNCHANGED pc \/ (pc[t] = "idle" /\ pc'[t] \notin Opening)
      BY <1>2, <2>4, BeginKeeps
    <3>3. Openers' = Openers
      BY <2>2, <3>2 DEF Openers, Opening
    <3> QED BY <2>1, <3>1, <3>3, OthersKeepRefs
  <2> QED BY <2>3, <2>4
<1> QED BY <1>1, <1>2

-----------------------------------------------------------------------------
(* The free.                                                               *)

\* The structure is freed when the driver's threads are done with it.
FreedLast == freed /\ doubled = 0 => usb = "gone" /\ sync \in {"none", "done"}

\* A count of zero.
LEMMA ZeroRefs ==
    ASSUME Typed, RefsCounted, refcount = 0, doubled = 0
    PROVE  usb = "gone" /\ sync \in {"none", "done"}
<1>1. Own \in {0, 1, 2} /\ (Own = 0 => usb = "gone" /\ sync \in {"none", "done"})
  BY DEF Own, One
<1>2. 0 = Own + Cardinality(Openers) + Cardinality(Kept)
  BY <1>1, CountsFinite DEF RefsCounted, Own
<1> QED BY <1>1, <1>2, CountsFinite

\* The threads of the driver that are done stay done.
LEMMA DoneStays ==
    ASSUME Typed, GoneQuiet, Next, usb = "gone", sync \in {"none", "done"}
    PROVE  usb' = "gone" /\ sync' \in {"none", "done"}
<1>1. CASE Quiet
  BY <1>1 DEF Quiet, Probe, RegisterQMIDevice, StartSync, AddCdev, Disconnect, Unbind,
        DeregisterQMIDevice, WakePollers, ReleaseHead, DeleteHead, AllReleased,
        ForceClose, RemoveNode, DeleteCdev, GobiNetDriverUnbind, SyncThread, SyncFails,
        SyncGetClient, SyncAddClient, SyncUse, SyncRelease, SyncDelete, SyncFinish, SyncUnref
<1>2. ASSUME NEW t \in Threads,
             Continue(t) \/ Answer(t) \/ \E f \in Files : Begin(t, f) \/ Dup(f)
      PROVE  UNCHANGED <<usb, sync>>
  BY <1>2 DEF Continue, Answer, Begin, OpenReady, OpenTimeout, OpenUnref, OpenCheck,
        OpenReturn, IoctlAddClient, IoctlStore, IoctlRelease, CloseScan, CloseRelease,
        CloseUnref, PollJoin, LeaveWait, GetClientID, IoctlFails, Wake, ReleaseRequest,
        ReleaseMemory, UserspaceOpen, UserspaceIOCTL, UserspaceClose, UserspaceRead,
        UserspacePoll, Dup, syncVars
<1>3. ASSUME NEW f \in Files, Dup(f) PROVE UNCHANGED <<usb, sync>>
  BY <1>3 DEF Dup, syncVars
<1> QED BY <1>1, <1>2, <1>3 DEF Next, Quiet

\* Only a decrement with a test frees, and closes never take back a doubled one.
LEMMA FreeingSteps ==
    ASSUME Typed, Next
    PROVE  /\ (~freed /\ freed') => refcount' = 0
           /\ doubled = 0 \/ doubled' # 0
<1> USE DEF Typed, CountTypes
<1>1. CASE GobiNetDriverUnbind \/ SyncUnref \/ \E t \in Threads : OpenTimeout(t)
  <2>1. DropAndFree /\ doubled' = doubled
    BY <1>1 DEF GobiNetDriverUnbind, SyncUnref, OpenTimeout, history
  <2>2. (~freed /\ freed') => refcount = 1
    BY <2>1, Zenon DEF DropAndFree
  <2>3. refcount = 1 => refcount' = 0
    BY <2>1 DEF DropAndFree
  <2> QED BY <2>1, <2>2, <2>3
<1>2. CASE Quiet /\ ~GobiNetDriverUnbind /\ ~SyncUnref
  <2>1. freed' = freed
    BY <1>2 DEF Quiet, Probe, RegisterQMIDevice, StartSync, AddCdev, Disconnect, Unbind,
          DeregisterQMIDevice, WakePollers, ReleaseHead, DeleteHead, AllReleased,
          ForceClose, RemoveNode, DeleteCdev, SyncThread, SyncFails, SyncGetClient,
          SyncAddClient, SyncUse, SyncRelease, SyncDelete, SyncFinish, devVars
  <2> QED BY <1>2, <2>1, QuietKeeps
<1>3. ASSUME NEW t \in Threads, Continue(t) \/ Answer(t), ~OpenTimeout(t)
      PROVE  freed' = freed /\ doubled' \in {doubled, doubled + 1}
  BY <1>3 DEF Continue, Answer, OpenReady, OpenUnref, OpenCheck, OpenReturn,
        IoctlAddClient, IoctlStore, IoctlRelease, CloseScan, CloseRelease, CloseUnref,
        PollJoin, LeaveWait, GetClientID, IoctlFails, Wake, ReleaseRequest,
        ReleaseMemory, devVars, history
<1>4. ASSUME NEW f \in Files, Dup(f) \/ \E t \in Threads : Begin(t, f)
      PROVE  freed' = freed /\ doubled' = doubled
  BY <1>4 DEF Begin, UserspaceOpen, UserspaceIOCTL, UserspaceClose, UserspaceRead,
        UserspacePoll, Dup, devVars, history
<1> QED BY <1>1, <1>2, <1>3, <1>4 DEF Next, Quiet

-----------------------------------------------------------------------------
(* The theorems.                                                           *)

Inv == Typed /\ OwnFiles /\ GoneQuiet /\ RefsCounted /\ FreedLast

LEMMA InitInv == Init => Inv
<1> SUFFICES ASSUME Init PROVE Inv
  OBVIOUS
<1>1. Typed
  BY DEF Init, Typed, CountTypes, CallTypes, FileTypes, CallsOK, Calls, NoCall, Places
<1>2. OwnFiles
  BY DEF Init, OwnFiles, NoCall, Opening, Closing
<1>3. GoneQuiet
  BY DEF Init, GoneQuiet, NoCalls, NoFiles
<1>4. RefsCounted
  <2>1. Openers = {} /\ Kept = {}
    BY DEF Init, Openers, Kept
  <2> QED BY <2>1, FS_EmptySet DEF Init, RefsCounted, One
<1>5. FreedLast
  BY DEF Init, FreedLast
<1> QED BY <1>1, <1>2, <1>3, <1>4, <1>5 DEF Inv

LEMMA NextInv == Inv /\ [Next]_vars => Inv'
<1> SUFFICES ASSUME Inv, [Next]_vars PROVE Inv'
  OBVIOUS
<1> USE DEF Inv
<1>1. CASE UNCHANGED vars
  BY <1>1 DEF vars, devVars, syncVars, fileVars, history, Typed, CountTypes, CallTypes,
        FileTypes, CallsOK, OwnFiles, GoneQuiet, NoCalls, NoFiles, RefsCounted, Openers,
        Kept, FreedLast
<1>2. CASE Next
  <2>1. Typed'
    BY <1>2, QuietTyped, CallTyped, BeginTyped DEF Next, Quiet
  <2>2. OwnFiles'
    BY <1>2, QuietOwnFiles, CallOwnFiles, BeginOwnFiles DEF Next, Quiet
  <2>3. GoneQuiet'
    <3>1. ASSUME NEW f \in Files, Dup(f) PROVE GoneQuiet'
      <4>1. UNCHANGED <<usb, sync, cdev, mbQMIValid, timedOut>> /\ fds[f] # 0
        BY <3>1, DeviceLifeAssumption DEF Dup, devVars, syncVars, history
      <4> QED BY <4>1 DEF GoneQuiet, NoFiles
    <3> QED BY <1>2, <3>1, QuietGoneQuiet, CallGoneQuiet DEF Next, Quiet
  <2>4. RefsCounted'
    BY <1>2, QuietRefs, CallRefs, BeginRefs DEF Next, Quiet
  <2>5. FreedLast'
    <3> SUFFICES ASSUME freed', doubled' = 0
                 PROVE  usb' = "gone" /\ sync' \in {"none", "done"}
      BY DEF FreedLast
    <3>1. doubled = 0
      BY <1>2, FreeingSteps
    <3>2. CASE freed
      BY <1>2, <3>1, <3>2, DoneStays DEF FreedLast
    <3>3. CASE ~freed
      <4>1. refcount' = 0
        BY <1>2, <3>3, FreeingSteps
      <4>2. (Typed /\ RefsCounted /\ refcount = 0 /\ doubled = 0
                 => usb = "gone" /\ sync \in {"none", "done"})'
        BY ZeroRefs, PTL
      <4> QED BY <2>1, <2>4, <4>1, <4>2
    <3> QED BY <3>2, <3>3
  <2> QED BY <2>1, <2>2, <2>3, <2>4, <2>5
<1> QED BY <1>1, <1>2

LEMMA InvAlways == Spec => []Inv
  BY InitInv, NextInv, PTL DEF Spec

\* mpDev->refcount counts the probe, qmi_sync_thread, the opens that wait and
\* the files not closed, whatever the threads and the descriptors do, off by one
\* for every close that gave a file's reference back a second time.
THEOREM RefsCountedAlways == Spec => []RefsCounted
<1>1. Inv => RefsCounted
  BY DEF Inv
<1> QED BY <1>1, InvAlways, PTL

\* Nobody uses the structure, or the cdev in it, after it is freed, unless
\* two closes of one file overlapped or the disconnect stopped waiting for the
\* open files.
THEOREM NoUseAfterFreeAlways == Spec => []NoUseAfterFree
<1>1. Inv => NoUseAfterFree
  BY DEF Inv, FreedLast, GoneQuiet, NoUseAfterFree
<1> QED BY <1>1, InvAlways, PTL

-----------------------------------------------------------------------------
(* The rest of the types.                                                  *)

\* qmi_sync_thread has a service and a client where it uses them.
SyncOK ==
    /\ sync \in {"add", "use", "release", "delete"} =>
           syncLeft # <<>> /\ syncClient \in Clients

Kinds == PlaceTypes /\ ClientTypes /\ SyncOK

LEMMA TailServices ==
    ASSUME NEW q \in Seq(Services), q # <<>> PROVE Tail(q) \in Seq(Services)
  BY HeadTailProperties

LEMMA QuietKinds == ASSUME Kinds, Quiet PROVE Kinds'
<1> USE DEF Kinds
<1>1. CASE Probe \/ Disconnect
  BY <1>1 DEF PlaceTypes, ClientTypes, SyncOK, Probe, RegisterQMIDevice, StartSync, AddCdev,
        Disconnect, devVars, syncVars, clientVars, Clients
<1>2. CASE Unbind
  <2>1. Heads \subseteq Clients
    BY DEF Heads, ClientTypes, Clients
  <2> QED BY <1>2, <2>1 DEF PlaceTypes, ClientTypes, SyncOK, Unbind, DeregisterQMIDevice,
        WakePollers, ReleaseHead, DeleteHead, AllReleased, ForceClose, RemoveNode,
        DeleteCdev, GobiNetDriverUnbind, devVars, syncVars, clientVars
<1>3. CASE SyncFails \/ SyncGetClient \/ SyncFinish \/ SyncUnref
  BY <1>3 DEF PlaceTypes, ClientTypes, SyncOK, SyncFails, SyncGetClient, SyncFinish,
        SyncUnref, Granted, devVars, syncVars, clientVars, Clients
<1>4. CASE SyncAddClient
  BY <1>4 DEF PlaceTypes, ClientTypes, SyncOK, SyncAddClient, AddClient, devVars
<1>5. CASE SyncUse \/ SyncRelease \/ SyncDelete
  <2>1. sync \in {"use", "release", "delete"} => Tail(syncLeft) \in Seq(Services)
    BY TailServices DEF SyncOK, ClientTypes
  <2> QED BY <1>5, <2>1 DEF PlaceTypes, ClientTypes, SyncOK, SyncUse, SyncRelease, SyncDelete,
        Returned, devVars
<1> QED BY <1>1, <1>2, <1>3, <1>4, <1>5 DEF Quiet, SyncThread

LEMMA CallKinds ==
    ASSUME Typed, Kinds, NEW t \in Threads, Continue(t) \/ Answer(t)
    PROVE  Kinds'
<1> USE DEF Kinds
<1>1. UNCHANGED <<cdev, usb, victim, syncVars>>
  BY DEF Continue, Answer, OpenReady, OpenTimeout, OpenUnref, OpenCheck, OpenReturn,
        IoctlAddClient, IoctlStore, IoctlRelease, CloseScan, CloseRelease, CloseUnref,
        PollJoin, LeaveWait, GetClientID, IoctlFails, Wake, ReleaseRequest, ReleaseMemory,
        devVars
<1>2. ClientTypes'
  <2>1. CASE GetClientID(t)
    BY <1>1, <2>1 DEF GetClientID, Granted, ClientTypes, syncVars
  <2>2. CASE IoctlAddClient(t)
    BY <1>1, <2>2 DEF IoctlAddClient, AddClient, ClientTypes, syncVars, Typed, CallsOK
  <2>3. CASE IoctlStore(t)
    <3>1. /\ call[t].client \in Clients
          /\ client[call[t].file] \in Clients \cup {None}
      BY <2>3 DEF IoctlStore, Typed, CallsOK, FileTypes
    <3> QED BY <1>1, <2>3, <3>1 DEF IoctlStore, ClientTypes, syncVars
  <2>4. CASE IoctlRelease(t) \/ CloseRelease(t)
    BY <1>1, <2>4 DEF IoctlRelease, CloseRelease, ReleaseRequest, ReleaseMemory, Returned,
          ClientTypes, syncVars
  <2>5. ASSUME ~GetClientID(t), ~IoctlAddClient(t), ~IoctlStore(t), ~IoctlRelease(t), ~CloseRelease(t)
        PROVE  UNCHANGED clientVars
    BY <2>5 DEF Continue, Answer, OpenReady, OpenTimeout, OpenUnref, OpenCheck, OpenReturn,
          CloseScan, CloseUnref, PollJoin, LeaveWait, IoctlFails, Wake
  <2> QED BY <1>1, <2>1, <2>2, <2>3, <2>4, <2>5 DEF ClientTypes, clientVars, syncVars
<1> QED BY <1>1, <1>2 DEF PlaceTypes, SyncOK, syncVars

LEMMA BeginKinds ==
    ASSUME Kinds, NEW f \in Files, Dup(f) \/ \E t \in Threads : Begin(t, f)
    PROVE  Kinds'
<1>1. UNCHANGED <<cdev, usb, victim, syncVars, clientVars>>
  BY DEF Begin, UserspaceOpen, UserspaceIOCTL, UserspaceClose, UserspaceRead,
        UserspacePoll, Dup, devVars
<1> QED BY <1>1 DEF Kinds, PlaceTypes, ClientTypes, SyncOK, syncVars, clientVars

\* A flag is set, cleared or left alone.
LEMMA FlagSteps == ASSUME FlagTypes, Next PROVE FlagTypes'
<1>1. freed' \in BOOLEAN
  <2>1. CASE DropAndFree
    BY <2>1, Zenon DEF DropAndFree
  <2>2. ASSUME ~DropAndFree PROVE freed' = freed
    <3>1. CASE Quiet
      BY <2>2, <3>1 DEF Quiet, Probe, RegisterQMIDevice, StartSync, AddCdev, Disconnect, Unbind,
            DeregisterQMIDevice, WakePollers, ReleaseHead, DeleteHead, AllReleased,
            ForceClose, RemoveNode, DeleteCdev, GobiNetDriverUnbind, SyncThread, SyncFails,
            SyncGetClient, SyncAddClient, SyncUse, SyncRelease, SyncDelete, SyncFinish,
            SyncUnref, devVars
    <3>2. ASSUME NEW t \in Threads, Continue(t) \/ Answer(t) PROVE freed' = freed
      BY <2>2, <3>2 DEF Continue, Answer, OpenReady, OpenTimeout, OpenUnref, OpenCheck, OpenReturn,
            IoctlAddClient, IoctlStore, IoctlRelease, CloseScan, CloseRelease, CloseUnref,
            PollJoin, LeaveWait, GetClientID, IoctlFails, Wake, ReleaseRequest,
            ReleaseMemory, devVars
    <3>3. ASSUME NEW f \in Files, Dup(f) \/ \E t \in Threads : Begin(t, f) PROVE freed' = freed
      BY <3>3 DEF Begin, UserspaceOpen, UserspaceIOCTL, UserspaceClose, UserspaceRead,
            UserspacePoll, Dup, devVars
    <3> QED BY <3>1, <3>2, <3>3 DEF Next, Quiet
  <2> QED BY <2>1, <2>2 DEF FlagTypes
<1>2. /\ mbQMIValid' \in BOOLEAN /\ mbDeregisterQMIDevice' \in BOOLEAN /\ mbQMIReady' \in BOOLEAN
      /\ timedOut' \in BOOLEAN
  <2>1. CASE Probe \/ Disconnect \/ SyncThread
    <3>1. /\ UNCHANGED <<mbDeregisterQMIDevice, timedOut>>
          /\ (mbQMIValid' = TRUE) \/ (mbQMIValid' = mbQMIValid)
          /\ (mbQMIReady' = TRUE) \/ (mbQMIReady' = mbQMIReady)
      BY <2>1 DEF Probe, RegisterQMIDevice, StartSync, AddCdev, Disconnect, SyncThread,
            SyncFails, SyncGetClient, SyncAddClient, SyncUse, SyncRelease, SyncDelete,
            SyncFinish, SyncUnref, devVars, history
    <3> QED BY <3>1 DEF FlagTypes
  <2>2. CASE Unbind
    <3>1. /\ UNCHANGED mbQMIReady
          /\ (mbQMIValid' = FALSE) \/ (mbQMIValid' = mbQMIValid)
          /\ (mbDeregisterQMIDevice' = TRUE) \/ (mbDeregisterQMIDevice' = mbDeregisterQMIDevice)
          /\ (timedOut' = TRUE) \/ (timedOut' = timedOut)
      BY <2>2 DEF Unbind, DeregisterQMIDevice, WakePollers, ReleaseHead, DeleteHead,
            AllReleased, ForceClose, RemoveNode, DeleteCdev, GobiNetDriverUnbind, devVars,
            history
    <3> QED BY <3>1 DEF FlagTypes
  <2>3. ASSUME NEW t \in Threads, Continue(t) \/ Answer(t)
        PROVE  UNCHANGED <<mbQMIValid, mbDeregisterQMIDevice, mbQMIReady, timedOut>>
    BY <2>3 DEF Continue, Answer, OpenReady, OpenTimeout, OpenUnref, OpenCheck, OpenReturn,
          IoctlAddClient, IoctlStore, IoctlRelease, CloseScan, CloseRelease, CloseUnref,
          PollJoin, LeaveWait, GetClientID, IoctlFails, Wake, ReleaseRequest,
          ReleaseMemory, devVars, history
  <2>4. ASSUME NEW f \in Files, Dup(f) \/ \E t \in Threads : Begin(t, f)
        PROVE  UNCHANGED <<mbQMIValid, mbDeregisterQMIDevice, mbQMIReady, timedOut>>
    BY <2>4 DEF Begin, UserspaceOpen, UserspaceIOCTL, UserspaceClose, UserspaceRead,
          UserspacePoll, Dup, devVars, history
  <2> QED BY <2>1, <2>2, <2>3, <2>4 DEF Next, FlagTypes
<1> QED BY <1>1, <1>2 DEF FlagTypes

LEMMA KindsAlways == Spec => [](FlagTypes /\ Kinds)
<1>1. Init => FlagTypes /\ Kinds
  <2> SUFFICES ASSUME Init PROVE FlagTypes /\ Kinds
    OBVIOUS
  <2>1. FlagTypes
    BY DEF Init, FlagTypes
  <2>2. syncLeft \in Seq(Services)
    BY DEF Init, Services
  <2> QED BY <2>1, <2>2 DEF Init, Kinds, PlaceTypes, ClientTypes, SyncOK
<1>2. Inv /\ FlagTypes /\ Kinds /\ [Next]_vars => (FlagTypes /\ Kinds)'
  <2> SUFFICES ASSUME Inv, FlagTypes, Kinds, [Next]_vars PROVE (FlagTypes /\ Kinds)'
    OBVIOUS
  <2>1. CASE UNCHANGED vars
    BY <2>1 DEF vars, devVars, syncVars, clientVars, history, FlagTypes, Kinds, PlaceTypes,
          ClientTypes, SyncOK
  <2>2. CASE Next
    <3>1. FlagTypes'
      BY <2>2, FlagSteps
    <3>2. Kinds'
      BY <2>2, QuietKinds, CallKinds, BeginKinds DEF Next, Quiet, Inv
    <3> QED BY <3>1, <3>2
  <2> QED BY <2>1, <2>2
<1> QED BY <1>1, <1>2, InvAlways, PTL DEF Spec

\* The variables keep their types; what a call stores in a file is a client.
THEOREM TypesAlways == Spec => []TypeOK
<1>1. Inv /\ FlagTypes /\ Kinds => TypeOK
  BY DEF Inv, Typed, Kinds, TypeOK
<1> QED BY <1>1, KindsAlways, InvAlways, PTL
-----------------------------------------------------------------------------
(* The structure is freed in the end.                                      *)

\* A step of a program: of a call, or a new descriptor.
CallStep ==
    \/ \E t \in Threads : Continue(t) \/ Answer(t) \/ \E f \in Files : Begin(t, f)
    \/ \E f \in Files : Dup(f)

LEMMA CallsLeaveDriver ==
    ASSUME Typed, CallStep
    PROVE  UNCHANGED <<mbQMIValid, mbDeregisterQMIDevice, cdev, usb, victim, syncVars, timedOut>>
<1>1. ASSUME NEW t \in Threads, Continue(t) \/ Answer(t)
      PROVE  UNCHANGED <<mbQMIValid, mbDeregisterQMIDevice, cdev, usb, victim, syncVars, timedOut>>
  BY <1>1 DEF Continue, Answer, OpenReady, OpenTimeout, OpenUnref, OpenCheck, OpenReturn,
        IoctlAddClient, IoctlStore, IoctlRelease, CloseScan, CloseRelease, CloseUnref,
        PollJoin, LeaveWait, GetClientID, IoctlFails, Wake, ReleaseRequest, ReleaseMemory,
        devVars, history
<1>2. ASSUME NEW f \in Files, Dup(f) \/ \E t \in Threads : Begin(t, f)
      PROVE  UNCHANGED <<mbQMIValid, mbDeregisterQMIDevice, cdev, usb, victim, syncVars, timedOut>>
  BY <1>2 DEF Begin, UserspaceOpen, UserspaceIOCTL, UserspaceClose, UserspaceRead,
        UserspacePoll, Dup, devVars, history
<1> QED BY <1>1, <1>2 DEF CallStep

\* Without a call or a descriptor a program can only open the device, for
\* which there has to be a device node.
LEMMA CallsNeedNode ==
    ASSUME Typed, CallStep, NoCalls, NoFiles
    PROVE  cdev = "live"
<1>1. ASSUME NEW t \in Threads, Continue(t) \/ Answer(t) PROVE FALSE
  BY <1>1 DEF NoCalls, Continue, Answer, OpenReady, OpenTimeout, OpenUnref, OpenCheck,
        OpenReturn, IoctlAddClient, IoctlStore, IoctlRelease, CloseScan, CloseRelease,
        CloseUnref, PollJoin, LeaveWait, GetClientID, IoctlFails, Wake, ReleaseRequest,
        ReleaseMemory
<1>2. ASSUME NEW f \in Files PROVE ~Dup(f)
  <2>1. fds[f] = 0
    BY DEF NoFiles
  <2> QED BY <2>1, DeviceLifeAssumption DEF Dup
<1>3. ASSUME NEW f \in Files, NEW t \in Threads, Begin(t, f) PROVE cdev = "live"
  <2>1. ~(fds[f] > 0)
    BY DEF NoFiles
  <2> QED BY <1>3, <2>1 DEF Begin, UserspaceOpen, UserspaceIOCTL, UserspaceClose,
        UserspaceRead, UserspacePoll, Usable
<1> QED BY <1>1, <1>2, <1>3 DEF CallStep

\* A count of zero after the unbind has freed the structure.
ZeroIsFreed ==
    usb = "gone" /\ ~timedOut /\ doubled = 0 /\ refcount = 0 => freed

\* After the unbind only qmi_sync_thread can have a reference left, and it
\* tests the count when it gives it back.
LEMMA ZeroIsFreedStep ==
    ASSUME Typed, FlagTypes, GoneQuiet, ZeroIsFreed, [Next]_vars
    PROVE  ZeroIsFreed'
<1> SUFFICES ASSUME usb' = "gone", ~timedOut', doubled' = 0, refcount' = 0
             PROVE  freed'
  BY DEF ZeroIsFreed
<1>1. ASSUME DropAndFree PROVE freed'
  <2>1. refcount = 1
    BY <1>1 DEF DropAndFree, Typed, CountTypes
  <2> QED BY <1>1, <2>1 DEF DropAndFree
<1>2. CASE CallStep
  <2>1. usb = "gone" /\ ~timedOut
    BY <1>2, CallsLeaveDriver
  <2> QED BY <1>2, <2>1, CallsNeedNode DEF GoneQuiet
<1>3. CASE GobiNetDriverUnbind \/ SyncUnref
  BY <1>1, <1>3 DEF GobiNetDriverUnbind, SyncUnref
<1>4. CASE \/ UNCHANGED vars
           \/ Quiet /\ ~GobiNetDriverUnbind /\ ~SyncUnref
  <2>1. UNCHANGED <<usb, timedOut, doubled, refcount, freed>>
    BY <1>4 DEF Quiet, Probe, RegisterQMIDevice, StartSync, AddCdev, Disconnect, Unbind,
          DeregisterQMIDevice, WakePollers, ReleaseHead, DeleteHead, AllReleased,
          ForceClose, RemoveNode, DeleteCdev, SyncThread, SyncFails, SyncGetClient,
          SyncAddClient, SyncUse, SyncRelease, SyncDelete, SyncFinish, devVars, history,
          vars
  <2> QED BY <2>1 DEF ZeroIsFreed
<1> QED BY <1>2, <1>3, <1>4 DEF Next, Quiet, CallStep

\* For any number of threads, files and descriptors: when the unbind and
\* qmi_sync_thread are done and no program has the device open any more, the
\* structure is freed, but for a file that could not be closed properly and the
\* two races.
THEOREM FreedInTheEndAlways == Spec => []FreedInTheEnd
<1>1. Init => ZeroIsFreed
  BY DEF Init, ZeroIsFreed
<1>2. TypeOK /\ Inv /\ ZeroIsFreed /\ [Next]_vars => ZeroIsFreed'
  BY ZeroIsFreedStep DEF Inv, TypeOK
<1>3. ASSUME TypeOK, Inv, ZeroIsFreed PROVE FreedInTheEnd
  <2> SUFFICES ASSUME usb = "gone", sync \in {"none", "done"}, NoCalls, Kept = {},
                      doubled = 0, ~timedOut
               PROVE  freed
    BY <1>3 DEF FreedInTheEnd, TypeOK, CountTypes
  <2>1. Openers = {}
    BY DEF Openers, NoCalls
  <2>2. refcount = 0
    BY <1>3, <2>1, FS_EmptySet DEF Inv, RefsCounted, One
  <2> QED BY <1>3, <2>2 DEF ZeroIsFreed
<1> QED BY <1>1, <1>2, <1>3, InvAlways, TypesAlways, PTL DEF Spec

-----------------------------------------------------------------------------
(* The clients are released in the end.                                    *)

\* Once the release loop is over, or the probe has failed before it, only late
\* clients are on the list.
ReleasedInv ==
    /\ usb = "register" => mpClientMemList = {}
    /\ usb = "unbind" /\ ~mbQMIValid => sync = "none"
    /\ \/ usb \in {"closing", "destroying", "waiting", "unref", "gone"}
       \/ usb = "unbind" /\ ~mbQMIValid
       => mpClientMemList \subseteq late

\* What a call does to the lists.
LEMMA CallsAndLists ==
    ASSUME Typed, CallStep
    PROVE  \/ mpClientMemList' \subseteq mpClientMemList /\ UNCHANGED late
           \/ \E c : AddClient(c)
<1>1. ASSUME NEW t \in Threads, Continue(t) \/ Answer(t)
      PROVE  \/ mpClientMemList' \subseteq mpClientMemList /\ UNCHANGED late
             \/ \E c : AddClient(c)
  BY <1>1 DEF Continue, Answer, OpenReady, OpenTimeout, OpenUnref, OpenCheck, OpenReturn,
        IoctlAddClient, IoctlStore, IoctlRelease, CloseScan, CloseRelease, CloseUnref,
        PollJoin, LeaveWait, GetClientID, IoctlFails, Wake, ReleaseRequest, ReleaseMemory,
        clientVars
<1>2. ASSUME NEW f \in Files, Dup(f) \/ \E t \in Threads : Begin(t, f)
      PROVE  UNCHANGED <<mpClientMemList, late>>
  BY <1>2 DEF Begin, UserspaceOpen, UserspaceIOCTL, UserspaceClose, UserspaceRead,
        UserspacePoll, Dup, clientVars
<1> QED BY <1>1, <1>2 DEF CallStep

LEMMA ReleasedStep ==
    ASSUME Typed, GoneQuiet, ReleasedInv, [Next]_vars
    PROVE  ReleasedInv'
<1> USE DEF ReleasedInv
<1>1. CASE CallStep
  <2>1. UNCHANGED <<usb, mbQMIValid, cdev, sync>>
    BY <1>1, CallsLeaveDriver DEF syncVars
  <2>2. cdev # "none"
    BY <1>1, CallsNeedNode DEF GoneQuiet
  <2>3. usb \notin {"register"} /\ ~(usb = "unbind" /\ ~mbQMIValid)
    BY <2>2 DEF GoneQuiet
  <2> QED BY <1>1, <2>1, <2>3, CallsAndLists DEF AddClient
<1>2. CASE SyncAddClient
  BY <1>2 DEF SyncAddClient, AddClient, GoneQuiet, devVars
<1>3. CASE SyncThread /\ ~SyncAddClient
  <2>1. UNCHANGED <<usb, late, mbQMIValid>> /\ mpClientMemList' \subseteq mpClientMemList
    BY <1>3 DEF SyncThread, SyncFails, SyncGetClient, SyncUse, SyncRelease, SyncDelete,
          SyncFinish, SyncUnref, devVars, clientVars
  <2>2. sync # "none"
    BY <1>3 DEF SyncThread, SyncFails, SyncGetClient, SyncUse, SyncRelease, SyncDelete,
          SyncFinish, SyncUnref
  <2> QED BY <2>1, <2>2
<1>4. CASE RegisterQMIDevice
  BY <1>4 DEF RegisterQMIDevice, GoneQuiet, syncVars
<1>5. CASE StartSync \/ AddCdev \/ Disconnect
  BY <1>5 DEF StartSync, AddCdev, Disconnect, GoneQuiet, devVars, syncVars, clientVars
<1>6. CASE DeregisterQMIDevice
  BY <1>6 DEF DeregisterQMIDevice, syncVars, clientVars
<1>7. CASE Unbind /\ ~DeregisterQMIDevice
  BY <1>7 DEF Unbind, WakePollers, ReleaseHead, DeleteHead, AllReleased, ForceClose,
        RemoveNode, DeleteCdev, GobiNetDriverUnbind, devVars, syncVars, clientVars
<1>8. CASE UNCHANGED vars
  BY <1>8 DEF vars, devVars, syncVars, clientVars
<1> QED BY <1>1, <1>2, <1>3, <1>4, <1>5, <1>6, <1>7, <1>8
        DEF Next, CallStep, Probe

\* For any number of threads, files and clients: the disconnect leaves no
\* client behind but those of a GetClientID it overtook, or of a failed probe.
THEOREM ClientsReleasedAlways == Spec => []ClientsReleased
<1>1. Init => ReleasedInv
  BY DEF Init, ReleasedInv
<1>2. Inv /\ ReleasedInv /\ [Next]_vars => ReleasedInv'
  BY ReleasedStep DEF Inv
<1>3. ReleasedInv => ClientsReleased
  BY DEF ReleasedInv, ClientsReleased
<1> QED BY <1>1, <1>2, <1>3, InvAlways, PTL DEF Spec
-----------------------------------------------------------------------------
(* Every client has an owner who will release it.                          *)

\* Where a call owns its client: it has put it on the list and not yet into the
\* file, or has taken it out of the file and not yet off the list.
Owning == {"store", "release", "delete"}

\* A reader or poller of a client does not own it, nor does a file that is
\* being closed.
Owned(c) ==
    \/ c = QMICTL
    \/ \E f \in Files : private[f] /\ client[f] = c
    \/ \E t \in Threads : pc[t] \in Owning /\ call[t].client = c
    \/ c[1] = QMIWDS
    \/ sync \in {"use", "release", "delete"} /\ syncClient = c

\* A file in use has its storage, and a close has taken it out of use.
InUse ==
    /\ \A f \in Files : private[f] => data[f] = "live"
    /\ \A t \in Threads :
           pc[t] \in {"release", "delete", "drop"} => ~private[call[t].file]

\* qmi_sync_thread's client is of the service it is at; a device that is not
\* valid is one that deregisters, or one that neither the thread nor any
\* program ever saw.
DriverInv ==
    /\ sync \in {"add", "use", "release", "delete"} => syncClient[1] = Head(syncLeft)
    /\ usb \in {"releasing", "deleting", "closing", "destroying", "waiting"} =>
           mbDeregisterQMIDevice
    /\ ~mbQMIValid /\ ~mbDeregisterQMIDevice => sync = "none" /\ cdev = "none"

ListOwned ==
    ~mbDeregisterQMIDevice => \A c \in mpClientMemList \ orphans : Owned(c)

LEMMA DriverStep ==
    ASSUME Typed, GoneQuiet, DriverInv, [Next]_vars PROVE DriverInv'
<1> USE DEF DriverInv
<1>1. CASE CallStep
  BY <1>1, CallsLeaveDriver DEF syncVars
<1>2. CASE SyncGetClient
  BY <1>2 DEF SyncGetClient, Granted, devVars
<1>3. CASE SyncThread /\ ~SyncGetClient
  BY <1>3 DEF SyncThread, SyncFails, SyncAddClient, SyncUse, SyncRelease, SyncDelete,
        SyncFinish, SyncUnref, devVars
<1>4. CASE Probe \/ Disconnect
  BY <1>4 DEF Probe, RegisterQMIDevice, StartSync, AddCdev, Disconnect, GoneQuiet, devVars,
        syncVars
<1>5. CASE Unbind
  BY <1>5 DEF Unbind, DeregisterQMIDevice, WakePollers, ReleaseHead, DeleteHead,
        AllReleased, ForceClose, RemoveNode, DeleteCdev, GobiNetDriverUnbind, devVars,
        syncVars
<1>6. CASE UNCHANGED vars
  BY <1>6 DEF vars, devVars, syncVars
<1> QED BY <1>1, <1>2, <1>3, <1>4, <1>5, <1>6 DEF Next, CallStep

LEMMA InUseStep ==
    ASSUME Typed, OwnFiles, InUse, [Next]_vars PROVE InUse'
<1> DEFINE Out == {"release", "delete", "drop"}
<1>1. CASE Quiet
  BY <1>1, QuietKeeps DEF InUse, AtMostWoken
<1>2. ASSUME NEW t \in Threads, Continue(t) \/ Answer(t) PROVE InUse'
  <2> DEFINE f == call[t].file
  <2>1. /\ \A u \in Threads \ {t} : AtMostWoken(u)
        /\ GoesOn(t)
        /\ FilesStep(t)
    BY <1>2, CallKeeps
  <2>2. /\ pc[t] # "idle" => f \in Files
        /\ \A u \in Threads \ {t} : pc[u] # "idle" => call[u].file \in Files
    BY DEF Typed, CallsOK
  <2>3. CASE OpenReturn(t)
    <3>1. /\ f \in Files /\ \A u \in Threads \ {t} : call[u].file # f
          /\ pc'[t] = "idle"
          /\ data' = [data EXCEPT ![f] = "live"]
          /\ private' = [private EXCEPT ![f] = TRUE]
      BY <2>2, <2>3 DEF OpenReturn, Return, OwnFiles, Opening, Typed, CallTypes
    <3> HIDE DEF f
    <3>2. \A g \in Files : private'[g] => data'[g] = "live"
      BY <3>1 DEF InUse, Typed, FileTypes
    <3>3. \A u \in Threads : pc'[u] \in Out => ~private'[call'[u].file]
      <4> SUFFICES ASSUME NEW u \in Threads, pc'[u] \in Out
                   PROVE  ~private'[call'[u].file]
        OBVIOUS
      <4>1. u # t /\ pc[u] \in Out /\ call'[u].file = call[u].file /\ call[u].file # f
        BY <2>1, <3>1 DEF AtMostWoken
      <4>2. private'[call[u].file] = private[call[u].file]
        BY <2>2, <3>1, <4>1 DEF Typed, FileTypes
      <4> QED BY <4>1, <4>2 DEF InUse
    <3> QED BY <3>2, <3>3 DEF InUse
  <2>4. CASE CloseUnref(t)
    <3>1. /\ f \in Files /\ ~private[f] /\ pc'[t] = "idle" /\ UNCHANGED private
          /\ data' = [data EXCEPT ![f] = "freed"]
      BY <2>2, <2>4 DEF CloseUnref, Return, InUse, Typed, CallTypes
    <3> HIDE DEF f
    <3> QED BY <2>1, <3>1 DEF InUse, AtMostWoken, Typed, FileTypes
  <2>5. ASSUME ~OpenReturn(t), ~CloseUnref(t) PROVE InUse'
    <3>1. /\ UNCHANGED data
          /\ \/ private' = private
             \/ private' = [private EXCEPT ![f] = FALSE]
      BY <2>1, <2>5 DEF FilesStep
    <3>2. CASE pc'[t] \notin Out
      BY <2>1, <2>2, <3>1, <3>2 DEF InUse, AtMostWoken, Typed, FileTypes
    <3>3. CASE pc'[t] \in Out /\ pc[t] \in Out
      <4>1. UNCHANGED private
        BY <1>2, <2>5, <3>3 DEF Continue, Answer, OpenReady, OpenTimeout, OpenUnref, OpenCheck,
              IoctlAddClient, IoctlStore, IoctlRelease, CloseScan, CloseRelease,
              PollJoin, LeaveWait, GetClientID, IoctlFails, Wake, ReleaseRequest,
              ReleaseMemory, fileVars
      <4> QED BY <2>1, <3>1, <3>3, <4>1 DEF InUse, AtMostWoken, GoesOn
    <3>4. CASE pc'[t] \in Out /\ pc[t] \notin Out
      <4>1. CASE CloseScan(t)
        <5>1. pc[t] = "scan" /\ f \in Files
          BY <2>2, <4>1 DEF CloseScan
        <5>2. private' = [private EXCEPT ![f] = FALSE]
          BY <3>4, <4>1 DEF CloseScan, Return, Typed, CallTypes
        <5>3. call'[t].file = f
          BY <2>1, <3>4 DEF GoesOn
        <5> HIDE DEF f
        <5> QED BY <2>1, <2>2, <3>1, <5>1, <5>2, <5>3 DEF InUse, AtMostWoken, Typed, FileTypes
      <4>2. ASSUME ~CloseScan(t) PROVE FALSE
        <5>1. ASSUME NEW p, pc' = [pc EXCEPT ![t] = p] PROVE pc'[t] = p
          BY <5>1 DEF Typed, CallTypes
        <5>2. \/ \E p \in {"idle", "opened", "check", "alloc", "store", "add", "steal",
                           "stolen", "get", "poll"} : pc' = [pc EXCEPT ![t] = p]
              \/ CloseRelease(t) \/ ReleaseMemory(t, "stolen", "get")
          BY <1>2, <2>5, <4>2 DEF Continue, Answer, OpenReady, OpenTimeout, OpenUnref, OpenCheck,
                IoctlAddClient, IoctlStore, IoctlRelease, PollJoin, LeaveWait, GetClientID,
                IoctlFails, Wake, ReleaseRequest, GoTo, Return
        <5>3. CASE CloseRelease(t)
          BY <3>4, <5>3 DEF CloseRelease, ReleaseRequest, ReleaseMemory
        <5>4. CASE ReleaseMemory(t, "stolen", "get")
          <6>1. pc' = [WakeReaders(call[t].client) EXCEPT ![t] = "get"]
            BY <5>4 DEF ReleaseMemory
          <6>2. pc'[t] = "get"
            BY <6>1, ForgetKeeps DEF Typed
          <6> QED BY <3>4, <6>2
        <5> QED BY <3>4, <5>1, <5>2, <5>3, <5>4
      <4> QED BY <4>1, <4>2
    <3> QED BY <3>2, <3>3, <3>4
  <2> QED BY <2>3, <2>4, <2>5
<1>3. ASSUME NEW f \in Files, Dup(f) PROVE InUse'
  BY <1>3 DEF Dup, InUse
<1>4. ASSUME NEW f \in Files, NEW t \in Threads, Begin(t, f) PROVE InUse'
  <2>1. pc'[t] \notin Out \/ UNCHANGED <<pc, call>>
    BY <1>4 DEF Begin, UserspaceOpen, UserspaceIOCTL, UserspaceClose, UserspaceRead,
          UserspacePoll, Enter, Typed, CallTypes
  <2> QED BY <1>4, <2>1, BeginKeeps DEF InUse, AtMostWoken
<1>5. CASE UNCHANGED vars
  BY <1>5 DEF vars, fileVars, InUse
<1> QED BY <1>1, <1>2, <1>3, <1>4, <1>5 DEF Next, Quiet
\* A call other than t's owns its client as before.
OthersOwn(t) ==
    \A u \in Threads \ {t} :
        pc[u] \in Owning => pc'[u] = pc[u] /\ call'[u].client = call[u].client

LEMMA QuietOwns ==
    ASSUME Typed, Quiet
    PROVE  \A u \in Threads :
               pc[u] \in Owning => pc'[u] = pc[u] /\ call'[u].client = call[u].client
<1>1. CASE UNCHANGED <<pc, call>>
  BY <1>1
<1>2. CASE WakePollers
  BY <1>2 DEF WakePollers, Owning, Typed, CallTypes
<1>3. CASE DeleteHead \/ SyncDelete
  <2>1. PICK c : pc' = WakeReaders(c) /\ call' = ForgetQueue(c)
    BY <1>3 DEF DeleteHead, SyncDelete
  <2> QED BY <2>1, ForgetKeeps DEF Owning, Typed
<1>4. ASSUME ~WakePollers, ~DeleteHead, ~SyncDelete PROVE UNCHANGED <<pc, call>>
  BY <1>4 DEF Quiet, Probe, RegisterQMIDevice, StartSync, AddCdev, Disconnect, Unbind,
        DeregisterQMIDevice, ReleaseHead, AllReleased, ForceClose, RemoveNode, DeleteCdev,
        GobiNetDriverUnbind, SyncThread, SyncFails, SyncGetClient, SyncAddClient, SyncUse,
        SyncRelease, SyncFinish, SyncUnref
<1> QED BY <1>1, <1>2, <1>3, <1>4

LEMMA CallOthersOwn ==
    ASSUME Typed, NEW t \in Threads, Continue(t) \/ Answer(t) \/ \E f \in Files : Begin(t, f)
    PROVE  OthersOwn(t)
<1>1. CASE \E from, next : ReleaseMemory(t, from, next)
  <2>1. PICK next : /\ pc' = [WakeReaders(call[t].client) EXCEPT ![t] = next]
                    /\ \E r : call' = [ForgetQueue(call[t].client) EXCEPT ![t] = r]
    BY <1>1 DEF ReleaseMemory
  <2> QED BY <2>1, ForgetKeeps DEF OthersOwn, Owning, Typed
<1>2. ASSUME ~\E from, next : ReleaseMemory(t, from, next) PROVE OthersOwn(t)
  <2>1. /\ (pc' = pc) \/ (\E p : pc' = [pc EXCEPT ![t] = p])
        /\ (call' = call) \/ (\E r : call' = [call EXCEPT ![t] = r])
    BY <1>2 DEF Continue, Answer, OpenReady, OpenTimeout, OpenUnref, OpenCheck, OpenReturn,
          IoctlAddClient, IoctlStore, IoctlRelease, CloseScan, CloseRelease, CloseUnref,
          PollJoin, LeaveWait, GetClientID, IoctlFails, Wake, ReleaseRequest, GoTo, Return,
          Begin, UserspaceOpen, UserspaceIOCTL, UserspaceClose, UserspaceRead,
          UserspacePoll, Enter
  <2> QED BY <2>1 DEF OthersOwn, Typed, CallTypes
<1> QED BY <1>1, <1>2

\* An owner goes on to own when nothing changes about it.
LEMMA OwnedStays ==
    ASSUME NEW t, OthersOwn(t), NEW c, Owned(c),
           UNCHANGED <<private, client, sync, syncClient>>,
           t \in Threads /\ pc[t] \in Owning /\ call[t].client = c =>
               pc'[t] \in Owning /\ call'[t].client = c
    PROVE  Owned(c)'
BY DEF Owned, OthersOwn

LEMMA CallListOwned ==
    ASSUME Typed, ClientTypes, GoneQuiet, InUse, DriverInv, ListOwned, NEW t \in Threads,
           Continue(t) \/ Answer(t) \/ \E f \in Files : Begin(t, f)
    PROVE  ListOwned'
<1> DEFINE f == call[t].file
<1>1. UNCHANGED <<mbDeregisterQMIDevice, mbQMIValid, sync, syncClient>> /\ OthersOwn(t)
  BY CallsLeaveDriver, CallOthersOwn DEF CallStep, syncVars
<1> SUFFICES ASSUME ~mbDeregisterQMIDevice, NEW c \in (mpClientMemList \ orphans)'
             PROVE  Owned(c)'
  BY <1>1 DEF ListOwned
<1>2. pc[t] # "idle" => f \in Files /\ mbQMIValid
  <2>1. pc[t] # "idle" => ~NoCalls
    BY DEF NoCalls
  <2> QED BY <2>1 DEF Typed, CallsOK, GoneQuiet, DriverInv
<1>3. CASE IoctlAddClient(t)
  <2>1. /\ mpClientMemList' = mpClientMemList \cup {call[t].client}
        /\ UNCHANGED <<orphans, private, client, call>>
        /\ pc'[t] = "store" /\ pc[t] = "add"
    BY <1>3 DEF IoctlAddClient, AddClient, GoTo, fileVars, Typed, CallTypes
  <2>2. CASE c = call[t].client
    BY <2>1, <2>2 DEF Owned, Owning
  <2>3. CASE c # call[t].client
    <3>1. Owned(c)
      BY <2>1, <2>3 DEF ListOwned
    <3> QED BY <1>1, <2>1, <3>1, OwnedStays DEF Owning
  <2> QED BY <2>2, <2>3
<1>4. CASE IoctlStore(t)
  <2>1. /\ pc[t] = "store" /\ pc'[t] = "idle"
        /\ UNCHANGED <<mpClientMemList, private, data>>
        /\ client' = [client EXCEPT ![f] = call[t].client]
        /\ orphans' = orphans \cup (IF private[f] THEN {client[f]} \ {None}
                                                  ELSE {call[t].client})
    BY <1>4 DEF IoctlStore, Return, Typed, CallTypes
  <2>2. Owned(c) /\ f \in Files
    BY <1>2, <2>1 DEF ListOwned
  <2>3. client'[f] = call[t].client /\ \A g \in Files \ {f} : client'[g] = client[g]
    BY <2>1, <2>2 DEF Typed, FileTypes
  <2>4. CASE c = call[t].client
    <3>1. private[f]
      BY <2>1, <2>4
    <3> QED BY <2>1, <2>2, <2>3, <2>4, <3>1 DEF Owned
  <2>5. CASE c # call[t].client
    <3>1. CASE \E g \in Files : private[g] /\ client[g] = c
      <4>1. PICK g \in Files : private[g] /\ client[g] = c
        BY <3>1
      <4>2. CASE g = f
        <5>1. c \in Clients /\ c \notin orphans'
          BY <2>1 DEF ClientTypes
        <5> QED BY <2>1, <4>1, <4>2, <5>1, DeviceLifeAssumption
      <4> QED BY <2>1, <2>3, <4>1, <4>2 DEF Owned
    <3>2. CASE ~\E g \in Files : private[g] /\ client[g] = c
      BY <1>1, <2>1, <2>2, <2>5, <3>2 DEF Owned, OthersOwn
    <3> QED BY <3>1, <3>2
  <2> QED BY <2>4, <2>5
<1>5. CASE CloseScan(t)
  <2>1. /\ pc[t] = "scan" /\ UNCHANGED <<mpClientMemList, orphans, client>>
        /\ f \in Files
    BY <1>2, <1>5 DEF CloseScan, clientVars
  <2>2. Owned(c)
    BY <2>1 DEF ListOwned
  <2>3. CASE ~\E g \in Files : private[g] /\ client[g] = c
    BY <1>1, <2>1, <2>2, <2>3 DEF Owned, OthersOwn, Owning
  <2>4. ASSUME NEW g \in Files, private[g], client[g] = c PROVE Owned(c)'
    <3>1. CASE private'[g]
      BY <2>1, <2>4, <3>1 DEF Owned
    <3>2. CASE ~private'[g]
      <4>1. g = f /\ fds[f] = 0 /\ private' = [private EXCEPT ![f] = FALSE]
        BY <1>5, <2>1, <2>4, <3>2 DEF CloseScan, Typed, FileTypes
      <4>2. CASE c = None
        <5>1. c \in Clients
          BY <2>1 DEF ClientTypes
        <5> QED BY <4>2, <5>1, DeviceLifeAssumption
      <4>3. CASE c # None
        <5>1. /\ pc' = [pc EXCEPT ![t] = "release"]
              /\ call' = [call EXCEPT ![t] = [call[t] EXCEPT !.client = c]]
          BY <1>2, <1>5, <2>1, <2>4, <4>1, <4>3 DEF CloseScan
        <5>2. call[t] \in Calls /\ c \in Clients \cup {None}
          BY <2>4 DEF Typed, CallTypes, FileTypes
        <5>3. [call[t] EXCEPT !.client = c].client = c
          BY <5>2, CallWithClient
        <5>4. pc'[t] = "release" /\ call'[t].client = c
          BY <5>1, <5>3 DEF Typed, CallTypes
        <5> QED BY <5>4 DEF Owned, Owning
      <4> QED BY <4>2, <4>3
    <3> QED BY <3>1, <3>2
  <2> QED BY <2>3, <2>4
<1>6. CASE \E from \in {"stolen", "delete"} : \E next : ReleaseMemory(t, from, next)
  <2>1. /\ mpClientMemList' = mpClientMemList \ {call[t].client}
        /\ UNCHANGED <<orphans, private, client>>
    BY <1>6 DEF ReleaseMemory, fileVars
  <2>2. Owned(c) /\ c # call[t].client
    BY <2>1 DEF ListOwned
  <2> QED BY <1>1, <2>1, <2>2, OwnedStays
<1>7. CASE \E from, deleting, next :
               /\ ReleaseRequest(t, from, deleting, next)
               /\ <<from, deleting>> \in {<<"steal", "stolen">>, <<"release", "delete">>}
  <2>1. PICK from, deleting, next :
               /\ ReleaseRequest(t, from, deleting, next)
               /\ <<from, deleting>> \in {<<"steal", "stolen">>, <<"release", "delete">>}
    BY <1>7
  <2>2. pc[t] = from /\ from \in {"steal", "release"} /\ (from = "release" => deleting = "delete")
    BY <2>1 DEF ReleaseRequest
  <2>3. mbQMIValid
    BY <1>2, <2>2
  <2>4. /\ UNCHANGED <<mpClientMemList, orphans, private, client, call>>
        /\ pc' = [pc EXCEPT ![t] = deleting]
    BY <2>1, <2>3 DEF ReleaseRequest, GoTo, fileVars
  <2>5. pc'[t] = deleting
    BY <2>4 DEF Typed, CallTypes
  <2>6. Owned(c)
    BY <2>4 DEF ListOwned
  <2> QED BY <1>1, <2>2, <2>4, <2>5, <2>6, OwnedStays DEF Owning
<1>8. CASE OpenReturn(t)
  <2>1. /\ pc[t] = "alloc" /\ UNCHANGED <<mpClientMemList, orphans, client>>
        /\ private' = [private EXCEPT ![f] = TRUE]
    BY <1>8 DEF OpenReturn, clientVars
  <2>2. Owned(c)
    BY <2>1 DEF ListOwned
  <2>3. \A g \in Files : private[g] => private'[g]
    BY <2>1 DEF Typed, FileTypes
  <2> QED BY <1>1, <2>1, <2>2, <2>3 DEF Owned, OthersOwn, Owning
<1>9. ASSUME ~IoctlAddClient(t), ~IoctlStore(t), ~CloseScan(t), ~OpenReturn(t),
             ~IoctlRelease(t), ~CloseRelease(t)
      PROVE  Owned(c)'
  <2>1. UNCHANGED <<mpClientMemList, orphans, private, client>> /\ pc[t] \notin Owning
    BY <1>9 DEF Continue, Answer, OpenReady, OpenTimeout, OpenUnref, OpenCheck, CloseUnref,
          PollJoin, LeaveWait, GetClientID, IoctlFails, Wake, Begin, UserspaceOpen,
          UserspaceIOCTL, UserspaceClose, UserspaceRead, UserspacePoll, Enter, fileVars,
          clientVars, Owning
  <2>2. Owned(c)
    BY <2>1 DEF ListOwned
  <2> QED BY <1>1, <2>1, <2>2, OwnedStays
<1> QED BY <1>3, <1>4, <1>5, <1>6, <1>7, <1>8, <1>9 DEF IoctlRelease, CloseRelease

LEMMA ListOwnedStep ==
    ASSUME Typed, ClientTypes, GoneQuiet, InUse, DriverInv, ListOwned, [Next]_vars
    PROVE  ListOwned'
<1>1. ASSUME NEW t \in Threads, Continue(t) \/ Answer(t) \/ \E f \in Files : Begin(t, f)
      PROVE  ListOwned'
  BY <1>1, CallListOwned
<1>2. CASE UNCHANGED vars \/ \E f \in Files : Dup(f)
  BY <1>2 DEF Dup, vars, devVars, syncVars, clientVars, fileVars, ListOwned, Owned
<1>3. CASE Quiet
  <2>1. /\ \A u \in Threads :
               pc[u] \in Owning => pc'[u] = pc[u] /\ call'[u].client = call[u].client
        /\ UNCHANGED <<private, client>>
    <3>1. UNCHANGED client
      BY <1>3 DEF Quiet, Probe, RegisterQMIDevice, StartSync, AddCdev, Disconnect, Unbind,
            DeregisterQMIDevice, WakePollers, ReleaseHead, DeleteHead, AllReleased,
            ForceClose, RemoveNode, DeleteCdev, GobiNetDriverUnbind, SyncThread, SyncFails,
            SyncGetClient, SyncAddClient, SyncUse, SyncRelease, SyncDelete, SyncFinish,
            SyncUnref, fileVars
    <3> QED BY <1>3, <3>1, QuietOwns, QuietKeeps
  <2>2. ASSUME NEW c, Owned(c),
               sync \in {"use", "release", "delete"} /\ syncClient = c =>
                   \/ sync' \in {"use", "release", "delete"} /\ syncClient' = c
                   \/ c[1] = QMIWDS
        PROVE  Owned(c)'
    BY <2>1, <2>2 DEF Owned
  <2>3. CASE SyncAddClient
    <3>1. /\ mpClientMemList' = mpClientMemList \cup {syncClient} /\ sync = "add"
          /\ UNCHANGED <<mbDeregisterQMIDevice, orphans, syncClient>> /\ sync' = "use"
      BY <2>3 DEF SyncAddClient, AddClient, devVars
    <3>2. Owned(syncClient)'
      BY <3>1 DEF Owned
    <3> QED BY <2>2, <3>1, <3>2 DEF ListOwned
  <2>4. CASE SyncUse
    BY <2>2, <2>4 DEF SyncUse, ListOwned, DriverInv, devVars
  <2>5. CASE SyncRelease
    BY <2>2, <2>5 DEF SyncRelease, ListOwned, DriverInv, devVars
  <2>6. CASE SyncDelete
    BY <2>2, <2>6 DEF SyncDelete, ListOwned, devVars
  <2>7. CASE SyncFails \/ SyncGetClient \/ SyncFinish \/ SyncUnref
    <3>1. /\ sync \notin {"use", "release", "delete"}
          /\ UNCHANGED <<mpClientMemList, orphans, mbDeregisterQMIDevice>>
      BY <2>7 DEF SyncFails, SyncGetClient, SyncFinish, SyncUnref, devVars, clientVars
    <3> QED BY <2>2, <3>1 DEF ListOwned
  <2>8. CASE RegisterQMIDevice
    <3>1. \A c \in mpClientMemList' : c = QMICTL \/ c \in mpClientMemList
      BY <2>8 DEF RegisterQMIDevice
    <3>2. UNCHANGED <<orphans, mbDeregisterQMIDevice, sync, syncClient>>
      BY <2>8 DEF RegisterQMIDevice, syncVars
    <3>3. Owned(QMICTL)'
      BY DEF Owned
    <3> QED BY <2>2, <3>1, <3>2, <3>3 DEF ListOwned
  <2>9. CASE StartSync \/ AddCdev \/ Disconnect
    <3>1. /\ UNCHANGED <<mpClientMemList, orphans, mbDeregisterQMIDevice, syncClient>>
          /\ sync' = sync \/ sync = "none"
      BY <2>9 DEF StartSync, AddCdev, Disconnect, GoneQuiet, devVars, syncVars, clientVars
    <3> QED BY <2>2, <3>1 DEF ListOwned
  <2>10. CASE Unbind
    <3>1. /\ UNCHANGED <<orphans, sync, syncClient>>
          /\ mpClientMemList' \subseteq mpClientMemList
          /\ mbDeregisterQMIDevice' = mbDeregisterQMIDevice \/ mbDeregisterQMIDevice' = TRUE
      BY <2>10 DEF Unbind, DeregisterQMIDevice, WakePollers, ReleaseHead, DeleteHead,
            AllReleased, ForceClose, RemoveNode, DeleteCdev, GobiNetDriverUnbind, devVars,
            syncVars, clientVars
    <3> QED BY <2>2, <3>1 DEF ListOwned
  <2> QED BY <1>3, <2>3, <2>4, <2>5, <2>6, <2>7, <2>8, <2>9, <2>10
          DEF Quiet, Probe, SyncThread
<1> QED BY <1>1, <1>2, <1>3 DEF Next, Quiet

\* For any number of threads, files, descriptors and clients: until the
\* disconnect every client on the list belongs to an open file, to a call under
\* way or to the driver, unless calls on one file overlapped or a request of the
\* driver failed.
THEOREM ClientHasOwnerAlways == Spec => []ClientHasOwner
<1> DEFINE I == InUse /\ DriverInv /\ ListOwned
<1>1. Init => I
  BY DEF Init, InUse, DriverInv, ListOwned
<1>2. Inv /\ TypeOK /\ I /\ [Next]_vars => I'
  BY InUseStep, DriverStep, ListOwnedStep DEF Inv, TypeOK
<1>3. I => ClientHasOwner
  BY DEF InUse, ListOwned, Owned, ClientHasOwner
<1> HIDE DEF I
<1> QED BY <1>1, <1>2, <1>3, InvAlways, TypesAlways, PTL DEF Spec
=============================================================================
