------------------------------- MODULE TxThread -------------------------------
(***************************************************************************)
(* Transmission on kernels before 2.6.29: GobiUSBNetStartXmit queues each  *)
(* packet as an URB on mpURBList; GobiUSBNetAutoPMThread wakes the device  *)
(* for one packet at a time, hands it to the host controller and sleeps    *)
(* until GobiUSBNetURBCallback, which marks the active URB as done         *)
(* (EAGAIN) and wakes it again.  GobiUSBNetTXTimeout, open, stop, suspend  *)
(* and resume meet them.                                                   *)
(*                                                                         *)
(* The network stack, as the driver meets it: packets, timeouts and the    *)
(* stop of one interface exclude each other.  The USB core: usb_kill_urb   *)
(* waits for the callback of an URB in flight and does nothing for one     *)
(* that is not.                                                            *)
(***************************************************************************)
EXTENDS SequencesExt

CONSTANTS txQueueLength,  \* packets StartXmit queues before it is busy
          MaxPackets,     \* model bound: packets the stack sends
          MaxOpens,       \* model bound: times the interface is opened
          MaxTimeouts,    \* model bound: timeouts the stack declares
          MaxSuspends,    \* model bound: suspends that come from outside
          NULL, EAGAIN    \* the two values of mpActiveURB that are no URB

ASSUME TxThreadAssumption ==
    /\ txQueueLength \in Nat \ {0}
    /\ {MaxPackets, MaxOpens, MaxTimeouts, MaxSuspends} \subseteq Nat
    /\ NULL \notin Nat /\ EAGAIN \notin Nat /\ NULL # EAGAIN

VARIABLES
    ctl,            \* the interface: closed, open, or in GobiUSBNetStop
    mbExit,         \* the thread is to exit
    mpURBList,      \* packets queued
    mpActiveURB,    \* the packet the thread deals with, NULL or EAGAIN
    mThreadDoWork,  \* complete() calls nobody has waited for
    thread,         \* where GobiUSBNetAutoPMThread is; none: mpThread is NULL
    pURBListEntry,  \* the packet it has taken off the queue
    timeout,        \* where GobiUSBNetTXTimeout is
    pURB,           \* the URB that each of the two is to kill
    flying,         \* packets the host controller has
    suspended,      \* the down reason DRIVER_SUSPENDED
    pm,             \* usb_autopm references the thread has taken
    accepted, opens, timeouts, suspends,     \* counts, for the bounds
    sent,           \* history: packets submitted, in order
    lost,           \* history: packets freed or forgotten unsent
    unkicked,       \* history: a packet was put back, or a resume failed, and
                    \* nobody has called complete() since
    unpaid,         \* history: exits with a power reference not given back
    left,           \* history: an URB was in flight when the thread ended
    oops            \* history: who gave the USB core EAGAIN for an URB

iface == <<ctl, mbExit>>
work == <<mThreadDoWork, unkicked>>
queue == <<mpURBList, lost>>
killing == <<timeout, pURB>>
power == <<suspended, pm>>
counts == <<accepted, opens, timeouts, suspends>>
ends == <<unpaid, left, oops>>
vars == <<iface, work, queue, mpActiveURB, thread, pURBListEntry, killing,
          flying, power, counts, sent, ends>>

Packets == 1 .. accepted
Killers == {"thread", "timeout"}

TypeOK ==
    /\ ctl \in {"closed", "open", "stopping"}
    /\ mbExit \in BOOLEAN /\ suspended \in BOOLEAN
    /\ mpURBList \in Seq(Packets)
    /\ mpActiveURB \in Packets \cup {NULL, EAGAIN}
    /\ mThreadDoWork \in Nat /\ pm \in Int /\ unpaid \in Nat
    /\ thread \in {"none", "top", "wait", "woken", "relock", "get", "putback",
                   "unset", "submit", "exit", "kill", "clear"}
    /\ pURBListEntry \in Packets \cup {NULL}
    /\ timeout \in {"idle", "kill", "clear"}
    /\ pURB \in [Killers -> Packets \cup {NULL, EAGAIN}]
    /\ flying \subseteq Packets /\ lost \subseteq Packets
    /\ sent \in Seq(Packets)
    /\ {accepted, opens, timeouts, suspends} \subseteq Nat
    /\ unkicked \in BOOLEAN /\ left \in BOOLEAN
    /\ oops \subseteq Killers \cup {"submit"}

Init ==
    /\ ctl = "closed" /\ mbExit = FALSE
    /\ mpURBList = <<>> /\ mpActiveURB = NULL /\ mThreadDoWork = 0
    /\ thread = "none" /\ pURBListEntry = NULL /\ timeout = "idle"
    /\ pURB = [k \in Killers |-> NULL]
    /\ flying = {} /\ suspended = FALSE /\ pm = 0
    /\ accepted = 0 /\ opens = 0 /\ timeouts = 0 /\ suspends = 0
    /\ sent = <<>> /\ lost = {} /\ unpaid = 0
    /\ unkicked = FALSE /\ left = FALSE /\ oops = {}

One(has) == IF has THEN 1 ELSE 0

\* complete(&mThreadDoWork).
complete == mThreadDoWork' = mThreadDoWork + 1 /\ unkicked' = FALSE

-----------------------------------------------------------------------------
(* The network stack's calls.                                              *)

\* Everything the thread works with is set up anew and the thread started.
GobiUSBNetOpen ==
    /\ ctl = "closed" /\ opens < MaxOpens
    /\ mbExit' = FALSE
    /\ mpURBList' = <<>> /\ mpActiveURB' = NULL /\ mThreadDoWork' = 0
    /\ lost' = lost \cup ToSet(mpURBList)
    /\ opens' = opens + 1
    /\ \/ ctl' = "open" /\ thread' = "top"
       \/ UNCHANGED <<ctl, thread>>         \* kthread_run failed
    /\ UNCHANGED <<pURBListEntry, killing, flying, power, accepted, timeouts,
                   suspends, sent, unkicked, ends>>

\* A packet is accepted; a call that returns NETDEV_TX_BUSY changes nothing.
GobiUSBNetStartXmit ==
    /\ ctl = "open" /\ timeout = "idle" /\ ~suspended
    /\ Len(mpURBList) < txQueueLength
    /\ accepted < MaxPackets
    /\ accepted' = accepted + 1
    /\ mpURBList' = Append(mpURBList, accepted')
    /\ complete
    /\ UNCHANGED <<iface, mpActiveURB, thread, killing, pURBListEntry, flying,
                   power, opens, timeouts, suspends, sent, lost, ends>>

\* Variant: the thread is told to exit but not woken.
StopNoWake ==
    /\ ctl = "open" /\ timeout = "idle"
    /\ mbExit' = TRUE /\ ctl' = "stopping"
    /\ UNCHANGED <<queue, mpActiveURB, work, thread, killing, pURBListEntry,
                   flying, power, counts, sent, ends>>

GobiUSBNetStop ==
    /\ ctl = "open" /\ timeout = "idle"
    /\ mbExit' = TRUE /\ ctl' = "stopping"
    /\ complete
    /\ UNCHANGED <<queue, mpActiveURB, thread, killing, pURBListEntry, flying,
                   power, counts, sent, ends>>

\* It polls mpThread every 100 ms.
StopReturns ==
    /\ ctl = "stopping" /\ thread = "none"
    /\ ctl' = "closed"
    /\ UNCHANGED <<mbExit, queue, mpActiveURB, work, thread, killing,
                   pURBListEntry, flying, power, counts, sent, ends>>

-----------------------------------------------------------------------------
(* URBs that end.                                                          *)

\* The callback: whatever mpActiveURB is, it becomes EAGAIN.
Complete(p) ==
    /\ flying' = flying \ {p}
    /\ mpActiveURB' = EAGAIN
    /\ complete

\* Variant: the callback does not wake the thread.
CallbackNoWake(p) ==
    /\ p \in flying
    /\ flying' = flying \ {p} /\ mpActiveURB' = EAGAIN
    /\ UNCHANGED <<iface, queue, work, thread, killing, pURBListEntry, power,
                   counts, sent, ends>>

\* Sent, or failed: there is no difference.
GobiUSBNetURBCallback(p) ==
    /\ p \in flying
    /\ Complete(p)
    /\ UNCHANGED <<iface, queue, thread, killing, pURBListEntry, power, counts,
                   sent, ends>>

\* usb_kill_urb of the URB that k has noted, unless that is NULL.
Kill(k) ==
    \/ pURB[k] \in flying /\ Complete(pURB[k]) /\ UNCHANGED oops
    \/ /\ pURB[k] \notin flying
       /\ oops' = IF pURB[k] = EAGAIN THEN oops \cup {k} ELSE oops
       /\ UNCHANGED <<flying, mpActiveURB, work>>

\* The packets queued are freed.
FreeList == mpURBList' = <<>> /\ lost' = lost \cup ToSet(mpURBList)

\* GobiUSBNetTXTimeout notes the active URB, which may be EAGAIN.
TXTimeoutLook ==
    /\ ctl = "open" /\ timeout = "idle" /\ timeouts < MaxTimeouts
    /\ timeout' = "kill" /\ timeouts' = timeouts + 1
    /\ pURB' = [pURB EXCEPT !["timeout"] = mpActiveURB]
    /\ UNCHANGED <<iface, queue, mpActiveURB, work, thread, pURBListEntry,
                   flying, power, accepted, opens, suspends, sent, ends>>

TXTimeoutKill ==
    /\ timeout = "kill"
    /\ Kill("timeout")
    /\ pURB' = [pURB EXCEPT !["timeout"] = NULL]
    /\ timeout' = "clear"
    /\ UNCHANGED <<iface, queue, thread, pURBListEntry, power, counts, sent,
                   unpaid, left>>

TXTimeoutClear ==
    /\ timeout = "clear"
    /\ FreeList /\ complete
    /\ timeout' = "idle"
    /\ UNCHANGED <<iface, mpActiveURB, thread, pURBListEntry, pURB, flying,
                   power, counts, sent, ends>>

GobiUSBNetTXTimeout == TXTimeoutLook \/ TXTimeoutKill \/ TXTimeoutClear

-----------------------------------------------------------------------------
(* GobiUSBNetAutoPMThread.                                                 *)

\* An exit with an URB that is active: nobody gives its power reference back.
LeaveThread ==
    /\ thread' = "none"
    /\ unpaid' = unpaid + One(mpActiveURB # NULL)
    /\ left' = (left \/ flying # {})

\* The loop's condition: an exit from here skips the clean-up.
TestExit ==
    /\ thread = "top"
    /\ IF mbExit THEN LeaveThread
                 ELSE thread' = "wait" /\ UNCHANGED <<unpaid, left>>
    /\ UNCHANGED <<iface, queue, mpActiveURB, work, killing, pURBListEntry,
                   flying, power, counts, sent, oops>>

WaitForWork ==
    /\ thread = "wait" /\ mThreadDoWork > 0
    /\ mThreadDoWork' = mThreadDoWork - 1
    /\ thread' = "woken"
    /\ UNCHANGED <<iface, queue, mpActiveURB, killing, pURBListEntry, flying,
                   power, counts, sent, unkicked, ends>>

\* Time to exit: note the active URB ...
ExitLook ==
    /\ thread = "woken" /\ mbExit
    /\ pURB' = [pURB EXCEPT !["thread"] = mpActiveURB]
    /\ thread' = "exit"
    /\ UNCHANGED <<iface, queue, mpActiveURB, work, timeout, pURBListEntry,
                   flying, power, counts, sent, ends>>

\* ... which is forgotten when mpActiveURB, read again, says that it is done.
ExitTest ==
    /\ thread = "exit"
    /\ pURB' =
           IF mpActiveURB = EAGAIN
           THEN [pURB EXCEPT !["thread"] = NULL]
           ELSE pURB
    /\ thread' = "kill"
    /\ UNCHANGED <<iface, queue, mpActiveURB, work, timeout, pURBListEntry,
                   flying, power, counts, sent, ends>>

ExitKill ==
    /\ thread = "kill"
    /\ Kill("thread")
    /\ pURB' = [pURB EXCEPT !["thread"] = NULL]
    /\ thread' = "clear"
    /\ UNCHANGED <<iface, queue, timeout, pURBListEntry, power, counts, sent,
                   unpaid, left>>

ExitClear ==
    /\ thread = "clear"
    /\ FreeList
    /\ LeaveThread
    /\ UNCHANGED <<iface, mpActiveURB, work, killing, pURBListEntry, flying,
                   power, counts, sent, oops>>

\* With both locks held: sleep again, or take the first packet of the queue.
TakeNext ==
    \/ /\ mpActiveURB # NULL \/ mpURBList = <<>>
       /\ thread' = "top"
       /\ UNCHANGED <<mpURBList, mpActiveURB, pURBListEntry>>
    \/ /\ mpActiveURB = NULL /\ mpURBList # <<>>
       /\ pURBListEntry' = Head(mpURBList)
       /\ mpActiveURB' = Head(mpURBList)
       /\ mpURBList' = Tail(mpURBList)
       /\ thread' = "get"

\* An URB that is done gives its power reference back, with the lock released.
CheckActive ==
    /\ thread = "woken" /\ ~mbExit
    /\ \/ /\ mpActiveURB = EAGAIN
          /\ mpActiveURB' = NULL /\ pm' = pm - 1 /\ thread' = "relock"
          /\ UNCHANGED <<mpURBList, pURBListEntry>>
       \/ mpActiveURB # EAGAIN /\ TakeNext /\ UNCHANGED pm
    /\ UNCHANGED <<iface, work, killing, flying, suspended, counts, sent, lost,
                   ends>>

AfterPut ==
    /\ thread = "relock"
    /\ TakeNext
    /\ UNCHANGED <<iface, work, killing, flying, power, counts, sent, lost,
                   ends>>

\* usb_autopm_get_interface.  It may resume the device, whose GobiResume calls
\* complete(); -EPERM makes the driver suspend itself.
AutopmGet ==
    /\ thread = "get"
    /\ \/ /\ thread' = "submit" /\ pm' = pm + 1
          /\ complete \/ UNCHANGED <<work>>
          /\ UNCHANGED suspended
       \/ /\ thread' = "putback" /\ suspended' \in {suspended, TRUE}
          /\ UNCHANGED <<pm, work>>
    /\ UNCHANGED <<iface, queue, mpActiveURB, killing, pURBListEntry, flying,
                   counts, sent, ends>>

\* Variant: the packet goes to the end of the queue.
PutBackLast ==
    /\ thread = "putback"
    /\ mpURBList' = Append(mpURBList, pURBListEntry)
    /\ unkicked' = TRUE
    /\ thread' = "unset" /\ pURBListEntry' = NULL
    /\ UNCHANGED <<iface, mpActiveURB, mThreadDoWork, killing, flying, power,
                   counts, sent, lost, ends>>

\* The packet goes back to the head of the queue; nobody calls complete().
PutBack ==
    /\ thread = "putback"
    /\ mpURBList' = <<pURBListEntry>> \o mpURBList
    /\ unkicked' = TRUE
    /\ thread' = "unset" /\ pURBListEntry' = NULL
    /\ UNCHANGED <<iface, mpActiveURB, mThreadDoWork, killing, flying, power,
                   counts, sent, lost, ends>>

ForgetActive ==
    /\ thread = "unset"
    /\ mpActiveURB' = NULL /\ thread' = "top"
    /\ UNCHANGED <<iface, queue, work, killing, pURBListEntry, flying, power,
                   counts, sent, ends>>

\* Variant: a packet that cannot be submitted keeps the device awake.
SubmitNoPut ==
    /\ thread = "submit" /\ thread' = "top" /\ pURBListEntry' = NULL
    /\ \/ /\ mpActiveURB # EAGAIN
          /\ flying' = flying \cup {mpActiveURB}
          /\ sent' = Append(sent, mpActiveURB)
          /\ UNCHANGED <<mpActiveURB, work, lost, oops>>
       \/ /\ mpActiveURB' = NULL
          /\ lost' = lost \cup {pURBListEntry}
          /\ complete
          /\ UNCHANGED <<flying, sent, oops>>
    /\ UNCHANGED <<iface, mpURBList, killing, power, counts, unpaid, left>>

\* usb_submit_urb, of whatever mpActiveURB is by now; a packet it does not take
\* is dropped.
Submit ==
    /\ thread = "submit" /\ thread' = "top" /\ pURBListEntry' = NULL
    /\ oops' = IF mpActiveURB = EAGAIN THEN oops \cup {"submit"} ELSE oops
    /\ \/ /\ mpActiveURB # EAGAIN
          /\ flying' = flying \cup {mpActiveURB}
          /\ sent' = Append(sent, mpActiveURB)
          /\ UNCHANGED <<mpActiveURB, work, pm, lost>>
       \/ /\ mpActiveURB' = NULL
          /\ lost' = lost \cup {pURBListEntry}
          /\ pm' = pm - 1
          /\ complete
          /\ UNCHANGED <<flying, sent>>
    /\ UNCHANGED <<iface, mpURBList, killing, suspended, counts, unpaid, left>>

AutoPMThread ==
    \/ TestExit \/ WaitForWork \/ ExitLook \/ ExitTest \/ ExitKill \/ ExitClear
    \/ CheckActive \/ AfterPut \/ AutopmGet \/ PutBack \/ ForgetActive \/ Submit

-----------------------------------------------------------------------------
(* Power management.                                                       *)

GobiSuspend ==
    /\ ~suspended /\ suspends < MaxSuspends
    /\ suspended' = TRUE /\ suspends' = suspends + 1
    /\ UNCHANGED <<iface, queue, mpActiveURB, work, thread, killing,
                   pURBListEntry, flying, pm, accepted, opens, timeouts, sent,
                   ends>>

\* usbnet_resume or StartRead may fail: the reason is cleared and the thread
\* stays asleep.
GobiResume ==
    /\ suspended /\ suspended' = FALSE
    /\ \/ complete
       \/ unkicked' = TRUE /\ UNCHANGED mThreadDoWork
    /\ UNCHANGED <<iface, queue, mpActiveURB, thread, killing, pURBListEntry,
                   flying, pm, counts, sent, ends>>

-----------------------------------------------------------------------------
Next ==
    \/ GobiUSBNetOpen \/ GobiUSBNetStartXmit \/ GobiUSBNetStop \/ StopReturns
    \/ \E p \in flying : GobiUSBNetURBCallback(p)
    \/ GobiUSBNetTXTimeout
    \/ AutoPMThread
    \/ GobiSuspend \/ GobiResume

Spec == Init /\ [][Next]_vars

\* The thread runs, the host controller ends every transfer, a timeout and a
\* stop that have begun go on.
Fairness ==
    /\ WF_vars(AutoPMThread)
    /\ \A p \in 1 .. MaxPackets : WF_vars(GobiUSBNetURBCallback(p))
    /\ WF_vars(TXTimeoutKill) /\ WF_vars(TXTimeoutClear)
    /\ WF_vars(StopReturns)

FairSpec == Spec /\ Fairness

-----------------------------------------------------------------------------
(* The properties.                                                         *)

\* The packet the thread has taken off the queue and not passed on.
InHand == {pURBListEntry} \ {NULL}

\* Packets go out in the order they came, none twice and none forgotten: each is
\* queued, in hand, submitted or lost, which is also what becomes of a packet in
\* hand whose place a late callback of the session before has marked as done.  A
\* packet put back makes the queue one longer than StartXmit's limit, never more.
SentInOrder ==
    /\ \A i, j \in DOMAIN sent : i < j => sent[i] < sent[j]
    /\ \A i, j \in DOMAIN mpURBList : i < j => mpURBList[i] < mpURBList[j]
    /\ \A i \in DOMAIN sent, j \in DOMAIN mpURBList : sent[i] < mpURBList[j]
    /\ Packets = ToSet(sent) \cup lost \cup ToSet(mpURBList) \cup InHand
    /\ Len(mpURBList) <= txQueueLength + 1

\* The thread never sleeps on a queued packet: a transfer whose callback will
\* wake it is under way, unless a packet was put back or a resume failed without
\* waking it, or the device is suspended and its resume will.
WorkIsNoticed ==
    thread = "wait" /\ mThreadDoWork = 0 /\ mpURBList # <<>> =>
        flying # {} \/ unkicked \/ suspended

\* One transfer at a time, and the device held awake for it: the references are
\* those of the active URB and of the exits that gave none back.  Only a timeout
\* hands the USB core the mark of an URB that is done.
PowerFollows ==
    ~left =>
        /\ Cardinality(flying) <= 1
        /\ flying # {} => mpActiveURB \in flying
        /\ pm = unpaid + One(/\ thread # "none" /\ mpActiveURB # NULL
                             /\ thread \notin {"get", "putback", "unset"})
        /\ oops \subseteq {"timeout"}

\* GobiUSBNetStop gets past the thread, and a queued packet is taken by it,
\* unless the interface is stopped, the device suspended or the thread not woken.
StopEnds == ctl = "stopping" ~> ctl = "closed"
QueueServed ==
    \A p \in 1 .. MaxPackets :
        p \in ToSet(mpURBList) ~>
            p \notin ToSet(mpURBList) \/ mbExit \/ suspended \/ unkicked
ThreadResponds == StopEnds /\ QueueServed
=============================================================================
