------------------------------ MODULE LinkState ------------------------------
(***************************************************************************)
(* The callers of DownReason: the callback that follows the WDS service's  *)
(* link messages, the speed changes IntCallback sees, suspend and resume,  *)
(* open and stop, and the disconnect that releases the WDS client.         *)
(*                                                                         *)
(* QMIWDSCallback is an asynchronous reader of the WDS client's store: it  *)
(* takes itself off the notify list by being called, pops one message and  *)
(* registers again with ReadAsync, which calls it directly when there is   *)
(* another message.  It runs in ReadCallback, in the thread that sets it   *)
(* up, or in ReleaseClientID.  The two URB callbacks never run together    *)
(* (module ReadChain).                                                     *)
(***************************************************************************)
EXTENDS DownReason, Naturals, Sequences

CONSTANTS NO_NDIS_CONNECTION, CDC_CONNECTION_SPEED, DRIVER_SUSPENDED,
          NET_IFACE_STOPPED,
          MaxMessages   \* bound on the WDS messages of a behaviour

ASSUME LinkStateAssumption ==
    /\ Reasons = {NO_NDIS_CONNECTION, CDC_CONNECTION_SPEED, DRIVER_SUSPENDED,
                  NET_IFACE_STOPPED}
    /\ ProbeReasons = {NO_NDIS_CONNECTION, NET_IFACE_STOPPED}
    /\ NO_NDIS_CONNECTION \notin {CDC_CONNECTION_SPEED, DRIVER_SUSPENDED, NET_IFACE_STOPPED}
    /\ MaxMessages \in Nat

\* What a WDS message says of the link; other: statistics, or unreadable.
Messages == {"up", "down", "reset", "other"}

VARIABLES mpList,     \* the WDS client's message store
          listed,     \* the WDS client is on mpClientMemList
          registered, \* QMIWDSCallback is on its notify list
          wds,        \* where a running QMIWDSCallback or ReadAsync is
          inRead,     \* it runs in ReadCallback
          deaf,       \* its (re-)registration failed for want of memory
          lastLink,   \* history: the last state a stored message gave
          reading,    \* the URBs are in flight (module ReadChain)
          power,      \* where the power and disconnect calls are
          netUp,      \* usbnet has the interface open
          received

wdsVars == <<mpList, listed, registered, wds, inRead, deaf, lastLink, received>>
vars == <<downVars, wdsVars, reading, power, netUp>>

TypeOK ==
    /\ DownTypeOK
    /\ mpList \in Seq(Messages) /\ received \in 0 .. MaxMessages
    /\ wds \in Messages \cup {"unset", "none", "readasync", "pop", "clear"}
    /\ listed \in BOOLEAN /\ registered \in BOOLEAN /\ inRead \in BOOLEAN
    /\ deaf \in BOOLEAN /\ reading \in BOOLEAN /\ netUp \in BOOLEAN
    /\ lastLink \in {"up", "down"}
    /\ power \in {"on", "suspending", "suspended", "resuming", "frozen",
                  "releasing", "notifying", "killing", "gone"}

\* The device is registered and qmi_sync_thread has the WDS client.
Init ==
    /\ DownInit
    /\ mpList = <<>> /\ listed = TRUE /\ registered = FALSE /\ wds = "unset"
    /\ inRead = FALSE /\ deaf = FALSE /\ lastLink = "down" /\ received = 0
    /\ reading = TRUE /\ power = "on" /\ netUp = FALSE

-----------------------------------------------------------------------------
(* The WDS callback.                                                       *)

\* SetupQMIWDSCallback gets to its ReadAsync, or one of its requests failed.
SetupQMIWDSCallback ==
    /\ wds = "unset"
    /\ \/ wds' = "readasync" /\ UNCHANGED deaf
       \/ wds' = "none" /\ deaf' = TRUE
    /\ UNCHANGED <<downVars, mpList, listed, registered, inRead, lastLink,
                   received, reading, power, netUp>>

\* ReadAsync: call back at once if there is a message, else register; that
\* may fail and is only logged.
ReadAsync ==
    /\ wds = "readasync" /\ step[NO_NDIS_CONNECTION] = "none"
    /\ \/ ~listed /\ wds' = "none" /\ UNCHANGED <<registered, deaf>>
       \/ listed /\ mpList # <<>> /\ wds' = "pop" /\ UNCHANGED <<registered, deaf>>
       \/ /\ listed /\ mpList = <<>> /\ wds' = "none"
          /\ \/ registered' = TRUE /\ UNCHANGED deaf
             \/ deaf' = TRUE /\ UNCHANGED registered
    /\ UNCHANGED <<downVars, mpList, listed, inRead, lastLink, received,
                   reading, power, netUp>>

\* Variant: registers again when there was nothing to read.
PopOrRegister ==
    /\ wds = "pop"
    /\ IF listed /\ mpList # <<>>
       THEN wds' = Head(mpList) /\ mpList' = Tail(mpList)
       ELSE wds' = "readasync" /\ UNCHANGED mpList
    /\ UNCHANGED <<downVars, listed, registered, inRead, deaf, lastLink,
                   received, reading, power, netUp>>

\* QMIWDSCallback pops a message; without one it does not register again.
PopMessage ==
    /\ wds = "pop"
    /\ IF listed /\ mpList # <<>>
       THEN wds' = Head(mpList) /\ mpList' = Tail(mpList)
       ELSE wds' = "none" /\ UNCHANGED mpList
    /\ UNCHANGED <<downVars, listed, registered, inRead, deaf, lastLink,
                   received, reading, power, netUp>>

\* Variant: a packet it cannot read ends the callback.
HandleStrict ==
    /\ wds = "other" /\ wds' = "none"
    /\ UNCHANGED <<downVars, mpList, listed, registered, inRead, deaf, lastLink,
                   received, reading, power, netUp>>

\* Variant: a reset of the link takes it down only.
HandleResetDown ==
    /\ wds \in {"down", "reset"} /\ GobiSetDownReason(NO_NDIS_CONNECTION)
    /\ wds' = "readasync"
    /\ UNCHANGED <<mpList, listed, registered, inRead, deaf, lastLink,
                   received, reading, power, netUp>>

\* QMIWDSCallback acts on the message: a reset takes the link down and up
\* again; a state is set only if it is new.
HandleMessage ==
    LET down == NO_NDIS_CONNECTION \in mDownReason
    IN  /\ \/ wds = "other" /\ wds' = "readasync" /\ UNCHANGED downVars
           \/ wds = "up" /\ ~down /\ wds' = "readasync" /\ UNCHANGED downVars
           \/ wds = "down" /\ down /\ wds' = "readasync" /\ UNCHANGED downVars
           \/ wds = "up" /\ down /\ wds' = "readasync"
              /\ GobiClearDownReason(NO_NDIS_CONNECTION)
           \/ wds = "down" /\ ~down /\ wds' = "readasync"
              /\ GobiSetDownReason(NO_NDIS_CONNECTION)
           \/ wds = "reset" /\ wds' = "clear"
              /\ GobiSetDownReason(NO_NDIS_CONNECTION)
           \/ wds = "clear" /\ wds' = "readasync"
              /\ GobiClearDownReason(NO_NDIS_CONNECTION)
        /\ UNCHANGED <<mpList, listed, registered, inRead, deaf, lastLink,
                       received, reading, power, netUp>>

-----------------------------------------------------------------------------
(* The URB callbacks, of which one runs at a time.                         *)

UrbCallbacksIdle ==
    /\ step[CDC_CONNECTION_SPEED] = "none"
    /\ inRead => wds = "none"

\* ReadCallback stores a message for the WDS client and, if its callback is
\* registered, takes it off the notify list and calls it.
ReadCallback(m) ==
    /\ reading /\ UrbCallbacksIdle
    /\ listed /\ received < MaxMessages
    /\ received' = received + 1
    /\ mpList' = Append(mpList, m)
    /\ lastLink' = CASE m = "down" -> "down"
                     [] m \in {"up", "reset"} -> "up"
                     [] OTHER -> lastLink
    /\ registered' = FALSE
    /\ inRead' = (IF registered THEN TRUE ELSE inRead)
    /\ wds' = IF registered THEN "pop" ELSE wds
    /\ UNCHANGED <<downVars, listed, deaf, reading, power, netUp>>

\* IntCallback on a CONNECTION_SPEED_CHANGE to or from zero.
SpeedChange ==
    /\ reading /\ UrbCallbacksIdle
    /\ \/ GobiSetDownReason(CDC_CONNECTION_SPEED)
       \/ GobiClearDownReason(CDC_CONNECTION_SPEED)
    /\ UNCHANGED <<wdsVars, reading, power, netUp>>

-----------------------------------------------------------------------------
(* Power management, the network layer and the disconnect.                 *)

\* GobiSuspend; the bit is not set for autosuspend.  A freeze does not stop
\* the callbacks: "Other power modes cause QMI connection to be lost", and the
\* USB core unbinds and probes the device anew.
GobiSuspend ==
    /\ power = "on"
    /\ \/ power' \in {"suspending", "frozen"} /\ GobiSetDownReason(DRIVER_SUSPENDED)
       \/ power' = "suspending" /\ UNCHANGED downVars
    /\ UNCHANGED <<wdsVars, reading, netUp>>

\* KillRead, which waits for the callbacks, for GobiSuspend and, when all
\* clients are released, for DeregisterQMIDevice.
KillRead ==
    /\ power \in {"suspending", "killing"} /\ step[DRIVER_SUSPENDED] = "none"
    /\ UrbCallbacksIdle
    /\ reading' = FALSE
    /\ power' = IF power = "killing" THEN "gone" ELSE "suspended"
    /\ UNCHANGED <<downVars, wdsVars, netUp>>

\* GobiResume clears the bit, whoever set it, ...
GobiResume ==
    /\ power = "suspended"
    /\ GobiClearDownReason(DRIVER_SUSPENDED)
    /\ power' = "resuming"
    /\ UNCHANGED <<wdsVars, reading, netUp>>

\* ... and restarts the callbacks, if it can.
StartRead ==
    /\ power = "resuming" /\ step[DRIVER_SUSPENDED] = "none"
    /\ power' = "on"
    /\ reading' \in BOOLEAN
    /\ UNCHANGED <<downVars, wdsVars, netUp>>

\* GobiUSBNetOpen allows traffic; usbnet's own open may then fail.
GobiUSBNetOpen ==
    /\ ~netUp /\ bound
    /\ GobiClearDownReason(NET_IFACE_STOPPED)
    /\ netUp' \in BOOLEAN
    /\ UNCHANGED <<wdsVars, reading, power>>

GobiUSBNetStop ==
    /\ netUp /\ bound
    /\ GobiSetDownReason(NET_IFACE_STOPPED)
    /\ netUp' = FALSE
    /\ UNCHANGED <<wdsVars, reading, power>>

\* GobiNetDriverUnbind: the network layer has stopped the interface.
Unbind ==
    /\ power \in {"on", "suspended", "frozen"} /\ ~netUp
    /\ step[DRIVER_SUSPENDED] = "none" /\ step[NET_IFACE_STOPPED] = "none"
    /\ NetUnbind
    /\ power' = "releasing"
    /\ UNCHANGED <<wdsVars, reading, netUp>>

\* ReleaseClientID takes every waiter off the notify list and calls it, until
\* there is none; then the client and its messages are deleted.
ReleaseClientID ==
    /\ power = "releasing"
    /\ IF registered
       THEN /\ registered' = FALSE /\ wds' = "pop" /\ inRead' = FALSE
            /\ power' = "notifying"
            /\ UNCHANGED <<mpList, listed>>
       ELSE /\ listed' = FALSE /\ mpList' = <<>>
            /\ power' = "killing"
            /\ UNCHANGED <<registered, wds, inRead>>
    /\ UNCHANGED <<downVars, deaf, lastLink, received, reading, netUp>>

\* The callback has returned to ReleaseClientID.
ReleaseContinue ==
    /\ power = "notifying" /\ wds = "none"
    /\ power' = "releasing"
    /\ UNCHANGED <<downVars, wdsVars, reading, netUp>>

-----------------------------------------------------------------------------
WdsStep == SetupQMIWDSCallback \/ ReadAsync \/ PopMessage \/ HandleMessage

ContinueDown(r) == Continue(r) /\ UNCHANGED <<wdsVars, reading, power, netUp>>

ControlStep == StartRead \/ ReleaseClientID \/ ReleaseContinue

Next ==
    \/ WdsStep \/ KillRead \/ ControlStep
    \/ \E m \in Messages : ReadCallback(m)
    \/ SpeedChange \/ GobiSuspend \/ GobiResume \/ Unbind
    \/ GobiUSBNetOpen \/ GobiUSBNetStop
    \/ \E r \in Reasons : ContinueDown(r)

Spec == Init /\ [][Next]_vars

\* What has started is finished by its thread or interrupt handler; messages,
\* power events and calls of the network layer need never come.  A kill
\* refuses new submissions while it waits, so that it gets its turn however
\* often the callbacks run (strong fairness).
FairSpec ==
    /\ Spec
    /\ WF_vars(WdsStep) /\ WF_vars(ControlStep) /\ SF_vars(KillRead)
    /\ \A r \in Reasons : WF_vars(ContinueDown(r))

-----------------------------------------------------------------------------
(* Properties (with NotStuckDown and DownMeansOff of DownReason).          *)

\* The link state follows the device: when the callback waits for the next
\* message, NO_NDIS_CONNECTION is set exactly if the last state the device
\* sent was down.
LinkFollowsLast ==
    listed /\ registered /\ step[NO_NDIS_CONNECTION] = "none" =>
        (NO_NDIS_CONNECTION \in mDownReason <=> lastLink = "down")

\* QMIWDSCallback and ReadAsync call each other, but never in the URB's
\* completion handler: there the message it was called for is the only one.
NoRecursionInRead ==
    inRead /\ wds = "readasync" => mpList = <<>>

\* The callback is never forgotten: while the client lives it is running or
\* registered, unless a registration failed.
StillListening ==
    listed /\ ~deaf /\ power \notin {"releasing", "notifying"} =>
        registered \/ wds # "none"

\* Calling a waiter that registers again does not keep ReleaseClientID going.
ReleaseEnds == power = "releasing" ~> power = "gone"
=============================================================================
