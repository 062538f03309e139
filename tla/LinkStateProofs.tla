--------------------------- MODULE LinkStateProofs ---------------------------
(***************************************************************************)
(* Proofs about DownReason, for any set of reasons and callers: the        *)
(* carrier is never left off without a reason, and is left on with one     *)
(* only by the interleaving that the history variable raced records; and   *)
(* about LinkState, for any number of messages: its calls use the carrier  *)
(* as DownReason says, so that this holds of the driver; the link state    *)
(* follows the last message; the callback is not forgotten and does not    *)
(* recurse in the URB's completion handler.                                *)
(***************************************************************************)
EXTENDS LinkState, TLAPS

-----------------------------------------------------------------------------
(* DownReason.                                                             *)

\* The variables keep their types.
THEOREM DownTypes == DownSpec => []DownTypeOK
<1>1. DownInit => DownTypeOK
      BY DownReasonAssumption DEF DownInit, DownTypeOK, DownReasonAssumption
<1>2. DownTypeOK /\ [DownNext]_downVars => DownTypeOK'
      BY DEF DownTypeOK, DownNext, downVars, GobiSetDownReason, GobiClearDownReason,
             Continue, CarrierOff, TestDownReason, CarrierOn, NetUnbind
<1> QED  BY <1>1, <1>2, PTL DEF DownSpec

\* Who still owes the carrier its state: a caller about to turn it off has its
\* own reason set, and while it is off without a reason someone is about to
\* look or to turn it on.
OwedInv ==
    /\ \A r \in Reasons : step[r] = "off" => r \in mDownReason
    /\ bound /\ mDownReason = {} /\ ~carrier =>
           \E r \in Reasons : step[r] \in {"test", "on"}

\* The carrier is never left off without a reason: for any reasons and any
\* overlap of the calls.
THEOREM NeverStuckDown == DownSpec => []NotStuckDown
<1>1. DownInit => OwedInv
      BY DownReasonAssumption DEF DownInit, OwedInv, DownReasonAssumption
<1>2. ASSUME DownTypeOK, OwedInv, [DownNext]_downVars PROVE OwedInv'
  <2> USE <1>2 DEF DownTypeOK, OwedInv
  <2>1. ASSUME NEW r \in Reasons, GobiSetDownReason(r) PROVE OwedInv'
        BY <2>1 DEF GobiSetDownReason
  <2>2. ASSUME NEW r \in Reasons, GobiClearDownReason(r) PROVE OwedInv'
        BY <2>2 DEF GobiClearDownReason
  <2>3. ASSUME NEW r \in Reasons, CarrierOff(r) PROVE OwedInv'
        BY <2>3 DEF CarrierOff
  <2>4. ASSUME NEW r \in Reasons, TestDownReason(r) PROVE OwedInv'
        BY <2>4 DEF TestDownReason
  <2>5. ASSUME NEW r \in Reasons, CarrierOn(r) PROVE OwedInv'
        BY <2>5 DEF CarrierOn
  <2>6. CASE NetUnbind
        BY <2>6 DEF NetUnbind
  <2>7. CASE UNCHANGED downVars
        BY <2>7 DEF downVars
  <2> QED  BY <2>1, <2>2, <2>3, <2>4, <2>5, <2>6, <2>7 DEF DownNext, Continue
<1>3. OwedInv => NotStuckDown
      BY DEF OwedInv, NotStuckDown, Settled
<1> QED  BY <1>1, <1>2, <1>3, DownTypes, PTL DEF DownSpec

\* As long as no bit was set under a caller that is about to turn the carrier
\* on, that caller's test stays true, and a carrier that is on with a reason
\* set has someone about to turn it off.
OffInv ==
    ~raced =>
        /\ \A r \in Reasons : step[r] = "on" => mDownReason = {}
        /\ carrier /\ mDownReason # {} => \E r \in Reasons : step[r] = "off"

\* The carrier is never left on with a reason set, unless a call has set one
\* between another call's test and its netif_carrier_on.
THEOREM DownIsOff == DownSpec => []DownMeansOff
<1>1. DownInit => OffInv
      BY DEF DownInit, OffInv
<1>2. ASSUME DownTypeOK, OffInv, [DownNext]_downVars PROVE OffInv'
  <2> USE <1>2 DEF DownTypeOK, OffInv
  <2>1. ASSUME NEW r \in Reasons, GobiSetDownReason(r) PROVE OffInv'
        BY <2>1 DEF GobiSetDownReason
  <2>2. ASSUME NEW r \in Reasons, GobiClearDownReason(r) PROVE OffInv'
        BY <2>2 DEF GobiClearDownReason
  <2>3. ASSUME NEW r \in Reasons, CarrierOff(r) PROVE OffInv'
        BY <2>3 DEF CarrierOff
  <2>4. ASSUME NEW r \in Reasons, TestDownReason(r) PROVE OffInv'
        BY <2>4 DEF TestDownReason
  <2>5. ASSUME NEW r \in Reasons, CarrierOn(r) PROVE OffInv'
        BY <2>5 DEF CarrierOn
  <2>6. CASE NetUnbind
        BY <2>6 DEF NetUnbind
  <2>7. CASE UNCHANGED downVars
        BY <2>7 DEF downVars
  <2> QED  BY <2>1, <2>2, <2>3, <2>4, <2>5, <2>6, <2>7 DEF DownNext, Continue
<1>3. OffInv => DownMeansOff
      BY DEF OffInv, DownMeansOff, Settled
<1> QED  BY <1>1, <1>2, <1>3, DownTypes, PTL DEF DownSpec

-----------------------------------------------------------------------------
(* LinkState.                                                              *)

\* Each action makes a step of DownReason or leaves its variables alone.
LEMMA DownStep == ASSUME [Next]_vars PROVE [DownNext]_downVars
<1> USE LinkStateAssumption DEF LinkStateAssumption, DownNext
<1>1. CASE WdsStep
      BY <1>1 DEF WdsStep, SetupQMIWDSCallback, ReadAsync, PopMessage, HandleMessage
<1>2. CASE \E m \in Messages : ReadCallback(m)
      BY <1>2 DEF ReadCallback
<1>3. CASE SpeedChange
      BY <1>3 DEF SpeedChange
<1>4. CASE GobiSuspend \/ GobiResume
      BY <1>4 DEF GobiSuspend, GobiResume
<1>5. CASE GobiUSBNetOpen \/ GobiUSBNetStop
      BY <1>5 DEF GobiUSBNetOpen, GobiUSBNetStop
<1>6. CASE Unbind
      BY <1>6 DEF Unbind
<1>7. CASE KillRead \/ ControlStep
      BY <1>7 DEF ControlStep, KillRead, StartRead, ReleaseClientID, ReleaseContinue
<1>8. CASE \E r \in Reasons : ContinueDown(r)
      BY <1>8 DEF ContinueDown
<1>9. CASE UNCHANGED vars
      BY <1>9 DEF vars
<1> QED  BY <1>1, <1>2, <1>3, <1>4, <1>5, <1>6, <1>7, <1>8, <1>9 DEF Next

\* The driver's calls, as LinkState has them, implement DownReason: a reason
\* is never set or cleared while its caller is in the middle of another call.
THEOREM LinkImplementsDown == Spec => DownSpec
<1>1. Init => DownInit
      BY DEF Init
<1>2. [Next]_vars => [DownNext]_downVars
      BY DownStep
<1> QED  BY <1>1, <1>2, PTL DEF Spec, DownSpec

\* Hence for the driver: whatever the callbacks, power management and network
\* layer do, the carrier is not left off without a reason, nor, but for the
\* race that raced records, on with one.
THEOREM CarrierRight == Spec => [](NotStuckDown /\ DownMeansOff)
BY LinkImplementsDown, NeverStuckDown, DownIsOff, PTL

-----------------------------------------------------------------------------
\* Every action keeps the types of the variables that DownReason does not have.
LinkTypeOK ==
    /\ mpList \in Seq(Messages) /\ received \in 0 .. MaxMessages
    /\ wds \in Messages \cup {"unset", "none", "readasync", "pop", "clear"}
    /\ listed \in BOOLEAN /\ registered \in BOOLEAN /\ inRead \in BOOLEAN
    /\ deaf \in BOOLEAN /\ reading \in BOOLEAN /\ netUp \in BOOLEAN
    /\ lastLink \in {"up", "down"}
    /\ power \in {"on", "suspending", "suspended", "resuming", "frozen",
                  "releasing", "notifying", "killing", "gone"}

\* The callback, the power and disconnect calls and the network layer leave
\* every variable of the link with a value of its type.
THEOREM LinkTypes == Spec => []TypeOK
<1>1. ASSUME Init PROVE LinkTypeOK
  <2>1. 0 \in 0 .. MaxMessages
        BY LinkStateAssumption DEF LinkStateAssumption
  <2>2. mpList \in Seq(Messages)
        BY <1>1 DEF Init
  <2> QED  BY <1>1, <2>1, <2>2 DEF Init, LinkTypeOK
<1>2. ASSUME LinkTypeOK, [Next]_vars PROVE LinkTypeOK'
  <2> USE <1>2 DEF LinkTypeOK, wdsVars
  <2>1. CASE SetupQMIWDSCallback
        BY <2>1 DEF SetupQMIWDSCallback
  <2>2. CASE ReadAsync
    <3>1. wds' \in {"none", "pop"} /\ registered' \in BOOLEAN /\ deaf' \in BOOLEAN
          BY <2>2 DEF ReadAsync
    <3>2. UNCHANGED <<mpList, listed, inRead, lastLink, received, reading,
                      power, netUp>>
          BY <2>2 DEF ReadAsync
    <3> QED  BY <3>1, <3>2
  <2>3. CASE PopMessage
    <3>1. CASE listed /\ mpList # <<>>
          BY <2>3, <3>1 DEF PopMessage
    <3>2. CASE ~(listed /\ mpList # <<>>)
          BY <2>3, <3>2 DEF PopMessage
    <3> QED  BY <3>1, <3>2
  <2>4. CASE HandleMessage
        BY <2>4 DEF HandleMessage
  <2>5. ASSUME NEW m \in Messages, ReadCallback(m) PROVE LinkTypeOK'
    <3>1. mpList' \in Seq(Messages)
          BY <2>5 DEF ReadCallback
    <3>2. lastLink' \in {"up", "down"}
          BY <2>5 DEF ReadCallback, Messages
    <3>3. received' \in 0 .. MaxMessages
          BY <2>5, LinkStateAssumption DEF LinkStateAssumption, ReadCallback
    <3> QED  BY <2>5, <3>1, <3>2, <3>3 DEF ReadCallback
  <2>6. CASE SpeedChange \/ GobiUSBNetOpen \/ GobiUSBNetStop
    <3>1. UNCHANGED <<wdsVars, reading, power>> /\ netUp' \in BOOLEAN
          BY <2>6 DEF SpeedChange, GobiUSBNetOpen, GobiUSBNetStop
    <3> QED  BY <3>1
  <2>7. CASE GobiSuspend \/ GobiResume \/ Unbind \/ KillRead
    <3>1. UNCHANGED <<wdsVars, netUp>> /\ reading' \in BOOLEAN
          BY <2>7 DEF GobiSuspend, GobiResume, Unbind, KillRead
    <3>2. power' \in {"suspending", "frozen", "resuming", "releasing",
                       "gone", "suspended"}
          BY <2>7 DEF GobiSuspend, GobiResume, Unbind, KillRead
    <3> QED  BY <3>1, <3>2
  <2>8. CASE ControlStep
    <3>1. CASE StartRead \/ ReleaseContinue
          BY <3>1 DEF StartRead, ReleaseContinue
    <3>2. CASE ReleaseClientID /\ registered
          BY <3>2 DEF ReleaseClientID
    <3>3. CASE ReleaseClientID /\ ~registered
      <4>1. mpList' \in Seq(Messages)
            BY <3>3 DEF ReleaseClientID
      <4> QED  BY <3>3, <4>1 DEF ReleaseClientID
    <3> QED  BY <2>8, <3>1, <3>2, <3>3 DEF ControlStep
  <2>9. CASE (\E r \in Reasons : ContinueDown(r)) \/ UNCHANGED vars
        BY <2>9 DEF ContinueDown, vars
  <2> QED
        BY <2>1, <2>2, <2>3, <2>4, <2>5, <2>6, <2>7, <2>8, <2>9 DEF Next, WdsStep
<1>3. DownTypeOK /\ LinkTypeOK => TypeOK
      BY DEF TypeOK, LinkTypeOK
<1> QED
      BY <1>1, <1>2, <1>3, LinkImplementsDown, DownTypes, PTL DEF Spec

-----------------------------------------------------------------------------
\* What a message says of the link, and what the callback still has in hand.
Says(m) == IF m = "down" THEN "down" ELSE "up"
InHand ==
    IF wds = "down" THEN "down"
    ELSE IF wds \in {"up", "reset", "clear"} THEN "up"
    ELSE IF NO_NDIS_CONNECTION \in mDownReason THEN "down" ELSE "up"

\* The last state the device sent is the last one in the store or, when the
\* store has none, the one in hand.
LastInv ==
    /\ (\A i \in 1 .. Len(mpList) : mpList[i] = "other") => lastLink = InHand
    /\ \A i \in 1 .. Len(mpList) :
           /\ mpList[i] # "other"
           /\ \A j \in 1 .. Len(mpList) : j > i => mpList[j] = "other"
           => lastLink = Says(mpList[i])

\* A registered callback has left no message behind, and one that runs in the
\* completion handler has been called for the only one.
LinkInv ==
    /\ mpList \in Seq(Messages)
    /\ registered => mpList = <<>> /\ wds = "none"
    /\ wds = "unset" => ~inRead
    /\ inRead /\ wds = "pop" => Len(mpList) <= 1
    /\ inRead /\ wds \notin {"none", "pop"} => mpList = <<>>
    /\ listed => LastInv

\* LinkInv depends on the WDS variables and on one bit.
LEMMA LinkStutter ==
    ASSUME LinkInv, UNCHANGED wdsVars,
           (NO_NDIS_CONNECTION \in mDownReason)' <=> NO_NDIS_CONNECTION \in mDownReason
    PROVE  LinkInv'
<1>1. UNCHANGED InHand
      BY DEF InHand, wdsVars
<1> QED  BY <1>1 DEF LinkInv, LastInv, wdsVars

\* Every step keeps LinkInv.
LEMMA LinkStep == ASSUME LinkInv, [Next]_vars PROVE LinkInv'
<1> DEFINE bit == NO_NDIS_CONNECTION \in mDownReason
<1>1. CASE SetupQMIWDSCallback
      BY <1>1 DEF SetupQMIWDSCallback, LinkInv, LastInv, InHand, downVars
<1>2. CASE ReadAsync
      BY <1>2 DEF ReadAsync, LinkInv, LastInv, InHand, downVars
<1>3. CASE PopMessage
  <2>1. CASE listed /\ mpList # <<>>
    <3>1. /\ mpList' = Tail(mpList) /\ wds' = Head(mpList) /\ wds = "pop"
          /\ UNCHANGED <<mDownReason, listed, registered, inRead, lastLink>>
          BY <1>3, <2>1 DEF PopMessage, downVars
    <3>2. /\ Head(mpList) = mpList[1] /\ Head(mpList) \in Messages
          /\ Len(mpList') = Len(mpList) - 1 /\ Len(mpList) \in Nat \ {0}
          /\ \A i \in 1 .. Len(mpList') : mpList'[i] = mpList[i + 1]
          /\ mpList' \in Seq(Messages)
          BY <2>1, <3>1 DEF LinkInv
    <3>3. LastInv
          BY <2>1 DEF LinkInv
    <3>4. (\A i \in 1 .. Len(mpList') : mpList'[i] = "other") => lastLink' = InHand'
      <4> SUFFICES ASSUME \A i \in 1 .. Len(mpList') : mpList'[i] = "other"
                   PROVE  lastLink' = InHand'
          OBVIOUS
      <4>1. \A j \in 1 .. Len(mpList) : j > 1 => mpList[j] = "other"
        <5> SUFFICES ASSUME NEW j \in 1 .. Len(mpList), j > 1
                     PROVE  mpList[j] = "other"
            OBVIOUS
        <5>1. j - 1 \in 1 .. Len(mpList') /\ mpList'[j - 1] = mpList[j - 1 + 1]
              BY <3>2
        <5> QED  BY <5>1
      <4>2. CASE Head(mpList) = "other"
        <5>1. \A i \in 1 .. Len(mpList) : mpList[i] = "other"
              BY <3>2, <4>1, <4>2
        <5> QED  BY <3>1, <3>3, <4>2, <5>1 DEF LastInv, InHand
      <4>3. CASE Head(mpList) # "other"
        <5>1. lastLink = Says(mpList[1])
              BY <3>2, <3>3, <4>1, <4>3 DEF LastInv
        <5> QED  BY <3>1, <3>2, <4>3, <5>1 DEF InHand, Says, Messages
      <4> QED  BY <4>2, <4>3
    <3>5. ASSUME NEW i \in 1 .. Len(mpList'), mpList'[i] # "other",
                 \A j \in 1 .. Len(mpList') : j > i => mpList'[j] = "other"
          PROVE  lastLink' = Says(mpList'[i])
      <4>1. i + 1 \in 1 .. Len(mpList) /\ mpList[i + 1] = mpList'[i]
            BY <3>2
      <4>2. ASSUME NEW j \in 1 .. Len(mpList), j > i + 1
            PROVE  mpList[j] = "other"
        <5>1. /\ j - 1 \in 1 .. Len(mpList') /\ j - 1 > i
              /\ mpList'[j - 1] = mpList[j - 1 + 1]
              BY <3>2, <4>2
        <5> QED  BY <3>5, <5>1
      <4> QED  BY <3>1, <3>3, <3>5, <4>1, <4>2 DEF LastInv
    <3>6. LastInv'
          BY <3>4, <3>5 DEF LastInv
    <3>7. inRead => mpList' = <<>>
          BY <2>1, <3>1, <3>2 DEF LinkInv
    <3> QED  BY <3>1, <3>2, <3>6, <3>7 DEF LinkInv, Messages
  <2>2. CASE ~(listed /\ mpList # <<>>)
        BY <1>3, <2>2 DEF PopMessage, LinkInv, LastInv, InHand, downVars
  <2> QED  BY <2>1, <2>2
<1>4. CASE HandleMessage
  <2>1. InHand' = InHand
        BY <1>4 DEF HandleMessage, InHand, GobiClearDownReason, GobiSetDownReason, downVars
  <2> QED  BY <1>4, <2>1 DEF HandleMessage, LinkInv, LastInv
<1>5. ASSUME NEW m \in Messages, ReadCallback(m) PROVE LinkInv'
  <2>1. /\ mpList' = Append(mpList, m) /\ mpList' \in Seq(Messages)
        /\ Len(mpList') = Len(mpList) + 1 /\ Len(mpList) \in Nat
        /\ mpList'[Len(mpList) + 1] = m
        /\ \A i \in 1 .. Len(mpList) : mpList'[i] = mpList[i]
        BY <1>5 DEF ReadCallback, LinkInv
  <2>2. LastInv /\ listed
        BY <1>5 DEF ReadCallback, LinkInv
  <2>3. InHand' = InHand
        BY <1>5 DEF ReadCallback, LinkInv, InHand, downVars
  <2>4. ASSUME m = "other" PROVE LastInv'
    <3>1. lastLink' = lastLink
          BY <1>5, <2>4 DEF ReadCallback
    <3>2. (\A i \in 1 .. Len(mpList') : mpList'[i] = "other") => lastLink' = InHand'
          BY <2>1, <2>2, <2>3, <3>1 DEF LastInv
    <3>3. ASSUME NEW i \in 1 .. Len(mpList'), mpList'[i] # "other",
                 \A j \in 1 .. Len(mpList') : j > i => mpList'[j] = "other"
          PROVE  lastLink' = Says(mpList'[i])
      <4>1. i \in 1 .. Len(mpList) /\ mpList'[i] = mpList[i]
            BY <2>1, <2>4, <3>3
      <4>2. \A j \in 1 .. Len(mpList) : j > i => mpList[j] = "other"
            BY <2>1, <3>3
      <4> QED  BY <2>2, <3>1, <3>3, <4>1, <4>2 DEF LastInv
    <3> QED  BY <3>2, <3>3 DEF LastInv
  <2>5. ASSUME m # "other" PROVE LastInv'
    <3>1. lastLink' = Says(m)
          BY <1>5, <2>5 DEF ReadCallback, Messages, Says
    <3>2. ~(\A i \in 1 .. Len(mpList') : mpList'[i] = "other")
          BY <2>1, <2>5
    <3>3. ASSUME NEW i \in 1 .. Len(mpList'), mpList'[i] # "other",
                 \A j \in 1 .. Len(mpList') : j > i => mpList'[j] = "other"
          PROVE  lastLink' = Says(mpList'[i])
      <4>1. i = Len(mpList) + 1
            BY <2>1, <2>5, <3>3
      <4> QED  BY <2>1, <3>1, <4>1
    <3> QED  BY <3>2, <3>3 DEF LastInv
  <2>6. LastInv'
        BY <2>4, <2>5
  <2> QED  BY <1>5, <2>1, <2>6 DEF ReadCallback, LinkInv, UrbCallbacksIdle
<1>6. CASE ReleaseClientID
  <2>1. CASE registered
        BY <1>6, <2>1 DEF ReleaseClientID, LinkInv, LastInv, InHand, downVars
  <2>2. CASE ~registered
    <3>1. mpList' \in Seq(Messages) /\ Len(mpList') = 0
          BY <1>6, <2>2 DEF ReleaseClientID
    <3> QED  BY <1>6, <2>2, <3>1 DEF ReleaseClientID, LinkInv
  <2> QED  BY <2>1, <2>2
<1>7. CASE SpeedChange \/ GobiSuspend \/ GobiResume \/ GobiUSBNetOpen \/ GobiUSBNetStop
  <2>1. UNCHANGED wdsVars
        BY <1>7 DEF SpeedChange, GobiSuspend, GobiResume, GobiUSBNetOpen, GobiUSBNetStop
  <2>2. bit' <=> bit
        BY <1>7, LinkStateAssumption
        DEF SpeedChange, GobiSuspend, GobiResume, GobiUSBNetOpen, GobiUSBNetStop,
            GobiSetDownReason, GobiClearDownReason, downVars, LinkStateAssumption
  <2> QED  BY <2>1, <2>2, LinkStutter
<1>8. CASE Unbind \/ KillRead \/ StartRead \/ ReleaseContinue \/ UNCHANGED vars
  <2>1. UNCHANGED wdsVars /\ UNCHANGED mDownReason
        BY <1>8 DEF Unbind, NetUnbind, KillRead, StartRead, ReleaseContinue, vars, downVars
  <2> QED  BY <2>1, LinkStutter
<1>9. CASE \E r \in Reasons : ContinueDown(r)
  <2>1. UNCHANGED wdsVars /\ UNCHANGED mDownReason
        BY <1>9 DEF ContinueDown, Continue, CarrierOff, TestDownReason, CarrierOn
  <2> QED  BY <2>1, LinkStutter
<1> QED  BY <1>1, <1>2, <1>3, <1>4, <1>5, <1>6, <1>7, <1>8, <1>9
         DEF Next, WdsStep, ControlStep

\* For any number of messages: when the callback waits for the next message
\* NO_NDIS_CONNECTION says what the device last said, and in the completion
\* handler the callback never calls itself.
THEOREM LinkFollows == Spec => [](LinkFollowsLast /\ NoRecursionInRead)
<1>1. Init => LinkInv
      BY LinkStateAssumption
      DEF Init, DownInit, LinkInv, LastInv, InHand, LinkStateAssumption
<1>2. LinkInv /\ [Next]_vars => LinkInv'
      BY LinkStep
<1>3. LinkInv => LinkFollowsLast /\ NoRecursionInRead
      BY DEF LinkInv, LastInv, InHand, LinkFollowsLast, NoRecursionInRead
<1> QED  BY <1>1, <1>2, <1>3, PTL DEF Spec
-----------------------------------------------------------------------------
\* A callback that looks for a message finds one, unless ReleaseClientID has
\* called it, which goes on until the client is off the list.
ListenInv ==
    /\ StillListening
    /\ listed /\ wds = "pop" /\ mpList = <<>> => power \in {"releasing", "notifying"}

\* Every step keeps ListenInv.
LEMMA ListenStep == ASSUME TypeOK, ListenInv, [Next]_vars PROVE ListenInv'
<1> USE DEF ListenInv, StillListening
<1>1. mpList \in Seq(Messages)
      BY DEF TypeOK
<1>2. CASE SetupQMIWDSCallback
      BY <1>2 DEF SetupQMIWDSCallback
<1>3. CASE ReadAsync
      BY <1>3 DEF ReadAsync
<1>4. CASE PopMessage
  <2>1. mpList # <<>> => Head(mpList) \in Messages
        BY <1>1
  <2> QED  BY <1>4, <2>1 DEF PopMessage, Messages
<1>5. CASE HandleMessage
      BY <1>5 DEF HandleMessage
<1>6. ASSUME NEW m \in Messages, ReadCallback(m) PROVE ListenInv'
  <2>1. mpList' # <<>>
        BY <1>6 DEF ReadCallback
  <2> QED  BY <1>6, <2>1 DEF ReadCallback
<1>7. CASE ReleaseClientID \/ ReleaseContinue
      BY <1>7 DEF ReleaseClientID, ReleaseContinue
<1>8. CASE SpeedChange \/ GobiSuspend \/ GobiResume \/ GobiUSBNetOpen
           \/ GobiUSBNetStop \/ Unbind \/ KillRead \/ StartRead
           \/ (\E r \in Reasons : ContinueDown(r)) \/ UNCHANGED vars
  <2>1. UNCHANGED wdsVars /\ (power' = power \/ power \notin {"releasing", "notifying"})
        BY <1>8 DEF SpeedChange, GobiSuspend, GobiResume, GobiUSBNetOpen,
                    GobiUSBNetStop, Unbind, KillRead, StartRead, ContinueDown, vars
  <2> QED  BY <2>1 DEF wdsVars
<1> QED  BY <1>2, <1>3, <1>4, <1>5, <1>6, <1>7, <1>8 DEF Next, WdsStep, ControlStep

\* For any number of messages, and whatever power management does: while its
\* client lives QMIWDSCallback is running or registered, unless registering it
\* failed for want of memory.
THEOREM CallbackStillListens == Spec => []StillListening
<1>1. Init => ListenInv
      BY DEF Init, ListenInv, StillListening
<1>2. TypeOK /\ ListenInv /\ [Next]_vars => ListenInv'
      BY ListenStep
<1>3. ListenInv => StillListening
      BY DEF ListenInv
<1> QED  BY <1>1, <1>2, <1>3, LinkTypes, PTL DEF Spec
=============================================================================
