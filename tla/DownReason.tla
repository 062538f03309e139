----------------------------- MODULE DownReason -----------------------------
(***************************************************************************)
(* The bits of mDownReason and the carrier of the net device: the carrier  *)
(* is to be on when no reason is left for the device to be down.           *)
(* GobiSetDownReason and GobiClearDownReason are called from callbacks,    *)
(* power management and the network layer without a common lock.  Each     *)
(* reason has one caller at a time (QMIWDSCallback, IntCallback, the calls *)
(* under the device lock, open and stop under the network lock), so that a *)
(* reason stands for its caller too.                                       *)
(***************************************************************************)
CONSTANTS Reasons,
          ProbeReasons   \* set by the probe: NO_NDIS_CONNECTION, NET_IFACE_STOPPED

ASSUME DownReasonAssumption ==
    ProbeReasons \subseteq Reasons /\ ProbeReasons # {}

VARIABLES mDownReason, \* the bits set
          carrier,     \* netif_carrier_ok
          step,        \* per reason: where its caller is
          bound,       \* GobiNetDriverUnbind has not run
          raced        \* history: a bit was set between a test that found
                       \* none and the netif_carrier_on that follows it

downVars == <<mDownReason, carrier, step, bound, raced>>

DownTypeOK ==
    /\ mDownReason \subseteq Reasons
    /\ step \in [Reasons -> {"none", "off", "test", "on"}]
    /\ carrier \in BOOLEAN /\ bound \in BOOLEAN /\ raced \in BOOLEAN

DownInit ==
    /\ mDownReason = ProbeReasons
    /\ carrier = FALSE
    /\ step = [r \in Reasons |-> "none"]
    /\ bound = TRUE /\ raced = FALSE

\* Variant: the bit is set and the carrier left alone.
SetBitOnly(r) ==
    /\ step[r] = "none"
    /\ mDownReason' = mDownReason \cup {r}
    /\ UNCHANGED <<carrier, step, bound, raced>>

\* GobiSetDownReason: set_bit ...
GobiSetDownReason(r) ==
    /\ step[r] = "none"
    /\ mDownReason' = mDownReason \cup {r}
    /\ step' = [step EXCEPT ![r] = "off"]
    /\ raced' = (raced \/ \E s \in Reasons : step[s] = "on")
    /\ UNCHANGED <<carrier, bound>>

\* ... then netif_carrier_off.
CarrierOff(r) ==
    /\ step[r] = "off"
    /\ carrier' = FALSE
    /\ step' = [step EXCEPT ![r] = "none"]
    /\ UNCHANGED <<mDownReason, bound, raced>>

\* Variant: looks for other reasons before it clears its own.
ClearTestFirst(r) ==
    /\ step[r] = "none"
    /\ mDownReason' = mDownReason \ {r}
    /\ step' = [step EXCEPT ![r] = IF mDownReason = {} THEN "on" ELSE "none"]
    /\ UNCHANGED <<carrier, bound, raced>>

\* GobiClearDownReason: clear_bit ...
GobiClearDownReason(r) ==
    /\ step[r] = "none"
    /\ mDownReason' = mDownReason \ {r}
    /\ step' = [step EXCEPT ![r] = "test"]
    /\ UNCHANGED <<carrier, bound, raced>>

\* ... then, if no bit is left, ...
TestDownReason(r) ==
    /\ step[r] = "test"
    /\ step' = [step EXCEPT ![r] = IF mDownReason = {} THEN "on" ELSE "none"]
    /\ UNCHANGED <<mDownReason, carrier, bound, raced>>

\* ... netif_carrier_on.
CarrierOn(r) ==
    /\ step[r] = "on"
    /\ carrier' = TRUE
    /\ step' = [step EXCEPT ![r] = "none"]
    /\ UNCHANGED <<mDownReason, bound, raced>>

\* GobiNetDriverUnbind turns the carrier off for good.
NetUnbind ==
    /\ bound
    /\ bound' = FALSE /\ carrier' = FALSE
    /\ UNCHANGED <<mDownReason, step, raced>>

\* A call that has begun goes on.
Continue(r) == CarrierOff(r) \/ TestDownReason(r) \/ CarrierOn(r)

DownNext ==
    \/ \E r \in Reasons :
           GobiSetDownReason(r) \/ GobiClearDownReason(r) \/ Continue(r)
    \/ NetUnbind

DownSpec == DownInit /\ [][DownNext]_downVars

-----------------------------------------------------------------------------
Settled == \A r \in Reasons : step[r] = "none"

\* When no call is under way and no reason is left, the carrier is on: however
\* the calls overlap, the last reason to go is noticed by someone.
NotStuckDown == bound /\ Settled /\ mDownReason = {} => carrier

\* When no call is under way and a reason is left the carrier is off, except
\* after the one interleaving that the calls do not exclude (raced).
DownMeansOff == Settled /\ mDownReason # {} /\ ~raced => ~carrier
=============================================================================
