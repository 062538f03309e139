------------------------------ MODULE ReadChain ------------------------------
(***************************************************************************)
(* The continuous read "thread" of the driver: not a thread but two URBs   *)
(* whose callbacks submit each other.  The interrupt URB waits for the     *)
(* device; IntCallback submits the read URB when a response is available   *)
(* and itself again otherwise; ReadCallback stores what it read (module    *)
(* ReadStore) and submits the interrupt URB.  StartRead sets the chain     *)
(* going for RegisterQMIDevice and GobiResume; KillRead stops it for       *)
(* GobiSuspend and DeregisterQMIDevice, killing the read URB first.        *)
(*                                                                         *)
(* The USB core, as the driver uses it: an URB that is in flight, its      *)
(* callback included, cannot be submitted again; usb_kill_urb ends the     *)
(* transfer and waits for its callback; usb_free_urb drops a reference,    *)
(* and an URB in flight then stays there, its buffer freed.                *)
(* The power and disconnect calls of one device exclude each other.        *)
(***************************************************************************)
EXTENDS Naturals

CONSTANT MaxSuspends   \* bound on the suspends of a behaviour

ASSUME ReadChainAssumption == MaxSuspends \in Nat

VARIABLES
    mbQMIValid, \* the device may be used
    mpReadURB, mpIntURB,
                \* NULL, idle or flying: as the host controller has them
    strayRead, strayInt,
                \* freed read and interrupt URBs the host controller still has
    ctl,        \* where the probe, power and disconnect calls are
    leaving,    \* KillRead runs for DeregisterQMIDevice
    reading,    \* result of the last StartRead: the chain was started
    died,       \* the chain has ended by itself: an interrupt failed or an
                \* interrupt URB could not be submitted
    oops,       \* a NULL URB was filled
    late,       \* history: a response was announced while KillRead ran,
                \* between its two usb_kill_urb
    suspends

urbs == <<mpReadURB, mpIntURB, strayRead, strayInt>>
chainVars == <<mbQMIValid, urbs, ctl, leaving, reading, died, oops, late, suspends>>

Urb == {"NULL", "idle", "flying"}

ChainTypeOK ==
    /\ mbQMIValid \in BOOLEAN /\ leaving \in BOOLEAN /\ reading \in BOOLEAN
    /\ died \in BOOLEAN /\ oops \in BOOLEAN /\ late \in BOOLEAN
    /\ mpReadURB \in Urb /\ mpIntURB \in Urb
    /\ strayRead \in Nat /\ strayInt \in Nat /\ suspends \in 0 .. MaxSuspends
    /\ ctl \in {"start", "submit", "up", "kill_read", "kill_int", "free",
                "down", "gone"}

\* RegisterQMIDevice has marked the device valid and calls StartRead.
ChainInit ==
    /\ mbQMIValid = TRUE /\ ctl = "start" /\ leaving = FALSE
    /\ mpReadURB = "NULL" /\ mpIntURB = "NULL"
    /\ strayRead = 0 /\ strayInt = 0
    /\ reading = FALSE /\ died = FALSE /\ oops = FALSE /\ late = FALSE
    /\ suspends = 0

-----------------------------------------------------------------------------
(* The two callbacks.                                                      *)

\* ResubmitIntURB for the device's interrupt URB, when it is in state i.  It
\* may fail, and does when there is no URB or it is in flight already.
ResubmitIntURB(i) ==
    \/ i = "idle" /\ mpIntURB' = "flying" /\ UNCHANGED died
    \/ mpIntURB' = i /\ died' = (died \/ i # "flying")

\* Variant: a read that failed is not followed by a new interrupt URB.
ReadCallbackStops(own) ==
    /\ \/ own /\ mpReadURB = "flying" /\ mpReadURB' = "idle" /\ UNCHANGED strayRead
       \/ ~own /\ strayRead > 0 /\ strayRead' = strayRead - 1 /\ UNCHANGED mpReadURB
    /\ \/ UNCHANGED <<mpIntURB, died>>
       \/ mbQMIValid /\ ResubmitIntURB(mpIntURB)
    /\ UNCHANGED strayInt

\* A read is over, well or badly, stored or discarded: on every path of a
\* valid device ReadCallback resubmits the interrupt URB.
ReadCallback(own) ==
    /\ \/ own /\ mpReadURB = "flying" /\ mpReadURB' = "idle" /\ UNCHANGED strayRead
       \/ ~own /\ strayRead > 0 /\ strayRead' = strayRead - 1 /\ UNCHANGED mpReadURB
    /\ IF mbQMIValid THEN ResubmitIntURB(mpIntURB) ELSE UNCHANGED <<mpIntURB, died>>
    /\ UNCHANGED strayInt

\* IntCallback resubmits the URB it was called for.
ResubmitOwn(own) ==
    IF own THEN ResubmitIntURB("idle") /\ UNCHANGED strayInt
    ELSE strayInt' \in {strayInt, strayInt - 1} /\ UNCHANGED <<mpIntURB, died>>

\* IntCallback does not resubmit its URB.
IntURBOver(own) ==
    IF own THEN mpIntURB' = "idle" /\ UNCHANGED strayInt
    ELSE strayInt' = strayInt - 1 /\ UNCHANGED mpIntURB

\* An interrupt announces a response: submit the read URB, or wait for the
\* next interrupt when that fails.
ResponseAvailable(own) ==
    \/ /\ mpReadURB = "NULL"
       /\ oops' = TRUE
       /\ UNCHANGED <<urbs, died>>
    \/ /\ mpReadURB = "idle"
       /\ mpReadURB' = "flying"
       /\ IntURBOver(own)
       /\ UNCHANGED <<strayRead, died, oops>>
    \/ /\ mpReadURB # "NULL"
       /\ ResubmitOwn(own)
       /\ UNCHANGED <<mpReadURB, strayRead, oops>>

\* Variant: the interrupt URB is resubmitted along with the read URB.
IntCallbackBoth(own) ==
    /\ IF own THEN mpIntURB = "flying" ELSE strayInt > 0
    /\ mpReadURB = "idle" /\ mpReadURB' = "flying"
    /\ UNCHANGED <<mpIntURB, strayInt, strayRead, died, oops, late>>

\* Variant: a failed submission of the read URB is not handled.
IntCallbackDrops(own) ==
    /\ IF own THEN mpIntURB = "flying" ELSE strayInt > 0
    /\ IntURBOver(own)
    /\ mpReadURB' \in {mpReadURB, "flying"}
    /\ UNCHANGED <<strayRead, died, oops, late>>

\* The interrupt URB is over.  A failed interrupt ends the chain; overflows,
\* speed changes and anything unknown are only followed by a new wait.
IntCallback(own) ==
    /\ IF own THEN mpIntURB = "flying" ELSE strayInt > 0
    /\ \/ ~mbQMIValid /\ IntURBOver(own)
          /\ UNCHANGED <<mpReadURB, strayRead, died, oops, late>>
       \/ mbQMIValid /\ IntURBOver(own) /\ died' = (died \/ own)
          /\ UNCHANGED <<mpReadURB, strayRead, oops, late>>
       \/ mbQMIValid /\ ResubmitOwn(own) /\ UNCHANGED <<mpReadURB, strayRead, oops, late>>
       \/ mbQMIValid /\ ResponseAvailable(own) /\ late' = (late \/ ctl = "kill_int")

-----------------------------------------------------------------------------
(* Starting and stopping the chain.                                        *)

\* StartRead allocates both URBs and their buffers, or gives back what it got.
StartRead ==
    /\ ctl = "start"
    /\ \/ /\ mbQMIValid
          /\ mpReadURB' = "idle" /\ mpIntURB' = "idle"
          /\ ctl' = "submit"
          /\ UNCHANGED mbQMIValid
       \/ /\ ctl' = "up"
          /\ mbQMIValid' = (mbQMIValid /\ suspends > 0)
          /\ UNCHANGED <<mpReadURB, mpIntURB>>
    /\ died' = FALSE
    /\ UNCHANGED <<strayRead, strayInt, leaving, reading, oops, late, suspends>>

\* StartRead ends by submitting the interrupt URB.  A probe (the first start)
\* that fails here marks the device invalid again; a resume reports the error.
StartReadSubmit ==
    /\ ctl = "submit"
    /\ \/ mpIntURB = "idle" /\ mpIntURB' = "flying" /\ reading' = TRUE /\ UNCHANGED mbQMIValid
       \/ UNCHANGED <<mpIntURB, reading>> /\ mbQMIValid' = (mbQMIValid /\ suspends > 0)
    /\ ctl' = "up"
    /\ UNCHANGED <<mpReadURB, strayRead, strayInt, leaving, died, oops, late, suspends>>

\* GobiSuspend with a suspend event: "Stop QMI read callbacks".
GobiSuspend ==
    /\ ctl = "up" /\ mbQMIValid /\ suspends < MaxSuspends
    /\ suspends' = suspends + 1
    /\ ctl' = "kill_read" /\ leaving' = FALSE /\ reading' = FALSE
    /\ UNCHANGED <<mbQMIValid, urbs, died, oops, late>>

\* GobiResume: restart the callbacks, unless usbnet cannot be resumed.
GobiResume ==
    /\ ctl = "down"
    /\ ctl' \in {"start", "up"}
    /\ UNCHANGED <<mbQMIValid, urbs, leaving, reading, died, oops, late, suspends>>

\* DeregisterQMIDevice, from the disconnect or the failed probe: nothing for
\* an invalid device, else KillRead once the clients are released.
DeregisterQMIDevice ==
    /\ ctl \in {"up", "down"}
    /\ ctl' = IF mbQMIValid THEN "kill_read" ELSE "gone"
    /\ leaving' = TRUE /\ reading' = FALSE
    /\ UNCHANGED <<mbQMIValid, urbs, died, oops, late, suspends>>

\* KillRead: the read URB, whose callback resubmits the interrupt URB, ...
KillReadURB ==
    /\ ctl = "kill_read" /\ ctl' = "kill_int"
    /\ IF mpReadURB = "flying" THEN ReadCallback(TRUE) ELSE UNCHANGED <<urbs, died>>
    /\ UNCHANGED <<mbQMIValid, leaving, reading, oops, late, suspends>>

\* ... then the interrupt URB, whose callback ends the chain, ...
KillIntURB ==
    /\ ctl = "kill_int" /\ ctl' = "free"
    /\ mpIntURB' = IF mpIntURB = "flying" THEN "idle" ELSE mpIntURB
    /\ died' = (died \/ mpIntURB = "flying")
    /\ UNCHANGED <<mbQMIValid, mpReadURB, strayRead, strayInt, leaving, reading,
                   oops, late, suspends>>

\* ... then both are freed, whatever the host controller has of them.
FreeURBs ==
    /\ ctl = "free"
    /\ mpReadURB' = "NULL" /\ mpIntURB' = "NULL"
    /\ strayRead' = IF mpReadURB = "flying" THEN strayRead + 1 ELSE strayRead
    /\ strayInt' = IF mpIntURB = "flying" THEN strayInt + 1 ELSE strayInt
    /\ ctl' = IF leaving THEN "gone" ELSE "down"
    /\ mbQMIValid' = (mbQMIValid /\ ~leaving)
    /\ UNCHANGED <<leaving, reading, died, oops, late, suspends>>

-----------------------------------------------------------------------------
Callbacks ==
    /\ \E own \in BOOLEAN :
          \/ ReadCallback(own) /\ UNCHANGED <<oops, late>>
          \/ IntCallback(own)
    /\ UNCHANGED <<mbQMIValid, ctl, leaving, reading, suspends>>

Control ==
    \/ StartRead \/ StartReadSubmit \/ GobiSuspend \/ GobiResume
    \/ DeregisterQMIDevice \/ KillReadURB \/ KillIntURB \/ FreeURBs

ChainNext == ~oops /\ (Callbacks \/ Control)

ChainSpec == ChainInit /\ [][ChainNext]_chainVars

\* The host controller ends every control transfer.  Nothing else is assumed:
\* interrupts, power events and the calls they start need never happen.
ReadDone == ReadCallback(TRUE) /\ UNCHANGED <<mbQMIValid, ctl, leaving, reading, oops, late, suspends>>

ChainFairSpec == ChainSpec /\ WF_chainVars(ReadDone)

-----------------------------------------------------------------------------
(* Properties.                                                             *)

\* A chain that was started and has not died waits for the device or for a
\* response: no path through the callbacks forgets to submit an URB.
StillReading ==
    ctl = "up" /\ reading /\ ~died => "flying" \in {mpReadURB, mpIntURB}

\* The two URBs hand one token back and forth: they are never both with the
\* host controller, which would fill an URB that is in flight, and none
\* outlives KillRead.  The only way out of this is an interrupt that comes
\* between the two kills.
OneToken ==
    ~late => /\ ~(mpReadURB = "flying" /\ mpIntURB = "flying")
             /\ strayRead = 0 /\ strayInt = 0

\* IntCallback never fills a NULL URB, with the same exception: an URB that
\* such an interrupt left behind may complete between two runs of the chain.
NoOops == oops => late

\* Read errors do not end the reading: from every read the chain comes back to
\* waiting for interrupts, unless it is stopped or the submission fails.
ReadGoesOn ==
    ctl = "up" /\ mpReadURB = "flying"
        ~> mpIntURB = "flying" \/ died \/ ctl # "up" \/ oops
=============================================================================
