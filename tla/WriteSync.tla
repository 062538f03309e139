------------------------------ MODULE WriteSync ------------------------------
(***************************************************************************)
(* The write side of the QMI clients' memory: WriteSync puts its URB on    *)
(* the client's mpURBList, submits it, sleeps until WriteSyncCallback      *)
(* up()s the semaphore on its stack, and takes an URB back off the list to *)
(* destroy it.  ReleaseClientID kills and frees every URB it finds there.  *)
(* The list is first in, first out whatever the order of completions.      *)
(*                                                                         *)
(* Memory is abstracted to what the list can get wrong: an entry is the    *)
(* writer whose URB it points to, or Freed when that URB has been freed    *)
(* since.  An invalid device has released all its clients, so the check of *)
(* mbQMIValid after the wait behaves like a client that is gone.           *)
(***************************************************************************)
EXTENDS SequencesExt

CONSTANTS Clients, Writers,
          ClientOf,       \* the client each thread writes for
          Interruptible,  \* threads a signal can reach: the module parameter
                          \* `interruptible' is set and they are processes
          Freed           \* a list entry whose URB has been freed

ASSUME WriteSyncAssumption ==
    /\ IsFiniteSet(Writers)
    /\ ClientOf \in [Writers -> Clients]
    /\ Interruptible \subseteq Writers
    /\ Freed \notin Writers

VARIABLES listed,     \* clients whose memory is on mpClientMemList
          mpURBList,  \* per client: writers, in the order they added URBs
          pc,         \* where each thread is in WriteSync
          urb,        \* its URB, as far as this driver is concerned
          flying,     \* threads whose current URB the host controller has
          writeSem,   \* threads whose semaphore is up
          stray,      \* threads that returned from a WriteSync whose URB the
                      \* host controller still has
          early,      \* history: threads whose semaphore the callback of a
                      \* stray URB has raised since they entered WriteSync
          left        \* history: how the WriteSyncs of a thread had ended that
                      \* left their URB to the host controller

vars == <<listed, mpURBList, pc, urb, flying, writeSem, stray, early, left>>

Endings == {"signal", "early", "completion"}

TypeOK ==
    /\ listed \subseteq Clients
    /\ mpURBList \in [Clients -> Seq(Writers \cup {Freed})]
    /\ pc \in [Writers -> {"idle", "submit", "failed", "down", "interrupted"}]
    /\ urb \in [Writers -> {"none", "owned", "freed"}]
    /\ flying \subseteq Writers
    /\ writeSem \subseteq Writers
    /\ stray \subseteq Writers
    /\ early \subseteq Writers
    /\ left \in [Writers -> SUBSET Endings]

Init ==
    /\ listed = Clients
    /\ mpURBList = [c \in Clients |-> <<>>]
    /\ pc = [w \in Writers |-> "idle"]
    /\ urb = [w \in Writers |-> "none"]
    /\ flying = {} /\ writeSem = {} /\ stray = {} /\ early = {}
    /\ left = [w \in Writers |-> {}]

-----------------------------------------------------------------------------
\* Entries that still point to w's URB once it has been freed.
Dangle(list, w) == [i \in DOMAIN list |-> IF list[i] = w THEN Freed ELSE list[i]]

\* The list after PopFromURBList (empty when the client is gone).
PopFromURBList(c) ==
    IF c \in listed /\ mpURBList[c] # <<>> THEN Tail(mpURBList[c]) ELSE <<>>

\* PopFromURBList returns the URB of thread w.
GotOwn(w) ==
    LET c == ClientOf[w]
    IN  c \in listed /\ mpURBList[c] # <<>> /\ Head(mpURBList[c]) = w

\* usb_free_urb and return; `rest' is what is left of the client's list.  An
\* URB the host controller has stays with it, and will up() a dead semaphore.
FreeAndReturn(w, rest) ==
    /\ pc' = [pc EXCEPT ![w] = "idle"]
    /\ urb' = [urb EXCEPT ![w] = "none"]
    /\ mpURBList' = [mpURBList EXCEPT ![ClientOf[w]] = Dangle(rest, w)]
    /\ flying' = flying \ {w}
    /\ writeSem' = writeSem \ {w}
    /\ early' = early \ {w}

AddToURBList(c, w) == [mpURBList EXCEPT ![c] = Append(@, w)]

\* The URB is allocated and filled, the device awake, and the list entry made
\* under the lock.  (Every failure before that frees the URB and returns.)
WriteSync(w) ==
    /\ pc[w] = "idle" /\ ClientOf[w] \in listed
    /\ mpURBList' = AddToURBList(ClientOf[w], w)
    /\ pc' = [pc EXCEPT ![w] = "submit"]
    /\ urb' = [urb EXCEPT ![w] = "owned"]
    /\ UNCHANGED <<listed, flying, writeSem, stray, early, left>>

\* usb_submit_urb, with the lock released.
Submit(w) ==
    /\ pc[w] = "submit"
    /\ \/ pc' = [pc EXCEPT ![w] = "down"] /\ flying' = flying \cup {w}
       \/ pc' = [pc EXCEPT ![w] = "failed"] /\ UNCHANGED flying
    /\ UNCHANGED <<listed, mpURBList, urb, writeSem, stray, early, left>>

\* The submission failed: take an URB off the list, free the own one.
SubmitFailed(w) ==
    /\ pc[w] = "failed"
    /\ FreeAndReturn(w, PopFromURBList(ClientOf[w]))
    /\ UNCHANGED <<listed, stray, left>>

\* The host controller is done with w's URB: WriteSyncCallback.
WriteSyncCallback(w) ==
    /\ w \in flying
    /\ flying' = flying \ {w}
    /\ writeSem' = writeSem \cup {w}
    /\ UNCHANGED <<listed, mpURBList, pc, urb, stray, early, left>>

\* The same for an URB whose WriteSync has returned: the up() goes to a dead
\* stack frame, where a later WriteSync of the thread may have its semaphore.
StrayCallback(w) ==
    /\ w \in stray
    /\ stray' = stray \ {w}
    /\ \/ /\ pc[w] # "idle"
          /\ writeSem' = writeSem \cup {w}
          /\ early' = early \cup {w}
       \/ UNCHANGED <<writeSem, early>>
    /\ UNCHANGED <<listed, mpURBList, pc, urb, flying, left>>

Interrupt(w) ==
    /\ w \in Interruptible
    /\ pc[w] = "down" /\ w \notin writeSem
    /\ pc' = [pc EXCEPT ![w] = "interrupted"]
    /\ UNCHANGED <<listed, mpURBList, urb, flying, writeSem, stray, early, left>>

\* What ended the wait of w.
Ending(w) ==
    IF pc[w] = "interrupted" THEN "signal"
    ELSE IF w \in early THEN "early" ELSE "completion"

\* Returns and, unless the URB was killed, leaves it to the host controller if
\* that still has it.
Leave(w, killed) ==
    IF w \in flying /\ ~killed
    THEN stray' = stray \cup {w} /\ left' = [left EXCEPT ![w] = @ \cup {Ending(w)}]
    ELSE UNCHANGED <<stray, left>>

\* Variant: returns on a signal and leaves the URB to the host controller.
FinishNoKill(w) ==
    /\ pc[w] = "interrupted" \/ (pc[w] = "down" /\ w \in writeSem)
    /\ FreeAndReturn(w, PopFromURBList(ClientOf[w]))
    /\ Leave(w, FALSE)
    /\ UNCHANGED listed

\* Variant: the woken writer returns without taking an URB off the list.
FinishNoPop(w) ==
    /\ pc[w] = "interrupted" \/ (pc[w] = "down" /\ w \in writeSem)
    /\ FreeAndReturn(w, mpURBList[ClientOf[w]])
    /\ UNCHANGED <<listed, stray, left>>

\* Variant: frees the URB it got from the list, whoever it belongs to.
FinishFreesPopped(w) ==
    LET c == ClientOf[w]
        got == IF c \in listed /\ mpURBList[c] # <<>>
               THEN {Head(mpURBList[c])} \ {Freed} ELSE {}
    IN  /\ pc[w] = "interrupted" \/ (pc[w] = "down" /\ w \in writeSem)
        /\ mpURBList' = [mpURBList EXCEPT ![c] = PopFromURBList(c)]
        /\ urb' = [v \in Writers |-> IF v \in got THEN "freed" ELSE urb[v]]
        /\ pc' = [pc EXCEPT ![w] = "idle"]
        /\ flying' = flying \ {w}
        /\ writeSem' = writeSem \ {w}
        /\ early' = early \ {w}
        /\ UNCHANGED <<listed, stray, left>>

\* The wait is over.  The thread kills its URB only if that is the one it got
\* back from the list and it was interrupted.
Finish(w) ==
    /\ pc[w] = "interrupted" \/ (pc[w] = "down" /\ w \in writeSem)
    /\ FreeAndReturn(w, PopFromURBList(ClientOf[w]))
    /\ Leave(w, GotOwn(w) /\ pc[w] = "interrupted")
    /\ UNCHANGED listed

\* Variant: the URBs are freed without being killed.
ReleaseNoKill(c) ==
    LET mine == {w \in Writers : Contains(mpURBList[c], w)}
    IN  /\ c \in listed
        /\ listed' = listed \ {c}
        /\ mpURBList' = [mpURBList EXCEPT ![c] = <<>>]
        /\ urb' = [w \in Writers |-> IF w \in mine THEN "freed" ELSE urb[w]]
        /\ flying' = flying \ mine
        /\ UNCHANGED <<pc, writeSem, stray, early, left>>

\* ReleaseClientID, all under the lock: every URB on the list is killed,
\* which completes it, and freed; the client is taken off the client list.
ReleaseClientID(c) ==
    LET mine == {w \in Writers : Contains(mpURBList[c], w)}
    IN  /\ c \in listed
        /\ listed' = listed \ {c}
        /\ mpURBList' = [mpURBList EXCEPT ![c] = <<>>]
        /\ urb' = [w \in Writers |-> IF w \in mine THEN "freed" ELSE urb[w]]
        /\ flying' = flying \ mine
        /\ writeSem' = writeSem \cup (flying \cap mine)
        /\ UNCHANGED <<pc, stray, early, left>>

-----------------------------------------------------------------------------
Next ==
    \/ \E w \in Writers :
           \/ WriteSync(w) \/ Submit(w) \/ SubmitFailed(w) \/ Finish(w)
           \/ WriteSyncCallback(w) \/ StrayCallback(w) \/ Interrupt(w)
    \/ \E c \in Clients : ReleaseClientID(c)

Spec == Init /\ [][Next]_vars

\* Runnable threads run, and the host controller ends every transfer.
Fairness ==
    \A w \in Writers :
        /\ WF_vars(Submit(w)) /\ WF_vars(SubmitFailed(w)) /\ WF_vars(Finish(w))
        /\ WF_vars(WriteSyncCallback(w)) /\ WF_vars(StrayCallback(w))

FairSpec == Spec /\ Fairness

-----------------------------------------------------------------------------
(* Properties.                                                             *)

Inside(c) == {w \in Writers : ClientOf[w] = c /\ pc[w] # "idle"}

\* Every WriteSync takes exactly one URB off the list for the one it put on,
\* on every path: the list of a registered client is as long as the number of
\* threads inside WriteSync, and empty when there are none.
OnePopPerAdd ==
    \A c \in listed : Len(mpURBList[c]) = Cardinality(Inside(c))

\* A thread that writes on a client of its own.
Alone(w) == \A v \in Writers : ClientOf[v] = ClientOf[w] => v = w

\* With several threads on a client, out of order completions and failed
\* submissions included, nobody else frees the URB of a thread that is still
\* inside WriteSync while the client is registered; and no entry of a client
\* with one thread points to an URB that has been freed, so that
\* ReleaseClientID does not kill freed memory.
UrbAlive ==
    \A w \in Writers :
        /\ pc[w] # "idle" /\ ClientOf[w] \in listed => urb[w] = "owned"
        /\ Alone(w) => ~Contains(mpURBList[ClientOf[w]], Freed)

\* A WriteSync that returns while the host controller still has its URB, which
\* will up() a semaphore that is gone, was ended by a signal, or its own
\* semaphore was raised by the callback of such an URB of an earlier WriteSync
\* of the thread: the first one was left by a signal, and a completion never
\* leaves one.  A thread alone on its client leaves one only when the client
\* has been released.
StrayOnlyBySignal ==
    \A w \in Writers :
        /\ left[w] # {} => "signal" \in left[w] /\ "completion" \notin left[w]
        /\ w \in stray /\ Alone(w) => ClientOf[w] \notin listed

\* Every submitted write returns, whether its client lives or is released.
WriteReturns == \A w \in Writers : pc[w] # "idle" ~> pc[w] = "idle"
=============================================================================
