------------------------------ MODULE ReadStore ------------------------------
(***************************************************************************)
(* The read side of one QMI client's memory (sClientMemList) in the        *)
(* GobiNet driver: the list of messages the device has delivered (mpList)  *)
(* and the list of threads waiting for one (mpReadNotifyList), both under  *)
(* the spinlock mClientMemLock.                                            *)
(*                                                                         *)
(* Four kinds of code meet here: any number of threads in ReadSync, the    *)
(* completion handler ReadCallback, which stores a message and notifies    *)
(* the first matching waiter, ReleaseClientID, which notifies every waiter *)
(* and deletes the client, and signals, which end a ReadSync early.        *)
(* A critical section is one action.  NotifyAndPopNotifyList drops the     *)
(* lock around the waiter's function, so a section that notifies ends at   *)
(* that point and the rest of it is an action of its own.                  *)
(***************************************************************************)
EXTENDS SequencesExt

CONSTANTS Readers,        \* threads that call ReadSync on this client
          TransactionOf,  \* the transaction ID each one asks for, 0 for any
          Interruptible,  \* the readers that can receive a signal
          Tids,           \* transaction IDs of messages from the device
          MaxUnread,      \* model bound: unread messages stored at a time
          MaxWaiting,     \* model bound: notify list entries memory holds
          NoReader        \* no notification pending

ASSUME ReadStoreAssumption ==
    /\ IsFiniteSet(Readers)
    /\ TransactionOf \in [Readers -> Nat]
    /\ Interruptible \subseteq Readers
    /\ Tids \subseteq Nat
    /\ MaxUnread \in Nat /\ MaxWaiting \in Nat
    /\ NoReader \notin Readers

\* The two places NotifyAndPopNotifyList is called from.
Notifiers == {"ReadCallback", "ReleaseClientID"}

VARIABLES clientMem,         \* is the client's memory on mpClientMemList?
          mpList,            \* transaction IDs of the unread messages
          mpReadNotifyList,  \* readers waiting, in order of registration
          readSem,           \* count of the semaphore each ReadSync sleeps on
          pc,                \* where each reader is in ReadSync
          ctx,               \* where each notifier is
          popped,            \* the waiter each notifier took off the list and
                             \* is about to up(), with the lock released
          stale              \* notifiers about to up() the semaphore of a
                             \* ReadSync that has returned

vars == <<clientMem, mpList, mpReadNotifyList, readSem, pc, ctx, popped, stale>>

TypeOK ==
    /\ clientMem \in {"listed", "released"}
    /\ mpList \in Seq(Tids)
    /\ mpReadNotifyList \in Seq(Readers)
    /\ readSem \in [Readers -> Nat]
    /\ pc \in [Readers -> {"idle", "down", "interrupted"}]
    /\ ctx \in [Notifiers -> {"idle", "notify", "relock"}]
    /\ popped \in [Notifiers -> Readers \cup {NoReader}]
    /\ stale \subseteq Notifiers

Init ==
    /\ clientMem = "listed"
    /\ mpList = <<>>
    /\ mpReadNotifyList = <<>>
    /\ readSem = [r \in Readers |-> 0]
    /\ pc = [r \in Readers |-> "idle"]
    /\ ctx = [n \in Notifiers |-> "idle"]
    /\ popped = [n \in Notifiers |-> NoReader]
    /\ stale = {}

-----------------------------------------------------------------------------
(* Matching.  The two lists match differently: a stored message answers a  *)
(* request for its own ID or for any; a message with ID 0 also wakes       *)
(* whoever is first in the notify list.                                    *)

Wanted(tid, m) == tid = 0 \/ tid = m

HasData(tid) == \E i \in DOMAIN mpList : Wanted(tid, mpList[i])

ToNotify(m, r) == m = 0 \/ TransactionOf[r] = 0 \/ TransactionOf[r] = m

\* Take the oldest message that answers a request for tid.
PopFromReadMemList(tid) ==
    \E i \in DOMAIN mpList :
        /\ Wanted(tid, mpList[i])
        /\ \A j \in 1 .. i - 1 : ~Wanted(tid, mpList[j])
        /\ mpList' = RemoveAt(mpList, i)

\* Variant: every matching entry is removed, one is notified.
NotifyOneDropAll(n, m) ==
    \E i \in DOMAIN mpReadNotifyList :
        /\ ToNotify(m, mpReadNotifyList[i])
        /\ mpReadNotifyList' =
               SelectSeq(mpReadNotifyList, LAMBDA r : ~ToNotify(m, r))
        /\ popped' = [popped EXCEPT ![n] = mpReadNotifyList[i]]
        /\ ctx' = [ctx EXCEPT ![n] = "notify"]

\* Take the first waiter that message ID m matches off the notify list and
\* drop the lock to run its function.
NotifyAndPopNotifyList(n, m) ==
    \E i \in DOMAIN mpReadNotifyList :
        /\ ToNotify(m, mpReadNotifyList[i])
        /\ \A j \in 1 .. i - 1 : ~ToNotify(m, mpReadNotifyList[j])
        /\ mpReadNotifyList' = RemoveAt(mpReadNotifyList, i)
        /\ popped' = [popped EXCEPT ![n] = mpReadNotifyList[i]]
        /\ ctx' = [ctx EXCEPT ![n] = "notify"]

NobodyToNotify(m) ==
    \A i \in DOMAIN mpReadNotifyList : ~ToNotify(m, mpReadNotifyList[i])

-----------------------------------------------------------------------------
(* ReadSync.  Its loop body, entered with the lock held: take the message, *)
(* or go to sleep in the notify list, or give up when the client is gone   *)
(* or no memory is left for the list entry.                                *)

\* ReadSync returns and its semaphore goes out of scope.
Return(r) ==
    /\ pc' = [pc EXCEPT ![r] = "idle"]
    /\ stale' = stale \cup {n \in Notifiers : popped[n] = r}

TakeMessage(r) ==
    /\ clientMem = "listed"
    /\ PopFromReadMemList(TransactionOf[r])
    /\ Return(r)
    /\ UNCHANGED mpReadNotifyList

\* Variant: registers without looking at the store under the same lock.
AddToNotifyListUnchecked(r) ==
    /\ clientMem = "listed"
    /\ Len(mpReadNotifyList) < MaxWaiting
    /\ mpReadNotifyList' = Append(mpReadNotifyList, r)
    /\ pc' = [pc EXCEPT ![r] = "down"]
    /\ UNCHANGED <<mpList, stale>>

AddToNotifyList(r) ==
    /\ clientMem = "listed" /\ ~HasData(TransactionOf[r])
    /\ Len(mpReadNotifyList) < MaxWaiting
    /\ mpReadNotifyList' = Append(mpReadNotifyList, r)
    /\ pc' = [pc EXCEPT ![r] = "down"]
    /\ UNCHANGED <<mpList, stale>>

ReturnError(r) ==
    /\ clientMem = "listed" => ~HasData(TransactionOf[r])
    /\ Return(r)
    /\ UNCHANGED <<mpList, mpReadNotifyList>>

ReadLoop(r) ==
    /\ TakeMessage(r) \/ AddToNotifyList(r) \/ ReturnError(r)
    /\ readSem' = [readSem EXCEPT ![r] = 0]
    /\ UNCHANGED <<clientMem, ctx, popped>>

ReadSync(r) == pc[r] = "idle" /\ ReadLoop(r)

\* Variant: the loop goes round although nobody called up().
WokenSpuriously(r) == pc[r] = "down" /\ ReadLoop(r)

\* down_interruptible returns 0 and the loop goes round.
Woken(r) == pc[r] = "down" /\ readSem[r] > 0 /\ ReadLoop(r)

\* down_interruptible gives up on a signal; the lock is not held yet.
Interrupt(r) ==
    /\ r \in Interruptible
    /\ pc[r] = "down" /\ readSem[r] = 0
    /\ pc' = [pc EXCEPT ![r] = "interrupted"]
    /\ UNCHANGED <<clientMem, mpList, mpReadNotifyList, readSem, ctx, popped,
                   stale>>

\* Take the first entry of reader r off the notify list, if it has one.
RemoveEntry(r) ==
    \/ \E i \in DOMAIN mpReadNotifyList :
           /\ mpReadNotifyList[i] = r
           /\ \A j \in 1 .. i - 1 : mpReadNotifyList[j] # r
           /\ mpReadNotifyList' = RemoveAt(mpReadNotifyList, i)
    \/ ~Contains(mpReadNotifyList, r) /\ UNCHANGED mpReadNotifyList

\* The interrupted reader takes its own entry off the list and returns.
CancelRead(r) ==
    /\ pc[r] = "interrupted"
    /\ Return(r)
    /\ readSem' = [readSem EXCEPT ![r] = 0]
    /\ RemoveEntry(r)
    /\ UNCHANGED <<clientMem, mpList, ctx, popped>>

-----------------------------------------------------------------------------
(* The notifiers.                                                          *)

\* UpSem, run by notifier n with the lock released.  When the ReadSync it is
\* for has returned it writes to a dead stack frame: that may be where the
\* same thread's next ReadSync keeps its semaphore, or not.
UpSem(n) ==
    /\ ctx[n] = "notify"
    /\ \/ readSem' = [readSem EXCEPT ![popped[n]] = @ + 1]
       \/ n \in stale /\ UNCHANGED readSem
    /\ ctx' = [ctx EXCEPT ![n] = "relock"]
    /\ popped' = [popped EXCEPT ![n] = NoReader]
    /\ stale' = stale \ {n}
    /\ UNCHANGED <<clientMem, mpList, mpReadNotifyList, pc>>

\* A message with transaction ID m arrives for this client.
ReadCallback(m) ==
    /\ ctx["ReadCallback"] = "idle"
    /\ clientMem = "listed"
    /\ Len(mpList) < MaxUnread
    /\ mpList' = Append(mpList, m)
    /\ \/ NotifyAndPopNotifyList("ReadCallback", m)
       \/ NobodyToNotify(m) /\ UNCHANGED <<mpReadNotifyList, ctx, popped>>
    /\ UNCHANGED <<clientMem, readSem, pc, stale>>

\* The lock is taken again, poll() is woken and the interrupt URB goes out.
ReadCallbackReturn ==
    /\ ctx["ReadCallback"] = "relock"
    /\ ctx' = [ctx EXCEPT !["ReadCallback"] = "idle"]
    /\ UNCHANGED <<clientMem, mpList, mpReadNotifyList, readSem, pc, popped,
                   stale>>

\* Variant: the client is deleted although threads wait on it.
ReleaseWithoutNotify ==
    /\ clientMem' = "released"
    /\ mpList' = <<>>
    /\ ctx' = [ctx EXCEPT !["ReleaseClientID"] = "idle"]
    /\ UNCHANGED <<mpReadNotifyList, popped, readSem, pc, stale>>

\* Under the lock: notify the next waiter, or, when there is none left, free
\* the unread messages and take the client off mpClientMemList.
ReleaseLoop ==
    /\ \/ /\ NotifyAndPopNotifyList("ReleaseClientID", 0)
          /\ UNCHANGED <<clientMem, mpList>>
       \/ /\ mpReadNotifyList = <<>>
          /\ clientMem' = "released"
          /\ mpList' = <<>>
          /\ ctx' = [ctx EXCEPT !["ReleaseClientID"] = "idle"]
          /\ UNCHANGED <<mpReadNotifyList, popped>>
    /\ UNCHANGED <<readSem, pc, stale>>

ReleaseClientID ==
    /\ ctx["ReleaseClientID"] = "idle" /\ clientMem = "listed"
    /\ ReleaseLoop

ReleaseContinue == ctx["ReleaseClientID"] = "relock" /\ ReleaseLoop

-----------------------------------------------------------------------------
Next ==
    \/ \E r \in Readers :
           ReadSync(r) \/ Woken(r) \/ Interrupt(r) \/ CancelRead(r)
    \/ \E n \in Notifiers : UpSem(n)
    \/ \E m \in Tids : ReadCallback(m)
    \/ ReadCallbackReturn
    \/ ReleaseClientID
    \/ ReleaseContinue

Spec == Init /\ [][Next]_vars

\* A thread that is runnable runs, and a handler that holds or wants the
\* spinlock gets it.  No fairness for calls, messages, signals or releases.
Fairness ==
    /\ \A r \in Readers : WF_vars(Woken(r)) /\ WF_vars(CancelRead(r))
    /\ \A n \in Notifiers : WF_vars(UpSem(n))
    /\ WF_vars(ReadCallbackReturn)
    /\ WF_vars(ReleaseContinue)

FairSpec == Spec /\ Fairness

-----------------------------------------------------------------------------
(* Properties.                                                             *)

\* The wake-ups a reader can still receive or has received: its entry in the
\* notify list, a notifier about to call up(), a semaphore already up.
Listed(r) == Contains(mpReadNotifyList, r)
BeingNotified(r) == \E n \in Notifiers \ stale : popped[n] = r
Awake(r) == BeingNotified(r) \/ readSem[r] > 0

\* A reader asleep in ReadSync always has a wake-up left, whatever
\* ReadCallback, ReleaseClientID and signals do around it: no path takes its
\* entry off the list without up()-ing its semaphore.
SleeperCanBeWoken == \A r \in Readers : pc[r] = "down" => Listed(r) \/ Awake(r)

\* Once ReleaseClientID has deleted the client, no entry is left on its
\* notify list and no reader can get onto it again.
NoWaiterOutlivesClient == clientMem = "released" => mpReadNotifyList = <<>>

\* ReadSync never leaves an entry behind: the notify list only names threads
\* still inside ReadSync, once each.
WaitersAreInside ==
    \A i \in DOMAIN mpReadNotifyList :
        /\ pc[mpReadNotifyList[i]] # "idle"
        /\ \A j \in DOMAIN mpReadNotifyList :
               mpReadNotifyList[i] = mpReadNotifyList[j] => i = j

\* No up() on a semaphore whose ReadSync has returned (the semaphore lives on
\* that thread's stack).
NoDanglingSem == stale = {}

\* No lost wake-up: while a reader sleeps in the notify list, every message
\* it could take is matched by another reader of the same kind that has been
\* woken and has not looked at the store yet.
WaitingMessages(tid) == {i \in DOMAIN mpList : Wanted(tid, mpList[i])}
AwakeFor(tid) == {r \in Readers : TransactionOf[r] = tid /\ Awake(r)}
NoLostWakeup ==
    \A i \in DOMAIN mpReadNotifyList :
        LET tid == TransactionOf[mpReadNotifyList[i]]
        IN  Cardinality(WaitingMessages(tid)) <= Cardinality(AwakeFor(tid))

\* Every ReadSync on a client that is released returns.
ReadersReturn ==
    \A r \in Readers : clientMem = "released" ~> pc[r] = "idle"

\* What ReadSync promises its callers (see MailBox): its readers take, block and
\* leave as those of a mail box do, with everything under one lock, although
\* waiters are notified with the lock dropped and signals come at any time.
Promise == INSTANCE MailBox WITH
    open <- clientMem = "listed",
    box <- mpList,
    blocked <- {r \in Readers : pc[r] = "down"}

ImplementsMailBox == Promise!Spec
=============================================================================
