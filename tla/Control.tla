-------------------------------- MODULE Control --------------------------------
(***************************************************************************)
(* Requests on the control client (QMICTL), which the whole driver shares: *)
(* the transaction numbers that tell their answers apart, QMIReady, which  *)
(* asks every 500 ms until the device answers, QMICTLSyncProc, which then  *)
(* empties the store, and the requests of GetClientID and ReleaseClientID  *)
(* that follow.                                                            *)
(*                                                                         *)
(* A request is known by the value the counter had when its number was     *)
(* drawn, so that a number used again can be told from its first use.      *)
(* ReadSync is what module MailBox says of it; the notification that       *)
(* QMIReady registers with ReadAsync is here in full.                      *)
(***************************************************************************)
EXTENDS SequencesExt

CONSTANTS Users,      \* threads that send requests once the device is ready
          Numbers,    \* how many numbers a u8 has
          Rounds,     \* how often QMIReady asks: timeout / 500
          MaxDraws,   \* model bound: values of the counter
          MaxSignals  \* model bound: answers without a request

ASSUME ControlAssumption ==
    /\ Rounds \in Nat \ {0} /\ Numbers \in Nat
    /\ Rounds + 1 < Numbers         \* 60 and 256
    /\ MaxDraws \in Nat /\ MaxSignals \in Nat
    /\ "sync" \notin Users

Threads == Users \cup {"sync"}
Requests == 0 .. MaxDraws

VARIABLES
    mQMICTLTransactionID,   \* the counter
    pc,                     \* where each thread is
    request,                \* the request each thread deals with, 0 for none
    first,                  \* history: the value it drew first
    round,                  \* times QMIReady has asked
    mpList,                 \* answers in the store, 0 for an indication
    mpReadNotifyList,       \* the requests QMIReady is registered for
    readSem,                \* the semaphore on QMIReady's stack
    upSem,                  \* ReadCallback has taken an entry off and is about
                            \* to call UpSem; which request it was for, or 0
    underWay,               \* answers the device has not delivered yet
    signals,
    mbQMIReady,             \* the requests of others may begin
    crossed,                \* history: UpSem came after QMIReady had looked
    swept,                  \* history: requests whose answers were swept away
    wrong                   \* history: <<request, answer>> taken, not its own

reading == <<mpList, mpReadNotifyList, readSem, upSem, underWay, signals>>
history == <<crossed, swept, wrong>>
vars == <<mQMICTLTransactionID, pc, request, first, round, reading, mbQMIReady,
          history>>

TypeOK ==
    /\ mQMICTLTransactionID \in Nat \ {0}
    /\ pc \in [Threads -> {"idle", "again", "send", "read", "draw", "ask", "write",
                           "sleep", "pop", "cancel", "ready", "flush", "finished"}]
    /\ \A t \in Users : pc[t] \in {"idle", "again", "send", "read"}
    /\ pc["sync"] # "idle"
    /\ request \in [Threads -> Nat] /\ first \in [Threads -> Nat]
    /\ {round, readSem, upSem, signals} \subseteq Nat
    /\ mpList \in Seq(Nat) /\ mpReadNotifyList \in Seq(Nat)
    /\ underWay \subseteq Nat /\ swept \subseteq Nat /\ wrong \subseteq Nat \X Nat
    /\ mbQMIReady \in BOOLEAN /\ crossed \in BOOLEAN

\* As RegisterQMIDevice leaves the control client.
Init ==
    /\ mQMICTLTransactionID = 1
    /\ pc = [t \in Threads |-> IF t = "sync" THEN "draw" ELSE "idle"]
    /\ request = [t \in Threads |-> 0] /\ first = [t \in Threads |-> 0]
    /\ round = 0
    /\ mpList = <<>> /\ mpReadNotifyList = <<>>
    /\ readSem = 0 /\ upSem = 0
    /\ underWay = {} /\ signals = 0
    /\ mbQMIReady = FALSE
    /\ crossed = FALSE /\ swept = {} /\ wrong = {}

Number(r) == r % Numbers

Go(t, where) == pc' = [pc EXCEPT ![t] = where]

-----------------------------------------------------------------------------
(* QMIGetTransactionID.                                                    *)

\* One atomic_add_return for thread t.
Add(t) ==
    /\ mQMICTLTransactionID < MaxDraws
    /\ mQMICTLTransactionID' = mQMICTLTransactionID + 1
    /\ request' = [request EXCEPT ![t] = mQMICTLTransactionID']

\* Variant: the test for 0 is made before the number is cut to eight bits.
NextPlaceUncut(r, again, next) == IF r = 0 THEN again ELSE next

NextPlace(r, again, next) == IF Number(r) = 0 THEN again ELSE next

QMIGetTransactionID(t, place, again, next) ==
    /\ pc[t] = place
    /\ Add(t)
    /\ first' = [first EXCEPT ![t] = mQMICTLTransactionID']
    /\ Go(t, NextPlace(mQMICTLTransactionID', again, next))

\* The second draw is not tested.
DrawAgain(t, place, next) ==
    /\ pc[t] = place
    /\ Add(t)
    /\ Go(t, next)
    /\ UNCHANGED first

-----------------------------------------------------------------------------
(* The device and ReadCallback.                                            *)

\* A request is written: the device answers it, or is not ready for it, or the
\* write failed.
Write(r) == underWay' \in {underWay, underWay \cup {r}}

\* The first entry that a message with the number of r matches: 0 matches all.
Matches(entry, r) == Number(r) = 0 \/ Number(entry) = Number(r)
FirstEntry(r) == SelectInSeq(mpReadNotifyList, LAMBDA e : Matches(e, r))

Deliver(r) ==
    /\ upSem = 0
    /\ mpList' = Append(mpList, r)
    /\ LET i == FirstEntry(r)
       IN  IF i = 0
           THEN UNCHANGED <<mpReadNotifyList, upSem>>
           ELSE /\ upSem' = mpReadNotifyList[i]
                /\ mpReadNotifyList' = RemoveAt(mpReadNotifyList, i)

ReadCallback ==
    /\ \/ \E r \in underWay :
              Deliver(r) /\ underWay' = underWay \ {r} /\ UNCHANGED signals
       \/ /\ signals < MaxSignals /\ signals' = signals + 1
          /\ Deliver(0) /\ UNCHANGED underWay
    /\ UNCHANGED <<mQMICTLTransactionID, pc, request, first, round, readSem,
                   mbQMIReady, history>>

\* QMIReady no longer waits for request r.
LookedFor(r) == ~(request["sync"] = r /\ pc["sync"] \in {"write", "sleep"})

UpSem ==
    /\ upSem > 0
    /\ readSem' = readSem + 1 /\ upSem' = 0
    /\ crossed' = (crossed \/ LookedFor(upSem))
    /\ UNCHANGED <<mQMICTLTransactionID, pc, request, first, round, mpList,
                   mpReadNotifyList, underWay, signals, mbQMIReady, swept,
                   wrong>>

\* PopFromReadMemList with the number of request r: 0 asks for anything.
Wanted(r, m) == Number(r) = 0 \/ Number(m) = Number(r)
FirstAnswer(r) == SelectInSeq(mpList, LAMBDA m : Wanted(r, m))
Has(r) == FirstAnswer(r) # 0
Take(r) ==
    LET i == FirstAnswer(r)
    IN  /\ mpList' = RemoveAt(mpList, i)
        /\ wrong' = wrong \cup ({<<r, mpList[i]>>} \ {<<r, r>>})

-----------------------------------------------------------------------------
(* QMIReady.                                                               *)

\* One round begins: sema_init, and a number.  QMIReady is the first to draw
\* numbers, and its rounds are too few to come to 0 (ControlAssumption).
ReadyDraw ==
    /\ QMIGetTransactionID("sync", "draw", "ask", "ask")
    /\ readSem' = 0
    /\ UNCHANGED <<round, mpList, mpReadNotifyList, upSem, underWay, signals,
                   mbQMIReady, history>>

\* ReadAsync: an answer with that number calls UpSem at once; otherwise the
\* request is put on the notify list, if memory allows.
ReadyAsk ==
    /\ pc["sync"] = "ask"
    /\ IF Has(request["sync"])
       THEN readSem' = readSem + 1 /\ UNCHANGED mpReadNotifyList
       ELSE /\ mpReadNotifyList' \in
                   {mpReadNotifyList, Append(mpReadNotifyList, request["sync"])}
            /\ UNCHANGED readSem
    /\ Go("sync", "write")
    /\ UNCHANGED <<mQMICTLTransactionID, request, first, round, mpList, upSem,
                   underWay, signals, mbQMIReady, history>>

ReadyWrite ==
    /\ pc["sync"] = "write"
    /\ Write(request["sync"])
    /\ Go("sync", "sleep")
    /\ UNCHANGED <<mQMICTLTransactionID, request, first, round, mpList, upSem,
                   mpReadNotifyList, readSem, signals, mbQMIReady, history>>

\* After 500 ms: down_trylock.
ReadyLook ==
    /\ pc["sync"] = "sleep"
    /\ IF readSem > 0
       THEN readSem' = readSem - 1 /\ Go("sync", "pop")
       ELSE UNCHANGED readSem /\ Go("sync", "cancel")
    /\ UNCHANGED <<mQMICTLTransactionID, request, first, round, mpList, upSem,
                   mpReadNotifyList, underWay, signals, mbQMIReady, history>>

\* The round is over without an answer.
NextRound ==
    /\ round' = round + 1
    /\ Go("sync", IF round' < Rounds THEN "draw" ELSE "finished")

ReadyPop ==
    /\ pc["sync"] = "pop"
    /\ IF Has(request["sync"])
       THEN Take(request["sync"]) /\ Go("sync", "ready") /\ UNCHANGED round
       ELSE NextRound /\ UNCHANGED <<mpList, wrong>>
    /\ UNCHANGED <<mQMICTLTransactionID, request, first, mpReadNotifyList,
                   readSem, upSem, underWay, signals, mbQMIReady, crossed,
                   swept>>

\* Variant: the entry stays on the list after a timeout.
ReadyCancelNot ==
    /\ pc["sync"] = "cancel"
    /\ NextRound
    /\ UNCHANGED <<mQMICTLTransactionID, request, first, reading, mbQMIReady,
                   history>>

\* NotifyAndPopNotifyList: the first entry with that number is taken off, and
\* its UpSem run.
ReadyCancel ==
    /\ pc["sync"] = "cancel"
    /\ LET i == FirstEntry(request["sync"])
       IN  IF i = 0
           THEN UNCHANGED <<mpReadNotifyList, readSem>>
           ELSE /\ mpReadNotifyList' = RemoveAt(mpReadNotifyList, i)
                /\ readSem' = readSem + 1
    /\ NextRound
    /\ UNCHANGED <<mQMICTLTransactionID, request, first, mpList, upSem,
                   underWay, signals, mbQMIReady, history>>

QMIReady ==
    \/ ReadyDraw \/ ReadyAsk \/ ReadyWrite \/ ReadyLook \/ ReadyPop \/ ReadyCancel

-----------------------------------------------------------------------------
(* A request and its answer, as GetClientID, ReleaseClientID and           *)
(* QMICTLSyncProc all make it.                                             *)

\* The threads that may begin a request, and where they go on after the answer.
MayAsk(t) ==
    \/ t = "sync" /\ pc[t] = "ready"
    \/ t # "sync" /\ pc[t] = "idle" /\ mbQMIReady
Answered(t) == IF t = "sync" THEN "flush" ELSE "idle"
Failed(t) == IF t = "sync" THEN "finished" ELSE "idle"

Draw(t) ==
    /\ MayAsk(t)
    /\ QMIGetTransactionID(t, pc[t], "again", "send")
    /\ UNCHANGED <<round, reading, mbQMIReady, history>>

Redraw(t) ==
    /\ DrawAgain(t, "again", "send")
    /\ UNCHANGED <<round, reading, mbQMIReady, history>>

Send(t) ==
    /\ pc[t] = "send"
    /\ Write(request[t])
    /\ Go(t, "read") \/ Go(t, Failed(t))
    /\ UNCHANGED <<mQMICTLTransactionID, request, first, round, mpList, upSem,
                   mpReadNotifyList, readSem, signals, mbQMIReady, history>>

Receive(t) ==
    /\ pc[t] = "read" /\ Has(request[t])
    /\ Take(request[t])
    /\ Go(t, Answered(t)) \/ Go(t, Failed(t))
    /\ UNCHANGED <<mQMICTLTransactionID, request, first, round, readSem, upSem,
                   mpReadNotifyList, underWay, signals, mbQMIReady, crossed,
                   swept>>

\* A signal; the answer may still come.  Kernel threads have none.
Interrupted(t) ==
    /\ pc[t] = "read" /\ t # "sync"
    /\ Go(t, Failed(t))
    /\ UNCHANGED <<mQMICTLTransactionID, request, first, round, reading,
                   mbQMIReady, history>>

Request(t) == Draw(t) \/ Redraw(t) \/ Send(t) \/ Receive(t) \/ Interrupted(t)

\* Variant: only what has the number of the last request is freed.
FlushOwn ==
    /\ pc["sync"] = "flush"
    /\ swept' = ToSet(mpList)
    /\ mpList' = SelectSeq(mpList, LAMBDA m : ~Wanted(request["sync"], m))
    /\ Go("sync", "finished")
    /\ UNCHANGED <<mQMICTLTransactionID, request, first, round, readSem, upSem,
                   mpReadNotifyList, underWay, signals, mbQMIReady, crossed,
                   wrong>>

\* The end of QMICTLSyncProc: everything in the store is freed.
Flush ==
    /\ pc["sync"] = "flush"
    /\ swept' = ToSet(mpList)
    /\ mpList' = <<>>
    /\ Go("sync", "finished")
    /\ UNCHANGED <<mQMICTLTransactionID, request, first, round, readSem, upSem,
                   mpReadNotifyList, underWay, signals, mbQMIReady, crossed,
                   wrong>>

\* qmi_sync_thread lets the others begin, whatever came of it.  What it asks for
\* itself after QMICTLSyncProc is among the requests of Users.
Finish ==
    /\ pc["sync"] = "finished" /\ ~mbQMIReady
    /\ mbQMIReady' = TRUE
    /\ UNCHANGED <<mQMICTLTransactionID, pc, request, first, round, reading,
                   history>>

QMICTLSyncProc == Request("sync") \/ Flush

-----------------------------------------------------------------------------
Next ==
    \/ QMIReady \/ QMICTLSyncProc \/ Finish
    \/ \E t \in Users : Request(t)
    \/ ReadCallback \/ UpSem

Spec == Init /\ [][Next]_vars

-----------------------------------------------------------------------------
(* The properties.                                                         *)

Waiting == {t \in Threads : pc[t] = "read"}

\* Two requests that wait for answers have different numbers, and none has 0,
\* which would match every message, unless all numbers were drawn in between.
NumbersDiffer ==
    /\ \A t \in Waiting :
           Number(request[t]) = 0 => request[t] - first[t] >= Numbers
    /\ \A t, u \in Waiting :
           t # u /\ Number(request[t]) = Number(request[u]) =>
               request[t] - request[u] \notin 1 - Numbers .. Numbers - 1

\* Nobody takes the answer of another request unless all numbers were drawn since,
\* and nobody takes one that was in the store when QMICTLSyncProc succeeded (an
\* indication is like any other, and is no answer).
OwnAnswer ==
    \A w \in wrong :
        LET r == w[1]
            answer == w[2]
        IN  /\ Number(r) = 0 \/ answer - r \notin 1 - Numbers .. Numbers - 1
            /\ answer # 0 => answer \notin swept

\* When QMIReady has returned, no entry of the notify list has the semaphore on
\* its stack, unless an UpSem came after QMIReady had looked at the semaphore
\* and was taken for one of the next round.
Asked == pc["sync"] \in {"ready", "again", "send", "read", "flush", "finished"}
ReadyLeavesNothing == Asked /\ ~crossed => mpReadNotifyList = <<>>
=============================================================================
