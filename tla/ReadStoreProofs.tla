--------------------------- MODULE ReadStoreProofs ---------------------------
(***************************************************************************)
(* Theorems about ReadStore, for any number of readers, messages and IDs:  *)
(* nobody sleeps in ReadSync without a wake-up coming; without signals     *)
(* (the module parameter interruptible = 0, or kernel threads only) a      *)
(* reader's wake-up is in one place at a time, and none is lost; and with  *)
(* them or without, ReadStore does what a MailBox does.                    *)
(***************************************************************************)
EXTENDS ReadStore, FiniteSetTheorems, TLAPS

\* What RemoveAt does to a sequence.
LEMMA RemoveAtFacts ==
    ASSUME NEW S, NEW s \in Seq(S), NEW i \in 1 .. Len(s)
    PROVE  /\ RemoveAt(s, i) \in Seq(S)
           /\ Len(RemoveAt(s, i)) = Len(s) - 1
           /\ \A j \in 1 .. Len(s) - 1 :
                  RemoveAt(s, i)[j] = IF j < i THEN s[j] ELSE s[j + 1]
<1> DEFINE a == SubSeq(s, 1, i - 1)
           b == SubSeq(s, i + 1, Len(s))
<1>1. a \in Seq(S) /\ Len(a) = i - 1 /\ \A j \in 1 .. i - 1 : a[j] = s[j]
  OBVIOUS
<1>2. b \in Seq(S) /\ Len(b) = Len(s) - i
  OBVIOUS
<1>3. \A j \in 1 .. Len(s) - i : b[j] = s[i + j]
  OBVIOUS
<1> HIDE DEF a, b
<1>4. a \o b \in Seq(S) /\ Len(a \o b) = Len(s) - 1
  BY <1>1, <1>2
<1>5. \A j \in 1 .. Len(s) - 1 :
          (a \o b)[j] = IF j < i THEN s[j] ELSE s[j + 1]
  BY <1>1, <1>2, <1>3
<1> QED
  BY <1>4, <1>5 DEF RemoveAt, a, b
-----------------------------------------------------------------------------
(* Type correctness.                                                       *)

\* Every variable of the store keeps its type: ReadSync, ReadCallback,
\* ReleaseClientID and signals leave well-formed lists, counts and states.
THEOREM TypeCorrect == Spec => []TypeOK
<1>1. Init => TypeOK
  BY DEF Init, TypeOK
<1>2. TypeOK /\ [Next]_vars => TypeOK'
  <2> SUFFICES ASSUME TypeOK, [Next]_vars PROVE TypeOK'
    OBVIOUS
  <2> USE ReadStoreAssumption DEF TypeOK
  <2>1. ASSUME NEW r \in Readers, ReadLoop(r) PROVE TypeOK'
    <3>1. readSem' \in [Readers -> Nat] /\ clientMem' = clientMem
          /\ ctx' = ctx /\ popped' = popped
      BY <2>1 DEF ReadLoop
    <3>2. mpList' \in Seq(Tids)
      BY <2>1, RemoveAtFacts
      DEF ReadLoop, TakeMessage, AddToNotifyList, ReturnError, PopFromReadMemList
    <3>3. mpReadNotifyList' \in Seq(Readers)
      <4>1. CASE TakeMessage(r)
        BY <4>1 DEF TakeMessage
      <4>2. CASE AddToNotifyList(r)
        BY <4>2 DEF AddToNotifyList
      <4>3. CASE ReturnError(r)
        BY <4>3 DEF ReturnError
      <4> QED
        BY <2>1, <4>1, <4>2, <4>3 DEF ReadLoop
    <3>4. pc' \in [Readers -> {"idle", "down", "interrupted"}] /\ stale' \subseteq Notifiers
      BY <2>1
      DEF ReadLoop, TakeMessage, AddToNotifyList, ReturnError, Return
    <3> QED
      BY <3>1, <3>2, <3>3, <3>4
  <2>2. ASSUME NEW r \in Readers, Interrupt(r) PROVE TypeOK'
    BY <2>2 DEF Interrupt
  <2>3. ASSUME NEW r \in Readers, CancelRead(r) PROVE TypeOK'
    <3>1. mpReadNotifyList' \in Seq(Readers)
      BY <2>3, RemoveAtFacts DEF CancelRead, RemoveEntry
    <3> QED
      BY <2>3, <3>1 DEF CancelRead, Return
  <2>4. ASSUME NEW n \in Notifiers, UpSem(n) PROVE TypeOK'
    <3>1. readSem' \in [Readers -> Nat]
      <4>1. /\ readSem \in [Readers -> Nat]
            /\ \/ readSem' = [readSem EXCEPT ![popped[n]] = @ + 1]
               \/ readSem' = readSem
        BY <2>4 DEF UpSem
      <4> HIDE DEF TypeOK
      <4>2. ASSUME NEW r \in Readers PROVE readSem[r] + 1 \in Nat
        BY <4>1
      <4> QED
        BY <4>1, <4>2
    <3> QED
      BY <2>4, <3>1 DEF UpSem
  <2>5. ASSUME NEW n \in Notifiers, NEW m, NotifyAndPopNotifyList(n, m)
        PROVE  /\ mpReadNotifyList' \in Seq(Readers)
               /\ ctx' \in [Notifiers -> {"idle", "notify", "relock"}]
               /\ popped' \in [Notifiers -> Readers \cup {NoReader}]
    <3>1. PICK i \in DOMAIN mpReadNotifyList :
             /\ mpReadNotifyList' = RemoveAt(mpReadNotifyList, i)
             /\ popped' = [popped EXCEPT ![n] = mpReadNotifyList[i]]
             /\ ctx' = [ctx EXCEPT ![n] = "notify"]
      BY <2>5 DEF NotifyAndPopNotifyList
    <3> QED
      BY <3>1, RemoveAtFacts
  <2>6. ASSUME NEW m \in Tids, ReadCallback(m) PROVE TypeOK'
    BY <2>6, <2>5 DEF ReadCallback, Notifiers
  <2>7. CASE ReadCallbackReturn
    BY <2>7 DEF ReadCallbackReturn, Notifiers
  <2>8. CASE ReleaseLoop
    BY <2>8, <2>5 DEF ReleaseLoop, Notifiers
  <2>9. CASE UNCHANGED vars
    BY <2>9 DEF vars
  <2> QED
    BY <2>1, <2>2, <2>3, <2>4, <2>6, <2>7, <2>8, <2>9
    DEF Next, ReadSync, Woken, ReleaseClientID, ReleaseContinue
<1> QED
  BY <1>1, <1>2, PTL DEF Spec
-----------------------------------------------------------------------------
(* No sleeper is forgotten, with or without signals.                       *)

\* Removing one entry leaves every other reader's entries on the list.
LEMMA RemoveAtKeeps ==
    ASSUME NEW S, NEW s \in Seq(S), NEW i \in 1 .. Len(s),
           NEW x, x # s[i], Contains(s, x)
    PROVE  Contains(RemoveAt(s, i), x)
<1>1. PICK k \in 1 .. Len(s) : s[k] = x
  BY DEF Contains
<1>2. CASE k < i
  <2>1. k \in 1 .. Len(s) - 1
    BY <1>2
  <2>2. RemoveAt(s, i)[k] = x /\ k \in 1 .. Len(RemoveAt(s, i))
    BY <1>1, <1>2, <2>1, RemoveAtFacts
  <2> QED
    BY <2>2 DEF Contains
<1>3. CASE k > i
  <2>1. /\ k - 1 \in 1 .. Len(s) - 1 /\ ~(k - 1 < i)
        /\ (k - 1) + 1 = k
    BY <1>3
  <2>2. RemoveAt(s, i)[k - 1] = x /\ k - 1 \in 1 .. Len(RemoveAt(s, i))
    BY <1>1, <2>1, RemoveAtFacts
  <2> QED
    BY <2>2 DEF Contains
<1> QED
  BY <1>1, <1>2, <1>3

\* An appended entry is on the list, and so are all the entries before it.
LEMMA AppendContains ==
    ASSUME NEW S, NEW s \in Seq(S), NEW e \in S
    PROVE  /\ Contains(Append(s, e), e)
           /\ \A x : Contains(s, x) => Contains(Append(s, e), x)
<1>1. /\ Len(s) \in Nat /\ Len(Append(s, e)) = Len(s) + 1
      /\ Append(s, e)[Len(s) + 1] = e
      /\ \A i \in 1 .. Len(s) : Append(s, e)[i] = s[i]
  OBVIOUS
<1>2. Contains(Append(s, e), e)
  <2>1. Len(s) + 1 \in 1 .. Len(Append(s, e))
    BY <1>1
  <2> QED
    BY <1>1, <2>1 DEF Contains
<1>3. ASSUME NEW x, Contains(s, x) PROVE Contains(Append(s, e), x)
  <2>1. PICK i \in 1 .. Len(s) : s[i] = x
    BY <1>3 DEF Contains
  <2>2. i \in 1 .. Len(Append(s, e)) /\ Append(s, e)[i] = x
    BY <1>1, <2>1
  <2> QED
    BY <2>2 DEF Contains
<1> QED
  BY <1>2, <1>3

\* A notifier holds a waiter exactly while it runs the waiter's function.
NotifierHolds ==
    \A n \in Notifiers :
        /\ popped[n] # NoReader <=> ctx[n] = "notify"
        /\ n \in stale => ctx[n] = "notify"

SleeperInv == TypeOK /\ NotifierHolds /\ SleeperCanBeWoken

\* Taking a waiter off the list to notify it forgets nobody.
LEMMA NotifyKeepsSleepers ==
    ASSUME SleeperInv, NEW n \in Notifiers, NEW m,
           ctx[n] # "notify", NotifyAndPopNotifyList(n, m),
           UNCHANGED <<readSem, pc, stale>>
    PROVE  NotifierHolds' /\ SleeperCanBeWoken'
<1> USE DEF SleeperInv, TypeOK
<1>1. PICK i \in DOMAIN mpReadNotifyList :
         /\ mpReadNotifyList' = RemoveAt(mpReadNotifyList, i)
         /\ popped' = [popped EXCEPT ![n] = mpReadNotifyList[i]]
         /\ ctx' = [ctx EXCEPT ![n] = "notify"]
  BY DEF NotifyAndPopNotifyList
<1>2. i \in 1 .. Len(mpReadNotifyList) /\ mpReadNotifyList[i] \in Readers
  OBVIOUS
<1>3. NotifierHolds'
  BY <1>1, <1>2, ReadStoreAssumption DEF NotifierHolds
<1>4. ASSUME NEW r \in Readers, pc'[r] = "down"
      PROVE  Listed(r)' \/ Awake(r)'
  <2>1. Listed(r) \/ Awake(r)
    BY <1>4 DEF SleeperCanBeWoken
  <2>2. CASE r = mpReadNotifyList[i]
    <3>1. n \notin stale /\ popped'[n] = r
      BY <1>1, <2>2 DEF NotifierHolds
    <3> QED
      BY <3>1 DEF Awake, BeingNotified
  <2>3. CASE r # mpReadNotifyList[i] /\ Listed(r)
    BY <1>1, <1>2, <2>3, RemoveAtKeeps DEF Listed
  <2>4. CASE BeingNotified(r)
    <3>1. PICK k \in Notifiers \ stale : popped[k] = r
      BY <2>4 DEF BeingNotified
    <3>2. k # n
      BY <3>1, ReadStoreAssumption DEF NotifierHolds
    <3>3. popped'[k] = r
      BY <1>1, <3>1, <3>2
    <3> QED
      BY <3>1, <3>3 DEF Awake, BeingNotified
  <2>5. CASE readSem[r] > 0
    BY <2>5 DEF Awake
  <2> QED
    BY <2>1, <2>2, <2>3, <2>4, <2>5 DEF Awake
<1> QED
  BY <1>3, <1>4 DEF SleeperCanBeWoken
\* A reader that leaves ReadSync takes nobody else's wake-up along.
LEMMA ReturnKeepsSleepers ==
    ASSUME SleeperInv, NEW r \in Readers, NEW q \in Readers, q # r,
           Return(r), UNCHANGED <<ctx, popped>>, readSem'[q] = readSem[q],
           Listed(q) => Listed(q)', pc'[q] = "down"
    PROVE  Listed(q)' \/ Awake(q)'
<1> USE DEF SleeperInv, TypeOK
<1>1. Listed(q) \/ Awake(q)
  BY DEF Return, SleeperCanBeWoken
<1>2. CASE BeingNotified(q)
  <2>1. PICK n \in Notifiers \ stale : popped[n] = q
    BY <1>2 DEF BeingNotified
  <2> QED
    BY <2>1 DEF Return, Awake, BeingNotified
<1> QED
  BY <1>1, <1>2 DEF Awake

\* The strengthened invariant: who is about to be notified, and by whom.
LEMMA SleeperInvariant == Spec => []SleeperInv
<1>1. Init => SleeperInv
  BY DEF Init, SleeperInv, TypeOK, NotifierHolds, SleeperCanBeWoken
<1>2. SleeperInv /\ TypeOK' /\ [Next]_vars => SleeperInv'
  <2> SUFFICES ASSUME SleeperInv, TypeOK', [Next]_vars
               PROVE  NotifierHolds' /\ SleeperCanBeWoken'
    BY DEF SleeperInv
  <2> USE ReadStoreAssumption DEF SleeperInv
  <2>1. ASSUME NEW r \in Readers, ReadLoop(r)
        PROVE  NotifierHolds' /\ SleeperCanBeWoken'
    <3>1. NotifierHolds'
      BY <2>1 DEF ReadLoop, TakeMessage, AddToNotifyList, ReturnError, Return,
                  NotifierHolds, TypeOK
    <3>2. ASSUME NEW q \in Readers, pc'[q] = "down", Return(r),
                 UNCHANGED mpReadNotifyList
          PROVE  Listed(q)' \/ Awake(q)'
      <4>1. q # r /\ readSem'[q] = readSem[q]
        BY <2>1, <3>2 DEF Return, ReadLoop, TypeOK
      <4> QED
        BY <2>1, <3>2, <4>1, ReturnKeepsSleepers DEF ReadLoop, Listed
    <3>3. ASSUME NEW q \in Readers, pc'[q] = "down", AddToNotifyList(r)
          PROVE  Listed(q)' \/ Awake(q)'
      <4>1. CASE q = r
        <5>1. mpReadNotifyList' = Append(mpReadNotifyList, r)
          BY <3>3 DEF AddToNotifyList
        <5>2. mpReadNotifyList \in Seq(Readers)
          BY DEF TypeOK
        <5> QED
          BY <5>1, <5>2, <4>1, AppendContains DEF Listed
      <4>2. CASE q # r
        <5>1. Listed(q) \/ Awake(q)
          BY <3>3, <4>2 DEF AddToNotifyList, SleeperCanBeWoken, TypeOK
        <5>2. Listed(q) => Listed(q)'
          <6>1. mpReadNotifyList' = Append(mpReadNotifyList, r)
            BY <3>3 DEF AddToNotifyList
          <6>2. mpReadNotifyList \in Seq(Readers)
            BY DEF TypeOK
          <6> QED
            BY <6>1, <6>2, AppendContains DEF Listed
        <5>3. Awake(q) => Awake(q)'
          BY <2>1, <3>3, <4>2
          DEF ReadLoop, AddToNotifyList, Awake, BeingNotified, TypeOK
        <5> QED
          BY <5>1, <5>2, <5>3
      <4> QED
        BY <4>1, <4>2
    <3> QED
      BY <2>1, <3>1, <3>2, <3>3
      DEF ReadLoop, TakeMessage, ReturnError, SleeperCanBeWoken
  <2>2. ASSUME NEW r \in Readers, Interrupt(r)
        PROVE  NotifierHolds' /\ SleeperCanBeWoken'
    BY <2>2 DEF Interrupt, NotifierHolds, SleeperCanBeWoken, Listed, Awake,
                BeingNotified, TypeOK
  <2>3. ASSUME NEW r \in Readers, CancelRead(r)
        PROVE  NotifierHolds' /\ SleeperCanBeWoken'
    <3>1. NotifierHolds'
      BY <2>3 DEF CancelRead, Return, NotifierHolds, TypeOK
    <3>2. ASSUME NEW q \in Readers, pc'[q] = "down"
          PROVE  Listed(q)' \/ Awake(q)'
      <4>1. q # r /\ readSem'[q] = readSem[q]
        BY <2>3, <3>2 DEF CancelRead, Return, TypeOK
      <4>2. Listed(q) => Listed(q)'
        <5>1. ASSUME NEW i \in DOMAIN mpReadNotifyList,
                     mpReadNotifyList[i] = r, Listed(q),
                     mpReadNotifyList' = RemoveAt(mpReadNotifyList, i)
              PROVE  Listed(q)'
          <6>1. mpReadNotifyList \in Seq(Readers)
            BY DEF TypeOK
          <6>2. i \in 1 .. Len(mpReadNotifyList)
            BY <6>1
          <6> QED
            BY <4>1, <5>1, <6>1, <6>2, RemoveAtKeeps DEF Listed
        <5>2. UNCHANGED mpReadNotifyList => (Listed(q) => Listed(q)')
          BY DEF Listed
        <5> QED
          BY <2>3, <5>1, <5>2 DEF CancelRead, RemoveEntry
      <4> QED
        BY <2>3, <3>2, <4>1, <4>2, ReturnKeepsSleepers DEF CancelRead
    <3> QED
      BY <3>1, <3>2 DEF SleeperCanBeWoken
  <2>4. ASSUME NEW n \in Notifiers, UpSem(n)
        PROVE  NotifierHolds' /\ SleeperCanBeWoken'
    <3>1. NotifierHolds'
      BY <2>4 DEF UpSem, NotifierHolds, TypeOK
    <3>2. ASSUME NEW q \in Readers, pc'[q] = "down"
          PROVE  Listed(q)' \/ Awake(q)'
      <4>1. Listed(q) \/ Awake(q)
        BY <2>4, <3>2 DEF UpSem, SleeperCanBeWoken
      <4>2. CASE Listed(q)
        BY <2>4, <4>2 DEF UpSem, Listed
      <4>3. CASE readSem[q] > 0
        <5>1. CASE popped[n] = q
          BY <2>4, <4>3, <5>1 DEF UpSem, Awake, TypeOK
        <5>2. CASE popped[n] # q
          BY <2>4, <4>3, <5>2 DEF UpSem, Awake, TypeOK
        <5> QED
          BY <5>1, <5>2
      <4>4. ASSUME NEW k \in Notifiers \ stale, popped[k] = q
            PROVE  Awake(q)'
        <5>1. CASE k = n
          BY <2>4, <4>4, <5>1 DEF UpSem, Awake, TypeOK
        <5>2. CASE k # n
          BY <2>4, <4>4, <5>2 DEF UpSem, Awake, BeingNotified, TypeOK
        <5> QED
          BY <5>1, <5>2
      <4> QED
        BY <4>1, <4>2, <4>3, <4>4 DEF Awake, BeingNotified
    <3> QED
      BY <3>1, <3>2 DEF SleeperCanBeWoken
  <2>5. ASSUME UNCHANGED <<mpReadNotifyList, popped, readSem, pc, stale>>,
               \A n \in Notifiers : (ctx'[n] = "notify") <=> (ctx[n] = "notify")
        PROVE  NotifierHolds' /\ SleeperCanBeWoken'
    BY <2>5 DEF NotifierHolds, SleeperCanBeWoken, Listed, Awake, BeingNotified
  <2>6. ASSUME NEW m \in Tids, ReadCallback(m)
        PROVE  NotifierHolds' /\ SleeperCanBeWoken'
    <3>1. CASE NotifyAndPopNotifyList("ReadCallback", m)
      BY <2>6, <3>1, NotifyKeepsSleepers DEF ReadCallback, Notifiers
    <3>2. CASE NobodyToNotify(m) /\ UNCHANGED <<mpReadNotifyList, ctx, popped>>
      BY <2>5, <2>6, <3>2 DEF ReadCallback
    <3> QED
      BY <2>6, <3>1, <3>2 DEF ReadCallback
  <2>7. CASE ReadCallbackReturn
    BY <2>5, <2>7 DEF ReadCallbackReturn, TypeOK
  <2>8. ASSUME ReleaseLoop, ctx["ReleaseClientID"] # "notify"
        PROVE  NotifierHolds' /\ SleeperCanBeWoken'
    <3>1. CASE NotifyAndPopNotifyList("ReleaseClientID", 0)
      BY <2>8, <3>1, NotifyKeepsSleepers DEF ReleaseLoop, Notifiers
    <3>2. CASE /\ ctx' = [ctx EXCEPT !["ReleaseClientID"] = "idle"]
               /\ UNCHANGED <<mpReadNotifyList, popped>>
      BY <2>5, <2>8, <3>2 DEF ReleaseLoop, TypeOK
    <3> QED
      BY <2>8, <3>1, <3>2 DEF ReleaseLoop
  <2>9. CASE UNCHANGED vars
    BY <2>5, <2>9 DEF vars
  <2> QED
    BY <2>1, <2>2, <2>3, <2>4, <2>6, <2>7, <2>8, <2>9
    DEF Next, ReadSync, Woken, ReleaseClientID, ReleaseContinue
<1> QED
  BY <1>1, <1>2, TypeCorrect, PTL DEF Spec

\* ReadSync, ReadCallback, ReleaseClientID and signals together never leave a
\* reader asleep that nobody can wake (SleeperCanBeWoken).
THEOREM SleepersCanBeWoken == Spec => []SleeperCanBeWoken
<1>1. SleeperInv => SleeperCanBeWoken
  BY DEF SleeperInv
<1> QED
  BY <1>1, SleeperInvariant, PTL

\* A released client's notify list stays empty (NoWaiterOutlivesClient): the
\* list is empty when ReleaseClientID lets go of the client, and only readers
\* that find the client register.
THEOREM NoWaiterLeft == Spec => []NoWaiterOutlivesClient
<1>1. Init => NoWaiterOutlivesClient
  BY DEF Init, NoWaiterOutlivesClient
<1>2. TypeOK /\ NoWaiterOutlivesClient /\ [Next]_vars => NoWaiterOutlivesClient'
  <2> SUFFICES ASSUME TypeOK, NoWaiterOutlivesClient, [Next]_vars,
                      clientMem' = "released"
               PROVE  mpReadNotifyList' = <<>>
    BY DEF NoWaiterOutlivesClient
  <2>1. ASSUME clientMem = "released", mpReadNotifyList = <<>>
        PROVE  mpReadNotifyList' = <<>>
    <3>1. ASSUME NEW r \in Readers, ReadLoop(r) PROVE mpReadNotifyList' = <<>>
      BY <2>1, <3>1 DEF ReadLoop, TakeMessage, AddToNotifyList, ReturnError
    <3>2. ASSUME NEW r \in Readers, RemoveEntry(r) PROVE mpReadNotifyList' = <<>>
      BY <2>1, <3>2 DEF RemoveEntry
    <3>3. ASSUME NEW n, NEW m, NotifyAndPopNotifyList(n, m) PROVE FALSE
      BY <2>1, <3>3 DEF NotifyAndPopNotifyList
    <3> QED
      BY <2>1, <3>1, <3>2, <3>3
      DEF Next, vars, ReadSync, Woken, Interrupt, CancelRead, UpSem,
          ReadCallback, ReadCallbackReturn, ReleaseClientID, ReleaseContinue,
          ReleaseLoop
  <2>2. CASE clientMem = "listed"
    BY <2>2
    DEF Next, vars, ReadSync, Woken, ReadLoop, Interrupt, CancelRead, UpSem,
        ReadCallback, ReadCallbackReturn, ReleaseClientID, ReleaseContinue,
        ReleaseLoop
  <2> QED
    BY <2>1, <2>2 DEF NoWaiterOutlivesClient, TypeOK
<1> QED
  BY <1>1, <1>2, TypeCorrect, PTL DEF Spec

-----------------------------------------------------------------------------
(* Without signals: every read sleeps on exactly one wake-up.              *)

\* A reader's wake-up is its list entry, or in a notifier's hands, or in its
\* semaphore; only a reader asleep has one.
OneTicket ==
    /\ stale = {}
    /\ \A r \in Readers : pc[r] # "interrupted"
    /\ \A r \in Readers : readSem[r] > 0 => pc[r] = "down"
    /\ \A i \in DOMAIN mpReadNotifyList :
           /\ pc[mpReadNotifyList[i]] = "down"
           /\ readSem[mpReadNotifyList[i]] = 0
           /\ \A j \in DOMAIN mpReadNotifyList :
                  mpReadNotifyList[i] = mpReadNotifyList[j] => i = j
           /\ \A n \in Notifiers : popped[n] # mpReadNotifyList[i]
    /\ \A n \in Notifiers : popped[n] \in Readers =>
           /\ pc[popped[n]] = "down"
           /\ readSem[popped[n]] = 0
           /\ \A k \in Notifiers : popped[k] = popped[n] => k = n

TicketInv == TypeOK /\ NotifierHolds /\ OneTicket

\* A reader outside the notify list and not being notified may leave.
LEMMA ReturnKeepsTickets ==
    ASSUME TicketInv, TypeOK', NEW r \in Readers, Return(r),
           pc[r] = "idle" \/ readSem[r] > 0,
           readSem' = [readSem EXCEPT ![r] = 0],
           UNCHANGED <<mpReadNotifyList, ctx, popped>>
    PROVE  OneTicket'
<1> USE DEF TicketInv, OneTicket, TypeOK
<1>1. \A n \in Notifiers : popped[n] # r
  OBVIOUS
<1>2. \A i \in DOMAIN mpReadNotifyList : mpReadNotifyList[i] # r
  OBVIOUS
<1>3. stale' = {}
  BY <1>1 DEF Return
<1>4. \A q \in Readers : q # r => pc'[q] = pc[q] /\ readSem'[q] = readSem[q]
  BY DEF Return
<1>5. pc'[r] = "idle" /\ readSem'[r] = 0
  BY DEF Return
<1>6. \A i \in DOMAIN mpReadNotifyList : mpReadNotifyList[i] \in Readers
  OBVIOUS
<1> QED
  BY <1>1, <1>2, <1>3, <1>4, <1>5, <1>6

\* A reader that registers has no other wake-up.
LEMMA RegisterKeepsTickets ==
    ASSUME TicketInv, TypeOK', NEW r \in Readers, AddToNotifyList(r),
           pc[r] = "idle" \/ readSem[r] > 0,
           readSem' = [readSem EXCEPT ![r] = 0], UNCHANGED <<ctx, popped>>
    PROVE  OneTicket'
<1> USE DEF TicketInv, OneTicket, TypeOK
<1>1. \A n \in Notifiers : popped[n] # r
  OBVIOUS
<1>2. \A i \in DOMAIN mpReadNotifyList : mpReadNotifyList[i] # r
  OBVIOUS
<1>3. \A q \in Readers : q # r => pc'[q] = pc[q] /\ readSem'[q] = readSem[q]
  BY DEF AddToNotifyList
<1>4. pc'[r] = "down" /\ readSem'[r] = 0 /\ stale' = stale
  BY DEF AddToNotifyList
<1> DEFINE n == Len(mpReadNotifyList)
<1>5. /\ DOMAIN mpReadNotifyList = 1 .. n /\ n \in Nat
      /\ DOMAIN mpReadNotifyList' = 1 .. n + 1
      /\ mpReadNotifyList'[n + 1] = r
      /\ \A i \in 1 .. n : /\ mpReadNotifyList'[i] = mpReadNotifyList[i]
                           /\ mpReadNotifyList[i] \in Readers
  BY DEF AddToNotifyList
<1> HIDE DEF n
<1>6. \A i \in DOMAIN mpReadNotifyList' :
          /\ pc'[mpReadNotifyList'[i]] = "down"
          /\ readSem'[mpReadNotifyList'[i]] = 0
          /\ \A k \in Notifiers : popped'[k] # mpReadNotifyList'[i]
  <2>1. \A i \in 1 .. n : /\ pc'[mpReadNotifyList[i]] = "down"
                          /\ readSem'[mpReadNotifyList[i]] = 0
                          /\ \A k \in Notifiers : popped[k] # mpReadNotifyList[i]
    BY <1>2, <1>3, <1>5
  <2> HIDE DEF TicketInv
  <2> QED
    BY <1>1, <1>4, <1>5, <2>1
<1>7. \A i, j \in DOMAIN mpReadNotifyList' :
          mpReadNotifyList'[i] = mpReadNotifyList'[j] => i = j
  <2>1. \A i, j \in 1 .. n : mpReadNotifyList[i] = mpReadNotifyList[j] => i = j
    BY <1>5
  <2>2. \A i \in 1 .. n : mpReadNotifyList[i] # r
    BY <1>2, <1>5
  <2> HIDE DEF TicketInv, OneTicket, TypeOK
  <2> QED
    BY <1>5, <2>1, <2>2
<1>8. \A k \in Notifiers : popped'[k] \in Readers =>
          /\ pc'[popped'[k]] = "down" /\ readSem'[popped'[k]] = 0
          /\ \A l \in Notifiers : popped'[l] = popped'[k] => l = k
  BY <1>1, <1>3
<1>9. \A q \in Readers : /\ pc'[q] # "interrupted"
                         /\ readSem'[q] > 0 => pc'[q] = "down"
  BY <1>3, <1>4
<1> QED
  BY <1>4, <1>6, <1>7, <1>8, <1>9

\* Where the elements of RemoveAt(s, i) were.
LEMMA RemoveAtShift ==
    ASSUME NEW S, NEW s \in Seq(S), NEW i \in 1 .. Len(s),
           NEW j \in 1 .. Len(s) - 1
    PROVE  RemoveAt(s, i)[j] = s[IF j < i THEN j ELSE j + 1]
<1>1. CASE j < i
  BY <1>1, RemoveAtFacts
<1>2. CASE ~(j < i)
  BY <1>2, RemoveAtFacts
<1> QED
  BY <1>1, <1>2

\* A notifier that takes an entry off the list has its reader's only wake-up.
LEMMA NotifyKeepsTickets ==
    ASSUME TicketInv, NEW n \in Notifiers, NEW m, ctx[n] # "notify",
           NotifyAndPopNotifyList(n, m), UNCHANGED <<readSem, pc, stale>>
    PROVE  OneTicket'
<1> USE DEF TicketInv, OneTicket, TypeOK
<1>1. PICK i \in DOMAIN mpReadNotifyList :
         /\ mpReadNotifyList' = RemoveAt(mpReadNotifyList, i)
         /\ popped' = [popped EXCEPT ![n] = mpReadNotifyList[i]]
  BY DEF NotifyAndPopNotifyList
<1>2. i \in 1 .. Len(mpReadNotifyList) /\ mpReadNotifyList[i] \in Readers
  OBVIOUS
<1> DEFINE n0 == Len(mpReadNotifyList)
           old(j) == IF j < i THEN j ELSE j + 1
<1>3. /\ n0 \in Nat /\ i \in 1 .. n0 /\ DOMAIN mpReadNotifyList = 1 .. n0
      /\ DOMAIN mpReadNotifyList' = 1 .. n0 - 1
  <2>1. mpReadNotifyList \in Seq(Readers)
    OBVIOUS
  <2>2. mpReadNotifyList' \in Seq(Readers) /\ Len(mpReadNotifyList') = n0 - 1
    BY <1>1, <1>2, <2>1, RemoveAtFacts
  <2> QED
    BY <1>2, <2>1, <2>2
<1>4. \A j \in 1 .. n0 - 1 : mpReadNotifyList'[j] = mpReadNotifyList[old(j)]
  <2>1. mpReadNotifyList \in Seq(Readers)
    OBVIOUS
  <2> QED
    BY <1>1, <1>2, <2>1, RemoveAtShift
<1> HIDE DEF n0
<1>5. \A j \in DOMAIN mpReadNotifyList' :
          /\ old(j) \in DOMAIN mpReadNotifyList /\ old(j) # i
          /\ mpReadNotifyList'[j] = mpReadNotifyList[old(j)]
  <2> USE <1>3
  <2>1. \A j \in 1 .. n0 - 1 : old(j) \in 1 .. n0 /\ old(j) # i
    BY <1>2
  <2> QED
    BY <2>1, <1>4
<1>6. \A j, k \in DOMAIN mpReadNotifyList' : old(j) = old(k) => j = k
  BY <1>3
<1> HIDE DEF old
<1>7. popped'[n] = mpReadNotifyList[i]
      /\ \A k \in Notifiers : k # n => popped'[k] = popped[k]
  BY <1>1
<1>8. \A j \in DOMAIN mpReadNotifyList' :
          /\ pc'[mpReadNotifyList'[j]] = "down"
          /\ readSem'[mpReadNotifyList'[j]] = 0
          /\ \A k \in Notifiers : popped'[k] # mpReadNotifyList'[j]
  BY <1>2, <1>5, <1>7
<1>9. \A j, k \in DOMAIN mpReadNotifyList' :
          mpReadNotifyList'[j] = mpReadNotifyList'[k] => j = k
  BY <1>5, <1>6
<1>10. \A k \in Notifiers : popped'[k] \in Readers =>
          /\ pc'[popped'[k]] = "down" /\ readSem'[popped'[k]] = 0
          /\ \A l \in Notifiers : popped'[l] = popped'[k] => l = k
  <2>1. pc[mpReadNotifyList[i]] = "down" /\ readSem[mpReadNotifyList[i]] = 0
    OBVIOUS
  <2>2. \A l \in Notifiers : popped[l] # mpReadNotifyList[i]
    OBVIOUS
  <2>3. \A k, l \in Notifiers :
            popped[k] \in Readers /\ popped[k] = popped[l] => l = k
    OBVIOUS
  <2>4. \A k \in Notifiers : popped[k] \in Readers =>
            pc[popped[k]] = "down" /\ readSem[popped[k]] = 0
    OBVIOUS
  <2> QED
    BY <1>7, <2>1, <2>2, <2>3, <2>4
<1> QED
  BY <1>8, <1>9, <1>10
\* Without signals OneTicket holds for ever.
LEMMA Tickets ==
    ASSUME Interruptible = {}
    PROVE  Spec => []TicketInv
<1>1. Init => TicketInv
  BY ReadStoreAssumption
  DEF Init, TicketInv, OneTicket, TypeOK, NotifierHolds
<1>2. TicketInv /\ TypeOK' /\ NotifierHolds' /\ [Next]_vars => TicketInv'
  <2> SUFFICES ASSUME TicketInv, TypeOK', NotifierHolds', [Next]_vars
               PROVE  OneTicket'
    BY DEF TicketInv
  <2>1. ASSUME NEW r \in Readers, ReadLoop(r),
               pc[r] = "idle" \/ readSem[r] > 0
        PROVE  OneTicket'
    <3>1. CASE AddToNotifyList(r)
      BY <2>1, <3>1, RegisterKeepsTickets DEF ReadLoop
    <3>2. CASE TakeMessage(r) \/ ReturnError(r)
      BY <2>1, <3>2, ReturnKeepsTickets DEF ReadLoop, TakeMessage, ReturnError
    <3> QED
      BY <2>1, <3>1, <3>2 DEF ReadLoop
  <2>2. ASSUME NEW r \in Readers PROVE ~Interrupt(r) /\ ~CancelRead(r)
    BY DEF Interrupt, CancelRead, TicketInv, OneTicket
  <2>3. ASSUME NEW n \in Notifiers, UpSem(n) PROVE OneTicket'
    <3> USE DEF TicketInv, OneTicket, TypeOK
    <3>1. popped[n] \in Readers /\ popped[n] # NoReader
      BY <2>3 DEF UpSem, NotifierHolds
    <3>2. /\ readSem'[popped[n]] = 1 /\ pc[popped[n]] = "down"
          /\ \A q \in Readers : q # popped[n] => readSem'[q] = readSem[q]
      BY <2>3, <3>1 DEF UpSem
    <3>3. popped'[n] = NoReader
          /\ \A k \in Notifiers : k # n =>
                 popped'[k] = popped[k] /\ popped[k] # popped[n]
      BY <2>3, <3>1 DEF UpSem
    <3>4. UNCHANGED <<mpReadNotifyList, pc>> /\ stale' = {}
      BY <2>3 DEF UpSem
    <3>5. \A i \in DOMAIN mpReadNotifyList :
              /\ readSem'[mpReadNotifyList[i]] = 0
              /\ \A k \in Notifiers : popped'[k] # mpReadNotifyList[i]
      BY <3>1, <3>2, <3>3, ReadStoreAssumption
    <3>6. \A k \in Notifiers : popped'[k] \in Readers =>
              /\ k # n /\ pc[popped'[k]] = "down" /\ readSem'[popped'[k]] = 0
              /\ \A l \in Notifiers : popped'[l] = popped'[k] => l = k
      BY <3>2, <3>3, ReadStoreAssumption
    <3>7. \A r \in Readers :
              /\ pc'[r] # "interrupted"
              /\ readSem'[r] > 0 => pc'[r] = "down"
      BY <3>2, <3>4
    <3> QED
      BY <3>4, <3>5, <3>6, <3>7
  <2>4. ASSUME UNCHANGED <<mpReadNotifyList, popped, readSem, pc, stale>>
        PROVE  OneTicket'
    BY <2>4 DEF TicketInv, OneTicket
  <2>5. ASSUME NEW m \in Tids, ReadCallback(m) PROVE OneTicket'
    BY <2>4, <2>5, NotifyKeepsTickets DEF ReadCallback, Notifiers
  <2>6. ASSUME ReleaseLoop, ctx["ReleaseClientID"] # "notify" PROVE OneTicket'
    BY <2>4, <2>6, NotifyKeepsTickets DEF ReleaseLoop, Notifiers
  <2>7. CASE ReadCallbackReturn
    BY <2>4, <2>7 DEF ReadCallbackReturn
  <2>8. CASE UNCHANGED vars
    BY <2>4, <2>8 DEF vars
  <2> QED
    BY <2>1, <2>2, <2>3, <2>5, <2>6, <2>7, <2>8
    DEF Next, ReadSync, Woken, ReleaseClientID, ReleaseContinue
<1>3. Spec => []NotifierHolds
  BY SleeperInvariant, PTL DEF SleeperInv
<1> QED
  BY <1>1, <1>2, <1>3, TypeCorrect, PTL DEF Spec

\* Without signals no up() reaches a semaphore whose ReadSync has returned.
THEOREM NoSignalNoDanglingSem ==
    ASSUME Interruptible = {}
    PROVE  Spec => []NoDanglingSem
<1>1. TicketInv => NoDanglingSem
  BY DEF TicketInv, OneTicket, NoDanglingSem
<1> QED
  BY <1>1, Tickets, PTL

\* Without signals the notify list names only readers still in ReadSync, and
\* none of them twice.
THEOREM NoSignalWaitersAreInside ==
    ASSUME Interruptible = {}
    PROVE  Spec => []WaitersAreInside
<1>1. TicketInv => WaitersAreInside
  BY DEF TicketInv, OneTicket, WaitersAreInside
<1> QED
  BY <1>1, Tickets, PTL

-----------------------------------------------------------------------------
(* No wake-up is lost, as long as no signal interferes and the readers of  *)
(* one client either all ask for any message or all ask for their own.     *)

\* The driver's two kinds of clients: UserspaceRead always asks for any
\* message (0), the driver's own requests for the answer to their own ID.
UniformReaders ==
    \A r, q \in Readers : TransactionOf[r] = 0 <=> TransactionOf[q] = 0

\* Positions of the messages in s that answer a request for tid.
Hits(s, tid) == {i \in DOMAIN s : Wanted(tid, s[i])}

LEMMA HitsFinite ==
    ASSUME NEW S, NEW s \in Seq(S), NEW tid
    PROVE  IsFiniteSet(Hits(s, tid)) /\ Cardinality(Hits(s, tid)) \in Nat
<1>1. IsFiniteSet(1 .. Len(s))
  BY FS_Interval
<1>2. Hits(s, tid) \in SUBSET (1 .. Len(s))
  BY DEF Hits
<1> QED
  BY <1>1, <1>2, FS_Subset, FS_CardinalityType

\* A message that is taken leaves one hit less for everybody who wanted it,
\* and no more hits for anybody.
LEMMA HitsAfterRemove ==
    ASSUME NEW S, NEW s \in Seq(S), NEW i \in 1 .. Len(s), NEW tid
    PROVE  Cardinality(Hits(RemoveAt(s, i), tid)) <=
               IF Wanted(tid, s[i]) THEN Cardinality(Hits(s, tid)) - 1
                                    ELSE Cardinality(Hits(s, tid))
<1> DEFINE H == Hits(s, tid)
           G == Hits(RemoveAt(s, i), tid)
           old == [j \in G |-> IF j < i THEN j ELSE j + 1]
<1>1. IsFiniteSet(H) /\ Cardinality(H) \in Nat
  BY HitsFinite
<1>2. i \in H <=> Wanted(tid, s[i])
  BY DEF Hits
<1>3. /\ IsFiniteSet(H \ {i})
      /\ Cardinality(H \ {i}) =
             IF i \in H THEN Cardinality(H) - 1 ELSE Cardinality(H)
  BY <1>1, FS_RemoveElement
<1>4. G \subseteq 1 .. Len(s) - 1
  BY RemoveAtFacts DEF Hits
<1>5. ASSUME NEW j \in G PROVE old[j] \in H \ {i}
  <2>1. j \in 1 .. Len(s) - 1 /\ Wanted(tid, RemoveAt(s, i)[j])
    BY <1>4 DEF Hits
  <2>2. RemoveAt(s, i)[j] = s[old[j]]
    BY <2>1, RemoveAtShift
  <2>3. old[j] \in 1 .. Len(s) /\ old[j] # i
    BY <2>1
  <2> QED
    BY <2>1, <2>2, <2>3 DEF Hits
<1>6. \A j, k \in G : old[j] = old[k] => j = k
  BY <1>4
<1>7. old \in Injection(G, H \ {i})
  BY <1>5, <1>6 DEF Injection, IsInjective
<1>8. Cardinality(G) <= Cardinality(H \ {i})
  BY <1>3, <1>7, FS_Injection
<1> QED
  BY <1>1, <1>2, <1>3, <1>8

\* A new message is one more hit for those who want it, none for the others.
LEMMA HitsAfterAppend ==
    ASSUME NEW S, NEW s \in Seq(S), NEW m \in S, NEW tid
    PROVE  Cardinality(Hits(Append(s, m), tid)) =
               IF Wanted(tid, m) THEN Cardinality(Hits(s, tid)) + 1
                                 ELSE Cardinality(Hits(s, tid))
<1> DEFINE n == Len(s) + 1
<1>1. n \notin Hits(s, tid)
  BY DEF Hits
<1>2. CASE Wanted(tid, m)
  <2>1. Hits(Append(s, m), tid) = Hits(s, tid) \cup {n}
    BY <1>2 DEF Hits
  <2> QED
    BY <1>1, <1>2, <2>1, HitsFinite, FS_AddElement
<1>3. CASE ~Wanted(tid, m)
  <2>1. Hits(Append(s, m), tid) = Hits(s, tid)
    BY <1>3 DEF Hits
  <2> QED
    BY <1>3, <2>1
<1> QED
  BY <1>2, <1>3
-----------------------------------------------------------------------------
WakeInv == TicketInv /\ NoWaiterOutlivesClient /\ NoLostWakeup

LEMMA AwakeFinite ==
    ASSUME NEW tid
    PROVE  /\ IsFiniteSet(AwakeFor(tid)) /\ Cardinality(AwakeFor(tid)) \in Nat
           /\ IsFiniteSet(AwakeFor(tid)') /\ Cardinality(AwakeFor(tid)') \in Nat
<1>1. AwakeFor(tid) \in SUBSET Readers /\ AwakeFor(tid)' \in SUBSET Readers
  BY DEF AwakeFor
<1> QED
  BY <1>1, FS_Subset, FS_CardinalityType, ReadStoreAssumption

\* What NoLostWakeup says about one entry of the list.
Served(tid) == Cardinality(Hits(mpList, tid)) <= Cardinality(AwakeFor(tid))

LEMMA ServedNow ==
    ASSUME NoLostWakeup, NEW i \in DOMAIN mpReadNotifyList
    PROVE  Served(TransactionOf[mpReadNotifyList[i]])
  BY DEF NoLostWakeup, Served, WaitingMessages, Hits

LEMMA ServedNext ==
    ASSUME \A i \in DOMAIN mpReadNotifyList' : \A tid :
               tid = TransactionOf[mpReadNotifyList'[i]] => Served(tid)'
    PROVE  NoLostWakeup'
  BY DEF NoLostWakeup, Served, WaitingMessages, Hits

\* Where no message appears and no wake-up disappears, nothing is lost.
LEMMA StillServed ==
    ASSUME TypeOK, NEW tid, Served(tid),
           AwakeFor(tid) \subseteq AwakeFor(tid)', mpList' = mpList
    PROVE  Served(tid)'
<1>1. Cardinality(Hits(mpList, tid)) \in Nat
  BY HitsFinite DEF TypeOK
<1>2. Cardinality(AwakeFor(tid)) <= Cardinality(AwakeFor(tid)')
  BY AwakeFinite, FS_Subset
<1> QED
  BY <1>1, <1>2, AwakeFinite DEF Served

\* A list without a message for tid serves everybody who asks for tid.
LEMMA NothingToServe ==
    ASSUME TypeOK, NEW tid, ~HasData(tid), mpList' = mpList
    PROVE  Served(tid)'
<1>1. Hits(mpList, tid) = {}
  BY DEF HasData, Hits
<1>2. Cardinality(Hits(mpList, tid)) = 0
  BY <1>1, FS_EmptySet
<1> QED
  BY <1>2, AwakeFinite DEF Served

\* Readers that stay where they are stay awake.
LEMMA AwakeStays ==
    ASSUME OneTicket, OneTicket', NEW r \in Readers, NEW tid,
           readSem' = [readSem EXCEPT ![r] = 0], readSem \in [Readers -> Nat],
           UNCHANGED popped
    PROVE  /\ AwakeFor(tid) \ {r} \subseteq AwakeFor(tid)'
           /\ TransactionOf[r] # tid => AwakeFor(tid) \subseteq AwakeFor(tid)'
<1>1. \A q \in Readers : q # r /\ Awake(q) => Awake(q)'
  BY DEF Awake, BeingNotified, OneTicket
<1> QED
  BY <1>1 DEF AwakeFor

\* A reader that takes a message accounts for it.
LEMMA TakeKeepsServed ==
    ASSUME WakeInv, OneTicket', NEW r \in Readers, TakeMessage(r), NEW tid,
           readSem' = [readSem EXCEPT ![r] = 0], UNCHANGED popped,
           Served(tid)
    PROVE  Served(tid)'
<1>1. PICK i \in DOMAIN mpList :
         Wanted(TransactionOf[r], mpList[i]) /\ mpList' = RemoveAt(mpList, i)
  BY DEF TakeMessage, PopFromReadMemList
<1>2. mpList \in Seq(Tids) /\ i \in 1 .. Len(mpList)
  BY DEF WakeInv, TicketInv, TypeOK
<1>3. Cardinality(Hits(mpList', tid)) <=
          IF Wanted(tid, mpList[i]) THEN Cardinality(Hits(mpList, tid)) - 1
                                    ELSE Cardinality(Hits(mpList, tid))
  BY <1>1, <1>2, HitsAfterRemove
<1>4. /\ Cardinality(Hits(mpList, tid)) \in Nat
      /\ Cardinality(Hits(mpList', tid)) \in Nat
  <2>1. mpList' \in Seq(Tids)
    BY <1>1, <1>2, RemoveAtFacts
  <2> QED
    BY <1>2, <2>1, HitsFinite
<1>5. readSem \in [Readers -> Nat] /\ OneTicket
  BY DEF WakeInv, TicketInv, TypeOK
<1>6. CASE TransactionOf[r] = tid
  <2>1. Cardinality(AwakeFor(tid) \ {r}) >= Cardinality(AwakeFor(tid)) - 1
    <3>1. Cardinality(AwakeFor(tid)) \in Nat /\ IsFiniteSet(AwakeFor(tid))
      BY AwakeFinite
    <3>2. \/ Cardinality(AwakeFor(tid) \ {r}) = Cardinality(AwakeFor(tid)) - 1
          \/ Cardinality(AwakeFor(tid) \ {r}) = Cardinality(AwakeFor(tid))
      BY <3>1, FS_RemoveElement
    <3> QED
      BY <3>1, <3>2
  <2>2. Cardinality(AwakeFor(tid) \ {r}) <= Cardinality(AwakeFor(tid)')
    BY <1>5, AwakeStays, AwakeFinite, FS_Subset
  <2>3. /\ IsFiniteSet(AwakeFor(tid) \ {r})
        /\ Cardinality(AwakeFor(tid) \ {r}) \in Nat
    BY FS_RemoveElement, FS_CardinalityType, AwakeFinite
  <2> QED
    BY <1>1, <1>3, <1>4, <1>6, <2>1, <2>2, <2>3, AwakeFinite DEF Served
<1>7. CASE TransactionOf[r] # tid
  <2>1. Cardinality(AwakeFor(tid)) <= Cardinality(AwakeFor(tid)')
    BY <1>5, <1>7, AwakeStays, AwakeFinite, FS_Subset
  <2> QED
    BY <1>3, <1>4, <2>1, AwakeFinite DEF Served
<1> QED
  BY <1>6, <1>7

\* One iteration of ReadSync's loop.
LEMMA ReadLoopKeepsServed ==
    ASSUME WakeInv, OneTicket', NEW r \in Readers, ReadLoop(r)
    PROVE  NoLostWakeup'
<1> DEFINE L == mpReadNotifyList
<1>1. SUFFICES ASSUME NEW i \in DOMAIN L', NEW tid, tid = TransactionOf[L'[i]]
               PROVE  Served(tid)'
  BY ServedNext
<1>2. /\ TypeOK /\ OneTicket /\ NoLostWakeup /\ NoWaiterOutlivesClient
      /\ readSem \in [Readers -> Nat] /\ L \in Seq(Readers)
  BY DEF WakeInv, TicketInv, TypeOK
<1>3. readSem' = [readSem EXCEPT ![r] = 0] /\ UNCHANGED popped
  BY DEF ReadLoop
<1>4. CASE TakeMessage(r)
  <2>1. Served(tid)
    BY <1>1, <1>2, <1>4, ServedNow DEF TakeMessage
  <2> QED
    BY <1>3, <1>4, <2>1, TakeKeepsServed
<1>5. ASSUME ~HasData(TransactionOf[r]), mpList' = mpList,
             L'[i] = r \/ (i \in DOMAIN L /\ L'[i] = L[i])
      PROVE  Served(tid)'
  <2>1. CASE tid = TransactionOf[r]
    BY <1>2, <1>5, <2>1, NothingToServe
  <2>2. CASE tid # TransactionOf[r]
    <3>1. Served(tid)
      BY <1>1, <1>2, <1>5, <2>2, ServedNow
    <3>2. AwakeFor(tid) \subseteq AwakeFor(tid)'
      BY <1>2, <1>3, <2>2, AwakeStays
    <3> QED
      BY <1>2, <1>5, <3>1, <3>2, StillServed
  <2> QED
    BY <2>1, <2>2
<1>6. CASE AddToNotifyList(r)
  <2>1. L' = Append(L, r)
    BY <1>6 DEF AddToNotifyList
  <2>2. L'[i] = r \/ (i \in DOMAIN L /\ L'[i] = L[i])
    BY <1>1, <1>2, <2>1
  <2> QED
    BY <1>5, <1>6, <2>2 DEF AddToNotifyList
<1>7. CASE ReturnError(r)
  <2>1. i \in DOMAIN L /\ L' = L
    BY <1>7 DEF ReturnError
  <2>2. clientMem = "listed"
    BY <1>2, <2>1 DEF NoWaiterOutlivesClient, TypeOK
  <2> QED
    BY <1>5, <1>7, <2>1, <2>2 DEF ReturnError
<1> QED
  BY <1>4, <1>6, <1>7 DEF ReadLoop

\* Where nothing but wake-ups move, awake readers stay awake.
LEMMA NotifyKeepsAwake ==
    ASSUME WakeInv, OneTicket', NEW n \in Notifiers, ctx[n] # "notify",
           NEW m, NotifyAndPopNotifyList(n, m), UNCHANGED readSem
    PROVE  \E i \in DOMAIN mpReadNotifyList, w \in Readers :
             /\ w = mpReadNotifyList[i] /\ ToNotify(m, w)
             /\ mpReadNotifyList' = RemoveAt(mpReadNotifyList, i)
             /\ ~Awake(w) /\ Awake(w)'
             /\ \A q \in Readers : Awake(q) => Awake(q)'
<1>1. PICK i \in DOMAIN mpReadNotifyList :
         /\ ToNotify(m, mpReadNotifyList[i])
         /\ mpReadNotifyList' = RemoveAt(mpReadNotifyList, i)
         /\ popped' = [popped EXCEPT ![n] = mpReadNotifyList[i]]
  BY DEF NotifyAndPopNotifyList
<1>2. /\ stale = {} /\ stale' = {} /\ popped[n] = NoReader
      /\ popped \in [Notifiers -> Readers \cup {NoReader}]
      /\ NoReader \notin Readers
  BY ReadStoreAssumption DEF WakeInv, TicketInv, OneTicket, TypeOK, NotifierHolds
<1>3. PICK w \in Readers : w = mpReadNotifyList[i]
  BY DEF WakeInv, TicketInv, TypeOK
<1>4. popped'[n] = w /\ \A k \in Notifiers : k # n => popped'[k] = popped[k]
  BY <1>1, <1>2, <1>3
<1>5. ~Awake(w)
  BY <1>3 DEF WakeInv, TicketInv, OneTicket, Awake, BeingNotified
<1>6. Awake(w)'
  BY <1>2, <1>4 DEF Awake, BeingNotified
<1>7. \A q \in Readers : Awake(q) => Awake(q)'
  BY <1>2, <1>4 DEF Awake, BeingNotified
<1> QED
  BY <1>1, <1>3, <1>5, <1>6, <1>7

\* A message is stored and the first reader it may be for is notified.
LEMMA ReadCallbackKeepsServed ==
    ASSUME UniformReaders, WakeInv, OneTicket', NEW m \in Tids, ReadCallback(m)
    PROVE  NoLostWakeup'
<1> DEFINE L == mpReadNotifyList
<1>1. SUFFICES ASSUME NEW i \in DOMAIN L', NEW tid, tid = TransactionOf[L'[i]]
               PROVE  Served(tid)'
  BY ServedNext
<1>2. /\ TypeOK /\ OneTicket /\ NoLostWakeup
      /\ mpList \in Seq(Tids) /\ L \in Seq(Readers)
      /\ Tids \subseteq Nat /\ TransactionOf \in [Readers -> Nat]
  BY ReadStoreAssumption DEF WakeInv, TicketInv, TypeOK
<1>3. Cardinality(Hits(mpList', tid)) =
          IF Wanted(tid, m) THEN Cardinality(Hits(mpList, tid)) + 1
                            ELSE Cardinality(Hits(mpList, tid))
  BY <1>2, HitsAfterAppend DEF ReadCallback
<1>4. Cardinality(Hits(mpList, tid)) \in Nat
  BY <1>2, HitsFinite
<1>5. CASE NotifyAndPopNotifyList("ReadCallback", m)
  <2>1. PICK k \in DOMAIN L, w \in Readers :
            /\ w = L[k] /\ ToNotify(m, w) /\ L' = RemoveAt(L, k)
            /\ ~Awake(w) /\ Awake(w)'
            /\ \A q \in Readers : Awake(q) => Awake(q)'
    BY <1>5, NotifyKeepsAwake DEF ReadCallback, Notifiers
  <2>2. PICK j \in DOMAIN L : L'[i] = L[j]
    <3>1. k \in 1 .. Len(L) /\ i \in 1 .. Len(L) - 1
      <4>1. k \in 1 .. Len(L)
        BY <1>2, <2>1
      <4>2. RemoveAt(L, k) \in Seq(Readers) /\ Len(RemoveAt(L, k)) = Len(L) - 1
        BY <1>2, <4>1, RemoveAtFacts
      <4> QED
        BY <1>1, <2>1, <4>1, <4>2
    <3>2. L'[i] = L[IF i < k THEN i ELSE i + 1]
      BY <1>2, <2>1, <3>1, RemoveAtShift
    <3> QED
      BY <1>2, <3>1, <3>2, SMTT(20)
  <2>3. Served(tid)
    BY <1>1, <1>2, <2>2, ServedNow
  <2>4. AwakeFor(tid) \subseteq AwakeFor(tid)'
    BY <2>1 DEF AwakeFor
  <2>5. Cardinality(AwakeFor(tid)) <= Cardinality(AwakeFor(tid)')
    BY <2>4, AwakeFinite, FS_Subset
  <2>6. CASE Wanted(tid, m)
    <3>1. TransactionOf[w] = tid
      BY <1>1, <1>2, <2>1, <2>2, <2>6 DEF UniformReaders, Wanted, ToNotify
    <3>2. w \in AwakeFor(tid)' /\ w \notin AwakeFor(tid)
      BY <2>1, <3>1 DEF AwakeFor
    <3>3. Cardinality(AwakeFor(tid) \cup {w}) = Cardinality(AwakeFor(tid)) + 1
      BY <3>2, AwakeFinite, FS_AddElement
    <3>4. Cardinality(AwakeFor(tid) \cup {w}) <= Cardinality(AwakeFor(tid)')
      BY <2>4, <3>2, AwakeFinite, FS_Subset
    <3> QED
      BY <1>3, <1>4, <2>3, <2>6, <3>3, <3>4, AwakeFinite DEF Served
  <2>7. CASE ~Wanted(tid, m)
    BY <1>3, <1>4, <2>3, <2>5, <2>7, AwakeFinite DEF Served
  <2> QED
    BY <2>6, <2>7
<1>6. CASE NobodyToNotify(m) /\ UNCHANGED <<L, ctx, popped>>
  <2>1. Served(tid)
    BY <1>1, <1>2, <1>6, ServedNow
  <2>2. ~Wanted(tid, m)
    BY <1>1, <1>2, <1>6 DEF NobodyToNotify, ToNotify, Wanted
  <2>3. AwakeFor(tid)' = AwakeFor(tid)
    BY <1>6 DEF ReadCallback, AwakeFor, Awake, BeingNotified
  <2> QED
    BY <1>3, <2>1, <2>2, <2>3 DEF Served
<1> QED
  BY <1>5, <1>6 DEF ReadCallback

\* No wake-up is lost (NoLostWakeup): as long as a reader sleeps in the notify
\* list, every message it could take has woken another reader like it.
THEOREM WakeupsAreNotLost ==
    ASSUME Interruptible = {}, UniformReaders
    PROVE  Spec => []NoLostWakeup
<1>1. Init => NoLostWakeup
  BY DEF Init, NoLostWakeup
<1>2. ASSUME WakeInv, TicketInv', [Next]_vars PROVE NoLostWakeup'
  <2>1. OneTicket' /\ OneTicket /\ TypeOK
    BY <1>2 DEF WakeInv, TicketInv
  <2>2. ASSUME UNCHANGED <<mpList, mpReadNotifyList>>,
               \A q \in Readers : Awake(q) => Awake(q)'
        PROVE  NoLostWakeup'
    <3>1. SUFFICES ASSUME NEW i \in DOMAIN mpReadNotifyList', NEW tid,
                          tid = TransactionOf[mpReadNotifyList'[i]]
                   PROVE  Served(tid)'
      BY ServedNext
    <3>2. Served(tid)
      BY <1>2, <2>2, <3>1, ServedNow DEF WakeInv
    <3> QED
      BY <2>1, <2>2, <3>2, StillServed DEF AwakeFor
  <2>3. ASSUME NEW r \in Readers PROVE ~Interrupt(r) /\ ~CancelRead(r)
    BY <2>1 DEF Interrupt, CancelRead, OneTicket
  <2>4. ASSUME NEW n \in Notifiers, UpSem(n) PROVE NoLostWakeup'
    <3>1. \A q \in Readers : Awake(q) => Awake(q)'
      BY <2>1, <2>4 DEF UpSem, Awake, BeingNotified, OneTicket, TypeOK
    <3> QED
      BY <2>2, <2>4, <3>1 DEF UpSem
  <2>5. ASSUME ReleaseLoop, ctx["ReleaseClientID"] # "notify" PROVE NoLostWakeup'
    <3>1. SUFFICES ASSUME NEW i \in DOMAIN mpReadNotifyList', NEW tid,
                          tid = TransactionOf[mpReadNotifyList'[i]]
                   PROVE  Served(tid)'
      BY ServedNext
    <3>2. /\ NotifyAndPopNotifyList("ReleaseClientID", 0)
          /\ UNCHANGED <<clientMem, mpList, readSem>>
      BY <2>5, <3>1 DEF ReleaseLoop
    <3>3. PICK k \in DOMAIN mpReadNotifyList :
              /\ mpReadNotifyList' = RemoveAt(mpReadNotifyList, k)
              /\ \A q \in Readers : Awake(q) => Awake(q)'
      BY <1>2, <2>1, <2>5, <3>2, NotifyKeepsAwake DEF Notifiers
    <3>4. PICK j \in DOMAIN mpReadNotifyList :
              mpReadNotifyList'[i] = mpReadNotifyList[j]
      <4>1. /\ mpReadNotifyList \in Seq(Readers)
            /\ k \in 1 .. Len(mpReadNotifyList)
        BY <2>1 DEF TypeOK
      <4>2. i \in 1 .. Len(mpReadNotifyList) - 1
        BY <3>1, <3>3, <4>1, RemoveAtFacts
      <4>3. mpReadNotifyList'[i] = mpReadNotifyList[IF i < k THEN i ELSE i + 1]
        BY <3>3, <4>1, <4>2, RemoveAtShift
      <4> QED
        BY <4>1, <4>2, <4>3
    <3>5. Served(tid)
      BY <1>2, <3>1, <3>4, ServedNow DEF WakeInv
    <3> QED
      BY <2>1, <3>2, <3>3, <3>5, StillServed DEF AwakeFor
  <2>6. CASE ReadCallbackReturn \/ UNCHANGED vars
    BY <2>2, <2>6 DEF ReadCallbackReturn, vars, Awake, BeingNotified
  <2> QED
    BY <1>2, <2>1, <2>3, <2>4, <2>5, <2>6, ReadLoopKeepsServed,
       ReadCallbackKeepsServed
    DEF Next, ReadSync, Woken, ReleaseClientID, ReleaseContinue
<1>3. TicketInv /\ NoWaiterOutlivesClient /\ NoLostWakeup /\ TicketInv'
      /\ [Next]_vars => NoLostWakeup'
  BY <1>2 DEF WakeInv
<1> QED
  BY <1>1, <1>3, Tickets, NoWaiterLeft, PTL DEF Spec

-----------------------------------------------------------------------------
(* The mail box.                                                           *)

\* Between two critical sections of ReleaseClientID the client is still there,
\* and a client that is not has no messages.
MailInv ==
    /\ ctx["ReleaseClientID"] # "idle" => clientMem = "listed"
    /\ clientMem = "released" => mpList = <<>>

\* The first message that r wants is the one at i.
LEMMA FirstMail ==
    ASSUME NEW r \in Readers, mpList \in Seq(Tids), NEW i \in DOMAIN mpList,
           Wanted(TransactionOf[r], mpList[i]),
           \A j \in 1 .. i - 1 : ~Wanted(TransactionOf[r], mpList[j])
    PROVE  Promise!RemoveFirstMatch(mpList, LAMBDA m : Promise!Wanted(r, m))
               = RemoveAt(mpList, i)
<1> DEFINE I == {k \in 1 .. Len(mpList) : Promise!Wanted(r, mpList[k])}
<1>1. i \in I /\ \A k \in I : i <= k
  BY DEF Wanted, Promise!Wanted
<1>2. Promise!Min(I) = i
  BY <1>1 DEF Promise!Min
<1>3. Promise!SelectInSeq(mpList, LAMBDA m : Promise!Wanted(r, m)) = i
  BY <1>1, <1>2 DEF Promise!SelectInSeq
<1>4. \E k \in 1 .. Len(mpList) : Promise!Wanted(r, mpList[k])
  BY <1>1
<1> QED BY <1>3, <1>4 DEF Promise!RemoveFirstMatch, Promise!RemoveAt, RemoveAt

\* MailBox and ReadSync mean the same by a message for r.
LEMMA MailOrNot ==
    ASSUME NEW r \in Readers
    PROVE  Promise!HasMail(r) <=> HasData(TransactionOf[r])
  BY DEF Promise!HasMail, HasData, Promise!Wanted, Wanted

\* The body of ReadSync's loop takes, blocks or gives up.
LEMMA ReadLoopIsMail ==
    ASSUME TypeOK, MailInv, NEW r \in Readers, pc[r] # "interrupted", ReadLoop(r)
    PROVE  Promise!Next \/ UNCHANGED Promise!vars
<1> DEFINE down == {x \in Readers : pc[x] = "down"}
<1>0. UNCHANGED clientMem /\ pc \in [Readers -> {"idle", "down", "interrupted"}]
  BY DEF TypeOK, ReadLoop
<1>1. CASE TakeMessage(r)
  <2>1. PICK i \in DOMAIN mpList :
             /\ Wanted(TransactionOf[r], mpList[i])
             /\ \A j \in 1 .. i - 1 : ~Wanted(TransactionOf[r], mpList[j])
             /\ mpList' = RemoveAt(mpList, i)
    BY <1>1 DEF TakeMessage, PopFromReadMemList
  <2>2. mpList' = Promise!RemoveFirstMatch(mpList, LAMBDA m : Promise!Wanted(r, m))
    BY <2>1, FirstMail DEF TypeOK
  <2>3. Promise!HasMail(r)
    BY <2>1, MailOrNot DEF HasData
  <2>4. down' = down \ {r}
    BY <1>0, <1>1 DEF TakeMessage, Return
  <2>5. Promise!Take(r)
    BY <1>0, <2>2, <2>3, <2>4 DEF Promise!Take
  <2> QED BY <2>5 DEF Promise!Next
<1>2. CASE AddToNotifyList(r)
  <2>1. down' = down \cup {r} /\ clientMem = "listed" /\ ~Promise!HasMail(r)
    BY <1>0, <1>2, MailOrNot DEF AddToNotifyList
  <2>2. Promise!Block(r)
    BY <1>0, <1>2, <2>1 DEF Promise!Block, AddToNotifyList
  <2> QED BY <2>2 DEF Promise!Next
<1>3. CASE ReturnError(r)
  <2>1. ~HasData(TransactionOf[r])
    BY <1>0, <1>3 DEF ReturnError, MailInv, TypeOK, HasData
  <2>2. down' = down \ {r}
    BY <1>0, <1>3 DEF ReturnError, Return
  <2>3. Promise!GiveUp(r)
    BY <1>0, <1>3, <2>1, <2>2, MailOrNot DEF Promise!GiveUp, ReturnError
  <2> QED BY <2>3 DEF Promise!Next
<1> QED BY <1>1, <1>2, <1>3 DEF ReadLoop

\* Each step of ReadStore is a step of the mail box or none.
LEMMA MailStep ==
    ASSUME TypeOK, MailInv, [Next]_vars
    PROVE  /\ MailInv'
           /\ Promise!Next \/ UNCHANGED Promise!vars
<1>0. \A n : n = "ReleaseClientID" => n \in Notifiers
  BY DEF Notifiers
<1>1. CASE UNCHANGED vars
  BY <1>1 DEF vars, MailInv, Promise!vars
<1>2. ASSUME NEW r \in Readers, ReadSync(r) \/ Woken(r)
      PROVE  /\ MailInv'
             /\ Promise!Next \/ UNCHANGED Promise!vars
  <2>1. ReadLoop(r) /\ pc[r] # "interrupted"
    BY <1>2 DEF ReadSync, Woken
  <2>2. UNCHANGED <<clientMem, ctx>>
    BY <2>1 DEF ReadLoop
  <2>3. clientMem = "released" => mpList' = mpList
    BY <2>1 DEF ReadLoop, TakeMessage, AddToNotifyList, ReturnError
  <2> QED BY <2>1, <2>2, <2>3, ReadLoopIsMail DEF MailInv
<1>3. ASSUME NEW r \in Readers, Interrupt(r)
      PROVE  /\ MailInv'
             /\ Promise!Next \/ UNCHANGED Promise!vars
  <2>1. {x \in Readers : pc[x] = "down"}' = {x \in Readers : pc[x] = "down"} \ {r}
    BY <1>3 DEF Interrupt, TypeOK
  <2>2. Promise!Leave(r)
    BY <1>3, <2>1 DEF Interrupt, Promise!Leave
  <2> QED BY <1>3, <2>2 DEF Interrupt, MailInv, Promise!Next
<1>4. ASSUME NEW r \in Readers, CancelRead(r)
      PROVE  /\ MailInv'
             /\ Promise!Next \/ UNCHANGED Promise!vars
  <2>1. {x \in Readers : pc[x] = "down"}' = {x \in Readers : pc[x] = "down"}
    BY <1>4 DEF CancelRead, Return, TypeOK
  <2> QED BY <1>4, <2>1 DEF CancelRead, MailInv, Promise!vars
<1>5. ASSUME NEW n \in Notifiers, UpSem(n)
      PROVE  /\ MailInv'
             /\ Promise!Next \/ UNCHANGED Promise!vars
  <2>1. ctx'["ReleaseClientID"] # "idle" => ctx["ReleaseClientID"] # "idle"
    BY <1>0, <1>5 DEF UpSem, TypeOK
  <2> QED BY <1>5, <2>1 DEF UpSem, MailInv, Promise!vars
<1>6. ASSUME NEW m \in Tids, ReadCallback(m)
      PROVE  /\ MailInv'
             /\ Promise!Next \/ UNCHANGED Promise!vars
  <2>1. Promise!Put(m)
    BY <1>6 DEF ReadCallback, Promise!Put
  <2> QED BY <1>6, <2>1 DEF ReadCallback, MailInv, Promise!Next
<1>7. CASE ReadCallbackReturn
  <2>1. ctx'["ReleaseClientID"] = ctx["ReleaseClientID"]
    BY <1>0, <1>7 DEF ReadCallbackReturn, TypeOK
  <2> QED BY <1>7, <2>1 DEF ReadCallbackReturn, MailInv, Promise!vars
<1>8. CASE ReleaseClientID \/ ReleaseContinue
  <2>1. clientMem = "listed" /\ ReleaseLoop /\ UNCHANGED pc
    BY <1>8 DEF ReleaseClientID, ReleaseContinue, ReleaseLoop, MailInv
  <2>2. CASE UNCHANGED <<clientMem, mpList>>
    BY <2>1, <2>2 DEF MailInv, Promise!vars
  <2>3. CASE /\ clientMem' = "released" /\ mpList' = <<>>
             /\ ctx' = [ctx EXCEPT !["ReleaseClientID"] = "idle"]
    <3>1. Promise!Close
      BY <2>1, <2>3 DEF Promise!Close
    <3> QED BY <1>0, <2>3, <3>1 DEF MailInv, TypeOK, Promise!Next
  <2> QED BY <2>1, <2>2, <2>3 DEF ReleaseLoop
<1> QED BY <1>1, <1>2, <1>3, <1>4, <1>5, <1>6, <1>7, <1>8 DEF Next

\* ReadSync keeps its promise, for any readers, requests and bounds, and with
\* signals: whatever ReadStore does is what a mail box may do.
THEOREM ReadsLikeMailBox == Spec => Promise!Safety
<1>1. Init => MailInv /\ Promise!Init
  BY DEF Init, MailInv, Promise!Init, Notifiers
<1>2. TypeOK /\ MailInv /\ [Next]_vars => MailInv' /\ [Promise!Next]_(Promise!vars)
  BY MailStep
<1> QED BY <1>1, <1>2, TypeCorrect, PTL DEF Spec, Promise!Safety
=============================================================================
