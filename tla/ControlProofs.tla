---------------------------- MODULE ControlProofs ----------------------------
(***************************************************************************)
(* Proofs about Control, for any number of callers, transaction numbers,   *)
(* rounds and answers: two requests that wait have different numbers,      *)
(* nobody takes the answer of another, and QMIReady leaves nothing behind. *)
(***************************************************************************)
EXTENDS Control, WellFoundedInduction, TLAPS

-----------------------------------------------------------------------------
(* Numbers, and the lists.                                                 *)

\* Two values of the counter with the same number are all numbers apart.
LEMMA SameNumber ==
    ASSUME NEW a \in Nat, NEW b \in Nat, Number(a) = Number(b), a > b
    PROVE  a - b >= Numbers
<1>1. Numbers \in Nat /\ Numbers > 0
      BY ControlAssumption
<1> DEFINE q == a \div Numbers
           p == b \div Numbers
<1>2. a = Numbers * q + Number(a) /\ q \in Int
      BY <1>1 DEF Number
<1>3. b = Numbers * p + Number(b) /\ p \in Int
      BY <1>1 DEF Number
<1> HIDE DEF q, p
<1>4. Number(a) \in Nat
      BY <1>1 DEF Number
<1>5. Numbers * q > Numbers * p
      BY <1>1, <1>2, <1>3, <1>4
<1>6. q > p
      BY <1>1, <1>2, <1>3, <1>5
<1>7. Numbers * q >= Numbers * (p + 1)
      BY <1>1, <1>2, <1>3, <1>6
<1>8. Numbers * (p + 1) = Numbers * p + Numbers
      BY <1>1, <1>3
<1> QED  BY <1>1, <1>2, <1>3, <1>4, <1>7, <1>8

LEMMA SameNumberApart ==
    ASSUME NEW a \in Nat, NEW b \in Nat, Number(a) = Number(b), a # b
    PROVE  a - b \notin 1 - Numbers .. Numbers - 1
<1>1. Numbers \in Nat
      BY ControlAssumption
<1>2. CASE a > b
      BY <1>1, <1>2, SameNumber
<1>3. CASE b > a
  <2>1. b - a >= Numbers
        BY <1>3, SameNumber
  <2> QED  BY <1>1, <2>1
<1> QED  BY <1>2, <1>3

\* A value of the counter that is no multiple of Numbers has a number.
LEMMA SmallNumber ==
    ASSUME NEW a \in Nat, 0 < a, a < Numbers
    PROVE  Number(a) = a
BY ControlAssumption DEF Number

LEMMA NumberOfZero == Number(0) = 0
BY ControlAssumption DEF Number

LEMMA MinFacts ==
    ASSUME NEW T \in SUBSET Nat, T # {}
    PROVE  Min(T) \in T
<1>1. PICK n \in T : \A m \in T : <<m, n>> \notin OpToRel(<, Nat)
      BY NatLessThanWellFounded, WFMin
<1>2. \A m \in T : ~(m < n)
      BY <1>1 DEF OpToRel
<1>3. \E k \in T : \A m \in T : k <= m
      BY <1>2
<1> QED  BY <1>3 DEF Min

\* FirstEntry is 0 when no entry matches, and otherwise the place of one that does.
LEMMA FirstEntryFacts ==
    ASSUME NEW r
    PROVE  \/ /\ FirstEntry(r) = 0
              /\ \A i \in 1 .. Len(mpReadNotifyList) : ~Matches(mpReadNotifyList[i], r)
           \/ FirstEntry(r) \in 1 .. Len(mpReadNotifyList) /\ FirstEntry(r) # 0
<1> DEFINE I == {i \in 1 .. Len(mpReadNotifyList) : Matches(mpReadNotifyList[i], r)}
<1>1. FirstEntry(r) = IF I # {} THEN Min(I) ELSE 0
      BY DEF FirstEntry, SelectInSeq
<1>2. I \in SUBSET Nat
      OBVIOUS
<1>3. I # {} => Min(I) \in I
      BY <1>2, MinFacts
<1> QED  BY <1>1, <1>3

\* The same of FirstAnswer.
LEMMA FirstAnswerFacts ==
    ASSUME NEW r, Has(r)
    PROVE  /\ FirstAnswer(r) \in 1 .. Len(mpList)
           /\ Wanted(r, mpList[FirstAnswer(r)])
<1> DEFINE I == {i \in 1 .. Len(mpList) : Wanted(r, mpList[i])}
<1>1. FirstAnswer(r) = IF I # {} THEN Min(I) ELSE 0
      BY DEF FirstAnswer, SelectInSeq
<1>2. I \in SUBSET Nat
      OBVIOUS
<1>3. I # {} => Min(I) \in I
      BY <1>2, MinFacts
<1> QED  BY <1>1, <1>3 DEF Has

LEMMA RemoveAtFacts ==
    ASSUME NEW S, NEW s \in Seq(S), NEW i \in 1 .. Len(s)
    PROVE  /\ RemoveAt(s, i) \in Seq(S) /\ Len(RemoveAt(s, i)) = Len(s) - 1
           /\ ToSet(RemoveAt(s, i)) \subseteq ToSet(s)
<1> DEFINE a == SubSeq(s, 1, i - 1)
           b == SubSeq(s, i + 1, Len(s))
<1>1. a \in Seq(S) /\ Len(a) = i - 1 /\ \A j \in 1 .. i - 1 : a[j] = s[j]
      OBVIOUS
<1>2. b \in Seq(S) /\ Len(b) = Len(s) - i
      OBVIOUS
<1>b. \A j \in 1 .. Len(s) - i : b[j] = s[i + j]
      OBVIOUS
<1>3. /\ RemoveAt(s, i) = a \o b
      /\ DOMAIN s = 1 .. Len(s) /\ Len(s) \in Nat
      BY DEF RemoveAt
<1> HIDE DEF a, b
<1>4. a \o b \in Seq(S) /\ Len(a \o b) = Len(s) - 1
      BY <1>1, <1>2
<1>5. \A j \in 1 .. Len(s) - 1 : (a \o b)[j] = IF j < i THEN s[j] ELSE s[j + 1]
      BY <1>1, <1>2, <1>b
<1>6. \A j \in 1 .. Len(s) - 1 : (IF j < i THEN j ELSE j + 1) \in 1 .. Len(s)
      BY <1>3
<1>7. DOMAIN (a \o b) = 1 .. Len(s) - 1
      BY <1>4
<1>8. \A j \in 1 .. Len(s) - 1 : \E k \in 1 .. Len(s) : (a \o b)[j] = s[k]
      BY <1>5, <1>6
<1>9. ToSet(a \o b) \subseteq ToSet(s)
      BY <1>3, <1>7, <1>8 DEF ToSet
<1> QED  BY <1>3, <1>4, <1>9

LEMMA AppendFacts ==
    ASSUME NEW S, NEW s \in Seq(S), NEW x \in S
    PROVE  Append(s, x) \in Seq(S) /\ ToSet(Append(s, x)) = ToSet(s) \cup {x}
<1>1. /\ Append(s, x) \in Seq(S) /\ Len(s) \in Nat
      /\ DOMAIN Append(s, x) = 1 .. Len(s) + 1 /\ DOMAIN s = 1 .. Len(s)
      /\ \A i \in 1 .. Len(s) : Append(s, x)[i] = s[i]
      /\ Append(s, x)[Len(s) + 1] = x
      OBVIOUS
<1>2. \A i \in 1 .. Len(s) + 1 : i \in 1 .. Len(s) \/ i = Len(s) + 1
      BY <1>1
<1>3. Len(s) + 1 \in 1 .. Len(s) + 1 /\ \A i \in 1 .. Len(s) : i \in 1 .. Len(s) + 1
      BY <1>1
<1> QED  BY <1>1, <1>2, <1>3 DEF ToSet

-----------------------------------------------------------------------------
(* Types.                                                                  *)

\* What the steps that take from the lists, or add to them, do.
LEMMA TakeDoes ==
    ASSUME TypeOK, NEW r \in Nat, Has(r), Take(r)
    PROVE  /\ mpList' \in Seq(Nat) /\ ToSet(mpList') \subseteq ToSet(mpList)
           /\ wrong' \subseteq Nat \X Nat
           /\ \E m \in ToSet(mpList) :
                  /\ m \in Nat /\ Wanted(r, m)
                  /\ wrong' = wrong \cup ({<<r, m>>} \ {<<r, r>>})
<1> DEFINE i == FirstAnswer(r)
<1>1. i \in 1 .. Len(mpList) /\ Wanted(r, mpList[i])
      BY FirstAnswerFacts
<1>2. mpList \in Seq(Nat) /\ wrong \subseteq Nat \X Nat
      BY DEF TypeOK
<1>3. mpList' = RemoveAt(mpList, i) /\ wrong' = wrong \cup ({<<r, mpList[i]>>} \ {<<r, r>>})
      BY DEF Take
<1> HIDE DEF i
<1>4. mpList[i] \in Nat /\ i \in DOMAIN mpList
      BY <1>1, <1>2
<1>5. mpList[i] \in ToSet(mpList)
      BY <1>4 DEF ToSet
<1>6. mpList' \in Seq(Nat) /\ ToSet(mpList') \subseteq ToSet(mpList)
      BY <1>1, <1>2, <1>3, RemoveAtFacts
<1> QED  BY <1>1, <1>2, <1>3, <1>4, <1>5, <1>6

LEMMA DeliverDoes ==
    ASSUME TypeOK, NEW r \in Nat, Deliver(r)
    PROVE  /\ mpList' \in Seq(Nat) /\ ToSet(mpList') = ToSet(mpList) \cup {r}
           /\ upSem = 0 /\ upSem' \in Nat /\ mpReadNotifyList' \in Seq(Nat)
           /\ \/ UNCHANGED <<upSem, mpReadNotifyList>>
              \/ \E i \in 1 .. Len(mpReadNotifyList) :
                     /\ upSem' = mpReadNotifyList[i]
                     /\ mpReadNotifyList' = RemoveAt(mpReadNotifyList, i)
<1>1. mpList \in Seq(Nat) /\ mpReadNotifyList \in Seq(Nat) /\ upSem \in Nat
      BY DEF TypeOK
<1>2. mpList' = Append(mpList, r) /\ upSem = 0
      BY DEF Deliver
<1>3. mpList' \in Seq(Nat) /\ ToSet(mpList') = ToSet(mpList) \cup {r}
      BY <1>1, <1>2, AppendFacts
<1>4. CASE FirstEntry(r) = 0
      BY <1>1, <1>2, <1>3, <1>4 DEF Deliver
<1>5. CASE FirstEntry(r) # 0
  <2>1. PICK i \in 1 .. Len(mpReadNotifyList) :
            /\ upSem' = mpReadNotifyList[i]
            /\ mpReadNotifyList' = RemoveAt(mpReadNotifyList, i)
        BY <1>5, FirstEntryFacts DEF Deliver
  <2>2. upSem' \in Nat
        BY <1>1, <2>1
  <2>3. mpReadNotifyList' \in Seq(Nat)
        BY <1>1, <2>1, RemoveAtFacts
  <2> QED  BY <1>2, <1>3, <2>1, <2>2, <2>3
<1> QED  BY <1>4, <1>5

LEMMA CancelDoes ==
    ASSUME TypeOK, ReadyCancel
    PROVE  /\ mpReadNotifyList' \in Seq(Nat) /\ readSem' \in Nat
           /\ \/ mpReadNotifyList' = mpReadNotifyList
              \/ \E i \in 1 .. Len(mpReadNotifyList) :
                     mpReadNotifyList' = RemoveAt(mpReadNotifyList, i)
<1>1. mpReadNotifyList \in Seq(Nat) /\ readSem \in Nat
      BY DEF TypeOK
<1>2. CASE FirstEntry(request["sync"]) = 0
      BY <1>1, <1>2 DEF ReadyCancel
<1>3. CASE FirstEntry(request["sync"]) # 0
  <2>1. PICK i \in 1 .. Len(mpReadNotifyList) :
            mpReadNotifyList' = RemoveAt(mpReadNotifyList, i) /\ readSem' = readSem + 1
        BY <1>3, FirstEntryFacts DEF ReadyCancel
  <2> QED  BY <1>1, <2>1, RemoveAtFacts
<1> QED  BY <1>2, <1>3

\* A thread moves, and the others stay where they are.
LEMMA GoDoes ==
    ASSUME TypeOK, NEW t \in Threads,
           NEW w \in {"again", "send", "read", "idle", "draw", "ask", "write", "sleep", "pop",
                      "cancel", "ready", "flush", "finished"},
           t # "sync" => w \in {"idle", "again", "send", "read"},
           t = "sync" => w # "idle",
           Go(t, w)
    PROVE  /\ pc' \in [Threads -> {"idle", "again", "send", "read", "draw", "ask", "write",
                                   "sleep", "pop", "cancel", "ready", "flush", "finished"}]
           /\ \A u \in Users : pc'[u] \in {"idle", "again", "send", "read"}
           /\ pc'["sync"] # "idle"
           /\ pc'[t] = w /\ \A u \in Threads \ {t} : pc'[u] = pc[u]
BY ControlAssumption, SMT DEF TypeOK, Go, Threads

LEMMA InitTypes == Init => TypeOK
<1> SUFFICES ASSUME Init PROVE TypeOK
    OBVIOUS
<1>1. /\ pc \in [Threads -> {"idle", "draw"}] /\ pc["sync"] = "draw"
      /\ \A t \in Users : pc[t] = "idle"
      BY ControlAssumption DEF Init, Threads
<1>2. request \in [Threads -> Nat] /\ first \in [Threads -> Nat]
      BY DEF Init
<1>3. mbQMIReady \in BOOLEAN /\ crossed \in BOOLEAN
      BY Zenon DEF Init
<1> QED  BY <1>1, <1>2, <1>3, SMT DEF Init, TypeOK

LEMMA TypeStep == TypeOK /\ [Next]_vars => TypeOK'
<1> SUFFICES ASSUME TypeOK, [Next]_vars PROVE TypeOK'
    OBVIOUS
<1> USE DEF reading, history
<1>a. "sync" \in Threads /\ "sync" \notin Users /\ Users \subseteq Threads
      BY ControlAssumption DEF Threads
<1>b. request["sync"] \in Nat /\ \A t \in Threads : request[t] \in Nat
      BY <1>a DEF TypeOK
<1>1. CASE ReadyDraw
      BY <1>1, <1>a, SMTT(20) DEF TypeOK, ReadyDraw, QMIGetTransactionID, Add, Go, NextPlace
<1>2. CASE ReadyAsk
  <2>1. /\ pc' \in [Threads -> {"idle", "again", "send", "read", "draw", "ask", "write",
                               "sleep", "pop", "cancel", "ready", "flush", "finished"}]
        /\ \A t \in Users : pc'[t] \in {"idle", "again", "send", "read"}
        /\ pc'["sync"] # "idle"
        BY <1>2, <1>a, SMT DEF TypeOK, ReadyAsk, Go
  <2>2. mpReadNotifyList' \in Seq(Nat) /\ readSem' \in Nat
    <3>1. readSem \in Nat /\ mpReadNotifyList \in Seq(Nat)
          BY DEF TypeOK
    <3>2. Append(mpReadNotifyList, request["sync"]) \in Seq(Nat)
          BY <1>b, <3>1, AppendFacts
    <3>3. mpReadNotifyList' \in Seq(Nat)
          BY <1>2, <3>1, <3>2, Zenon DEF ReadyAsk
    <3>4. readSem' = readSem \/ readSem' = readSem + 1
          BY <1>2, Zenon DEF ReadyAsk
    <3> QED  BY <3>1, <3>3, <3>4
  <2> QED  BY <1>2, <2>1, <2>2 DEF TypeOK, ReadyAsk
<1>3. CASE ReadyWrite
      BY <1>3, <1>a, SMT DEF TypeOK, ReadyWrite, Go, Write
<1>4. CASE ReadyLook
  <2>w. PICK w \in {"pop", "cancel"} : Go("sync", w)
        BY <1>4, <1>a DEF ReadyLook
  <2>1. /\ pc' \in [Threads -> {"idle", "again", "send", "read", "draw", "ask", "write",
                               "sleep", "pop", "cancel", "ready", "flush", "finished"}]
        /\ \A u \in Users : pc'[u] \in {"idle", "again", "send", "read"}
        /\ pc'["sync"] # "idle"
        BY <1>4, <1>a, <2>w, GoDoes
  <2>2. readSem' \in Nat
        BY <1>4, SMT DEF TypeOK, ReadyLook
  <2> QED  BY <1>4, <2>1, <2>2 DEF TypeOK, ReadyLook
<1>5. CASE ReadyPop
  <2>w. PICK w \in {"ready", "draw", "finished"} : Go("sync", w)
        BY <1>5, <1>a DEF ReadyPop, NextRound
  <2>1. /\ pc' \in [Threads -> {"idle", "again", "send", "read", "draw", "ask", "write",
                               "sleep", "pop", "cancel", "ready", "flush", "finished"}]
        /\ \A u \in Users : pc'[u] \in {"idle", "again", "send", "read"}
        /\ pc'["sync"] # "idle"
        BY <1>5, <1>a, <2>w, GoDoes
  <2>2. round' \in Nat
        BY <1>5, SMT DEF TypeOK, ReadyPop, NextRound
  <2>3. mpList' \in Seq(Nat) /\ wrong' \subseteq Nat \X Nat
        BY <1>5, <1>b, TakeDoes DEF TypeOK, ReadyPop
  <2> QED  BY <1>5, <2>1, <2>2, <2>3 DEF TypeOK, ReadyPop
<1>6. CASE ReadyCancel
  <2>1. /\ pc' \in [Threads -> {"idle", "again", "send", "read", "draw", "ask", "write",
                               "sleep", "pop", "cancel", "ready", "flush", "finished"}]
        /\ \A t \in Users : pc'[t] \in {"idle", "again", "send", "read"}
        /\ pc'["sync"] # "idle"
        BY <1>6, <1>a, SMT DEF TypeOK, ReadyCancel, Go, NextRound
  <2>2. round' \in Nat
        BY <1>6, SMT DEF TypeOK, ReadyCancel, NextRound
  <2>3. mpReadNotifyList' \in Seq(Nat) /\ readSem' \in Nat
        BY <1>6, CancelDoes
  <2> QED  BY <1>6, <2>1, <2>2, <2>3 DEF TypeOK, ReadyCancel
<1>7. ASSUME NEW t \in Threads, Draw(t) PROVE TypeOK'
      BY <1>7, <1>a, SMTT(20) DEF TypeOK, Draw, QMIGetTransactionID, Add, Go, NextPlace, MayAsk
<1>8. ASSUME NEW t \in Threads, Redraw(t) PROVE TypeOK'
      BY <1>8, <1>a, SMTT(20) DEF TypeOK, Redraw, DrawAgain, Add, Go
<1>9. ASSUME NEW t \in Threads, Send(t) PROVE TypeOK'
  <2>w. PICK w \in {"read", "finished", "idle"} :
            /\ t = "sync" => w # "idle"
            /\ t # "sync" => w # "finished"
            /\ Go(t, w)
        BY <1>9, <1>a DEF Send, Failed
  <2>1. /\ pc' \in [Threads -> {"idle", "again", "send", "read", "draw", "ask", "write",
                               "sleep", "pop", "cancel", "ready", "flush", "finished"}]
        /\ \A u \in Users : pc'[u] \in {"idle", "again", "send", "read"}
        /\ pc'["sync"] # "idle"
        BY <1>9, <1>a, <2>w, GoDoes
  <2>2. underWay' \subseteq Nat
        BY <1>9, <1>b DEF TypeOK, Send, Write
  <2> QED  BY <1>9, <2>1, <2>2 DEF TypeOK, Send
<1>10. ASSUME NEW t \in Threads, Receive(t) PROVE TypeOK'
  <2>w. PICK w \in {"flush", "finished", "idle"} :
            /\ t = "sync" => w # "idle"
            /\ t # "sync" => w = "idle"
            /\ Go(t, w)
        BY <1>10, <1>a DEF Receive, Answered, Failed
  <2>1. /\ pc' \in [Threads -> {"idle", "again", "send", "read", "draw", "ask", "write",
                               "sleep", "pop", "cancel", "ready", "flush", "finished"}]
        /\ \A u \in Users : pc'[u] \in {"idle", "again", "send", "read"}
        /\ pc'["sync"] # "idle"
        BY <1>10, <1>a, <2>w, GoDoes
  <2>2. mpList' \in Seq(Nat) /\ wrong' \subseteq Nat \X Nat
        BY <1>10, <1>b, TakeDoes DEF Receive
  <2> QED  BY <1>10, <2>1, <2>2 DEF TypeOK, Receive
<1>11. ASSUME NEW t \in Threads, Interrupted(t) PROVE TypeOK'
      BY <1>11, <1>a, SMTT(20) DEF TypeOK, Interrupted, Go, Failed
<1>12. CASE Flush
  <2>1. /\ pc' \in [Threads -> {"idle", "again", "send", "read", "draw", "ask", "write",
                               "sleep", "pop", "cancel", "ready", "flush", "finished"}]
        /\ \A t \in Users : pc'[t] \in {"idle", "again", "send", "read"}
        /\ pc'["sync"] # "idle"
        BY <1>12, <1>a, SMT DEF TypeOK, Flush, Go
  <2>2. swept' \subseteq Nat /\ mpList' \in Seq(Nat)
    <3>1. \A i \in DOMAIN mpList : mpList[i] \in Nat
          BY DEF TypeOK
    <3> QED  BY <1>12, <3>1 DEF Flush, ToSet
  <2> QED  BY <1>12, <2>1, <2>2 DEF TypeOK, Flush
<1>13. CASE Finish
      BY <1>13, <1>a, SMT DEF TypeOK, Finish
<1>14. CASE ReadCallback
  <2>1. underWay \subseteq Nat /\ signals \in Nat
        BY DEF TypeOK
  <2>2. \E r \in Nat : Deliver(r) /\ underWay' \subseteq Nat /\ signals' \in Nat
    <3>1. CASE \E r \in underWay :
                   Deliver(r) /\ underWay' = underWay \ {r} /\ UNCHANGED signals
          BY <2>1, <3>1
    <3>2. CASE signals' = signals + 1 /\ Deliver(0) /\ UNCHANGED underWay
          BY <2>1, <3>2
    <3> QED  BY <1>14, <3>1, <3>2 DEF ReadCallback
  <2>3. PICK r \in Nat : Deliver(r) /\ underWay' \subseteq Nat /\ signals' \in Nat
        BY <2>2
  <2>4. mpList' \in Seq(Nat) /\ upSem' \in Nat /\ mpReadNotifyList' \in Seq(Nat)
        BY <2>3, DeliverDoes
  <2> QED  BY <1>14, <2>3, <2>4 DEF TypeOK, ReadCallback
<1>15. CASE UpSem
      BY <1>15, <1>a, SMT DEF TypeOK, UpSem, LookedFor
<1>16. CASE UNCHANGED vars
      BY <1>16 DEF vars, TypeOK
<1> QED
    BY <1>1, <1>2, <1>3, <1>4, <1>5, <1>6, <1>7, <1>8, <1>9, <1>10, <1>11, <1>12, <1>13, <1>14, <1>15, <1>16
    DEF Next, QMIReady, QMICTLSyncProc, Request, Threads

\* The counter, the lists and the threads keep their types.
THEOREM ControlTypes == Spec => []TypeOK
BY InitTypes, TypeStep, PTL DEF Spec

-----------------------------------------------------------------------------
(* Two requests that wait have different numbers.                          *)

\* The places where a thread deals with a request it has drawn a number for.
Busy == {"again", "send", "read", "ask", "write", "sleep", "pop", "cancel"}

\* Every request was drawn from the counter, and only once; a thread draws again
\* because its first number was 0; 0 is kept only when it comes up a second time.
DrawnInv ==
    /\ \A t \in Threads : request[t] <= mQMICTLTransactionID /\ first[t] <= mQMICTLTransactionID
    /\ \A t \in Threads : pc[t] \in Busy => request[t] > 1 /\ first[t] > 1
    /\ \A t, u \in Threads : t # u /\ request[t] = request[u] => request[t] = 0
    /\ \A t \in Threads : pc[t] = "again" => Number(first[t]) = 0
    /\ \A t \in Threads : pc[t] \in {"send", "read"} /\ Number(request[t]) = 0 =>
           request[t] - first[t] >= Numbers

LEMMA InitDrawn == Init => DrawnInv
<1> SUFFICES ASSUME Init PROVE DrawnInv
    OBVIOUS
<1>1. \A t \in Threads : request[t] = 0 /\ first[t] = 0 /\ pc[t] \in {"idle", "draw"}
      BY DEF Init
<1>2. mQMICTLTransactionID = 1
      BY DEF Init
<1> QED  BY <1>1, <1>2, SMT DEF DrawnInv, Busy

\* A step that draws no number.
LEMMA DrawnMove ==
    ASSUME TypeOK, DrawnInv, UNCHANGED <<mQMICTLTransactionID, request, first>>,
           \A t \in Threads : \/ pc'[t] = pc[t]
                              \/ pc'[t] \notin Busy
                              \/ pc[t] \in Busy /\ pc'[t] \notin {"again", "send", "read"}
                              \/ pc[t] = "send" /\ pc'[t] = "read"
    PROVE  DrawnInv'
BY SMT DEF DrawnInv, Busy

\* A step that draws one.
LEMMA DrawnAdd ==
    ASSUME TypeOK, DrawnInv, NEW t \in Threads, Add(t),
           NEW w \in {"again", "send", "ask"}, Go(t, w),
           \/ /\ first' = [first EXCEPT ![t] = mQMICTLTransactionID']
              /\ w = "again" => Number(mQMICTLTransactionID') = 0
              /\ w = "send" => Number(mQMICTLTransactionID') # 0
           \/ pc[t] = "again" /\ w = "send" /\ first' = first
    PROVE  DrawnInv'
<1> DEFINE c == mQMICTLTransactionID
           d == c + 1
<1>1. c \in Nat /\ c > 0 /\ c' = d /\ d \in Nat /\ d > 1 /\ d > c
      BY DEF TypeOK, Add
<1>2. /\ request'[t] = d /\ pc'[t] = w
      /\ \A u \in Threads \ {t} : request'[u] = request[u] /\ first'[u] = first[u] /\ pc'[u] = pc[u]
      BY DEF TypeOK, Add, Go
<1>3. \A u \in Threads : request[u] \in Nat /\ first[u] \in Nat
      BY DEF TypeOK
<1>4. \A u \in Threads : request[u] <= c /\ first[u] <= c
      BY DEF DrawnInv
<1>b. /\ \A u \in Threads : pc[u] \in Busy => request[u] > 1 /\ first[u] > 1
      /\ \A u, v \in Threads : u # v /\ request[u] = request[v] => request[u] = 0
      /\ "again" \in Busy
      BY DEF DrawnInv, Busy
<1> HIDE DEF c, d
<1>5. CASE /\ first' = [first EXCEPT ![t] = c']
           /\ w = "again" => Number(c') = 0
           /\ w = "send" => Number(c') # 0
  <2>1. first'[t] = d
        BY <1>1, <1>5 DEF TypeOK
  <2>2. /\ \A u \in Threads : request'[u] <= d /\ first'[u] <= d
        /\ \A u \in Threads : pc'[u] \in Busy => request'[u] > 1 /\ first'[u] > 1
        BY <1>1, <1>2, <1>3, <1>4, <1>b, <2>1, SMT
  <2>3. \A u, v \in Threads : u # v /\ request'[u] = request'[v] => request'[u] = 0
        BY <1>1, <1>2, <1>3, <1>4, <1>b, SMT
  <2>4. \A u \in Threads : pc'[u] = "again" => Number(first'[u]) = 0
        BY <1>1, <1>2, <1>5, <2>1 DEF DrawnInv
  <2>5. \A u \in Threads : pc'[u] \in {"send", "read"} /\ Number(request'[u]) = 0 =>
                               request'[u] - first'[u] >= Numbers
        BY <1>1, <1>2, <1>5 DEF DrawnInv
  <2> QED  BY <1>1, <2>2, <2>3, <2>4, <2>5 DEF DrawnInv, c, Number
<1>6. CASE pc[t] = "again" /\ w = "send" /\ first' = first
  <2>1. /\ \A u \in Threads : request'[u] <= d /\ first'[u] <= d
        /\ \A u \in Threads : pc'[u] \in Busy => request'[u] > 1 /\ first'[u] > 1
        BY <1>1, <1>2, <1>3, <1>4, <1>6, <1>b, SMT
  <2>2. \A u, v \in Threads : u # v /\ request'[u] = request'[v] => request'[u] = 0
        BY <1>1, <1>2, <1>3, <1>4, <1>b, SMT
  <2>3. \A u \in Threads : pc'[u] = "again" => Number(first'[u]) = 0
        BY <1>2, <1>6 DEF DrawnInv
  <2>4. Number(d) = 0 => d - first[t] >= Numbers
    <3>1. first[t] \in Nat /\ d > first[t]
      <4>1. first[t] \in Nat /\ first[t] <= c
            BY <1>3, <1>4
      <4> QED  BY <1>1, <4>1 DEF d
    <3>2. Number(first[t]) = 0
          BY <1>6 DEF DrawnInv
    <3> QED  BY <1>1, <3>1, <3>2, SameNumber
  <2>5. \A u \in Threads : pc'[u] \in {"send", "read"} /\ Number(request'[u]) = 0 =>
                               request'[u] - first'[u] >= Numbers
        BY <1>2, <1>6, <2>4 DEF DrawnInv
  <2> QED  BY <1>1, <1>6, <2>1, <2>2, <2>3, <2>5 DEF DrawnInv, c, Number
<1> QED  BY <1>5, <1>6 DEF c

LEMMA DrawnStep == TypeOK /\ DrawnInv /\ [Next]_vars => DrawnInv'
<1> SUFFICES ASSUME TypeOK, DrawnInv, [Next]_vars PROVE DrawnInv'
    OBVIOUS
<1> USE DEF reading, history
<1>a. "sync" \in Threads
      BY DEF Threads
<1>1. CASE ReadyDraw
      BY <1>1, <1>a, DrawnAdd DEF ReadyDraw, QMIGetTransactionID, NextPlace
<1>2. CASE ReadyAsk
  <2>1. \A u \in Threads : u # "sync" => pc'[u] = pc[u]
        BY <1>2, SMT DEF TypeOK, ReadyAsk, Go
  <2>2. \/ pc'["sync"] \notin Busy
        \/ pc["sync"] \in Busy /\ pc'["sync"] \notin {"again", "send", "read"}
        \/ pc["sync"] = "send" /\ pc'["sync"] = "read"
        BY <1>2, <1>a, SMT DEF TypeOK, Busy, ReadyAsk, Go
  <2>3. UNCHANGED <<mQMICTLTransactionID, request, first>>
        BY <1>2 DEF ReadyAsk
  <2> QED  BY <2>1, <2>2, <2>3, DrawnMove
<1>3. CASE ReadyWrite
  <2>1. \A u \in Threads : u # "sync" => pc'[u] = pc[u]
        BY <1>3, SMT DEF TypeOK, ReadyWrite, Go
  <2>2. \/ pc'["sync"] \notin Busy
        \/ pc["sync"] \in Busy /\ pc'["sync"] \notin {"again", "send", "read"}
        \/ pc["sync"] = "send" /\ pc'["sync"] = "read"
        BY <1>3, <1>a, SMT DEF TypeOK, Busy, ReadyWrite, Go
  <2>3. UNCHANGED <<mQMICTLTransactionID, request, first>>
        BY <1>3 DEF ReadyWrite
  <2> QED  BY <2>1, <2>2, <2>3, DrawnMove
<1>4. CASE ReadyLook
  <2>1. \A u \in Threads : u # "sync" => pc'[u] = pc[u]
        BY <1>4, SMT DEF TypeOK, ReadyLook, Go
  <2>2. \/ pc'["sync"] \notin Busy
        \/ pc["sync"] \in Busy /\ pc'["sync"] \notin {"again", "send", "read"}
        \/ pc["sync"] = "send" /\ pc'["sync"] = "read"
        BY <1>4, <1>a, SMT DEF TypeOK, Busy, ReadyLook, Go
  <2>3. UNCHANGED <<mQMICTLTransactionID, request, first>>
        BY <1>4 DEF ReadyLook
  <2> QED  BY <2>1, <2>2, <2>3, DrawnMove
<1>5. CASE ReadyPop
  <2>1. \A u \in Threads : u # "sync" => pc'[u] = pc[u]
        BY <1>5, SMT DEF TypeOK, ReadyPop, NextRound, Go
  <2>2. \/ pc'["sync"] \notin Busy
        \/ pc["sync"] \in Busy /\ pc'["sync"] \notin {"again", "send", "read"}
        \/ pc["sync"] = "send" /\ pc'["sync"] = "read"
        BY <1>5, <1>a, SMT DEF TypeOK, Busy, ReadyPop, NextRound, Go
  <2>3. UNCHANGED <<mQMICTLTransactionID, request, first>>
        BY <1>5 DEF ReadyPop
  <2> QED  BY <2>1, <2>2, <2>3, DrawnMove
<1>6. CASE ReadyCancel
  <2>1. \A u \in Threads : u # "sync" => pc'[u] = pc[u]
        BY <1>6, SMT DEF TypeOK, ReadyCancel, NextRound, Go
  <2>2. \/ pc'["sync"] \notin Busy
        \/ pc["sync"] \in Busy /\ pc'["sync"] \notin {"again", "send", "read"}
        \/ pc["sync"] = "send" /\ pc'["sync"] = "read"
        BY <1>6, <1>a, SMT DEF TypeOK, Busy, ReadyCancel, NextRound, Go
  <2>3. UNCHANGED <<mQMICTLTransactionID, request, first>>
        BY <1>6 DEF ReadyCancel
  <2> QED  BY <2>1, <2>2, <2>3, DrawnMove
<1>7. ASSUME NEW t \in Threads, Draw(t) PROVE DrawnInv'
  <2>1. CASE Number(mQMICTLTransactionID') = 0
        BY <1>7, <2>1, DrawnAdd DEF Draw, QMIGetTransactionID, NextPlace
  <2>2. CASE Number(mQMICTLTransactionID') # 0
        BY <1>7, <2>2, DrawnAdd DEF Draw, QMIGetTransactionID, NextPlace
  <2> QED  BY <2>1, <2>2
<1>8. ASSUME NEW t \in Threads, Redraw(t) PROVE DrawnInv'
      BY <1>8, DrawnAdd DEF Redraw, DrawAgain
<1>9. ASSUME NEW t \in Threads, Send(t) PROVE DrawnInv'
  <2>1. \A u \in Threads : u # t => pc'[u] = pc[u]
        BY <1>9, SMT DEF TypeOK, Send, Failed, Go
  <2>2. \/ pc'[t] \notin Busy
        \/ pc[t] \in Busy /\ pc'[t] \notin {"again", "send", "read"}
        \/ pc[t] = "send" /\ pc'[t] = "read"
        BY <1>9, <1>a, SMT DEF TypeOK, Busy, Send, Failed, Go
  <2>3. UNCHANGED <<mQMICTLTransactionID, request, first>>
        BY <1>9 DEF Send
  <2> QED  BY <2>1, <2>2, <2>3, DrawnMove
<1>10. ASSUME NEW t \in Threads, Receive(t) PROVE DrawnInv'
  <2>1. \A u \in Threads : u # t => pc'[u] = pc[u]
        BY <1>10, SMT DEF TypeOK, Receive, Answered, Failed, Go
  <2>2. \/ pc'[t] \notin Busy
        \/ pc[t] \in Busy /\ pc'[t] \notin {"again", "send", "read"}
        \/ pc[t] = "send" /\ pc'[t] = "read"
        BY <1>10, <1>a, SMT DEF TypeOK, Busy, Receive, Answered, Failed, Go
  <2>3. UNCHANGED <<mQMICTLTransactionID, request, first>>
        BY <1>10 DEF Receive
  <2> QED  BY <2>1, <2>2, <2>3, DrawnMove
<1>11. ASSUME NEW t \in Threads, Interrupted(t) PROVE DrawnInv'
  <2>1. \A u \in Threads : u # t => pc'[u] = pc[u]
        BY <1>11, SMT DEF TypeOK, Interrupted, Failed, Go
  <2>2. \/ pc'[t] \notin Busy
        \/ pc[t] \in Busy /\ pc'[t] \notin {"again", "send", "read"}
        \/ pc[t] = "send" /\ pc'[t] = "read"
        BY <1>11, <1>a, SMT DEF TypeOK, Busy, Interrupted, Failed, Go
  <2>3. UNCHANGED <<mQMICTLTransactionID, request, first>>
        BY <1>11 DEF Interrupted
  <2> QED  BY <2>1, <2>2, <2>3, DrawnMove
<1>12. CASE Flush
  <2>1. \A u \in Threads : u # "sync" => pc'[u] = pc[u]
        BY <1>12, SMT DEF TypeOK, Flush, Go
  <2>2. \/ pc'["sync"] \notin Busy
        \/ pc["sync"] \in Busy /\ pc'["sync"] \notin {"again", "send", "read"}
        \/ pc["sync"] = "send" /\ pc'["sync"] = "read"
        BY <1>12, <1>a, SMT DEF TypeOK, Busy, Flush, Go
  <2>3. UNCHANGED <<mQMICTLTransactionID, request, first>>
        BY <1>12 DEF Flush
  <2> QED  BY <2>1, <2>2, <2>3, DrawnMove
<1>13. CASE Finish
      BY <1>13, DrawnMove DEF Finish
<1>14. CASE ReadCallback
      BY <1>14, DrawnMove DEF ReadCallback
<1>15. CASE UpSem
      BY <1>15, DrawnMove DEF UpSem
<1>16. CASE UNCHANGED vars
      BY <1>16, DrawnMove DEF vars
<1> QED
    BY <1>1, <1>2, <1>3, <1>4, <1>5, <1>6, <1>7, <1>8, <1>9, <1>10, <1>11, <1>12, <1>13, <1>14, <1>15, <1>16
    DEF Next, QMIReady, QMICTLSyncProc, Request, Threads

\* Two requests that wait for an answer have different numbers, and none has 0,
\* unless all numbers were drawn in between.
THEOREM NumbersAlwaysDiffer == Spec => []NumbersDiffer
<1>1. TypeOK /\ DrawnInv => NumbersDiffer
  <2> SUFFICES ASSUME TypeOK, DrawnInv PROVE NumbersDiffer
      OBVIOUS
  <2>1. \A t \in Waiting : t \in Threads /\ request[t] \in Nat /\ request[t] > 1
        BY DEF Waiting, TypeOK, DrawnInv, Busy
  <2>2. \A t \in Waiting : Number(request[t]) = 0 => request[t] - first[t] >= Numbers
        BY DEF Waiting, DrawnInv
  <2>3. \A t, u \in Waiting : t # u => request[t] # request[u]
        BY <2>1 DEF DrawnInv
  <2> QED  BY <2>1, <2>2, <2>3, SameNumberApart DEF NumbersDiffer
<1> QED  BY <1>1, InitTypes, TypeStep, InitDrawn, DrawnStep, PTL DEF Spec

-----------------------------------------------------------------------------
(* Nobody takes the answer of another request.                             *)

\* QMIReady and QMICTLSyncProc are alone, and draw too few numbers to come back
\* to one they have drawn.
StartInv ==
    /\ pc["sync"] = "draw" => round < Rounds /\ mQMICTLTransactionID = round + 1
    /\ pc["sync"] \in {"ask", "write", "sleep", "pop", "cancel"} =>
           round < Rounds /\ mQMICTLTransactionID = round + 2
    /\ pc["sync"] = "ready" => mQMICTLTransactionID < Numbers
    /\ pc["sync"] = "again" => mQMICTLTransactionID <= Numbers
    /\ pc["sync"] \in {"send", "read", "flush"} => mQMICTLTransactionID <= Numbers + 1
    /\ mbQMIReady => pc["sync"] = "finished"
    /\ ~mbQMIReady => \A t \in Users : pc[t] = "idle"

LEMMA InitStart == Init => StartInv
BY ControlAssumption, SMT DEF Init, StartInv, Threads

\* The steps of one of the Users.
LEMMA UserStarts ==
    ASSUME TypeOK, StartInv, NEW t \in Users, Request(t)
    PROVE  /\ StartInv' /\ mbQMIReady /\ pc["sync"] = "finished"
           /\ mbQMIReady' = mbQMIReady /\ pc'["sync"] = pc["sync"]
<1>1. t # "sync" /\ t \in Threads /\ "sync" \in Threads
      BY ControlAssumption DEF Threads
<1>2. mbQMIReady' = mbQMIReady
      BY DEF Request, Draw, Redraw, Send, Receive, Interrupted
<1>3. pc[t] # "idle" \/ mbQMIReady
      BY <1>1 DEF Request, Draw, MayAsk, Redraw, DrawAgain, Send, Receive, Interrupted
<1>4. mbQMIReady
      BY <1>3 DEF StartInv
<1>5. \E w : Go(t, w)
  <2>1. CASE Draw(t)
        BY <2>1 DEF Draw, QMIGetTransactionID
  <2>2. CASE Redraw(t)
        BY <2>2 DEF Redraw, DrawAgain
  <2>3. CASE Send(t)
        BY <2>3 DEF Send
  <2>4. CASE Receive(t)
        BY <2>4 DEF Receive
  <2>5. CASE Interrupted(t)
        BY <2>5 DEF Interrupted
  <2> QED  BY <2>1, <2>2, <2>3, <2>4, <2>5 DEF Request
<1>6. pc'["sync"] = pc["sync"]
      BY <1>1, <1>5 DEF Go, TypeOK
<1>7. pc["sync"] = "finished"
      BY <1>4 DEF StartInv
<1> QED  BY <1>2, <1>4, <1>6, <1>7, Zenon DEF StartInv

LEMMA StartStep == TypeOK /\ StartInv /\ [Next]_vars => StartInv'
<1> SUFFICES ASSUME TypeOK, StartInv, [Next]_vars PROVE StartInv'
    OBVIOUS
<1> USE DEF reading, history
<1>a. "sync" \in Threads /\ "sync" \notin Users /\ Users \subseteq Threads
      BY ControlAssumption DEF Threads
<1>b. round \in Nat /\ mQMICTLTransactionID \in Nat /\ Rounds \in Nat /\ Numbers \in Nat
      /\ Rounds + 1 < Numbers
      BY ControlAssumption DEF TypeOK
<1>1. CASE ReadyDraw
      BY <1>1, <1>a, <1>b, SMT DEF TypeOK, StartInv, ReadyDraw, QMIGetTransactionID, Add, Go, NextPlace
<1>2. CASE ReadyAsk
      BY <1>2, <1>a, <1>b, SMT DEF TypeOK, StartInv, ReadyAsk, Go
<1>3. CASE ReadyWrite
      BY <1>3, <1>a, <1>b, SMT DEF TypeOK, StartInv, ReadyWrite, Go, Write
<1>4. CASE ReadyLook
      BY <1>4, <1>a, <1>b, SMT DEF TypeOK, StartInv, ReadyLook, Go
<1>5. CASE ReadyPop
      BY <1>5, <1>a, <1>b, SMT DEF TypeOK, StartInv, ReadyPop, Go, NextRound, Take
<1>6. CASE ReadyCancel
      BY <1>6, <1>a, <1>b, SMT DEF TypeOK, StartInv, ReadyCancel, Go, NextRound
<1>7. ASSUME NEW t \in Threads, Draw(t) PROVE StartInv'
  <2>1. CASE t = "sync"
        BY <1>7, <2>1, <1>a, <1>b, SMT DEF TypeOK, StartInv, Draw, QMIGetTransactionID, Add, Go, NextPlace, MayAsk
  <2>2. CASE t # "sync"
        BY <1>7, <2>2, UserStarts DEF Threads, Request
  <2> QED  BY <2>1, <2>2
<1>8. ASSUME NEW t \in Threads, Redraw(t) PROVE StartInv'
  <2>1. CASE t = "sync"
        BY <1>8, <2>1, <1>a, <1>b, SMT DEF TypeOK, StartInv, Redraw, DrawAgain, Add, Go
  <2>2. CASE t # "sync"
        BY <1>8, <2>2, UserStarts DEF Threads, Request
  <2> QED  BY <2>1, <2>2
<1>9. ASSUME NEW t \in Threads, Send(t) PROVE StartInv'
  <2>1. CASE t = "sync"
        BY <1>9, <2>1, <1>a, <1>b, SMT DEF TypeOK, StartInv, Send, Go, Write, Failed
  <2>2. CASE t # "sync"
        BY <1>9, <2>2, UserStarts DEF Threads, Request
  <2> QED  BY <2>1, <2>2
<1>10. ASSUME NEW t \in Threads, Receive(t) PROVE StartInv'
  <2>1. CASE t = "sync"
        BY <1>10, <2>1, <1>a, <1>b, SMT DEF TypeOK, StartInv, Receive, Go, Take, Answered, Failed
  <2>2. CASE t # "sync"
        BY <1>10, <2>2, UserStarts DEF Threads, Request
  <2> QED  BY <2>1, <2>2
<1>11. ASSUME NEW t \in Threads, Interrupted(t) PROVE StartInv'
  <2>1. CASE t = "sync"
        BY <1>11, <2>1, <1>a, <1>b, SMT DEF TypeOK, StartInv, Interrupted, Go, Failed
  <2>2. CASE t # "sync"
        BY <1>11, <2>2, UserStarts DEF Threads, Request
  <2> QED  BY <2>1, <2>2
<1>12. CASE Flush
      BY <1>12, <1>a, <1>b, SMT DEF TypeOK, StartInv, Flush, Go
<1>13. CASE Finish
      BY <1>13, <1>a, <1>b, SMT DEF TypeOK, StartInv, Finish
<1>14. CASE ReadCallback
      BY <1>14, <1>a, <1>b, SMT DEF TypeOK, StartInv, ReadCallback, Deliver
<1>15. CASE UpSem
      BY <1>15, <1>a, <1>b, SMT DEF TypeOK, StartInv, UpSem, LookedFor
<1>16. CASE UNCHANGED vars
      BY <1>16, Zenon DEF vars, StartInv
<1> QED
    BY <1>1, <1>2, <1>3, <1>4, <1>5, <1>6, <1>7, <1>8, <1>9, <1>10, <1>11, <1>12, <1>13, <1>14, <1>15, <1>16
    DEF Next, QMIReady, QMICTLSyncProc, Request, Threads

\* A request that has not been written has no answer yet; an answer is under way
\* or in the store, once; only indications come after one that was swept away.
StoreInv ==
    /\ ToSet(mpList) \cup underWay \cup swept \subseteq {0} \cup 2 .. mQMICTLTransactionID
    /\ 0 \notin underWay
    /\ \A t \in Threads : pc[t] \in {"ask", "write", "send"} =>
           request[t] \notin ToSet(mpList) \cup underWay \cup swept
    /\ underWay \cap (ToSet(mpList) \cup swept) = {}
    /\ ToSet(mpList) \cap swept \subseteq {0}

LEMMA InitStore == Init => StoreInv
<1> SUFFICES ASSUME Init PROVE StoreInv
    OBVIOUS
<1>1. ToSet(mpList) = {} /\ underWay = {} /\ swept = {}
      BY DEF Init, ToSet
<1> QED  BY <1>1 DEF StoreInv

\* A step after which nothing new is under way, in the store or swept.
LEMMA StoreLess ==
    ASSUME StoreInv, UNCHANGED <<underWay, swept, mQMICTLTransactionID, request>>,
           ToSet(mpList') \subseteq ToSet(mpList),
           \A t \in Threads : pc'[t] \in {"ask", "write", "send"} =>
                                  pc[t] \in {"ask", "write", "send"}
    PROVE  StoreInv'
<1>1. ToSet(mpList)' = ToSet(mpList')
      BY DEF ToSet
<1> QED  BY <1>1 DEF StoreInv

\* A number is drawn.
LEMMA StoreDraw ==
    ASSUME TypeOK, StoreInv, NEW t \in Threads, Add(t), NEW w, Go(t, w),
           UNCHANGED <<mpList, underWay, swept>>
    PROVE  StoreInv'
<1> DEFINE c == mQMICTLTransactionID
<1>1. c \in Nat /\ c > 0 /\ c' = c + 1
      BY DEF TypeOK, Add
<1>2. /\ request'[t] = c + 1
      /\ \A u \in Threads \ {t} : request'[u] = request[u] /\ pc'[u] = pc[u]
      BY DEF TypeOK, Add, Go
<1>3. ToSet(mpList) \cup underWay \cup swept \subseteq {0} \cup 2 .. c
      BY DEF StoreInv
<1> DEFINE All == ToSet(mpList) \cup underWay \cup swept
<1>4. All \subseteq {0} \cup 2 .. c + 1 /\ c + 1 \notin All
  <2>1. {0} \cup 2 .. c \subseteq {0} \cup 2 .. c + 1 /\ c + 1 \notin {0} \cup 2 .. c
        BY <1>1
  <2> QED  BY <1>3, <2>1
<1>5. ToSet(mpList)' = ToSet(mpList) /\ All' = All
      BY DEF ToSet
<1>6. \A u \in Threads : pc'[u] \in {"ask", "write", "send"} => request'[u] \notin All
      BY <1>2, <1>4 DEF StoreInv
<1> QED  BY <1>1, <1>4, <1>5, <1>6 DEF StoreInv

\* A request is written, and perhaps answered.
LEMMA StoreWrite ==
    ASSUME TypeOK, DrawnInv, StoreInv, NEW t \in Threads, pc[t] \in {"write", "send"},
           Write(request[t]), NEW w \in {"sleep", "read", "finished", "idle"}, Go(t, w),
           UNCHANGED <<mpList, swept, mQMICTLTransactionID, request>>
    PROVE  StoreInv'
<1> DEFINE r == request[t]
<1>1. r \in Nat /\ r > 1 /\ r <= mQMICTLTransactionID /\ mQMICTLTransactionID \in Nat
      BY DEF TypeOK, DrawnInv, Busy
<1>2. r \notin ToSet(mpList) \cup underWay \cup swept
      BY DEF StoreInv
<1>3. underWay' \subseteq underWay \cup {r}
      BY DEF Write
<1>4. /\ pc'[t] \notin {"ask", "write", "send"}
      /\ \A u \in Threads \ {t} : pc'[u] = pc[u]
      BY DEF TypeOK, Go
<1>5. \A u \in Threads \ {t} : request[u] # r
      BY <1>1 DEF DrawnInv
<1>6. r \in 2 .. mQMICTLTransactionID /\ r # 0
      BY <1>1
<1>7. ToSet(mpList)' = ToSet(mpList)
      BY DEF ToSet
<1> HIDE DEF r
<1>8. /\ (ToSet(mpList) \cup underWay \cup swept)' \subseteq {0} \cup 2 .. mQMICTLTransactionID'
      /\ 0 \notin underWay'
      BY <1>3, <1>6, <1>7 DEF StoreInv
<1>9. \A u \in Threads : pc'[u] \in {"ask", "write", "send"} =>
                             request'[u] \notin ToSet(mpList)' \cup underWay' \cup swept'
      BY <1>3, <1>4, <1>5, <1>7 DEF StoreInv
<1>10. underWay' \cap (ToSet(mpList)' \cup swept') = {} /\ ToSet(mpList)' \cap swept' \subseteq {0}
       BY <1>2, <1>3, <1>7 DEF StoreInv
<1> QED  BY <1>8, <1>9, <1>10 DEF StoreInv

\* An answer, or an indication, comes.
LEMMA StoreDeliver ==
    ASSUME TypeOK, DrawnInv, StoreInv, ReadCallback
    PROVE  StoreInv'
<1>1. UNCHANGED <<mQMICTLTransactionID, pc, request, swept>>
      BY DEF ReadCallback, history
<1>2. underWay \subseteq Nat
      BY DEF TypeOK
<1>3. ASSUME NEW r \in Nat, Deliver(r), r \in underWay \/ r = 0, underWay' = underWay \ {r}
      PROVE  StoreInv'
  <2>1. ToSet(mpList') = ToSet(mpList) \cup {r} /\ ToSet(mpList)' = ToSet(mpList')
        BY <1>3, DeliverDoes DEF ToSet
  <2>2. \A t \in Threads : pc[t] \in {"ask", "write", "send"} => request[t] # 0
        BY DEF TypeOK, DrawnInv, Busy
  <2>3. \A t \in Threads : pc'[t] \in {"ask", "write", "send"} =>
                               request'[t] \notin ToSet(mpList)' \cup underWay' \cup swept'
        BY <1>1, <1>3, <2>1, <2>2 DEF StoreInv
  <2> QED  BY <1>1, <1>3, <2>1, <2>3 DEF StoreInv
<1>4. CASE \E r \in underWay : Deliver(r) /\ underWay' = underWay \ {r}
      BY <1>2, <1>3, <1>4
<1>5. CASE Deliver(0) /\ underWay' = underWay
  <2>1. underWay' = underWay \ {0}
        BY <1>5 DEF StoreInv
  <2> QED  BY <1>3, <1>5, <2>1
<1> QED  BY <1>4, <1>5 DEF ReadCallback

LEMMA StoreStep == TypeOK /\ DrawnInv /\ StoreInv /\ [Next]_vars => StoreInv'
<1> SUFFICES ASSUME TypeOK, DrawnInv, StoreInv, [Next]_vars PROVE StoreInv'
    OBVIOUS
<1> USE DEF reading, history
<1>a. "sync" \in Threads
      BY DEF Threads
<1>b. \A t \in Threads : request[t] \in Nat
      BY DEF TypeOK
<1>1. CASE ReadyDraw
      BY <1>1, <1>a, StoreDraw DEF ReadyDraw, QMIGetTransactionID
<1>2. CASE ReadyAsk
  <2>1. \A u \in Threads : pc'[u] \in {"ask", "write", "send"} => pc[u] \in {"ask", "write", "send"}
        BY <1>2, <1>a, SMT DEF TypeOK, ReadyAsk, Go
  <2>2. UNCHANGED <<underWay, swept, mQMICTLTransactionID, request>>
        BY <1>2 DEF ReadyAsk
  <2>3. ToSet(mpList') \subseteq ToSet(mpList)
        BY <1>2, <1>a, <1>b DEF ReadyAsk
  <2> QED  BY <2>1, <2>2, <2>3, StoreLess
<1>3. CASE ReadyWrite
      BY <1>3, <1>a, StoreWrite DEF ReadyWrite
<1>4. CASE ReadyLook
  <2>1. \A u \in Threads : pc'[u] \in {"ask", "write", "send"} => pc[u] \in {"ask", "write", "send"}
        BY <1>4, <1>a, SMT DEF TypeOK, ReadyLook, Go
  <2>2. UNCHANGED <<underWay, swept, mQMICTLTransactionID, request>>
        BY <1>4 DEF ReadyLook
  <2>3. ToSet(mpList') \subseteq ToSet(mpList)
        BY <1>4, <1>a, <1>b DEF ReadyLook
  <2> QED  BY <2>1, <2>2, <2>3, StoreLess
<1>5. CASE ReadyPop
  <2>1. \A u \in Threads : pc'[u] \in {"ask", "write", "send"} => pc[u] \in {"ask", "write", "send"}
        BY <1>5, <1>a, SMT DEF TypeOK, ReadyPop, NextRound, Go
  <2>2. UNCHANGED <<underWay, swept, mQMICTLTransactionID, request>>
        BY <1>5 DEF ReadyPop
  <2>3. ToSet(mpList') \subseteq ToSet(mpList)
        BY <1>5, <1>a, <1>b, TakeDoes DEF ReadyPop
  <2> QED  BY <2>1, <2>2, <2>3, StoreLess
<1>6. CASE ReadyCancel
  <2>1. \A u \in Threads : pc'[u] \in {"ask", "write", "send"} => pc[u] \in {"ask", "write", "send"}
        BY <1>6, <1>a, SMT DEF TypeOK, ReadyCancel, NextRound, Go
  <2>2. UNCHANGED <<underWay, swept, mQMICTLTransactionID, request>>
        BY <1>6 DEF ReadyCancel
  <2>3. ToSet(mpList') \subseteq ToSet(mpList)
        BY <1>6, <1>a, <1>b DEF ReadyCancel
  <2> QED  BY <2>1, <2>2, <2>3, StoreLess
<1>7. ASSUME NEW t \in Threads, Draw(t) PROVE StoreInv'
      BY <1>7, StoreDraw DEF Draw, QMIGetTransactionID
<1>8. ASSUME NEW t \in Threads, Redraw(t) PROVE StoreInv'
      BY <1>8, StoreDraw DEF Redraw, DrawAgain
<1>9. ASSUME NEW t \in Threads, Send(t) PROVE StoreInv'
      BY <1>9, StoreWrite DEF Send, Failed
<1>10. ASSUME NEW t \in Threads, Receive(t) PROVE StoreInv'
  <2>1. \A u \in Threads : pc'[u] \in {"ask", "write", "send"} => pc[u] \in {"ask", "write", "send"}
        BY <1>10, <1>a, SMT DEF TypeOK, Receive, Answered, Failed, Go
  <2>2. UNCHANGED <<underWay, swept, mQMICTLTransactionID, request>>
        BY <1>10 DEF Receive
  <2>3. ToSet(mpList') \subseteq ToSet(mpList)
        BY <1>10, <1>a, <1>b, TakeDoes DEF Receive
  <2> QED  BY <2>1, <2>2, <2>3, StoreLess
<1>11. ASSUME NEW t \in Threads, Interrupted(t) PROVE StoreInv'
  <2>1. \A u \in Threads : pc'[u] \in {"ask", "write", "send"} => pc[u] \in {"ask", "write", "send"}
        BY <1>11, <1>a, SMT DEF TypeOK, Interrupted, Failed, Go
  <2>2. UNCHANGED <<underWay, swept, mQMICTLTransactionID, request>>
        BY <1>11 DEF Interrupted
  <2>3. ToSet(mpList') \subseteq ToSet(mpList)
        BY <1>11, <1>a, <1>b DEF Interrupted
  <2> QED  BY <2>1, <2>2, <2>3, StoreLess
<1>12. CASE Flush
  <2>1. ToSet(mpList)' = {} /\ swept' = ToSet(mpList)
        BY <1>12 DEF Flush, ToSet
  <2>2. \A u \in Threads : pc'[u] \in {"ask", "write", "send"} => pc[u] \in {"ask", "write", "send"}
        BY <1>12, <1>a, SMT DEF TypeOK, Flush, Go
  <2>3. UNCHANGED <<underWay, mQMICTLTransactionID, request>>
        BY <1>12 DEF Flush
  <2> QED  BY <2>1, <2>2, <2>3 DEF StoreInv
<1>13. CASE Finish
      BY <1>13, StoreLess DEF Finish
<1>14. CASE ReadCallback
      BY <1>14, StoreDeliver
<1>15. CASE UpSem
      BY <1>15, StoreLess DEF UpSem
<1>16. CASE UNCHANGED vars
      BY <1>16, StoreLess DEF vars
<1> QED
    BY <1>1, <1>2, <1>3, <1>4, <1>5, <1>6, <1>7, <1>8, <1>9, <1>10, <1>11, <1>12, <1>13, <1>14, <1>15, <1>16
    DEF Next, QMIReady, QMICTLSyncProc, Request, Threads

\* Until the others may begin nobody has taken a wrong answer.
AnswerInv ==
    /\ ~mbQMIReady => wrong = {}
    /\ pc["sync"] # "finished" => swept = {}
    /\ OwnAnswer

LEMMA InitAnswer == Init => AnswerInv
BY ControlAssumption, SMT DEF Init, AnswerInv, OwnAnswer, Threads

\* While QMIReady and QMICTLSyncProc are alone, an answer that matches is their own.
LEMMA SyncTakesOwn ==
    ASSUME TypeOK, DrawnInv, StartInv, StoreInv, pc["sync"] \in {"pop", "read"},
           NEW m \in ToSet(mpList), m \in Nat, Wanted(request["sync"], m)
    PROVE  m = request["sync"]
<1> DEFINE r == request["sync"]
           c == mQMICTLTransactionID
<1>1. /\ r \in Nat /\ r > 1 /\ r <= c /\ c \in Nat /\ Numbers \in Nat
      /\ Rounds \in Nat /\ Rounds + 1 < Numbers /\ round \in Nat
      BY ControlAssumption DEF TypeOK, DrawnInv, Busy, Threads
<1>2. m = 0 \/ (m > 1 /\ m <= c)
  <2>1. m \in {0} \cup 2 .. c
        BY DEF StoreInv
  <2> QED  BY <1>1, <2>1
<1>3. Number(r) = 0 \/ Number(m) = Number(r)
      BY DEF Wanted
<1>4. CASE pc["sync"] = "pop"
  <2>1. c < Numbers
        BY <1>1, <1>4 DEF StartInv
  <2>2. Number(r) = r
    <3>1. 0 < r /\ r < Numbers
          BY <1>1, <2>1
    <3> QED  BY <1>1, <3>1, SmallNumber
  <2>3. m # 0 => Number(m) = m
    <3>1. m # 0 => 0 < m /\ m < Numbers
          BY <1>1, <1>2, <2>1
    <3> QED  BY <3>1, SmallNumber
  <2>4. m # 0
        BY <1>1, <1>3, <2>2, NumberOfZero
  <2> QED  BY <1>1, <1>3, <2>2, <2>3, <2>4
<1>5. CASE pc["sync"] = "read"
  <2>1. c <= Numbers + 1
        BY <1>5 DEF StartInv
  <2>2. /\ first["sync"] \in Nat /\ first["sync"] > 1
        /\ Number(r) = 0 => r - first["sync"] >= Numbers
        BY <1>5 DEF TypeOK, DrawnInv, Busy, Threads
  <2>3. Number(r) # 0
        BY <1>1, <2>1, <2>2
  <2>4. m # 0
        BY <1>3, <2>3, NumberOfZero
  <2>5. CASE r > m
    <3>1. r - m >= Numbers
          BY <1>1, <1>3, <2>3, <2>5, SameNumber
    <3> QED  BY <1>1, <1>2, <2>1, <2>4, <3>1
  <2>6. CASE m > r
    <3>1. m - r >= Numbers
          BY <1>1, <1>3, <2>3, <2>6, SameNumber
    <3> QED  BY <1>1, <1>2, <2>1, <2>4, <3>1
  <2> QED  BY <1>1, <2>5, <2>6
<1> QED  BY <1>4, <1>5

\* An answer is taken.
LEMMA AnswerTaken ==
    ASSUME TypeOK, DrawnInv, StoreInv, AnswerInv, NEW t \in Threads,
           Has(request[t]), Take(request[t]), UNCHANGED swept
    PROVE  OwnAnswer'
<1> DEFINE r == request[t]
<1>1. r \in Nat
      BY DEF TypeOK
<1>2. PICK m \in ToSet(mpList) :
          m \in Nat /\ Wanted(r, m) /\ wrong' = wrong \cup ({<<r, m>>} \ {<<r, r>>})
      BY <1>1, TakeDoes
<1>3. m # r => Number(r) = 0 \/ m - r \notin 1 - Numbers .. Numbers - 1
      BY <1>1, <1>2, SameNumberApart DEF Wanted
<1>4. m # 0 => m \notin swept
      BY DEF StoreInv
<1> HIDE DEF r
<1>5. \A w \in wrong' : w \in wrong \/ (w = <<r, m>> /\ m # r)
  <2> TAKE w \in wrong'
  <2>1. w \in wrong \/ (w = <<r, m>> /\ w # <<r, r>>)
        BY <1>2
  <2> QED  BY <2>1
<1> QED  BY <1>3, <1>4, <1>5 DEF AnswerInv, OwnAnswer, Number

LEMMA AnswerStep ==
    TypeOK /\ DrawnInv /\ StartInv /\ StoreInv /\ AnswerInv /\ [Next]_vars => AnswerInv'
<1> SUFFICES ASSUME TypeOK, DrawnInv, StartInv, StoreInv, AnswerInv, [Next]_vars
             PROVE  AnswerInv'
    OBVIOUS
<1> USE DEF reading, history
<1>a. "sync" \in Threads /\ "sync" \notin Users /\ Users \subseteq Threads
      BY ControlAssumption DEF Threads
<1>1. CASE ReadyDraw
  <2>1. UNCHANGED <<mbQMIReady, wrong, swept>>
        BY <1>1 DEF ReadyDraw
  <2>2. pc'["sync"] # "finished" => pc["sync"] # "finished"
        BY <1>1, <1>a, SMT DEF TypeOK, ReadyDraw, QMIGetTransactionID, Add, Go, NextPlace
  <2> QED  BY <2>1, <2>2 DEF AnswerInv, OwnAnswer, Number
<1>2. CASE ReadyAsk
  <2>1. UNCHANGED <<mbQMIReady, wrong, swept>>
        BY <1>2 DEF ReadyAsk
  <2>2. pc'["sync"] # "finished" => pc["sync"] # "finished"
        BY <1>2, <1>a, SMT DEF TypeOK, ReadyAsk, Go
  <2> QED  BY <2>1, <2>2 DEF AnswerInv, OwnAnswer, Number
<1>3. CASE ReadyWrite
  <2>1. UNCHANGED <<mbQMIReady, wrong, swept>>
        BY <1>3 DEF ReadyWrite
  <2>2. pc'["sync"] # "finished" => pc["sync"] # "finished"
        BY <1>3, <1>a, SMT DEF TypeOK, ReadyWrite, Go, Write
  <2> QED  BY <2>1, <2>2 DEF AnswerInv, OwnAnswer, Number
<1>4. CASE ReadyLook
  <2>1. UNCHANGED <<mbQMIReady, wrong, swept>>
        BY <1>4 DEF ReadyLook
  <2>2. pc'["sync"] # "finished" => pc["sync"] # "finished"
        BY <1>4, <1>a, SMT DEF TypeOK, ReadyLook, Go
  <2> QED  BY <2>1, <2>2 DEF AnswerInv, OwnAnswer, Number
<1>5. CASE ReadyPop
  <2>1. UNCHANGED <<mbQMIReady, swept>> /\ pc["sync"] = "pop" /\ ~mbQMIReady
        BY <1>5 DEF ReadyPop, StartInv
  <2>2. wrong' = wrong
    <3>1. CASE Has(request["sync"])
      <4>1. /\ Take(request["sync"]) /\ request["sync"] \in Nat
            BY <1>5, <1>a, <3>1 DEF ReadyPop, TypeOK
      <4>2. PICK m \in ToSet(mpList) :
                /\ m \in Nat /\ Wanted(request["sync"], m)
                /\ wrong' = wrong \cup ({<<request["sync"], m>>} \
                                        {<<request["sync"], request["sync"]>>})
            BY <3>1, <4>1, TakeDoes
      <4>3. m = request["sync"]
            BY <2>1, <4>2, SyncTakesOwn
      <4> QED  BY <4>2, <4>3
    <3>2. CASE ~Has(request["sync"])
          BY <1>5, <3>2 DEF ReadyPop
    <3> QED  BY <3>1, <3>2
  <2> QED  BY <2>1, <2>2 DEF AnswerInv, OwnAnswer, Number
<1>6. CASE ReadyCancel
  <2>1. UNCHANGED <<mbQMIReady, wrong, swept>>
        BY <1>6 DEF ReadyCancel
  <2>2. pc'["sync"] # "finished" => pc["sync"] # "finished"
        BY <1>6, <1>a, SMT DEF TypeOK, ReadyCancel, Go, NextRound
  <2> QED  BY <2>1, <2>2 DEF AnswerInv, OwnAnswer, Number
<1>7. ASSUME NEW t \in Threads, Draw(t) PROVE AnswerInv'
  <2>1. UNCHANGED <<mbQMIReady, wrong, swept>>
        BY <1>7 DEF Draw
  <2>2. pc'["sync"] # "finished" => pc["sync"] # "finished"
        BY <1>7, <1>a, SMT DEF TypeOK, Draw, QMIGetTransactionID, Add, Go, NextPlace, MayAsk
  <2> QED  BY <2>1, <2>2 DEF AnswerInv, OwnAnswer, Number
<1>8. ASSUME NEW t \in Threads, Redraw(t) PROVE AnswerInv'
  <2>1. UNCHANGED <<mbQMIReady, wrong, swept>>
        BY <1>8 DEF Redraw
  <2>2. pc'["sync"] # "finished" => pc["sync"] # "finished"
        BY <1>8, <1>a, SMT DEF TypeOK, Redraw, DrawAgain, Add, Go
  <2> QED  BY <2>1, <2>2 DEF AnswerInv, OwnAnswer, Number
<1>9. ASSUME NEW t \in Threads, Send(t) PROVE AnswerInv'
  <2>1. UNCHANGED <<mbQMIReady, wrong, swept>>
        BY <1>9 DEF Send
  <2>2. pc'["sync"] # "finished" => pc["sync"] # "finished"
        BY <1>9, <1>a, SMT DEF TypeOK, Send, Go, Write, Failed
  <2> QED  BY <2>1, <2>2 DEF AnswerInv, OwnAnswer, Number
<1>10. ASSUME NEW t \in Threads, Receive(t) PROVE AnswerInv'
  <2>1. UNCHANGED <<mbQMIReady, swept>> /\ OwnAnswer'
        BY <1>10, AnswerTaken DEF Receive
  <2>2. CASE t = "sync"
    <3>1. pc["sync"] = "read" /\ ~mbQMIReady /\ request["sync"] \in Nat
          BY <1>10, <1>a, <2>2 DEF Receive, StartInv, TypeOK
    <3>2. PICK m \in ToSet(mpList) :
              /\ m \in Nat /\ Wanted(request["sync"], m)
              /\ wrong' = wrong \cup ({<<request["sync"], m>>} \
                                      {<<request["sync"], request["sync"]>>})
          BY <1>10, <2>2, <3>1, TakeDoes DEF Receive
    <3>3. m = request["sync"]
          BY <3>1, <3>2, SyncTakesOwn
    <3>4. wrong' = wrong
          BY <3>2, <3>3
    <3> QED  BY <2>1, <3>1, <3>4 DEF AnswerInv
  <2>3. CASE t # "sync"
    <3>1. mbQMIReady /\ pc["sync"] = "finished" /\ pc'["sync"] = pc["sync"]
          BY <1>10, <2>3, UserStarts DEF Threads, Request
    <3> QED  BY <2>1, <3>1 DEF AnswerInv
  <2> QED  BY <2>2, <2>3
<1>11. ASSUME NEW t \in Threads, Interrupted(t) PROVE AnswerInv'
  <2>1. UNCHANGED <<mbQMIReady, wrong, swept>>
        BY <1>11 DEF Interrupted
  <2>2. pc'["sync"] # "finished" => pc["sync"] # "finished"
        BY <1>11, <1>a, SMT DEF TypeOK, Interrupted, Go, Failed
  <2> QED  BY <2>1, <2>2 DEF AnswerInv, OwnAnswer, Number
<1>12. CASE Flush
  <2>1. wrong = {} /\ wrong' = wrong /\ pc'["sync"] = "finished"
        BY <1>12, <1>a DEF Flush, Go, StartInv, AnswerInv, TypeOK
  <2> QED  BY <2>1 DEF AnswerInv, OwnAnswer
<1>13. CASE Finish
      BY <1>13 DEF Finish, AnswerInv, OwnAnswer, Number
<1>14. CASE ReadCallback
  <2>1. UNCHANGED <<mbQMIReady, wrong, swept>>
        BY <1>14 DEF ReadCallback
  <2>2. pc'["sync"] # "finished" => pc["sync"] # "finished"
        BY <1>14, <1>a, SMT DEF TypeOK, ReadCallback
  <2> QED  BY <2>1, <2>2 DEF AnswerInv, OwnAnswer, Number
<1>15. CASE UpSem
  <2>1. UNCHANGED <<mbQMIReady, wrong, swept>>
        BY <1>15 DEF UpSem
  <2>2. pc'["sync"] # "finished" => pc["sync"] # "finished"
        BY <1>15, <1>a, SMT DEF TypeOK, UpSem
  <2> QED  BY <2>1, <2>2 DEF AnswerInv, OwnAnswer, Number
<1>16. CASE UNCHANGED vars
      BY <1>16 DEF vars, AnswerInv, OwnAnswer, Number
<1> QED
    BY <1>1, <1>2, <1>3, <1>4, <1>5, <1>6, <1>7, <1>8, <1>9, <1>10, <1>11, <1>12, <1>13, <1>14, <1>15, <1>16
    DEF Next, QMIReady, QMICTLSyncProc, Request, Threads

\* A request takes no other request's answer unless all numbers were drawn since,
\* and none that was in the store when QMICTLSyncProc emptied it.
THEOREM AnswersAreOwn == Spec => []OwnAnswer
<1>1. AnswerInv => OwnAnswer
      BY DEF AnswerInv
<1> QED
    BY <1>1, InitTypes, TypeStep, InitDrawn, DrawnStep, InitStart, StartStep,
       InitStore, StoreStep, InitAnswer, AnswerStep, PTL DEF Spec

-----------------------------------------------------------------------------
(* QMIReady leaves no entry of its own on the notify list.                 *)

\* Unless an UpSem was taken for one of the next round, the list holds at most
\* the entry of this round, and not once its semaphore is up or is about to be.
ReadyInv ==
    /\ upSem <= mQMICTLTransactionID
    /\ \A i \in 1 .. Len(mpReadNotifyList) : mpReadNotifyList[i] <= mQMICTLTransactionID
    /\ ~crossed =>
           /\ pc["sync"] = "ask" => readSem = 0 /\ upSem # request["sync"]
           /\ mpReadNotifyList = <<>> \/ /\ pc["sync"] \in {"write", "sleep", "cancel"}
                                         /\ mpReadNotifyList = <<request["sync"]>>
           /\ pc["sync"] \in {"write", "sleep"} /\ mpReadNotifyList # <<>> =>
                  readSem = 0 /\ upSem # request["sync"]

LEMMA InitReady == Init => ReadyInv
<1> SUFFICES ASSUME Init PROVE ReadyInv
    OBVIOUS
<1>1. mpReadNotifyList = <<>> /\ upSem = 0 /\ mQMICTLTransactionID = 1
      BY DEF Init
<1>2. 1 .. Len(mpReadNotifyList) = {}
      BY <1>1
<1>3. pc["sync"] = "draw"
      BY DEF Init, Threads
<1> QED  BY <1>1, <1>2, <1>3, SMT DEF ReadyInv

LEMMA OneEntryRemoved ==
    ASSUME NEW s \in Seq(Nat), NEW i \in 1 .. Len(s),
           NEW x \in Nat, s = <<>> \/ s = <<x>>
    PROVE  RemoveAt(s, i) = <<>> /\ s[i] = x
<1>1. s # <<>>
      OBVIOUS
<1>2. s = <<x>> /\ Len(s) = 1
      BY <1>1
<1>3. i = 1 /\ s[i] = x
      BY <1>2
<1>4. RemoveAt(s, i) \in Seq(Nat) /\ Len(RemoveAt(s, i)) = Len(s) - 1
      BY RemoveAtFacts
<1> QED  BY <1>2, <1>3, <1>4

\* The list after an entry is taken off.
LEMMA EntriesLess ==
    ASSUME NEW n \in Nat, NEW s \in Seq(Nat), NEW i \in 1 .. Len(s),
           \A k \in 1 .. Len(s) : s[k] <= n
    PROVE  \A k \in 1 .. Len(RemoveAt(s, i)) : RemoveAt(s, i)[k] <= n
<1> DEFINE q == RemoveAt(s, i)
<1>1. q \in Seq(Nat) /\ ToSet(q) \subseteq ToSet(s)
      BY RemoveAtFacts
<1> HIDE DEF q
<1>2. \A k \in 1 .. Len(q) : q[k] \in ToSet(q)
      BY <1>1 DEF ToSet
<1>3. \A y \in ToSet(s) : y <= n
      BY DEF ToSet
<1>4. \A k \in 1 .. Len(q) : q[k] <= n
      BY <1>1, <1>2, <1>3
<1> QED  BY <1>4 DEF q

LEMMA ReadyStep == TypeOK /\ DrawnInv /\ ReadyInv /\ [Next]_vars => ReadyInv'
<1> SUFFICES ASSUME TypeOK, DrawnInv, ReadyInv, [Next]_vars PROVE ReadyInv'
    OBVIOUS
<1> USE DEF reading, history
<1>a. "sync" \in Threads /\ "sync" \notin Users /\ Users \subseteq Threads
      BY ControlAssumption DEF Threads
<1>b. /\ mQMICTLTransactionID \in Nat /\ upSem \in Nat /\ readSem \in Nat
      /\ request["sync"] \in Nat /\ request["sync"] <= mQMICTLTransactionID
      /\ mpReadNotifyList \in Seq(Nat)
      /\ \A i \in 1 .. Len(mpReadNotifyList) : mpReadNotifyList[i] \in Nat
      BY <1>a DEF TypeOK, DrawnInv
<1>1. CASE ReadyDraw
      BY <1>1, <1>a, <1>b, SMT DEF TypeOK, ReadyInv, ReadyDraw, QMIGetTransactionID, Add, Go, NextPlace
<1>2. CASE ReadyAsk
  <2>1. /\ pc["sync"] = "ask" /\ pc'["sync"] = "write"
        /\ UNCHANGED <<mQMICTLTransactionID, request, upSem, crossed>>
        BY <1>2, <1>a DEF TypeOK, ReadyAsk, Go
  <2>2. CASE mpReadNotifyList' = mpReadNotifyList
    <3>1. ~crossed => mpReadNotifyList = <<>>
          BY <2>1 DEF ReadyInv
    <3> QED  BY <2>1, <2>2, <3>1, Zenon DEF ReadyInv
  <2>3. CASE /\ mpReadNotifyList' = Append(mpReadNotifyList, request["sync"])
             /\ readSem' = readSem
    <3>1. \A i \in 1 .. Len(mpReadNotifyList') : mpReadNotifyList'[i] <= mQMICTLTransactionID
      <4>1. /\ Len(mpReadNotifyList') = Len(mpReadNotifyList) + 1 /\ Len(mpReadNotifyList) \in Nat
            /\ \A i \in 1 .. Len(mpReadNotifyList) : mpReadNotifyList'[i] = mpReadNotifyList[i]
            /\ mpReadNotifyList'[Len(mpReadNotifyList) + 1] = request["sync"]
            BY <1>b, <2>3
      <4>2. \A i \in 1 .. Len(mpReadNotifyList') :
                i \in 1 .. Len(mpReadNotifyList) \/ i = Len(mpReadNotifyList) + 1
            BY <4>1
      <4> QED  BY <1>b, <4>1, <4>2 DEF ReadyInv
    <3>2. ~crossed => mpReadNotifyList' = <<request["sync"]>>
          BY <2>1, <2>3 DEF ReadyInv
    <3> QED  BY <2>1, <2>3, <3>1, <3>2, SMT DEF ReadyInv
  <2> QED  BY <1>2, <2>2, <2>3, Zenon DEF ReadyAsk
<1>3. CASE ReadyWrite
      BY <1>3, <1>a, <1>b, SMT DEF TypeOK, ReadyInv, ReadyWrite, Go, Write
<1>4. CASE ReadyLook
      BY <1>4, <1>a, <1>b, SMT DEF TypeOK, ReadyInv, ReadyLook, Go
<1>5. CASE ReadyPop
      BY <1>5, <1>a, <1>b, SMT DEF TypeOK, ReadyInv, ReadyPop, Go, NextRound, Take
<1>6. CASE ReadyCancel
  <2>1. /\ pc["sync"] = "cancel" /\ pc'["sync"] \in {"draw", "finished"}
        /\ UNCHANGED <<mQMICTLTransactionID, request, upSem, crossed>>
        BY <1>6, <1>a, SMT DEF TypeOK, ReadyCancel, NextRound, Go
  <2>2. \A i \in 1 .. Len(mpReadNotifyList') : mpReadNotifyList'[i] <= mQMICTLTransactionID
        BY <1>6, <1>b, CancelDoes, EntriesLess DEF ReadyInv
  <2>3. ASSUME ~crossed PROVE mpReadNotifyList' = <<>>
    <3>1. mpReadNotifyList = <<>> \/ mpReadNotifyList = <<request["sync"]>>
          BY <2>3 DEF ReadyInv
    <3>2. CASE mpReadNotifyList' = mpReadNotifyList /\ FirstEntry(request["sync"]) = 0
      <4>1. CASE mpReadNotifyList = <<request["sync"]>>
        <5>1. 1 \in 1 .. Len(mpReadNotifyList) /\ mpReadNotifyList[1] = request["sync"]
              BY <4>1
        <5>2. Matches(mpReadNotifyList[1], request["sync"])
              BY <5>1 DEF Matches
        <5> QED  BY <3>2, <5>1, <5>2, FirstEntryFacts
      <4> QED  BY <3>1, <3>2, <4>1
    <3>3. CASE \E i \in 1 .. Len(mpReadNotifyList) :
                   mpReadNotifyList' = RemoveAt(mpReadNotifyList, i)
          BY <1>b, <3>1, <3>3, OneEntryRemoved
    <3> QED  BY <1>6, <3>2, <3>3, FirstEntryFacts DEF ReadyCancel
  <2> QED  BY <1>b, <2>1, <2>2, <2>3, Zenon DEF ReadyInv
<1>7. ASSUME NEW t \in Threads, Draw(t) PROVE ReadyInv'
      BY <1>7, <1>a, <1>b, SMTT(20) DEF TypeOK, ReadyInv, Draw, QMIGetTransactionID, Add, Go, NextPlace, MayAsk
<1>8. ASSUME NEW t \in Threads, Redraw(t) PROVE ReadyInv'
      BY <1>8, <1>a, <1>b, SMTT(20) DEF TypeOK, ReadyInv, Redraw, DrawAgain, Add, Go
<1>9. ASSUME NEW t \in Threads, Send(t) PROVE ReadyInv'
      BY <1>9, <1>a, <1>b, SMT DEF TypeOK, ReadyInv, Send, Go, Write, Failed
<1>10. ASSUME NEW t \in Threads, Receive(t) PROVE ReadyInv'
      BY <1>10, <1>a, <1>b, SMT DEF TypeOK, ReadyInv, Receive, Go, Take, Answered, Failed
<1>11. ASSUME NEW t \in Threads, Interrupted(t) PROVE ReadyInv'
      BY <1>11, <1>a, <1>b, SMT DEF TypeOK, ReadyInv, Interrupted, Go, Failed
<1>12. CASE Flush
      BY <1>12, <1>a, <1>b, SMT DEF TypeOK, ReadyInv, Flush, Go
<1>13. CASE Finish
      BY <1>13, <1>a, <1>b, SMT DEF TypeOK, ReadyInv, Finish
<1>14. CASE ReadCallback
  <2>1. UNCHANGED <<mQMICTLTransactionID, pc, request, readSem, crossed>>
        BY <1>14 DEF ReadCallback
  <2>2. PICK r \in Nat : Deliver(r)
        BY <1>14 DEF ReadCallback, TypeOK
  <2>3. CASE UNCHANGED <<upSem, mpReadNotifyList>>
        BY <2>1, <2>3, Zenon DEF ReadyInv
  <2>4. CASE \E i \in 1 .. Len(mpReadNotifyList) :
                 /\ upSem' = mpReadNotifyList[i]
                 /\ mpReadNotifyList' = RemoveAt(mpReadNotifyList, i)
    <3>1. PICK i \in 1 .. Len(mpReadNotifyList) :
              /\ upSem' = mpReadNotifyList[i]
              /\ mpReadNotifyList' = RemoveAt(mpReadNotifyList, i)
          BY <2>4
    <3>2. upSem' <= mQMICTLTransactionID
          /\ \A k \in 1 .. Len(mpReadNotifyList') : mpReadNotifyList'[k] <= mQMICTLTransactionID
          BY <1>b, <3>1, EntriesLess DEF ReadyInv
    <3>3. ~crossed => mpReadNotifyList' = <<>> /\ pc["sync"] # "ask"
      <4>1. mpReadNotifyList # <<>>
            BY <3>1
      <4>2. ~crossed => mpReadNotifyList = <<request["sync"]>> /\ pc["sync"] # "ask"
            BY <4>1 DEF ReadyInv
      <4> QED  BY <1>b, <3>1, <4>2, OneEntryRemoved
    <3> QED  BY <2>1, <3>2, <3>3, Zenon DEF ReadyInv
  <2> QED  BY <2>2, <2>3, <2>4, DeliverDoes
<1>15. CASE UpSem
  <2>1. /\ upSem > 0 /\ upSem' = 0 /\ readSem' = readSem + 1
        /\ UNCHANGED <<mQMICTLTransactionID, pc, request, mpReadNotifyList>>
        BY <1>15 DEF UpSem
  <2>2. ~crossed' => ~crossed /\ request["sync"] = upSem /\ pc["sync"] \in {"write", "sleep"}
        BY <1>15, Zenon DEF UpSem, LookedFor
  <2>3. ~crossed' => mpReadNotifyList = <<>>
        BY <2>2 DEF ReadyInv
  <2>4. upSem' <= mQMICTLTransactionID
        BY <1>b, <2>1
  <2>5. ~crossed' => pc["sync"] # "ask"
        BY <2>2
  <2> QED  BY <2>1, <2>3, <2>4, <2>5, Zenon DEF ReadyInv
<1>16. CASE UNCHANGED vars
      BY <1>16 DEF vars, TypeOK, ReadyInv
<1> QED
    BY <1>1, <1>2, <1>3, <1>4, <1>5, <1>6, <1>7, <1>8, <1>9, <1>10, <1>11, <1>12, <1>13, <1>14, <1>15, <1>16
    DEF Next, QMIReady, QMICTLSyncProc, Request, Threads

\* When QMIReady has returned, no entry on the notify list has the semaphore of
\* its stack, unless an UpSem was taken for one of the next round.
THEOREM ReadyAlwaysLeavesNothing == Spec => []ReadyLeavesNothing
<1>1. ReadyInv => ReadyLeavesNothing
      BY DEF ReadyInv, ReadyLeavesNothing, Asked
<1> QED
    BY <1>1, InitTypes, TypeStep, InitDrawn, DrawnStep, InitReady, ReadyStep, PTL DEF Spec
=============================================================================
