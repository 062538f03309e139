---------------------------- MODULE TxThreadProofs ----------------------------
(***************************************************************************)
(* Proofs about TxThread, for any number of packets, sessions, timeouts    *)
(* and suspends and any length of the queue: packets go out in order and   *)
(* none is forgotten, the thread does not sleep on a queued packet, and    *)
(* the power references are those of the transfers.                        *)
(***************************************************************************)
EXTENDS TxThread, FiniteSetTheorems, SequenceTheorems, TLAPS

-----------------------------------------------------------------------------
(* Sequences of packets.                                                   *)

Rising(s) == \A i, j \in DOMAIN s : i < j => s[i] < s[j]
AllBelow(s, n) == \A i \in DOMAIN s : s[i] < n
AllAbove(s, n) == \A i \in DOMAIN s : n < s[i]

\* What StartXmit and Submit do to a sequence.
LEMMA AppendFacts ==
    ASSUME NEW S, NEW s \in Seq(S), NEW x \in S
    PROVE  /\ Append(s, x) \in Seq(S)
           /\ Len(Append(s, x)) = Len(s) + 1
           /\ DOMAIN Append(s, x) = 1 .. Len(s) + 1
           /\ \A i \in DOMAIN s : Append(s, x)[i] = s[i]
           /\ Append(s, x)[Len(s) + 1] = x
           /\ ToSet(Append(s, x)) = ToSet(s) \cup {x}
<1>1. /\ Append(s, x) \in Seq(S) /\ Len(Append(s, x)) = Len(s) + 1 /\ Len(s) \in Nat
      /\ DOMAIN Append(s, x) = 1 .. Len(s) + 1 /\ DOMAIN s = 1 .. Len(s)
      /\ \A i \in 1 .. Len(s) : Append(s, x)[i] = s[i]
      /\ Append(s, x)[Len(s) + 1] = x
      OBVIOUS
<1>2. ToSet(Append(s, x)) = ToSet(s) \cup {x}
  <2>1. \A i \in 1 .. Len(s) + 1 : i \in 1 .. Len(s) \/ i = Len(s) + 1
        BY <1>1
  <2>2. \A i \in 1 .. Len(s) : i \in 1 .. Len(s) + 1
        BY <1>1
  <2>3. Len(s) + 1 \in 1 .. Len(s) + 1
        BY <1>1
  <2> QED  BY <1>1, <2>1, <2>2, <2>3 DEF ToSet
<1> QED  BY <1>1, <1>2

LEMMA AppendRises ==
    ASSUME NEW s \in Seq(Nat), NEW x \in Nat, Rising(s), AllBelow(s, x)
    PROVE  Rising(Append(s, x))
BY AppendFacts DEF Rising, AllBelow

\* What TakeNext does to the queue.
LEMMA TailFacts ==
    ASSUME NEW S, NEW s \in Seq(S), s # <<>>
    PROVE  /\ Head(s) \in S /\ Tail(s) \in Seq(S) /\ Head(s) = s[1]
           /\ Len(Tail(s)) = Len(s) - 1 /\ Len(s) > 0
           /\ DOMAIN Tail(s) = 1 .. Len(s) - 1
           /\ \A i \in DOMAIN Tail(s) : Tail(s)[i] = s[i + 1]
           /\ ToSet(s) = {Head(s)} \cup ToSet(Tail(s))
<1>1. /\ Head(s) \in S /\ Tail(s) \in Seq(S) /\ Head(s) = s[1]
      /\ Len(Tail(s)) = Len(s) - 1 /\ Len(s) \in Nat \ {0} /\ DOMAIN s = 1 .. Len(s)
      /\ DOMAIN Tail(s) = 1 .. Len(s) - 1
      /\ \A i \in 1 .. Len(s) - 1 : Tail(s)[i] = s[i + 1]
      OBVIOUS
<1>2. ToSet(s) = {Head(s)} \cup ToSet(Tail(s))
  <2>1. ASSUME NEW i \in 1 .. Len(s), i # 1
        PROVE  i - 1 \in 1 .. Len(s) - 1 /\ s[i] = Tail(s)[i - 1]
    <3>1. i - 1 \in 1 .. Len(s) - 1 /\ i - 1 + 1 = i
          BY <1>1, <2>1
    <3> QED  BY <1>1, <3>1
  <2>2. \A i \in 1 .. Len(s) - 1 : i + 1 \in 1 .. Len(s)
        BY <1>1
  <2>3. 1 \in 1 .. Len(s)
        BY <1>1
  <2>4. ASSUME NEW y \in ToSet(s)
        PROVE  y \in {Head(s)} \cup ToSet(Tail(s))
    <3>1. PICK i \in 1 .. Len(s) : s[i] = y
          BY <1>1, <2>4 DEF ToSet
    <3>2. CASE i = 1
          BY <1>1, <3>1, <3>2
    <3>3. CASE i # 1
          BY <1>1, <2>1, <3>1, <3>3 DEF ToSet
    <3> QED  BY <3>2, <3>3
  <2>5. ToSet(Tail(s)) \subseteq ToSet(s)
        BY <1>1, <2>2 DEF ToSet
  <2>6. Head(s) \in ToSet(s)
        BY <1>1, <2>3 DEF ToSet
  <2> QED  BY <2>4, <2>5, <2>6
<1> QED  BY <1>1, <1>2

LEMMA TailRises ==
    ASSUME NEW s \in Seq(Nat), s # <<>>, Rising(s)
    PROVE  Rising(Tail(s)) /\ AllAbove(Tail(s), Head(s))
<1>1. /\ Head(s) = s[1] /\ DOMAIN Tail(s) = 1 .. Len(s) - 1
      /\ \A i \in 1 .. Len(s) - 1 : Tail(s)[i] = s[i + 1]
      /\ DOMAIN s = 1 .. Len(s) /\ Len(s) \in Nat
      BY TailFacts
<1>2. \A i \in 1 .. Len(s) - 1 : i + 1 \in 1 .. Len(s) /\ 1 < i + 1 /\ 1 \in 1 .. Len(s)
      BY <1>1
<1>3. AllAbove(Tail(s), Head(s))
      BY <1>1, <1>2 DEF AllAbove, Rising
<1>4. Rising(Tail(s))
  <2> SUFFICES ASSUME NEW i \in 1 .. Len(s) - 1, NEW j \in 1 .. Len(s) - 1, i < j
               PROVE  Tail(s)[i] < Tail(s)[j]
      BY <1>1 DEF Rising
  <2>1. i + 1 < j + 1
        OBVIOUS
  <2> QED  BY <1>1, <1>2, <2>1 DEF Rising
<1> QED  BY <1>3, <1>4

\* What PutBack does to the queue.
LEMMA PutBackFacts ==
    ASSUME NEW S, NEW s \in Seq(S), NEW x \in S
    PROVE  /\ <<x>> \o s \in Seq(S)
           /\ Len(<<x>> \o s) = Len(s) + 1
           /\ DOMAIN (<<x>> \o s) = 1 .. Len(s) + 1
           /\ (<<x>> \o s)[1] = x
           /\ \A i \in DOMAIN (<<x>> \o s) :
                  i # 1 => i - 1 \in DOMAIN s /\ (<<x>> \o s)[i] = s[i - 1]
           /\ ToSet(<<x>> \o s) = {x} \cup ToSet(s)
<1> DEFINE q == <<x>> \o s
<1>1. /\ q \in Seq(S) /\ Len(q) = Len(s) + 1 /\ Len(s) \in Nat
      /\ DOMAIN q = 1 .. Len(s) + 1 /\ DOMAIN s = 1 .. Len(s)
      OBVIOUS
<1>2. q[1] = x
      OBVIOUS
<1>3. \A i \in 1 .. Len(s) + 1 : i # 1 => i - 1 \in 1 .. Len(s) /\ q[i] = s[i - 1]
      OBVIOUS
<1> HIDE DEF q
<1>4. ToSet(q) = {x} \cup ToSet(s)
  <2>1. \A i \in 1 .. Len(s) : i + 1 \in 1 .. Len(s) + 1 /\ i + 1 # 1 /\ i + 1 - 1 = i
        BY <1>1
  <2>2. \A i \in 1 .. Len(s) : q[i + 1] = s[i]
        BY <1>3, <2>1
  <2>3. 1 \in 1 .. Len(s) + 1
        BY <1>1
  <2>4. ASSUME NEW y \in ToSet(q)
        PROVE  y \in {x} \cup ToSet(s)
    <3>1. PICK i \in 1 .. Len(s) + 1 : q[i] = y
          BY <1>1, <2>4 DEF ToSet
    <3>2. CASE i = 1
          BY <1>2, <3>1, <3>2
    <3>3. CASE i # 1
          BY <1>1, <1>3, <3>1, <3>3 DEF ToSet
    <3> QED  BY <3>2, <3>3
  <2>5. ToSet(s) \subseteq ToSet(q)
        BY <1>1, <2>1, <2>2 DEF ToSet
  <2>6. x \in ToSet(q)
        BY <1>1, <1>2, <2>3 DEF ToSet
  <2> QED  BY <2>4, <2>5, <2>6
<1> QED  BY <1>1, <1>2, <1>3, <1>4 DEF q

LEMMA PutBackRises ==
    ASSUME NEW s \in Seq(Nat), NEW x \in Nat, Rising(s), AllAbove(s, x)
    PROVE  Rising(<<x>> \o s)
<1> DEFINE q == <<x>> \o s
<1>1. /\ DOMAIN q = 1 .. Len(s) + 1 /\ q[1] = x /\ Len(s) \in Nat
      /\ \A i \in 1 .. Len(s) + 1 : i # 1 => i - 1 \in DOMAIN s /\ q[i] = s[i - 1]
      BY PutBackFacts
<1> HIDE DEF q
<1> SUFFICES ASSUME NEW i \in 1 .. Len(s) + 1, NEW j \in 1 .. Len(s) + 1, i < j
             PROVE  q[i] < q[j]
    BY <1>1 DEF Rising, q
<1>2. j # 1 /\ j - 1 \in DOMAIN s /\ q[j] = s[j - 1]
      BY <1>1
<1>3. CASE i = 1
      BY <1>1, <1>2, <1>3 DEF AllAbove
<1>4. CASE i # 1
  <2>1. i - 1 \in DOMAIN s /\ q[i] = s[i - 1] /\ i - 1 < j - 1
        BY <1>1, <1>4
  <2> QED  BY <1>2, <2>1 DEF Rising
<1> QED  BY <1>3, <1>4
-----------------------------------------------------------------------------
(* Types, and the packet in hand.                                          *)

Handling == {"get", "putback", "submit"}

\* The thread holds a packet while it handles one, and that packet is the active
\* one unless a callback has put its mark there; a packet is active until
\* ForgetActive; the thread is gone when the interface is closed.
HandInv ==
    /\ pURBListEntry # NULL <=> thread \in Handling
    /\ thread \in Handling => mpActiveURB \in {pURBListEntry, EAGAIN}
    /\ thread = "unset" => mpActiveURB # NULL
    /\ ctl = "closed" => thread = "none"

LEMMA InitHand == Init => TypeOK /\ HandInv
<1> SUFFICES ASSUME Init PROVE TypeOK /\ HandInv
    OBVIOUS
<1>1. Packets = {} /\ <<>> \in Seq(Packets)
      BY DEF Init, Packets
<1>2. TypeOK
  <2>1. pURB \in [Killers -> Packets \cup {NULL, EAGAIN}]
        BY DEF Init
  <2>2. unkicked \in BOOLEAN /\ left \in BOOLEAN /\ mbExit \in BOOLEAN /\ suspended \in BOOLEAN
        BY Zenon DEF Init
  <2>3. oops \subseteq Killers \cup {"submit"} /\ flying \subseteq Packets /\ lost \subseteq Packets
        BY Zenon DEF Init
  <2>4. mpURBList \in Seq(Packets) /\ sent \in Seq(Packets)
        BY <1>1, Zenon DEF Init
  <2>5. {accepted, opens, timeouts, suspends} \subseteq Nat /\ mThreadDoWork \in Nat
        /\ pm \in Int /\ unpaid \in Nat
        BY DEF Init
  <2>6. /\ ctl \in {"closed", "open", "stopping"} /\ timeout \in {"idle", "kill", "clear"}
        /\ thread \in {"none", "top", "wait", "woken", "relock", "get", "putback",
                       "unset", "submit", "exit", "kill", "clear"}
        /\ mpActiveURB \in Packets \cup {NULL, EAGAIN} /\ pURBListEntry \in Packets \cup {NULL}
        BY Zenon DEF Init
  <2> QED  BY <2>1, <2>2, <2>3, <2>4, <2>5, <2>6 DEF TypeOK
<1>3. HandInv
      BY TxThreadAssumption, SMT DEF Init, HandInv, Handling
<1> QED  BY <1>2, <1>3

\* What a sequence of packets consists of.
LEMMA ToSetIn ==
    ASSUME NEW S, NEW s \in Seq(S) PROVE ToSet(s) \subseteq S
<1>1. \A i \in DOMAIN s : s[i] \in S
      OBVIOUS
<1> QED  BY <1>1 DEF ToSet

LEMMA HandStep == TypeOK /\ HandInv /\ [Next]_vars => TypeOK' /\ HandInv'
<1> SUFFICES ASSUME TypeOK, HandInv, [Next]_vars PROVE TypeOK' /\ HandInv'
    OBVIOUS
<1> USE TxThreadAssumption
<1> USE DEF iface, work, queue, killing, power, counts, ends
<1>1. CASE GobiUSBNetOpen
  <2>1. Packets' = Packets
        BY <1>1 DEF Packets, GobiUSBNetOpen
  <2>2. ToSet(mpURBList) \subseteq Packets /\ <<>> \in Seq(Packets)
        BY ToSetIn DEF TypeOK
  <2>3. lost' \subseteq Packets /\ mpURBList' \in Seq(Packets)
        BY <1>1, <2>2 DEF TypeOK, GobiUSBNetOpen
  <2>4. mbExit' \in BOOLEAN
        BY <1>1, Zenon DEF GobiUSBNetOpen
  <2>5. TypeOK'
        BY <1>1, <2>1, <2>3, <2>4, SMT DEF TypeOK, Killers, GobiUSBNetOpen
  <2>6. HandInv'
        BY <1>1, <2>1, SMTT(20) DEF TypeOK, HandInv, Handling, Packets, Killers, GobiUSBNetOpen
  <2> QED  BY <2>5, <2>6
<1>2. CASE GobiUSBNetStartXmit
  <2>1. /\ Packets \subseteq Packets' /\ accepted' \in Packets' /\ accepted' \in Nat
           /\ Seq(Packets) \subseteq Seq(Packets')
        BY <1>2, SMTT(20) DEF TypeOK, Packets, GobiUSBNetStartXmit
  <2>2. mpURBList' \in Seq(Packets')
        BY <1>2, <2>1, SMT DEF TypeOK, GobiUSBNetStartXmit
  <2>3. mThreadDoWork' \in Nat
        BY <1>2, SMT DEF TypeOK, GobiUSBNetStartXmit, complete
  <2>4. unkicked' \in BOOLEAN
        BY <1>2, Zenon DEF TypeOK, GobiUSBNetStartXmit, complete
  <2>5. /\ sent' \in Seq(Packets') /\ flying' \subseteq Packets' /\ lost' \subseteq Packets'
        /\ mpActiveURB' \in Packets' \cup {NULL, EAGAIN} /\ pURBListEntry' \in Packets' \cup {NULL}
        BY <1>2, <2>1 DEF TypeOK, GobiUSBNetStartXmit
  <2>6. pURB' \in [Killers -> Packets' \cup {NULL, EAGAIN}]
    <3>1. [Killers -> Packets \cup {NULL, EAGAIN}] \subseteq [Killers -> Packets' \cup {NULL, EAGAIN}]
          BY <2>1, Zenon
    <3> QED  BY <1>2, <3>1 DEF TypeOK, GobiUSBNetStartXmit
  <2>7. /\ UNCHANGED <<ctl, mbExit, suspended, thread, timeout, pm, unpaid, left, oops, opens,
                       timeouts, suspends>>
        BY <1>2 DEF GobiUSBNetStartXmit
  <2>8. TypeOK'
        BY <2>1, <2>2, <2>3, <2>4, <2>5, <2>6, <2>7 DEF TypeOK
  <2>9. HandInv'
        BY <1>2, <2>1, SMT DEF TypeOK, HandInv, Handling, Packets, Killers, GobiUSBNetStartXmit, complete
  <2> QED  BY <2>8, <2>9
<1>3. CASE GobiUSBNetStop
  <2>1. Packets' = Packets
        BY <1>3 DEF Packets, GobiUSBNetStop, complete
  <2>2. mThreadDoWork' \in Nat
        BY <1>3, SMT DEF TypeOK, GobiUSBNetStop, complete
  <2>3. unkicked' \in BOOLEAN
        BY <1>3, Zenon DEF TypeOK, GobiUSBNetStop, complete
  <2>4. TypeOK'
        BY <1>3, <2>1, <2>2, <2>3, SMT DEF TypeOK, Killers, GobiUSBNetStop, complete
  <2>5. HandInv'
        BY <1>3, <2>1, SMT DEF TypeOK, HandInv, Handling, Packets, Killers, GobiUSBNetStop, complete
  <2> QED  BY <2>4, <2>5
<1>4. CASE StopReturns
  <2>1. Packets' = Packets
        BY <1>4 DEF Packets, StopReturns
  <2>2. TypeOK'
        BY <1>4, <2>1, SMT DEF TypeOK, Killers, StopReturns
  <2>3. HandInv'
        BY <1>4, <2>1, SMT DEF TypeOK, HandInv, Handling, Packets, Killers, StopReturns
  <2> QED  BY <2>2, <2>3
<1>5. ASSUME NEW p \in flying, GobiUSBNetURBCallback(p) PROVE TypeOK' /\ HandInv'
  <2>1. Packets' = Packets
        BY <1>5 DEF Packets, GobiUSBNetURBCallback, Complete, complete
  <2>2. mThreadDoWork' \in Nat
        BY <1>5, SMT DEF TypeOK, GobiUSBNetURBCallback, Complete, complete
  <2>3. unkicked' \in BOOLEAN
        BY <1>5, Zenon DEF TypeOK, GobiUSBNetURBCallback, Complete, complete
  <2>4. TypeOK'
        BY <1>5, <2>1, <2>2, <2>3, SMT DEF TypeOK, Killers, GobiUSBNetURBCallback, Complete, complete
  <2>5. HandInv'
        BY <1>5, <2>1, SMT DEF TypeOK, HandInv, Handling, Packets, Killers, GobiUSBNetURBCallback, Complete, complete
  <2> QED  BY <2>4, <2>5
<1>6. CASE TXTimeoutLook
  <2>1. Packets' = Packets
        BY <1>6 DEF Packets, TXTimeoutLook
  <2>2. TypeOK'
        BY <1>6, <2>1, SMT DEF TypeOK, Killers, TXTimeoutLook
  <2>3. HandInv'
        BY <1>6, <2>1, SMT DEF TypeOK, HandInv, Handling, Packets, Killers, TXTimeoutLook
  <2> QED  BY <2>2, <2>3
<1>7. CASE TXTimeoutKill
  <2>1. Packets' = Packets
        BY <1>7 DEF Packets, TXTimeoutKill, Kill, Complete, complete
  <2>2. mThreadDoWork' \in Nat
        BY <1>7, SMT DEF TypeOK, TXTimeoutKill, Kill, Complete, complete
  <2>3. unkicked' \in BOOLEAN
        BY <1>7, Zenon DEF TypeOK, TXTimeoutKill, Kill, Complete, complete
  <2>4. pURB' \in [Killers -> Packets \cup {NULL, EAGAIN}]
        BY <1>7 DEF TypeOK, Killers, TXTimeoutKill
  <2>5. flying' \subseteq Packets /\ mpActiveURB' \in Packets \cup {NULL, EAGAIN}
        BY <1>7, Zenon DEF TypeOK, TXTimeoutKill, Kill, Complete, complete
  <2>6. oops' \subseteq Killers \cup {"submit"}
    <3>1. oops' \in {oops, oops \cup {"timeout"}}
      BY <1>7 DEF TXTimeoutKill, Kill
    <3> QED BY <3>1 DEF TypeOK, Killers
  <2>7. TypeOK'
        BY <1>7, <2>1, <2>2, <2>3, <2>4, <2>5, <2>6, SMT DEF TypeOK, Killers, TXTimeoutKill, Kill, Complete, complete
  <2>8. HandInv'
        BY <1>7, <2>1, SMT DEF TypeOK, HandInv, Handling, Packets, Killers, TXTimeoutKill, Kill, Complete, complete
  <2> QED  BY <2>7, <2>8
<1>8. CASE TXTimeoutClear
  <2>1. Packets' = Packets
        BY <1>8 DEF Packets, TXTimeoutClear, FreeList, complete
  <2>2. ToSet(mpURBList) \subseteq Packets /\ <<>> \in Seq(Packets)
        BY ToSetIn DEF TypeOK
  <2>3. mThreadDoWork' \in Nat
        BY <1>8, SMT DEF TypeOK, TXTimeoutClear, FreeList, complete
  <2>4. unkicked' \in BOOLEAN
        BY <1>8, Zenon DEF TypeOK, TXTimeoutClear, FreeList, complete
  <2>5. TypeOK'
        BY <1>8, <2>1, <2>2, <2>3, <2>4, SMT DEF TypeOK, Killers, TXTimeoutClear, FreeList, complete
  <2>6. HandInv'
        BY <1>8, <2>1, SMT DEF TypeOK, HandInv, Handling, Packets, Killers, TXTimeoutClear, FreeList, complete
  <2> QED  BY <2>5, <2>6
<1>9. CASE TestExit
  <2>1. Packets' = Packets
        BY <1>9 DEF Packets, TestExit, LeaveThread, One
  <2>2. unpaid' \in Nat
        BY <1>9, SMT DEF TypeOK, TestExit, LeaveThread, One
  <2>3. left' \in BOOLEAN
        BY <1>9, Zenon DEF TypeOK, TestExit, LeaveThread, One
  <2>4. TypeOK'
        BY <1>9, <2>1, <2>2, <2>3, SMT DEF TypeOK, Killers, TestExit, LeaveThread, One
  <2>5. HandInv'
        BY <1>9, <2>1, SMTT(20) DEF TypeOK, HandInv, Handling, Packets, Killers, TestExit, LeaveThread, One
  <2> QED  BY <2>4, <2>5
<1>10. CASE WaitForWork
  <2>1. Packets' = Packets
        BY <1>10 DEF Packets, WaitForWork
  <2>2. TypeOK'
        BY <1>10, <2>1, SMT DEF TypeOK, Killers, WaitForWork
  <2>3. HandInv'
        BY <1>10, <2>1, SMT DEF TypeOK, HandInv, Handling, Packets, Killers, WaitForWork
  <2> QED  BY <2>2, <2>3
<1>11. CASE ExitLook
  <2>1. Packets' = Packets
        BY <1>11 DEF Packets, ExitLook
  <2>2. TypeOK'
        BY <1>11, <2>1, SMT DEF TypeOK, Killers, ExitLook
  <2>3. HandInv'
        BY <1>11, <2>1, SMT DEF TypeOK, HandInv, Handling, Packets, Killers, ExitLook
  <2> QED  BY <2>2, <2>3
<1>12. CASE ExitTest
  <2>1. Packets' = Packets
        BY <1>12 DEF Packets, ExitTest
  <2>2. TypeOK'
        BY <1>12, <2>1, SMT DEF TypeOK, Killers, ExitTest
  <2>3. HandInv'
        BY <1>12, <2>1, SMT DEF TypeOK, HandInv, Handling, Packets, Killers, ExitTest
  <2> QED  BY <2>2, <2>3
<1>13. CASE ExitKill
  <2>1. Packets' = Packets
        BY <1>13 DEF Packets, ExitKill, Kill, Complete, complete
  <2>2. mThreadDoWork' \in Nat
        BY <1>13, SMT DEF TypeOK, ExitKill, Kill, Complete, complete
  <2>3. unkicked' \in BOOLEAN
        BY <1>13, Zenon DEF TypeOK, ExitKill, Kill, Complete, complete
  <2>4. pURB' \in [Killers -> Packets \cup {NULL, EAGAIN}]
        BY <1>13 DEF TypeOK, Killers, ExitKill
  <2>5. flying' \subseteq Packets /\ mpActiveURB' \in Packets \cup {NULL, EAGAIN}
        BY <1>13, Zenon DEF TypeOK, ExitKill, Kill, Complete, complete
  <2>6. oops' \subseteq Killers \cup {"submit"}
    <3>1. oops' \in {oops, oops \cup {"thread"}}
      BY <1>13 DEF ExitKill, Kill
    <3> QED BY <3>1 DEF TypeOK, Killers
  <2>7. TypeOK'
        BY <1>13, <2>1, <2>2, <2>3, <2>4, <2>5, <2>6, SMT DEF TypeOK, Killers, ExitKill, Kill, Complete, complete
  <2>8. HandInv'
        BY <1>13, <2>1, SMT DEF TypeOK, HandInv, Handling, Packets, Killers, ExitKill, Kill, Complete, complete
  <2> QED  BY <2>7, <2>8
<1>14. CASE ExitClear
  <2>1. Packets' = Packets
        BY <1>14 DEF Packets, ExitClear, FreeList, LeaveThread, One
  <2>2. ToSet(mpURBList) \subseteq Packets /\ <<>> \in Seq(Packets)
        BY ToSetIn DEF TypeOK
  <2>3. unpaid' \in Nat
        BY <1>14, SMT DEF TypeOK, ExitClear, FreeList, LeaveThread, One
  <2>4. left' \in BOOLEAN
        BY <1>14, Zenon DEF TypeOK, ExitClear, FreeList, LeaveThread, One
  <2>5. TypeOK'
        BY <1>14, <2>1, <2>2, <2>3, <2>4, SMT DEF TypeOK, Killers, ExitClear, FreeList, LeaveThread, One
  <2>6. HandInv'
        BY <1>14, <2>1, SMT DEF TypeOK, HandInv, Handling, Packets, Killers, ExitClear, FreeList, LeaveThread, One
  <2> QED  BY <2>5, <2>6
<1>15. CASE CheckActive
  <2>1. Packets' = Packets
        BY <1>15 DEF Packets, CheckActive, TakeNext
  <2>2. mpURBList # <<>> => Tail(mpURBList) \in Seq(Packets) /\ Head(mpURBList) \in Packets
        BY SMT DEF TypeOK
  <2>3. mpURBList' \in Seq(Packets) /\ pURBListEntry' \in Packets \cup {NULL}
        BY <1>15, <2>2, Zenon DEF TypeOK, CheckActive, TakeNext
  <2>4. TypeOK'
        BY <1>15, <2>1, <2>2, <2>3, SMTT(20) DEF TypeOK, Killers, CheckActive, TakeNext
  <2>5. HandInv'
    <3>1. CASE mpActiveURB = EAGAIN
          BY <1>15, <3>1, SMT DEF HandInv, Handling, CheckActive
    <3>2. CASE mpActiveURB # EAGAIN
      <4>1. TakeNext /\ thread = "woken" /\ UNCHANGED <<ctl, mbExit>>
            BY <1>15, <3>2 DEF CheckActive
      <4> QED  BY <4>1, <2>2, SMT DEF HandInv, Handling, TakeNext, Packets
    <3> QED  BY <3>1, <3>2
  <2> QED  BY <2>4, <2>5
<1>16. CASE AfterPut
  <2>1. Packets' = Packets
        BY <1>16 DEF Packets, AfterPut, TakeNext
  <2>2. mpURBList # <<>> => Tail(mpURBList) \in Seq(Packets) /\ Head(mpURBList) \in Packets
        BY SMT DEF TypeOK
  <2>3. mpURBList' \in Seq(Packets) /\ pURBListEntry' \in Packets \cup {NULL}
        BY <1>16, <2>2, Zenon DEF TypeOK, AfterPut, TakeNext
  <2>4. TypeOK'
        BY <1>16, <2>1, <2>2, <2>3, SMT DEF TypeOK, Killers, AfterPut, TakeNext
  <2>5. HandInv'
        BY <1>16, <2>1, SMTT(20) DEF TypeOK, HandInv, Handling, Packets, Killers, AfterPut, TakeNext
  <2> QED  BY <2>4, <2>5
<1>17. CASE AutopmGet
  <2>1. /\ Packets' = Packets
        /\ UNCHANGED <<ctl, mbExit, mpURBList, lost, mpActiveURB, timeout, pURB, pURBListEntry,
                       flying, accepted, opens, timeouts, suspends, sent, unpaid, left, oops>>
        BY <1>17 DEF Packets, AutopmGet
  <2>2. thread = "get" /\ thread' \in {"submit", "putback"}
        BY <1>17 DEF AutopmGet
  <2>3. mThreadDoWork' = mThreadDoWork \/ mThreadDoWork' = mThreadDoWork + 1
        BY <1>17, Zenon DEF AutopmGet, complete
  <2>4. unkicked' \in BOOLEAN
        BY <1>17, Zenon DEF TypeOK, AutopmGet, complete
  <2>5. pm' = pm \/ pm' = pm + 1
        BY <1>17, Zenon DEF AutopmGet
  <2>6. suspended' \in BOOLEAN
        BY <1>17, Zenon DEF TypeOK, AutopmGet
  <2>7. TypeOK'
        BY <2>1, <2>2, <2>3, <2>4, <2>5, <2>6, SMTT(20) DEF TypeOK
  <2>8. HandInv'
        BY <2>1, <2>2, SMT DEF HandInv, Handling
  <2> QED  BY <2>7, <2>8
<1>18. CASE PutBack
  <2>1. Packets' = Packets
        BY <1>18 DEF Packets, PutBack
  <2>2. pURBListEntry \in Packets
        BY <1>18, SMT DEF TypeOK, HandInv, Handling, PutBack
  <2>3. mpURBList' \in Seq(Packets)
        BY <1>18, <2>2, PutBackFacts DEF TypeOK, PutBack
  <2>4. TypeOK'
        BY <1>18, <2>1, <2>2, <2>3, SMT DEF TypeOK, Killers, PutBack
  <2>5. HandInv'
        BY <1>18, <2>1, SMT DEF TypeOK, HandInv, Handling, Packets, Killers, PutBack
  <2> QED  BY <2>4, <2>5
<1>19. CASE ForgetActive
  <2>1. Packets' = Packets
        BY <1>19 DEF Packets, ForgetActive
  <2>2. TypeOK'
        BY <1>19, <2>1, SMT DEF TypeOK, Killers, ForgetActive
  <2>3. HandInv'
        BY <1>19, <2>1, SMT DEF TypeOK, HandInv, Handling, Packets, Killers, ForgetActive
  <2> QED  BY <2>2, <2>3
<1>20. CASE Submit
  <2>1. Packets' = Packets
        BY <1>20 DEF Packets, Submit, complete
  <2>2. mThreadDoWork' \in Nat
        BY <1>20, SMT DEF TypeOK, Submit, complete
  <2>3. unkicked' \in BOOLEAN
        BY <1>20, Zenon DEF TypeOK, Submit, complete
  <2>4. pURBListEntry \in Packets /\ (mpActiveURB # EAGAIN => mpActiveURB \in Packets)
        BY <1>20, SMT DEF TypeOK, HandInv, Handling, Submit
  <2>5. sent' \in Seq(Packets)
    <3>1. sent \in Seq(Packets)
          BY DEF TypeOK
    <3>2. mpActiveURB \in Packets => Append(sent, mpActiveURB) \in Seq(Packets)
          BY <3>1, AppendFacts
    <3> QED  BY <1>20, <2>4, <3>1, <3>2 DEF Submit
  <2>6. flying' \subseteq Packets /\ lost' \subseteq Packets
        BY <1>20, <2>4, SMT DEF TypeOK, Submit
  <2>7. oops' \subseteq Killers \cup {"submit"} /\ pm' \in Int
        BY <1>20, SMT DEF TypeOK, Submit
  <2>8. TypeOK'
        BY <1>20, <2>1, <2>2, <2>3, <2>4, <2>5, <2>6, <2>7, SMT DEF TypeOK, Killers, Submit, complete
  <2>9. HandInv'
        BY <1>20, <2>1, SMT DEF TypeOK, HandInv, Handling, Packets, Killers, Submit, complete
  <2> QED  BY <2>8, <2>9
<1>21. CASE GobiSuspend
  <2>1. Packets' = Packets
        BY <1>21 DEF Packets, GobiSuspend
  <2>2. TypeOK'
        BY <1>21, <2>1, SMT DEF TypeOK, Killers, GobiSuspend
  <2>3. HandInv'
        BY <1>21, <2>1, SMT DEF TypeOK, HandInv, Handling, Packets, Killers, GobiSuspend
  <2> QED  BY <2>2, <2>3
<1>22. CASE GobiResume
  <2>1. Packets' = Packets
        BY <1>22 DEF Packets, GobiResume, complete
  <2>2. mThreadDoWork' \in Nat
        BY <1>22, SMT DEF TypeOK, GobiResume, complete
  <2>3. unkicked' \in BOOLEAN
        BY <1>22, Zenon DEF TypeOK, GobiResume, complete
  <2>4. suspended' \in BOOLEAN
        BY <1>22, Zenon DEF TypeOK, GobiResume
  <2>5. TypeOK'
        BY <1>22, <2>1, <2>2, <2>3, <2>4, SMT DEF TypeOK, Killers, GobiResume, complete
  <2>6. HandInv'
        BY <1>22, <2>1, SMT DEF TypeOK, HandInv, Handling, Packets, Killers, GobiResume, complete
  <2> QED  BY <2>5, <2>6
<1>23. CASE UNCHANGED vars
      BY <1>23, SMT DEF vars, TypeOK, HandInv, Packets, Killers
<1> QED
    BY <1>1, <1>2, <1>3, <1>4, <1>5, <1>6, <1>7, <1>8, <1>9, <1>10, <1>11, <1>12, <1>13, <1>14, <1>15, <1>16, <1>17, <1>18, <1>19, <1>20, <1>21, <1>22, <1>23
    DEF Next, GobiUSBNetTXTimeout, AutoPMThread

\* The queue, the URBs and the thread's place keep their types, and the thread
\* holds a packet just while it handles one, with that packet or a mark active.
THEOREM TypesAlways == Spec => [](TypeOK /\ HandInv)
BY InitHand, HandStep, PTL DEF Spec

-----------------------------------------------------------------------------
(* Packets go out in order.                                                *)

\* The packet in hand stands between those submitted and those queued; while
\* there is one, StartXmit's limit holds, so PutBack passes it by one at most.
OrderInv ==
    /\ Rising(sent) /\ Rising(mpURBList)
    /\ \A i \in DOMAIN mpURBList : AllBelow(sent, mpURBList[i])
    /\ pURBListEntry # NULL =>
           /\ AllBelow(sent, pURBListEntry) /\ AllAbove(mpURBList, pURBListEntry)
           /\ Len(mpURBList) <= txQueueLength
    /\ Packets = ToSet(sent) \cup lost \cup ToSet(mpURBList) \cup InHand
    /\ Len(mpURBList) <= txQueueLength + 1

order == <<sent, mpURBList, pURBListEntry, lost, accepted>>

LEMMA InitOrder == Init => OrderInv
<1> SUFFICES ASSUME Init PROVE OrderInv
    OBVIOUS
<1>1. sent = <<>> /\ mpURBList = <<>> /\ pURBListEntry = NULL /\ lost = {} /\ accepted = 0
      BY DEF Init
<1>2. DOMAIN sent = {} /\ DOMAIN mpURBList = {} /\ Len(mpURBList) = 0
      BY <1>1
<1>3. Packets = {} /\ ToSet(sent) = {} /\ ToSet(mpURBList) = {} /\ InHand = {}
      BY <1>1, <1>2, SMT DEF Packets, ToSet, InHand
<1> QED
    BY <1>1, <1>2, <1>3, TxThreadAssumption, SMT DEF OrderInv, Rising, AllBelow, AllAbove

\* The queue is emptied: GobiUSBNetOpen, the timeout and the exit of the thread.
LEMMA OrderEmptied ==
    ASSUME TypeOK, OrderInv, FreeList, UNCHANGED <<sent, pURBListEntry, accepted>>
    PROVE  OrderInv'
<1>1. /\ mpURBList' = <<>> /\ lost' = lost \cup ToSet(mpURBList)
      /\ sent' = sent /\ pURBListEntry' = pURBListEntry /\ accepted' = accepted
      BY DEF FreeList
<1>2. DOMAIN mpURBList' = {} /\ Len(mpURBList') = 0 /\ ToSet(mpURBList') = {}
      BY <1>1 DEF ToSet
<1>3. Packets' = Packets /\ InHand' = InHand /\ ToSet(sent') = ToSet(sent)
      BY <1>1 DEF Packets, InHand
<1>4. Packets' = (ToSet(sent) \cup lost \cup ToSet(mpURBList) \cup InHand)'
      BY <1>1, <1>2, <1>3 DEF OrderInv
<1> QED
    BY <1>1, <1>2, <1>4, TxThreadAssumption, SMT
    DEF OrderInv, Rising, AllBelow, AllAbove

LEMMA OrderTaken ==
    ASSUME TypeOK, HandInv, OrderInv, TakeNext, thread \notin Handling,
           UNCHANGED <<sent, lost, accepted>>
    PROVE  OrderInv'
<1>1. pURBListEntry = NULL /\ Packets' = Packets
      BY DEF HandInv, Packets
<1>2. CASE UNCHANGED <<mpURBList, pURBListEntry>>
      BY <1>1, <1>2 DEF OrderInv, InHand
<1>3. CASE ~UNCHANGED <<mpURBList, pURBListEntry>>
  <2>1. /\ mpURBList # <<>> /\ pURBListEntry' = Head(mpURBList)
        /\ mpURBList' = Tail(mpURBList) /\ sent' = sent /\ lost' = lost
        BY <1>3 DEF TakeNext
  <2>2. mpURBList \in Seq(Packets) /\ Packets \subseteq Nat /\ mpURBList \in Seq(Nat)
        /\ Rising(mpURBList)
        BY SMT DEF TypeOK, Packets, OrderInv
  <2>3. /\ Head(mpURBList) \in Packets /\ Head(mpURBList) = mpURBList[1]
        /\ 1 \in DOMAIN mpURBList /\ Len(mpURBList) \in Nat
        /\ Len(Tail(mpURBList)) = Len(mpURBList) - 1
        /\ \A i \in DOMAIN Tail(mpURBList) :
               i + 1 \in DOMAIN mpURBList /\ Tail(mpURBList)[i] = mpURBList[i + 1]
        /\ ToSet(mpURBList) = {Head(mpURBList)} \cup ToSet(Tail(mpURBList))
        BY <2>1, <2>2, TailFacts
  <2>4. Rising(mpURBList') /\ AllAbove(mpURBList', pURBListEntry')
        BY <2>1, <2>2, TailRises
  <2>5. AllBelow(sent', pURBListEntry')
        /\ \A i \in DOMAIN mpURBList' : AllBelow(sent', mpURBList'[i])
        BY <2>1, <2>3 DEF OrderInv
  <2>6. InHand' = {Head(mpURBList)} /\ InHand = {}
        BY <1>1, <2>1, <2>2, <2>3, TxThreadAssumption DEF InHand
  <2>7. Packets' = (ToSet(sent) \cup lost \cup ToSet(mpURBList) \cup InHand)'
        BY <1>1, <2>1, <2>3, <2>6 DEF OrderInv
  <2>8. Len(mpURBList') <= txQueueLength
        BY <2>1, <2>3, TxThreadAssumption, SMT DEF OrderInv
  <2>9. Rising(sent')
        BY <2>1 DEF OrderInv
  <2> QED  BY <2>4, <2>5, <2>7, <2>8, <2>9, TxThreadAssumption, SMT DEF OrderInv
<1> QED  BY <1>2, <1>3

LEMMA OrderQueued ==
    ASSUME TypeOK, OrderInv, GobiUSBNetStartXmit
    PROVE  OrderInv'
<1>1. /\ accepted' = accepted + 1 /\ mpURBList' = Append(mpURBList, accepted + 1)
      /\ Len(mpURBList) < txQueueLength
      /\ sent' = sent /\ lost' = lost /\ pURBListEntry' = pURBListEntry
      BY DEF GobiUSBNetStartXmit
<1>2. accepted \in Nat /\ Packets \subseteq Nat /\ \A p \in Packets : p < accepted + 1
      BY SMT DEF TypeOK, Packets
<1>3. mpURBList \in Seq(Nat) /\ sent \in Seq(Packets) /\ mpURBList \in Seq(Packets)
      BY SMT DEF TypeOK, Packets
<1>4. /\ DOMAIN mpURBList' = 1 .. Len(mpURBList) + 1 /\ DOMAIN mpURBList = 1 .. Len(mpURBList)
      /\ Len(mpURBList') = Len(mpURBList) + 1 /\ Len(mpURBList) \in Nat
      /\ \A i \in DOMAIN mpURBList : mpURBList'[i] = mpURBList[i]
      /\ mpURBList'[Len(mpURBList) + 1] = accepted + 1
      /\ ToSet(mpURBList') = ToSet(mpURBList) \cup {accepted + 1}
  <2>1. accepted + 1 \in Nat
        BY <1>2
  <2>2. DOMAIN mpURBList = 1 .. Len(mpURBList) /\ Len(mpURBList) \in Nat
        BY <1>3
  <2> DEFINE q == Append(mpURBList, accepted + 1)
  <2>3. /\ Len(q) = Len(mpURBList) + 1 /\ DOMAIN q = 1 .. Len(mpURBList) + 1
        /\ \A i \in DOMAIN mpURBList : q[i] = mpURBList[i]
        /\ q[Len(mpURBList) + 1] = accepted + 1
        /\ ToSet(q) = ToSet(mpURBList) \cup {accepted + 1}
        BY <1>3, <2>1, AppendFacts, SMTT(20)
  <2> QED  BY <1>1, <2>2, <2>3
<1>5. \A i \in DOMAIN mpURBList' : i \in DOMAIN mpURBList \/ i = Len(mpURBList) + 1
      BY <1>4
<1>6. AllBelow(mpURBList, accepted + 1) /\ AllBelow(sent, accepted + 1)
  <2>1. \A i \in DOMAIN mpURBList : mpURBList[i] \in Packets
        BY <1>3
  <2>2. \A i \in DOMAIN sent : sent[i] \in Packets
        BY <1>3
  <2> QED  BY <1>2, <2>1, <2>2 DEF AllBelow
<1>7. Rising(mpURBList') /\ Rising(sent')
      BY <1>1, <1>2, <1>3, <1>6, AppendRises DEF OrderInv
<1>8. \A i \in DOMAIN mpURBList' : AllBelow(sent', mpURBList'[i])
      BY <1>1, <1>4, <1>5, <1>6 DEF OrderInv
<1>9. pURBListEntry # NULL => pURBListEntry < accepted + 1
      BY <1>2 DEF TypeOK
<1>10. pURBListEntry' # NULL =>
           /\ AllBelow(sent', pURBListEntry') /\ AllAbove(mpURBList', pURBListEntry')
       BY <1>1, <1>4, <1>5, <1>9 DEF OrderInv, AllAbove
<1>11. Packets' = Packets \cup {accepted + 1} /\ InHand' = InHand /\ ToSet(sent') = ToSet(sent)
       BY <1>1, <1>2, SMT DEF Packets, InHand
<1>12. Packets' = (ToSet(sent) \cup lost \cup ToSet(mpURBList) \cup InHand)'
       BY <1>1, <1>4, <1>11 DEF OrderInv
<1>13. Len(mpURBList') <= txQueueLength
       BY <1>1, <1>4, TxThreadAssumption, SMT
<1> QED  BY <1>7, <1>8, <1>10, <1>12, <1>13, TxThreadAssumption, SMT DEF OrderInv

LEMMA OrderPutBack ==
    ASSUME TypeOK, HandInv, OrderInv, PutBack
    PROVE  OrderInv'
<1>1. /\ mpURBList' = <<pURBListEntry>> \o mpURBList /\ pURBListEntry' = NULL
      /\ sent' = sent /\ lost' = lost /\ accepted' = accepted
      BY DEF PutBack, counts
<1>2. pURBListEntry \in Packets /\ pURBListEntry # NULL /\ Packets' = Packets
      BY <1>1, TxThreadAssumption, SMT DEF TypeOK, HandInv, Handling, PutBack, Packets
<1>3. Packets \subseteq Nat /\ mpURBList \in Seq(Packets) /\ mpURBList \in Seq(Nat)
      BY SMT DEF TypeOK, Packets
<1>4. /\ Len(mpURBList') = Len(mpURBList) + 1 /\ Len(mpURBList) \in Nat
      /\ mpURBList'[1] = pURBListEntry
      /\ \A i \in DOMAIN mpURBList' :
             i # 1 => i - 1 \in DOMAIN mpURBList /\ mpURBList'[i] = mpURBList[i - 1]
      /\ ToSet(mpURBList') = {pURBListEntry} \cup ToSet(mpURBList)
      BY <1>1, <1>2, <1>3, PutBackFacts
<1>5. Rising(mpURBList') /\ Rising(sent')
      BY <1>1, <1>2, <1>3, PutBackRises DEF OrderInv
<1>6. \A i \in DOMAIN mpURBList' : AllBelow(sent', mpURBList'[i])
      BY <1>1, <1>2, <1>4 DEF OrderInv
<1>7. InHand' = {} /\ InHand = {pURBListEntry}
      BY <1>1, <1>2 DEF InHand
<1>8. Packets' = (ToSet(sent) \cup lost \cup ToSet(mpURBList) \cup InHand)'
      BY <1>1, <1>2, <1>4, <1>7 DEF OrderInv
<1>9. Len(mpURBList') <= txQueueLength + 1
      BY <1>2, <1>4, TxThreadAssumption, SMT DEF OrderInv
<1> QED  BY <1>1, <1>5, <1>6, <1>8, <1>9 DEF OrderInv

\* A packet that is dropped, or whose mark a callback has taken, is lost.
LEMMA OrderSubmit ==
    ASSUME TypeOK, HandInv, OrderInv, Submit
    PROVE  OrderInv'
<1>1. /\ mpURBList' = mpURBList /\ pURBListEntry' = NULL /\ accepted' = accepted
      /\ thread = "submit"
      BY DEF Submit, counts
<1>2. /\ pURBListEntry \in Packets /\ pURBListEntry # NULL /\ Packets' = Packets
      /\ mpActiveURB \in {pURBListEntry, EAGAIN}
      BY <1>1, TxThreadAssumption, SMT DEF TypeOK, HandInv, Handling, Packets
<1>3. Packets \subseteq Nat /\ sent \in Seq(Packets) /\ sent \in Seq(Nat)
      BY SMT DEF TypeOK, Packets
<1>4. InHand' = {} /\ InHand = {pURBListEntry}
      BY <1>1, <1>2 DEF InHand
<1>5. CASE lost' = lost /\ sent' = Append(sent, pURBListEntry)
  <2>1. /\ DOMAIN sent' = 1 .. Len(sent) + 1 /\ DOMAIN sent = 1 .. Len(sent)
        /\ Len(sent) \in Nat
        /\ \A i \in DOMAIN sent : sent'[i] = sent[i]
        /\ sent'[Len(sent) + 1] = pURBListEntry
        /\ ToSet(sent') = ToSet(sent) \cup {pURBListEntry}
        BY <1>2, <1>3, <1>5, AppendFacts
  <2>2. \A i \in DOMAIN sent' : i \in DOMAIN sent \/ i = Len(sent) + 1
        BY <2>1
  <2>3. Rising(sent') /\ Rising(mpURBList')
        BY <1>1, <1>2, <1>3, <1>5, AppendRises DEF OrderInv
  <2>4. \A i \in DOMAIN mpURBList' : AllBelow(sent', mpURBList'[i])
        BY <1>1, <1>2, <2>1, <2>2 DEF OrderInv, AllBelow, AllAbove
  <2>5. Packets' = (ToSet(sent) \cup lost \cup ToSet(mpURBList) \cup InHand)'
        BY <1>1, <1>2, <1>4, <1>5, <2>1 DEF OrderInv
  <2> QED  BY <1>1, <2>3, <2>4, <2>5 DEF OrderInv
<1>6. CASE sent' = sent /\ lost' = lost \cup {pURBListEntry}
  <2>1. Packets' = (ToSet(sent) \cup lost \cup ToSet(mpURBList) \cup InHand)'
        BY <1>1, <1>2, <1>4, <1>6 DEF OrderInv
  <2> QED  BY <1>1, <1>6, <2>1 DEF OrderInv
<1>7. \/ lost' = lost /\ sent' = Append(sent, pURBListEntry)
      \/ sent' = sent /\ lost' = lost \cup {pURBListEntry}
      BY <1>2 DEF Submit
<1> QED  BY <1>5, <1>6, <1>7

LEMMA OrderStep == TypeOK /\ HandInv /\ OrderInv /\ [Next]_vars => OrderInv'
<1> SUFFICES ASSUME TypeOK, HandInv, OrderInv, [Next]_vars PROVE OrderInv'
    OBVIOUS
<1> USE DEF iface, work, queue, killing, power, counts, ends
<1>1. CASE UNCHANGED order
      BY <1>1 DEF order, OrderInv, Packets, InHand
<1>2. CASE GobiUSBNetOpen
      BY <1>2, OrderEmptied DEF GobiUSBNetOpen, FreeList
<1>3. CASE GobiUSBNetStartXmit
      BY <1>3, OrderQueued
<1>4. CASE TXTimeoutClear
      BY <1>4, OrderEmptied DEF TXTimeoutClear
<1>5. CASE ExitClear
      BY <1>5, OrderEmptied DEF ExitClear
<1>6. CASE CheckActive
  <2>1. CASE mpActiveURB = EAGAIN
    <3>1. UNCHANGED order
          BY <1>6, <2>1 DEF CheckActive, order
    <3> QED  BY <1>1, <3>1
  <2>2. CASE mpActiveURB # EAGAIN
    <3>1. TakeNext /\ thread = "woken" /\ UNCHANGED <<sent, lost, accepted>>
          BY <1>6, <2>2 DEF CheckActive
    <3> QED  BY <3>1, OrderTaken DEF Handling
  <2> QED  BY <2>1, <2>2
<1>7. CASE AfterPut
      BY <1>7, OrderTaken DEF AfterPut, Handling
<1>8. CASE PutBack
      BY <1>8, OrderPutBack
<1>9. CASE Submit
      BY <1>9, OrderSubmit
<1>10. \/ UNCHANGED order
       \/ GobiUSBNetOpen \/ GobiUSBNetStartXmit \/ TXTimeoutClear \/ ExitClear
       \/ CheckActive \/ AfterPut \/ PutBack \/ Submit
  <2>1. CASE UNCHANGED vars
        BY <2>1 DEF vars, order
  <2>2. CASE GobiUSBNetStop \/ StopReturns \/ TXTimeoutLook \/ TXTimeoutKill
        BY <2>2 DEF GobiUSBNetStop, StopReturns, TXTimeoutLook, TXTimeoutKill, order
  <2>3. CASE \E p \in flying : GobiUSBNetURBCallback(p)
        BY <2>3 DEF GobiUSBNetURBCallback, order
  <2>4. CASE TestExit \/ WaitForWork \/ ExitLook \/ ExitTest \/ ExitKill
        BY <2>4 DEF TestExit, WaitForWork, ExitLook, ExitTest, ExitKill, order
  <2>5. CASE AutopmGet \/ ForgetActive \/ GobiSuspend \/ GobiResume
        BY <2>5 DEF AutopmGet, ForgetActive, GobiSuspend, GobiResume, order
  <2> QED
      BY <2>1, <2>2, <2>3, <2>4, <2>5 DEF Next, GobiUSBNetTXTimeout, AutoPMThread
<1> QED
    BY <1>1, <1>2, <1>3, <1>4, <1>5, <1>6, <1>7, <1>8, <1>9, <1>10

\* Packets are submitted in the order StartXmit accepted them, none twice, and
\* each one accepted is queued, in the thread's hand, submitted or lost.
THEOREM SentInOrderAlways == Spec => []SentInOrder
<1>1. TypeOK /\ OrderInv => SentInOrder
  <2> SUFFICES ASSUME TypeOK, OrderInv PROVE SentInOrder
      OBVIOUS
  <2> QED  BY DEF OrderInv, SentInOrder, Rising, AllBelow
<1> QED  BY <1>1, InitHand, HandStep, InitOrder, OrderStep, PTL DEF Spec

-----------------------------------------------------------------------------
(* The thread does not sleep on a queued packet.                           *)

\* An active packet is at the host controller once Submit has passed it on; the
\* mark of one that is done comes with a complete() nobody has waited for, until
\* the thread wakes; what the thread finds when it goes to sleep follows.
WorkInv ==
    /\ mpActiveURB \notin {NULL, EAGAIN} /\ thread \notin Handling \cup {"unset"} =>
           mpActiveURB \in flying
    /\ mpActiveURB = EAGAIN /\ thread \in {"top", "wait", "relock", "get", "putback",
                                          "unset", "submit"} =>
           mThreadDoWork > 0
    /\ thread \in {"top", "wait"} /\ mThreadDoWork = 0 /\ mpURBList # <<>> =>
           flying # {} \/ unkicked \/ suspended
    /\ thread = "unset" /\ mThreadDoWork = 0 => unkicked

\* What the steps below need of the types.
LEMMA PlainTypes ==
    ASSUME TypeOK
    PROVE  /\ flying \subseteq Packets /\ Packets \subseteq Nat
           /\ NULL \notin Packets /\ EAGAIN \notin Packets /\ NULL # EAGAIN
           /\ mThreadDoWork \in Nat /\ pm \in Int /\ unpaid \in Nat
BY TxThreadAssumption, SMT DEF TypeOK, Packets

LEMMA TakeNextDoes ==
    ASSUME TypeOK, TakeNext
    PROVE  \/ /\ mpActiveURB # NULL \/ mpURBList = <<>>
              /\ thread' = "top" /\ UNCHANGED <<mpURBList, mpActiveURB, pURBListEntry>>
           \/ /\ mpActiveURB = NULL /\ mpURBList # <<>>
              /\ thread' = "get" /\ pURBListEntry' = mpActiveURB'
              /\ mpActiveURB' \in Packets
<1>1. mpURBList # <<>> => Head(mpURBList) \in Packets
      BY SMT DEF TypeOK
<1> QED  BY <1>1, Zenon DEF TakeNext

LEMMA AutopmGetDoes ==
    ASSUME AutopmGet
    PROVE  /\ thread = "get"
           /\ \/ thread' = "submit" /\ pm' = pm + 1
              \/ thread' = "putback" /\ pm' = pm
           /\ mThreadDoWork' = mThreadDoWork \/ mThreadDoWork' = mThreadDoWork + 1
           /\ UNCHANGED <<ctl, mbExit, mpURBList, lost, mpActiveURB, timeout, pURB,
                          pURBListEntry, flying, counts, sent, unpaid, left, oops>>
<1>1. /\ thread = "get"
      /\ UNCHANGED <<ctl, mbExit, mpURBList, lost, mpActiveURB, timeout, pURB,
                     pURBListEntry, flying, counts, sent, unpaid, left, oops>>
      BY DEF AutopmGet, iface, queue, killing, counts, ends
<1>2. \/ thread' = "submit" /\ pm' = pm + 1
      \/ thread' = "putback" /\ pm' = pm
      BY Zenon DEF AutopmGet
<1>3. mThreadDoWork' = mThreadDoWork \/ mThreadDoWork' = mThreadDoWork + 1
      BY Zenon DEF AutopmGet, complete, work
<1> QED  BY <1>1, <1>2, <1>3

LEMMA InitWork == Init => WorkInv
BY TxThreadAssumption, SMT DEF Init, WorkInv, Handling

LEMMA WorkStep == TypeOK /\ HandInv /\ WorkInv /\ [Next]_vars => WorkInv'
<1> SUFFICES ASSUME TypeOK, HandInv, WorkInv, [Next]_vars PROVE WorkInv'
    OBVIOUS
<1> USE DEF iface, work, queue, killing, power, counts, ends
<1>a. /\ NULL \notin flying /\ EAGAIN \notin flying /\ NULL # EAGAIN /\ mThreadDoWork \in Nat
      BY PlainTypes
<1>1. CASE GobiUSBNetOpen
      BY <1>1, <1>a, SMT DEF HandInv, WorkInv, Handling, GobiUSBNetOpen
<1>2. CASE GobiUSBNetStartXmit
      BY <1>2, <1>a, SMT DEF WorkInv, Handling, GobiUSBNetStartXmit, complete
<1>3. CASE GobiUSBNetStop
      BY <1>3, <1>a, SMT DEF WorkInv, Handling, GobiUSBNetStop, complete
<1>4. CASE StopReturns
      BY <1>4, <1>a, SMT DEF WorkInv, Handling, StopReturns
<1>5. ASSUME NEW p \in flying, GobiUSBNetURBCallback(p) PROVE WorkInv'
      BY <1>5, <1>a, SMT DEF WorkInv, Handling, GobiUSBNetURBCallback, Complete, complete
<1>6. CASE TXTimeoutLook
      BY <1>6, <1>a, SMT DEF WorkInv, Handling, TXTimeoutLook
<1>7. CASE TXTimeoutKill
      BY <1>7, <1>a, SMT DEF WorkInv, Handling, TXTimeoutKill, Kill, Complete, complete
<1>8. CASE TXTimeoutClear
      BY <1>8, <1>a, SMT DEF WorkInv, Handling, TXTimeoutClear, FreeList, complete
<1>9. CASE TestExit
      BY <1>9, <1>a, SMT DEF WorkInv, Handling, TestExit, LeaveThread
<1>10. CASE WaitForWork
      BY <1>10, <1>a, SMT DEF WorkInv, Handling, WaitForWork
<1>11. CASE ExitLook
      BY <1>11, <1>a, SMT DEF WorkInv, Handling, ExitLook
<1>12. CASE ExitTest
      BY <1>12, <1>a, SMT DEF WorkInv, Handling, ExitTest
<1>13. CASE ExitKill
      BY <1>13, <1>a, SMT DEF WorkInv, Handling, ExitKill, Kill, Complete, complete
<1>14. CASE ExitClear
      BY <1>14, <1>a, SMT DEF WorkInv, Handling, ExitClear, FreeList, LeaveThread
<1>15. CASE CheckActive
  <2>1. CASE mpActiveURB = EAGAIN
        BY <1>15, <2>1, <1>a, SMT DEF WorkInv, Handling, CheckActive
  <2>2. CASE mpActiveURB # EAGAIN
    <3>1. /\ TakeNext /\ thread = "woken"
          /\ UNCHANGED <<mThreadDoWork, unkicked, flying, suspended>>
          BY <1>15, <2>2 DEF CheckActive
    <3> QED  BY <2>2, <3>1, <1>a, TakeNextDoes, PlainTypes, SMT DEF WorkInv, Handling
  <2> QED  BY <2>1, <2>2
<1>16. CASE AfterPut
  <2>1. /\ TakeNext /\ thread = "relock"
        /\ UNCHANGED <<mThreadDoWork, unkicked, flying, suspended>>
        BY <1>16 DEF AfterPut
  <2> QED  BY <2>1, <1>a, TakeNextDoes, PlainTypes, SMT DEF WorkInv, Handling
<1>17. CASE AutopmGet
      BY <1>17, <1>a, AutopmGetDoes, SMT DEF WorkInv, Handling
<1>18. CASE PutBack
      BY <1>18, <1>a, SMT DEF WorkInv, Handling, PutBack
<1>19. CASE ForgetActive
      BY <1>19, <1>a, SMT DEF WorkInv, Handling, ForgetActive
<1>20. CASE Submit
      BY <1>20, <1>a, SMT DEF WorkInv, Handling, Submit, complete
<1>21. CASE GobiSuspend
      BY <1>21, <1>a, SMT DEF WorkInv, Handling, GobiSuspend
<1>22. CASE GobiResume
      BY <1>22, <1>a, SMT DEF WorkInv, Handling, GobiResume, complete
<1>23. CASE UNCHANGED vars
      BY <1>23 DEF vars, WorkInv
<1> QED
    BY <1>1, <1>2, <1>3, <1>4, <1>5, <1>6, <1>7, <1>8, <1>9, <1>10, <1>11, <1>12, <1>13, <1>14, <1>15, <1>16, <1>17, <1>18, <1>19, <1>20, <1>21, <1>22, <1>23
    DEF Next, GobiUSBNetTXTimeout, AutoPMThread

\* The thread is never asleep while a packet is queued, unless a transfer is under
\* way whose callback will wake it, or one of the three known cases holds.
THEOREM WorkIsNoticedAlways == Spec => []WorkIsNoticed
<1>1. WorkInv => WorkIsNoticed
      BY DEF WorkInv, WorkIsNoticed
<1> QED  BY <1>1, InitHand, HandStep, InitWork, WorkStep, PTL DEF Spec

-----------------------------------------------------------------------------
(* One transfer at a time, and the device held awake for it.               *)

\* While the thread exits, an URB that was done before it looked is still marked
\* as done when it looks again, so usb_kill_urb is not given the mark.
ExitInv ==
    /\ thread = "exit" /\ pURB["thread"] = EAGAIN => mpActiveURB = EAGAIN
    /\ thread = "kill" => pURB["thread"] # EAGAIN
    /\ "thread" \notin oops

\* Only the active URB can be in flight, and none is while the thread handles a
\* packet or is gone; the mark of the packet in hand is then its own.
TransferInv ==
    ~left =>
        /\ flying \subseteq {mpActiveURB}
        /\ thread \in Handling \cup {"none", "unset"} => flying = {}
        /\ thread \in Handling => mpActiveURB = pURBListEntry
        /\ pm = unpaid + One(/\ thread # "none" /\ mpActiveURB # NULL
                             /\ thread \notin {"get", "putback", "unset"})
        /\ oops \subseteq {"timeout"}

LEMMA InitExit == Init => ExitInv
BY SMT DEF Init, ExitInv

LEMMA ExitStep == TypeOK /\ HandInv /\ ExitInv /\ [Next]_vars => ExitInv'
<1> SUFFICES ASSUME TypeOK, HandInv, ExitInv, [Next]_vars PROVE ExitInv'
    OBVIOUS
<1> USE DEF iface, work, queue, killing, power, counts, ends
<1>a. pURB \in [Killers -> Packets \cup {NULL, EAGAIN}] /\ "thread" \in Killers
      /\ "timeout" \in Killers /\ NULL # EAGAIN
      BY TxThreadAssumption DEF TypeOK, Killers
<1>1. CASE GobiUSBNetOpen
      BY <1>1, <1>a, SMT DEF HandInv, ExitInv, Handling, GobiUSBNetOpen
<1>2. CASE GobiUSBNetStartXmit
      BY <1>2, <1>a, SMT DEF ExitInv, GobiUSBNetStartXmit
<1>3. CASE GobiUSBNetStop
      BY <1>3, <1>a, SMT DEF ExitInv, GobiUSBNetStop
<1>4. CASE StopReturns
      BY <1>4, <1>a, SMT DEF ExitInv, StopReturns
<1>5. ASSUME NEW p \in flying, GobiUSBNetURBCallback(p) PROVE ExitInv'
      BY <1>5, <1>a, SMT DEF ExitInv, GobiUSBNetURBCallback, Complete
<1>6. CASE TXTimeoutLook
      BY <1>6, <1>a, SMT DEF ExitInv, TXTimeoutLook
<1>7. CASE TXTimeoutKill
      BY <1>7, <1>a, SMT DEF ExitInv, TXTimeoutKill, Kill, Complete
<1>8. CASE TXTimeoutClear
      BY <1>8, <1>a, SMT DEF ExitInv, TXTimeoutClear
<1>9. CASE TestExit
      BY <1>9, <1>a, SMT DEF ExitInv, TestExit, LeaveThread
<1>10. CASE WaitForWork
      BY <1>10, <1>a, SMT DEF ExitInv, WaitForWork
<1>11. CASE ExitLook
      BY <1>11, <1>a, SMT DEF ExitInv, ExitLook
<1>12. CASE ExitTest
      BY <1>12, <1>a, SMT DEF ExitInv, ExitTest
<1>13. CASE ExitKill
      BY <1>13, <1>a, SMT DEF ExitInv, ExitKill, Kill, Complete
<1>14. CASE ExitClear
      BY <1>14, <1>a, SMT DEF ExitInv, ExitClear, LeaveThread
<1>15. CASE CheckActive
      BY <1>15, <1>a, SMT DEF ExitInv, CheckActive, TakeNext
<1>16. CASE AfterPut
      BY <1>16, <1>a, SMT DEF ExitInv, AfterPut, TakeNext
<1>17. CASE AutopmGet
      BY <1>17, <1>a, AutopmGetDoes, SMT DEF ExitInv
<1>18. CASE PutBack
      BY <1>18, <1>a, SMT DEF ExitInv, PutBack
<1>19. CASE ForgetActive
      BY <1>19, <1>a, SMT DEF ExitInv, ForgetActive
<1>20. CASE Submit
      BY <1>20, <1>a, SMT DEF ExitInv, Submit
<1>21. CASE GobiSuspend
      BY <1>21, <1>a, SMT DEF ExitInv, GobiSuspend
<1>22. CASE GobiResume
      BY <1>22, <1>a, SMT DEF ExitInv, GobiResume
<1>23. CASE UNCHANGED vars
      BY <1>23 DEF vars, ExitInv
<1> QED
    BY <1>1, <1>2, <1>3, <1>4, <1>5, <1>6, <1>7, <1>8, <1>9, <1>10, <1>11, <1>12, <1>13, <1>14, <1>15, <1>16, <1>17, <1>18, <1>19, <1>20, <1>21, <1>22, <1>23
    DEF Next, GobiUSBNetTXTimeout, AutoPMThread

LEMMA InitTransfer == Init => TransferInv
BY TxThreadAssumption, SMT DEF Init, TransferInv, Handling, One

LEMMA TransferStep ==
    TypeOK /\ HandInv /\ ExitInv /\ TransferInv /\ [Next]_vars => TransferInv'
<1> SUFFICES ASSUME TypeOK, HandInv, ExitInv, TransferInv, [Next]_vars PROVE TransferInv'
    OBVIOUS
<1> USE DEF iface, work, queue, killing, power, counts, ends
<1>a. /\ NULL \notin flying /\ EAGAIN \notin flying /\ NULL # EAGAIN
      /\ pm \in Int /\ unpaid \in Nat
      BY PlainTypes
<1>1. CASE GobiUSBNetOpen
      BY <1>1, <1>a, SMT DEF HandInv, TransferInv, Handling, One, GobiUSBNetOpen
<1>2. CASE GobiUSBNetStartXmit
      BY <1>2, <1>a, SMT DEF TransferInv, Handling, One, GobiUSBNetStartXmit
<1>3. CASE GobiUSBNetStop
      BY <1>3, <1>a, SMT DEF TransferInv, Handling, One, GobiUSBNetStop
<1>4. CASE StopReturns
      BY <1>4, <1>a, SMT DEF TransferInv, Handling, One, StopReturns
<1>5. ASSUME NEW p \in flying, GobiUSBNetURBCallback(p) PROVE TransferInv'
      BY <1>5, <1>a, SMT DEF TransferInv, Handling, One, GobiUSBNetURBCallback, Complete
<1>6. CASE TXTimeoutLook
      BY <1>6, <1>a, SMT DEF TransferInv, Handling, One, TXTimeoutLook
<1>7. CASE TXTimeoutKill
      BY <1>7, <1>a, SMT DEF TransferInv, Handling, One, TXTimeoutKill, Kill, Complete
<1>8. CASE TXTimeoutClear
      BY <1>8, <1>a, SMT DEF TransferInv, Handling, One, TXTimeoutClear
<1>9. CASE TestExit
  <2>1. CASE mbExit
    <3>1. ~left' => ~left /\ flying = {}
          BY <1>9, <2>1, Zenon DEF TestExit, LeaveThread
    <3>2. /\ thread = "top" /\ thread' = "none" /\ unpaid' = unpaid + One(mpActiveURB # NULL)
          /\ UNCHANGED <<flying, mpActiveURB, pURBListEntry, pm, oops>>
          BY <1>9, <2>1 DEF TestExit, LeaveThread
    <3> QED  BY <3>1, <3>2, <1>a, SMT DEF TransferInv, Handling, One
  <2>2. CASE ~mbExit
        BY <1>9, <2>2, <1>a, SMT DEF TransferInv, Handling, One, TestExit
  <2> QED  BY <2>1, <2>2
<1>10. CASE WaitForWork
      BY <1>10, <1>a, SMT DEF TransferInv, Handling, One, WaitForWork
<1>11. CASE ExitLook
      BY <1>11, <1>a, SMT DEF TransferInv, Handling, One, ExitLook
<1>12. CASE ExitTest
      BY <1>12, <1>a, SMT DEF TransferInv, Handling, One, ExitTest
<1>13. CASE ExitKill
  <2>1. pURB["thread"] # EAGAIN
        BY <1>13 DEF ExitKill, ExitInv
  <2> QED  BY <1>13, <2>1, <1>a, SMT DEF TransferInv, Handling, One, ExitKill, Kill, Complete
<1>14. CASE ExitClear
  <2>1. ~left' => ~left /\ flying = {}
        BY <1>14, Zenon DEF ExitClear, LeaveThread
  <2>2. /\ thread = "clear" /\ thread' = "none" /\ unpaid' = unpaid + One(mpActiveURB # NULL)
        /\ UNCHANGED <<flying, mpActiveURB, pURBListEntry, pm, oops>>
        BY <1>14 DEF ExitClear, LeaveThread
  <2> QED  BY <2>1, <2>2, <1>a, SMT DEF TransferInv, Handling, One
<1>15. CASE CheckActive
      BY <1>15, <1>a, SMT DEF TransferInv, Handling, One, CheckActive, TakeNext
<1>16. CASE AfterPut
      BY <1>16, <1>a, SMT DEF TransferInv, Handling, One, AfterPut, TakeNext
<1>17. CASE AutopmGet
      BY <1>17, <1>a, AutopmGetDoes, SMT DEF One, HandInv, TransferInv, Handling
<1>18. CASE PutBack
      BY <1>18, <1>a, SMT DEF TransferInv, Handling, One, PutBack
<1>19. CASE ForgetActive
      BY <1>19, <1>a, SMT DEF TransferInv, Handling, One, ForgetActive
<1>20. CASE Submit
  <2> SUFFICES ASSUME ~left PROVE TransferInv'
      BY <1>20, Zenon DEF TransferInv, Submit
  <2>1. /\ thread = "submit" /\ thread' = "top" /\ pURBListEntry' = NULL
        /\ UNCHANGED <<unpaid, left>>
        BY <1>20 DEF Submit
  <2>2. flying = {} /\ mpActiveURB = pURBListEntry
        BY <2>1 DEF TransferInv, Handling
  <2>3. mpActiveURB \notin {NULL, EAGAIN}
        BY <2>1, <2>2, PlainTypes, TxThreadAssumption DEF HandInv, Handling, TypeOK
  <2>4. CASE flying' = flying \cup {mpActiveURB} /\ UNCHANGED <<mpActiveURB, pm>>
    <3>1. oops' = oops
          BY <1>20, <2>3 DEF Submit
    <3> QED  BY <2>1, <2>2, <2>3, <2>4, <3>1, <1>a, SMT DEF TransferInv, Handling, One
  <2>5. CASE mpActiveURB' = NULL /\ pm' = pm - 1 /\ UNCHANGED flying
    <3>1. oops' = oops
          BY <1>20, <2>3 DEF Submit
    <3> QED  BY <2>1, <2>2, <2>3, <2>5, <3>1, <1>a, SMT DEF TransferInv, Handling, One
  <2> QED  BY <1>20, <2>4, <2>5 DEF Submit
<1>21. CASE GobiSuspend
      BY <1>21, <1>a, SMT DEF TransferInv, Handling, One, GobiSuspend
<1>22. CASE GobiResume
      BY <1>22, <1>a, SMT DEF TransferInv, Handling, One, GobiResume
<1>23. CASE UNCHANGED vars
      BY <1>23 DEF vars, TransferInv
<1> QED
    BY <1>1, <1>2, <1>3, <1>4, <1>5, <1>6, <1>7, <1>8, <1>9, <1>10, <1>11, <1>12, <1>13, <1>14, <1>15, <1>16, <1>17, <1>18, <1>19, <1>20, <1>21, <1>22, <1>23
    DEF Next, GobiUSBNetTXTimeout, AutoPMThread

\* One transfer at a time; the power references are those of the active URB and
\* of the exits that gave none back; only a timeout passes the mark of an URB
\* that is done to the USB core.
THEOREM PowerFollowsAlways == Spec => []PowerFollows
<1>1. TypeOK /\ TransferInv => PowerFollows
  <2> SUFFICES ASSUME TypeOK, TransferInv, ~left PROVE PowerFollows
      BY Zenon DEF PowerFollows
  <2>1. flying = {} \/ flying = {mpActiveURB}
        BY DEF TransferInv
  <2>2. Cardinality(flying) <= 1
    <3>1. CASE flying = {}
          BY <3>1, FS_EmptySet
    <3>2. CASE flying = {mpActiveURB}
      <4>1. Cardinality(flying) = 1
            BY <3>2, FS_Singleton
      <4> QED  BY <4>1
    <3> QED  BY <2>1, <3>1, <3>2
  <2> QED  BY <2>1, <2>2, Zenon DEF TransferInv, PowerFollows
<1> QED
    BY <1>1, InitHand, HandStep, InitExit, ExitStep, InitTransfer, TransferStep, PTL DEF Spec
=============================================================================
