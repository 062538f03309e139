------------------------------ MODULE UrbProofs ------------------------------
(***************************************************************************)
(* Theorems about the URBs, of the writes (WriteSync, for any number of    *)
(* clients and threads) and of the continuous read (ReadChain, for every   *)
(* number of suspends and resumes).  No lemma speaks of both modules.      *)
(*                                                                         *)
(* WriteSync: every write takes one entry off its client's list, and       *)
(* nobody else frees its URB while the client is registered.               *)
(* ReadChain: the callbacks never forget to submit an URB; and as long as  *)
(* no interrupt hits KillRead between its two kills, the two URBs hand     *)
(* over one token and no URB is left behind.                               *)
(***************************************************************************)
EXTENDS WriteSync, ReadChain, FiniteSetTheorems, TLAPS

(* The URBs of the writes. *)

Entries == Writers \cup {Freed}

\* Dangle keeps the length of a list and the entries of the other threads, and
\* leaves none of its own.
LEMMA DangleFacts ==
    ASSUME NEW s \in Seq(Entries), NEW w \in Writers
    PROVE  /\ Dangle(s, w) \in Seq(Entries)
           /\ Len(Dangle(s, w)) = Len(s)
           /\ \A i \in 1 .. Len(s) :
                  Dangle(s, w)[i] = IF s[i] = w THEN Freed ELSE s[i]
<1> DEFINE d == [i \in 1 .. Len(s) |-> IF s[i] = w THEN Freed ELSE s[i]]
<1>1. d \in Seq(Entries) /\ Len(d) = Len(s)
  BY DEF Entries
<1>2. Dangle(s, w) = d
  BY DEF Dangle
<1> QED
  BY <1>1, <1>2

\* What PopFromURBList returns.
LEMMA PopFacts ==
    ASSUME TypeOK, NEW c \in Clients
    PROVE  /\ PopFromURBList(c) \in Seq(Entries)
           /\ c \in listed /\ Len(mpURBList[c]) > 0 =>
                  Len(PopFromURBList(c)) = Len(mpURBList[c]) - 1
<1>1. mpURBList[c] \in Seq(Entries)
  BY DEF TypeOK, Entries
<1>2. CASE c \in listed /\ mpURBList[c] # <<>>
  BY <1>1, <1>2 DEF PopFromURBList
<1>3. CASE ~(c \in listed /\ mpURBList[c] # <<>>)
  BY <1>1, <1>3 DEF PopFromURBList
<1> QED
  BY <1>2, <1>3

-----------------------------------------------------------------------------
(* Type correctness.                                                       *)

\* FreeAndReturn with a well-formed rest keeps the types.
LEMMA FreeAndReturnTypes ==
    ASSUME TypeOK, NEW w \in Writers, NEW rest \in Seq(Entries),
           FreeAndReturn(w, rest)
    PROVE  /\ pc' \in [Writers -> {"idle", "submit", "failed", "down", "interrupted"}]
           /\ urb' \in [Writers -> {"none", "owned", "freed"}]
           /\ mpURBList' \in [Clients -> Seq(Entries)]
           /\ flying' \subseteq Writers /\ writeSem' \subseteq Writers
           /\ early' \subseteq Writers
<1>1. ClientOf[w] \in Clients
  BY WriteSyncAssumption
<1>2. Dangle(rest, w) \in Seq(Entries)
  BY DangleFacts
<1> QED
  BY <1>1, <1>2 DEF FreeAndReturn, TypeOK, Entries

\* WriteSync, its callbacks, signals and ReleaseClientID keep the types.
LEMMA TypesKept ==
    ASSUME TypeOK, [Next]_vars
    PROVE  TypeOK'
<1>1. ASSUME NEW w \in Writers, WriteSync(w) PROVE TypeOK'
  <2>1. ClientOf[w] \in Clients /\ mpURBList[ClientOf[w]] \in Seq(Entries)
    BY WriteSyncAssumption DEF TypeOK, Entries
  <2>2. mpURBList' \in [Clients -> Seq(Entries)]
    BY <1>1, <2>1 DEF WriteSync, AddToURBList, TypeOK, Entries
  <2> QED
    BY <1>1, <2>2 DEF WriteSync, TypeOK, Entries
<1>2. ASSUME NEW w \in Writers, Submit(w) PROVE TypeOK'
  BY <1>2 DEF Submit, TypeOK
<1>3. ASSUME NEW w \in Writers, SubmitFailed(w) PROVE TypeOK'
  <2>1. PopFromURBList(ClientOf[w]) \in Seq(Entries)
    BY PopFacts, WriteSyncAssumption
  <2> QED
    BY <1>3, <2>1, FreeAndReturnTypes DEF SubmitFailed, TypeOK, Entries
<1>4. ASSUME NEW w \in Writers, Finish(w) PROVE TypeOK'
  <2>1. PopFromURBList(ClientOf[w]) \in Seq(Entries)
    BY PopFacts, WriteSyncAssumption
  <2>2. FreeAndReturn(w, PopFromURBList(ClientOf[w]))
        /\ listed' = listed /\ stray' \subseteq stray \cup {w}
        /\ left' \in {left, [left EXCEPT ![w] = left[w] \cup {Ending(w)}]}
    BY <1>4 DEF Finish, Leave
  <2>3. left' \in [Writers -> SUBSET Endings]
    BY <2>2 DEF TypeOK, Ending, Endings
  <2> QED
    BY <2>1, <2>2, <2>3, FreeAndReturnTypes DEF TypeOK, Entries
<1>5. ASSUME NEW w \in Writers, WriteSyncCallback(w) PROVE TypeOK'
  BY <1>5 DEF WriteSyncCallback, TypeOK
<1>6. ASSUME NEW w \in Writers, StrayCallback(w) PROVE TypeOK'
  BY <1>6 DEF StrayCallback, TypeOK
<1>7. ASSUME NEW w \in Writers, Interrupt(w) PROVE TypeOK'
  BY <1>7 DEF Interrupt, TypeOK
<1>8. ASSUME NEW c \in Clients, ReleaseClientID(c) PROVE TypeOK'
  BY <1>8 DEF ReleaseClientID, TypeOK
<1>9. CASE UNCHANGED vars
  BY <1>9 DEF vars, TypeOK
<1> QED
  BY <1>1, <1>2, <1>3, <1>4, <1>5, <1>6, <1>7, <1>8, <1>9 DEF Next

\* The lists, the threads' states and the sets keep their types, whatever
\* WriteSync, its callbacks, signals and ReleaseClientID do.
THEOREM WriteTypes == Spec => []TypeOK
<1>1. Init => TypeOK
  BY DEF Init, TypeOK
<1> QED
  BY <1>1, TypesKept, PTL DEF Spec

-----------------------------------------------------------------------------
(* Who has an URB, and who may have left it behind.                        *)

\* Only threads of a client have entries on its list.
Homes ==
    \A c \in Clients : \A i \in 1 .. Len(mpURBList[c]) :
        mpURBList[c][i] = Freed \/ ClientOf[mpURBList[c][i]] = c

Unlisted == \A c \in Clients : c \notin listed => mpURBList[c] = <<>>

\* The list of a thread with a client of its own.
AloneList ==
    \A w \in Writers :
        Alone(w) /\ ClientOf[w] \in listed =>
            mpURBList[ClientOf[w]] = IF pc[w] = "idle" THEN <<>> ELSE <<w>>

Owned ==
    \A w \in Writers :
        pc[w] # "idle" /\ ClientOf[w] \in listed => urb[w] = "owned"

\* A thread alone on its client leaves an URB only when that is gone.
MayLeave(w) == Alone(w) => ClientOf[w] \notin listed

\* A semaphore that is up although no transfer of the call has completed is a
\* stray callback's; and what the first URB left behind says of a thread.
Semaphores ==
    \A w \in Writers :
        /\ w \in flying => pc[w] \in {"down", "interrupted"}
        /\ w \in writeSem =>
               \/ w \in early
               \/ pc[w] \in {"down", "interrupted"} /\ w \notin flying
        /\ w \in early \cup stray => MayLeave(w) /\ "signal" \in left[w]
        /\ left[w] # {} => "signal" \in left[w] /\ "completion" \notin left[w]

WriteInv == TypeOK /\ Homes /\ Unlisted /\ AloneList /\ Owned /\ Semaphores

\* What a thread that returns leaves: its own state is cleared, and its
\* client's list is what the pop has left.
LEMMA ReturnKeeps ==
    ASSUME WriteInv, NEW w \in Writers, pc[w] # "idle", listed' = listed,
           FreeAndReturn(w, PopFromURBList(ClientOf[w]))
    PROVE  Unlisted' /\ AloneList' /\ Owned'
<1> DEFINE c == ClientOf[w]
           rest == PopFromURBList(c)
<1>1. c \in Clients /\ rest \in Seq(Entries)
  BY PopFacts, WriteSyncAssumption DEF WriteInv
<1>2. mpURBList \in [Clients -> Seq(Entries)]
      /\ mpURBList' = [mpURBList EXCEPT ![c] = Dangle(rest, w)]
      /\ pc \in [Writers -> {"idle", "submit", "failed", "down", "interrupted"}]
      /\ pc' = [pc EXCEPT ![w] = "idle"]
  BY DEF FreeAndReturn, WriteInv, TypeOK, Entries
<1>3. rest = <<>> => Dangle(rest, w) = <<>>
  <2>1. Dangle(rest, w) \in Seq(Entries) /\ Len(Dangle(rest, w)) = Len(rest)
    BY <1>1, DangleFacts
  <2> QED
    BY <2>1
<1>4. c \notin listed => rest = <<>>
  BY DEF PopFromURBList
<1> HIDE DEF rest
<1>5. Unlisted'
  BY <1>1, <1>2, <1>3, <1>4 DEF WriteInv, Unlisted
<1>6. AloneList'
  <2> SUFFICES ASSUME NEW v \in Writers, Alone(v), ClientOf[v] \in listed
               PROVE  mpURBList'[ClientOf[v]] =
                          IF pc'[v] = "idle" THEN <<>> ELSE <<v>>
    BY DEF AloneList, Alone
  <2>1. CASE v = w
    <3>1. mpURBList[c] = <<w>>
      BY <2>1 DEF WriteInv, AloneList
    <3>2. rest = <<>>
      BY <3>1, <2>1 DEF rest, PopFromURBList
    <3> QED
      BY <1>1, <1>2, <1>3, <3>2, <2>1
  <2>2. CASE v # w
    <3>1. ClientOf[v] # c
      BY <2>2 DEF Alone
    <3> QED
      BY <1>1, <1>2, <3>1, <2>2 DEF WriteInv, AloneList
  <2> QED
    BY <2>1, <2>2
<1>7. Owned'
  BY <1>2 DEF FreeAndReturn, WriteInv, Owned, TypeOK
<1> QED
  BY <1>5, <1>6, <1>7

\* The entries of a list stay threads of its client.
LEMMA HomesKept ==
    ASSUME WriteInv, [Next]_vars
    PROVE  Homes'
<1>0. mpURBList \in [Clients -> Seq(Entries)] /\ Homes
  BY DEF WriteInv, TypeOK, Entries
<1>1. ASSUME NEW w \in Writers, WriteSync(w) PROVE Homes'
  BY <1>0, <1>1, WriteSyncAssumption DEF WriteSync, AddToURBList, Homes
<1>2. ASSUME NEW w \in Writers, FreeAndReturn(w, PopFromURBList(ClientOf[w]))
      PROVE  Homes'
  <2> DEFINE c == ClientOf[w]
             rest == PopFromURBList(c)
  <2>1. c \in Clients /\ rest \in Seq(Entries)
    BY PopFacts, WriteSyncAssumption DEF WriteInv
  <2>2. mpURBList' = [mpURBList EXCEPT ![c] = Dangle(rest, w)]
    BY <1>2 DEF FreeAndReturn
  <2>3. \A i \in 1 .. Len(rest) : rest[i] = Freed \/ ClientOf[rest[i]] = c
    BY <1>0, <2>1 DEF PopFromURBList, Homes
  <2>4. \A i \in 1 .. Len(Dangle(rest, w)) :
            Dangle(rest, w)[i] = Freed \/ ClientOf[Dangle(rest, w)[i]] = c
    BY <2>1, <2>3, DangleFacts
  <2> QED
    BY <1>0, <2>1, <2>2, <2>4 DEF Homes
<1>3. ASSUME NEW w \in Writers, SubmitFailed(w) \/ Finish(w) PROVE Homes'
  BY <1>2, <1>3 DEF SubmitFailed, Finish
<1>4. ASSUME NEW c \in Clients, ReleaseClientID(c) PROVE Homes'
  BY <1>0, <1>4 DEF ReleaseClientID, Homes
<1>5. ASSUME UNCHANGED mpURBList PROVE Homes'
  BY <1>0, <1>5 DEF Homes
<1>6. ASSUME NEW w \in Writers,
             Submit(w) \/ WriteSyncCallback(w) \/ StrayCallback(w) \/ Interrupt(w)
      PROVE  Homes'
  BY <1>5, <1>6 DEF Submit, WriteSyncCallback, StrayCallback, Interrupt
<1> QED
  BY <1>1, <1>3, <1>4, <1>5, <1>6 DEF Next, vars

\* Nothing is listed, submitted or astray at first.
LEMMA WriteInvInit == Init => WriteInv
<1> SUFFICES ASSUME Init PROVE WriteInv
  OBVIOUS
<1>1. TypeOK
  BY DEF Init, TypeOK
<1>2. Unlisted /\ Owned /\ Semaphores
  BY DEF Init, Unlisted, Owned, Semaphores
<1>4. Homes
  BY DEF Init, Homes
<1>3. AloneList
  BY WriteSyncAssumption DEF Init, AloneList
<1> QED
  BY <1>1, <1>2, <1>3, <1>4 DEF WriteInv

\* Stray callbacks and semaphores, step by step.
LEMMA SemaphoresKept ==
    ASSUME WriteInv, [Next]_vars
    PROVE  Semaphores'
<1> USE DEF Semaphores, MayLeave, Alone
<1>0. pc \in [Writers -> {"idle", "submit", "failed", "down", "interrupted"}]
  BY DEF WriteInv, TypeOK
<1>1. ASSUME NEW w \in Writers, WriteSync(w) PROVE Semaphores'
  BY <1>0, <1>1 DEF WriteSync, WriteInv
<1>2. ASSUME NEW w \in Writers, Submit(w) PROVE Semaphores'
  BY <1>0, <1>2 DEF Submit, WriteInv
<1>3. ASSUME NEW w \in Writers, SubmitFailed(w) PROVE Semaphores'
  BY <1>0, <1>3 DEF SubmitFailed, FreeAndReturn, WriteInv
<1>4. ASSUME NEW w \in Writers, Finish(w) PROVE Semaphores'
  <2>1. /\ pc' = [pc EXCEPT ![w] = "idle"]
        /\ flying' = flying \ {w} /\ writeSem' = writeSem \ {w}
        /\ early' = early \ {w} /\ listed' = listed
        /\ pc[w] = "interrupted" \/ (pc[w] = "down" /\ w \in writeSem)
        /\ \/ UNCHANGED <<stray, left>>
           \/ /\ w \in flying /\ ~(GotOwn(w) /\ pc[w] = "interrupted")
              /\ stray' = stray \cup {w}
              /\ left' = [left EXCEPT ![w] = left[w] \cup {Ending(w)}]
    BY <1>4 DEF Finish, FreeAndReturn, Leave
  <2>2. CASE UNCHANGED <<stray, left>>
    BY <1>0, <2>1, <2>2 DEF WriteInv
  <2>3. CASE /\ w \in flying /\ ~(GotOwn(w) /\ pc[w] = "interrupted")
             /\ stray' = stray \cup {w}
             /\ left' = [left EXCEPT ![w] = left[w] \cup {Ending(w)}]
    <3>1. \/ pc[w] = "interrupted" /\ Ending(w) = "signal"
          \/ pc[w] = "down" /\ w \in early /\ Ending(w) = "early"
      BY <2>1, <2>3 DEF WriteInv, Ending
    <3>2. MayLeave(w)
      <4> SUFFICES ASSUME Alone(w), ClientOf[w] \in listed PROVE FALSE
        OBVIOUS
      <4>1. mpURBList[ClientOf[w]] = <<w>>
        BY <2>1 DEF WriteInv, AloneList
      <4>2. GotOwn(w)
        BY <4>1 DEF GotOwn
      <4> QED
        BY <2>3, <3>1, <4>2 DEF WriteInv
    <3>3. left \in [Writers -> SUBSET Endings] /\ ("early" \in left'[w] => "signal" \in left'[w])
      BY <2>3, <3>1 DEF WriteInv, TypeOK
    <3>4. "signal" \in left'[w] /\ "completion" \notin left'[w]
      BY <2>3, <3>1, <3>3 DEF WriteInv
    <3> QED
      BY <1>0, <2>1, <2>3, <3>2, <3>3, <3>4 DEF WriteInv
  <2> QED
    BY <2>1, <2>2, <2>3
<1>5. ASSUME NEW w \in Writers, WriteSyncCallback(w) PROVE Semaphores'
  BY <1>5 DEF WriteSyncCallback, WriteInv
<1>6. ASSUME NEW w \in Writers, StrayCallback(w) PROVE Semaphores'
  BY <1>6 DEF StrayCallback, WriteInv
<1>7. ASSUME NEW w \in Writers, Interrupt(w) PROVE Semaphores'
  BY <1>0, <1>7 DEF Interrupt, WriteInv
<1>8. ASSUME NEW c \in Clients, ReleaseClientID(c) PROVE Semaphores'
  BY <1>8 DEF ReleaseClientID, WriteInv
<1>9. CASE UNCHANGED vars
  BY <1>9 DEF vars, WriteInv
<1> QED
  BY <1>1, <1>2, <1>3, <1>4, <1>5, <1>6, <1>7, <1>8, <1>9 DEF Next

\* The conjuncts of WriteInv need each other: a release frees what its list
\* holds, which is safe because Homes says whose URBs these are.
LEMMA WriteInvKept ==
    ASSUME WriteInv, [Next]_vars
    PROVE  WriteInv'
<1>0. /\ TypeOK /\ Unlisted /\ AloneList /\ Owned
      /\ pc \in [Writers -> {"idle", "submit", "failed", "down", "interrupted"}]
      /\ mpURBList \in [Clients -> Seq(Entries)]
      /\ urb \in [Writers -> {"none", "owned", "freed"}]
  BY DEF WriteInv, TypeOK, Entries
<1>1. TypeOK' /\ Homes' /\ Semaphores'
  BY TypesKept, HomesKept, SemaphoresKept DEF WriteInv
<1>2. ASSUME NEW w \in Writers, WriteSync(w)
      PROVE  Unlisted' /\ AloneList' /\ Owned'
  <2>1. ClientOf[w] \in Clients /\ mpURBList[ClientOf[w]] \in Seq(Entries)
    BY <1>0, WriteSyncAssumption
  <2>2. /\ pc' = [pc EXCEPT ![w] = "submit"] /\ pc[w] = "idle"
        /\ urb' = [urb EXCEPT ![w] = "owned"]
        /\ listed' = listed /\ ClientOf[w] \in listed
        /\ mpURBList' = [mpURBList EXCEPT ![ClientOf[w]] = Append(@, w)]
    BY <1>2 DEF WriteSync, AddToURBList
  <2>3. Unlisted' /\ Owned'
    BY <1>0, <2>1, <2>2 DEF Unlisted, Owned
  <2>4. ASSUME NEW v \in Writers, Alone(v), ClientOf[v] \in listed
        PROVE  mpURBList'[ClientOf[v]] = IF pc'[v] = "idle" THEN <<>> ELSE <<v>>
    <3>1. CASE v = w
      <4>1. mpURBList[ClientOf[w]] = <<>>
        BY <1>0, <2>2, <2>4, <3>1 DEF AloneList
      <4>2. mpURBList'[ClientOf[w]] = <<w>>
        BY <1>0, <2>1, <2>2, <4>1
      <4> QED
        BY <1>0, <2>2, <3>1, <4>2
    <3>2. CASE v # w
      <4>1. ClientOf[v] # ClientOf[w]
        BY <2>4, <3>2 DEF Alone
      <4> QED
        BY <1>0, <2>1, <2>2, <2>4, <3>2, <4>1 DEF AloneList
    <3> QED
      BY <3>1, <3>2
  <2>5. AloneList'
    BY <2>2, <2>4 DEF AloneList, Alone
  <2> QED
    BY <2>3, <2>5
<1>3. ASSUME NEW w \in Writers, Submit(w)
      PROVE  Unlisted' /\ AloneList' /\ Owned'
  BY <1>0, <1>3 DEF Submit, Unlisted, AloneList, Owned, Alone
<1>4. ASSUME NEW w \in Writers, SubmitFailed(w) \/ Finish(w)
      PROVE  Unlisted' /\ AloneList' /\ Owned'
  BY <1>4, ReturnKeeps DEF SubmitFailed, Finish
<1>5. ASSUME NEW w \in Writers, WriteSyncCallback(w) \/ StrayCallback(w)
      PROVE  Unlisted' /\ AloneList' /\ Owned'
  BY <1>0, <1>5 DEF WriteSyncCallback, StrayCallback, Unlisted, AloneList, Owned, Alone
<1>6. ASSUME NEW w \in Writers, Interrupt(w)
      PROVE  Unlisted' /\ AloneList' /\ Owned'
  BY <1>0, <1>6 DEF Interrupt, Unlisted, AloneList, Owned, Alone
<1>7. ASSUME NEW c \in Clients, ReleaseClientID(c)
      PROVE  Unlisted' /\ AloneList' /\ Owned'
  <2>1. Unlisted'
    BY <1>0, <1>7 DEF ReleaseClientID, Unlisted
  <2>2. AloneList'
    BY <1>0, <1>7, WriteSyncAssumption DEF ReleaseClientID, AloneList, Alone
  <2>3. Owned'
    <3> SUFFICES ASSUME NEW w \in Writers, pc[w] # "idle",
                        ClientOf[w] \in listed \ {c}
                 PROVE  urb'[w] = "owned"
      BY <1>7 DEF ReleaseClientID, Owned
    <3>1. ~Contains(mpURBList[c], w)
      BY WriteSyncAssumption DEF WriteInv, Homes, Contains
    <3>2. urb'[w] = urb[w]
      BY <1>7, <3>1 DEF ReleaseClientID
    <3> QED
      BY <1>0, <3>2 DEF Owned
  <2> QED
    BY <2>1, <2>2, <2>3
<1>8. ASSUME UNCHANGED vars
      PROVE  Unlisted' /\ AloneList' /\ Owned'
  BY <1>0, <1>8 DEF vars, Unlisted, AloneList, Owned, Alone
<1>9. Unlisted' /\ AloneList' /\ Owned'
  BY <1>2, <1>3, <1>4, <1>5, <1>6, <1>7, <1>8 DEF Next
<1> QED
  BY <1>1, <1>9 DEF WriteInv

\* WriteInv holds in every reachable state.
LEMMA WriteInvariant == Spec => []WriteInv
BY WriteInvInit, WriteInvKept, PTL DEF Spec

\* Nobody else frees the URB of a thread inside WriteSync while its client is
\* registered, and a thread alone on its client leaves no entry that points to
\* freed memory for ReleaseClientID to kill.
THEOREM UrbsAlive == Spec => []UrbAlive
<1>1. WriteInv => UrbAlive
  <2> SUFFICES ASSUME WriteInv, NEW w \in Writers, Alone(w)
               PROVE  ~Contains(mpURBList[ClientOf[w]], Freed)
    BY DEF WriteInv, Owned, UrbAlive
  <2>1. mpURBList[ClientOf[w]] \in {<<>>, <<w>>}
    BY WriteSyncAssumption DEF WriteInv, Unlisted, AloneList
  <2> QED
    BY <2>1, WriteSyncAssumption DEF Contains
<1> QED
  BY <1>1, WriteInvariant, PTL

\* An URB outlives its WriteSync only when a signal ended that, or when the
\* callback of one that a signal had left behind raised its semaphore; and that
\* of a thread alone on its client only when the client was released as well.
THEOREM StraysBySignal == Spec => []StrayOnlyBySignal
<1>1. WriteInv => StrayOnlyBySignal
  BY DEF WriteInv, TypeOK, Semaphores, MayLeave, StrayOnlyBySignal
<1> QED
  BY <1>1, WriteInvariant, PTL

-----------------------------------------------------------------------------
(* One entry taken off for each one put on.                                *)

\* The threads inside WriteSync on a client can be counted.
LEMMA InsideFinite ==
    \A c \in Clients : IsFiniteSet(Inside(c)) /\ Cardinality(Inside(c)) \in Nat
BY FS_Subset, FS_CardinalityType, WriteSyncAssumption DEF Inside

\* A thread that enters adds one entry and is one more inside.
LEMMA AddCounts ==
    ASSUME TypeOK, OnePopPerAdd, NEW w \in Writers, WriteSync(w)
    PROVE  OnePopPerAdd'
<1> DEFINE c == ClientOf[w]
<1>1. /\ c \in Clients /\ c \in listed /\ listed' = listed
      /\ pc \in [Writers -> {"idle", "submit", "failed", "down", "interrupted"}]
      /\ pc[w] = "idle" /\ pc' = [pc EXCEPT ![w] = "submit"]
      /\ mpURBList \in [Clients -> Seq(Entries)]
      /\ mpURBList' = [mpURBList EXCEPT ![c] = Append(@, w)]
  BY WriteSyncAssumption DEF WriteSync, AddToURBList, TypeOK, Entries
<1>2. listed \subseteq Clients
  BY DEF TypeOK
<1>3. Inside(c)' = Inside(c) \cup {w} /\ w \notin Inside(c)
  BY <1>1 DEF Inside
<1>4. ASSUME NEW d \in listed, d # c
      PROVE  Inside(d)' = Inside(d) /\ mpURBList'[d] = mpURBList[d]
  BY <1>1, <1>2, <1>4 DEF Inside
<1>5. Cardinality(Inside(c)') = Cardinality(Inside(c)) + 1
  BY <1>1, <1>3, InsideFinite, FS_AddElement
<1>6. Len(mpURBList'[c]) = Len(mpURBList[c]) + 1
  BY <1>1
<1>7. Len(mpURBList'[c]) = Cardinality(Inside(c)')
  BY <1>1, <1>5, <1>6 DEF OnePopPerAdd
<1>8. \A d \in listed : Len(mpURBList'[d]) = Cardinality(Inside(d)')
  BY <1>4, <1>7 DEF OnePopPerAdd
<1> QED
  BY <1>1, <1>8 DEF OnePopPerAdd

\* A thread that returns has popped one entry and is one fewer inside.
LEMMA ReturnCounts ==
    ASSUME TypeOK, OnePopPerAdd, NEW w \in Writers, pc[w] # "idle",
           listed' = listed, FreeAndReturn(w, PopFromURBList(ClientOf[w]))
    PROVE  OnePopPerAdd'
<1> DEFINE c == ClientOf[w]
           rest == PopFromURBList(c)
<1>1. /\ c \in Clients /\ rest \in Seq(Entries)
      /\ pc \in [Writers -> {"idle", "submit", "failed", "down", "interrupted"}]
      /\ pc' = [pc EXCEPT ![w] = "idle"]
      /\ mpURBList \in [Clients -> Seq(Entries)]
      /\ mpURBList' = [mpURBList EXCEPT ![c] = Dangle(rest, w)]
  BY PopFacts, WriteSyncAssumption DEF FreeAndReturn, TypeOK, Entries
<1>2. listed \subseteq Clients
  BY DEF TypeOK
<1>3. Inside(c)' = Inside(c) \ {w} /\ w \in Inside(c)
  BY <1>1 DEF Inside
<1>4. ASSUME NEW d \in listed, d # c
      PROVE  Inside(d)' = Inside(d) /\ mpURBList'[d] = mpURBList[d]
  BY <1>1, <1>2, <1>4 DEF Inside
<1>5. Cardinality(Inside(c)') = Cardinality(Inside(c)) - 1
  BY <1>1, <1>3, InsideFinite, FS_RemoveElement
<1>6. Cardinality(Inside(c)) > 0
  BY <1>1, <1>3, InsideFinite, FS_EmptySet
<1>7. ASSUME c \in listed PROVE Len(mpURBList'[c]) = Cardinality(Inside(c)')
  <2>1. Len(mpURBList[c]) = Cardinality(Inside(c)) /\ Len(mpURBList[c]) > 0
    BY <1>6, <1>7 DEF OnePopPerAdd
  <2>2. Len(rest) = Len(mpURBList[c]) - 1
    BY <1>1, <1>7, <2>1, PopFacts
  <2>3. Len(mpURBList'[c]) = Len(rest)
    BY <1>1, DangleFacts
  <2> QED
    BY <1>5, <2>1, <2>2, <2>3
<1>8. \A d \in listed : Len(mpURBList'[d]) = Cardinality(Inside(d)')
  BY <1>4, <1>7 DEF OnePopPerAdd
<1> QED
  BY <1>8 DEF OnePopPerAdd

\* Whatever order completions, failures and signals come in, every WriteSync
\* takes exactly one URB off its client's list for the one it put on.
THEOREM OnePop == Spec => []OnePopPerAdd
<1>1. Init => OnePopPerAdd
  <2> SUFFICES ASSUME Init, NEW c \in Clients
               PROVE  Len(mpURBList[c]) = Cardinality(Inside(c))
    BY DEF Init, OnePopPerAdd
  <2>1. Inside(c) = {}
    BY DEF Init, Inside
  <2> QED
    BY <2>1, FS_EmptySet DEF Init
<1>2. TypeOK /\ OnePopPerAdd /\ [Next]_vars => OnePopPerAdd'
  <2> SUFFICES ASSUME TypeOK, OnePopPerAdd, [Next]_vars PROVE OnePopPerAdd'
    OBVIOUS
  <2>1. ASSUME UNCHANGED <<mpURBList, listed>>,
               \A v \in Writers : pc'[v] = "idle" <=> pc[v] = "idle"
        PROVE  OnePopPerAdd'
    <3>1. \A c \in Clients : Inside(c)' = Inside(c)
      BY <2>1 DEF Inside
    <3> QED
      BY <2>1, <3>1 DEF OnePopPerAdd, TypeOK
  <2>2. ASSUME NEW w \in Writers, Submit(w) PROVE OnePopPerAdd'
    BY <2>1, <2>2 DEF Submit, TypeOK
  <2>3. ASSUME NEW w \in Writers, WriteSyncCallback(w) \/ StrayCallback(w)
        PROVE  OnePopPerAdd'
    BY <2>1, <2>3 DEF WriteSyncCallback, StrayCallback
  <2>4. ASSUME NEW w \in Writers, Interrupt(w) PROVE OnePopPerAdd'
    BY <2>1, <2>4 DEF Interrupt, TypeOK
  <2>5. ASSUME NEW w \in Writers, SubmitFailed(w) \/ Finish(w)
        PROVE  OnePopPerAdd'
    BY <2>5, ReturnCounts DEF SubmitFailed, Finish
  <2>6. ASSUME NEW c \in Clients, ReleaseClientID(c) PROVE OnePopPerAdd'
    <3>1. \A d \in Clients : Inside(d)' = Inside(d)
      BY <2>6 DEF ReleaseClientID, Inside
    <3>2. \A d \in listed' : d \in listed /\ mpURBList'[d] = mpURBList[d]
      BY <2>6 DEF ReleaseClientID, TypeOK
    <3> QED
      BY <3>1, <3>2 DEF OnePopPerAdd, TypeOK
  <2>7. CASE UNCHANGED vars
    BY <2>1, <2>7 DEF vars
  <2> QED
    BY <2>2, <2>3, <2>4, <2>5, <2>6, <2>7, AddCounts DEF Next
<1> QED
  BY <1>1, <1>2, WriteTypes, PTL DEF Spec
-----------------------------------------------------------------------------
(* The URBs of the continuous read. *)

\* Both URBs are allocated together and freed together, and no kill leaves an
\* URB with the host controller.
ChainInv ==
    /\ ~(mpReadURB = "flying" /\ mpIntURB = "flying")
    /\ strayRead = 0 /\ strayInt = 0
    /\ ~oops
    /\ mpReadURB = "NULL" <=> mpIntURB = "NULL"
    /\ ctl = "start" => mpReadURB = "NULL"
    /\ ctl = "submit" => mbQMIValid
    /\ ctl = "kill_int" => mpReadURB # "flying"
    /\ ctl \in {"submit", "free", "down", "gone"} =>
           mpReadURB # "flying" /\ mpIntURB # "flying"
    /\ ~mbQMIValid => mpReadURB # "flying" /\ mpIntURB # "flying"
    /\ ctl = "down" => mpReadURB = "NULL"

\* Every variable stays in its type, whatever the callbacks do to the counts of
\* stray URBs and whenever the chain is stopped.
THEOREM ChainTypes == ChainSpec => []ChainTypeOK
<1>1. ASSUME ChainInit PROVE ChainTypeOK
  <2>1. suspends \in 0 .. MaxSuspends /\ strayRead \in Nat /\ strayInt \in Nat
        BY <1>1, ReadChainAssumption DEF ChainInit, ReadChainAssumption
  <2> QED  BY <1>1, <2>1, Zenon DEF ChainInit, ChainTypeOK, Urb
<1>2. ASSUME ChainTypeOK, [ChainNext]_chainVars PROVE ChainTypeOK'
  <2> USE DEF ChainTypeOK, Urb, urbs
  <2>1. CASE Callbacks
    <3>1. CASE \E own \in BOOLEAN : ReadCallback(own) /\ UNCHANGED <<oops, late>>
          BY <1>2, <2>1, <3>1 DEF Callbacks, ReadCallback, ResubmitIntURB
    <3>2. ASSUME NEW own \in BOOLEAN, IntCallback(own) PROVE ChainTypeOK'
      <4>1. strayInt' \in Nat
            BY <1>2, <3>2 DEF IntCallback, IntURBOver, ResubmitOwn, ResponseAvailable
      <4>2. died' \in BOOLEAN /\ oops' \in BOOLEAN /\ late' \in BOOLEAN
            BY <1>2, <3>2, Zenon
            DEF IntCallback, ResubmitOwn, ResponseAvailable, ResubmitIntURB
      <4>3. (mpReadURB \in Urb /\ mpIntURB \in Urb /\ strayRead \in Nat)'
            BY <1>2, <3>2
            DEF IntCallback, IntURBOver, ResubmitOwn, ResponseAvailable,
                ResubmitIntURB
      <4> QED  BY <1>2, <2>1, <4>1, <4>2, <4>3 DEF Callbacks
    <3> QED  BY <2>1, <3>1, <3>2 DEF Callbacks
  <2>2. CASE StartRead \/ StartReadSubmit
    <3>1. mbQMIValid' \in BOOLEAN
          BY <1>2, <2>2, Zenon DEF StartRead, StartReadSubmit
    <3>2. (mpReadURB \in Urb /\ mpIntURB \in Urb)'
          BY <1>2, <2>2 DEF StartRead, StartReadSubmit
    <3> QED  BY <1>2, <2>2, <3>1, <3>2, Zenon DEF StartRead, StartReadSubmit
  <2>3. CASE GobiSuspend
    <3>1. suspends' \in 0 .. MaxSuspends
          BY <1>2, <2>3, ReadChainAssumption DEF GobiSuspend, ReadChainAssumption
    <3> QED  BY <1>2, <2>3, <3>1 DEF GobiSuspend
  <2>4. CASE GobiResume \/ DeregisterQMIDevice
    <3>1. CASE GobiResume
          BY <1>2, <3>1 DEF GobiResume
    <3>2. CASE DeregisterQMIDevice
          BY <1>2, <3>2 DEF DeregisterQMIDevice
    <3> QED  BY <2>4, <3>1, <3>2
  <2>5. CASE KillReadURB \/ KillIntURB
    <3>1. died' \in BOOLEAN
          BY <1>2, <2>5, Zenon
          DEF KillReadURB, KillIntURB, ReadCallback, ResubmitIntURB
    <3> QED  BY <1>2, <2>5, <3>1
             DEF KillReadURB, KillIntURB, ReadCallback, ResubmitIntURB
  <2>6. CASE FreeURBs
        BY <1>2, <2>6 DEF FreeURBs
  <2>7. CASE UNCHANGED chainVars
        BY <1>2, <2>7 DEF chainVars
  <2> QED  BY <1>2, <2>1, <2>2, <2>3, <2>4, <2>5, <2>6, <2>7 DEF ChainNext, Control
<1> QED  BY <1>1, <1>2, PTL DEF ChainSpec

-----------------------------------------------------------------------------
\* A step without a late interrupt keeps ChainInv.
LEMMA ChainStep ==
    ASSUME ChainTypeOK, ChainInv, ~late', [ChainNext]_chainVars
    PROVE  ChainInv'
<1> USE DEF ChainInv, ChainTypeOK, Urb, urbs
<1>1. CASE Callbacks
  <2>1. CASE ReadCallback(TRUE) /\ UNCHANGED <<oops, late>>
        BY <1>1, <2>1 DEF Callbacks, ReadCallback, ResubmitIntURB
  <2>2. CASE ReadCallback(FALSE) /\ UNCHANGED <<oops, late>>
        BY <1>1, <2>2 DEF Callbacks, ReadCallback
  <2>3. CASE IntCallback(TRUE)
        BY <1>1, <2>3
        DEF Callbacks, IntCallback, IntURBOver, ResubmitOwn, ResponseAvailable,
            ResubmitIntURB
  <2>4. CASE IntCallback(FALSE)
        BY <1>1, <2>4 DEF Callbacks, IntCallback
  <2> QED  BY <1>1, <2>1, <2>2, <2>3, <2>4 DEF Callbacks
<1>2. CASE StartRead
      BY <1>2 DEF StartRead
<1>3. CASE StartReadSubmit
  <2>1. CASE UNCHANGED mbQMIValid
        BY <1>3, <2>1 DEF StartReadSubmit
  <2>2. CASE UNCHANGED mpIntURB /\ ~mbQMIValid'
        BY <1>3, <2>2 DEF StartReadSubmit
  <2> QED  BY <1>3, <2>1, <2>2 DEF StartReadSubmit
<1>4. CASE GobiSuspend \/ GobiResume \/ DeregisterQMIDevice
      BY <1>4 DEF GobiSuspend, GobiResume, DeregisterQMIDevice
<1>5. CASE KillReadURB
      BY <1>5 DEF KillReadURB, ReadCallback, ResubmitIntURB
<1>6. CASE KillIntURB
      BY <1>6 DEF KillIntURB
<1>7. CASE FreeURBs
      BY <1>7 DEF FreeURBs
<1>8. CASE UNCHANGED chainVars
      BY <1>8 DEF chainVars
<1> QED  BY <1>1, <1>2, <1>3, <1>4, <1>5, <1>6, <1>7, <1>8 DEF ChainNext, Control

\* A late interrupt is not forgotten.
LEMMA LateStays == late /\ [ChainNext]_chainVars => late'
BY DEF ChainNext, Control, Callbacks, ReadCallback, IntCallback, chainVars, urbs,
       StartRead, StartReadSubmit, GobiSuspend, GobiResume,
       DeregisterQMIDevice, KillReadURB, KillIntURB, FreeURBs

\* For every number of suspends, and with every failure of an allocation, a
\* submission or a transfer: unless an interrupt comes between KillRead's two
\* kills, the interrupt and the read URB are never both in flight, none
\* outlives KillRead, and IntCallback fills no NULL URB.
THEOREM ChainSafe == ChainSpec => [](OneToken /\ NoOops)
<1>1. ChainInit => ChainInv
      BY DEF ChainInit, ChainInv
<1>2. ChainTypeOK /\ (~late => ChainInv) /\ [ChainNext]_chainVars => (~late => ChainInv)'
      BY ChainStep, LateStays
<1>3. ChainTypeOK /\ (~late => ChainInv) => OneToken /\ NoOops
      BY DEF ChainTypeOK, ChainInv, OneToken, NoOops
<1> QED  BY <1>1, <1>2, <1>3, ChainTypes, PTL DEF ChainSpec
-----------------------------------------------------------------------------
\* A started chain runs on a valid device and only while nobody stops it, with
\* stray URBs about or not.
ReadingInv ==
    /\ ctl = "submit" => mbQMIValid
    /\ reading => ctl = "up" /\ mbQMIValid
    /\ StillReading

\* Neither callback leaves both URBs idle, unless the chain dies with it.
LEMMA CallbacksHandOver ==
    ASSUME ReadingInv, Callbacks
    PROVE  StillReading'
<1> SUFFICES ASSUME ctl = "up", reading, ~died', mbQMIValid,
                    "flying" \in {mpReadURB, mpIntURB} \/ died
             PROVE  "flying" \in {mpReadURB', mpIntURB'}
    BY DEF ReadingInv, StillReading, Callbacks
<1>1. CASE \E own \in BOOLEAN : ReadCallback(own)
      BY <1>1 DEF ReadCallback, ResubmitIntURB
<1>2. ASSUME NEW own \in BOOLEAN, IntCallback(own)
      PROVE  "flying" \in {mpReadURB', mpIntURB'}
      BY <1>2 DEF IntCallback, IntURBOver, ResubmitOwn, ResponseAvailable,
                  ResubmitIntURB, urbs
<1> QED  BY <1>1, <1>2 DEF Callbacks

\* For every number of suspends, and with every failure: a chain that was
\* started and has not died by an error waits for an interrupt or a response,
\* even with URBs of an earlier run still about.
THEOREM ChainStillReads == ChainSpec => []StillReading
<1>1. ChainInit => ReadingInv
      BY DEF ChainInit, ReadingInv, StillReading
<1>2. ASSUME ReadingInv, [ChainNext]_chainVars PROVE ReadingInv'
  <2>1. CASE Callbacks
        BY <1>2, <2>1, CallbacksHandOver DEF Callbacks, ReadingInv
  <2>2. CASE StartRead
        BY <1>2, <2>2 DEF StartRead, ReadingInv, StillReading
  <2>3. CASE StartReadSubmit
    <3>1. CASE mpIntURB' = "flying" /\ UNCHANGED mbQMIValid
          BY <1>2, <2>3, <3>1 DEF StartReadSubmit, ReadingInv, StillReading
    <3>2. CASE UNCHANGED reading
          BY <1>2, <2>3, <3>2 DEF StartReadSubmit, ReadingInv, StillReading
    <3> QED  BY <2>3, <3>1, <3>2 DEF StartReadSubmit
  <2>4. CASE GobiSuspend \/ GobiResume \/ DeregisterQMIDevice
        BY <1>2, <2>4
        DEF GobiSuspend, GobiResume, DeregisterQMIDevice, ReadingInv, StillReading
  <2>5. CASE KillReadURB \/ KillIntURB \/ FreeURBs
    <3>1. ctl # "up" /\ ctl' # "submit" /\ UNCHANGED reading
          BY <2>5 DEF KillReadURB, KillIntURB, FreeURBs
    <3> QED  BY <1>2, <3>1 DEF ReadingInv, StillReading
  <2>6. CASE UNCHANGED chainVars
        BY <1>2, <2>6 DEF chainVars, urbs, ReadingInv, StillReading
  <2> QED  BY <1>2, <2>1, <2>2, <2>3, <2>4, <2>5, <2>6 DEF ChainNext, Control
<1>3. ReadingInv => StillReading
      BY DEF ReadingInv
<1> QED  BY <1>1, <1>2, <1>3, PTL DEF ChainSpec
=============================================================================
