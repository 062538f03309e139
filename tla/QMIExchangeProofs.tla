------------------------- MODULE QMIExchangeProofs -------------------------
(***************************************************************************)
(* Proofs about QMIExchange, for every set of client IDs, every set of     *)
(* transaction numbers, every set of TLVs whose answers fit the read URB,  *)
(* and answers of any number of them: each request is well-formed on the   *)
(* wire, each answer is heard under its request's client and number and    *)
(* understood as what it says, and the frames of the network interface     *)
(* have the form the device uses.                                          *)
(*                                                                         *)
(* GetTLV, TLVsTile and FlattenSeq are recursive functions; what they      *)
(* compute is proved by induction over sets of numbers: a set of naturals  *)
(* that is not empty has a least member.                                   *)
(***************************************************************************)
EXTENDS QMIExchange, SequenceTheorems, WellFoundedInduction, TLAPS

-----------------------------------------------------------------------------
(* Induction over the natural numbers, with a set in place of a predicate. *)

LEMMA Less == IsWellFoundedOn({ss \in Nat \X Nat : ss[1] < ss[2]}, Nat)
BY NatLessThanWellFounded DEF OpToRel

\* A set of natural numbers that is not empty has a least member.
LEMMA Least ==
    ASSUME NEW T \in SUBSET Nat, T # {}
    PROVE  \E x \in T : \A y \in T : x <= y
<1> DEFINE R == {ss \in Nat \X Nat : ss[1] < ss[2]}
<1>1. PICK x \in T : \A y \in T : ~(<<y, x>> \in R)
  BY Less, WFMin, Zenon
<1>2. ASSUME NEW y \in T PROVE x <= y
  <2>1. x \in Nat /\ y \in Nat
    OBVIOUS
  <2>2. <<y, x>> \notin R
    BY <1>1
  <2>3. ~(y < x)
    BY <2>1, <2>2
  <2>. QED  BY <2>1, <2>3
<1>. QED  BY <1>2

\* A set with 0 and with the successor of each of its numbers has them all.
LEMMA Induction ==
    ASSUME NEW P, 0 \in P, \A n \in Nat : n \in P => n + 1 \in P
    PROVE  Nat \subseteq P
<1>1. SUFFICES ASSUME Nat \ P # {} PROVE FALSE
  OBVIOUS
<1>2. PICK n \in Nat \ P : \A m \in Nat \ P : n <= m
  BY <1>1, Least, Zenon
<1>3. n # 0
  BY <1>2
<1>4. n - 1 \in Nat /\ n - 1 \in P
  BY <1>2, <1>3
<1>. QED  BY <1>2, <1>4

\* A function that either has a value or is that of the next argument exists,
\* even where going on to the next never ends.
Recurses(S, base, value, next) ==
    \E g : /\ g = [p \in S |-> g[p]]
           /\ \A p \in base : g[p] = value[p]
           /\ \A p \in S : p \notin base => g[p] = g[next[p]]

\* The least number of steps to the base decides; without one the function
\* is constant along the way.
LEMMA TailRecursion ==
    ASSUME NEW S, NEW base \in SUBSET S, NEW value, NEW next \in [S -> S]
    PROVE  Recurses(S, base, value, next)
<1> DEFINE V == {value[p] : p \in base}
           Closed(C) == /\ \A p \in base : <<p, value[p]>> \in C
                        /\ \A p \in S \ base, v \in V :
                              <<next[p], v>> \in C => <<p, v>> \in C
           Pairs == S \X V
           R == {q \in Pairs : \A C \in SUBSET Pairs : Closed(C) => q \in C}
           Vals(p) == {v \in V : <<p, v>> \in R}
           g == [p \in S |-> CHOOSE v : v \in Vals(p)]
<1>1. \A p \in base : <<p, value[p]>> \in R
  OBVIOUS
<1>2. \A p \in S \ base, v \in V : <<next[p], v>> \in R => <<p, v>> \in R
  <2>1. SUFFICES ASSUME NEW p \in S \ base, NEW v \in V, <<next[p], v>> \in R,
                        NEW C \in SUBSET Pairs, Closed(C)
                 PROVE  <<p, v>> \in C
    OBVIOUS
  <2>2. <<next[p], v>> \in C
    BY <2>1
  <2>. QED  BY <2>1, <2>2
<1>3. ASSUME NEW p \in base PROVE Vals(p) = {value[p]}
  <2>1. value[p] \in Vals(p)
    BY <1>1
  <2>2. ASSUME NEW v \in Vals(p), v # value[p] PROVE FALSE
    <3> DEFINE C == R \ {<<p, v>>}
    <3>1. C \in SUBSET Pairs /\ <<p, v>> \in R
      OBVIOUS
    <3>2. Closed(C)
      <4>1. \A q \in base : <<q, value[q]>> \in C
        BY <1>1, <2>2
      <4>2. \A q \in S \ base, w \in V : <<next[q], w>> \in C => <<q, w>> \in C
        BY <1>2, <1>3
      <4>. QED  BY <4>1, <4>2
    <3>. QED  BY <3>1, <3>2
  <2>. QED  BY <2>1, <2>2
<1>4. ASSUME NEW p \in S \ base PROVE Vals(p) = Vals(next[p])
  <2>1. \A v \in Vals(next[p]) : v \in Vals(p)
    BY <1>2
  <2>2. ASSUME NEW v \in Vals(p), v \notin Vals(next[p]) PROVE FALSE
    <3> DEFINE C == R \ {<<p, v>>}
    <3>1. C \in SUBSET Pairs /\ <<p, v>> \in R
      OBVIOUS
    <3>2. Closed(C)
      <4>1. \A q \in base : <<q, value[q]>> \in C
        BY <1>1, <1>4
      <4>2. \A q \in S \ base, w \in V : <<next[q], w>> \in C => <<q, w>> \in C
        BY <1>2, <2>2
      <4>. QED  BY <4>1, <4>2
    <3>. QED  BY <3>1, <3>2
  <2>. QED  BY <2>1, <2>2
<1> HIDE DEF Vals
<1>5. \A p \in base : g[p] = value[p]
  BY <1>3
<1>6. \A p \in S \ base : g[p] = g[next[p]]
  BY <1>4
<1>7. g = [p \in S |-> g[p]]
  OBVIOUS
<1>. QED  BY <1>5, <1>6, <1>7 DEF Recurses

\* The names keep large numbers from the provers.
Offsets == 0..U16Max
Wrapped(n) == n % 65536
Short == 0..4096

Enough(msg, pos) == pos + 3 < Len(msg)
Found(msg, room, pos) ==
    IF room < Word(msg, pos + 1) THEN [result |-> ENOMEM, data |-> <<>>]
    ELSE [result |-> Word(msg, pos + 1),
          data |-> Slice(msg, pos + 3, Word(msg, pos + 1))]
NotFound == [result |-> ENOMSG, data |-> <<>>]
NextPos(msg, pos) == Wrapped(pos + Word(msg, pos + 1) + 3)

\* The 16 bits of a number are an offset.
LEMMA WrappedIsOffset ==
    ASSUME NEW n \in Nat
    PROVE  Wrapped(n) \in Offsets
<1>1. n % 65536 \in Nat /\ n % 65536 <= 65535
  OBVIOUS
<1> DEFINE m == n % 65536
<1> HIDE DEF m
<1>2. m \in 0..U16Max
  <2>1. U16Max \in Nat /\ m <= U16Max /\ m \in Nat
    BY <1>1 DEF U16Max, m
  <2>. QED  BY <2>1
<1>. QED  BY <1>2 DEF m, Offsets, Wrapped

\* An offset is a natural number.
LEMMA OffsetIsNat ==
    ASSUME NEW n \in Offsets
    PROVE  n \in Nat
<1>1. n \in 0..U16Max /\ U16Max \in Nat
  <2>1. U16Max \in Nat
    BY DEF U16Max
  <2>. QED  BY <2>1 DEF Offsets
<1>. QED  BY <1>1

\* What fits the read URB is short.
LEMMA IsShort ==
    ASSUME NEW n \in Nat, n <= 4087
    PROVE  n \in Short
<1>1. n \in Nat /\ n <= 4096
  OBVIOUS
<1>. QED  BY <1>1 DEF Short

\* A short number is an offset that 16 bits do not change.
LEMMA ShortIsOffset ==
    ASSUME NEW n \in Short
    PROVE  n \in Offsets /\ Wrapped(n) = n
<1>0. n \in 0..4096
  BY DEF Short
<1>1. n \in Offsets
  <2>1. U16Max \in Nat /\ 4096 <= U16Max
    BY DEF U16Max
  <2>2. n \in 0..U16Max
    BY <1>0, <2>1
  <2>. QED  BY <2>2 DEF Offsets
<1>2. Wrapped(n) = n
  BY <1>0 DEF Wrapped
<1>. QED  BY <1>1, <1>2

\* GetTLV goes from one offset to another.
LEMMA NextOffset ==
    ASSUME NEW msg \in Seq(Nat), NEW pos \in Offsets, Enough(msg, pos)
    PROVE  NextPos(msg, pos) \in Offsets
<1>1. pos \in Nat
  BY OffsetIsNat
<1>2. pos + 1 + 1 \in 1..Len(msg) /\ pos + 1 + 1 + 1 \in 1..Len(msg)
  BY <1>1 DEF Enough
<1>3. Word(msg, pos + 1) \in Nat
  BY <1>2 DEF Word, Byte
<1>4. pos + Word(msg, pos + 1) + 3 \in Nat
  BY <1>1, <1>3
<1>. QED  BY <1>4, WrappedIsOffset DEF NextPos

\* GetTLV is its loop: the function of all offsets, at the first TLV's.
LEMMA GetTLVSteps ==
    ASSUME NEW msg \in Seq(Nat), NEW type, NEW room
    PROVE  \E at :
              /\ GetTLV(msg, type, room) = at[4]
              /\ \A pos \in Offsets :
                    at[pos] = IF ~Enough(msg, pos) THEN NotFound
                              ELSE IF Byte(msg, pos) = type
                              THEN Found(msg, room, pos)
                              ELSE at[NextPos(msg, pos)]
<1> DEFINE F(at) == [pos \in Offsets |->
               IF pos + 3 >= Len(msg) THEN [result |-> ENOMSG, data |-> <<>>]
               ELSE IF Byte(msg, pos) = type
                    THEN IF room < Word(msg, pos + 1)
                      THEN [result |-> ENOMEM, data |-> <<>>]
                      ELSE [result |-> Word(msg, pos + 1),
                            data |-> Slice(msg, pos + 3, Word(msg, pos + 1))]
                    ELSE at[Wrapped(pos + Word(msg, pos + 1) + 3)]]
           at == CHOOSE g : g = F(g)
           base == {pos \in Offsets : ~Enough(msg, pos) \/ Byte(msg, pos) = type}
           value == [pos \in base |-> IF ~Enough(msg, pos) THEN NotFound
                                      ELSE Found(msg, room, pos)]
           next == [pos \in Offsets |-> IF Enough(msg, pos) THEN NextPos(msg, pos)
                                  ELSE pos]
<1>1. GetTLV(msg, type, room) = at[4]
  BY DEF GetTLV, Offsets, Wrapped
<1>2. next \in [Offsets -> Offsets]
  BY NextOffset
<1>3. base \in SUBSET Offsets
  OBVIOUS
<1>9. \A pos \in Offsets : Enough(msg, pos) <=> ~(pos + 3 >= Len(msg))
  <2>1. \A pos \in Offsets : pos \in Nat
    BY OffsetIsNat
  <2>. QED  BY <2>1 DEF Enough
<1> HIDE DEF base, value, next
<1>4. PICK g :
          /\ g = [p \in Offsets |-> g[p]]
          /\ \A p \in base : g[p] = value[p]
          /\ \A p \in Offsets : p \notin base => g[p] = g[next[p]]
  <2> HIDE DEF F, at
  <2>1. Recurses(Offsets, base, value, next)
    BY <1>2, <1>3, TailRecursion
  <2>. QED  BY <2>1 DEF Recurses
<1>5. g = F(g)
  <2>1. ASSUME NEW p \in Offsets PROVE g[p] = F(g)[p]
    <3>1. CASE p \in base
      BY <1>4, <1>9, <3>1 DEF base, value, Found, NotFound
    <3>2. CASE p \notin base
      <4>1. Enough(msg, p) /\ Byte(msg, p) # type
        BY <3>2 DEF base
      <4>2. next[p] = NextPos(msg, p)
        BY <4>1 DEF next
      <4>. QED  BY <1>4, <1>9, <3>2, <4>1, <4>2 DEF NextPos
    <3>. QED  BY <3>1, <3>2
  <2>. QED  BY <1>4, <2>1
<1>6. at = F(at)
  BY <1>5
<1> HIDE DEF at
<1>8. ASSUME NEW pos \in Offsets
      PROVE  at[pos] = IF ~Enough(msg, pos) THEN NotFound
                  ELSE IF Byte(msg, pos) = type
                  THEN Found(msg, room, pos) ELSE at[NextPos(msg, pos)]
  <2>1. at[pos] = F(at)[pos]
    BY <1>6
  <2>. QED  BY <1>9, <2>1 DEF Found, NotFound, NextPos
<1>. QED  BY <1>1, <1>8

\* The first i parts of a concatenation s stand between their ends.
Stands(seqs, end, s, i) ==
    \A j \in 1..i :
        /\ end[j - 1] \in Nat
        /\ end[j] = end[j - 1] + Len(seqs[j])
        /\ end[j] <= Len(s)
        /\ \A k \in 1..Len(seqs[j]) : s[end[j - 1] + k] = seqs[j][k]

Flattens(seqs, f, n) ==
    f = [i \in 1..n |-> IF i = 1 THEN seqs[i] ELSE f[i - 1] \o seqs[i]]

\* The function that concatenates the first parts exists.
LEMMA FlattenExists ==
    ASSUME NEW seqs, NEW N \in Nat
    PROVE  \E f : Flattens(seqs, f, N)
<1> DEFINE P == {n \in Nat : \E f : Flattens(seqs, f, n)}
<1>1. 0 \in P
  <2> DEFINE f == [i \in 1..0 |-> 0]
  <2>1. Flattens(seqs, f, 0)
    BY DEF Flattens
  <2>. QED  BY <2>1
<1>2. ASSUME NEW n \in Nat, n \in P PROVE n + 1 \in P
  <2>1. PICK f : Flattens(seqs, f, n)
    BY <1>2
  <2> DEFINE g == [i \in 1..(n + 1) |->
                      IF i = 1 THEN seqs[i]
                      ELSE f[i - 1] \o seqs[i]]
  <2>2. ASSUME NEW i \in 1..n PROVE g[i] = f[i]
    <3>1. i \in 1..(n + 1)
      OBVIOUS
    <3> HIDE DEF g
    <3>2. g[i] = IF i = 1 THEN seqs[i] ELSE f[i - 1] \o seqs[i]
      BY <3>1 DEF g
    <3>3. f[i] = IF i = 1 THEN seqs[i] ELSE f[i - 1] \o seqs[i]
      BY <2>1 DEF Flattens
    <3>. QED  BY <3>2, <3>3
  <2>3. ASSUME NEW i \in 1..(n + 1), i # 1 PROVE g[i] = g[i - 1] \o seqs[i]
    <3>1. i - 1 \in 1..n
      BY <2>3
    <3>. QED  BY <2>2, <2>3, <3>1
  <2>4. Flattens(seqs, g, n + 1)
    BY <2>3 DEF Flattens
  <2>. QED  BY <2>4
<1>. QED  BY <1>1, <1>2, Induction

\* FlattenSeq is this function's last value.
LEMMA FlattenIs ==
    ASSUME NEW seqs, Len(seqs) \in Nat, Len(seqs) # 0
    PROVE  \E f : /\ Flattens(seqs, f, Len(seqs))
                  /\ FlattenSeq(seqs) = f[Len(seqs)]
<1> DEFINE f == CHOOSE g : g = [i \in 1..Len(seqs) |->
                    IF i = 1 THEN seqs[i] ELSE g[i - 1] \o seqs[i]]
<1>1. FlattenSeq(seqs) = f[Len(seqs)]
  BY DEF FlattenSeq
<1>2. Flattens(seqs, f, Len(seqs))
  BY FlattenExists, Zenon DEF Flattens
<1>. QED  BY <1>1, <1>2

\* One more part stands behind the others.
LEMMA Appended ==
    ASSUME NEW S, NEW seqs \in Seq(Seq(S)), NEW end, NEW s \in Seq(S),
           NEW i \in Nat, i + 1 <= Len(seqs),
           Stands(seqs, end, s, i),
           end[i] = Len(s), end[i + 1] = Len(s \o seqs[i + 1])
    PROVE  Stands(seqs, end, s \o seqs[i + 1], i + 1)
<1>1. seqs[i + 1] \in Seq(S)
  OBVIOUS
<1> DEFINE t == seqs[i + 1]
<1>2. /\ Len(s \o t) = Len(s) + Len(t) /\ Len(t) \in Nat /\ Len(s) \in Nat
      /\ \A k \in 1..Len(s) : (s \o t)[k] = s[k]
      /\ \A k \in 1..Len(t) : (s \o t)[Len(s) + k] = t[k]
  BY <1>1
<1> SUFFICES ASSUME NEW j \in 1..(i + 1)
             PROVE  /\ end[j - 1] \in Nat
                    /\ end[j] = end[j - 1] + Len(seqs[j])
                    /\ end[j] <= Len(s \o t)
                    /\ \A k \in 1..Len(seqs[j]) :
                           (s \o t)[end[j - 1] + k] = seqs[j][k]
  BY DEF Stands
<1> HIDE DEF t
<1>3. CASE j = i + 1
  <2>1. j - 1 = i
    BY <1>3
  <2>2. end[j - 1] = Len(s) /\ end[j] = Len(s \o t) /\ seqs[j] = t
    BY <1>3, <2>1 DEF t
  <2>. QED  BY <1>2, <2>2
<1>4. CASE j # i + 1
  <2>1. j \in 1..i
    BY <1>4
  <2>2. /\ end[j - 1] \in Nat
        /\ end[j] = end[j - 1] + Len(seqs[j])
        /\ end[j] <= Len(s)
        /\ \A k \in 1..Len(seqs[j]) : s[end[j - 1] + k] = seqs[j][k]
    BY <2>1 DEF Stands
  <2>3. Len(seqs[j]) \in Nat
    OBVIOUS
  <2>4. ASSUME NEW k \in 1..Len(seqs[j])
        PROVE  (s \o t)[end[j - 1] + k] = seqs[j][k]
    <3>1. PICK e \in Nat : e = end[j - 1]
      BY <2>2
    <3>3. e + Len(seqs[j]) <= Len(s)
      BY <2>2, <3>1
    <3>4. e + k \in 1..Len(s)
      BY <1>2, <2>3, <3>3
    <3>2. (s \o t)[end[j - 1] + k] = s[end[j - 1] + k]
      BY <1>2, <3>1, <3>4
    <3>. QED  BY <2>2, <3>2
  <2>5. end[j] <= Len(s \o t)
    <3>1. PICK e \in Nat : e = end[j]
      BY <2>2, <2>3
    <3>. QED  BY <1>2, <2>2, <3>1
  <2>. QED  BY <2>2, <2>4, <2>5
<1>. QED  BY <1>3, <1>4

\* Each part of a flattened sequence stands between its ends.
LEMMA FlattenPlaces ==
    ASSUME NEW S, NEW seqs \in Seq(Seq(S))
    PROVE  \E end :
              /\ end[0] = 0
              /\ FlattenSeq(seqs) \in Seq(S)
              /\ Len(FlattenSeq(seqs)) = end[Len(seqs)]
              /\ Stands(seqs, end, FlattenSeq(seqs), Len(seqs))
<1> DEFINE n == Len(seqs)
<1>1. n \in Nat
  OBVIOUS
<1>2. CASE n = 0
  <2> DEFINE end == [i \in 0..n |-> 0]
  <2>1. FlattenSeq(seqs) = seqs /\ seqs = <<>>
    BY <1>2 DEF FlattenSeq
  <2>2. Stands(seqs, end, FlattenSeq(seqs), n)
    BY <1>2 DEF Stands
  <2>. QED  BY <1>2, <2>1, <2>2
<1>3. CASE n # 0
  <2>1. PICK f : Flattens(seqs, f, n) /\ FlattenSeq(seqs) = f[n]
    BY <1>1, <1>3, FlattenIs
  <2> DEFINE F(i) == IF i = 0 THEN <<>> ELSE f[i]
             end == [i \in 0..n |-> Len(F(i))]
  <2>2. ASSUME NEW m \in 1..n, F(m - 1) \in Seq(S)
        PROVE  F(m) = F(m - 1) \o seqs[m]
    <3>1. seqs[m] \in Seq(S)
      OBVIOUS
    <3>2. f[m] = IF m = 1 THEN seqs[m] ELSE f[m - 1] \o seqs[m]
      BY <2>1 DEF Flattens
    <3>3. CASE m = 1
      <4>1. <<>> \o seqs[m] = seqs[m]
        BY <3>1, ConcatEmptySeq
      <4>2. F(m) = seqs[m] /\ F(m - 1) = <<>>
        BY <3>2, <3>3
      <4>. QED  BY <4>1, <4>2
    <3>4. CASE m # 1
      <4>1. m # 0 /\ m - 1 # 0
        BY <3>4
      <4>. QED  BY <3>2, <3>4, <4>1
    <3>. QED  BY <3>3, <3>4
  <2>3. \A i \in 0..n : end[i] = Len(F(i))
    OBVIOUS
  <2>9. F(0) = <<>> /\ F(n) = f[n]
    BY <1>3
  <2> HIDE DEF F, end
  <2> DEFINE P == {i \in Nat : i <= n => /\ F(i) \in Seq(S)
                                        /\ Stands(seqs, end, F(i), i)}
  <2>4. 0 \in P
    <3>1. <<>> \in Seq(S)
      OBVIOUS
    <3>2. Stands(seqs, end, F(0), 0)
      BY DEF Stands
    <3>. QED  BY <2>9, <3>1, <3>2
  <2>5. ASSUME NEW i \in Nat, i \in P, i + 1 <= n PROVE i + 1 \in P
    <3>1. F(i) \in Seq(S) /\ Stands(seqs, end, F(i), i)
      BY <2>5
    <3>2. F(i + 1) = F(i) \o seqs[i + 1]
      <4>1. PICK m \in 1..n : m = i + 1
        <5> HIDE DEF P, n
        <5>. QED  BY <1>1, <2>5
      <4>2. m - 1 = i
        BY <4>1
      <4>3. F(m - 1) \in Seq(S)
        BY <3>1, <4>2
      <4>4. F(m) = F(m - 1) \o seqs[m]
        BY <2>2, <4>3
      <4>. QED  BY <4>1, <4>2, <4>4
    <3>3. F(i + 1) \in Seq(S)
      <4>1. seqs[i + 1] \in Seq(S)
        BY <1>1, <2>5, ElementOfSeq
      <4>. QED  BY <3>1, <3>2, <4>1, ConcatProperties
    <3>4. end[i] = Len(F(i)) /\ end[i + 1] = Len(F(i) \o seqs[i + 1])
      <4>1. i \in 0..n /\ i + 1 \in 0..n
        BY <1>1, <2>5
      <4>. QED  BY <2>3, <3>2, <4>1
    <3>5. Stands(seqs, end, F(i + 1), i + 1)
      BY <2>5, <3>1, <3>2, <3>4, Appended
    <3>. QED  BY <3>3, <3>5
  <2>6. \A i \in Nat : i \in P => i + 1 \in P
    BY <2>5
  <2> HIDE DEF P
  <2>7. n \in P
    BY <1>1, <2>4, <2>6, Induction
  <2>8. F(n) \in Seq(S) /\ Stands(seqs, end, F(n), n)
    BY <2>7 DEF P
  <2>. QED  BY <1>1, <2>1, <2>3, <2>8, <2>9
<1>. QED  BY <1>2, <1>3

-----------------------------------------------------------------------------
(* The bytes of an answer, from its ID on, and where its TLVs are in them. *)

\* TLVs of bytes, answers of TLVs that fit, and the bytes of an answer.
TLVSet == [type : 0..255, value : Seq(0..255)]
Sayable(a) ==
    /\ a.id \in Nat
    /\ a.tlvs \in Seq(TLVSet)
    /\ Len(Body(a)) <= 4096 - 13
Sdu(a) == U16(a.id) \o (U16(Len(Body(a))) \o Body(a))

\* A word of a number's two bytes is the number.
LEMMA WordOfU16 ==
    ASSUME NEW n \in Nat
    PROVE  /\ U16(n) \in Seq(Nat) /\ Len(U16(n)) = 2
           /\ U16(n)[1] \in Nat /\ U16(n)[2] \in Nat
           /\ U16(n)[1] + 256 * U16(n)[2] = n
BY DEF U16

\* s is x with y behind it.
IsJoin(s, x, y) ==
    /\ s \in Seq(Nat)
    /\ Len(x) \in Nat /\ Len(y) \in Nat
    /\ Len(s) = Len(x) + Len(y)
    /\ \A k \in 1..Len(x) : s[k] = x[k]
    /\ \A k \in 1..Len(y) : s[Len(x) + k] = y[k]

\* A concatenation is a join.
LEMMA Joined ==
    ASSUME NEW x \in Seq(Nat), NEW y \in Seq(Nat)
    PROVE  IsJoin(x \o y, x, y)
BY DEF IsJoin

\* A TLV has a type and bytes.
LEMMA TLVIs ==
    ASSUME NEW t \in TLVSet
    PROVE  /\ t.type \in Nat /\ t.value \in Seq(Nat) /\ Len(t.value) \in Nat
           /\ t.value \in Seq(0..255)
<1>1. t.type \in 0..255 /\ t.value \in Seq(0..255)
  BY DEF TLVSet
<1>2. t.type \in Nat
  <2>1. \A x \in 0..255 : x \in Nat
    OBVIOUS
  <2>. QED  BY <1>1, <2>1, Zenon
<1>3. t.value \in Seq(Nat)
  <2>1. 0..255 \subseteq Nat
    OBVIOUS
  <2> HIDE DEF TLVSet
  <2>. QED  BY <1>1, <2>1, SeqMonotonic
<1>. QED  BY <1>1, <1>2, <1>3

\* A TLV is its type, its length in two bytes, and its value.
LEMMA TLVBytesAre ==
    ASSUME NEW t \in TLVSet
    PROVE  /\ TLVBytes(t) \in Seq(Nat)
           /\ Len(TLVBytes(t)) = 3 + Len(t.value)
           /\ TLVBytes(t)[1] = t.type
           /\ TLVBytes(t)[2] + 256 * TLVBytes(t)[3] = Len(t.value)
           /\ \A k \in 1..Len(t.value) : TLVBytes(t)[3 + k] = t.value[k]
<1> DEFINE u == U16(Len(t.value))
<1>1. t.type \in Nat /\ t.value \in Seq(Nat) /\ Len(t.value) \in Nat
  BY TLVIs
<1>2. /\ u \in Seq(Nat) /\ Len(u) = 2 /\ u[1] + 256 * u[2] = Len(t.value)
  <2> DEFINE l == Len(t.value)
  <2>1. l \in Nat
    BY <1>1
  <2> HIDE DEF l
  <2>. QED  BY <2>1, WordOfU16 DEF l
<1>3. <<t.type>> \in Seq(Nat) /\ Len(<<t.type>>) = 1 /\ <<t.type>>[1] = t.type
  BY <1>1
<1> HIDE DEF u
<1> DEFINE h == <<t.type>>
<1> HIDE DEF h
<1>4. /\ h \o u \in Seq(Nat) /\ Len(h \o u) = 3
      /\ (h \o u)[1] = t.type /\ (h \o u)[2] = u[1] /\ (h \o u)[3] = u[2]
  <2>1. Len(h) = 1 /\ h \in Seq(Nat) /\ h[1] = t.type
    BY <1>3 DEF h
  <2>2. 1 \in 1..1 /\ 1 \in 1..2 /\ 2 \in 1..2
    OBVIOUS
  <2>3. IsJoin(h \o u, h, u)
    BY <1>2, <2>1, Joined
  <2>4. /\ (h \o u)[1] = h[1] /\ (h \o u)[1 + 1] = u[1]
        /\ (h \o u)[1 + 2] = u[2]
    BY <1>2, <2>1, <2>2, <2>3 DEF IsJoin
  <2>. QED  BY <1>2, <2>1, <2>3, <2>4 DEF IsJoin
<1> DEFINE w == h \o u
<1> HIDE DEF w
<1>5. /\ w \o t.value \in Seq(Nat) /\ Len(w \o t.value) = 3 + Len(t.value)
      /\ (w \o t.value)[1] = w[1] /\ (w \o t.value)[2] = w[2]
      /\ (w \o t.value)[3] = w[3]
      /\ \A k \in 1..Len(t.value) : (w \o t.value)[3 + k] = t.value[k]
  <2>1. w \in Seq(Nat) /\ Len(w) = 3
    BY <1>4 DEF w
  <2>2. 1 \in 1..3 /\ 2 \in 1..3 /\ 3 \in 1..3
    OBVIOUS
  <2>3. IsJoin(w \o t.value, w, t.value)
    BY <1>1, <2>1, Joined
  <2>. QED  BY <1>1, <2>1, <2>2, <2>3 DEF IsJoin
<1>6. TLVBytes(t) = w \o t.value
  BY DEF TLVBytes, w, h, u
<1>7. w[1] = t.type /\ w[2] + 256 * w[3] = Len(t.value)
  BY <1>2, <1>4 DEF w
<1>. QED  BY <1>5, <1>6, <1>7

\* The TLVs tlvs stand in a body b between the ends end.
Lies(b, tlvs, end, i) ==
    /\ end[i - 1] \in Nat /\ Len(tlvs[i].value) \in Nat
    /\ end[i] = end[i - 1] + 3 + Len(tlvs[i].value)
    /\ end[i] <= Len(b)
    /\ b[end[i - 1] + 1] = tlvs[i].type
    /\ b[end[i - 1] + 2] + 256 * b[end[i - 1] + 3] = Len(tlvs[i].value)
    /\ \A k \in 1..Len(tlvs[i].value) :
          b[end[i - 1] + (3 + k)] = tlvs[i].value[k]

\* An answer's TLVs fill its body, each between its ends.
LEMMA BodyPlaces ==
    ASSUME NEW a, a.tlvs \in Seq(TLVSet)
    PROVE  /\ Body(a) \in Seq(Nat)
           /\ \E end : /\ end[0] = 0
                       /\ Len(Body(a)) = end[Len(a.tlvs)]
                       /\ \A i \in 1..Len(a.tlvs) : Lies(Body(a), a.tlvs, end, i)
<1> DEFINE tlvs == a.tlvs
           n == Len(tlvs)
           seqs == [i \in 1..n |-> TLVBytes(tlvs[i])]
<1>1. n \in Nat /\ DOMAIN tlvs = 1..n /\ \A i \in 1..n : tlvs[i] \in TLVSet
  OBVIOUS
<1>2. Body(a) = FlattenSeq(seqs)
  BY <1>1 DEF Body
<1>3. seqs \in Seq(Seq(Nat)) /\ Len(seqs) = n
  BY <1>1, TLVBytesAre
<1>4. \A i \in 1..n : seqs[i] = TLVBytes(tlvs[i])
  OBVIOUS
<1> HIDE DEF seqs, n
<1>5. PICK end : /\ end[0] = 0
                 /\ FlattenSeq(seqs) \in Seq(Nat)
                 /\ Len(FlattenSeq(seqs)) = end[n]
                 /\ Stands(seqs, end, FlattenSeq(seqs), n)
  BY <1>3, FlattenPlaces
<1>6. ASSUME NEW i \in 1..n PROVE Lies(Body(a), tlvs, end, i)
  <2> DEFINE b == Body(a)
             v == tlvs[i].value
             e == end[i - 1]
  <2>1. /\ e \in Nat /\ end[i] = e + Len(seqs[i]) /\ end[i] <= Len(b)
        /\ \A k \in 1..Len(seqs[i]) : b[e + k] = seqs[i][k]
    BY <1>2, <1>5 DEF Stands
  <2>2. /\ Len(seqs[i]) = 3 + Len(v) /\ Len(v) \in Nat
        /\ seqs[i][1] = tlvs[i].type
        /\ seqs[i][2] + 256 * seqs[i][3] = Len(v)
        /\ \A k \in 1..Len(v) : seqs[i][3 + k] = v[k]
    <3>1. Len(v) \in Nat
      BY <1>1, TLVIs
    <3>2. seqs[i] = TLVBytes(tlvs[i]) /\ tlvs[i] \in TLVSet
      BY <1>1, <1>4
    <3> DEFINE t == tlvs[i]
    <3>3. t \in TLVSet
      BY <3>2
    <3> HIDE DEF t
    <3>4. /\ Len(TLVBytes(t)) = 3 + Len(t.value)
          /\ TLVBytes(t)[1] = t.type
          /\ TLVBytes(t)[2] + 256 * TLVBytes(t)[3] = Len(t.value)
          /\ \A k \in 1..Len(t.value) : TLVBytes(t)[3 + k] = t.value[k]
      BY <3>3, TLVBytesAre
    <3>5. seqs[i] = TLVBytes(t) /\ t.type = tlvs[i].type /\ v = t.value
      BY <3>2 DEF t
    <3> HIDE DEF v
    <3>. QED  BY <3>1, <3>4, <3>5
  <2> HIDE DEF b, v, e
  <2>3. 1 \in 1..Len(seqs[i]) /\ 2 \in 1..Len(seqs[i]) /\ 3 \in 1..Len(seqs[i])
    BY <2>2
  <2>4. b[e + 1] = tlvs[i].type /\ b[e + 2] + 256 * b[e + 3] = Len(v)
    <3>1. /\ b[e + 1] = seqs[i][1] /\ b[e + 2] = seqs[i][2]
          /\ b[e + 3] = seqs[i][3]
      BY <2>1, <2>3
    <3>. QED  BY <2>2, <3>1
  <2>5. ASSUME NEW k \in 1..Len(v) PROVE b[e + (3 + k)] = v[k]
    <3>1. 3 + k \in 1..Len(seqs[i])
      BY <2>2
    <3>. QED  BY <2>1, <2>2, <3>1
  <2>6. end[i] = e + 3 + Len(v)
    BY <2>1, <2>2
  <2>. QED  BY <2>1, <2>2, <2>4, <2>5, <2>6 DEF Lies, b, v, e
<1>. QED  BY <1>2, <1>5, <1>6 DEF n

\* The i-th TLV of tlvs is what GetTLV finds at at[i], and goes on from.
Laid(m, tlvs, at, i) ==
    /\ at[i] \in Offsets /\ at[i + 1] \in Offsets
    /\ Enough(m, at[i]) <=> i \in DOMAIN Seen(tlvs)
    /\ Byte(m, at[i]) = tlvs[i].type
    /\ Word(m, at[i] + 1) = Len(tlvs[i].value)
    /\ Slice(m, at[i] + 3, Len(tlvs[i].value)) = tlvs[i].value
    /\ NextPos(m, at[i]) = at[i + 1]

\* Only an empty TLV at the end is not seen.
LEMMA SeenAre ==
    ASSUME NEW tlvs \in Seq(TLVSet), NEW i \in 1..Len(tlvs)
    PROVE  i \in DOMAIN Seen(tlvs) <=>
               i # Len(tlvs) \/ Len(tlvs[i].value) # 0
<1>1. Len(tlvs) \in Nat /\ DOMAIN tlvs = 1..Len(tlvs) /\ tlvs # <<>>
  OBVIOUS
<1>2. Len(tlvs) \in 1..Len(tlvs)
  BY <1>1
<1>3. /\ tlvs[Len(tlvs)].value \in Seq(Nat)
      /\ Len(tlvs[Len(tlvs)].value) \in Nat
  BY <1>2, TLVIs, ElementOfSeq
<1>4. tlvs[Len(tlvs)].value = <<>> <=> Len(tlvs[Len(tlvs)].value) = 0
  BY <1>3, EmptySeq
<1>5. DOMAIN SubSeq(tlvs, 1, Len(tlvs) - 1) = 1..(Len(tlvs) - 1)
  BY <1>1
<1>6. CASE tlvs[Len(tlvs)].value = <<>>
  <2>1. DOMAIN Seen(tlvs) = 1..(Len(tlvs) - 1)
    BY <1>1, <1>5, <1>6 DEF Seen, Last, Front
  <2>2. i = Len(tlvs) => Len(tlvs[i].value) = 0
    BY <1>4, <1>6
  <2>3. i \in Nat /\ i >= 1 /\ i <= Len(tlvs)
    BY <1>1
  <2>4. i \in 1..(Len(tlvs) - 1) <=> i # Len(tlvs)
    <3> DEFINE n == Len(tlvs)
    <3>1. n \in Nat /\ i \in Nat /\ i >= 1 /\ i <= n
      BY <1>1, <2>3
    <3> HIDE DEF n
    <3>2. i \in 1..(n - 1) <=> i # n
      BY <3>1
    <3>. QED  BY <3>2 DEF n
  <2>. QED  BY <2>1, <2>2, <2>4
<1>7. CASE tlvs[Len(tlvs)].value # <<>>
  <2>1. DOMAIN Seen(tlvs) = 1..Len(tlvs)
    BY <1>1, <1>7 DEF Seen, Last
  <2>2. i = Len(tlvs) => Len(tlvs[i].value) # 0
    BY <1>4, <1>7
  <2>. QED  BY <1>1, <2>1, <2>2, Zenon
<1>. QED  BY <1>6, <1>7

\* An answer is its ID, the length of its body, and the body.
LEMMA SduPlaces ==
    ASSUME NEW a, Sayable(a)
    PROVE  /\ Sdu(a) \in Seq(Nat)
           /\ Len(Sdu(a)) = 4 + Len(Body(a))
           /\ Word(Sdu(a), 0) = a.id
           /\ Word(Sdu(a), 2) = Len(Body(a))
           /\ \A k \in 1..Len(Body(a)) : Sdu(a)[4 + k] = Body(a)[k]
<1> DEFINE b == Body(a)
           u == U16(a.id)
           w == U16(Len(b))
<1>1. b \in Seq(Nat) /\ Len(b) \in Nat /\ a.id \in Nat
  BY BodyPlaces DEF Sayable
<1>2. /\ u \in Seq(Nat) /\ Len(u) = 2 /\ u[1] + 256 * u[2] = a.id
      /\ w \in Seq(Nat) /\ Len(w) = 2 /\ w[1] + 256 * w[2] = Len(b)
  <2> HIDE DEF b
  <2>1. u \in Seq(Nat) /\ Len(u) = 2 /\ u[1] + 256 * u[2] = a.id
    BY <1>1, WordOfU16
  <2>2. w \in Seq(Nat) /\ Len(w) = 2 /\ w[1] + 256 * w[2] = Len(b)
    BY <1>1, WordOfU16
  <2>. QED  BY <2>1, <2>2
<1> HIDE DEF b, u, w
<1>3. IsJoin(w \o b, w, b)
  BY <1>1, <1>2, Joined
<1>4. IsJoin(u \o (w \o b), u, w \o b)
  <2>1. w \o b \in Seq(Nat)
    BY <1>3 DEF IsJoin
  <2>. QED  BY <1>2, <2>1, Joined
<1>5. Sdu(a) = u \o (w \o b)
  BY DEF Sdu, u, w, b
<1> DEFINE s == u \o (w \o b)
           t == w \o b
<1>6. /\ s \in Seq(Nat) /\ Len(s) = 2 + Len(t) /\ Len(t) \in Nat
      /\ s[1] = u[1] /\ s[2] = u[2]
      /\ \A k \in 1..Len(t) : s[2 + k] = t[k]
  <2>1. IsJoin(s, u, t)
    BY <1>4
  <2> HIDE DEF s, t
  <2>2. 1 \in 1..2 /\ 2 \in 1..2
    OBVIOUS
  <2>. QED  BY <1>2, <2>1, <2>2 DEF IsJoin
<1>7. /\ Len(t) = 2 + Len(b) /\ t[1] = w[1] /\ t[2] = w[2]
      /\ \A k \in 1..Len(b) : t[2 + k] = b[k]
  <2>1. IsJoin(t, w, b)
    BY <1>3
  <2> HIDE DEF s, t
  <2>2. 1 \in 1..2 /\ 2 \in 1..2
    OBVIOUS
  <2>. QED  BY <1>2, <2>1, <2>2, Zenon DEF IsJoin
<1>9. s = Sdu(a)
  BY <1>5
<1> HIDE DEF s, t
<1>8. /\ Len(s) = 4 + Len(b)
      /\ s[3] = w[1] /\ s[4] = w[2]
  <2>1. s[2 + 1] = t[1] /\ s[2 + 2] = t[2]
    BY <1>1, <1>6, <1>7
  <2>. QED  BY <1>1, <1>6, <1>7, <2>1
<1>10. ASSUME NEW k \in 1..Len(b) PROVE s[4 + k] = b[k]
  <2>1. 2 + k \in 1..Len(t)
    BY <1>1, <1>7
  <2>2. s[2 + (2 + k)] = t[2 + k]
    BY <1>6, <2>1
  <2>. QED  BY <1>1, <1>7, <2>2
<1>11. Word(s, 0) = a.id /\ Word(s, 2) = Len(b)
  <2>1. Word(s, 0) = s[1] + 256 * s[2] /\ Word(s, 2) = s[3] + 256 * s[4]
    BY DEF Word, Byte
  <2>2. s[1] = u[1] /\ s[2] = u[2] /\ s[3] = w[1] /\ s[4] = w[2]
    BY <1>6, <1>8
  <2>3. u[1] + 256 * u[2] = a.id /\ w[1] + 256 * w[2] = Len(b)
    BY <1>2
  <2>. QED  BY <2>1, <2>2, <2>3
<1>. QED  BY <1>6, <1>8, <1>9, <1>10, <1>11, Zenon DEF b

\* A slice is the sequence that stands there.
LEMMA SliceIs ==
    ASSUME NEW m \in Seq(Nat), NEW v \in Seq(Nat), NEW pos \in Nat,
           pos + Len(v) <= Len(m),
           \A k \in 1..Len(v) : m[pos + k] = v[k]
    PROVE  Slice(m, pos, Len(v)) = v
<1> DEFINE s == SubSeq(m, pos + 1, pos + Len(v))
<1>1. Len(v) \in Nat /\ Len(m) \in Nat
  OBVIOUS
<1>2. \A i \in (pos + 1)..(pos + Len(v)) : m[i] \in Nat
  BY <1>1
<1>3. /\ s \in Seq(Nat)
      /\ Len(s) = IF pos + 1 <= pos + Len(v) THEN pos + Len(v) - (pos + 1) + 1 ELSE 0
      /\ \A i \in 1..(pos + Len(v) - (pos + 1) + 1) : s[i] = m[pos + 1 + i - 1]
  <2>1. pos + 1 \in Int /\ pos + Len(v) \in Int
    BY <1>1
  <2>. QED  BY <1>2, <2>1, SubSeqProperties
<1> HIDE DEF s
<1>4. Len(s) = Len(v)
  BY <1>1, <1>3
<1>5. \A i \in 1..Len(v) : s[i] = v[i]
  <2>1. SUFFICES ASSUME NEW i \in 1..Len(v) PROVE s[i] = v[i]
    OBVIOUS
  <2>2. i \in 1..(pos + Len(v) - (pos + 1) + 1) /\ pos + 1 + i - 1 = pos + i
    BY <1>1
  <2>3. s[i] = m[pos + 1 + i - 1]
    BY <1>3, <2>2
  <2>. QED  BY <2>2, <2>3
<1>6. s = v
  BY <1>3, <1>4, <1>5, SeqEqual
<1>. QED  BY <1>6 DEF Slice, s

\* GetTLV goes from each TLV of an answer to the next, and stops behind them.
LEMMA SduLaid ==
    ASSUME NEW a, Sayable(a)
    PROVE  \E at :
              /\ at[1] = 4
              /\ \A i \in 1..Len(a.tlvs) : Laid(Sdu(a), a.tlvs, at, i)
              /\ at[Len(a.tlvs) + 1] \in Offsets
              /\ ~Enough(Sdu(a), at[Len(a.tlvs) + 1])
<1> DEFINE b == Body(a)
           m == Sdu(a)
           n == Len(a.tlvs)
<1>1. b \in Seq(Nat) /\ Len(b) \in Nat /\ n \in Nat /\ Len(b) <= 4083
  BY BodyPlaces DEF Sayable
<1>2. PICK end : /\ end[0] = 0 /\ Len(b) = end[n]
                 /\ \A i \in 1..n : Lies(b, a.tlvs, end, i)
  BY BodyPlaces DEF Sayable
<1>3. /\ m \in Seq(Nat) /\ Len(m) = 4 + Len(b)
      /\ \A k \in 1..Len(b) : m[4 + k] = b[k]
  BY SduPlaces
<1>4. a.tlvs \in Seq(TLVSet)
  BY DEF Sayable
<1> DEFINE at == [i \in 1..(n + 1) |-> 4 + end[i - 1]]
<1>5. at[1] = 4 /\ at[n + 1] = 4 + end[n]
  BY <1>1, <1>2
<1>6. ASSUME NEW i \in 1..n PROVE at[i] = 4 + end[i - 1] /\ at[i + 1] = 4 + end[i]
  BY <1>1
<1> HIDE DEF at, b, m, n
<1>7. ASSUME NEW i \in 1..n PROVE Laid(m, a.tlvs, at, i)
  <2> DEFINE v == a.tlvs[i].value
             e == end[i - 1]
             p == at[i]
  <2>1. v \in Seq(Nat) /\ Len(v) \in Nat
    BY <1>4, TLVIs, ElementOfSeq DEF n
  <2>2. /\ e \in Nat /\ end[i] = e + 3 + Len(v) /\ end[i] <= Len(b)
        /\ b[e + 1] = a.tlvs[i].type
        /\ b[e + 2] + 256 * b[e + 3] = Len(v)
        /\ \A k \in 1..Len(v) : b[e + (3 + k)] = v[k]
    BY <1>2 DEF Lies
  <2>3. p = 4 + e /\ at[i + 1] = p + 3 + Len(v)
    <3>1. p = 4 + e /\ at[i + 1] = 4 + end[i]
      BY <1>6
    <3> HIDE DEF v, e, p
    <3>. QED  BY <2>1, <2>2, <3>1
  <2>13. i \in Nat /\ i <= n
    BY <1>1
  <2> HIDE DEF v, e, p
  <2>4. p + 3 + Len(v) <= 4 + Len(b)
    BY <1>1, <2>1, <2>2, <2>3
  <2>5. p \in Short /\ p + 3 + Len(v) \in Short /\ p \in Nat
    <3>1. p \in Nat
      BY <2>2, <2>3
    <3>2. Len(b) + 4 <= 4087
      BY <1>1
    <3>3. p + 3 + Len(v) <= 4087
      BY <1>1, <2>1, <2>4, <3>1, <3>2
    <3>4. p <= 4087
      BY <2>1, <3>1, <3>3
    <3>5. p + 3 + Len(v) \in Nat
      BY <2>1, <3>1
    <3>6. p \in Short
      BY <3>1, <3>4, IsShort
    <3>7. p + 3 + Len(v) \in Short
      BY <3>3, <3>5, IsShort
    <3>. QED  BY <3>1, <3>6, <3>7
  <2>6. /\ p \in Offsets /\ at[i + 1] \in Offsets
        /\ Wrapped(p + 3 + Len(v)) = p + 3 + Len(v)
    <3> DEFINE q == p + 3 + Len(v)
    <3>1. q \in Short
      BY <2>5
    <3> HIDE DEF q
    <3>2. p \in Offsets
      BY <2>5, ShortIsOffset
    <3>3. q \in Offsets /\ Wrapped(q) = q
      BY <3>1, ShortIsOffset
    <3>. QED  BY <2>3, <3>2, <3>3 DEF q
  <2>7. m[p + 1] = b[e + 1] /\ m[p + 2] = b[e + 2] /\ m[p + 3] = b[e + 3]
    <3> DEFINE l == Len(v)
               lb == Len(b)
    <3>0. e \in Nat /\ l \in Nat /\ lb \in Nat /\ e + 3 + l <= lb
      BY <1>1, <2>1, <2>2
    <3> HIDE DEF l, lb
    <3>4. e + 1 \in 1..lb /\ e + 2 \in 1..lb /\ e + 3 \in 1..lb
      BY <3>0
    <3>1. e + 1 \in 1..Len(b) /\ e + 2 \in 1..Len(b) /\ e + 3 \in 1..Len(b)
      BY <3>4 DEF lb
    <3>2. /\ m[4 + (e + 1)] = b[e + 1] /\ m[4 + (e + 2)] = b[e + 2]
          /\ m[4 + (e + 3)] = b[e + 3]
      BY <1>3, <3>1
    <3>3. 4 + (e + 1) = p + 1 /\ 4 + (e + 2) = p + 2 /\ 4 + (e + 3) = p + 3
      BY <2>2, <2>3
    <3>. QED  BY <3>2, <3>3
  <2>8. Byte(m, p) = a.tlvs[i].type
    BY <2>2, <2>7 DEF Byte
  <2>9. Word(m, p + 1) = Len(v)
    <3>1. p + 1 + 1 = p + 2 /\ p + 1 + 1 + 1 = p + 3
      BY <2>5
    <3>. QED  BY <2>2, <2>7, <3>1 DEF Word, Byte
  <2>10. Slice(m, p + 3, Len(v)) = v
    <3>1. ASSUME NEW k \in 1..Len(v) PROVE m[p + 3 + k] = v[k]
      <4>1. e + (3 + k) \in 1..Len(b)
        BY <1>1, <2>1, <2>2
      <4>2. m[4 + (e + (3 + k))] = b[e + (3 + k)]
        BY <1>3, <4>1
      <4>3. 4 + (e + (3 + k)) = p + 3 + k
        BY <2>1, <2>2, <2>3
      <4>. QED  BY <2>2, <4>2, <4>3
    <3>2. p + 3 \in Nat /\ p + 3 + Len(v) <= Len(m)
      BY <1>3, <2>4, <2>5
    <3>. QED  BY <1>3, <2>1, <3>1, <3>2, SliceIs
  <2>11. NextPos(m, p) = at[i + 1]
    <3>1. p + Word(m, p + 1) + 3 = p + 3 + Len(v)
      BY <2>1, <2>5, <2>9
    <3>. QED  BY <2>3, <2>6, <3>1 DEF NextPos
  <2>12. Enough(m, p) <=> i # n \/ Len(v) # 0
    <3>1. Enough(m, p) <=> end[i] < Len(b) \/ Len(v) # 0
      <4>1. end[i] = p - 4 + 3 + Len(v) /\ p \in Nat
        BY <2>1, <2>2, <2>3
      <4>2. Enough(m, p) <=> p + 3 < 4 + Len(b)
        BY <1>3 DEF Enough
      <4>3. end[i] \in Nat /\ end[i] <= Len(b)
        BY <2>1, <2>2
      <4>. QED  BY <1>1, <2>1, <4>1, <4>2, <4>3
    <3>2. CASE i = n
      BY <1>1, <1>2, <3>1, <3>2
    <3>3. CASE i # n
      <4>1. PICK j \in 1..n : j = i + 1
        BY <1>1, <2>13, <3>3
      <4>2. j - 1 = i
        BY <4>1
      <4>3. /\ end[i] \in Nat /\ Len(a.tlvs[j].value) \in Nat
            /\ end[j] = end[i] + 3 + Len(a.tlvs[j].value) /\ end[j] <= Len(b)
        BY <1>2, <4>2 DEF Lies
      <4> DEFINE l == Len(a.tlvs[j].value)
                 lb == Len(b)
                 x == end[i]
      <4>5. x \in Nat /\ l \in Nat /\ lb \in Nat /\ x + 3 + l <= lb
        BY <1>1, <4>3
      <4> HIDE DEF l, lb, x
      <4>6. x < lb
        BY <4>5
      <4>4. end[i] < Len(b)
        BY <4>6 DEF x, lb
      <4>. QED  BY <3>1, <3>3, <4>4
    <3>. QED  BY <3>2, <3>3
  <2>14. Enough(m, p) <=> i \in DOMAIN Seen(a.tlvs)
    BY <1>4, <2>12, SeenAre DEF n, v
  <2>. QED  BY <2>6, <2>8, <2>9, <2>10, <2>11, <2>14 DEF Laid, v, p
<1>8. at[n + 1] \in Offsets /\ ~Enough(m, at[n + 1])
  <2>1. at[n + 1] = 4 + Len(b)
    BY <1>2, <1>5
  <2> DEFINE q == 4 + Len(b)
  <2>2. q \in Short
    <3>1. q \in Nat /\ q <= 4087
      BY <1>1
    <3> HIDE DEF q
    <3>. QED  BY <3>1, IsShort
  <2> HIDE DEF q
  <2>4. q \in Offsets
    BY <2>2, ShortIsOffset
  <2>3. 4 + Len(b) \in Offsets
    BY <2>4 DEF q
  <2>. QED  BY <1>1, <1>3, <2>1, <2>3 DEF Enough
<1>. QED  BY <1>5, <1>7, <1>8 DEF m, n

\* What GetTLV makes of an answer: g is what the answer says, or an error.
IsTold(a, type, room, g) ==
    \/ \E i \in 1..Len(a.tlvs) :
          LET v == a.tlvs[i].value IN
          /\ Says(a, type, room, v)
          /\ \A w : Says(a, type, room, w) => w = v
          /\ g = [result |-> Len(v), data |-> v]
    \/ /\ \A w : ~Says(a, type, room, w)
       /\ g.result \in Int /\ g.result < 0 /\ g.data = <<>>

\* What is passed on from place to place is the same at the first and last.
LEMMA Chained ==
    ASSUME NEW at, NEW g, NEW k \in Nat, k # 0,
           \A j \in 1..(k - 1) : g[at[j]] = g[at[j + 1]]
    PROVE  g[at[k]] = g[at[1]]
<1> DEFINE P == {j \in Nat : j # 0 /\ j <= k => g[at[j]] = g[at[1]]}
<1>1. 0 \in P
  OBVIOUS
<1>2. ASSUME NEW j \in Nat, j \in P PROVE j + 1 \in P
  <2>1. CASE j = 0
    BY <2>1
  <2>2. CASE j # 0 /\ j + 1 <= k
    <3>1. j \in 1..(k - 1)
      BY <2>2
    <3>2. g[at[j]] = g[at[j + 1]]
      BY <3>1
    <3>. QED  BY <1>2, <2>2, <3>2
  <2>3. CASE ~(j + 1 <= k)
    BY <2>3
  <2>. QED  BY <2>1, <2>2, <2>3
<1> HIDE DEF P
<1>3. k \in P
  BY <1>1, <1>2, Induction
<1>. QED  BY <1>3 DEF P

\* GetTLV returns the first TLV of the type, if it is seen and fits.
LEMMA GetTLVTells ==
    ASSUME NEW a, Sayable(a), NEW type, NEW room \in Nat
    PROVE  IsTold(a, type, room, GetTLV(Sdu(a), type, room))
<1> DEFINE m == Sdu(a)
           tlvs == a.tlvs
           n == Len(tlvs)
           seen == DOMAIN Seen(tlvs)
           got_ == GetTLV(m, type, room)
           Ours == {i \in 1..n : i \in seen /\ tlvs[i].type = type}
<1>1. tlvs \in Seq(TLVSet) /\ n \in Nat /\ m \in Seq(Nat)
  BY SduPlaces DEF Sayable
<1>2. PICK at : /\ at[1] = 4
                /\ \A i \in 1..n : Laid(m, tlvs, at, i)
                /\ at[n + 1] \in Offsets
                /\ ~Enough(m, at[n + 1])
  BY SduLaid
<1>3. PICK g : /\ got_ = g[4]
               /\ \A pos \in Offsets :
                     g[pos] = IF ~Enough(m, pos) THEN NotFound
                              ELSE IF Byte(m, pos) = type
                              THEN Found(m, room, pos)
                              ELSE g[NextPos(m, pos)]
  BY <1>1, GetTLVSteps
<1>4. \A i \in 1..n : i \in seen <=> i # n \/ Len(tlvs[i].value) # 0
  BY <1>1, SeenAre
<1>5. seen \subseteq 1..n
  <2>1. DOMAIN Front(tlvs) \subseteq 1..n
    BY <1>1 DEF Front
  <2>2. DOMAIN tlvs = 1..n
    BY <1>1
  <2>. QED  BY <2>1, <2>2 DEF Seen
<1>6. \A i \in 1..n : tlvs[i] \in TLVSet /\ Len(tlvs[i].value) \in Nat
  BY <1>1, TLVIs, ElementOfSeq
<1> HIDE DEF m, tlvs, n, seen, got_
<1>7. ASSUME NEW i \in 1..n, i \in seen, tlvs[i].type # type
      PROVE  g[at[i]] = g[at[i + 1]]
  BY <1>2, <1>3, <1>7 DEF Laid, seen
<1>8. CASE Ours # {}
  <2>1. PICK i \in Ours : \A j \in Ours : i <= j
    <3>1. Ours \in SUBSET Nat
      OBVIOUS
    <3>. QED  BY <1>8, <3>1, Least
  <2> DEFINE v == tlvs[i].value
  <2>2. i \in 1..n /\ i \in seen /\ tlvs[i].type = type /\ i \in Nat /\ i # 0
    BY <2>1
  <2>3. \A j \in 1..(i - 1) : j \in 1..n /\ j \in seen /\ tlvs[j].type # type
    <3>1. SUFFICES ASSUME NEW j \in 1..(i - 1)
                   PROVE  j \in 1..n /\ j \in seen /\ tlvs[j].type # type
      OBVIOUS
    <3>2. j \in 1..n /\ j # n /\ j < i
      BY <1>1, <2>2
    <3>3. j \in seen
      BY <1>4, <3>2
    <3>4. j \notin Ours
      BY <2>1, <2>2, <3>2
    <3>. QED  BY <3>2, <3>3, <3>4
  <2>4. g[at[i]] = g[4]
    <3>1. \A j \in 1..(i - 1) : g[at[j]] = g[at[j + 1]]
      BY <1>7, <2>3
    <3>. QED  BY <1>2, <2>2, <3>1, Chained
  <2>5. got_ = IF room < Len(v) THEN [result |-> ENOMEM, data |-> <<>>]
               ELSE [result |-> Len(v), data |-> v]
    <3>1. Laid(m, tlvs, at, i)
      BY <1>2, <2>2
    <3>2. g[at[i]] = Found(m, room, at[i])
      BY <1>3, <2>2, <3>1 DEF Laid, seen
    <3>3. Found(m, room, at[i]) =
             IF room < Len(v) THEN [result |-> ENOMEM, data |-> <<>>]
             ELSE [result |-> Len(v), data |-> v]
      BY <3>1 DEF Laid, Found
    <3>. QED  BY <1>3, <2>4, <3>2, <3>3
  <2>6. \A w : Says(a, type, room, w) <=> w = v /\ Len(v) <= room
    <3>1. ASSUME NEW w, Says(a, type, room, w) PROVE w = v /\ Len(v) <= room
      <4>1. PICK j \in seen : /\ tlvs[j] = [type |-> type, value |-> w]
                              /\ \A k \in 1..(j - 1) : tlvs[k].type # type
                              /\ Len(w) <= room
        BY <3>1 DEF Says, tlvs, seen
      <4>2. j \in Ours /\ j \in Nat
        BY <1>1, <1>5, <4>1
      <4>3. i <= j
        BY <2>1, <4>2
      <4>4. ~(i < j)
        <5>1. i < j => i \in 1..(j - 1)
          BY <2>2, <4>2
        <5>. QED  BY <2>2, <4>1, <5>1
      <4>5. i = j
        BY <2>2, <4>2, <4>3, <4>4
      <4>. QED  BY <4>1, <4>5
    <3>2. ASSUME Len(v) <= room PROVE Says(a, type, room, v)
      <4>1. tlvs[i] = [type |-> type, value |-> v]
        <5>1. tlvs[i] \in TLVSet
          BY <1>6, <2>2
        <5>. QED  BY <2>2, <5>1 DEF TLVSet
      <4>. QED  BY <2>2, <2>3, <3>2, <4>1 DEF Says, tlvs, seen
    <3>. QED  BY <3>1, <3>2
  <2>7. Len(v) \in Nat
    BY <1>6, <2>2
  <2>8. CASE Len(v) <= room
    <3>1. got_ = [result |-> Len(v), data |-> v]
      BY <2>5, <2>7, <2>8
    <3>. QED  BY <2>2, <2>6, <2>8, <3>1 DEF IsTold, m, tlvs, n, got_
  <2>9. CASE ~(Len(v) <= room)
    <3>1. got_ = [result |-> ENOMEM, data |-> <<>>]
      BY <2>5, <2>7, <2>9
    <3>2. got_.result \in Int /\ got_.result < 0 /\ got_.data = <<>>
      BY <3>1 DEF ENOMEM
    <3>. QED  BY <2>6, <2>9, <3>2 DEF IsTold, m, got_
  <2>. QED  BY <2>8, <2>9
<1>9. CASE Ours = {}
  <2>1. \A i \in seen : tlvs[i].type # type
    BY <1>5, <1>9
  <2>2. \A w : ~Says(a, type, room, w)
    BY <2>1 DEF Says, tlvs, seen
  <2>3. PICK k \in Nat : /\ k # 0
                         /\ \A j \in 1..(k - 1) : j \in 1..n /\ j \in seen
                         /\ at[k] \in Offsets /\ ~Enough(m, at[k])
    <3>1. CASE n = 0 \/ n \in seen
      <4>1. \A j \in 1..(n + 1 - 1) : j \in 1..n /\ j \in seen
        BY <1>1, <1>4, <3>1
      <4>. QED  BY <1>1, <1>2, <4>1
    <3>2. CASE n # 0 /\ n \notin seen
      <4>1. \A j \in 1..(n - 1) : j \in 1..n /\ j \in seen
        BY <1>1, <1>4
      <4>2. n \in 1..n
        BY <1>1, <3>2
      <4>3. at[n] \in Offsets /\ ~Enough(m, at[n])
        BY <1>2, <3>2, <4>2 DEF Laid, seen
      <4>. QED  BY <1>1, <3>2, <4>1, <4>3
    <3>. QED  BY <3>1, <3>2
  <2>4. g[at[k]] = g[4]
    <3>1. \A j \in 1..(k - 1) : g[at[j]] = g[at[j + 1]]
      BY <1>7, <2>1, <2>3
    <3>. QED  BY <1>2, <2>3, <3>1, Chained
  <2>5. got_ = NotFound
    BY <1>3, <2>3, <2>4
  <2>6. got_.result \in Int /\ got_.result < 0 /\ got_.data = <<>>
    BY <2>5 DEF NotFound, ENOMSG
  <2>. QED  BY <2>2, <2>6 DEF IsTold, m, got_
<1>. QED  BY <1>8, <1>9

\* The device's answers are bytes and fit the read URB.
LEMMA AnswersAreSayable ==
    ASSUME NEW ids \in SUBSET Nat, NEW a \in Answers(ids)
    PROVE  /\ Sayable(a)
           /\ a.tlvs \in Seq(TLVs)
           /\ a.id \in ids
<1>1. a.id \in ids /\ a.tlvs \in BoundedSeq(TLVs, MaxTLVs)
  BY DEF Answers
<1>2. a.tlvs \in Seq(TLVs)
  <2>1. PICK n \in Nat : a.tlvs \in [1..n -> TLVs]
    BY <1>1, AnswersFit DEF BoundedSeq, SeqOf
  <2>. QED  BY <2>1
<1>3. a.tlvs \in Seq(TLVSet)
  <2>1. TLVs \subseteq TLVSet
    BY AnswersFit DEF TLVSet
  <2>. QED  BY <1>2, <2>1, SeqMonotonic
<1>4. Len(Body(a)) <= 4096 - 13
  <2>1. Body(a) = Body([tlvs |-> a.tlvs])
    BY DEF Body
  <2>. QED  BY <1>1, <2>1, AnswersFit
<1>5. a.id \in Nat
  BY <1>1
<1>. QED  BY <1>1, <1>2, <1>3, <1>4, <1>5 DEF Sayable

\* What GetTLV returns is the one value the answer says, if it says one.
Tells(a, type, room, g) ==
    /\ g.result \in Int
    /\ g.result >= 0 =>
          /\ g.data \in Values /\ g.data \in Seq(0..255)
          /\ Len(g.data) = g.result /\ g.result <= room
          /\ \A w : Says(a, type, room, w) <=> w = g.data
    /\ g.result < 0 => /\ g.data = <<>>
                       /\ \A w : ~Says(a, type, room, w)

\* GetTLV on an answer returns what the answer says.
LEMMA GetTLVIsTold ==
    ASSUME NEW a, Sayable(a), a.tlvs \in Seq(TLVs),
           NEW type, NEW room \in Nat
    PROVE  Tells(a, type, room, GetTLV(Sdu(a), type, room))
<1> DEFINE g == GetTLV(Sdu(a), type, room)
<1>1. IsTold(a, type, room, g)
  BY GetTLVTells
<1> HIDE DEF g
<1>2. CASE \A w : ~Says(a, type, room, w)
  <2>1. g.result \in Int /\ g.result < 0 /\ g.data = <<>>
    BY <1>1, <1>2 DEF IsTold
  <2>. QED  BY <1>2, <2>1 DEF Tells, g
<1>3. CASE ~(\A w : ~Says(a, type, room, w))
  <2>1. PICK i \in 1..Len(a.tlvs) :
           /\ Says(a, type, room, a.tlvs[i].value)
           /\ \A w : Says(a, type, room, w) => w = a.tlvs[i].value
           /\ g = [result |-> Len(a.tlvs[i].value), data |-> a.tlvs[i].value]
    BY <1>1, <1>3 DEF IsTold
  <2> DEFINE v == a.tlvs[i].value
  <2>2. a.tlvs[i] \in TLVs /\ a.tlvs[i] \in TLVSet
    BY ElementOfSeq DEF Sayable
  <2>3. v \in Seq(0..255) /\ Len(v) \in Nat /\ v \in Values
    BY <2>2, TLVIs DEF Values
  <2>4. Len(v) <= room
    <3>1. \A w : Says(a, type, room, w) => Len(w) <= room
      BY DEF Says
    <3>. QED  BY <2>1, <3>1
  <2>5. g.result = Len(v) /\ g.data = v
    BY <2>1
  <2> HIDE DEF v
  <2>6. \A w : Says(a, type, room, w) <=> w = v
    BY <2>1 DEF v
  <2>. QED  BY <2>3, <2>4, <2>5, <2>6 DEF Tells, g
<1>. QED  BY <1>2, <1>3

\* The values of a length an answer says, as the driver sees them.
Said(a, type, room, length) ==
    {v \in Values : Len(v) = length /\ Says(a, type, room, v)}
Meant(S) == CHOOSE v \in S : TRUE

\* The values of a length an answer says: what GetTLV returned, or none.
LEMMA SaidOfLength ==
    ASSUME NEW a, NEW type, NEW room \in Nat, NEW g, Tells(a, type, room, g),
           NEW length \in Nat
    PROVE  Said(a, type, room, length) =
               IF g.result = length THEN {g.data} ELSE {}
<1>1. CASE g.result >= 0
  BY <1>1 DEF Tells, Said
<1>2. CASE ~(g.result >= 0)
  BY <1>2 DEF Tells, Said
<1>. QED  BY <1>1, <1>2

\* The value of a set of one.
LEMMA MeantIs ==
    ASSUME NEW v
    PROVE  Meant({v}) = v /\ {v} # {}
BY DEF Meant

\* The values of any length an answer says: what GetTLV returned, or none.
LEMMA SaidAtAll ==
    ASSUME NEW a, NEW type, NEW room \in Nat, NEW g, Tells(a, type, room, g)
    PROVE  {v \in Values : Says(a, type, room, v)} =
               IF g.result >= 0 THEN {g.data} ELSE {}
<1>1. CASE g.result >= 0
  BY <1>1 DEF Tells
<1>2. CASE ~(g.result >= 0)
  BY <1>2 DEF Tells
<1>. QED  BY <1>1, <1>2

\* An answer of the device.
Told(a) == Sayable(a) /\ a.tlvs \in Seq(TLVs)

\* What the driver reads of an answer's code, one byte of it, and whether it
\* takes the answer for a success.
ReadCode(a) ==
    IF Said(a, 2, 4, 4) = {} THEN ENOMSG
    ELSE IF Meant(Said(a, 2, 4, 4))[1] = 0 /\ Meant(Said(a, 2, 4, 4))[2] = 0
    THEN 0 ELSE Meant(Said(a, 2, 4, 4))[3]
ReadGood(a, id) == a.id = id /\ ReadCode(a) = 0

\* Where that tells a success from an error.
Readable(a) ==
    /\ ReadCode(a) = 0 <=> Code(a) = 0
    /\ Code(a) < 256 => ReadCode(a) = Code(a)

\* The code in terms of Said.
LEMMA CodeIs ==
    ASSUME NEW a
    PROVE  Code(a) = IF Said(a, 2, 4, 4) = {} THEN ENOMSG
                     ELSE IF /\ Meant(Said(a, 2, 4, 4))[1] = 0
                             /\ Meant(Said(a, 2, 4, 4))[2] = 0
                     THEN 0
                     ELSE Meant(Said(a, 2, 4, 4))[3]
                          + 256 * Meant(Said(a, 2, 4, 4))[4]
BY DEF Code, Said, Meant

\* Four bytes, and when their first word is 0.
LEMMA FourBytes ==
    ASSUME NEW v \in Seq(0..255), Len(v) = 4
    PROVE  /\ v[1] \in 0..255 /\ v[2] \in 0..255 /\ v[3] \in 0..255
           /\ Word(v, 0) # 0 <=> ~(v[1] = 0 /\ v[2] = 0)
<1>1. 1 \in 1..Len(v) /\ 2 \in 1..Len(v) /\ 3 \in 1..Len(v)
  OBVIOUS
<1>2. v[1] \in 0..255 /\ v[2] \in 0..255 /\ v[3] \in 0..255
  <2>1. \A k \in 1..Len(v) : v[k] \in 0..255
    BY ElementOfSeq
  <2>. QED  BY <1>1, <2>1
<1>4. Word(v, 0) = v[1] + 256 * v[2]
  BY DEF Word, Byte
<1>3. PICK x \in Nat, y \in Nat : x = v[1] /\ y = v[2]
  <2>1. \A z \in 0..255 : z \in Nat
    OBVIOUS
  <2>. QED  BY <1>2, <2>1, Zenon
<1>5. x + 256 * y # 0 <=> ~(x = 0 /\ y = 0)
  OBVIOUS
<1>. QED  BY <1>2, <1>3, <1>4, <1>5

\* ValidQMIMessage returns what it reads of the answer's code.
LEMMA ValidIsCode ==
    ASSUME NEW a, Told(a)
    PROVE  ValidQMIMessage(Sdu(a)) = ReadCode(a) /\ ReadCode(a) \in Int
<1> DEFINE g == GetTLV(Sdu(a), 2, 4)
<1>1. 4 \in Nat /\ Tells(a, 2, 4, g)
  BY GetTLVIsTold DEF Told
<1> HIDE DEF g
<1>2. Said(a, 2, 4, 4) = IF g.result = 4 THEN {g.data} ELSE {}
  BY <1>1, SaidOfLength
<1>3. ValidQMIMessage(Sdu(a)) =
         IF g.result # 4 THEN ENOMSG
         ELSE IF Word(g.data, 0) # 0 THEN Byte(g.data, 2) ELSE 0
  BY DEF ValidQMIMessage, g
<1>4. CASE g.result = 4
  <2> DEFINE v == g.data
  <2>1. v \in Seq(0..255) /\ Len(v) = 4
    BY <1>1, <1>4 DEF Tells
  <2>2. Said(a, 2, 4, 4) = {v}
    BY <1>2, <1>4
  <2>3. ValidQMIMessage(Sdu(a)) = IF Word(v, 0) # 0 THEN v[3] ELSE 0
    BY <1>3, <1>4 DEF Byte
  <2> HIDE DEF v
  <2>4. /\ v[1] \in 0..255 /\ v[2] \in 0..255 /\ v[3] \in 0..255
        /\ Word(v, 0) # 0 <=> ~(v[1] = 0 /\ v[2] = 0)
    BY <2>1, FourBytes
  <2>5. ReadCode(a) = IF v[1] = 0 /\ v[2] = 0 THEN 0 ELSE v[3]
    BY <2>2, MeantIs DEF ReadCode
  <2>. QED  BY <2>3, <2>4, <2>5
<1>5. CASE g.result # 4
  <2>1. ReadCode(a) = ENOMSG
    BY <1>2, <1>5 DEF ReadCode
  <2>. QED  BY <1>3, <1>5, <2>1 DEF ENOMSG
<1>. QED  BY <1>4, <1>5

\* GetQMIMessageID and the check of ID and code see the answer's.
LEMMA IDIs ==
    ASSUME NEW a, Told(a)
    PROVE  /\ GetQMIMessageID(Sdu(a)) = a.id
           /\ a.id \in Nat
           /\ \A id : Accepted(Sdu(a), id) <=> ReadGood(a, id)
<1>1. /\ Sdu(a) \in Seq(Nat) /\ Len(Sdu(a)) = 4 + Len(Body(a))
      /\ Word(Sdu(a), 0) = a.id /\ Len(Body(a)) \in Nat /\ a.id \in Nat
  <2>1. Len(Body(a)) \in Nat /\ a.id \in Nat
    BY BodyPlaces DEF Told, Sayable
  <2>. QED  BY <2>1, SduPlaces DEF Told
<1>2. GetQMIMessageID(Sdu(a)) = a.id
  BY <1>1 DEF GetQMIMessageID
<1>. QED  BY <1>1, <1>2, ValidIsCode DEF Accepted, ReadGood

-----------------------------------------------------------------------------
(* The message around an answer. *)

\* Where a message's body starts: behind 6 + 2 or 6 + 3 bytes.
SduAt(client) == IF client = QMICTL THEN 8 ELSE 9

\* b is an answer of the client's service, with the number and the body a.
IsReply(b, client, number, a) ==
    /\ b \in Seq(Nat)
    /\ Len(b) = SduAt(client) + Len(Sdu(a)) /\ Len(Sdu(a)) >= 4
    /\ From(b, SduAt(client)) = Sdu(a)
    /\ b[1] = 1 /\ b[2] + 256 * b[3] = Len(b) - 1 /\ b[4] = 128
    /\ b[5] = client % 256 /\ b[6] = client \div 256
    /\ IF client = QMICTL THEN b[8] = number
                          ELSE b[8] + 256 * b[9] = number

\* From is the sequence that stands behind.
LEMMA FromIs ==
    ASSUME NEW b \in Seq(Nat), NEW v \in Seq(Nat), NEW pos \in Nat,
           Len(b) = pos + Len(v),
           \A k \in 1..Len(v) : b[pos + k] = v[k]
    PROVE  From(b, pos) = v
<1>1. Len(v) \in Nat /\ Len(b) \in Nat
  OBVIOUS
<1>2. Slice(b, pos, Len(v)) = v
  <2>1. pos + Len(v) <= Len(b)
    BY <1>1
  <2>. QED  BY <2>1, SliceIs
<1>. QED  BY <1>2 DEF Slice, From

\* Two ways to put three parts together, and four.
Regrouped(x, y, z) == (x \o y) \o z = x \o (y \o z)
Regroups(h, x, y, z) == ((h \o x) \o y) \o z = h \o ((x \o y) \o z)

\* Concatenation is associative.
LEMMA Associative ==
    ASSUME NEW x \in Seq(Nat), NEW y \in Seq(Nat), NEW z \in Seq(Nat)
    PROVE  Regrouped(x, y, z)
BY ConcatAssociative, SMTT(20) DEF Regrouped

\* Any four parts may be regrouped.
LEMMA FourParts ==
    ASSUME NEW h \in Seq(Nat), NEW x \in Seq(Nat), NEW y \in Seq(Nat),
           NEW z \in Seq(Nat)
    PROVE  Regroups(h, x, y, z)
<1>1. x \o y \in Seq(Nat)
  BY ConcatProperties
<1>2. Regrouped(h, x, y)
  BY Associative
<1> DEFINE xy == x \o y
<1> HIDE DEF xy
<1>3. Regrouped(h, xy, z)
  BY <1>1, Associative DEF xy
<1>. QED  BY <1>2, <1>3, Zenon DEF Regrouped, Regroups, xy

\* The device's message is a reply to its client.
LEMMA MessageIs ==
    ASSUME NEW client \in Nat, NEW number \in Nat, NEW a, Sayable(a)
    PROVE  IsReply(Message(client, number, a), client, number, a)
<1> DEFINE sdu == IF client = QMICTL THEN <<1, number>> ELSE <<2>> \o U16(number)
           h == IF client = QMICTL THEN 2 ELSE 3
           u == U16(a.id)
           w == U16(Len(Body(a)))
           body == Body(a)
           m == Sdu(a)
           rest == sdu \o m
           size == U16(Len(rest) + 5)
           head == <<1>> \o size \o <<128, ServiceOf(client)>>
                         \o <<client \div 256>>
           b == head \o rest
<1>1. a.id \in Nat /\ body \in Seq(Nat) /\ Len(body) \in Nat
  BY BodyPlaces DEF Sayable
<1>2. u \in Seq(Nat) /\ w \in Seq(Nat)
  BY <1>1, WordOfU16
<1>3. m \in Seq(Nat) /\ Len(m) \in Nat /\ Len(m) >= 4
  BY <1>1, SduPlaces
<1>4. /\ sdu \in Seq(Nat) /\ Len(sdu) = h
      /\ IF client = QMICTL THEN sdu[2] = number
                            ELSE sdu[2] + 256 * sdu[3] = number
  <2>1. CASE client = QMICTL
    BY <2>1
  <2>2. CASE client # QMICTL
    <3> DEFINE x == <<2>>
               y == U16(number)
    <3>1. y \in Seq(Nat) /\ Len(y) = 2 /\ y[1] + 256 * y[2] = number
      BY WordOfU16
    <3>2. x \in Seq(Nat) /\ Len(x) = 1
      OBVIOUS
    <3>3. sdu = x \o y
      BY <2>2
    <3> HIDE DEF x, y, sdu
    <3>4. IsJoin(x \o y, x, y)
      BY <3>1, <3>2, Joined
    <3>5. 1 \in 1..2 /\ 2 \in 1..2
      OBVIOUS
    <3>6. sdu[1 + 1] = y[1] /\ sdu[1 + 2] = y[2] /\ Len(sdu) = 3 /\ sdu \in Seq(Nat)
      BY <3>1, <3>2, <3>3, <3>4, <3>5 DEF IsJoin
    <3>. QED  BY <2>2, <3>1, <3>6
  <2>. QED  BY <2>1, <2>2
<1> HIDE DEF sdu, u, w, body, m, rest
<1>5. rest = sdu \o u \o w \o body
  <2>1. m = u \o (w \o body)
    BY DEF m, Sdu, u, w, body
  <2>2. Regroups(sdu, u, w, body)
    BY <1>1, <1>2, <1>4, FourParts
  <2>3. Regrouped(u, w, body)
    BY <1>1, <1>2, Associative
  <2>. QED  BY <2>1, <2>2, <2>3, Zenon DEF Regroups, Regrouped, rest
<1>6. Message(client, number, a) = b
  BY <1>5 DEF Message, sdu, u, w, body
<1>7. IsJoin(rest, sdu, m)
  BY <1>3, <1>4, Joined DEF rest
<1>8. rest \in Seq(Nat) /\ Len(rest) = h + Len(m) /\ Len(rest) \in Nat
  BY <1>3, <1>4, <1>7 DEF IsJoin
<1> HIDE DEF rest
<1>9. /\ size \in Seq(Nat) /\ Len(size) = 2
      /\ size[1] + 256 * size[2] = Len(rest) + 5
      /\ size[1] \in Nat /\ size[2] \in Nat
  <2> DEFINE n == Len(rest) + 5
  <2>1. n \in Nat
    BY <1>8
  <2> HIDE DEF n
  <2>2. /\ U16(n) \in Seq(Nat) /\ Len(U16(n)) = 2
        /\ U16(n)[1] + 256 * U16(n)[2] = n
        /\ U16(n)[1] \in Nat /\ U16(n)[2] \in Nat
    BY <2>1, WordOfU16
  <2>. QED  BY <2>2 DEF n
<1> HIDE DEF size
<1>10. /\ head \in Seq(Nat) /\ Len(head) = 6
       /\ head[1] = 1 /\ head[2] = size[1] /\ head[3] = size[2]
       /\ head[4] = 128 /\ head[5] = client % 256 /\ head[6] = client \div 256
  <2> DEFINE service == ServiceOf(client)
             high == client \div 256
             x == <<1>>
             y == <<128, service>>
             z == <<high>>
             xs == x \o size
             xsy == xs \o y
  <2>1. service \in Nat /\ high \in Nat /\ service = client % 256
    BY DEF ServiceOf
  <2> HIDE DEF service, high
  <2>2. /\ x \in Seq(Nat) /\ Len(x) = 1 /\ x[1] = 1
        /\ y \in Seq(Nat) /\ Len(y) = 2 /\ y[1] = 128 /\ y[2] = service
        /\ z \in Seq(Nat) /\ Len(z) = 1 /\ z[1] = high
    BY <2>1
  <2>3. head = xsy \o z
    BY DEF service, high
  <2> HIDE DEF x, y, z, head
  <2>4. 1 \in 1..1 /\ 1 \in 1..2 /\ 2 \in 1..2 /\ 1 \in 1..3 /\ 2 \in 1..3 /\ 3 \in 1..3
    OBVIOUS
  <2>5. IsJoin(xs, x, size)
    BY <1>9, <2>2, Joined
  <2> HIDE DEF xs
  <2>6. /\ Len(xs) = 3 /\ xs \in Seq(Nat)
        /\ xs[1] = 1 /\ xs[1 + 1] = size[1] /\ xs[1 + 2] = size[2]
    BY <1>9, <2>2, <2>4, <2>5 DEF IsJoin
  <2>7. IsJoin(xsy, xs, y)
    BY <2>2, <2>6, Joined
  <2> HIDE DEF xsy
  <2>8. /\ Len(xsy) = 5 /\ xsy \in Seq(Nat)
        /\ xsy[1] = xs[1] /\ xsy[2] = xs[2] /\ xsy[3] = xs[3]
        /\ xsy[3 + 1] = y[1] /\ xsy[3 + 2] = y[2]
    BY <2>2, <2>4, <2>6, <2>7 DEF IsJoin
  <2>9. IsJoin(head, xsy, z)
    BY <2>2, <2>3, <2>8, Joined
  <2>10. 1 \in 1..5 /\ 2 \in 1..5 /\ 3 \in 1..5 /\ 4 \in 1..5 /\ 5 \in 1..5
    OBVIOUS
  <2>11. /\ Len(head) = 6 /\ head \in Seq(Nat)
         /\ head[1] = xsy[1] /\ head[2] = xsy[2] /\ head[3] = xsy[3]
         /\ head[4] = xsy[4] /\ head[5] = xsy[5] /\ head[5 + 1] = z[1]
    BY <2>2, <2>4, <2>8, <2>9, <2>10 DEF IsJoin
  <2>. QED  BY <2>1, <2>2, <2>6, <2>8, <2>11 DEF high
<1> HIDE DEF head
<1>11. IsJoin(b, head, rest)
  BY <1>8, <1>10, Joined
<1> HIDE DEF b
<1>12. /\ b \in Seq(Nat) /\ Len(b) = 6 + Len(rest)
       /\ b[1] = head[1] /\ b[2] = head[2] /\ b[3] = head[3] /\ b[4] = head[4]
       /\ b[5] = head[5] /\ b[6] = head[6]
       /\ \A k \in 1..Len(rest) : b[6 + k] = rest[k]
  <2>1. /\ 1 \in 1..6 /\ 2 \in 1..6 /\ 3 \in 1..6 /\ 4 \in 1..6 /\ 5 \in 1..6
        /\ 6 \in 1..6
    OBVIOUS
  <2>2. /\ b \in Seq(Nat) /\ Len(b) = 6 + Len(rest)
        /\ \A k \in 1..6 : b[k] = head[k]
        /\ \A k \in 1..Len(rest) : b[6 + k] = rest[k]
    BY <1>10, <1>11 DEF IsJoin
  <2>. QED  BY <2>1, <2>2, Zenon
<1>13. h \in 2..3
  OBVIOUS
<1>14. \A k \in 1..Len(m) : b[6 + h + k] = m[k]
  <2>1. SUFFICES ASSUME NEW k \in 1..Len(m) PROVE b[6 + h + k] = m[k]
    OBVIOUS
  <2>2. rest[h + k] = m[k]
    BY <1>4, <1>7 DEF IsJoin
  <2> HIDE DEF h
  <2>3. h + k \in 1..Len(rest) /\ 6 + (h + k) = 6 + h + k
    BY <1>3, <1>8, <1>13
  <2>4. b[6 + (h + k)] = rest[h + k]
    BY <1>12, <2>3
  <2>. QED  BY <2>2, <2>3, <2>4
<1>15. Len(b) = 6 + h + Len(m)
  <2> HIDE DEF h
  <2>. QED  BY <1>3, <1>8, <1>12, <1>13
<1>16. From(b, 6 + h) = m
  <2> DEFINE p == 6 + h
  <2>1. p \in Nat /\ Len(b) = p + Len(m) /\ \A k \in 1..Len(m) : b[p + k] = m[k]
    BY <1>13, <1>14, <1>15
  <2> HIDE DEF p
  <2>2. From(b, p) = m
    BY <1>3, <1>12, <2>1, FromIs
  <2>. QED  BY <2>2 DEF p
<1>17. 6 + h = SduAt(client)
  BY DEF SduAt
<1>18. b[2] + 256 * b[3] = Len(b) - 1
  BY <1>8, <1>9, <1>10, <1>12
<1>19. IF client = QMICTL THEN b[8] = number ELSE b[8] + 256 * b[9] = number
  <2>1. 2 \in 1..Len(sdu) /\ (client # QMICTL => 3 \in 1..Len(sdu))
    BY <1>4
  <2>2. rest[2] = sdu[2] /\ (client # QMICTL => rest[3] = sdu[3])
    BY <1>7, <2>1 DEF IsJoin
  <2>3. 2 \in 1..Len(rest) /\ 3 \in 1..Len(rest)
    BY <1>3, <1>8, <1>13
  <2>4. b[6 + 2] = rest[2] /\ b[6 + 3] = rest[3]
    BY <1>12, <2>3
  <2>. QED  BY <1>4, <2>2, <2>4
<1>20. IsReply(b, client, number, a)
  <2> DEFINE pos == 6 + h
  <2>1. Len(b) = pos + Len(m) /\ Len(m) >= 4 /\ From(b, pos) = m
        /\ pos = SduAt(client)
    BY <1>3, <1>15, <1>16, <1>17
  <2>2. /\ b[1] = 1 /\ b[4] = 128
        /\ b[5] = client % 256 /\ b[6] = client \div 256
    BY <1>10, <1>12
  <2> HIDE DEF pos
  <2>. QED  BY <1>12, <1>18, <1>19, <2>1, <2>2 DEF IsReply, m
<1>. QED  BY <1>6, <1>20

-----------------------------------------------------------------------------
(* What the driver makes of an answer. *)

LEMMA ParsedIs ==
    ASSUME NEW b, NEW client \in Nat, NEW number, NEW a,
           IsReply(b, client, number, a)
    PROVE  /\ ParseQMUX(b) = [result |-> 6, clientID |-> client]
           /\ TransactionID(b) = number
           /\ Len(b) >= 12 /\ Len(b) \in Nat
<1>1. /\ b \in Seq(Nat) /\ Len(b) \in Nat /\ Len(b) >= 12
      /\ SduAt(client) \in 8..9
  <2>1. SduAt(client) \in 8..9
    BY DEF SduAt
  <2>2. /\ b \in Seq(Nat) /\ Len(b) = SduAt(client) + Len(Sdu(a))
        /\ Len(Sdu(a)) >= 4
    BY DEF IsReply
  <2>3. PICK n \in Nat : n = Len(b)
    BY <2>2
  <2>4. From(b, SduAt(client)) = Sdu(a)
    BY DEF IsReply
  <2>5. Len(Sdu(a)) = n - SduAt(client)
    BY <2>1, <2>2, <2>3
  <2>. QED  BY <2>1, <2>2, <2>3, <2>5
<1>2. Byte(b, 0) = 1 /\ Word(b, 1) = Len(b) - 1 /\ Byte(b, 3) = 128
  BY DEF IsReply, Byte, Word
<1>3. 256 * Byte(b, 5) + Byte(b, 4) = client
  <2>1. Byte(b, 5) = client \div 256 /\ Byte(b, 4) = client % 256
    BY DEF IsReply, Byte
  <2>2. (client % 256) + 256 * (client \div 256) = client
    OBVIOUS
  <2>3. client % 256 \in Nat /\ client \div 256 \in Nat
    OBVIOUS
  <2>. QED  BY <2>1, <2>2, <2>3
<1>4. ParseQMUX(b) = [result |-> 6, clientID |-> client]
  BY <1>1, <1>2, <1>3 DEF ParseQMUX, QMUXHeaderSize
<1>5. TransactionID(b) = number
  <2>1. CASE client = QMICTL
    <3>1. b[8] = number
      BY <2>1 DEF IsReply
    <3>2. TransactionID(b) = Byte(b, 6 + 1)
      BY <1>4, <2>1 DEF TransactionID
    <3>. QED  BY <3>1, <3>2 DEF Byte
  <2>2. CASE client # QMICTL
    <3>1. b[8] + 256 * b[9] = number
      BY <2>2 DEF IsReply
    <3>2. TransactionID(b) = Word(b, 6 + 1)
      BY <1>4, <2>2 DEF TransactionID
    <3>. QED  BY <3>1, <3>2 DEF Byte, Word
  <2>. QED  BY <2>1, <2>2
<1>. QED  BY <1>1, <1>4, <1>5

\* Two bytes are those of their word.
LEMMA TwoBytes ==
    ASSUME NEW d \in Seq(0..255), Len(d) = 2
    PROVE  U16(Word(d, 0)) = d /\ Word(d, 0) \in Nat
<1>1. \A k \in 1..Len(d) : d[k] \in 0..255
  BY ElementOfSeq, Zenon
<1>2. PICK x \in 0..255, y \in 0..255 : x = d[1] /\ y = d[2]
  <2>1. 1 \in 1..Len(d) /\ 2 \in 1..Len(d)
    OBVIOUS
  <2>2. d[1] \in 0..255 /\ d[2] \in 0..255
    BY <1>1, <2>1
  <2>. QED  BY <2>2, Zenon
<1>3. Word(d, 0) = x + 256 * y
  BY <1>2 DEF Word, Byte
<1>4. (x + 256 * y) % 256 = x
  OBVIOUS
<1>5. (x + 256 * y) \div 256 = y
  OBVIOUS
<1>6. U16(Word(d, 0)) = <<x, y>>
  BY <1>3, <1>4, <1>5 DEF U16
<1>7. d = <<x, y>>
  <2>1. <<x, y>> \in Seq(0..255) /\ Len(<<x, y>>) = 2
    OBVIOUS
  <2>2. \A i \in 1..Len(d) : d[i] = <<x, y>>[i]
    BY <1>2
  <2>. QED  BY <2>1, <2>2, SeqEqual
<1>. QED  BY <1>3, <1>6, <1>7

\* QMICTLGetClientIDResp returns the client ID the answer says.
LEMMA GetClientUnderstood ==
    ASSUME NEW b, NEW number, NEW a, Told(a), Readable(a),
           IsReply(b, QMICTL, number, a)
    PROVE  MeansGetClient(a, QMICTLGetClientIDResp(b))
<1> DEFINE tlv == GetTLV(Sdu(a), 1, 2)
           g == QMICTLGetClientIDResp(b)
<1>1. Len(b) >= 12 /\ Len(b) \in Nat /\ CtlBody(b) = Sdu(a)
  <2>1. QMICTL \in Nat
    BY DEF QMICTL
  <2>. QED  BY <2>1, ParsedIs DEF IsReply, CtlBody, SduAt, QMUXHeaderSize
<1>2. 2 \in Nat /\ Tells(a, 1, 2, tlv)
  BY GetTLVIsTold DEF Told
<1>3. Said(a, 1, 2, 2) = IF tlv.result = 2 THEN {tlv.data} ELSE {}
  <2> HIDE DEF tlv
  <2>. QED  BY <1>2, SaidOfLength
<1>4. g = IF Good(a, 34) /\ tlv.result = 2
          THEN [result |-> 0, clientID |-> Word(tlv.data, 0)]
          ELSE [result |-> EFAULT, clientID |-> 0]
  <2>1. Accepted(CtlBody(b), 34) <=> Good(a, 34)
    BY <1>1, IDIs DEF Readable, ReadGood, Good
  <2>2. ~(Len(b) < QMUXHeaderSize + 2)
    BY <1>1 DEF QMUXHeaderSize
  <2>. QED  BY <1>1, <2>1, <2>2 DEF QMICTLGetClientIDResp
<1> HIDE DEF tlv, g
<1>5. CASE Good(a, 34) /\ tlv.result = 2
  <2>1. tlv.data \in Seq(0..255) /\ Len(tlv.data) = 2 /\ Says(a, 1, 2, tlv.data)
    BY <1>2, <1>5 DEF Tells
  <2>2. U16(g.clientID) = tlv.data /\ g.result = 0
    BY <1>4, <1>5, <2>1, TwoBytes
  <2>. QED  BY <1>5, <2>1, <2>2 DEF MeansGetClient, g
<1>6. CASE ~(Good(a, 34) /\ tlv.result = 2)
  <2>1. g.result = EFAULT
    BY <1>4, <1>6
  <2>2. tlv.result # 2 => ~\E v \in Values : Len(v) = 2 /\ Says(a, 1, 2, v)
    BY <1>3 DEF Said
  <2>. QED  BY <1>6, <2>1, <2>2 DEF MeansGetClient, g
<1>. QED  BY <1>5, <1>6

\* QMICTLReleaseClientIDResp and QMICTLSyncResp return the answer's code.
LEMMA ReleaseUnderstood ==
    ASSUME NEW b, NEW number, NEW a, Told(a), Readable(a),
           IsReply(b, QMICTL, number, a)
    PROVE  /\ QMICTLReleaseClientIDResp(b) =
                 IF Good(a, 35) THEN 0 ELSE EFAULT
           /\ \A g : g.result = QMICTLSyncResp(b) => MeansSync(a, g)
<1>1. Len(b) >= 12 /\ Len(b) \in Nat /\ CtlBody(b) = Sdu(a)
  <2>1. QMICTL \in Nat
    BY DEF QMICTL
  <2>. QED  BY <2>1, ParsedIs DEF IsReply, CtlBody, SduAt, QMUXHeaderSize
<1>2. Accepted(CtlBody(b), 35) <=> Good(a, 35)
  BY <1>1, IDIs DEF Readable, ReadGood, Good
<1>3. ~(Len(b) < QMUXHeaderSize + 2)
  BY <1>1 DEF QMUXHeaderSize
<1>4. GetQMIMessageID(CtlBody(b)) = a.id /\ ValidQMIMessage(CtlBody(b)) = ReadCode(a)
  BY <1>1, IDIs, ValidIsCode
<1>. QED  BY <1>2, <1>3, <1>4
          DEF QMICTLReleaseClientIDResp, QMICTLSyncResp, Readable, MeansSync

\* A service's reply is long enough, and its body is the answer.
LEMMA ServiceBodyIs ==
    ASSUME NEW b, NEW client \in Nat, client # QMICTL, NEW number, NEW a,
           IsReply(b, client, number, a)
    PROVE  ~(Len(b) < QMUXHeaderSize + 3) /\ ServiceBody(b) = Sdu(a)
<1>1. Len(b) >= 12 /\ Len(b) \in Nat
  BY ParsedIs
<1>. QED  BY <1>1 DEF IsReply, ServiceBody, SduAt, QMUXHeaderSize

\* QMIDMSGetMEID returns the MEID the answer says, or fourteen '0'.
LEMMA MEIDUnderstood ==
    ASSUME NEW b, NEW client \in Nat, client # QMICTL, NEW number, NEW a,
           Told(a), Readable(a), IsReply(b, client, number, a), NEW g,
           g = IF QMIDMSGetMEIDResp(b).result < 0
               THEN [QMIDMSGetMEIDResp(b) EXCEPT !.meid = [i \in 1..14 |-> 48]]
               ELSE QMIDMSGetMEIDResp(b)
    PROVE  MeansMEID(a, g)
<1> DEFINE tlv == GetTLV(Sdu(a), 18, 14)
           resp == QMIDMSGetMEIDResp(b)
<1>1. ~(Len(b) < QMUXHeaderSize + 3) /\ ServiceBody(b) = Sdu(a)
  BY ServiceBodyIs
<1>2. 14 \in Nat /\ Tells(a, 18, 14, tlv)
  BY GetTLVIsTold DEF Told
<1>3. Said(a, 18, 14, 14) = IF tlv.result = 14 THEN {tlv.data} ELSE {}
  <2> HIDE DEF tlv
  <2>. QED  BY <1>2, SaidOfLength
<1>4. resp = IF Good(a, 37) /\ tlv.result = 14
             THEN [result |-> 0, meid |-> tlv.data]
             ELSE [result |-> EFAULT, meid |-> <<>>]
  <2>1. Accepted(ServiceBody(b), 37) <=> Good(a, 37)
    BY <1>1, IDIs DEF Readable, ReadGood, Good
  <2>. QED  BY <1>1, <2>1 DEF QMIDMSGetMEIDResp
<1>5. g = IF resp.result < 0
          THEN [resp EXCEPT !.meid = [i \in 1..14 |-> 48]] ELSE resp
  OBVIOUS
<1> HIDE DEF tlv, resp
<1>6. (\E v \in Values : Len(v) = 14 /\ Says(a, 18, 14, v)) <=> tlv.result = 14
  <2>1. (\E v \in Values : Len(v) = 14 /\ Says(a, 18, 14, v))
           <=> Said(a, 18, 14, 14) # {}
    BY DEF Said
  <2>. QED  BY <1>3, <2>1
<1>7. CASE Good(a, 37) /\ tlv.result = 14
  <2>1. Says(a, 18, 14, tlv.data)
    BY <1>2, <1>7 DEF Tells
  <2>2. resp = [result |-> 0, meid |-> tlv.data]
    BY <1>4, <1>7
  <2>3. g = resp
    BY <1>5, <2>2
  <2>. QED  BY <1>6, <1>7, <2>1, <2>2, <2>3 DEF MeansMEID
<1>8. CASE ~(Good(a, 37) /\ tlv.result = 14)
  <2>1. resp = [result |-> EFAULT, meid |-> <<>>]
    BY <1>4, <1>8
  <2>2. g.result = EFAULT /\ g.meid = [i \in 1..14 |-> 48]
    BY <1>5, <2>1 DEF EFAULT
  <2>. QED  BY <1>6, <1>8, <2>2 DEF MeansMEID
<1>. QED  BY <1>7, <1>8

\* The first byte of the link protocol an answer gives, or what stands for it.
LEMMA FormatUnderstood ==
    ASSUME NEW b, NEW client \in Nat, client # QMICTL, NEW number, NEW a,
           Told(a), IsReply(b, client, number, a)
    PROVE  /\ Readable(a) => \A g : g.result = QMIWDASetDataFormatResp(b)
                                    => MeansFormat(a, g)
           /\ QMIWDASetDataFormatResp(b) =
                 IF a.id # 32 THEN EFAULT
                 ELSE IF ReadCode(a) # 0 \/ Said(a, 17, 4, 4) = {} THEN 0
                 ELSE Meant(Said(a, 17, 4, 4))[1]
<1> DEFINE tlv == GetTLV(Sdu(a), 17, 4)
<1>1. ~(Len(b) < QMUXHeaderSize + 3) /\ ServiceBody(b) = Sdu(a)
  BY ServiceBodyIs
<1>2. 4 \in Nat /\ Tells(a, 17, 4, tlv)
  BY GetTLVIsTold DEF Told
<1>3. Said(a, 17, 4, 4) = IF tlv.result = 4 THEN {tlv.data} ELSE {}
  <2> HIDE DEF tlv
  <2>. QED  BY <1>2, SaidOfLength
<1>4. GetQMIMessageID(Sdu(a)) = a.id /\ ValidQMIMessage(Sdu(a)) = ReadCode(a)
  BY IDIs, ValidIsCode
<1>5. QMIWDASetDataFormatResp(b) =
         IF a.id # 32 THEN EFAULT
         ELSE IF ReadCode(a) # 0 \/ tlv.result # 4 THEN 0 ELSE Byte(tlv.data, 0)
  BY <1>1, <1>4 DEF QMIWDASetDataFormatResp
<1> HIDE DEF tlv
<1>6. QMIWDASetDataFormatResp(b) =
         IF a.id # 32 THEN EFAULT
         ELSE IF ReadCode(a) # 0 \/ Said(a, 17, 4, 4) = {} THEN 0
         ELSE Meant(Said(a, 17, 4, 4))[1]
  <2>1. CASE tlv.result = 4
    <3>1. Meant(Said(a, 17, 4, 4)) = tlv.data /\ Said(a, 17, 4, 4) # {}
      BY <1>3, <2>1, MeantIs
    <3>. QED  BY <1>5, <2>1, <3>1 DEF Byte
  <2>2. CASE tlv.result # 4
    BY <1>3, <1>5, <2>2
  <2>. QED  BY <2>1, <2>2
<1>. QED  BY <1>6 DEF MeansFormat, Said, Meant, Readable

\* The front of a sequence.
LEMMA FrontOf ==
    ASSUME NEW S, NEW s \in Seq(S), NEW n \in Nat, n <= Len(s)
    PROVE  /\ SubSeq(s, 1, n) \in Seq(S) /\ Len(SubSeq(s, 1, n)) = n
           /\ \A k \in 1..n : SubSeq(s, 1, n)[k] = s[k]
<1>1. \A i \in 1..n : s[i] \in S
  OBVIOUS
<1>2. 1 \in Int /\ n \in Int
  OBVIOUS
<1>3. /\ SubSeq(s, 1, n) \in Seq(S)
      /\ Len(SubSeq(s, 1, n)) = IF 1 <= n THEN n - 1 + 1 ELSE 0
      /\ \A i \in 1..(n - 1 + 1) : SubSeq(s, 1, n)[i] = s[1 + i - 1]
  BY <1>1, <1>2, SubSeqProperties
<1> DEFINE p == SubSeq(s, 1, n)
<1> HIDE DEF p
<1>4. Len(p) = n
  BY <1>3 DEF p
<1>5. ASSUME NEW k \in 1..n PROVE p[k] = s[k]
  <2>1. k \in 1..(n - 1 + 1) /\ 1 + k - 1 = k
    OBVIOUS
  <2>. QED  BY <1>3, <2>1 DEF p
<1>. QED  BY <1>3, <1>4, <1>5 DEF p

\* A counter an answer gives is at the front of what the driver has then.
LEMMA CounterIs ==
    ASSUME NEW t \in DOMAIN Counters, NEW d \in Seq(0..255)
    PROVE  /\ Counters[t] \in Nat
           /\ d = <<>> => d \o From(Unknown(t), Len(d)) = Unknown(t)
           /\ IsPrefix(d, d \o From(Unknown(t), Len(d)))
<1>1. Counters[t] \in {4, 8}
  BY DEF Counters
<1>2. Counters[t] \in Nat
  BY <1>1
<1> DEFINE u == Unknown(t)
           x == From(u, Len(d))
<1>3. u \in Seq(0..255) /\ Len(u) = Counters[t]
  <2> DEFINE n == Counters[t]
  <2>1. n \in Nat
    BY <1>2
  <2> HIDE DEF n
  <2>2. [i \in 1..n |-> 255] \in Seq(0..255) /\ Len([i \in 1..n |-> 255]) = n
    BY <2>1
  <2>. QED  BY <2>2 DEF Unknown, n
<1> HIDE DEF u
<1>4. d = <<>> => d \o x = u
  <2>1. ASSUME d = <<>> PROVE x = u
    <3>1. Len(d) = 0
      BY <2>1
    <3>2. From(u, 0) = SubSeq(u, 1, Len(u))
      BY DEF From
    <3>3. SubSeq(u, 1, Len(u)) = u
      BY <1>3
    <3>. QED  BY <3>1, <3>2, <3>3
  <2>2. <<>> \o u = u
    BY <1>3
  <2>. QED  BY <2>1, <2>2
<1>5. x \in Seq(0..255)
  <2>1. \A i \in (Len(d) + 1)..Len(u) : u[i] \in 0..255
    <3>1. ASSUME NEW i \in (Len(d) + 1)..Len(u) PROVE u[i] \in 0..255
      <4>1. i \in 1..Len(u)
        BY <1>3
      <4>. QED  BY <1>3, <4>1, ElementOfSeq
    <3>. QED  BY <3>1
  <2>2. Len(d) + 1 \in Int /\ Len(u) \in Int
    BY <1>3
  <2>. QED  BY <2>1, <2>2, SubSeqProperties DEF From
<1> HIDE DEF x
<1>6. IsPrefix(d, d \o x)
  <2> DEFINE s == d \o x
             p == SubSeq(d, 1, Len(d))
             q == SubSeq(s, 1, Len(d))
  <2>1. /\ s \in Seq(0..255) /\ Len(d) <= Len(s) /\ Len(d) \in Nat
        /\ \A k \in 1..Len(d) : s[k] = d[k]
    BY <1>5
  <2> HIDE DEF s
  <2>2. p \in Seq(0..255) /\ Len(p) = Len(d) /\ \A k \in 1..Len(d) : p[k] = d[k]
    <3>1. Len(d) <= Len(d)
      BY <2>1
    <3>. QED  BY <2>1, <3>1, FrontOf
  <2>3. q \in Seq(0..255) /\ Len(q) = Len(d) /\ \A k \in 1..Len(d) : q[k] = s[k]
    BY <2>1, FrontOf
  <2>4. p = q
    <3> HIDE DEF p, q
    <3>1. \A k \in 1..Len(p) : p[k] = q[k]
      BY <2>1, <2>2, <2>3
    <3>. QED  BY <2>2, <2>3, <3>1, SeqEqual
  <2>. QED  BY <2>1, <2>4 DEF IsPrefix, s
<1>. QED  BY <1>2, <1>4, <1>6 DEF x, u

\* The cases of MeansStatus.
EventMeant(a, g, link) ==
    /\ g.result = 0 /\ g.link = link /\ ~g.reconfigure
    /\ \A t \in DOMAIN Counters :
          LET v == {w \in Values : Says(a, t, Counters[t], w)} IN
          IF v = {} THEN g.counters[t] = Unknown(t)
          ELSE IsPrefix(CHOOSE w \in v : TRUE, g.counters[t])
StatusMeant(g, v, link) ==
    /\ g.result = 0
    /\ g.link = IF v = <<>> THEN link ELSE v[1] = 2
    /\ g.reconfigure = (Len(v) = 2 /\ v[2] = 1)

\* Each case of MeansStatus by itself.
LEMMA MeansStatusIs ==
    ASSUME NEW a, NEW g, NEW link, NEW said,
           said = {v \in Values : Says(a, 1, 2, v)}
    PROVE  /\ a.id = 1 /\ EventMeant(a, g, link) => MeansStatus(a, g, link)
           /\ a.id = 34 /\ said = {} /\ g.result < 0 /\ g.link = link
                => MeansStatus(a, g, link)
           /\ a.id = 34 /\ said # {} /\ StatusMeant(g, Meant(said), link)
                => MeansStatus(a, g, link)
           /\ a.id # 1 /\ a.id # 34 /\ g.result = EFAULT /\ g.link = link
                => MeansStatus(a, g, link)
<1>1. a.id = 1 /\ EventMeant(a, g, link) => MeansStatus(a, g, link)
  BY DEF EventMeant, MeansStatus
<1>2. a.id = 34 /\ said = {} /\ g.result < 0 /\ g.link = link
          => MeansStatus(a, g, link)
  BY DEF MeansStatus
<1>3. a.id = 34 /\ said # {} /\ StatusMeant(g, Meant(said), link)
          => MeansStatus(a, g, link)
  BY DEF StatusMeant, MeansStatus, Meant
<1>4. a.id # 1 /\ a.id # 34 /\ g.result = EFAULT /\ g.link = link
          => MeansStatus(a, g, link)
  BY DEF MeansStatus
<1>. QED  BY <1>1, <1>2, <1>3, <1>4

\* QMIWDSEventResp returns the counters and link state the answer says.
LEMMA StatusUnderstood ==
    ASSUME NEW b, NEW client \in Nat, client # QMICTL, NEW number, NEW a,
           Told(a), IsReply(b, client, number, a), NEW link
    PROVE  MeansStatus(a, QMIWDSEventResp(b, link, FALSE), link)
<1> DEFINE msg == Sdu(a)
           status == GetTLV(msg, 1, 2)
           value(t) == GetTLV(msg, t, Counters[t])
           none == [t \in DOMAIN Counters |-> Unknown(t)]
           error == IF status.result < 0 THEN status.result ELSE 0
           up == IF status.result >= 1 THEN Byte(status.data, 0) = 2
                                       ELSE link
           reset == IF status.result = 2 THEN Byte(status.data, 1) = 1
                                         ELSE FALSE
           as(result, li, reconfigure, counters) ==
              [result |-> result, link |-> li,
               reconfigure |-> reconfigure, counters |-> counters]
           all == [t \in DOMAIN Counters |->
                     value(t).data \o From(Unknown(t), Len(value(t).data))]
           g == QMIWDSEventResp(b, link, FALSE)
           said == {v \in Values : Says(a, 1, 2, v)}
<1>1. ~(Len(b) < QMUXHeaderSize + 3) /\ ServiceBody(b) = msg
  BY ServiceBodyIs
<1>2. GetQMIMessageID(msg) = a.id /\ a.id \in Nat
  BY IDIs
<1>3. g = CASE a.id = 1 -> as(0, link, FALSE, all)
            [] a.id = 34 -> as(error, up, reset, none)
            [] OTHER -> as(EFAULT, link, FALSE, none)
  <2> HIDE DEF msg
  <2>. QED  BY <1>1, <1>2 DEF QMIWDSEventResp
<1>4. 2 \in Nat /\ Tells(a, 1, 2, status)
  BY GetTLVIsTold DEF Told
<1>10. \A t \in DOMAIN Counters :
          all[t] = value(t).data \o From(Unknown(t), Len(value(t).data))
  BY DEF all
<1> HIDE DEF msg, status, value, none, all, g, error, up, reset
<1>11. /\ a.id = 1 => g = as(0, link, FALSE, all)
       /\ a.id = 34 => g = as(error, up, reset, none)
       /\ a.id # 1 /\ a.id # 34 => g = as(EFAULT, link, FALSE, none)
  <2>1. a.id = 1 => g = as(0, link, FALSE, all)
    BY <1>3
  <2>2. a.id = 34 => g = as(error, up, reset, none)
    BY <1>3
  <2>3. a.id # 1 /\ a.id # 34 => g = as(EFAULT, link, FALSE, none)
    BY <1>3
  <2>. QED  BY <2>1, <2>2, <2>3
<1>12. ASSUME NEW t \in DOMAIN Counters
       PROVE  Tells(a, t, Counters[t], value(t))
  <2>1. <<>> \in Seq(0..255)
    OBVIOUS
  <2>2. Counters[t] \in Nat
    BY <2>1, CounterIs
  <2>. QED  BY <2>2, GetTLVIsTold DEF Told, value, msg
<1>5. CASE a.id = 1
  <2>1. g = as(0, link, FALSE, all)
    BY <1>5, <1>11
  <2>2. g.result = 0 /\ g.link = link /\ ~g.reconfigure /\ g.counters = all
    BY <2>1
  <2>3. ASSUME NEW t \in DOMAIN Counters
        PROVE  LET v == {w \in Values : Says(a, t, Counters[t], w)} IN
               IF v = {} THEN all[t] = Unknown(t)
               ELSE IsPrefix(CHOOSE w \in v : TRUE, all[t])
    <3> DEFINE d == value(t).data
               v == {w \in Values : Says(a, t, Counters[t], w)}
    <3>1. <<>> \in Seq(0..255)
      OBVIOUS
    <3>2. Counters[t] \in Nat
      BY <3>1, CounterIs
    <3>3. v = IF value(t).result >= 0 THEN {d} ELSE {}
      BY <1>12, <3>2, SaidAtAll
    <3>4. /\ value(t).result >= 0 => d \in Seq(0..255)
          /\ ~(value(t).result >= 0) => d = <<>>
      BY <1>12 DEF Tells
    <3>6. all[t] = d \o From(Unknown(t), Len(d))
      BY <1>10
    <3> HIDE DEF d
    <3>5. d \in Seq(0..255)
      BY <3>1, <3>4
    <3>7. /\ d = <<>> => all[t] = Unknown(t)
          /\ IsPrefix(d, all[t])
      BY <3>5, <3>6, CounterIs
    <3>8. (CHOOSE w \in {d} : TRUE) = d
      OBVIOUS
    <3> HIDE DEF v
    <3>9. IF v = {} THEN all[t] = Unknown(t)
          ELSE IsPrefix(CHOOSE w \in v : TRUE, all[t])
      BY <3>3, <3>4, <3>7, <3>8
    <3>. QED  BY <3>9 DEF v
  <2>4. EventMeant(a, g, link)
    BY <2>2, <2>3, Zenon DEF EventMeant
  <2>5. MeansStatus(a, g, link)
    BY <1>5, <2>4, MeansStatusIs
  <2>. QED  BY <2>5 DEF g
<1>6. said = IF status.result >= 0 THEN {status.data} ELSE {}
  BY <1>4, SaidAtAll
<1>7. CASE a.id = 34 /\ said = {}
  <2>1. status.result < 0 /\ status.result \in Int
    <3> HIDE DEF said
    <3>1. status.result \in Int
      BY <1>4 DEF Tells
    <3>2. ~(status.result >= 0)
      BY <1>6, <1>7
    <3>. QED  BY <3>1, <3>2
  <2>2. g.result = error /\ g.link = up
    BY <1>7, <1>11
  <2>3. g.result < 0 /\ g.link = link
    <3>1. error = status.result
      BY <2>1 DEF error
    <3>2. up = link
      BY <2>1 DEF up
    <3>. QED  BY <2>1, <2>2, <3>1, <3>2
  <2>4. MeansStatus(a, g, link)
    BY <1>7, <2>3, MeansStatusIs
  <2>. QED  BY <2>4 DEF g
<1>8. CASE a.id = 34 /\ said # {}
  <2> DEFINE v == status.data
  <2>1. status.result >= 0 /\ said = {v}
    <3> HIDE DEF said
    <3>. QED  BY <1>6, <1>8
  <2>2. v \in Seq(0..255) /\ Len(v) = status.result /\ Len(v) <= 2 /\ Len(v) \in Nat
    BY <1>4, <2>1 DEF Tells
  <2>3. v = <<>> <=> Len(v) = 0
    BY <2>2, EmptySeq
  <2>4. g.result = error /\ g.link = up /\ g.reconfigure = reset
    BY <1>8, <1>11
  <2> HIDE DEF v
  <2>5. g.result = 0
    <3>1. ~(status.result < 0)
      BY <2>1, <2>2
    <3>. QED  BY <2>4, <3>1 DEF error
  <2>6. g.link = IF v = <<>> THEN link ELSE v[1] = 2
    <3>1. status.result >= 1 <=> v # <<>>
      BY <2>1, <2>2, <2>3
    <3>2. Byte(status.data, 0) = v[1]
      BY DEF Byte, v
    <3>. QED  BY <2>4, <3>1, <3>2 DEF up
  <2>7. g.reconfigure = (Len(v) = 2 /\ v[2] = 1)
    <3>1. Byte(status.data, 1) = v[2]
      BY DEF Byte, v
    <3>. QED  BY <2>2, <2>4, <3>1 DEF reset
  <2>8. Meant(said) = v
    <3> HIDE DEF said
    <3>. QED  BY <2>1, MeantIs
  <2>9. StatusMeant(g, Meant(said), link)
    <3> HIDE DEF said
    <3>. QED  BY <2>5, <2>6, <2>7, <2>8 DEF StatusMeant
  <2>10. MeansStatus(a, g, link)
    BY <1>8, <2>9, MeansStatusIs
  <2>. QED  BY <2>10 DEF g
<1>9. CASE a.id # 1 /\ a.id # 34
  <2>1. g = as(EFAULT, link, FALSE, none)
    BY <1>9, <1>11
  <2>2. g.result = EFAULT /\ g.link = link
    BY <2>1
  <2>3. MeansStatus(a, g, link)
    BY <1>9, <2>2, MeansStatusIs
  <2>. QED  BY <2>3 DEF g
<1>. QED  BY <1>5, <1>7, <1>8, <1>9

-----------------------------------------------------------------------------
(* The requests. *)

\* The requests by kind, with their IDs, clients and numbers.
CtlKinds == {"getClient", "release", "ready", "sync", "ctlFormat"}
IDOfKind(kind) ==
    CASE kind = "getClient" -> 34
      [] kind = "release" -> 35
      [] kind = "ready" -> 33
      [] kind = "sync" -> 39
      [] kind = "ctlFormat" -> 38
      [] kind = "setEvents" -> 1
      [] kind = "getStatus" -> 34
      [] kind = "getMEID" -> 37
      [] kind = "setFormat" -> 32

IsControl(r) ==
    /\ r.kind \in CtlKinds
    /\ r.client = QMICTL /\ r.number \in Transactions
    /\ r.kind = "getClient" => r.of \in {QMIWDS, QMIDMS, QMIWDA}
    /\ r.kind = "release" => r.of \in Clients
IsService(r) ==
    /\ r.client \in Clients
    /\ \/ r.kind = "setEvents" /\ ServiceOf(r.client) = QMIWDS /\ r.number = 1
       \/ r.kind = "getStatus" /\ ServiceOf(r.client) = QMIWDS /\ r.number = 2
       \/ r.kind = "getMEID" /\ ServiceOf(r.client) = QMIDMS /\ r.number = 1
       \/ r.kind = "setFormat" /\ ServiceOf(r.client) = QMIWDA /\ r.number = 1

\* A request is one of QMICTL's or one of a service's.
LEMMA RequestsAre ==
    ASSUME NEW r \in Requests
    PROVE  IsControl(r) \/ IsService(r)
<1> DEFINE service(kind, type, number) ==
              {[kind |-> kind, client |-> c, number |-> number, of |-> 0] :
                  c \in {k \in Clients : ServiceOf(k) = type}}
           control(kind, args) ==
              [kind : {kind}, client : {QMICTL}, number : Transactions, of : args]
<1>1. \/ r \in control("getClient", {QMIWDS, QMIDMS, QMIWDA})
      \/ r \in control("release", Clients)
      \/ r \in control("ready", {0})
      \/ r \in control("sync", {0})
      \/ r \in control("ctlFormat", {0})
      \/ r \in service("setEvents", QMIWDS, 1)
      \/ r \in service("getStatus", QMIWDS, 2)
      \/ r \in service("getMEID", QMIDMS, 1)
      \/ r \in service("setFormat", QMIWDA, 1)
  <2> HIDE DEF service, control
  <2>. QED  BY DEF Requests, service, control
<1>2. ASSUME NEW kind \in CtlKinds, NEW args, r \in control(kind, args)
      PROVE  /\ r.kind = kind /\ r.client = QMICTL
             /\ r.number \in Transactions /\ r.of \in args
  BY <1>2
<1>3. ASSUME NEW kind, NEW type, NEW number, r \in service(kind, type, number)
      PROVE  /\ r.kind = kind /\ r.number = number
             /\ r.client \in Clients /\ ServiceOf(r.client) = type
  BY <1>3
<1> HIDE DEF service, control
<1>4. CASE \/ r \in control("getClient", {QMIWDS, QMIDMS, QMIWDA})
           \/ r \in control("release", Clients)
           \/ r \in control("ready", {0})
           \/ r \in control("sync", {0})
           \/ r \in control("ctlFormat", {0})
  <2>1. /\ "getClient" \in CtlKinds /\ "release" \in CtlKinds
        /\ "ready" \in CtlKinds /\ "sync" \in CtlKinds
        /\ "ctlFormat" \in CtlKinds
    BY DEF CtlKinds
  <2>2. CASE r \in control("getClient", {QMIWDS, QMIDMS, QMIWDA})
    BY <1>2, <2>1, <2>2 DEF IsControl
  <2>3. CASE r \in control("release", Clients)
    BY <1>2, <2>1, <2>3 DEF IsControl
  <2>4. CASE r \in control("ready", {0})
    BY <1>2, <2>1, <2>4 DEF IsControl
  <2>5. CASE r \in control("sync", {0})
    BY <1>2, <2>1, <2>5 DEF IsControl
  <2>6. CASE r \in control("ctlFormat", {0})
    BY <1>2, <2>1, <2>6 DEF IsControl
  <2>. QED  BY <1>4, <2>2, <2>3, <2>4, <2>5, <2>6
<1>5. CASE \/ r \in service("setEvents", QMIWDS, 1)
           \/ r \in service("getStatus", QMIWDS, 2)
           \/ r \in service("getMEID", QMIDMS, 1)
           \/ r \in service("setFormat", QMIWDA, 1)
  BY <1>3, <1>5 DEF IsService
<1>. QED  BY <1>1, <1>4, <1>5

\* Client IDs and transaction numbers are numbers; QMICTL's is none of them.
LEMMA Numbers ==
    /\ \A c \in Clients : c \in Nat /\ c # QMICTL
    /\ \A n \in Transactions : n \in Nat /\ n % 256 = n
<1>1. \A c \in Clients : c \in Nat /\ c # QMICTL
  <2>1. ASSUME NEW c \in Clients PROVE c \in Nat /\ c # QMICTL
    <3>1. c \in 1..U16Max /\ U16Max \in Nat
      <4>1. U16Max \in Nat
        BY DEF U16Max
      <4>. QED  BY <4>1, ClientsAreIDs
    <3>2. c \in Nat /\ c # 0
      BY <3>1
    <3>. QED  BY <3>2 DEF QMICTL
  <2>. QED  BY <2>1
<1>2. \A n \in Transactions : n \in Nat /\ n % 256 = n
  <2>1. ASSUME NEW n \in Transactions PROVE n \in Nat /\ n % 256 = n
    <3>1. n \in 1..255
      BY ClientsAreIDs
    <3>. QED  BY <3>1
  <2>. QED  BY <2>1
<1>. QED  BY <1>1, <1>2

\* What stands between the ends of a head and of its message.
Framing(client) == IF client = QMICTL THEN 6 ELSE 7
IsFilled(r, id, tail) ==
    LET f == Filled(r)
        h == Framing(r.client)
    IN  /\ f \in Seq(Nat) /\ tail \in Seq(Nat)
        /\ Len(f) = h + Len(tail) /\ Size(r) = 6 + Len(f)
        /\ (IF r.client = QMICTL THEN f[2] ELSE f[2] + 256 * f[3]) = r.number
        /\ Word(f, h - 4) = id /\ Word(f, h - 2) = Len(tail)
        /\ \A k \in 1..Len(tail) : f[h + k] = tail[k]
        /\ TLVsTile(tail)

\* TLVsTile goes from TLV to TLV until nothing is left.
LEMMA Tiling ==
    ASSUME NEW b \in Seq(Nat)
    PROVE  \E ok :
              /\ TLVsTile(b) <=> ok[0]
              /\ \A pos \in 0..Len(b) :
                    ok[pos] <=> \/ pos = Len(b)
                                \/ /\ pos + 3 <= Len(b)
                                   /\ pos + 3 + Word(b, pos + 1) <= Len(b)
                                   /\ ok[pos + 3 + Word(b, pos + 1)]
<1> DEFINE S == 0..Len(b)
           Fits(pos) == pos + 3 <= Len(b) /\ pos + 3 + Word(b, pos + 1) <= Len(b)
           F(ok) == [pos \in 0..Len(b) |->
                        \/ pos = Len(b)
                        \/ /\ pos + 3 <= Len(b)
                           /\ pos + 3 + Word(b, pos + 1) <= Len(b)
                           /\ ok[pos + 3 + Word(b, pos + 1)]]
           ok == CHOOSE f : f = F(f)
           base == {pos \in S : pos = Len(b) \/ ~Fits(pos)}
           value == [pos \in base |-> pos = Len(b)]
           next == [pos \in S |-> IF Fits(pos) THEN pos + 3 + Word(b, pos + 1)
                                  ELSE pos]
<1>1. TLVsTile(b) <=> ok[0]
  BY DEF TLVsTile
<1>2. next \in [S -> S]
  <2>1. ASSUME NEW pos \in S, Fits(pos)
        PROVE  pos + 3 + Word(b, pos + 1) \in S
    <3>1. pos \in Nat /\ Len(b) \in Nat
      OBVIOUS
    <3>2. pos + 1 + 1 \in 1..Len(b) /\ pos + 1 + 1 + 1 \in 1..Len(b)
      BY <2>1, <3>1
    <3>3. Word(b, pos + 1) \in Nat
      BY <3>2 DEF Word, Byte
    <3>. QED  BY <2>1, <3>1, <3>3
  <2> HIDE DEF Fits
  <2>. QED  BY <2>1
<1>3. base \in SUBSET S
  OBVIOUS
<1> HIDE DEF F, ok, base, value, next, Fits
<1>4. PICK g :
          /\ g = [p \in S |-> g[p]]
          /\ \A p \in base : g[p] = value[p]
          /\ \A p \in S : p \notin base => g[p] = g[next[p]]
  <2>1. Recurses(S, base, value, next)
    BY <1>2, <1>3, TailRecursion
  <2>. QED  BY <2>1 DEF Recurses
<1> DEFINE t == [p \in S |-> g[p] = TRUE]
<1>5. t = F(t)
  <2>1. ASSUME NEW p \in S
        PROVE  t[p] = (p = Len(b) \/ (/\ p + 3 <= Len(b)
                                      /\ p + 3 + Word(b, p + 1) <= Len(b)
                                      /\ t[p + 3 + Word(b, p + 1)]))
    <3>1. CASE p \in base
      <4>1. value[p] = (p = Len(b))
        BY <3>1 DEF value
      <4>2. t[p] = ((p = Len(b)) = TRUE)
        BY <1>4, <3>1, <4>1
      <4>3. p = Len(b) \/ ~(p + 3 <= Len(b) /\ p + 3 + Word(b, p + 1) <= Len(b))
        BY <3>1 DEF base, Fits
      <4> HIDE DEF t
      <4>. QED  BY <4>2, <4>3
    <3>2. CASE p \notin base
      <4>1. p # Len(b) /\ Fits(p)
        BY <3>2 DEF base
      <4>2. next[p] = p + 3 + Word(b, p + 1) /\ next[p] \in S
        BY <1>2, <4>1 DEF next
      <4>3. g[p] = g[next[p]]
        BY <1>4, <3>2
      <4>4. t[p] = t[next[p]]
        BY <4>2, <4>3
      <4>5. p + 3 <= Len(b) /\ p + 3 + Word(b, p + 1) <= Len(b)
        BY <4>1 DEF Fits
      <4>6. t[next[p]] \in BOOLEAN
        BY <4>2
      <4> HIDE DEF t
      <4>. QED  BY <4>1, <4>2, <4>4, <4>5, <4>6
    <3>. QED  BY <3>1, <3>2
  <2>. QED  BY <2>1 DEF F
<1>6. ok = F(ok)
  BY <1>5 DEF ok
<1>7. ASSUME NEW pos \in 0..Len(b)
      PROVE  ok[pos] <=> \/ pos = Len(b)
                         \/ /\ pos + 3 <= Len(b)
                            /\ pos + 3 + Word(b, pos + 1) <= Len(b)
                            /\ ok[pos + 3 + Word(b, pos + 1)]
  BY <1>6 DEF F
<1>. QED  BY <1>1, <1>7

\* A TLV's length, at its place, is what takes one to the next.
LEMMA NoTLV ==
    ASSUME NEW b \in Seq(Nat), Len(b) = 0
    PROVE  TLVsTile(b)
<1>1. PICK ok : /\ TLVsTile(b) <=> ok[0]
                /\ \A pos \in 0..Len(b) :
                      ok[pos] <=> \/ pos = Len(b)
                                  \/ /\ pos + 3 <= Len(b)
                                     /\ pos + 3 + Word(b, pos + 1) <= Len(b)
                                     /\ ok[pos + 3 + Word(b, pos + 1)]
  BY Tiling
<1>2. 0 \in 0..Len(b) /\ 0 = Len(b)
  OBVIOUS
<1>. QED  BY <1>1, <1>2

\* b is a TLV with the value v.
IsTLV(b, type, v) ==
    /\ b \in Seq(Nat) /\ Len(v) \in Nat /\ Len(b) = 3 + Len(v)
    /\ b[1] = type /\ b[2] + 256 * b[3] = Len(v)
    /\ \A k \in 1..Len(v) : b[3 + k] = v[k]

\* The length of a TLV is that of its bytes.
LEMMA TLVLength ==
    ASSUME NEW b, NEW type, NEW v, IsTLV(b, type, v)
    PROVE  /\ b \in Seq(Nat) /\ Len(b) \in Nat /\ Len(b) >= 3
           /\ Word(b, 1) \in Nat /\ 3 + Word(b, 1) = Len(b)
<1>1. /\ b \in Seq(Nat) /\ Len(v) \in Nat /\ Len(b) = 3 + Len(v)
      /\ b[2] + 256 * b[3] = Len(v)
  BY DEF IsTLV
<1>2. Word(b, 1) = b[2] + 256 * b[3]
  BY DEF Word, Byte
<1>. QED  BY <1>1, <1>2

\* One TLV tiles its bytes.
LEMMA OneTLV ==
    ASSUME NEW b, NEW type, NEW v, IsTLV(b, type, v)
    PROVE  TLVsTile(b)
<1>1. b \in Seq(Nat) /\ Len(b) \in Nat /\ Len(b) = 3 + Word(b, 1)
  BY TLVLength
<1>2. PICK ok : /\ TLVsTile(b) <=> ok[0]
                /\ \A pos \in 0..Len(b) :
                      ok[pos] <=> \/ pos = Len(b)
                                  \/ /\ pos + 3 <= Len(b)
                                     /\ pos + 3 + Word(b, pos + 1) <= Len(b)
                                     /\ ok[pos + 3 + Word(b, pos + 1)]
  BY <1>1, Tiling
<1>3. Word(b, 1) \in Nat
  BY TLVLength
<1>4. ok[Len(b)]
  BY <1>1, <1>2
<1>5. 0 \in 0..Len(b) /\ 0 + 3 <= Len(b) /\ 0 + 3 + Word(b, 0 + 1) = Len(b)
  BY <1>1, <1>3
<1>. QED  BY <1>1, <1>2, <1>4, <1>5

\* Two TLVs, or three, tile their concatenation.
LEMMA ThreeTLVs ==
    ASSUME NEW a, NEW at, NEW av, IsTLV(a, at, av),
           NEW b, NEW bt, NEW bv, IsTLV(b, bt, bv),
           NEW c \in Seq(Nat), c = <<>> \/ \E ct, cv : IsTLV(c, ct, cv)
    PROVE  /\ (a \o b) \o c \in Seq(Nat)
           /\ Len((a \o b) \o c) = Len(a) + Len(b) + Len(c)
           /\ TLVsTile((a \o b) \o c)
<1> DEFINE ab == a \o b
           d == ab \o c
<1>0. PICK x : x = Len(a)
  OBVIOUS
<1>1. /\ a \in Seq(Nat) /\ x \in Nat /\ x >= 3 /\ 3 + Word(a, 1) = x
      /\ b \in Seq(Nat) /\ Len(b) \in Nat /\ Len(b) >= 3
      /\ 3 + Word(b, 1) = Len(b)
      /\ Word(a, 1) \in Nat /\ Word(b, 1) \in Nat
  BY <1>0, TLVLength, Zenon
<1>2. Len(c) \in Nat /\ (c = <<>> => Len(c) = 0)
  OBVIOUS
<1>3. c # <<>> => /\ Len(c) >= 3 /\ 3 + Word(c, 1) = Len(c)
                  /\ Word(c, 1) \in Nat
  BY TLVLength, Zenon
<1>4. IsJoin(ab, a, b)
  BY <1>1, Joined
<1> HIDE DEF ab
<1>20. PICK y : y = Len(ab)
  OBVIOUS
<1>5. /\ ab \in Seq(Nat) /\ y = x + Len(b) /\ y \in Nat
      /\ ab[2] = a[2] /\ ab[3] = a[3]
      /\ ab[x + 2] = b[2] /\ ab[x + 3] = b[3]
  <2>1. 2 \in 1..x /\ 3 \in 1..x /\ 2 \in 1..Len(b) /\ 3 \in 1..Len(b)
    BY <1>1
  <2>2. /\ ab \in Seq(Nat) /\ y = x + Len(b)
        /\ \A k \in 1..x : ab[k] = a[k]
        /\ \A k \in 1..Len(b) : ab[x + k] = b[k]
    BY <1>0, <1>4, <1>20 DEF IsJoin
  <2>3. y \in Nat
    BY <1>1, <2>2
  <2>. QED  BY <2>1, <2>2, <2>3, Zenon
<1>6. IsJoin(d, ab, c)
  BY <1>5, Joined
<1> HIDE DEF d
<1>21. PICK n : n = Len(d)
  OBVIOUS
<1>7. /\ d \in Seq(Nat) /\ n = y + Len(c) /\ n \in Nat
      /\ d[2] = ab[2] /\ d[3] = ab[3] /\ d[x + 2] = ab[x + 2]
      /\ d[x + 3] = ab[x + 3]
      /\ c # <<>> => d[y + 2] = c[2] /\ d[y + 3] = c[3]
  <2>1. 2 \in 1..y /\ 3 \in 1..y /\ x + 2 \in 1..y /\ x + 3 \in 1..y
    <3>1. PICK l \in Nat : l = Len(b) /\ l >= 3
      BY <1>1
    <3>2. y = x + l /\ x \in Nat /\ x >= 3
      BY <1>1, <1>5, <3>1
    <3>. QED  BY <3>1, <3>2
  <2>2. c # <<>> => 2 \in 1..Len(c) /\ 3 \in 1..Len(c)
    BY <1>2, <1>3
  <2>3. /\ d \in Seq(Nat) /\ n = y + Len(c)
        /\ \A k \in 1..y : d[k] = ab[k]
        /\ \A k \in 1..Len(c) : d[y + k] = c[k]
    BY <1>6, <1>20, <1>21 DEF IsJoin
  <2>4. n \in Nat
    <3>1. PICK lc \in Nat : lc = Len(c)
      BY <1>2
    <3>2. y \in Nat
      BY <1>5
    <3>. QED  BY <2>3, <3>1, <3>2
  <2>. QED  BY <2>1, <2>2, <2>3, <2>4, Zenon
<1>8. PICK ok : /\ TLVsTile(d) <=> ok[0]
                /\ \A pos \in 0..n :
                      ok[pos] <=> \/ pos = n
                                  \/ /\ pos + 3 <= n
                                     /\ pos + 3 + Word(d, pos + 1) <= n
                                     /\ ok[pos + 3 + Word(d, pos + 1)]
  BY <1>7, <1>21, Tiling
<1>9. 0 + 3 + Word(d, 0 + 1) = x
  <2>1. Word(d, 1) = Word(a, 1)
    <3>1. Word(d, 1) = d[2] + 256 * d[3] /\ Word(a, 1) = a[2] + 256 * a[3]
      BY DEF Word, Byte
    <3>. QED  BY <1>5, <1>7, <3>1
  <2>. QED  BY <1>1, <2>1
<1>10. x + 3 + Word(d, x + 1) = y
  <2>1. x + 1 + 1 = x + 2 /\ x + 1 + 1 + 1 = x + 3
    BY <1>1
  <2>2. Word(d, x + 1) = Word(b, 1)
    <3>1. /\ Word(d, x + 1) = d[x + 2] + 256 * d[x + 3]
          /\ Word(b, 1) = b[2] + 256 * b[3]
      BY <2>1 DEF Word, Byte
    <3>2. /\ d[x + 2] = b[2] /\ d[x + 3] = b[3]
      BY <1>5, <1>7
    <3>. QED  BY <3>1, <3>2
  <2>3. x + 3 + Word(b, 1) = y
    <3>1. PICK l \in Nat : l = Len(b) /\ l = 3 + Word(b, 1)
      BY <1>1
    <3>2. y = x + l
      BY <1>5, <3>1
    <3>. QED  BY <1>1, <3>1, <3>2
  <2>. QED  BY <2>2, <2>3
<1>11. c # <<>> => y + 3 + Word(d, y + 1) = n /\ y + 3 <= n
  <2>1. y + 1 + 1 = y + 2 /\ y + 1 + 1 + 1 = y + 3
    <3>1. y \in Nat
      BY <1>5
    <3>. QED  BY <3>1
  <2>2. c # <<>> => Word(d, y + 1) = Word(c, 1)
    <3>1. /\ Word(d, y + 1) = d[y + 2] + 256 * d[y + 3]
          /\ Word(c, 1) = c[2] + 256 * c[3]
      BY <2>1 DEF Word, Byte
    <3>2. c # <<>> => d[y + 2] = c[2] /\ d[y + 3] = c[3]
      BY <1>7
    <3>. QED  BY <3>1, <3>2
  <2>3. c # <<>> => y + 3 + Word(c, 1) = n /\ y + 3 <= n
    <3>1. SUFFICES ASSUME c # <<>>
                   PROVE  y + 3 + Word(c, 1) = n /\ y + 3 <= n
      OBVIOUS
    <3>2. PICK l \in Nat : l = Len(c) /\ l = 3 + Word(c, 1) /\ l >= 3
      BY <1>2, <1>3, <3>1
    <3>3. n = y + l /\ Word(c, 1) \in Nat /\ y \in Nat
      BY <1>3, <1>5, <1>7, <3>1, <3>2
    <3>. QED  BY <3>2, <3>3
  <2>. QED  BY <2>2, <2>3
<1>18. PICK lb \in Nat, lc \in Nat :
          lb = Len(b) /\ lc = Len(c) /\ lb >= 3 /\ y = x + lb /\ n = y + lc
  BY <1>1, <1>2, <1>5, <1>7
<1>19. x \in Nat /\ x >= 3 /\ y \in Nat /\ n \in Nat
  BY <1>1, <1>5, <1>7
<1>12. 0 \in 0..n /\ x \in 0..n /\ y \in 0..n /\ n \in 0..n
  BY <1>18, <1>19
<1>13. x <= n /\ y <= n /\ 0 + 3 <= n /\ x + 3 <= n /\ n <= n
  BY <1>18, <1>19
<1>14. ok[n]
  BY <1>8, <1>12
<1>15. ok[y]
  <2>1. CASE c = <<>>
    BY <1>2, <1>5, <1>7, <1>14, <2>1
  <2>2. CASE c # <<>>
    <3>1. y + 3 + Word(d, y + 1) = n /\ y + 3 <= n
      BY <1>11, <2>2
    <3>. QED  BY <1>8, <1>12, <1>13, <1>14, <3>1
  <2>. QED  BY <2>1, <2>2
<1>16. ok[x]
  BY <1>8, <1>10, <1>12, <1>13, <1>15
<1>17. ok[0]
  BY <1>8, <1>9, <1>12, <1>13, <1>16
<1>. QED  BY <1>0, <1>5, <1>7, <1>8, <1>17, <1>21 DEF d, ab

\* A QMICTL request, from its head and tail.
LEMMA CtlFilled ==
    ASSUME NEW r, IsControl(r), NEW id \in Nat, NEW tail \in Seq(Nat),
           Filled(r) = CtlHead(r.number, id, Len(tail)) \o tail,
           Size(r) = 12 + Len(tail), TLVsTile(tail)
    PROVE  IsFilled(r, id, tail)
<1> DEFINE x == <<0, r.number % 256>>
           y == U16(id)
           z == U16(Len(tail))
           xy == x \o y
           head == xy \o z
           f == head \o tail
<1>1. r.number \in Nat /\ r.number % 256 = r.number /\ r.client = QMICTL
  BY Numbers DEF IsControl
<1>2. x \in Seq(Nat) /\ Len(x) = 2 /\ x[2] = r.number
  BY <1>1
<1>3. Len(tail) \in Nat
  OBVIOUS
<1>4. /\ y \in Seq(Nat) /\ Len(y) = 2 /\ y[1] + 256 * y[2] = id
      /\ z \in Seq(Nat) /\ Len(z) = 2 /\ z[1] + 256 * z[2] = Len(tail)
  BY <1>3, WordOfU16
<1>5. Filled(r) = f
  BY DEF CtlHead
<1> HIDE DEF x, y, z
<1>6. IsJoin(xy, x, y)
  BY <1>2, <1>4, Joined
<1> HIDE DEF xy
<1>7. 1 \in 1..2 /\ 2 \in 1..2 /\ 2 \in 1..4 /\ 3 \in 1..4 /\ 4 \in 1..4
  OBVIOUS
<1>8. /\ xy \in Seq(Nat) /\ Len(xy) = 4
      /\ xy[2] = x[2] /\ xy[2 + 1] = y[1] /\ xy[2 + 2] = y[2]
  BY <1>2, <1>4, <1>6, <1>7 DEF IsJoin
<1>9. IsJoin(head, xy, z)
  BY <1>4, <1>8, Joined
<1> HIDE DEF head
<1>10. /\ head \in Seq(Nat) /\ Len(head) = 6
       /\ head[2] = xy[2] /\ head[3] = xy[3] /\ head[4] = xy[4]
       /\ head[4 + 1] = z[1] /\ head[4 + 2] = z[2]
  BY <1>4, <1>7, <1>8, <1>9 DEF IsJoin
<1>11. IsJoin(f, head, tail)
  BY <1>10, Joined
<1> HIDE DEF f
<1>12. 2 \in 1..6 /\ 3 \in 1..6 /\ 4 \in 1..6 /\ 5 \in 1..6 /\ 6 \in 1..6
  OBVIOUS
<1>13. /\ f \in Seq(Nat) /\ Len(f) = 6 + Len(tail)
       /\ f[2] = head[2] /\ f[3] = head[3] /\ f[4] = head[4]
       /\ f[5] = head[5] /\ f[6] = head[6]
       /\ \A k \in 1..Len(tail) : f[6 + k] = tail[k]
  BY <1>10, <1>11, <1>12 DEF IsJoin
<1>14. Framing(r.client) = 6
  BY <1>1 DEF Framing
<1>15. Word(f, 6 - 4) = id /\ Word(f, 6 - 2) = Len(tail)
  <2>1. f[3] + 256 * f[4] = id /\ f[5] + 256 * f[6] = Len(tail)
    BY <1>4, <1>8, <1>10, <1>13
  <2>2. Word(f, 2) = f[3] + 256 * f[4] /\ Word(f, 4) = f[5] + 256 * f[6]
    BY DEF Word, Byte
  <2>3. 6 - 4 = 2 /\ 6 - 2 = 4
    OBVIOUS
  <2>. QED  BY <2>1, <2>2, <2>3
<1>16. f[2] = r.number
  BY <1>2, <1>8, <1>10, <1>13
<1>17. Size(r) = 6 + Len(f)
  BY <1>3, <1>13
<1>. QED  BY <1>1, <1>5, <1>13, <1>14, <1>15, <1>16, <1>17 DEF IsFilled

\* A service's request, from its head and tail.
LEMMA ServiceFilled ==
    ASSUME NEW r, IsService(r), NEW id \in Nat, NEW tail \in Seq(Nat),
           Filled(r) = ServiceHead(r.number, id, Len(tail)) \o tail,
           Size(r) = 13 + Len(tail), TLVsTile(tail)
    PROVE  IsFilled(r, id, tail)
<1> DEFINE v == <<0>>
           x == U16(r.number)
           y == U16(id)
           z == U16(Len(tail))
           vx == v \o x
           xy == vx \o y
           head == xy \o z
           f == head \o tail
<1>1. r.number \in Nat /\ r.client # QMICTL
  BY Numbers DEF IsService
<1>2. v \in Seq(Nat) /\ Len(v) = 1
  OBVIOUS
<1>3. Len(tail) \in Nat
  OBVIOUS
<1>4. /\ x \in Seq(Nat) /\ Len(x) = 2 /\ x[1] + 256 * x[2] = r.number
      /\ y \in Seq(Nat) /\ Len(y) = 2 /\ y[1] + 256 * y[2] = id
      /\ z \in Seq(Nat) /\ Len(z) = 2 /\ z[1] + 256 * z[2] = Len(tail)
  <2>1. x \in Seq(Nat) /\ Len(x) = 2 /\ x[1] + 256 * x[2] = r.number
    BY <1>1, WordOfU16
  <2>2. y \in Seq(Nat) /\ Len(y) = 2 /\ y[1] + 256 * y[2] = id
    BY WordOfU16
  <2>3. z \in Seq(Nat) /\ Len(z) = 2 /\ z[1] + 256 * z[2] = Len(tail)
    BY <1>3, WordOfU16
  <2>. QED  BY <2>1, <2>2, <2>3
<1>5. Filled(r) = f
  BY DEF ServiceHead
<1> HIDE DEF v, x, y, z
<1>6. IsJoin(vx, v, x)
  BY <1>2, <1>4, Joined
<1> HIDE DEF vx
<1>7. /\ 1 \in 1..2 /\ 2 \in 1..2 /\ 2 \in 1..3 /\ 3 \in 1..3
      /\ 2 \in 1..5 /\ 3 \in 1..5 /\ 4 \in 1..5 /\ 5 \in 1..5
  OBVIOUS
<1>8. vx \in Seq(Nat) /\ Len(vx) = 3 /\ vx[1 + 1] = x[1] /\ vx[1 + 2] = x[2]
  BY <1>2, <1>4, <1>6, <1>7 DEF IsJoin
<1>9. IsJoin(xy, vx, y)
  BY <1>4, <1>8, Joined
<1> HIDE DEF xy
<1>10. /\ xy \in Seq(Nat) /\ Len(xy) = 5
       /\ xy[2] = vx[2] /\ xy[3] = vx[3]
       /\ xy[3 + 1] = y[1] /\ xy[3 + 2] = y[2]
  BY <1>4, <1>7, <1>8, <1>9 DEF IsJoin
<1>11. IsJoin(head, xy, z)
  BY <1>4, <1>10, Joined
<1> HIDE DEF head
<1>12. /\ head \in Seq(Nat) /\ Len(head) = 7
       /\ head[2] = xy[2] /\ head[3] = xy[3] /\ head[4] = xy[4] /\ head[5] = xy[5]
       /\ head[5 + 1] = z[1] /\ head[5 + 2] = z[2]
  BY <1>4, <1>7, <1>10, <1>11 DEF IsJoin
<1>13. IsJoin(f, head, tail)
  BY <1>12, Joined
<1> HIDE DEF f
<1>14. /\ 2 \in 1..7 /\ 3 \in 1..7 /\ 4 \in 1..7 /\ 5 \in 1..7 /\ 6 \in 1..7
       /\ 7 \in 1..7
  OBVIOUS
<1>15. /\ f \in Seq(Nat) /\ Len(f) = 7 + Len(tail)
       /\ f[2] = head[2] /\ f[3] = head[3] /\ f[4] = head[4]
       /\ f[5] = head[5] /\ f[6] = head[6] /\ f[7] = head[7]
       /\ \A k \in 1..Len(tail) : f[7 + k] = tail[k]
  BY <1>12, <1>13, <1>14 DEF IsJoin
<1>16. Framing(r.client) = 7
  BY <1>1 DEF Framing
<1>17. Word(f, 7 - 4) = id /\ Word(f, 7 - 2) = Len(tail)
  <2>1. f[4] + 256 * f[5] = id /\ f[6] + 256 * f[7] = Len(tail)
    BY <1>4, <1>10, <1>12, <1>15
  <2>2. Word(f, 3) = f[4] + 256 * f[5] /\ Word(f, 5) = f[6] + 256 * f[7]
    BY DEF Word, Byte
  <2>3. 7 - 4 = 3 /\ 7 - 2 = 5
    OBVIOUS
  <2>. QED  BY <2>1, <2>2, <2>3
<1>18. f[2] + 256 * f[3] = r.number
  BY <1>4, <1>8, <1>10, <1>12, <1>15
<1>19. Size(r) = 6 + Len(f)
  BY <1>3, <1>15
<1>. QED  BY <1>1, <1>5, <1>15, <1>16, <1>17, <1>18, <1>19 DEF IsFilled

\* The heads are sequences of numbers.
LEMMA HeadsAreBytes ==
    ASSUME NEW n \in Nat, NEW id \in Nat, NEW length \in Nat
    PROVE  /\ CtlHead(n, id, length) \in Seq(Nat)
           /\ ServiceHead(n, id, length) \in Seq(Nat)
<1>1. U16(n) \in Seq(Nat) /\ U16(id) \in Seq(Nat) /\ U16(length) \in Seq(Nat)
  BY WordOfU16
<1>2. <<0>> \in Seq(Nat) /\ <<0, n % 256>> \in Seq(Nat)
  OBVIOUS
<1>3. CtlHead(n, id, length) \in Seq(Nat)
  BY <1>1, <1>2 DEF CtlHead
<1>4. ServiceHead(n, id, length) \in Seq(Nat)
  BY <1>1, <1>2 DEF ServiceHead
<1>. QED  BY <1>3, <1>4

\* No tail at all is one without TLVs.
LEMMA EmptyRequest ==
    /\ <<>> \in Seq(Nat) /\ Len(<<>>) = 0 /\ TLVsTile(<<>>)
    /\ \A h \in Seq(Nat) : h \o <<>> = h
<1>1. <<>> \in Seq(Nat) /\ Len(<<>>) = 0
  OBVIOUS
<1>2. \A h \in Seq(Nat) : h \o <<>> = h
  BY ConcatEmptySeq
<1>. QED  BY <1>1, <1>2, NoTLV

\* A type, a length and a value are a TLV.
LEMMA TLVOf ==
    ASSUME NEW type \in Nat, NEW v \in Seq(Nat), NEW length, length = Len(v)
    PROVE  IsTLV((<<type>> \o U16(length)) \o v, type, v)
<1> DEFINE h == <<type>>
           u == U16(length)
           w == h \o u
           b == w \o v
<1>1. length \in Nat
  OBVIOUS
<1>2. u \in Seq(Nat) /\ Len(u) = 2 /\ u[1] + 256 * u[2] = length
  BY <1>1, WordOfU16
<1>3. h \in Seq(Nat) /\ Len(h) = 1 /\ h[1] = type
  OBVIOUS
<1> HIDE DEF h, u
<1>4. IsJoin(w, h, u)
  BY <1>2, <1>3, Joined
<1> HIDE DEF w
<1>5. w \in Seq(Nat) /\ Len(w) = 3 /\ w[1] = type /\ w[2] = u[1] /\ w[3] = u[2]
  <2>1. 1 \in 1..1 /\ 1 \in 1..2 /\ 2 \in 1..2
    OBVIOUS
  <2>2. w[1] = h[1] /\ w[1 + 1] = u[1] /\ w[1 + 2] = u[2]
    BY <1>2, <1>3, <1>4, <2>1 DEF IsJoin
  <2>. QED  BY <1>2, <1>3, <1>4, <2>2 DEF IsJoin
<1>6. IsJoin(b, w, v)
  BY <1>5, Joined
<1> HIDE DEF b
<1>7. /\ b \in Seq(Nat) /\ Len(b) = 3 + Len(v) /\ Len(v) \in Nat
      /\ b[1] = w[1] /\ b[2] = w[2] /\ b[3] = w[3]
      /\ \A k \in 1..Len(v) : b[3 + k] = v[k]
  <2>1. 1 \in 1..3 /\ 2 \in 1..3 /\ 3 \in 1..3
    OBVIOUS
  <2>. QED  BY <1>5, <1>6, <2>1 DEF IsJoin
<1>8. IsTLV(b, type, v)
  BY <1>2, <1>5, <1>7 DEF IsTLV
<1>. QED  BY <1>8 DEF b, w, h, u

\* QMICTLGetClientIDReq fills in one TLV.
LEMMA GetClientFilled ==
    ASSUME NEW r, IsControl(r), r.kind = "getClient"
    PROVE  \E tail : IsFilled(r, 34, tail)
<1> DEFINE v == <<r.of>>
           tail == (<<1>> \o U16(1)) \o v
           head == CtlHead(r.number, 34, 4)
<1>1. r.number \in Nat /\ r.of \in Nat
  BY Numbers DEF IsControl, QMIWDS, QMIDMS, QMIWDA
<1>2. v \in Seq(Nat) /\ Len(v) = 1
  BY <1>1
<1>3. head \in Seq(Nat)
  BY <1>1, HeadsAreBytes
<1>4. Filled(r) = head \o tail
  <2>1. Filled(r) = ((head \o <<1>>) \o U16(1)) \o <<r.of>>
    BY DEF Filled, QMICTLGetClientIDReq
  <2>2. <<1>> \in Seq(Nat) /\ 1 \in Nat /\ U16(1) \in Seq(Nat)
    BY WordOfU16
  <2> HIDE DEF head, v
  <2>3. Filled(r) = ((head \o <<1>>) \o U16(1)) \o v
    BY <2>1 DEF v
  <2> DEFINE x == <<1>>
             y == U16(1)
  <2>4. x \in Seq(Nat) /\ y \in Seq(Nat) /\ tail = (x \o y) \o v
    BY <2>2
  <2>5. Filled(r) = ((head \o x) \o y) \o v
    BY <2>3
  <2> HIDE DEF x, y, tail
  <2>6. Regroups(head, x, y, v)
    BY <1>2, <1>3, <2>4, FourParts
  <2>. QED  BY <2>4, <2>5, <2>6 DEF Regroups
<1> HIDE DEF v
<1>5. IsTLV(tail, 1, v)
  BY <1>2, TLVOf
<1> HIDE DEF tail
<1>6. tail \in Seq(Nat) /\ Len(tail) = 4 /\ TLVsTile(tail)
  <2>1. Len(tail) = 3 + Len(v) /\ tail \in Seq(Nat)
    BY <1>5 DEF IsTLV
  <2>2. TLVsTile(tail)
    BY <1>5, OneTLV
  <2>. QED  BY <1>2, <2>1, <2>2
<1>7. Size(r) = 12 + Len(tail)
  BY <1>6 DEF Size, QMICTLGetClientIDReqSize, QMUXHeaderSize
<1>8. Filled(r) = CtlHead(r.number, 34, Len(tail)) \o tail
  BY <1>4, <1>6
<1>9. 34 \in Nat
  OBVIOUS
<1>. QED  BY <1>6, <1>7, <1>8, <1>9, CtlFilled, Zenon

\* QMICTLReleaseClientIDReq fills in one TLV.
LEMMA ReleaseFilled ==
    ASSUME NEW r, IsControl(r), r.kind = "release"
    PROVE  \E tail : IsFilled(r, 35, tail)
<1> DEFINE v == U16(r.of)
           tail == (<<1>> \o U16(2)) \o v
           head == CtlHead(r.number, 35, 5)
<1>1. r.number \in Nat /\ r.of \in Nat
  BY Numbers DEF IsControl
<1>2. v \in Seq(Nat) /\ Len(v) = 2
  BY <1>1, WordOfU16
<1>3. head \in Seq(Nat)
  BY <1>1, HeadsAreBytes
<1>4. Filled(r) = head \o tail
  <2>1. Filled(r) = ((head \o <<1>>) \o U16(2)) \o v
    BY DEF Filled, QMICTLReleaseClientIDReq
  <2>2. <<1>> \in Seq(Nat) /\ 2 \in Nat /\ U16(2) \in Seq(Nat)
    BY WordOfU16
  <2> DEFINE x == <<1>>
             y == U16(2)
  <2>3. Filled(r) = ((head \o x) \o y) \o v /\ tail = (x \o y) \o v
    BY <2>1
  <2>4. x \in Seq(Nat) /\ y \in Seq(Nat)
    BY <2>2
  <2> HIDE DEF head, v, x, y, tail
  <2>5. Regroups(head, x, y, v)
    BY <1>2, <1>3, <2>4, FourParts
  <2>. QED  BY <2>3, <2>5 DEF Regroups
<1> HIDE DEF v
<1>5. IsTLV(tail, 1, v)
  BY <1>2, TLVOf
<1> HIDE DEF tail
<1>6. tail \in Seq(Nat) /\ Len(tail) = 5 /\ TLVsTile(tail)
  <2>1. Len(tail) = 3 + Len(v) /\ tail \in Seq(Nat)
    BY <1>5 DEF IsTLV
  <2>2. TLVsTile(tail)
    BY <1>5, OneTLV
  <2>. QED  BY <1>2, <2>1, <2>2
<1>7. Size(r) = 12 + Len(tail)
  BY <1>6 DEF Size, QMICTLReleaseClientIDReqSize, QMUXHeaderSize
<1>8. Filled(r) = CtlHead(r.number, 35, Len(tail)) \o tail
  BY <1>4, <1>6
<1>9. 35 \in Nat
  OBVIOUS
<1>. QED  BY <1>6, <1>7, <1>8, <1>9, CtlFilled, Zenon

\* A QMICTL request without TLVs.
LEMMA EmptyControl ==
    ASSUME NEW r, IsControl(r), NEW id \in Nat,
           Filled(r) = CtlHead(r.number, id, 0), Size(r) = 12
    PROVE  \E tail : IsFilled(r, id, tail)
<1>1. CtlHead(r.number, id, 0) \in Seq(Nat)
  <2>1. r.number \in Nat /\ 0 \in Nat
    BY Numbers DEF IsControl
  <2>. QED  BY <2>1, HeadsAreBytes
<1>2. Len(<<>>) = 0 /\ <<>> \in Seq(Nat) /\ TLVsTile(<<>>)
  BY EmptyRequest
<1>3. Filled(r) = CtlHead(r.number, id, Len(<<>>)) \o <<>>
  BY <1>1, <1>2, EmptyRequest
<1>4. Size(r) = 12 + Len(<<>>)
  BY <1>2
<1>. QED  BY <1>2, <1>3, <1>4, CtlFilled, Zenon

\* A service's request without TLVs.
LEMMA EmptyService ==
    ASSUME NEW r, IsService(r), NEW id \in Nat,
           Filled(r) = ServiceHead(r.number, id, 0), Size(r) = 13
    PROVE  \E tail : IsFilled(r, id, tail)
<1>1. ServiceHead(r.number, id, 0) \in Seq(Nat)
  <2>1. r.number \in Nat /\ 0 \in Nat
    BY Numbers DEF IsService
  <2>. QED  BY <2>1, HeadsAreBytes
<1>2. Len(<<>>) = 0 /\ <<>> \in Seq(Nat) /\ TLVsTile(<<>>)
  BY EmptyRequest
<1>3. Filled(r) = ServiceHead(r.number, id, Len(<<>>)) \o <<>>
  BY <1>1, <1>2, EmptyRequest
<1>4. Size(r) = 13 + Len(<<>>)
  BY <1>2
<1>. QED  BY <1>2, <1>3, <1>4, ServiceFilled, Zenon

\* The fillers that add no TLV.
LEMMA EmptyFilled ==
    ASSUME NEW r,
           \/ IsControl(r) /\ r.kind \in {"ready", "sync"}
           \/ IsService(r) /\ r.kind \in {"getStatus", "getMEID"}
    PROVE  \E tail : IsFilled(r, IDOfKind(r.kind), tail)
<1>1. CASE IsControl(r) /\ r.kind \in {"ready", "sync"}
  <2>1. /\ Filled(r) = CtlHead(r.number, IDOfKind(r.kind), 0)
        /\ IDOfKind(r.kind) \in Nat
    BY <1>1 DEF Filled, IDOfKind, QMICTLReadyReq, QMICTLSyncReq
  <2>2. Size(r) = 12
    BY <1>1 DEF Size, QMICTLReadyReqSize, QMICTLSyncReqSize, QMUXHeaderSize
  <2>. QED  BY <1>1, <2>1, <2>2, EmptyControl, Zenon
<1>2. CASE IsService(r) /\ r.kind \in {"getStatus", "getMEID"}
  <2>1. /\ Filled(r) = ServiceHead(r.number, IDOfKind(r.kind), 0)
        /\ IDOfKind(r.kind) \in Nat
    BY <1>2 DEF Filled, IDOfKind, QMIWDSGetPKGSRVCStatusReq, QMIDMSGetMEIDReq
  <2>2. Size(r) = 13
    BY <1>2 DEF Size, QMIWDSGetPKGSRVCStatusReqSize, QMIDMSGetMEIDReqSize,
                QMUXHeaderSize
  <2>. QED  BY <1>2, <2>1, <2>2, EmptyService, Zenon
<1>. QED  BY <1>1, <1>2

\* QMIWDSSetEventReportReq fills in two TLVs.
LEMMA EventsFilled ==
    ASSUME NEW r, IsService(r), r.kind = "setEvents"
    PROVE  \E tail : IsFilled(r, 1, tail)
<1> DEFINE v == <<1, 255, 0, 0, 0>>
           tail == (<<17>> \o U16(5)) \o v
           head == ServiceHead(r.number, 1, 8)
<1>1. r.number \in Nat
  BY Numbers DEF IsService
<1>2. v \in Seq(Nat) /\ Len(v) = 5
  OBVIOUS
<1>3. head \in Seq(Nat)
  BY <1>1, HeadsAreBytes
<1>4. Filled(r) = head \o tail
  <2>1. Filled(r) = ((head \o <<17>>) \o U16(5)) \o v
    BY DEF Filled, QMIWDSSetEventReportReq
  <2>2. <<17>> \in Seq(Nat) /\ 5 \in Nat /\ U16(5) \in Seq(Nat)
    BY WordOfU16
  <2> HIDE DEF head, v
  <2> DEFINE x == <<17>>
             y == U16(5)
  <2>3. Filled(r) = ((head \o x) \o y) \o v /\ tail = (x \o y) \o v
    BY <2>1
  <2>4. x \in Seq(Nat) /\ y \in Seq(Nat)
    BY <2>2
  <2> HIDE DEF x, y, tail
  <2>5. Regroups(head, x, y, v)
    BY <1>2, <1>3, <2>4, FourParts
  <2>. QED  BY <2>3, <2>5 DEF Regroups
<1> HIDE DEF v
<1>5. IsTLV(tail, 17, v)
  BY <1>2, TLVOf
<1> HIDE DEF tail
<1>6. tail \in Seq(Nat) /\ Len(tail) = 8 /\ TLVsTile(tail)
  <2>1. Len(tail) = 3 + Len(v) /\ tail \in Seq(Nat)
    BY <1>5 DEF IsTLV
  <2>2. TLVsTile(tail)
    BY <1>5, OneTLV
  <2>. QED  BY <1>2, <2>1, <2>2
<1>7. Size(r) = 13 + Len(tail)
  BY <1>6 DEF Size, QMIWDSSetEventReportReqSize, QMUXHeaderSize
<1>8. Filled(r) = ServiceHead(r.number, 1, Len(tail)) \o tail
  BY <1>4, <1>6
<1>9. 1 \in Nat
  OBVIOUS
<1>. QED  BY <1>6, <1>7, <1>8, <1>9, ServiceFilled, Zenon

\* QMICTLSetDataFormatReq fills in two TLVs.
LEMMA CtlFormatFilled ==
    ASSUME NEW r, IsControl(r), r.kind = "ctlFormat"
    PROVE  \E tail : IsFilled(r, 38, tail)
<1> DEFINE v == <<0>>
           w == U16(2)
           a == (<<1>> \o U16(1)) \o v
           b == (<<16>> \o U16(2)) \o w
           tail == (a \o b) \o <<>>
           head == CtlHead(r.number, 38, 9)
<1>1. r.number \in Nat
  BY Numbers DEF IsControl
<1>2. v \in Seq(Nat) /\ Len(v) = 1 /\ w \in Seq(Nat) /\ Len(w) = 2
  BY WordOfU16
<1>3. head \in Seq(Nat)
  BY <1>1, HeadsAreBytes
<1>4. Filled(r) = (((((head \o <<1>>) \o U16(1)) \o v) \o <<16>>) \o U16(2)) \o w
  BY DEF Filled, QMICTLSetDataFormatReq
<1>5. /\ <<1>> \in Seq(Nat) /\ U16(1) \in Seq(Nat)
      /\ <<16>> \in Seq(Nat) /\ U16(2) \in Seq(Nat)
  BY WordOfU16
<1> HIDE DEF v, w, head
<1>6. IsTLV(a, 1, v) /\ IsTLV(b, 16, w)
  BY <1>2, TLVOf
<1>7. Filled(r) = (head \o a) \o b
  <2> DEFINE x == <<1>>
             y == U16(1)
             z == <<16>>
             n == U16(2)
  <2>6. /\ x \in Seq(Nat) /\ y \in Seq(Nat) /\ z \in Seq(Nat) /\ n \in Seq(Nat)
    BY <1>5
  <2>7. a = (x \o y) \o v /\ b = (z \o n) \o w
    OBVIOUS
  <2>8. Filled(r) = (((((head \o x) \o y) \o v) \o z) \o n) \o w
    BY <1>4
  <2> HIDE DEF x, y, z, n, a, b
  <2>1. ((head \o x) \o y) \o v = head \o a
    <3>1. Regroups(head, x, y, v)
      BY <1>2, <1>3, <2>6, FourParts
    <3>. QED  BY <2>7, <3>1 DEF Regroups
  <2>2. head \o a \in Seq(Nat)
    BY <1>3, <1>6, ConcatProperties DEF IsTLV
  <2> DEFINE ha == head \o a
  <2>9. ha \in Seq(Nat) /\ ((head \o x) \o y) \o v = ha
    BY <2>1, <2>2
  <2> HIDE DEF ha
  <2>3. ((ha \o z) \o n) \o w = ha \o b
    <3>1. Regroups(ha, z, n, w)
      BY <1>2, <2>6, <2>9, FourParts
    <3>. QED  BY <2>7, <3>1 DEF Regroups
  <2>. QED  BY <2>1, <2>3, <2>8, <2>9 DEF ha
<1> HIDE DEF a, b
<1>8. /\ a \in Seq(Nat) /\ Len(a) = 4 /\ b \in Seq(Nat) /\ Len(b) = 5
  BY <1>2, <1>6 DEF IsTLV
<1>9. <<>> \in Seq(Nat) /\ Len(<<>>) = 0
  OBVIOUS
<1>10. /\ tail \in Seq(Nat) /\ Len(tail) = Len(a) + Len(b) + Len(<<>>)
       /\ TLVsTile(tail)
  BY <1>6, <1>9, ThreeTLVs
<1>11. Filled(r) = head \o tail
  <2>1. (head \o a) \o b = head \o (a \o b)
    <3>1. Regrouped(head, a, b)
      BY <1>3, <1>8, Associative
    <3>. QED  BY <3>1 DEF Regrouped
  <2>2. a \o b \in Seq(Nat)
    BY <1>8, ConcatProperties
  <2>3. tail = a \o b
    BY <2>2, EmptyRequest
  <2>. QED  BY <1>7, <2>1, <2>3
<1> HIDE DEF tail
<1>12. Len(tail) = 9
  BY <1>8, <1>9, <1>10
<1>13. Size(r) = 12 + Len(tail)
  BY <1>12 DEF Size, QMICTLSetDataFormatReqSize, QMUXHeaderSize
<1>14. Filled(r) = CtlHead(r.number, 38, Len(tail)) \o tail
  BY <1>11, <1>12 DEF head
<1>15. 38 \in Nat
  OBVIOUS
<1>. QED  BY <1>10, <1>13, <1>14, <1>15, CtlFilled, Zenon

\* QMIWDASetDataFormatReq fills in three TLVs.
LEMMA FormatFilled ==
    ASSUME NEW r, IsService(r), r.kind = "setFormat"
    PROVE  \E tail : IsFilled(r, 32, tail)
<1> DEFINE u == <<0>>
           v == <<2, 0, 0, 0>>
           w == <<0, 0, 0, 0>>
           a == (<<16>> \o U16(1)) \o u
           b == (<<17>> \o U16(4)) \o v
           c == (<<19>> \o U16(4)) \o w
           tail == (a \o b) \o c
           head == ServiceHead(r.number, 32, 18)
<1>1. r.number \in Nat
  BY Numbers DEF IsService
<1>2. /\ u \in Seq(Nat) /\ Len(u) = 1 /\ v \in Seq(Nat) /\ Len(v) = 4
      /\ w \in Seq(Nat) /\ Len(w) = 4
  OBVIOUS
<1>3. head \in Seq(Nat)
  BY <1>1, HeadsAreBytes
<1>4. Filled(r) =
         ((((((((head \o <<16>>) \o U16(1)) \o u) \o <<17>>) \o U16(4)) \o v)
              \o <<19>>) \o U16(4)) \o w
  BY DEF Filled, QMIWDASetDataFormatReq
<1>5. /\ <<16>> \in Seq(Nat) /\ U16(1) \in Seq(Nat)
      /\ <<17>> \in Seq(Nat) /\ U16(4) \in Seq(Nat) /\ <<19>> \in Seq(Nat)
  BY WordOfU16
<1> HIDE DEF u, v, w, head
<1>6. IsTLV(a, 16, u) /\ IsTLV(b, 17, v) /\ IsTLV(c, 19, w)
  BY <1>2, TLVOf
<1>7. Filled(r) = ((head \o a) \o b) \o c
  <2> DEFINE x == <<16>>
             y == U16(1)
             z == <<17>>
             n == U16(4)
             q == <<19>>
  <2>6. /\ x \in Seq(Nat) /\ y \in Seq(Nat) /\ z \in Seq(Nat) /\ n \in Seq(Nat)
        /\ q \in Seq(Nat)
    BY <1>5
  <2>7. a = (x \o y) \o u /\ b = (z \o n) \o v /\ c = (q \o n) \o w
    OBVIOUS
  <2>8. Filled(r) =
           ((((((((head \o x) \o y) \o u) \o z) \o n) \o v) \o q) \o n) \o w
    BY <1>4
  <2> HIDE DEF x, y, z, n, q, a, b, c
  <2>1. ((head \o x) \o y) \o u = head \o a
    <3>1. Regroups(head, x, y, u)
      BY <1>2, <1>3, <2>6, FourParts
    <3>. QED  BY <2>7, <3>1 DEF Regroups
  <2>2. head \o a \in Seq(Nat)
    BY <1>3, <1>6, ConcatProperties DEF IsTLV
  <2> DEFINE ha == head \o a
  <2>9. ha \in Seq(Nat) /\ ((head \o x) \o y) \o u = ha
    BY <2>1, <2>2
  <2> HIDE DEF ha
  <2>3. ((ha \o z) \o n) \o v = ha \o b
    <3>1. Regroups(ha, z, n, v)
      BY <1>2, <2>6, <2>9, FourParts
    <3>. QED  BY <2>7, <3>1 DEF Regroups
  <2> DEFINE hab == ha \o b
  <2>4. hab \in Seq(Nat) /\ ((ha \o z) \o n) \o v = hab
    BY <1>6, <2>3, <2>9, ConcatProperties DEF IsTLV
  <2> HIDE DEF hab
  <2>5. ((hab \o q) \o n) \o w = hab \o c
    <3>1. Regroups(hab, q, n, w)
      BY <1>2, <2>4, <2>6, FourParts
    <3>. QED  BY <2>7, <3>1 DEF Regroups
  <2>. QED  BY <2>1, <2>3, <2>4, <2>5, <2>8, <2>9 DEF ha, hab
<1> HIDE DEF a, b, c
<1>8. /\ a \in Seq(Nat) /\ Len(a) = 4 /\ b \in Seq(Nat) /\ Len(b) = 7
      /\ c \in Seq(Nat) /\ Len(c) = 7
  BY <1>2, <1>6 DEF IsTLV
<1>9. /\ tail \in Seq(Nat) /\ Len(tail) = Len(a) + Len(b) + Len(c)
      /\ TLVsTile(tail)
  BY <1>6, <1>8, ThreeTLVs
<1>10. Filled(r) = head \o tail
  <2>1. Regroups(head, a, b, c)
    BY <1>3, <1>8, FourParts
  <2>. QED  BY <1>7, <2>1 DEF Regroups
<1> HIDE DEF tail
<1>11. Len(tail) = 18
  BY <1>8, <1>9
<1>12. Size(r) = 13 + Len(tail)
  BY <1>11 DEF Size, QMIWDASetDataFormatReqSize, QMUXHeaderSize
<1>13. Filled(r) = ServiceHead(r.number, 32, Len(tail)) \o tail
  BY <1>10, <1>11 DEF head
<1>14. 32 \in Nat
  OBVIOUS
<1>. QED  BY <1>9, <1>12, <1>13, <1>14, ServiceFilled, Zenon

\* Every filler fills exactly what its size function said.
LEMMA RequestFilled ==
    ASSUME NEW r \in Requests
    PROVE  \E tail : IsFilled(r, IDOfKind(r.kind), tail)
<1>1. CASE IsControl(r) /\ r.kind = "getClient"
  <2>1. IDOfKind(r.kind) = 34
    BY <1>1 DEF IDOfKind
  <2>. QED  BY <1>1, <2>1, GetClientFilled
<1>2. CASE IsControl(r) /\ r.kind = "release"
  <2>1. IDOfKind(r.kind) = 35
    BY <1>2 DEF IDOfKind
  <2>. QED  BY <1>2, <2>1, ReleaseFilled
<1>3. CASE IsControl(r) /\ r.kind = "ctlFormat"
  <2>1. IDOfKind(r.kind) = 38
    BY <1>3 DEF IDOfKind
  <2>. QED  BY <1>3, <2>1, CtlFormatFilled
<1>4. CASE IsService(r) /\ r.kind = "setEvents"
  <2>1. IDOfKind(r.kind) = 1
    BY <1>4 DEF IDOfKind
  <2>. QED  BY <1>4, <2>1, EventsFilled
<1>5. CASE IsService(r) /\ r.kind = "setFormat"
  <2>1. IDOfKind(r.kind) = 32
    BY <1>5 DEF IDOfKind
  <2>. QED  BY <1>5, <2>1, FormatFilled
<1>6. CASE \/ IsControl(r) /\ r.kind \in {"ready", "sync"}
           \/ IsService(r) /\ r.kind \in {"getStatus", "getMEID"}
  BY <1>6, EmptyFilled
<1>7. \/ IsControl(r) /\ r.kind \in {"getClient", "release", "ctlFormat", "ready", "sync"}
      \/ IsService(r) /\ r.kind \in {"setEvents", "setFormat", "getStatus", "getMEID"}
  BY RequestsAre DEF IsControl, IsService, CtlKinds
<1>. QED  BY <1>1, <1>2, <1>3, <1>4, <1>5, <1>6, <1>7

\* FillQMUX: six bytes with the length and the client.
LEMMA HeaderIs ==
    ASSUME NEW client \in Nat, NEW size \in Nat, size # 0
    PROVE  /\ FillQMUX(client, size) \in Seq(Nat)
           /\ Len(FillQMUX(client, size)) = 6
           /\ FillQMUX(client, size)[1] = 1 /\ FillQMUX(client, size)[4] = 0
           /\ FillQMUX(client, size)[2] + 256 * FillQMUX(client, size)[3]
                = size - 1
           /\ FillQMUX(client, size)[5] + 256 * FillQMUX(client, size)[6]
                = client
<1> DEFINE u == U16(size - 1)
           low == client % 256
           high == client \div 256
           x == <<1>>
           z == <<0, low, high>>
           xs == x \o u
           head == xs \o z
<1>1. head = FillQMUX(client, size)
  BY DEF FillQMUX
<1>2. /\ u \in Seq(Nat) /\ Len(u) = 2 /\ u[1] + 256 * u[2] = size - 1
      /\ u[1] \in Nat /\ u[2] \in Nat
  <2> DEFINE n == size - 1
  <2>1. n \in Nat
    OBVIOUS
  <2> HIDE DEF n
  <2>. QED  BY <2>1, WordOfU16 DEF n
<1>3. low \in Nat /\ high \in Nat /\ low + 256 * high = client
  OBVIOUS
<1> HIDE DEF u, low, high
<1>4. /\ x \in Seq(Nat) /\ Len(x) = 1 /\ x[1] = 1
      /\ z \in Seq(Nat) /\ Len(z) = 3 /\ z[1] = 0 /\ z[2] = low /\ z[3] = high
  BY <1>3
<1> HIDE DEF x, z
<1>5. IsJoin(xs, x, u)
  BY <1>2, <1>4, Joined
<1>6. /\ 1 \in 1..1 /\ 1 \in 1..2 /\ 2 \in 1..2
      /\ 1 \in 1..3 /\ 2 \in 1..3 /\ 3 \in 1..3
  OBVIOUS
<1> HIDE DEF xs
<1>7. /\ xs \in Seq(Nat) /\ Len(xs) = 3
      /\ xs[1] = 1 /\ xs[1 + 1] = u[1] /\ xs[1 + 2] = u[2]
  BY <1>2, <1>4, <1>5, <1>6 DEF IsJoin
<1>8. IsJoin(head, xs, z)
  BY <1>4, <1>7, Joined
<1> HIDE DEF head
<1>9. /\ head \in Seq(Nat) /\ Len(head) = 6
      /\ head[1] = xs[1] /\ head[2] = xs[2] /\ head[3] = xs[3]
      /\ head[3 + 1] = z[1] /\ head[3 + 2] = z[2] /\ head[3 + 3] = z[3]
  BY <1>4, <1>6, <1>7, <1>8 DEF IsJoin
<1>10. head[1] = 1 /\ head[4] = 0
  BY <1>4, <1>7, <1>9
<1>11. head[2] + 256 * head[3] = size - 1
  <2>1. head[2] = u[1] /\ head[3] = u[2]
    BY <1>7, <1>9
  <2>. QED  BY <1>2, <2>1
<1>12. head[5] + 256 * head[6] = client
  <2>1. head[5] = low /\ head[6] = high
    BY <1>4, <1>9
  <2>. QED  BY <1>3, <2>1
<1>. QED  BY <1>1, <1>9, <1>10, <1>11, <1>12

\* A request's bytes on the wire, and what they are made of.
Framed(r) == FillQMUX(r.client, Size(r)) \o Filled(r)

IsFramed(w, r) ==
    LET idAt == IF r.client = QMICTL THEN 8 ELSE 9 IN
    /\ Len(w) = Size(r)
    /\ Byte(w, 0) = 1 /\ Byte(w, 3) = 0
    /\ Word(w, 1) = Len(w) - 1
    /\ Word(w, 4) = r.client
    /\ (IF r.client = QMICTL THEN Byte(w, 7) ELSE Word(w, 7)) = r.number
    /\ Word(w, idAt) = IDOfKind(r.kind)
    /\ Word(w, idAt + 2) = Len(From(w, idAt + 4))
    /\ TLVsTile(From(w, idAt + 4))

\* A request has a client and a number.
LEMMA ClientIs ==
    ASSUME NEW r \in Requests
    PROVE  r.client \in Nat /\ r.number \in Nat
<1>1. CASE IsControl(r)
  BY <1>1, Numbers DEF IsControl, QMICTL
<1>2. CASE IsService(r)
  BY <1>2, Numbers DEF IsService
<1>. QED  BY <1>1, <1>2, RequestsAre

\* A request on the wire: header, head and TLVs fit into one another.
LEMMA WireIs ==
    ASSUME NEW r \in Requests
    PROVE  IsFramed(Framed(r), r)
<1> DEFINE f == Filled(r)
           h == Framing(r.client)
           head == FillQMUX(r.client, Size(r))
           w == head \o f
<1>1. PICK tail : IsFilled(r, IDOfKind(r.kind), tail)
  BY RequestFilled
<1>2. /\ f \in Seq(Nat) /\ tail \in Seq(Nat)
      /\ Len(f) = h + Len(tail) /\ Size(r) = 6 + Len(f)
      /\ (IF r.client = QMICTL THEN f[2] ELSE f[2] + 256 * f[3]) = r.number
      /\ Word(f, h - 4) = IDOfKind(r.kind) /\ Word(f, h - 2) = Len(tail)
      /\ \A k \in 1..Len(tail) : f[h + k] = tail[k]
      /\ TLVsTile(tail)
  BY <1>1 DEF IsFilled
<1>3. h \in 6..7 /\ (h = 6 <=> r.client = QMICTL) /\ r.client \in Nat
  BY ClientIs DEF Framing
<1>4. w = Framed(r)
  BY DEF Framed
<1> HIDE DEF f, h
<1>5. PICK m \in Nat : m = Len(tail)
  BY <1>2
<1>6. Len(f) = h + m /\ Len(f) \in Nat /\ Size(r) = 6 + (h + m) /\ Size(r) \in Nat /\ Size(r) # 0
  BY <1>2, <1>3, <1>5
<1>7. /\ head \in Seq(Nat) /\ Len(head) = 6 /\ head[1] = 1 /\ head[4] = 0
      /\ head[2] + 256 * head[3] = Size(r) - 1
      /\ head[5] + 256 * head[6] = r.client
  <2> DEFINE client == r.client
             size == Size(r)
  <2>1. client \in Nat /\ size \in Nat /\ size # 0
    BY <1>3, <1>6
  <2> HIDE DEF client, size
  <2>2. /\ FillQMUX(client, size) \in Seq(Nat)
        /\ Len(FillQMUX(client, size)) = 6
        /\ FillQMUX(client, size)[1] = 1 /\ FillQMUX(client, size)[4] = 0
        /\ FillQMUX(client, size)[2] + 256 * FillQMUX(client, size)[3]
                = size - 1
        /\ FillQMUX(client, size)[5] + 256 * FillQMUX(client, size)[6]
                = client
    BY <2>1, HeaderIs
  <2>. QED  BY <2>2 DEF client, size
<1> HIDE DEF head
<1>8. IsJoin(w, head, f)
  BY <1>2, <1>7, Joined
<1> HIDE DEF w
<1>9. /\ w \in Seq(Nat) /\ Len(w) = 6 + Len(f)
      /\ \A k \in 1..6 : w[k] = head[k]
      /\ \A k \in 1..Len(f) : w[6 + k] = f[k]
  BY <1>7, <1>8 DEF IsJoin
<1>10. /\ w[1] = 1 /\ w[4] = 0
       /\ w[2] + 256 * w[3] = Len(w) - 1
       /\ w[5] + 256 * w[6] = r.client
  <2>1. 1 \in 1..6 /\ 2 \in 1..6 /\ 3 \in 1..6 /\ 4 \in 1..6 /\ 5 \in 1..6 /\ 6 \in 1..6
    OBVIOUS
  <2>2. Len(w) = Size(r)
    BY <1>2, <1>9
  <2>3. /\ w[1] = head[1] /\ w[2] = head[2] /\ w[3] = head[3]
        /\ w[4] = head[4] /\ w[5] = head[5] /\ w[6] = head[6]
    BY <1>9, <2>1
  <2>. QED  BY <1>7, <2>2, <2>3
<1>11. \A k \in 1..6 : w[6 + k] = f[k]
  <2>1. PICK n \in Nat : n = Len(f)
    BY <1>6
  <2>2. n >= 6
    BY <1>3, <1>5, <1>6, <2>1
  <2>3. \A k \in 1..6 : k \in 1..n
    BY <2>1, <2>2
  <2>. QED  BY <1>9, <2>1, <2>3
<1>12. /\ w[6 + 2] = f[2] /\ w[6 + 3] = f[3] /\ w[6 + 4] = f[4]
       /\ w[6 + 5] = f[5] /\ w[6 + 6] = f[6]
       /\ (h = 7 => w[6 + 7] = f[7])
  <2>1. /\ w[6 + 2] = f[2] /\ w[6 + 3] = f[3] /\ w[6 + 4] = f[4]
        /\ w[6 + 5] = f[5] /\ w[6 + 6] = f[6]
    BY <1>11
  <2>2. h = 7 => 7 \in 1..Len(f)
    BY <1>5, <1>6
  <2>3. h = 7 => w[6 + 7] = f[7]
    BY <1>9, <2>2
  <2>. QED  BY <2>1, <2>3
<1>13. From(w, 6 + h) = tail
  <2> DEFINE p == 6 + h
  <2>1. p \in Nat /\ Len(w) = p + Len(tail)
    BY <1>3, <1>5, <1>6, <1>9
  <2>2. ASSUME NEW k \in 1..Len(tail)
        PROVE  w[p + k] = tail[k]
    <3>1. h + k \in 1..Len(f) /\ p + k = 6 + (h + k)
      BY <1>3, <1>5, <1>6
    <3>2. w[6 + (h + k)] = f[h + k]
      BY <1>9, <3>1
    <3>. QED  BY <1>2, <3>1, <3>2
  <2> HIDE DEF p
  <2>3. From(w, p) = tail
    BY <1>2, <1>9, <2>1, <2>2, FromIs
  <2>. QED  BY <2>3 DEF p
<1>14. /\ Len(w) = Size(r)
       /\ Byte(w, 0) = 1 /\ Byte(w, 3) = 0
       /\ Word(w, 1) = Len(w) - 1 /\ Word(w, 4) = r.client
  BY <1>2, <1>9, <1>10 DEF Byte, Word
<1>15. CASE h = 6
  <2>1. /\ 6 - 4 = 2 /\ 6 - 2 = 4
        /\ f[3] + 256 * f[4] = Word(f, 2) /\ f[5] + 256 * f[6] = Word(f, 4)
    BY DEF Word, Byte
  <2>2. /\ w[9] + 256 * w[10] = IDOfKind(r.kind)
        /\ w[11] + 256 * w[12] = Len(tail)
        /\ w[8] = r.number
    <3>1. /\ Word(f, 2) = IDOfKind(r.kind) /\ Word(f, 4) = Len(tail)
          /\ f[2] = r.number
      BY <1>2, <1>3, <1>15, <2>1
    <3>. QED  BY <1>12, <2>1, <3>1
  <2>3. From(w, 12) = tail
    BY <1>13, <1>15
  <2>4. Word(w, 8) = w[9] + 256 * w[10] /\ Word(w, 10) = w[11] + 256 * w[12]
        /\ Byte(w, 7) = w[8]
    BY DEF Word, Byte
  <2>5. 8 + 2 = 10 /\ 8 + 4 = 12
    OBVIOUS
  <2>6. TLVsTile(From(w, 12)) /\ Len(From(w, 12)) = Len(tail)
    BY <1>2, <2>3
  <2>7. r.client = QMICTL
    BY <1>3, <1>15
  <2>8. IsFramed(w, r)
    BY <1>14, <2>2, <2>4, <2>5, <2>6, <2>7 DEF IsFramed
  <2>. QED  BY <1>4, <2>8
<1>16. CASE h = 7
  <2>1. /\ 7 - 4 = 3 /\ 7 - 2 = 5
        /\ f[4] + 256 * f[5] = Word(f, 3) /\ f[6] + 256 * f[7] = Word(f, 5)
    BY DEF Word, Byte
  <2>2. /\ w[10] + 256 * w[11] = IDOfKind(r.kind)
        /\ w[12] + 256 * w[13] = Len(tail)
        /\ w[8] + 256 * w[9] = r.number
    <3>1. Word(f, 3) = IDOfKind(r.kind) /\ Word(f, 5) = Len(tail)
      BY <1>2, <1>16, <2>1
    <3>2. r.client # QMICTL
      BY <1>3, <1>16
    <3>3. f[2] + 256 * f[3] = r.number
      BY <1>2, <3>2
    <3>. QED  BY <1>12, <1>16, <2>1, <3>1, <3>3
  <2>3. From(w, 13) = tail
    BY <1>13, <1>16
  <2>4. Word(w, 9) = w[10] + 256 * w[11] /\ Word(w, 11) = w[12] + 256 * w[13]
        /\ Word(w, 7) = w[8] + 256 * w[9]
    BY DEF Word, Byte
  <2>5. 9 + 2 = 11 /\ 9 + 4 = 13
    OBVIOUS
  <2>6. TLVsTile(From(w, 13)) /\ Len(From(w, 13)) = Len(tail)
    BY <1>2, <2>3
  <2>7. r.client # QMICTL
    BY <1>3, <1>16
  <2>8. IsFramed(w, r)
    BY <1>14, <2>2, <2>4, <2>5, <2>6, <2>7 DEF IsFramed
  <2>. QED  BY <1>4, <2>8
<1>. QED  BY <1>3, <1>15, <1>16

\* No two requests of a service have an ID in common.
LEMMA IDsDiffer ==
    ASSUME NEW r \in Requests, NEW q \in Requests, q.kind # r.kind,
           ServiceOf(q.client) = ServiceOf(r.client)
    PROVE  IDOfKind(q.kind) # IDOfKind(r.kind)
<1>1. IsControl(r) \/ IsService(r)
  BY RequestsAre
<1>2. IsControl(q) \/ IsService(q)
  BY RequestsAre
<1>3. ASSUME NEW s, IsControl(s)
      PROVE  /\ ServiceOf(s.client) = 0 /\ s.kind \in CtlKinds
  BY <1>3 DEF IsControl, ServiceOf, QMICTL
<1>4. ASSUME NEW s, IsService(s)
      PROVE  \/ ServiceOf(s.client) = 1 /\ s.kind \in {"setEvents", "getStatus"}
             \/ ServiceOf(s.client) = 2 /\ s.kind = "getMEID"
             \/ ServiceOf(s.client) = 26 /\ s.kind = "setFormat"
  BY <1>4 DEF IsService, QMIWDS, QMIDMS, QMIWDA
<1>5. \/ r.kind \in CtlKinds /\ q.kind \in CtlKinds
      \/ r.kind \in {"setEvents", "getStatus"} /\ q.kind \in {"setEvents", "getStatus"}
      \/ r.kind = q.kind
  BY <1>1, <1>2, <1>3, <1>4
<1>. QED  BY <1>5 DEF IDOfKind, CtlKinds

\* QMICTL is no other service's client.
LEMMA ServicesDiffer ==
    ASSUME NEW r \in Requests, NEW q \in Requests,
           ServiceOf(q.client) = ServiceOf(r.client)
    PROVE  q.client = QMICTL <=> r.client = QMICTL
<1>1. ASSUME NEW s \in Requests
      PROVE  s.client = QMICTL <=> ServiceOf(s.client) = 0
  <2>1. CASE IsControl(s)
    BY <2>1 DEF IsControl, ServiceOf, QMICTL
  <2>2. CASE IsService(s)
    <3>1. ServiceOf(s.client) # 0
      BY <2>2 DEF IsService, QMIWDS, QMIDMS, QMIWDA
    <3>2. s.client # QMICTL
      BY <3>1 DEF ServiceOf, QMICTL
    <3>. QED  BY <3>1, <3>2
  <2>. QED  BY <2>1, <2>2, RequestsAre
<1>. QED  BY <1>1

\* A request's ID is at the same place for all clients of a service.
LEMMA FilledID ==
    ASSUME NEW q \in Requests
    PROVE  Word(Filled(q), (IF q.client = QMICTL THEN 8 ELSE 9) - 6) = IDOfKind(q.kind)
<1>1. PICK tail : IsFilled(q, IDOfKind(q.kind), tail)
  BY RequestFilled
<1>2. Word(Filled(q), Framing(q.client) - 4) = IDOfKind(q.kind)
  BY <1>1 DEF IsFilled
<1>3. 6 - 4 = 2 /\ 7 - 4 = 3 /\ 8 - 6 = 2 /\ 9 - 6 = 3
  OBVIOUS
<1>. QED  BY <1>2, <1>3 DEF Framing

\* What is seen is there.
LEMMA SeenInside ==
    ASSUME NEW tlvs \in Seq(TLVSet), NEW i \in DOMAIN Seen(tlvs)
    PROVE  i \in DOMAIN tlvs
<1>1. CASE Seen(tlvs) = tlvs
  BY <1>1
<1>2. CASE tlvs # <<>> /\ Seen(tlvs) = Front(tlvs)
  <2>1. PICK n \in Nat : n = Len(tlvs) /\ n # 0 /\ DOMAIN tlvs = 1..n
    BY <1>2
  <2>2. Front(tlvs) = SubSeq(tlvs, 1, n - 1)
    BY <2>1 DEF Front
  <2>3. n - 1 \in Nat /\ n - 1 <= Len(tlvs)
    BY <2>1
  <2> DEFINE m == n - 1
             s == SubSeq(tlvs, 1, m)
  <2>4. m \in Nat /\ m <= Len(tlvs) /\ \A k \in 1..m : k \in 1..n
    BY <2>1, <2>3
  <2> HIDE DEF m
  <2>5. s \in Seq(TLVSet) /\ Len(s) = m
    BY <2>4, FrontOf
  <2> HIDE DEF s
  <2>6. DOMAIN s = 1..m
    BY <2>5
  <2>. QED  BY <1>2, <2>1, <2>2, <2>4, <2>6 DEF s, m
<1>. QED  BY <1>1, <1>2 DEF Seen

\* The device's first TLV of a type is the value the answer says.
LEMMA FirstIsSaid ==
    ASSUME NEW a, Told(a), NEW type
    PROVE  FirstOf(a.tlvs, type, 4) = Said(a, type, 4, 4)
<1> DEFINE first(k) == /\ a.tlvs[k].type = type
                       /\ \A j \in 1..(k - 1) : a.tlvs[j].type # type
                       /\ Len(a.tlvs[k].value) = 4
<1>1. a.tlvs \in Seq(TLVSet) /\ a.tlvs \in Seq(TLVs)
  BY DEF Told, Sayable
<1>2. DOMAIN a.tlvs = 1..Len(a.tlvs) /\ Len(a.tlvs) \in Nat
  BY <1>1
<1>3. ASSUME NEW v
      PROVE  v \in FirstOf(a.tlvs, type, 4)
                <=> \E i \in DOMAIN a.tlvs : first(i) /\ a.tlvs[i].value = v
  BY DEF FirstOf
<1>4. ASSUME NEW v, NEW i \in DOMAIN a.tlvs, first(i), a.tlvs[i].value = v
      PROVE  v \in Said(a, type, 4, 4)
  <2>1. a.tlvs[i] \in TLVSet /\ a.tlvs[i] \in TLVs
    BY <1>1, <1>4
  <2>2. a.tlvs[i] = [type |-> type, value |-> v]
    BY <1>4, <2>1 DEF TLVSet
  <2>3. Len(v) = 4 /\ v \in Values
    BY <1>4, <2>1 DEF Values
  <2>4. i \in DOMAIN Seen(a.tlvs)
    <3>1. i \in 1..Len(a.tlvs) /\ Len(a.tlvs[i].value) # 0
      BY <1>2, <1>4
    <3>. QED  BY <1>1, <3>1, SeenAre
  <2>5. Says(a, type, 4, v)
    <3>1. Len(v) <= 4
      BY <2>3
    <3>. QED  BY <1>4, <2>2, <2>4, <3>1 DEF Says
  <2>. QED  BY <2>3, <2>5 DEF Said
<1>5. ASSUME NEW v, v \in Said(a, type, 4, 4)
      PROVE  \E i \in DOMAIN a.tlvs : first(i) /\ a.tlvs[i].value = v
  <2>1. Len(v) = 4 /\ Says(a, type, 4, v)
    BY <1>5 DEF Said
  <2>2. PICK i \in DOMAIN Seen(a.tlvs) :
           /\ a.tlvs[i] = [type |-> type, value |-> v]
           /\ \A j \in 1..(i - 1) : a.tlvs[j].type # type
    BY <2>1 DEF Says
  <2>3. i \in DOMAIN a.tlvs
    BY <1>1, <1>2, <2>2, SeenInside
  <2>. QED  BY <2>1, <2>2, <2>3
<1> HIDE DEF first
<1>. QED  BY <1>3, <1>4, <1>5

\* The device reads its own answer as the driver does.
LEMMA MeansToDevice ==
    ASSUME NEW a, Told(a)
    PROVE  /\ Misread(a.tlvs) \/ (Succeeds(a.tlvs) <=> ReadCode(a) = 0)
           /\ SaysRawIP(a.tlvs) <=> /\ Said(a, 17, 4, 4) # {}
                                    /\ Meant(Said(a, 17, 4, 4))[1] = 2
<1>1. ASSUME NEW type
      PROVE  Said(a, type, 4, 4) = {} \/ \E v : Said(a, type, 4, 4) = {v}
  <2>1. Tells(a, type, 4, GetTLV(Sdu(a), type, 4))
    BY GetTLVIsTold DEF Told
  <2>. QED  BY <2>1, SaidOfLength
<1>2. Misread(a.tlvs) \/ (Succeeds(a.tlvs) <=> ReadCode(a) = 0)
  <2> DEFINE S == Said(a, 2, 4, 4)
  <2>1. Succeeds(a.tlvs) <=> \E v \in S : v[1] = 0 /\ v[2] = 0
    BY FirstIsSaid DEF Succeeds
  <2>2. ReadCode(a) = IF S = {} THEN ENOMSG
                  ELSE IF Meant(S)[1] = 0 /\ Meant(S)[2] = 0 THEN 0
                  ELSE Meant(S)[3]
    BY DEF ReadCode
  <2>3. Misread(a.tlvs) <=> \E v \in S : ~(v[1] = 0 /\ v[2] = 0) /\ v[3] = 0
    BY FirstIsSaid DEF Misread
  <2> HIDE DEF S
  <2>4. CASE S = {}
    BY <2>1, <2>2, <2>4 DEF ENOMSG
  <2>5. CASE \E v : S = {v}
    <3>1. PICK v : S = {v}
      BY <2>5
    <3>2. Meant(S) = v /\ S # {} /\ v \in S
      BY <3>1, MeantIs
    <3>3. ReadCode(a) = IF v[1] = 0 /\ v[2] = 0 THEN 0 ELSE v[3]
      BY <2>2, <3>2
    <3>4. Succeeds(a.tlvs) <=> v[1] = 0 /\ v[2] = 0
      BY <2>1, <3>1
    <3>5. Misread(a.tlvs) <=> ~(v[1] = 0 /\ v[2] = 0) /\ v[3] = 0
      BY <2>3, <3>1
    <3>. QED  BY <3>3, <3>4, <3>5
  <2>. QED  BY <1>1, <2>4, <2>5 DEF S
<1>3. SaysRawIP(a.tlvs) <=> /\ Said(a, 17, 4, 4) # {}
                            /\ Meant(Said(a, 17, 4, 4))[1] = 2
  <2> DEFINE S == Said(a, 17, 4, 4)
  <2>1. SaysRawIP(a.tlvs) <=> \E v \in S : v[1] = 2
    BY FirstIsSaid DEF SaysRawIP
  <2>2. S = {} \/ \E v : S = {v}
    BY <1>1
  <2> HIDE DEF S
  <2>3. SaysRawIP(a.tlvs) <=> S # {} /\ Meant(S)[1] = 2
    BY <2>1, <2>2, MeantIs
  <2>. QED  BY <2>3 DEF S
<1>. QED  BY <1>2, <1>3

\* A code that is no misread one is read well enough.
LEMMA CodeReadable ==
    ASSUME NEW a, Told(a), ~Misread(a.tlvs)
    PROVE  Readable(a)
<1> DEFINE S == Said(a, 2, 4, 4)
<1>1. Tells(a, 2, 4, GetTLV(Sdu(a), 2, 4))
  BY GetTLVIsTold DEF Told
<1>2. S = {} \/ \E v : S = {v}
  BY <1>1, SaidOfLength
<1>3. ~\E v \in S : ~(v[1] = 0 /\ v[2] = 0) /\ v[3] = 0
  BY FirstIsSaid DEF Misread
<1>4. \A v \in S : Len(v) = 4 /\ v \in Values
  BY DEF Said
<1>5. /\ Code(a) = IF S = {} THEN ENOMSG
                    ELSE IF Meant(S)[1] = 0 /\ Meant(S)[2] = 0 THEN 0
                    ELSE Meant(S)[3] + 256 * Meant(S)[4]
      /\ ReadCode(a) = IF S = {} THEN ENOMSG
                       ELSE IF Meant(S)[1] = 0 /\ Meant(S)[2] = 0 THEN 0
                       ELSE Meant(S)[3]
  BY CodeIs DEF ReadCode
<1> HIDE DEF S
<1>6. CASE S = {}
  BY <1>5, <1>6 DEF Readable
<1>7. CASE \E v : S = {v}
  <2>1. PICK v : S = {v}
    BY <1>7
  <2>2. Meant(S) = v /\ S # {} /\ v \in S
    BY <2>1, MeantIs
  <2>3. v \in Seq(0..255) /\ Len(v) = 4
    <3>1. PICK t \in TLVs : v = t.value
      BY <1>4, <2>2 DEF Values
    <3>2. t \in TLVSet
      BY AnswersFit DEF TLVSet
    <3>. QED  BY <1>4, <2>2, <3>1, <3>2, TLVIs
  <2>4. v[3] \in Nat /\ v[4] \in Nat
    <3>1. 3 \in 1..Len(v) /\ 4 \in 1..Len(v)
      BY <2>3
    <3>2. v[3] \in 0..255 /\ v[4] \in 0..255
      BY <2>3, <3>1, ElementOfSeq
    <3>3. \A z \in 0..255 : z \in Nat
      OBVIOUS
    <3>. QED  BY <3>2, <3>3, Zenon
  <2>5. (v[1] = 0 /\ v[2] = 0) \/ v[3] # 0
    BY <1>3, <2>2
  <2> DEFINE x == v[3]
             y == v[4]
  <2>6. CASE v[1] = 0 /\ v[2] = 0
    BY <1>5, <2>2, <2>6 DEF Readable
  <2>7. CASE ~(v[1] = 0 /\ v[2] = 0)
    <3>1. Code(a) = x + 256 * y /\ ReadCode(a) = x /\ x # 0
      BY <1>5, <2>2, <2>5, <2>7
    <3>2. x \in Nat /\ y \in Nat
      BY <2>4
    <3> HIDE DEF x, y
    <3>3. x + 256 * y # 0 /\ (x + 256 * y < 256 => x + 256 * y = x)
      BY <3>1, <3>2
    <3>. QED  BY <3>1, <3>3 DEF Readable
  <2>. QED  BY <2>6, <2>7
<1>. QED  BY <1>2, <1>6, <1>7

\* What a caller of a WDS client's callback waits for.
Waits == [kind : {"wait"}, client : {c \in Clients : ServiceOf(c) = QMIWDS},
          number : {0}, of : {0}]

\* The invariant's parts. An indication is there as soon as it is waited for.
AskedInv ==
    \/ asked = Nothing
    \/ asked \in Requests
    \/ asked \in Waits /\ answer # Nothing
\* The wire has the request's bytes.
WireInv == wire = IF asked \in Requests THEN Framed(asked) ELSE <<>>
\* The reply is the answer, to the client and number asked for.
AnswerInv ==
    answer # Nothing =>
        /\ asked # Nothing
        /\ Told(answer)
        /\ reply = Message(asked.client, asked.number, answer)
\* What was heard is what was asked for.
HeardInv ==
    heard # Nothing =>
        /\ answer # Nothing
        /\ heard = [client |-> asked.client, number |-> asked.number]
\* Driver and device agree, or the answer that makes them is under way.
FormatInv ==
    /\ deviceRawIP \in BOOLEAN
    /\ misread \in BOOLEAN
    /\ \/ misread
       \/ IF asked.kind = "setFormat" /\ answer # Nothing
          THEN deviceRawIP <=> QMIWDASetDataFormatResp(reply) = 2
          ELSE mbRawIPMode = deviceRawIP
ExchangeInv == AskedInv /\ WireInv /\ AnswerInv /\ HeardInv /\ FormatInv

\* An indication, a request and nothing are told apart by kind.
LEMMA KindsAre ==
    /\ \A r \in Requests : r.kind # "wait" /\ r.kind # "nothing"
    /\ \A r \in Waits : /\ r.kind = "wait" /\ r.client \in Clients
                        /\ r.number = 0
    /\ Nothing \notin Requests /\ Nothing \notin Waits
    /\ \A r \in Waits : r \notin Requests
    /\ Nothing.kind = "nothing"
<1>1. ASSUME NEW r \in Requests PROVE r.kind # "wait" /\ r.kind # "nothing"
  <2>1. CASE IsControl(r)
    BY <2>1 DEF IsControl, CtlKinds
  <2>2. CASE IsService(r)
    BY <2>2 DEF IsService
  <2>. QED  BY <2>1, <2>2, RequestsAre
<1>2. ASSUME NEW r \in Waits
      PROVE  r.kind = "wait" /\ r.client \in Clients /\ r.number = 0
  BY <1>2 DEF Waits
<1>3. Nothing.kind = "nothing"
  BY DEF Nothing
<1>. QED  BY <1>1, <1>2, <1>3

\* What is under way has a client and a number.
LEMMA AskedIs ==
    ASSUME asked \in Requests \/ asked \in Waits
    PROVE  asked.client \in Nat /\ asked.number \in Nat
<1>1. CASE asked \in Requests
  BY <1>1, ClientIs
<1>2. CASE asked \in Waits
  BY <1>2, KindsAre, Numbers
<1>. QED  BY <1>1, <1>2

\* An answer is something, and has one of its IDs.
LEMMA AnswersAre ==
    ASSUME NEW ids \in SUBSET Nat, NEW a \in Answers(ids)
    PROVE  Told(a) /\ a # Nothing /\ a.id \in ids
<1>1. a.kind = "answer"
  BY DEF Answers
<1>2. a # Nothing
  BY <1>1 DEF Nothing
<1>. QED  BY <1>2, AnswersAreSayable DEF Told

\* What the device says of its format is what the driver reads.
LEMMA FormatAgreed ==
    ASSUME NEW r \in Requests, r.kind = "setFormat", NEW a, Told(a)
    PROVE  \/ a.id = 32 /\ Misread(a.tlvs) /\ SaysRawIP(a.tlvs)
           \/ QMIWDASetDataFormatResp(Message(r.client, r.number, a)) = 2
              <=> a.id = 32 /\ Succeeds(a.tlvs) /\ SaysRawIP(a.tlvs)
<1> DEFINE b == Message(r.client, r.number, a)
<1>1. r.client \in Nat /\ r.number \in Nat
  BY ClientIs
<1>2. r.client # QMICTL
  <2>1. ~IsControl(r)
    BY DEF IsControl, CtlKinds
  <2>. QED  BY <2>1, RequestsAre, Numbers DEF IsService
<1>3. IsReply(b, r.client, r.number, a)
  BY <1>1, MessageIs DEF Told
<1> DEFINE S == Said(a, 17, 4, 4)
<1>4. QMIWDASetDataFormatResp(b) = IF a.id # 32 THEN EFAULT
                                   ELSE IF ReadCode(a) # 0 \/ S = {} THEN 0
                                   ELSE Meant(S)[1]
  BY <1>1, <1>2, <1>3, FormatUnderstood
<1>5. /\ Misread(a.tlvs) \/ (Succeeds(a.tlvs) <=> ReadCode(a) = 0)
      /\ SaysRawIP(a.tlvs) <=> S # {} /\ Meant(S)[1] = 2
  BY MeansToDevice
<1> HIDE DEF S, b
<1>6. \/ a.id = 32 /\ Misread(a.tlvs) /\ SaysRawIP(a.tlvs)
      \/ QMIWDASetDataFormatResp(b) = 2
         <=> a.id = 32 /\ Succeeds(a.tlvs) /\ SaysRawIP(a.tlvs)
  <2>1. CASE a.id # 32
    BY <1>4, <2>1 DEF EFAULT
  <2>2. CASE a.id = 32 /\ (ReadCode(a) # 0 \/ S = {})
    BY <1>4, <1>5, <2>2
  <2>3. CASE a.id = 32 /\ ReadCode(a) = 0 /\ S # {}
    BY <1>4, <1>5, <2>3
  <2>. QED  BY <2>1, <2>2, <2>3
<1>. QED  BY <1>6 DEF b

\* Every step keeps the invariant.
LEMMA ExchangeStep == ExchangeInv /\ [Next]_vars => ExchangeInv'
<1>1. SUFFICES ASSUME ExchangeInv, [Next]_vars PROVE ExchangeInv'
  OBVIOUS
<1>2. ASSUME NEW r \in Requests, WriteSync(r) PROVE ExchangeInv'
  <2>1. /\ asked = Nothing /\ asked' = r /\ wire' = Framed(r)
        /\ answer' = Nothing /\ heard' = Nothing
        /\ mbRawIPMode' = mbRawIPMode /\ deviceRawIP' = deviceRawIP
        /\ misread' = misread
    BY <1>2 DEF WriteSync, Framed
  <2>2. /\ misread \/ mbRawIPMode = deviceRawIP
        /\ misread \in BOOLEAN /\ deviceRawIP \in BOOLEAN
    BY <1>1, <2>1, KindsAre DEF ExchangeInv, FormatInv
  <2>3. AskedInv'
    BY <2>1 DEF AskedInv
  <2>4. WireInv'
    BY <2>1 DEF WireInv
  <2>5. AnswerInv' /\ HeardInv'
    BY <2>1 DEF AnswerInv, HeardInv
  <2>6. FormatInv'
    BY <2>1, <2>2 DEF FormatInv
  <2>. QED  BY <2>3, <2>4, <2>5, <2>6 DEF ExchangeInv
<1>3. CASE DeviceAnswers
  <2>1. PICK a \in Answers({IDOf(asked), 34}) :
          /\ answer' = a
          /\ reply' = Message(asked.client, asked.number, a)
          /\ deviceRawIP' =
                IF asked.kind = "setFormat" /\ a.id = IDOf(asked)
                THEN Succeeds(a.tlvs) /\ SaysRawIP(a.tlvs)
                ELSE IF asked.kind = "setFormat" THEN FALSE
                ELSE deviceRawIP
          /\ misread' = IF asked.kind = "setFormat"
                        THEN /\ a.id = IDOf(asked)
                             /\ Misread(a.tlvs) /\ SaysRawIP(a.tlvs)
                        ELSE misread
    BY <1>3 DEF DeviceAnswers
  <2>2. /\ asked # Nothing /\ answer = Nothing /\ asked' = asked
        /\ wire' = wire /\ heard' = heard /\ mbRawIPMode' = mbRawIPMode
    BY <1>3 DEF DeviceAnswers
  <2>3. asked \in Requests /\ wire = Framed(asked) /\ heard = Nothing
    BY <1>1, <2>2 DEF ExchangeInv, AskedInv, WireInv, HeardInv
  <2>4. IDOf(asked) = IDOfKind(asked.kind)
    BY <2>3, WireIs DEF IsFramed, IDOf
  <2>5. IDOf(asked) \in Nat
    <3>1. asked.kind \in CtlKinds \cup {"setEvents", "getStatus", "getMEID", "setFormat"}
      BY <2>3, RequestsAre DEF IsControl, IsService
    <3>. QED  BY <2>4, <3>1 DEF IDOfKind, CtlKinds
  <2>6. Told(a) /\ a # Nothing
    <3>1. {IDOf(asked), 34} \in SUBSET Nat
      BY <2>5
    <3>. QED  BY <2>1, <3>1, AnswersAre
  <2>7. AskedInv' /\ WireInv'
    BY <2>2, <2>3 DEF AskedInv, WireInv
  <2>8. AnswerInv' /\ HeardInv'
    BY <2>1, <2>2, <2>3, <2>6 DEF AnswerInv, HeardInv
  <2>9. FormatInv'
    <3>1. CASE asked.kind = "setFormat"
      <4>1. IDOf(asked) = 32
        BY <2>4, <3>1 DEF IDOfKind
      <4>2. deviceRawIP' \in BOOLEAN /\ misread' \in BOOLEAN
        BY <2>1, <3>1 DEF Succeeds, SaysRawIP, Misread
      <4>3. deviceRawIP' <=> a.id = 32 /\ Succeeds(a.tlvs) /\ SaysRawIP(a.tlvs)
        BY <2>1, <3>1, <4>1, Zenon
      <4>4. misread' <=> a.id = 32 /\ Misread(a.tlvs) /\ SaysRawIP(a.tlvs)
        BY <2>1, <3>1, <4>1, Zenon
      <4>5. misread' \/ (deviceRawIP' <=> QMIWDASetDataFormatResp(reply') = 2)
        BY <2>1, <2>3, <2>6, <3>1, <4>3, <4>4, FormatAgreed
      <4>. QED  BY <2>1, <2>2, <2>6, <3>1, <4>2, <4>5 DEF FormatInv
    <3>2. CASE asked.kind # "setFormat"
      <4>1. deviceRawIP' = deviceRawIP /\ misread' = misread
        BY <2>1, <3>2
      <4>2. /\ misread \/ mbRawIPMode = deviceRawIP
            /\ misread \in BOOLEAN /\ deviceRawIP \in BOOLEAN
        BY <1>1, <3>2 DEF ExchangeInv, FormatInv
      <4>. QED  BY <2>2, <3>2, <4>1, <4>2 DEF FormatInv
    <3>. QED  BY <3>1, <3>2
  <2>. QED  BY <2>7, <2>8, <2>9 DEF ExchangeInv
<1>4. CASE DeviceIndicates
  <2>1. PICK a \in Answers({1, 34}), c \in Clients :
          /\ ServiceOf(c) = QMIWDS
          /\ asked' = [kind |-> "wait", client |-> c, number |-> 0, of |-> 0]
          /\ answer' = a
          /\ reply' = Message(c, 0, a)
    BY <1>4 DEF DeviceIndicates
  <2>2. /\ asked = Nothing /\ answer = Nothing
        /\ wire' = wire /\ heard' = heard
        /\ mbRawIPMode' = mbRawIPMode /\ deviceRawIP' = deviceRawIP
        /\ misread' = misread
    BY <1>4 DEF DeviceIndicates
  <2>3. Told(a) /\ a # Nothing
    <3>1. {1, 34} \in SUBSET Nat
      OBVIOUS
    <3>. QED  BY <2>1, <3>1, AnswersAre
  <2>4. asked' \in Waits
    BY <2>1 DEF Waits
  <2>5. asked' \notin Requests /\ asked' # Nothing
    BY <2>4, KindsAre
  <2>6. wire = <<>> /\ heard = Nothing
    BY <1>1, <2>2, KindsAre DEF ExchangeInv, WireInv, HeardInv
  <2>7. AskedInv' /\ WireInv'
    BY <2>1, <2>2, <2>3, <2>4, <2>5, <2>6 DEF AskedInv, WireInv
  <2>8. AnswerInv'
    BY <2>1, <2>3, <2>5 DEF AnswerInv
  <2>9. HeardInv'
    BY <2>2, <2>6 DEF HeardInv
  <2>10. FormatInv'
    <3>1. /\ misread \/ mbRawIPMode = deviceRawIP
          /\ misread \in BOOLEAN /\ deviceRawIP \in BOOLEAN
      BY <1>1, <2>2, KindsAre DEF ExchangeInv, FormatInv
    <3>. QED  BY <2>1, <2>2, <3>1 DEF FormatInv
  <2>. QED  BY <2>7, <2>8, <2>9, <2>10 DEF ExchangeInv
<1>5. CASE ReadCallback
  <2>1. /\ answer # Nothing
        /\ heard' = [client |-> ParseQMUX(reply).clientID,
                     number |-> TransactionID(reply)]
        /\ UNCHANGED <<asked, wire, answer, reply, mbRawIPMode, deviceRawIP,
                       misread>>
    BY <1>5 DEF ReadCallback
  <2>2. /\ asked \in Requests \/ asked \in Waits
        /\ Told(answer) /\ reply = Message(asked.client, asked.number, answer)
    BY <1>1, <2>1 DEF ExchangeInv, AskedInv, AnswerInv
  <2>3. IsReply(reply, asked.client, asked.number, answer)
    BY <2>2, AskedIs, MessageIs DEF Told
  <2>4. /\ ParseQMUX(reply) = [result |-> 6, clientID |-> asked.client]
        /\ TransactionID(reply) = asked.number
    BY <2>2, <2>3, AskedIs, ParsedIs
  <2>5. HeardInv'
    BY <2>1, <2>4 DEF HeardInv
  <2>6. AskedInv' /\ WireInv' /\ AnswerInv' /\ FormatInv'
    BY <1>1, <2>1 DEF ExchangeInv, AskedInv, WireInv, AnswerInv, FormatInv
  <2>. QED  BY <2>5, <2>6 DEF ExchangeInv
<1>6. ASSUME NEW result, Done(result), deviceRawIP' = deviceRawIP,
             misread' = misread,
             \/ asked.kind # "setFormat" /\ mbRawIPMode' = mbRawIPMode
             \/ /\ asked.kind = "setFormat"
                /\ mbRawIPMode' = (QMIWDASetDataFormatResp(reply) = 2)
      PROVE  ExchangeInv'
  <2>1. /\ heard # Nothing /\ asked' = Nothing /\ answer' = Nothing
        /\ heard' = Nothing /\ wire' = <<>>
    BY <1>6 DEF Done
  <2>2. answer # Nothing
    BY <1>1, <2>1 DEF ExchangeInv, HeardInv
  <2>3. /\ misread \/ mbRawIPMode' = deviceRawIP
        /\ misread \in BOOLEAN /\ deviceRawIP \in BOOLEAN
    <3>1. CASE asked.kind # "setFormat" /\ mbRawIPMode' = mbRawIPMode
      BY <1>1, <3>1 DEF ExchangeInv, FormatInv
    <3>2. CASE /\ asked.kind = "setFormat"
               /\ mbRawIPMode' = (QMIWDASetDataFormatResp(reply) = 2)
      BY <1>1, <2>2, <3>2 DEF ExchangeInv, FormatInv
    <3>. QED  BY <1>6, <3>1, <3>2
  <2>4. AskedInv' /\ WireInv'
    BY <2>1, KindsAre DEF AskedInv, WireInv
  <2>5. AnswerInv' /\ HeardInv'
    BY <2>1 DEF AnswerInv, HeardInv
  <2>6. FormatInv'
    BY <1>6, <2>1, <2>3 DEF FormatInv
  <2>. QED  BY <2>4, <2>5, <2>6 DEF ExchangeInv
<1>7. CASE GetClientID
  BY <1>6, <1>7 DEF GetClientID
<1>8. CASE ReleaseClientID
  BY <1>6, <1>8 DEF ReleaseClientID
<1>9. CASE QMICTLSyncProc
  BY <1>6, <1>9 DEF QMICTLSyncProc
<1>10. CASE QMIReady
  BY <1>6, <1>10 DEF QMIReady
<1>11. CASE QMIDMSGetMEID
  BY <1>6, <1>11 DEF QMIDMSGetMEID
<1>12. CASE QMIWDASetDataFormat
  BY <1>6, <1>12 DEF QMIWDASetDataFormat
<1>13. CASE QMIWDSCallback
  BY <1>6, <1>13 DEF QMIWDSCallback
<1>14. CASE UNCHANGED vars
  BY <1>1, <1>14
  DEF vars, ExchangeInv, AskedInv, WireInv, AnswerInv, HeardInv, FormatInv
<1>. QED
  BY <1>1, <1>2, <1>3, <1>4, <1>5, <1>7, <1>8, <1>9, <1>10, <1>11, <1>12,
     <1>13, <1>14
  DEF Next

\* Whatever is asked: the bytes on the wire are those of the request, the
\* bytes of the reply those of the answer, ReadCallback has heard it under the
\* request's client and number, and driver and device agree on the format but
\* while its answer is under way.
THEOREM ExchangeInvariant == Spec => []ExchangeInv
<1>1. Init => ExchangeInv
  BY KindsAre
  DEF Init, ExchangeInv, AskedInv, WireInv, AnswerInv, HeardInv, FormatInv
<1>. QED  BY <1>1, ExchangeStep, PTL DEF Spec

\* The invariant keeps the request on the wire well-formed.
LEMMA WellFormed == ExchangeInv => RequestsWellFormed
<1>1. SUFFICES ASSUME ExchangeInv, wire # <<>> PROVE RequestsWellFormed
  BY DEF RequestsWellFormed
<1>2. asked \in Requests /\ wire = Framed(asked)
  BY <1>1 DEF ExchangeInv, WireInv
<1>3. IsFramed(wire, asked)
  BY <1>2, WireIs
<1> DEFINE idAt == IF asked.client = QMICTL THEN 8 ELSE 9
<1>4. ASSUME NEW r \in Requests, ServiceOf(r.client) = ServiceOf(asked.client),
             r.kind # asked.kind
      PROVE  Word(Filled(r), idAt - 6) # Word(wire, idAt)
  <2>1. Word(wire, idAt) = IDOfKind(asked.kind)
    BY <1>3 DEF IsFramed
  <2>2. IDOfKind(r.kind) # IDOfKind(asked.kind)
    BY <1>2, <1>4, IDsDiffer
  <2>3. r.client = QMICTL <=> asked.client = QMICTL
    BY <1>2, <1>4, ServicesDiffer
  <2>4. Word(Filled(r), idAt - 6) = IDOfKind(r.kind)
    BY <2>3, FilledID
  <2>. QED  BY <2>1, <2>2, <2>4
<1>. QED  BY <1>3, <1>4 DEF RequestsWellFormed, IsFramed

\* Every request WriteSync puts on the wire is well-formed: its buffer is as
\* long as its size function said, its three kinds of lengths agree, client,
\* number and ID stand in their places, and the ID is the request's own.
THEOREM RequestsAreWellFormed == Spec => []RequestsWellFormed
BY ExchangeInvariant, WellFormed, PTL

\* The reply that was heard answers what is under way.
LEMMA AnswerIs ==
    ASSUME ExchangeInv, heard # Nothing
    PROVE  /\ asked \in Requests \/ asked \in Waits
           /\ Told(answer)
           /\ IsReply(reply, asked.client, asked.number, answer)
           /\ asked.client \in Nat
           /\ heard = [client |-> asked.client, number |-> asked.number]
<1>1. /\ asked \in Requests \/ asked \in Waits
      /\ Told(answer) /\ reply = Message(asked.client, asked.number, answer)
      /\ heard = [client |-> asked.client, number |-> asked.number]
  BY DEF ExchangeInv, AskedInv, AnswerInv, HeardInv
<1>2. asked.client \in Nat /\ asked.number \in Nat
  BY <1>1, AskedIs
<1>3. IsReply(reply, asked.client, asked.number, answer)
  BY <1>1, <1>2, MessageIs DEF Told
<1>. QED  BY <1>1, <1>2, <1>3

\* QMICTL's requests and no others have its client ID.
LEMMA AskedOf ==
    ASSUME asked \in Requests \/ asked \in Waits
    PROVE  asked.client = QMICTL <=> asked.kind \in CtlKinds
<1>1. CASE asked \in Requests
  <2>1. CASE IsControl(asked)
    BY <2>1 DEF IsControl
  <2>2. CASE IsService(asked)
    BY <2>2, Numbers DEF IsService, CtlKinds
  <2>. QED  BY <1>1, <2>1, <2>2, RequestsAre
<1>2. CASE asked \in Waits
  BY <1>2, KindsAre, Numbers DEF CtlKinds
<1>. QED  BY <1>1, <1>2

\* The step AnswersUnderstood speaks of.
Understood ==
    heard # Nothing /\ heard' = Nothing =>
         /\ heard = [client |-> asked.client, number |-> asked.number]
         /\ asked.kind \in {"setEvents", "getStatus", "wait"} =>
                MeansStatus(answer, got', bLinkState)
         /\ ~Misread(answer.tlvs) =>
                CASE asked.kind = "getClient" -> MeansGetClient(answer, got')
                  [] asked.kind = "release" ->
                       got'.result = IF Good(answer, 35) THEN 0 ELSE EFAULT
                  [] asked.kind = "sync" -> MeansSync(answer, got')
                  [] asked.kind = "getMEID" -> MeansMEID(answer, got')
                  [] asked.kind = "setFormat" -> MeansFormat(answer, got')
                  [] OTHER -> TRUE

\* A caller's step takes what the answer says.
LEMMA StepUnderstood == ExchangeInv /\ [Next]_vars => [Understood]_vars
<1>1. SUFFICES ASSUME ExchangeInv, Next, heard # Nothing, heard' = Nothing
               PROVE  Understood
  BY DEF Understood
<1>2. /\ asked \in Requests \/ asked \in Waits
      /\ Told(answer)
      /\ IsReply(reply, asked.client, asked.number, answer)
      /\ asked.client \in Nat
      /\ heard = [client |-> asked.client, number |-> asked.number]
  BY <1>1, AnswerIs
<1>3. asked.client = QMICTL <=> asked.kind \in CtlKinds
  BY <1>2, AskedOf
<1>4. asked # Nothing
  BY <1>2, KindsAre
<1>5. ASSUME NEW r \in Requests, WriteSync(r) PROVE Understood
  BY <1>4, <1>5 DEF WriteSync
<1>6. CASE DeviceAnswers
  BY <1>1, <1>6 DEF DeviceAnswers
<1>7. CASE DeviceIndicates
  BY <1>1, <1>7 DEF DeviceIndicates
<1>8. CASE ReadCallback
  BY <1>1, <1>8 DEF ReadCallback
<1>9. CASE GetClientID
  <2>1. asked.kind = "getClient" /\ got' = QMICTLGetClientIDResp(reply)
    BY <1>9 DEF GetClientID, Done
  <2>2. asked.client = QMICTL
    BY <1>3, <2>1 DEF CtlKinds
  <2>3. ~Misread(answer.tlvs) => MeansGetClient(answer, got')
    BY <1>2, CodeReadable, <2>1, <2>2, GetClientUnderstood
  <2>. QED  BY <1>2, <2>1, <2>3 DEF Understood
<1>10. CASE ReleaseClientID
  <2>1. /\ asked.kind = "release"
        /\ got'.result = QMICTLReleaseClientIDResp(reply)
    BY <1>10 DEF ReleaseClientID, Done
  <2>2. asked.client = QMICTL
    BY <1>3, <2>1 DEF CtlKinds
  <2>3. ~Misread(answer.tlvs) =>
            got'.result = IF Good(answer, 35) THEN 0 ELSE EFAULT
    BY <1>2, CodeReadable, <2>1, <2>2, ReleaseUnderstood
  <2>. QED  BY <1>2, <2>1, <2>3 DEF Understood
<1>11. CASE QMICTLSyncProc
  <2>1. asked.kind = "sync" /\ got'.result = QMICTLSyncResp(reply)
    BY <1>11 DEF QMICTLSyncProc, Done
  <2>2. asked.client = QMICTL
    BY <1>3, <2>1 DEF CtlKinds
  <2>3. ~Misread(answer.tlvs) => MeansSync(answer, got')
    BY <1>2, CodeReadable, <2>1, <2>2, ReleaseUnderstood
  <2>. QED  BY <1>2, <2>1, <2>3 DEF Understood
<1>12. CASE QMIReady
  BY <1>2, <1>12 DEF QMIReady, Understood
<1>13. CASE QMIDMSGetMEID
  <2>1. /\ asked.kind = "getMEID"
        /\ got' = IF QMIDMSGetMEIDResp(reply).result < 0
                  THEN [QMIDMSGetMEIDResp(reply) EXCEPT !.meid = [i \in 1..14 |-> 48]]
                  ELSE QMIDMSGetMEIDResp(reply)
    BY <1>13 DEF QMIDMSGetMEID, Done
  <2>2. asked.client # QMICTL
    BY <1>3, <2>1 DEF CtlKinds
  <2>3. ~Misread(answer.tlvs) => MeansMEID(answer, got')
    BY <1>2, CodeReadable, <2>1, <2>2, MEIDUnderstood
  <2>. QED  BY <1>2, <2>1, <2>3 DEF Understood
<1>14. CASE QMIWDASetDataFormat
  <2>1. /\ asked.kind = "setFormat"
        /\ got'.result = QMIWDASetDataFormatResp(reply)
    BY <1>14 DEF QMIWDASetDataFormat, Done
  <2>2. asked.client # QMICTL
    BY <1>3, <2>1 DEF CtlKinds
  <2>3. ~Misread(answer.tlvs) => MeansFormat(answer, got')
    BY <1>2, CodeReadable, <2>1, <2>2, FormatUnderstood
  <2>. QED  BY <1>2, <2>1, <2>3 DEF Understood
<1>15. CASE QMIWDSCallback
  <2>1. /\ asked.kind \in {"setEvents", "getStatus", "wait"}
        /\ got' = QMIWDSEventResp(reply, bLinkState, FALSE)
    BY <1>15 DEF QMIWDSCallback, Done
  <2>2. asked.client # QMICTL
    BY <1>3, <2>1 DEF CtlKinds
  <2>3. MeansStatus(answer, got', bLinkState)
    BY <1>2, <2>1, <2>2, StatusUnderstood
  <2>. QED  BY <1>2, <2>1, <2>3 DEF Understood
<1>. QED
  BY <1>1, <1>5, <1>6, <1>7, <1>8, <1>9, <1>10, <1>11, <1>12, <1>13, <1>14,
     <1>15
  DEF Next

\* Every answer is heard under the client and the number of its request, and
\* every caller (QMICTLGetClientIDResp to QMIWDSEventResp) gets what the answer
\* says, whatever TLVs it is made of, in whatever order, of whatever length, but
\* for the second byte of an error code and for the refusals it is misread in.
THEOREM AnswersAreUnderstood == Spec => AnswersUnderstood
<1>1. ExchangeInv /\ [Next]_vars => [Understood]_vars
  BY StepUnderstood
<1>. QED
  BY <1>1, ExchangeInvariant, PTL DEF Spec, AnswersUnderstood, Understood

\* Where driver and device agree on the format, a packet makes it there and
\* back.
LEMMA FramesFit ==
    ASSUME NEW raw \in BOOLEAN, mbRawIPMode = raw, deviceRawIP = raw
    PROVE  FramesFollowFormat
<1> DEFINE proto(version) == IF version = 4 THEN ETH_P_IP ELSE ETH_P_IPV6
           sent(version) == [header |-> [dest |-> 32, source |-> DevAddr,
                                         proto |-> proto(version)],
                             payload |-> <<16 * version + 5, 1>>,
                             length |-> ShortestPacket]
           out(version) == GobiNetDriverTxFixup(raw, sent(version))
           echo(version) == Echo(out(version), proto(version))
           in(version) == GobiNetDriverRxFixup(raw, echo(version))
           fits(version) == /\ (out(version).header = NoHeader) = raw
                            /\ in(version).payload = sent(version).payload
                            /\ in(version).length = sent(version).length
                            /\ in(version).header # NoHeader
                            /\ in(version).header.dest = DevAddr
                            /\ in(version).header.proto = proto(version)
<1>1. ASSUME NEW version \in {4, 6} PROVE fits(version)
  <2>1. sent(version).header # NoHeader
    BY DEF NoHeader, ETH_P_IP, ETH_P_IPV6
  <2>2. CASE raw
    <3>1. out(version) = [header |-> NoHeader, payload |-> <<16 * version + 5, 1>>,
                          length |-> ShortestPacket]
      BY <2>1, <2>2 DEF GobiNetDriverTxFixup
    <3>2. echo(version) = out(version)
      BY <2>2 DEF Echo
    <3>3. FirstByte(echo(version)) = 16 * version + 5
      BY <3>1, <3>2 DEF FirstByte
    <3>4. FirstByte(echo(version)) \div 16 = version
      BY <3>3
    <3> DEFINE e == echo(version)
               p == proto(version)
               payload == <<16 * version + 5, 1>>
               head == [dest |-> DevAddr, source |-> 0, proto |-> p]
    <3>5. e = [header |-> NoHeader, payload |-> payload, length |-> ShortestPacket]
      BY <3>1, <3>2
    <3>13. ~(FrameLength(e) < ETH_HLEN)
      BY <3>5 DEF FrameLength, ShortestPacket, ETH_HLEN
    <3>6. FirstByte(e) \div 16 = version
      BY <3>4
    <3> HIDE DEF e, payload
    <3>7. GobiNetDriverRxFixup(raw, e) = [e EXCEPT !.header = head]
      <4>1. CASE version = 4
        BY <2>2, <3>6, <3>13, <4>1 DEF GobiNetDriverRxFixup
      <4>2. CASE version = 6
        BY <2>2, <3>6, <3>13, <4>2 DEF GobiNetDriverRxFixup
      <4>. QED  BY <4>1, <4>2
    <3> HIDE DEF head
    <3>8. GobiNetDriverRxFixup(raw, e) = [header |-> head, payload |-> payload,
                                          length |-> ShortestPacket]
      BY <3>5, <3>7
    <3>9. /\ in(version).header = head /\ in(version).payload = payload
          /\ in(version).length = ShortestPacket
      BY <3>8 DEF e
    <3>10. out(version).header = NoHeader
      BY <3>1
    <3>11. /\ head.dest = DevAddr /\ head.proto = p
           /\ p \in {"ip", "ipv6"}
      BY DEF head, ETH_P_IP, ETH_P_IPV6
    <3>12. head # NoHeader
      BY <3>11 DEF NoHeader
    <3> HIDE DEF p, in, out
    <3>. QED  BY <2>2, <3>9, <3>10, <3>11, <3>12 DEF payload, p
  <2>3. CASE ~raw
    <3>1. out(version) = sent(version)
      BY <2>3 DEF GobiNetDriverTxFixup
    <3>2. echo(version) = [header |-> [dest |-> DevAddr, source |-> 32,
                                       proto |-> proto(version)],
                           payload |-> <<16 * version + 5, 1>>,
                           length |-> ShortestPacket]
      BY <2>3, <3>1 DEF Echo
    <3>3. in(version) = echo(version)
      BY <2>3 DEF GobiNetDriverRxFixup
    <3>. QED  BY <2>1, <2>3, <3>1, <3>2, <3>3 DEF NoHeader, ETH_P_IP, ETH_P_IPV6
  <2>. QED  BY <2>2, <2>3
<1>. QED  BY <1>1 DEF FramesFollowFormat

\* Once no request is under way the interface's frames have the form the
\* device uses, and a packet sent back reaches the stack as it was
\* (GobiNetDriverTxFixup, GobiNetDriverRxFixup).
THEOREM FramesHaveTheFormat == Spec => []FramesFollowFormat
<1>1. ASSUME ExchangeInv, asked = Nothing, ~misread PROVE FramesFollowFormat
  <2>1. mbRawIPMode = deviceRawIP /\ deviceRawIP \in BOOLEAN
    BY <1>1, KindsAre DEF ExchangeInv, FormatInv
  <2>. QED  BY <2>1, FramesFit
<1>2. ASSUME ExchangeInv PROVE FramesFollowFormat
  <2>1. CASE asked = Nothing /\ ~misread
    BY <1>1, <1>2, <2>1
  <2>2. CASE ~(asked = Nothing /\ ~misread)
    BY <2>2 DEF FramesFollowFormat
  <2>. QED  BY <2>1, <2>2
<1>. QED  BY <1>2, ExchangeInvariant, PTL
=============================================================================
