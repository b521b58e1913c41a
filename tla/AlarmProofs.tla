------------------------------- MODULE AlarmProofs ------------------------------
(***************************************************************************)
(* Proofs about the two processes that live by an alarm(2) of their own:   *)
(* ottcast's loop with the timers of its clients (EvTimers), and the       *)
(* announcer (Ssdp, in the last part).  They share nothing else.           *)
(***************************************************************************)
EXTENDS EvTimers, Ssdp, SequenceTheorems, FiniteSetTheorems, WellFoundedInduction, TLAPS

-----------------------------------------------------------------------------
(* Lists *)

\* Induction over the natural numbers, as a fact about a set: a number outside it that is
\* the least would have a predecessor inside.
LEMMA Induction ==
  ASSUME NEW S \in SUBSET Nat, 0 \in S, \A n \in S : n + 1 \in S
  PROVE  S = Nat
<1> SUFFICES ASSUME Nat \ S # {} PROVE FALSE
  OBVIOUS
<1>1. PICK n \in Nat \ S : \A m \in Nat \ S : ~(<<m, n>> \in OpToRel(<, Nat))
  <2> HIDE DEF OpToRel
  <2> QED BY NatLessThanWellFounded, WFMin
<1>2. n # 0 /\ n - 1 \in Nat
  OBVIOUS
<1>3. n - 1 \in S
  <2>1. n - 1 < n
    BY <1>2
  <2> QED
  BY <1>1, <1>2, <2>1 DEF OpToRel
<1> QED
  BY <1>2, <1>3

\* A set of places has a greatest one.
LEMMA Greatest ==
  ASSUME NEW m \in Nat, NEW I \in SUBSET (1 .. m), I # {}
  PROVE  Max(I) \in I /\ \A i \in I : i <= Max(I)
<1> DEFINE P(k) == \A J \in SUBSET (1 .. k) : J # {} => \E x \in J : \A y \in J : y <= x
           S == {k \in Nat : P(k)}
<1>1. P(0)
  <2>1. 1 .. 0 = {}
    OBVIOUS
  <2> QED
    BY <2>1
<1>2. ASSUME NEW k \in Nat, P(k) PROVE P(k + 1)
  <2> SUFFICES ASSUME NEW J \in SUBSET (1 .. k + 1), J # {} PROVE \E x \in J : \A y \in J : y <= x
    OBVIOUS
  <2>1. CASE k + 1 \in J
    BY <2>1
  <2>2. CASE k + 1 \notin J
    <3>1. J \in SUBSET (1 .. k)
      BY <2>2
    <3> QED
      BY <1>2, <3>1
  <2> QED
    BY <2>1, <2>2
<1>3. S = Nat
  <2> HIDE DEF P
  <2>1. S \in SUBSET Nat /\ 0 \in S /\ \A k \in S : k + 1 \in S
    BY <1>1, <1>2
  <2> HIDE DEF S
  <2> QED
    BY <2>1, Induction
<1>4. \E x \in I : \A y \in I : y <= x
  BY <1>3
<1> QED
  BY <1>4 DEF Max


\* A sequence that is not empty has a last element and what is before it.
LEMMA LastAndFront ==
  ASSUME NEW n \in Nat, NEW s \in Seq(Client), Len(s) = n + 1
  PROVE  \E f \in Seq(Client), e \in Client : s = Append(f, e) /\ Len(f) = n
<1>1. SubSeq(s, 1, n) \in Seq(Client) /\ Len(SubSeq(s, 1, n)) = n /\ s[n + 1] \in Client
  OBVIOUS
<1>2. s = Append(SubSeq(s, 1, n), s[n + 1])
  OBVIOUS
<1> QED
  BY <1>1, <1>2

\* One more at the end of a list.
LEMMA AppendIs ==
  ASSUME NEW s \in Seq(Client), NEW e \in Client
  PROVE  /\ Append(s, e) \in Seq(Client) /\ Len(s) \in Nat
         /\ Len(Append(s, e)) = Len(s) + 1
         /\ DOMAIN s = 1 .. Len(s) /\ DOMAIN Append(s, e) = 1 .. Len(s) + 1
         /\ Append(s, e)[Len(s) + 1] = e
         /\ \A i \in 1 .. Len(s) : Append(s, e)[i] = s[i]
OBVIOUS

\* What FoldLeft comes to for Without: a recursive function on sets of places, which takes
\* their greatest one first.
IsFold(s, gone, g) ==
  g = [I \in SUBSET DOMAIN s |->
         IF I = {} THEN <<>>
         ELSE IF s[Max(I)] \in gone THEN g[I \ {Max(I)}]
         ELSE Append(g[I \ {Max(I)}], s[Max(I)])]

\* What is left is the value of such a function for all places.
LEMMA WithoutIs ==
  \A s, gone : Without(s, gone) = (CHOOSE g : IsFold(s, gone, g))[DOMAIN s]
BY DEF Without, FoldLeft, MapThenFoldSet, IsFold

\* There is such a function.
LEMMA FoldExists ==
  ASSUME NEW s \in Seq(Client), NEW gone
  PROVE  \E g : IsFold(s, gone, g)
<1> DEFINE P(n) == \A t \in Seq(Client) : Len(t) = n => \E g : IsFold(t, gone, g)
           S == {n \in Nat : P(n)}
<1>1. P(0)
  <2> SUFFICES ASSUME NEW t \in Seq(Client), Len(t) = 0 PROVE \E g : IsFold(t, gone, g)
    OBVIOUS
  <2>1. DOMAIN t = {}
    OBVIOUS
  <2>2. IsFold(t, gone, [I \in SUBSET DOMAIN t |-> <<>>])
    BY <2>1 DEF IsFold
  <2> QED
    BY <2>2
<1>2. ASSUME NEW n \in Nat, P(n) PROVE P(n + 1)
  <2> SUFFICES ASSUME NEW t \in Seq(Client), Len(t) = n + 1 PROVE \E g : IsFold(t, gone, g)
    OBVIOUS
  <2>1. PICK f \in Seq(Client), e \in Client : t = Append(f, e) /\ Len(f) = n
    BY LastAndFront
  <2>2. PICK g : IsFold(f, gone, g)
    BY <1>2, <2>1
  <2> DEFINE h == [I \in SUBSET (1 .. n + 1) |->
                    IF n + 1 \notin I THEN g[I]
                    ELSE IF e \in gone THEN g[I \ {n + 1}]
                    ELSE Append(g[I \ {n + 1}], e)]
  <2>3. DOMAIN t = 1 .. n + 1 /\ DOMAIN f = 1 .. n /\ t[n + 1] = e /\ \A i \in 1 .. n : t[i] = f[i]
    BY <2>1, AppendIs
  <2>4. ASSUME NEW I \in SUBSET (1 .. n + 1)
        PROVE  h[I] = IF I = {} THEN <<>>
                      ELSE IF t[Max(I)] \in gone THEN h[I \ {Max(I)}]
                      ELSE Append(h[I \ {Max(I)}], t[Max(I)])
    <3>1. CASE I = {}
      BY <2>2, <2>3, <3>1 DEF IsFold
    <3>2. CASE n + 1 \in I
      <4>1. Max(I) = n + 1
        <5>1. n + 1 \in Nat /\ I # {}
          BY <3>2
        <5>2. Max(I) \in I /\ n + 1 <= Max(I)
          BY <3>2, <5>1, Greatest
        <5>3. Max(I) \in 1 .. n + 1
          BY <5>2
        <5> HIDE DEF h
        <5> QED
          BY <5>1, <5>2, <5>3
      <4>2. h[I \ {n + 1}] = g[I \ {n + 1}]
        OBVIOUS
      <4> QED
        BY <2>3, <3>2, <4>1, <4>2
    <3>3. CASE I # {} /\ n + 1 \notin I
      <4>1. I \in SUBSET (1 .. n)
        BY <3>3
      <4>2. Max(I) \in I
        BY <3>3, <4>1, Greatest
      <4>3. g[I] = IF f[Max(I)] \in gone THEN g[I \ {Max(I)}]
                   ELSE Append(g[I \ {Max(I)}], f[Max(I)])
        BY <2>2, <2>3, <3>3, <4>1 DEF IsFold
      <4>4. h[I] = g[I] /\ h[I \ {Max(I)}] = g[I \ {Max(I)}] /\ t[Max(I)] = f[Max(I)]
        BY <2>3, <3>3, <4>1, <4>2
      <4> QED
        BY <3>3, <4>3, <4>4
    <3> QED
      BY <3>1, <3>2, <3>3
  <2>5. IsFold(t, gone, h)
    <3>1. h = [I \in SUBSET (1 .. n + 1) |-> h[I]]
      OBVIOUS
    <3> HIDE DEF h
    <3> QED
      BY <2>3, <2>4, <3>1 DEF IsFold
  <2> QED
    BY <2>5
<1>3. S = Nat
  <2> HIDE DEF P
  <2>1. S \in SUBSET Nat /\ 0 \in S /\ \A k \in S : k + 1 \in S
    BY <1>1, <1>2
  <2> HIDE DEF S
  <2> QED
    BY <2>1, Induction
<1> QED
  BY <1>3

\* A fold of the first places takes them one by one.
LEMMA FoldOfPlaces ==
  ASSUME NEW s \in Seq(Client), NEW gone, NEW g, IsFold(s, gone, g)
  PROVE  /\ g[{}] = <<>>
         /\ \A k \in 0 .. Len(s) - 1 :
              g[1 .. k + 1] = IF s[k + 1] \in gone THEN g[1 .. k] ELSE Append(g[1 .. k], s[k + 1])
<1>1. DOMAIN s = 1 .. Len(s)
  OBVIOUS
<1>2. g[{}] = <<>>
  BY DEF IsFold
<1>3. ASSUME NEW k \in 0 .. Len(s) - 1
      PROVE  g[1 .. k + 1] = IF s[k + 1] \in gone THEN g[1 .. k] ELSE Append(g[1 .. k], s[k + 1])
  <2> DEFINE I == 1 .. k + 1
  <2>1. I \in SUBSET DOMAIN s /\ k + 1 \in I /\ I \ {k + 1} = 1 .. k /\ k + 1 \in Nat
    BY <1>1
  <2>2. Max(I) = k + 1
    <3>1. Max(I) \in I /\ k + 1 <= Max(I)
      BY <2>1, Greatest
    <3> QED
      BY <3>1
  <2>3. g[I] = IF I = {} THEN <<>>
               ELSE IF s[Max(I)] \in gone THEN g[I \ {Max(I)}]
               ELSE Append(g[I \ {Max(I)}], s[Max(I)])
    <3> HIDE DEF I
    <3> QED BY <2>1 DEF IsFold
  <2> QED
    BY <2>1, <2>2, <2>3
<1> QED
  BY <1>2, <1>3

\* A new last element stays or does not: the functions for both sequences agree on the old
\* places.
LEMMA WithoutAppend ==
  ASSUME NEW s \in Seq(Client), NEW e \in Client, NEW gone
  PROVE  Without(Append(s, e), gone)
           = IF e \in gone THEN Without(s, gone) ELSE Append(Without(s, gone), e)
<1> DEFINE t == Append(s, e)
           n == Len(s)
<1>1. PICK g : IsFold(s, gone, g) /\ Without(s, gone) = g[DOMAIN s]
  BY FoldExists, WithoutIs
<1>2. PICK h : IsFold(t, gone, h) /\ Without(t, gone) = h[DOMAIN t]
  <2>1. t \in Seq(Client)
    OBVIOUS
  <2> QED
    BY <2>1, FoldExists, WithoutIs
<1>3. /\ n \in Nat /\ t \in Seq(Client) /\ Len(t) = n + 1 /\ t[n + 1] = e
      /\ DOMAIN s = 1 .. n /\ DOMAIN t = 1 .. n + 1 /\ \A i \in 1 .. n : t[i] = s[i]
  BY AppendIs
<1> HIDE DEF t, n
<1> DEFINE P(k) == k <= n => h[1 .. k] = g[1 .. k]
           S == {k \in Nat : P(k)}
<1>4. P(0)
  <2>1. 1 .. 0 = {}
    OBVIOUS
  <2> QED
    BY <1>1, <1>2, <1>3, <2>1, FoldOfPlaces
<1>5. ASSUME NEW k \in Nat, P(k), k + 1 <= n PROVE h[1 .. k + 1] = g[1 .. k + 1]
  <2>1. k \in 0 .. Len(s) - 1 /\ k \in 0 .. Len(t) - 1 /\ k + 1 \in 1 .. n
    BY <1>3, <1>5 DEF n
  <2>2. g[1 .. k + 1] = IF s[k + 1] \in gone THEN g[1 .. k] ELSE Append(g[1 .. k], s[k + 1])
    BY <1>1, <2>1, FoldOfPlaces
  <2>3. h[1 .. k + 1] = IF t[k + 1] \in gone THEN h[1 .. k] ELSE Append(h[1 .. k], t[k + 1])
    BY <1>2, <1>3, <2>1, FoldOfPlaces
  <2> QED
    BY <1>3, <1>5, <2>1, <2>2, <2>3
<1>6. S = Nat
  <2>1. S \in SUBSET Nat /\ 0 \in S /\ \A k \in S : k + 1 \in S
    BY <1>4, <1>5
  <2> HIDE DEF S
  <2> QED
    BY <2>1, Induction
<1>7. h[1 .. n] = g[1 .. n]
  BY <1>3, <1>6
<1>8. h[1 .. n + 1] = IF e \in gone THEN h[1 .. n] ELSE Append(h[1 .. n], e)
  <2>1. n \in 0 .. Len(t) - 1
    BY <1>3
  <2>2. h[1 .. n + 1] = IF t[n + 1] \in gone THEN h[1 .. n] ELSE Append(h[1 .. n], t[n + 1])
    BY <1>2, <1>3, <2>1, FoldOfPlaces
  <2> QED
    BY <1>3, <2>2
<1> QED
  BY <1>1, <1>2, <1>3, <1>7, <1>8 DEF t

\* Of the empty list nothing is left.
LEMMA WithoutEmpty == ASSUME NEW gone PROVE Without(<<>>, gone) = <<>>
<1>1. <<>> \in Seq(Client) /\ DOMAIN <<>> = {}
  OBVIOUS
<1>2. PICK g : IsFold(<<>>, gone, g) /\ Without(<<>>, gone) = g[DOMAIN <<>>]
  BY <1>1, FoldExists, WithoutIs
<1> QED
  BY <1>1, <1>2 DEF IsFold

\* Those that go are a cut after the first a ones.
IsCut(s, gone, a, cut) ==
  /\ a + cut <= Len(s)
  /\ \A i \in 1 .. Len(s) : s[i] \in gone <=> a < i /\ i <= a + cut

\* If a cut goes, the others close up.
LEMMA CutOut ==
  ASSUME NEW s \in Seq(Client), NEW gone, NEW a \in Nat, NEW cut \in Nat,
         IsCut(s, gone, a, cut)
  PROVE  /\ Without(s, gone) \in Seq(Client)
         /\ Len(Without(s, gone)) = Len(s) - cut
         /\ \A m \in 1 .. Len(s) - cut :
              Without(s, gone)[m] = s[IF m <= a THEN m ELSE m + cut]
<1> DEFINE Left(n) == IF n <= a THEN n ELSE IF n <= a + cut THEN a ELSE n - cut
           P(n) == \A t \in Seq(Client) :
                     /\ Len(t) = n
                     /\ \A i \in 1 .. n : t[i] \in gone <=> a < i /\ i <= a + cut
                     => /\ Without(t, gone) \in Seq(Client)
                        /\ Len(Without(t, gone)) = Left(n)
                        /\ \A m \in 1 .. Left(n) :
                             Without(t, gone)[m] = t[IF m <= a THEN m ELSE m + cut]
           S == {n \in Nat : P(n)}
<1>1. P(0)
  <2> SUFFICES ASSUME NEW t \in Seq(Client), Len(t) = 0
               PROVE  /\ Without(t, gone) \in Seq(Client)
                      /\ Len(Without(t, gone)) = Left(0)
                      /\ \A m \in 1 .. Left(0) :
                           Without(t, gone)[m] = t[IF m <= a THEN m ELSE m + cut]
    OBVIOUS
  <2>1. Without(t, gone) = <<>>
    BY WithoutEmpty, EmptySeq
  <2>2. Left(0) = 0
    OBVIOUS
  <2> QED
    BY <2>1, <2>2, EmptySeq
<1>2. ASSUME NEW n \in Nat, P(n) PROVE P(n + 1)
  <2> SUFFICES ASSUME NEW t \in Seq(Client), Len(t) = n + 1,
                      \A i \in 1 .. n + 1 : t[i] \in gone <=> a < i /\ i <= a + cut
               PROVE  /\ Without(t, gone) \in Seq(Client)
                      /\ Len(Without(t, gone)) = Left(n + 1)
                      /\ \A m \in 1 .. Left(n + 1) :
                           Without(t, gone)[m] = t[IF m <= a THEN m ELSE m + cut]
    OBVIOUS
  <2>1. PICK f \in Seq(Client), e \in Client : t = Append(f, e) /\ Len(f) = n
    BY LastAndFront
  <2>2. t[n + 1] = e /\ \A i \in 1 .. n : t[i] = f[i]
    BY <2>1, AppendIs
  <2> DEFINE w == Without(f, gone)
             v == Without(t, gone)
  <2>3. /\ w \in Seq(Client) /\ Len(w) = Left(n)
        /\ \A m \in 1 .. Left(n) : w[m] = f[IF m <= a THEN m ELSE m + cut]
    BY <1>2, <2>1, <2>2
  <2>4. v = IF e \in gone THEN w ELSE Append(w, e)
    BY <2>1, WithoutAppend
  <2> HIDE DEF w, v
  <2>5. CASE e \in gone
    <3>1. a < n + 1 /\ n + 1 <= a + cut
      BY <2>2, <2>5
    <3>2. Left(n + 1) = a /\ Left(n) = a
      BY <3>1
    <3> QED
      BY <2>2, <2>3, <2>4, <2>5, <3>1, <3>2 DEF v
  <2>6. CASE e \notin gone
    <3>1. ~(a < n + 1 /\ n + 1 <= a + cut)
      BY <2>2, <2>6
    <3>2. Left(n + 1) = Left(n) + 1 /\ Left(n) \in Nat
      BY <3>1
    <3>3. /\ v \in Seq(Client) /\ Len(v) = Left(n + 1) /\ v[Left(n) + 1] = e
          /\ \A m \in 1 .. Left(n) : v[m] = w[m]
      BY <2>3, <2>4, <2>6, <3>2, AppendIs
    <3>4. ASSUME NEW m \in 1 .. Left(n + 1) PROVE v[m] = t[IF m <= a THEN m ELSE m + cut]
      <4>1. CASE m \in 1 .. Left(n)
        <5>1. (IF m <= a THEN m ELSE m + cut) \in 1 .. n
          BY <4>1
        <5> QED
          BY <2>2, <2>3, <3>3, <4>1, <5>1
      <4>2. CASE m = Left(n) + 1
        <5>1. (IF m <= a THEN m ELSE m + cut) = n + 1
          BY <3>1, <4>2
        <5> QED
          BY <2>2, <3>3, <4>2, <5>1
      <4>3. m \in 1 .. Left(n) \/ m = Left(n) + 1
        <5> HIDE DEF Left
        <5> QED
          BY <3>2
      <4> QED
        BY <4>1, <4>2, <4>3
    <3> QED
      BY <3>3, <3>4 DEF v
  <2> QED
    BY <2>5, <2>6
<1>3. S = Nat
  <2> HIDE DEF P
  <2>1. S \in SUBSET Nat /\ 0 \in S /\ \A k \in S : k + 1 \in S
    BY <1>1, <1>2
  <2> HIDE DEF S
  <2> QED
    BY <2>1, Induction
<1>4. P(Len(s))
  BY <1>3
<1>5. Left(Len(s)) = Len(s) - cut
  BY DEF IsCut
<1> QED
  BY <1>4, <1>5 DEF IsCut

-----------------------------------------------------------------------------
(* The links *)

\* The client at a place of the list, or Null beyond its ends.
Place(i) == IF i \in 1 .. Len(order) THEN order[i] ELSE Null

\* The links and the history are the same list, which has each client with a timer once.
Chain ==
  /\ beg = Place(1)
  /\ order # <<>> => end = Place(Len(order))
  /\ \A i \in 1 .. Len(order) :
       prev[order[i]] = Place(i - 1) /\ next[order[i]] = Place(i + 1)
  /\ \A i, j \in 1 .. Len(order) : order[i] = order[j] => i = j
  /\ \A c \in Client : left[c] # None <=> \E i \in 1 .. Len(order) : order[i] = c

\* The list is sorted.
Aged ==
  \A i, j \in 1 .. Len(order) : i <= j => left[order[i]] <= left[order[j]]

\* What the types say of a list.
LEMMA OrderIs ==
  ASSUME TimersTypeOK
  PROVE  /\ order \in Seq(Client) /\ Len(order) \in Nat
         /\ \A i \in 1 .. Len(order) : order[i] \in Client /\ order[i] # Null
         /\ \A i \in 1 .. Len(order) : Place(i) = order[i]
         /\ \A i : i \notin 1 .. Len(order) => Place(i) = Null
         /\ order = <<>> <=> Len(order) = 0
<1>1. order \in Seq(Client)
  BY DEF TimersTypeOK
<1>2. Len(order) \in Nat /\ \A i \in 1 .. Len(order) : order[i] \in Client
  BY <1>1
<1>3. order = <<>> <=> Len(order) = 0
  BY <1>1, EmptySeq
<1> QED
  BY <1>1, <1>2, <1>3, TimersAssumption DEF Place

\* The walk along next goes through the list: the recursion that defines it has a solution,
\* and only one.
LEMMA WalkIs ==
  ASSUME TimersTypeOK, Chain
  PROVE  \A i \in Nat : Walk[i] = Place(i + 1)
<1> DEFINE Walks(f) == f = [i \in Nat |-> IF i = 0 THEN beg
                                          ELSE IF f[i - 1] = Null THEN Null ELSE next[f[i - 1]]]
           places == [i \in Nat |-> Place(i + 1)]
<1>1. Walks(places)
  <2>1. ASSUME NEW i \in Nat
        PROVE  places[i] = IF i = 0 THEN beg
                           ELSE IF places[i - 1] = Null THEN Null ELSE next[places[i - 1]]
    <3>1. CASE i = 0
      BY <3>1 DEF Chain
    <3>2. CASE i # 0
      <4>1. i - 1 \in Nat /\ places[i - 1] = Place(i) /\ places[i] = Place(i + 1)
        BY <3>2
      <4>2. CASE i \in 1 .. Len(order)
        BY <3>2, <4>1, <4>2, OrderIs DEF Chain
      <4>3. CASE i \notin 1 .. Len(order)
        <5>1. i + 1 \notin 1 .. Len(order)
          BY <3>2, <4>3, OrderIs
        <5> QED
          BY <3>2, <4>1, <4>3, <5>1, OrderIs
      <4> QED
        BY <4>2, <4>3
    <3> QED
      BY <3>1, <3>2
  <2> HIDE DEF places
  <2>2. places = [i \in Nat |-> places[i]]
    BY DEF places
  <2> QED
    BY <2>1, <2>2
<1>2. Walks(Walk)
  <2>1. Walk = CHOOSE f : Walks(f)
    BY DEF Walk
  <2> HIDE DEF Walks, places
  <2> QED
    BY <1>1, <2>1
<1> DEFINE S == {i \in Nat : Walk[i] = places[i]}
<1>3. 0 \in S
  BY <1>1, <1>2
<1>4. ASSUME NEW i \in S PROVE i + 1 \in S
  <2>1. i + 1 \in Nat /\ i + 1 # 0 /\ (i + 1) - 1 = i
    OBVIOUS
  <2>2. Walk[i + 1] = IF Walk[i] = Null THEN Null ELSE next[Walk[i]]
    BY <1>2, <2>1
  <2>3. places[i + 1] = IF places[i] = Null THEN Null ELSE next[places[i]]
    <3> HIDE DEF places
    <3> QED BY <1>1, <2>1
  <2> HIDE DEF places
  <2> QED
    BY <2>1, <2>2, <2>3
<1>5. S = Nat
  <2>1. S \in SUBSET Nat
    OBVIOUS
  <2> HIDE DEF S
  <2> QED
    BY <1>3, <1>4, <2>1, Induction
<1> QED
  BY <1>5

\* So the list that is walked is the one of the history.
LEMMA ChainIsLinked == TimersTypeOK /\ Chain => Linked
<1> SUFFICES ASSUME TimersTypeOK, Chain PROVE Linked
  OBVIOUS
<1>1. ASSUME NEW i \in 1 .. Len(order)
      PROVE  Walk[i - 1] = order[i] /\ prev[order[i]] = IF i = 1 THEN Null ELSE order[i - 1]
  <2>1. i - 1 \in Nat /\ (i - 1) + 1 = i
    OBVIOUS
  <2>2. Walk[i - 1] = order[i]
    BY <2>1, WalkIs, OrderIs
  <2>3. CASE i = 1
    BY <2>2, <2>3, OrderIs DEF Chain
  <2>4. CASE i # 1
    <3>1. i - 1 \in 1 .. Len(order)
      BY <2>4
    <3> QED
      BY <2>2, <2>4, <3>1, OrderIs DEF Chain
  <2> QED
    BY <2>3, <2>4
<1>2. Walk[Len(order)] = Null
  <2>1. Len(order) \in Nat /\ Len(order) + 1 \notin 1 .. Len(order)
    BY OrderIs
  <2> QED
    BY <2>1, WalkIs, OrderIs
<1>3. order # <<>> => end = Last(order)
  <2> SUFFICES ASSUME order # <<>> PROVE end = order[Len(order)]
    BY DEF Last
  <2>1. Len(order) \in 1 .. Len(order)
    BY OrderIs
  <2> QED
    BY <2>1, OrderIs DEF Chain
<1>4. {c \in Client : left[c] # None} = ToSet(order)
  <2>1. ToSet(order) = {order[i] : i \in 1 .. Len(order)}
    BY OrderIs DEF ToSet
  <2> QED
    BY <2>1, OrderIs DEF Chain
<1> QED
  BY <1>1, <1>2, <1>3, <1>4 DEF Linked

-----------------------------------------------------------------------------
(* The steps *)

\* What is kept.
Timed == TimersTypeOK /\ Chain /\ Aged

\* The list and its clients' timers stay.
LEMMA SameList ==
  ASSUME Chain, UNCHANGED <<beg, end, prev, next, order>>,
         \A c \in Client : left'[c] # None <=> left[c] # None
  PROVE  Chain'
BY DEF Chain, Place

\* A list from which the cut after the first a clients goes closes up.
LEMMA CutPlaces ==
  ASSUME TimersTypeOK, NEW gone, NEW a \in Nat, NEW cut \in Nat, IsCut(order, gone, a, cut),
         order' = Without(order, gone)
  PROVE  /\ order' \in Seq(Client)
         /\ Len(order') = Len(order) - cut
         /\ \A m \in Nat : Place(m)' = Place(IF m <= a THEN m ELSE m + cut)
         /\ \A m \in 1 .. Len(order') :
              /\ (IF m <= a THEN m ELSE m + cut) \in 1 .. Len(order)
              /\ order'[m] = order[IF m <= a THEN m ELSE m + cut]
<1>1. /\ order' \in Seq(Client)
      /\ Len(order') = Len(order) - cut
      /\ \A m \in 1 .. Len(order) - cut : order'[m] = order[IF m <= a THEN m ELSE m + cut]
  BY OrderIs, CutOut
<1>2. Len(order) \in Nat /\ a + cut <= Len(order)
  BY OrderIs DEF IsCut
<1>3. ASSUME NEW m \in Nat PROVE Place(m)' = Place(IF m <= a THEN m ELSE m + cut)
  <2> DEFINE k == IF m <= a THEN m ELSE m + cut
  <2>1. m \in 1 .. Len(order') <=> k \in 1 .. Len(order)
    BY <1>1, <1>2
  <2>2. m \in 1 .. Len(order') => order'[m] = order[k]
    BY <1>1
  <2> HIDE DEF k
  <2>3. Place(m)' = Place(k)
    BY <2>1, <2>2 DEF Place
  <2> QED
    BY <2>3 DEF k
<1>4. \A m \in 1 .. Len(order') : (IF m <= a THEN m ELSE m + cut) \in 1 .. Len(order)
  BY <1>1, <1>2
<1> QED
  BY <1>1, <1>3, <1>4

\* A new client is the last and has the most time left.
LEMMA AcceptKeeps ==
  ASSUME Timed, NEW c \in Client, Accept(c)
  PROVE  Chain' /\ Aged' /\ order' \in Seq(Client) /\ left' \in [Client -> -Late .. None]
         /\ beg' \in Client /\ left'[beg'] # None
<1> DEFINE n == Len(order)
<1>1. /\ order \in Seq(Client) /\ n \in Nat
      /\ \A i \in 1 .. n : order[i] \in Client /\ order[i] # Null /\ Place(i) = order[i]
      /\ \A i : i \notin 1 .. n => Place(i) = Null
      /\ order = <<>> <=> n = 0
  BY OrderIs DEF Timed
<1>2. /\ order' = Append(order, c) /\ left' = [left EXCEPT ![c] = Timeout] /\ end' = c
      /\ beg' = IF beg = Null THEN c ELSE beg
      /\ next' = [p \in Client |->
                    IF p = c THEN Null ELSE IF beg # Null /\ p = end THEN c ELSE next[p]]
      /\ prev' = [prev EXCEPT ![c] = IF beg = Null THEN Null ELSE end]
      /\ left[c] = None
  BY DEF Accept, Insert
<1>3. /\ left \in [Client -> -Late .. None] /\ prev \in [Client -> Pointer]
      /\ Timeout \in -Late .. None /\ Timeout # None /\ Null \notin Client /\ Timeout \in Nat
      /\ Late \in Nat
  BY TimersAssumption DEF Timed, TimersTypeOK, None
<1>4. /\ Len(order') = n + 1 /\ order'[n + 1] = c /\ \A i \in 1 .. n : order'[i] = order[i]
      /\ order' \in Seq(Client)
  BY <1>1, <1>2, AppendIs
<1>5. \A i \in 1 .. n : order[i] # c /\ left'[order[i]] = left[order[i]] /\ left[order[i]] # None
  BY <1>1, <1>2, <1>3 DEF Timed, Chain
<1>6. \A i \in Nat : Place(i)' = IF i = n + 1 THEN c ELSE Place(i)
  BY <1>1, <1>4 DEF Place
<1>7. beg = Null <=> n = 0
  <2>1. beg = Place(1)
    BY DEF Timed, Chain
  <2> QED
    BY <1>1, <2>1
<1>8. n # 0 => end = order[n]
  BY <1>1 DEF Timed, Chain
<1> HIDE DEF n
<1>9. beg' = Place(1)' /\ end' = Place(Len(order))'
  <2>1. beg' = Place(1)'
    BY <1>1, <1>2, <1>6, <1>7 DEF Timed, Chain
  <2>2. Len(order') \in 1 .. Len(order') /\ order'[Len(order')] = c
    BY <1>1, <1>4
  <2> QED
    BY <1>2, <2>1, <2>2 DEF Place
<1>10. ASSUME NEW i \in 1 .. n + 1
       PROVE  prev'[order'[i]] = Place(i - 1)' /\ next'[order'[i]] = Place(i + 1)'
  <2>1. i - 1 \in Nat /\ i + 1 \in Nat /\ i - 1 # n + 1
    BY <1>1
  <2>2. CASE i = n + 1
    <3>1. order'[i] = c /\ i - 1 = n
      BY <1>1, <1>4, <2>2
    <3>2. prev'[c] = Place(n)
      BY <1>1, <1>2, <1>3, <1>7, <1>8
    <3>3. next'[c] = Place(n + 2)
      BY <1>1, <1>2
    <3> QED
      BY <1>1, <1>6, <2>1, <2>2, <3>1, <3>2, <3>3
  <2>3. CASE i \in 1 .. n
    <3>1. order'[i] = order[i] /\ prev[order[i]] = Place(i - 1) /\ next[order[i]] = Place(i + 1)
      BY <1>4, <2>3 DEF Timed, Chain, n
    <3>2. prev'[order[i]] = Place(i - 1)
      BY <1>1, <1>2, <1>3, <1>5, <2>3, <3>1
    <3>3. next'[order[i]] = IF i = n THEN c ELSE Place(i + 1)
      <4>1. order[i] = order[n] => i = n
        BY <1>1, <2>3 DEF Timed, Chain, n
      <4> QED
        BY <1>1, <1>2, <1>5, <1>7, <1>8, <2>3, <3>1, <4>1
    <3> QED
      BY <1>1, <1>6, <2>1, <2>3, <3>1, <3>2, <3>3
  <2> QED
    BY <1>1, <2>2, <2>3
<1>11. \A i, j \in 1 .. n + 1 : order'[i] = order'[j] => i = j
  <2>1. \A i, j \in 1 .. n : order[i] = order[j] => i = j
    BY DEF Timed, Chain, n
  <2> QED
    BY <1>1, <1>4, <1>5, <2>1
<1>12. ASSUME NEW d \in Client
       PROVE  left'[d] # None <=> \E i \in 1 .. n + 1 : order'[i] = d
  <2>1. CASE d = c
    BY <1>1, <1>2, <1>3, <1>4, <2>1
  <2>2. CASE d # c
    <3>1. left'[d] = left[d]
      BY <1>2, <1>3, <2>2
    <3>2. left[d] # None <=> \E i \in 1 .. n : order[i] = d
      BY DEF Timed, Chain, n
    <3> QED
      BY <1>1, <1>4, <2>2, <3>1, <3>2
  <2> QED
    BY <2>1, <2>2
<1>13. Chain'
  BY <1>4, <1>9, <1>10, <1>11, <1>12 DEF Chain
<1>14. Aged'
  <2> SUFFICES ASSUME NEW i \in 1 .. n + 1, NEW j \in 1 .. n + 1, i <= j
               PROVE  left'[order'[i]] <= left'[order'[j]]
    BY <1>4 DEF Aged
  <2>1. CASE j = n + 1
    <3>1. left'[order'[j]] = Timeout
      BY <1>2, <1>3, <1>4, <2>1
    <3>2. \A d \in Client : left[d] # None => left[d] <= Timeout
      BY <1>3 DEF None
    <3>3. CASE i = n + 1
      BY <1>3, <3>1, <2>1, <3>3
    <3>4. CASE i \in 1 .. n
      BY <1>1, <1>4, <1>5, <3>1, <3>2, <3>4
    <3> QED
      BY <1>1, <3>3, <3>4
  <2>2. CASE j # n + 1
    <3>1. i \in 1 .. n /\ j \in 1 .. n
      BY <1>1, <2>2
    <3>2. left[order[i]] <= left[order[j]]
      BY <3>1 DEF Timed, Aged, n
    <3> QED
      BY <1>4, <1>5, <3>1, <3>2
  <2> QED
    BY <2>1, <2>2
<1>15. beg' \in Client /\ left'[beg'] # None
  <2>1. 1 \in 1 .. n + 1 /\ Place(1)' = order'[1] /\ order'[1] \in Client
    BY <1>1, <1>4 DEF Place
  <2> QED
    BY <1>9, <1>12, <2>1
<1> QED
  BY <1>2, <1>3, <1>4, <1>13, <1>14, <1>15

\* The neighbours of a client that goes are linked to each other.
LEMMA CancelKeeps ==
  ASSUME Timed, NEW c \in Client, Cancel(c)
  PROVE  Chain' /\ Aged' /\ order' \in Seq(Client) /\ left' \in [Client -> -Late .. None]
         /\ \A i \in 1 .. Len(order') : \E k \in 1 .. Len(order) :
              i <= k /\ order'[i] = order[k] /\ left'[order'[i]] = left[order[k]]
<1> DEFINE n == Len(order)
<1>1. /\ n \in Nat
      /\ \A i \in 1 .. n : order[i] \in Client /\ order[i] # Null /\ Place(i) = order[i]
      /\ \A i : i \notin 1 .. n => Place(i) = Null
  BY OrderIs DEF Timed
<1>2. /\ order' = Without(order, {c}) /\ left' = [left EXCEPT ![c] = None]
      /\ end' = IF next[c] = Null THEN prev[c] ELSE end
      /\ beg' = IF prev[c] = Null THEN next[c] ELSE beg
      /\ next' = [p \in Client |->
                    IF p = c THEN Null ELSE IF p = prev[c] THEN next[c] ELSE next[p]]
      /\ prev' = [p \in Client |->
                    IF p = c THEN Null ELSE IF p = next[c] THEN prev[c] ELSE prev[p]]
      /\ left[c] # None
  BY DEF Cancel, Unlink
<1>3. left \in [Client -> -Late .. None] /\ None \in -Late .. None
  BY TimersAssumption DEF Timed, TimersTypeOK, None
<1>4. PICK j \in 1 .. n : order[j] = c
  BY <1>2 DEF Timed, Chain
<1>5. \A i, k \in 1 .. n : order[i] = order[k] => i = k
  BY DEF Timed, Chain
<1>6. \A i \in 1 .. n : prev[order[i]] = Place(i - 1) /\ next[order[i]] = Place(i + 1)
  BY DEF Timed, Chain
<1>7. IsCut(order, {c}, j - 1, 1) /\ j - 1 \in Nat
  <2>1. \A i \in 1 .. n : order[i] \in {c} <=> j - 1 < i /\ i <= (j - 1) + 1
    BY <1>1, <1>4, <1>5
  <2> QED
    BY <1>1, <2>1 DEF IsCut
<1> DEFINE Old(m) == IF m < j THEN m ELSE m + 1
<1>8. /\ order' \in Seq(Client) /\ Len(order') = n - 1
      /\ \A m \in Nat : Place(m)' = Place(Old(m))
      /\ \A m \in 1 .. n - 1 : Old(m) \in 1 .. n /\ Old(m) # j /\ order'[m] = order[Old(m)]
  <2> DEFINE a == j - 1
             gone == {c}
  <2>1. IsCut(order, gone, a, 1) /\ a \in Nat /\ 1 \in Nat /\ order' = Without(order, gone)
    BY <1>2, <1>7
  <2>2. \A m \in Nat : (IF m <= a THEN m ELSE m + 1) = Old(m)
    BY <1>1
  <2>3. \A m \in 1 .. n - 1 : Old(m) \in 1 .. n /\ Old(m) # j /\ m \in Nat
    BY <1>1
  <2> HIDE DEF a, gone
  <2>4. /\ order' \in Seq(Client) /\ Len(order') = n - 1
        /\ \A m \in Nat : Place(m)' = Place(IF m <= a THEN m ELSE m + 1)
        /\ \A m \in 1 .. Len(order') : order'[m] = order[IF m <= a THEN m ELSE m + 1]
    BY <2>1, CutPlaces DEF Timed
  <2> HIDE DEF Old, n
  <2>5. \A m \in Nat : Place(m)' = Place(Old(m))
    BY <2>2, <2>4
  <2>6. \A m \in 1 .. n - 1 : order'[m] = order[Old(m)]
    BY <2>2, <2>3, <2>4
  <2> QED
    BY <2>3, <2>4, <2>5, <2>6
<1>9. prev[c] = Place(j - 1) /\ next[c] = Place(j + 1)
  BY <1>4, <1>6
<1> HIDE DEF n
<1>10. beg' = Place(1)'
  <2>1. beg = Place(1) /\ Place(1)' = Place(Old(1))
    BY <1>8 DEF Timed, Chain
  <2>2. CASE j = 1
    BY <1>1, <1>2, <1>9, <2>1, <2>2
  <2>3. CASE j # 1
    <3>1. prev[c] # Null
      <4>1. j - 1 \in 1 .. n
        BY <1>1, <2>3
      <4> QED
        BY <1>1, <1>9, <4>1
    <3> QED
      BY <1>1, <1>2, <2>1, <2>3, <3>1
  <2> QED
    BY <2>2, <2>3
<1>11. order' # <<>> => end' = Place(Len(order))'
  <2> SUFFICES ASSUME order' # <<>> PROVE end' = Place(Len(order))'
    OBVIOUS
  <2>1. n - 1 \in 1 .. n - 1
    BY <1>1, <1>8
  <2>2. Place(Len(order))' = Place(Old(n - 1))
    <3>1. Place(Len(order))' = order'[n - 1]
      BY <1>8, <2>1 DEF Place
    <3>2. Old(n - 1) \in 1 .. n /\ order'[n - 1] = order[Old(n - 1)]
      BY <1>8, <2>1
    <3> QED
      BY <1>1, <3>1, <3>2
  <2>3. end = Place(n)
    <3>1. order # <<>>
      BY <1>4 DEF n
    <3> QED
      BY <3>1 DEF Timed, Chain, n
  <2>4. CASE j = n
    <3>1. next[c] = Null
      BY <1>1, <1>9, <2>4
    <3> QED
      BY <1>1, <1>2, <1>9, <2>2, <2>4, <3>1
  <2>5. CASE j # n
    <3>1. j + 1 \in 1 .. n /\ Old(n - 1) = n
      BY <1>1, <2>5
    <3>2. next[c] # Null
      BY <1>1, <1>9, <3>1
    <3> QED
      BY <1>2, <2>2, <2>3, <3>1, <3>2
  <2> QED
    BY <2>4, <2>5
<1>12. ASSUME NEW i \in 1 .. n - 1
       PROVE  prev'[order'[i]] = Place(i - 1)' /\ next'[order'[i]] = Place(i + 1)'
  <2> DEFINE o == Old(i)
  <2>1. o \in 1 .. n /\ o # j /\ order'[i] = order[o]
    BY <1>8
  <2>2. order[o] \in Client /\ order[o] # c /\ order[o] # Null
    BY <1>1, <1>4, <1>5, <2>1
  <2>3. i - 1 \in Nat /\ i + 1 \in Nat
    BY <1>1
  <2>4. Place(i - 1)' = Place(Old(i - 1)) /\ Place(i + 1)' = Place(Old(i + 1))
    BY <1>8, <2>3
  <2>5. prev'[order[o]] = IF order[o] = Place(j + 1) THEN Place(j - 1) ELSE Place(o - 1)
    BY <1>2, <1>6, <1>9, <2>1, <2>2
  <2>6. next'[order[o]] = IF order[o] = Place(j - 1) THEN Place(j + 1) ELSE Place(o + 1)
    BY <1>2, <1>6, <1>9, <2>1, <2>2
  <2>7. order[o] = Place(j + 1) <=> o = j + 1
    BY <1>1, <1>5, <2>1, <2>2
  <2>8. order[o] = Place(j - 1) <=> o = j - 1
    BY <1>1, <1>5, <2>1, <2>2
  <2>9. (IF o = j + 1 THEN j - 1 ELSE o - 1) = Old(i - 1)
    BY <1>1, <2>1
  <2>10. (IF o = j - 1 THEN j + 1 ELSE o + 1) = Old(i + 1)
    BY <1>1, <2>1
  <2> HIDE DEF Old, o
  <2> QED
    BY <2>1, <2>4, <2>5, <2>6, <2>7, <2>8, <2>9, <2>10
<1>13. \A i, k \in 1 .. n - 1 : order'[i] = order'[k] => i = k
  <2> SUFFICES ASSUME NEW i \in 1 .. n - 1, NEW k \in 1 .. n - 1, order'[i] = order'[k]
               PROVE  i = k
    OBVIOUS
  <2>1. Old(i) \in 1 .. n /\ Old(k) \in 1 .. n /\ order[Old(i)] = order[Old(k)]
    BY <1>8
  <2>2. Old(i) = Old(k)
    <3> HIDE DEF Old
    <3> QED BY <1>5, <2>1
  <2> QED
    BY <1>1, <2>2
<1>14. \A d \in Client : left'[d] = IF d = c THEN None ELSE left[d]
  BY <1>2, <1>3
<1>15. ASSUME NEW d \in Client
       PROVE  left'[d] # None <=> \E i \in 1 .. n - 1 : order'[i] = d
  <2>1. left[d] # None <=> \E i \in 1 .. n : order[i] = d
    BY DEF Timed, Chain, n
  <2>2. ASSUME NEW i \in 1 .. n, order[i] = d, d # c PROVE \E m \in 1 .. n - 1 : order'[m] = d
    <3> DEFINE m == IF i < j THEN i ELSE i - 1
    <3>1. i # j
      BY <1>4, <2>2
    <3>2. m \in 1 .. n - 1 /\ Old(m) = i
      BY <1>1, <3>1
    <3> HIDE DEF m, Old
    <3>3. order'[m] = d
      BY <1>8, <2>2, <3>2
    <3> QED
      BY <3>2, <3>3
  <2>3. ASSUME NEW m \in 1 .. n - 1, order'[m] = d
        PROVE  d # c /\ \E i \in 1 .. n : order[i] = d
    <3> HIDE DEF Old
    <3> QED BY <1>4, <1>5, <1>8, <2>3
  <2> QED
    BY <1>14, <2>1, <2>2, <2>3
<1>16. Chain'
  BY <1>8, <1>10, <1>11, <1>12, <1>13, <1>15 DEF Chain
<1>17. \A i \in 1 .. n - 1 : Old(i) \in 1 .. n /\ i <= Old(i) /\ order'[i] = order[Old(i)]
                             /\ left'[order'[i]] = left[order[Old(i)]]
  <2> SUFFICES ASSUME NEW i \in 1 .. n - 1
               PROVE  /\ Old(i) \in 1 .. n /\ i <= Old(i) /\ order'[i] = order[Old(i)]
                      /\ left'[order'[i]] = left[order[Old(i)]]
    OBVIOUS
  <2>1. Old(i) \in 1 .. n /\ Old(i) # j /\ order'[i] = order[Old(i)] /\ i <= Old(i)
    BY <1>1, <1>8
  <2> HIDE DEF Old
  <2>2. order[Old(i)] # c /\ order[Old(i)] \in Client
    BY <1>1, <1>4, <1>5, <2>1
  <2> QED
    BY <1>14, <2>1, <2>2
<1>18. Aged'
  <2> SUFFICES ASSUME NEW i \in 1 .. n - 1, NEW k \in 1 .. n - 1, i <= k
               PROVE  left'[order'[i]] <= left'[order'[k]]
    BY <1>8 DEF Aged
  <2>1. Old(i) <= Old(k)
    BY <1>1
  <2>2. Old(i) \in 1 .. n /\ Old(k) \in 1 .. n
    BY <1>17
  <2>3. left[order[Old(i)]] <= left[order[Old(k)]]
    <3> HIDE DEF Old
    <3> QED BY <2>1, <2>2 DEF Timed, Aged, n
  <2> HIDE DEF Old
  <2> QED
    BY <1>17, <2>3
<1> HIDE DEF Old
<1> QED
  BY <1>2, <1>3, <1>8, <1>16, <1>17, <1>18 DEF n

\* The clients that have expired are at the front.
LEMMA FrontExpired ==
  ASSUME Timed
  PROVE  \E k \in 0 .. Len(order) : \A i \in 1 .. Len(order) : Expired(order[i]) <=> i <= k
<1> DEFINE n == Len(order)
           P(m) == m <= n => \E k \in 0 .. m : \A i \in 1 .. m : Expired(order[i]) <=> i <= k
           S == {m \in Nat : P(m)}
<1>1. n \in Nat /\ \A i \in 1 .. n : left[order[i]] \in Int
  BY OrderIs, TimersAssumption DEF Timed, TimersTypeOK, None
<1>2. \A i, j \in 1 .. n : i <= j => left[order[i]] <= left[order[j]]
  BY DEF Timed, Aged
<1> HIDE DEF n
<1>3. P(0)
  OBVIOUS
<1>4. ASSUME NEW m \in Nat, P(m) PROVE P(m + 1)
  <2> SUFFICES ASSUME m + 1 <= n
               PROVE  \E k \in 0 .. m + 1 : \A i \in 1 .. m + 1 : Expired(order[i]) <=> i <= k
    OBVIOUS
  <2>1. CASE Expired(order[m + 1])
    <3>1. ASSUME NEW i \in 1 .. m + 1 PROVE Expired(order[i])
      <4>1. i \in 1 .. n /\ m + 1 \in 1 .. n /\ i <= m + 1
        BY <1>1
      <4>2. left[order[i]] <= left[order[m + 1]]
        BY <1>2, <4>1
      <4> QED
        BY <1>1, <2>1, <4>1, <4>2 DEF Expired
    <3>2. m + 1 \in 0 .. m + 1 /\ \A i \in 1 .. m + 1 : Expired(order[i]) <=> i <= m + 1
      BY <3>1
    <3> QED
      BY <3>2
  <2>2. CASE ~Expired(order[m + 1])
    <3>1. PICK k \in 0 .. m : \A i \in 1 .. m : Expired(order[i]) <=> i <= k
      BY <1>1, <1>4
    <3>2. \A i \in 1 .. m + 1 : Expired(order[i]) <=> i <= k
      <4>1. \A i \in 1 .. m + 1 : i \in 1 .. m \/ i = m + 1
        OBVIOUS
      <4>2. ~(m + 1 <= k)
        OBVIOUS
      <4> QED
        BY <2>2, <3>1, <4>1, <4>2
    <3>3. k \in 0 .. m + 1
      OBVIOUS
    <3> QED
      BY <3>2, <3>3
  <2> QED
    BY <2>1, <2>2
<1>5. S = Nat
  <2> HIDE DEF P
  <2>1. S \in SUBSET Nat /\ 0 \in S /\ \A m \in S : m + 1 \in S
    BY <1>3, <1>4
  <2> HIDE DEF S
  <2> QED
    BY <2>1, Induction
<1>6. P(n)
  BY <1>1, <1>5
<1> QED
  BY <1>1, <1>6 DEF n

\* fetch takes those and no others.
LEMMA FetchTakes ==
  ASSUME Timed, NEW k \in 0 .. Len(order),
         \A i \in 1 .. Len(order) : Expired(order[i]) <=> i <= k
  PROVE  /\ Cardinality(Fetched) = k
         /\ Walk[k] = Place(k + 1)
         /\ \A c \in Client : c \in Due <=> Expired(c)
         /\ IsCut(order, Due, 0, k)
<1> DEFINE n == Len(order)
<1>1. /\ n \in Nat /\ k \in Nat /\ \A i \in 1 .. n : order[i] \in Client /\ order[i] # Null
      /\ \A i \in 1 .. n : Place(i) = order[i]
      /\ \A i : i \notin 1 .. n => Place(i) = Null
  BY OrderIs DEF Timed
<1>2. \A i \in Nat : Walk[i] = Place(i + 1)
  BY WalkIs DEF Timed
<1>3. Fetched = 0 .. k - 1
  <2>1. ASSUME NEW i \in 0 .. n
        PROVE  (\A j \in 0 .. i : Walk[j] # Null /\ Expired(Walk[j])) <=> i < k
    <3>1. ASSUME \A j \in 0 .. i : Walk[j] # Null /\ Expired(Walk[j]) PROVE i < k
      <4>1. i \in Nat /\ i \in 0 .. i
        BY <1>1
      <4>2. Place(i + 1) # Null /\ Expired(Place(i + 1))
        BY <1>2, <3>1, <4>1
      <4>3. i + 1 \in 1 .. n
        BY <1>1, <4>2
      <4>4. i + 1 <= k
        BY <1>1, <4>2, <4>3
      <4> QED
        BY <1>1, <4>1, <4>4
    <3>2. ASSUME i < k, NEW j \in 0 .. i PROVE Walk[j] # Null /\ Expired(Walk[j])
      <4>1. j \in Nat /\ j + 1 \in 1 .. n /\ j + 1 <= k
        BY <1>1, <3>2
      <4> QED
        BY <1>1, <1>2, <4>1
    <3> QED
      BY <3>1, <3>2
  <2>2. Fetched = {i \in 0 .. n : i < k}
    BY <2>1 DEF Fetched
  <2> QED
    BY <1>1, <2>2
<1>4. Cardinality(Fetched) = k
  <2>1. Cardinality(0 .. k - 1) = k
    BY <1>1, FS_Interval
  <2> QED
    BY <1>3, <2>1
<1>5. Due = {order[i] : i \in 1 .. k}
  <2>1. ASSUME NEW i \in 0 .. k - 1 PROVE i + 1 \in 1 .. k /\ Walk[i] = order[i + 1]
    <3>1. i \in Nat /\ i + 1 \in 1 .. k /\ i + 1 \in 1 .. n
      BY <1>1
    <3> QED
      BY <1>1, <1>2, <3>1
  <2>2. ASSUME NEW i \in 1 .. k PROVE i - 1 \in 0 .. k - 1 /\ Walk[i - 1] = order[i]
    <3>1. i - 1 \in Nat /\ i - 1 \in 0 .. k - 1 /\ (i - 1) + 1 = i /\ i \in 1 .. n
      BY <1>1
    <3> HIDE DEF n
    <3> QED
      BY <1>1, <1>2, <3>1
  <2>3. Due = {Walk[i] : i \in 0 .. k - 1}
    BY <1>3 DEF Due
  <2> HIDE DEF n
  <2>4. ASSUME NEW i \in 0 .. k - 1 PROVE Walk[i] \in {order[j] : j \in 1 .. k}
    BY <2>1
  <2>5. ASSUME NEW i \in 1 .. k PROVE order[i] \in {Walk[j] : j \in 0 .. k - 1}
    BY <2>2
  <2> QED
    BY <2>3, <2>4, <2>5
<1>6. ASSUME NEW c \in Client PROVE c \in Due <=> Expired(c)
  <2>1. ASSUME Expired(c) PROVE \E i \in 1 .. n : order[i] = c
    <3>1. left[c] # None
      BY <2>1, TimersAssumption DEF Expired, None
    <3> QED
      BY <3>1 DEF Timed, Chain
  <2> QED
    BY <1>1, <1>5, <2>1
<1>7. \A i \in 1 .. n : order[i] \in Due <=> i <= k
  BY <1>1, <1>6
<1>8. IsCut(order, Due, 0, k)
  BY <1>1, <1>7 DEF IsCut
<1> QED
  BY <1>1, <1>2, <1>4, <1>6, <1>8

\* The clients that have expired go together.
LEMMA AlarmKeeps ==
  ASSUME Timed, OnAlrm
  PROVE  Chain' /\ Aged' /\ order' \in Seq(Client) /\ left' \in [Client -> -Late .. None]
         /\ \A c \in Client : left'[c] = IF Expired(c) THEN None ELSE left[c]
<1> DEFINE n == Len(order)
<1>1. /\ n \in Nat
      /\ \A i \in 1 .. n : order[i] \in Client /\ order[i] # Null /\ Place(i) = order[i]
      /\ \A i : i \notin 1 .. n => Place(i) = Null
  BY OrderIs DEF Timed
<1>2. PICK k \in 0 .. n : \A i \in 1 .. n : Expired(order[i]) <=> i <= k
  BY FrontExpired
<1>3. /\ Cardinality(Fetched) = k /\ Walk[k] = Place(k + 1)
      /\ \A c \in Client : c \in Due <=> Expired(c)
      /\ IsCut(order, Due, 0, k)
  BY <1>2, FetchTakes
<1>4. /\ beg' = Place(k + 1) /\ end' = end
      /\ next' = [c \in Client |-> IF Expired(c) THEN Null ELSE next[c]]
      /\ prev' = [c \in Client |-> IF Expired(c) \/ c = Place(k + 1) THEN Null ELSE prev[c]]
      /\ left' = [c \in Client |-> IF Expired(c) THEN None ELSE left[c]]
      /\ order' = Without(order, Due)
  BY <1>3 DEF OnAlrm, FetchDue
<1>5. left \in [Client -> -Late .. None] /\ None \in -Late .. None /\ ~(None <= 0)
  BY TimersAssumption DEF Timed, TimersTypeOK, None
<1>6. \A i, j \in 1 .. n : order[i] = order[j] => i = j
  BY DEF Timed, Chain
<1>7. \A i \in 1 .. n : prev[order[i]] = Place(i - 1) /\ next[order[i]] = Place(i + 1)
  BY DEF Timed, Chain
<1>8. /\ order' \in Seq(Client) /\ Len(order') = n - k
      /\ \A m \in Nat : m >= 1 => Place(m)' = Place(m + k)
      /\ Place(0)' = Null
      /\ \A m \in 1 .. n - k : m + k \in 1 .. n /\ order'[m] = order[m + k]
  <2>1. /\ order' \in Seq(Client) /\ Len(order') = n - k
        /\ \A m \in Nat : Place(m)' = Place(IF m <= 0 THEN m ELSE m + k)
        /\ \A m \in 1 .. Len(order') : order'[m] = order[IF m <= 0 THEN m ELSE m + k]
    <3>1. 0 \in Nat /\ k \in Nat
      OBVIOUS
    <3> HIDE DEF n
    <3> QED BY <1>3, <1>4, <3>1, CutPlaces DEF Timed, n
  <2>2. \A m \in 1 .. n - k : m + k \in 1 .. n /\ ~(m <= 0)
    BY <1>1
  <2> HIDE DEF n
  <2>3. \A m \in Nat : m >= 1 => Place(m)' = Place(m + k)
    BY <2>1
  <2>4. Place(0)' = Null
    BY <1>1, <2>1
  <2> QED
    BY <2>1, <2>2, <2>3, <2>4
<1> HIDE DEF n
<1>9. \A m \in 1 .. n - k : ~Expired(order[m + k])
  BY <1>1, <1>2
<1>10. beg' = Place(1)'
  <2>1. 1 \in Nat /\ 1 + k = k + 1
    OBVIOUS
  <2>2. Place(1)' = Place(1 + k)
    BY <1>8
  <2> QED
    BY <1>4, <2>1, <2>2
<1>11. order' # <<>> => end' = Place(Len(order))'
  <2> SUFFICES ASSUME order' # <<>> PROVE end' = Place(Len(order))'
    OBVIOUS
  <2>1. n - k \in 1 .. n - k /\ (n - k) + k = n
    BY <1>1, <1>8
  <2>2. Place(Len(order))' = order'[n - k] /\ order'[n - k] = order[n]
    BY <1>8, <2>1 DEF Place
  <2>3. order # <<>> /\ n \in 1 .. n
    BY <1>1, <1>2, <2>1 DEF n
  <2>4. end = Place(n)
    BY <2>3 DEF Timed, Chain, n
  <2> QED
    BY <1>1, <1>4, <2>2, <2>3, <2>4
<1>12. ASSUME NEW i \in 1 .. n - k
       PROVE  prev'[order'[i]] = Place(i - 1)' /\ next'[order'[i]] = Place(i + 1)'
  <2> DEFINE o == i + k
  <2>1. o \in 1 .. n /\ order'[i] = order[o] /\ order[o] \in Client /\ ~Expired(order[o])
    BY <1>1, <1>8, <1>9
  <2>2. order[o] = Place(k + 1) <=> i = 1
    <3>1. CASE k + 1 \in 1 .. n
      <4>1. Place(k + 1) = order[k + 1]
        BY <1>1, <3>1
      <4>2. order[o] = order[k + 1] <=> o = k + 1
        BY <1>6, <2>1, <3>1
      <4> QED
        BY <1>1, <4>1, <4>2
    <3>2. CASE k + 1 \notin 1 .. n
      BY <1>1, <3>2
    <3> QED
      BY <3>1, <3>2
  <2>3. prev'[order[o]] = IF i = 1 THEN Null ELSE Place(o - 1)
    BY <1>4, <1>7, <2>1, <2>2
  <2>4. next'[order[o]] = Place(o + 1)
    BY <1>4, <1>7, <2>1
  <2>5. Place(i + 1)' = Place((i + 1) + k) /\ (i + 1) + k = o + 1
    BY <1>8
  <2>6. Place(i - 1)' = IF i = 1 THEN Null ELSE Place(o - 1)
    <3>1. CASE i = 1
      BY <1>8, <3>1
    <3>2. CASE i # 1
      <4>1. i - 1 \in Nat /\ i - 1 >= 1 /\ (i - 1) + k = o - 1
        BY <3>2
      <4> HIDE DEF o
      <4> QED BY <1>8, <3>2, <4>1
    <3> QED
      BY <3>1, <3>2
  <2> QED
    BY <2>1, <2>3, <2>4, <2>5, <2>6
<1>13. \A i, j \in 1 .. n - k : order'[i] = order'[j] => i = j
  <2> SUFFICES ASSUME NEW i \in 1 .. n - k, NEW j \in 1 .. n - k, order'[i] = order'[j]
               PROVE  i = j
    OBVIOUS
  <2>1. i + k = j + k
    BY <1>6, <1>8
  <2> QED
    BY <1>1, <2>1
<1>14. \A c \in Client : left'[c] = IF Expired(c) THEN None ELSE left[c]
  BY <1>4
<1>15. ASSUME NEW c \in Client
       PROVE  left'[c] # None <=> \E i \in 1 .. n - k : order'[i] = c
  <2>1. left[c] # None <=> \E i \in 1 .. n : order[i] = c
    BY DEF Timed, Chain, n
  <2>2. ASSUME NEW i \in 1 .. n, order[i] = c, ~Expired(c)
        PROVE  \E m \in 1 .. n - k : order'[m] = c
    <3>1. i - k \in 1 .. n - k /\ (i - k) + k = i
      BY <1>1, <1>2, <2>2
    <3>2. order'[i - k] = c
      BY <1>8, <2>2, <3>1
    <3> QED
      BY <3>1, <3>2
  <2>3. ASSUME NEW m \in 1 .. n - k, order'[m] = c
        PROVE  ~Expired(c) /\ \E i \in 1 .. n : order[i] = c
    BY <1>8, <1>9, <2>3
  <2> QED
    BY <1>14, <2>1, <2>2, <2>3
<1>16. Chain'
  BY <1>8, <1>10, <1>11, <1>12, <1>13, <1>15 DEF Chain
<1>17. Aged'
  <2> SUFFICES ASSUME NEW i \in 1 .. n - k, NEW j \in 1 .. n - k, i <= j
               PROVE  left'[order'[i]] <= left'[order'[j]]
    BY <1>8 DEF Aged
  <2>1. i + k \in 1 .. n /\ j + k \in 1 .. n /\ i + k <= j + k
    BY <1>1, <1>8
  <2>2. left[order[i + k]] <= left[order[j + k]]
    BY <2>1 DEF Timed, Aged, n
  <2>3. /\ order'[i] = order[i + k] /\ order'[j] = order[j + k]
        /\ left'[order[i + k]] = left[order[i + k]] /\ left'[order[j + k]] = left[order[j + k]]
    BY <1>1, <1>8, <1>9, <1>14, <2>1
  <2> QED
    BY <2>2, <2>3
<1> QED
  BY <1>4, <1>5, <1>8, <1>14, <1>16, <1>17

\* A half second goes by: all that are counted get older, and no two change places.
LEMMA TickKeeps ==
  ASSUME Timed, AlarmCovers, Tick
  PROVE  TimersTypeOK' /\ Chain' /\ Aged' /\ AlarmCovers'
<1>1. /\ half \in {0, 1} /\ half' = 1 - half
      /\ left \in [Client -> -Late .. None] /\ alarm \in 0 .. 2 * Timeout
      /\ left' = [c \in Client |-> IF left[c] = None \/ half = 0 \/ left[c] = -Late
                                   THEN left[c] ELSE left[c] - 1]
      /\ alarm' = IF alarm = 0 THEN 0 ELSE alarm - 1
      /\ ringing' = (ringing \/ alarm = 1)
      /\ UNCHANGED <<beg, end, prev, next, waiting, order, lost>>
  BY DEF Tick, Timed, TimersTypeOK
<1>2. Timeout \in Nat /\ Late \in Nat /\ Late >= 1 /\ None \in Nat
  BY TimersAssumption DEF None
<1>3. left' \in [Client -> -Late .. None]
  BY <1>1, <1>2
<1>4. \A c \in Client : left'[c] # None <=> left[c] # None
  BY <1>1, <1>2
<1>5. Chain'
  BY <1>1, <1>4, SameList DEF Timed
<1>6. \A c, d \in Client : /\ left[c] # None /\ left[d] # None /\ left[c] <= left[d]
                           => left'[c] <= left'[d]
  BY <1>1, <1>2
<1>7. Aged'
  <2> SUFFICES ASSUME NEW i \in 1 .. Len(order), NEW j \in 1 .. Len(order), i <= j
               PROVE  left'[order[i]] <= left'[order[j]]
    BY <1>1 DEF Aged
  <2>1. order[i] \in Client /\ order[j] \in Client
    BY OrderIs DEF Timed
  <2>2. left[order[i]] # None /\ left[order[j]] # None
    BY <2>1 DEF Timed, Chain
  <2>3. left[order[i]] <= left[order[j]]
    BY DEF Timed, Aged
  <2> QED
    BY <1>6, <2>1, <2>2, <2>3
<1>8. TimersTypeOK'
  <2>1. ringing' \in BOOLEAN
    BY <1>1 DEF Timed, TimersTypeOK
  <2>2. alarm' \in 0 .. 2 * Timeout /\ half' \in {0, 1}
    BY <1>1, <1>2
  <2> QED
    BY <1>1, <1>3, <2>1, <2>2 DEF Timed, TimersTypeOK
<1>9. AlarmCovers'
  <2> SUFFICES ASSUME beg # Null, ~lost, ~ringing, alarm # 1
               PROVE  alarm' > 0 /\ alarm' <= 2 * left'[beg] + 1 - half'
    BY <1>1 DEF AlarmCovers
  <2>1. beg \in Client /\ left[beg] # None
    <3>1. beg \in Client
      BY DEF Timed, TimersTypeOK, Pointer
    <3>2. beg = Place(1)
      BY DEF Timed, Chain
    <3>3. 1 \in 1 .. Len(order) /\ order[1] = beg
      BY <3>2 DEF Place
    <3> QED
      BY <3>1, <3>3 DEF Timed, Chain
  <2>2. alarm > 0 /\ alarm <= 2 * left[beg] + 1 - half
    BY DEF AlarmCovers
  <2> QED
    BY <1>1, <1>2, <2>1, <2>2
<1> QED
  BY <1>5, <1>7, <1>8, <1>9

\* alarm is called for the first client of the new list.
LEMMA AlarmIsSet ==
  ASSUME order' \in Seq(Client), left' \in [Client -> -Late .. None], Chain',
         SetAlarm, half \in {0, 1}, half' = half
  PROVE  beg' \in Pointer /\ alarm' \in 0 .. 2 * Timeout /\ lost' \in BOOLEAN /\ AlarmCovers'
<1>1. beg' = IF 1 \in 1 .. Len(order') THEN order'[1] ELSE Null
  BY DEF Chain, Place
<1>2. beg' = Null \/ (beg' \in Client /\ left'[beg'] # None)
  <2>1. ASSUME 1 \in 1 .. Len(order') PROVE order'[1] \in Client /\ left'[order'[1]] # None
    <3>1. order'[1] \in Client
      BY <2>1
    <3> QED
      BY <2>1, <3>1 DEF Chain
  <2> QED
    BY <1>1, <2>1
<1>3. /\ alarm' = IF beg' = Null \/ left'[beg'] <= 0 THEN 0 ELSE 2 * left'[beg']
      /\ lost' = (beg' # Null /\ left'[beg'] <= 0)
  BY DEF SetAlarm
<1>4. beg' = Null \/ (left'[beg'] \in Int /\ left'[beg'] <= Timeout)
  BY <1>2, TimersAssumption DEF None
<1>5. alarm' \in 0 .. 2 * Timeout
  BY <1>3, <1>4, TimersAssumption
<1>6. lost' \in BOOLEAN
  BY <1>3
<1>7. AlarmCovers'
  <2> SUFFICES ASSUME beg' # Null, ~(left'[beg'] <= 0)
               PROVE  alarm' > 0 /\ alarm' <= 2 * left'[beg'] + 1 - half'
    BY <1>3 DEF AlarmCovers
  <2> QED
    BY <1>3, <1>4
<1> QED
  BY <1>2, <1>5, <1>6, <1>7 DEF Pointer

\* Every step keeps the list, its order, and the alarm.
LEMMA NextTimed ==
  ASSUME Timed, AlarmCovers, [TimersNext]_timersVars
  PROVE  Timed' /\ AlarmCovers'
<1>1. /\ beg \in Pointer /\ end \in Pointer
      /\ prev \in [Client -> Pointer] /\ next \in [Client -> Pointer] /\ half \in {0, 1}
      /\ alarm \in 0 .. 2 * Timeout /\ ringing \in BOOLEAN /\ waiting \in BOOLEAN
      /\ lost \in BOOLEAN
  BY DEF Timed, TimersTypeOK
<1>2. CASE Tick
  BY <1>2, TickKeeps DEF Timed
<1>3. CASE Connect \/ UNCHANGED timersVars
  <2>1. UNCHANGED <<list, half, alarm, ringing, order, lost>> /\ waiting' \in BOOLEAN
    BY <1>1, <1>3 DEF Connect, timersVars
  <2>2. Chain' /\ Aged'
    BY <2>1, SameList DEF list, Timed, Aged
  <2> QED
    BY <2>1, <2>2 DEF list, Timed, TimersTypeOK, AlarmCovers
<1>4. ASSUME NEW c \in Client, Accept(c) PROVE Timed' /\ AlarmCovers'
  <2>1. Chain' /\ Aged' /\ order' \in Seq(Client) /\ left' \in [Client -> -Late .. None]
    BY <1>4, AcceptKeeps
  <2>2. /\ SetAlarm /\ half' = half /\ ringing' = ringing /\ waiting' = FALSE
        /\ end' = c
        /\ next' = [p \in Client |->
                      IF p = c THEN Null ELSE IF beg # Null /\ p = end THEN c ELSE next[p]]
        /\ prev' = [prev EXCEPT ![c] = IF beg = Null THEN Null ELSE end]
    BY <1>4 DEF Accept, Insert
  <2>3. beg' \in Pointer /\ alarm' \in 0 .. 2 * Timeout /\ lost' \in BOOLEAN /\ AlarmCovers'
    BY <1>1, <2>1, <2>2, AlarmIsSet
  <2>4. end' \in Pointer /\ prev' \in [Client -> Pointer] /\ next' \in [Client -> Pointer]
    BY <1>1, <2>2 DEF Pointer
  <2> QED
    BY <1>1, <2>1, <2>2, <2>3, <2>4 DEF Timed, TimersTypeOK
<1>5. ASSUME NEW c \in Client, Cancel(c) PROVE Timed' /\ AlarmCovers'
  <2>1. /\ Chain' /\ Aged' /\ order' \in Seq(Client) /\ left' \in [Client -> -Late .. None]
        /\ \A i \in 1 .. Len(order') : \E k \in 1 .. Len(order) :
             i <= k /\ order'[i] = order[k] /\ left'[order'[i]] = left[order[k]]
    BY <1>5, CancelKeeps
  <2>2. /\ UNCHANGED <<half, alarm, ringing, waiting, lost>>
        /\ end' = IF next[c] = Null THEN prev[c] ELSE end
        /\ beg' = IF prev[c] = Null THEN next[c] ELSE beg
        /\ next' = [p \in Client |->
                      IF p = c THEN Null ELSE IF p = prev[c] THEN next[c] ELSE next[p]]
        /\ prev' = [p \in Client |->
                      IF p = c THEN Null ELSE IF p = next[c] THEN prev[c] ELSE prev[p]]
    BY <1>5 DEF Cancel, Unlink
  <2>3. TimersTypeOK'
    <3>1. prev[c] \in Pointer /\ next[c] \in Pointer /\ Null \in Pointer
      BY <1>1 DEF Pointer
    <3> QED
      BY <1>1, <2>1, <2>2, <3>1 DEF TimersTypeOK
  <2>4. AlarmCovers'
    <3> SUFFICES ASSUME beg' # Null PROVE lost \/ ringing \/
                        (alarm > 0 /\ alarm <= 2 * left'[beg'] + 1 - half)
      BY <2>2 DEF AlarmCovers
    <3>1. 1 \in 1 .. Len(order') /\ beg' = order'[1]
      BY <2>1 DEF Chain, Place
    <3>2. PICK k \in 1 .. Len(order) : left'[beg'] = left[order[k]]
      BY <2>1, <3>1
    <3>3. 1 \in 1 .. Len(order) /\ 1 <= k /\ beg = order[1] /\ beg # Null
      <4>1. 1 \in 1 .. Len(order) /\ 1 <= k
        BY OrderIs DEF Timed
      <4> QED
        BY <4>1, OrderIs DEF Timed, Chain
    <3>4. left[beg] <= left[order[k]]
      BY <3>3 DEF Timed, Aged
    <3>5. left[beg] \in Int /\ left[order[k]] \in Int
      BY <3>3, OrderIs, TimersAssumption DEF Timed, TimersTypeOK, None
    <3> QED
      BY <1>1, <2>2, <3>2, <3>3, <3>4, <3>5, TimersAssumption DEF AlarmCovers
  <2> QED
    BY <2>1, <2>3, <2>4 DEF Timed
<1>6. CASE OnAlrm
  <2>1. Chain' /\ Aged' /\ order' \in Seq(Client) /\ left' \in [Client -> -Late .. None]
    BY <1>6, AlarmKeeps
  <2>2. /\ SetAlarm /\ half' = half /\ ringing' = FALSE /\ waiting' = waiting /\ end' = end
        /\ \E first :
             /\ next' = [c \in Client |-> IF c \in Due THEN Null ELSE next[c]]
             /\ prev' = [c \in Client |-> IF c \in Due \cup {first} THEN Null ELSE prev[c]]
    BY <1>6 DEF OnAlrm, FetchDue
  <2>3. beg' \in Pointer /\ alarm' \in 0 .. 2 * Timeout /\ lost' \in BOOLEAN /\ AlarmCovers'
    BY <1>1, <2>1, <2>2, AlarmIsSet
  <2>4. prev' \in [Client -> Pointer] /\ next' \in [Client -> Pointer]
    BY <1>1, <2>2 DEF Pointer
  <2> QED
    BY <1>1, <2>1, <2>2, <2>3, <2>4 DEF Timed, TimersTypeOK
<1> QED
  BY <1>2, <1>3, <1>4, <1>5, <1>6 DEF TimersNext

\* The list is empty at the start.
LEMMA InitTimed == TimersInit => Timed /\ AlarmCovers
<1> SUFFICES ASSUME TimersInit PROVE Timed /\ AlarmCovers
  OBVIOUS
<1>1. order = <<>> /\ order \in Seq(Client) /\ Len(order) = 0 /\ beg = Null
  BY EmptySeq DEF TimersInit
<1>2. TimersTypeOK
  <2>1. None \in -Late .. None /\ 0 \in 0 .. 2 * Timeout
    BY TimersAssumption DEF None
  <2>2. left \in [Client -> -Late .. None]
    BY <2>1 DEF TimersInit
  <2>3. /\ beg \in Pointer /\ end \in Pointer
        /\ prev \in [Client -> Pointer] /\ next \in [Client -> Pointer]
    BY DEF TimersInit, Pointer
  <2> QED
    BY <1>1, <2>1, <2>2, <2>3 DEF TimersInit, TimersTypeOK
<1>3. Chain
  BY <1>1, TimersAssumption DEF TimersInit, Chain, Place
<1>4. Aged
  BY <1>1 DEF Aged
<1> QED
  BY <1>1, <1>2, <1>3, <1>4 DEF Timed, AlarmCovers

\* What the variables hold, for any clients and any timeout.
THEOREM TimerTypes == TimersSpec => []TimersTypeOK
BY InitTimed, NextTimed, PTL DEF TimersSpec, Timed

\* For any clients and any timeout, the links are the list of the clients that wait for their
\* answer, in the order they came, both ways, whatever was removed or fetched in between.
THEOREM ListIsLinked == TimersSpec => []Linked
BY InitTimed, NextTimed, ChainIsLinked, PTL DEF TimersSpec, Timed

\* The alarm covers the first client, unless connections were accepted in the second in which
\* that one expired.
THEOREM AlarmIsThere == TimersSpec => []AlarmCovers
BY InitTimed, NextTimed, PTL DEF TimersSpec

\* The alarm drops those and only those whose time has come.
THEOREM OnlyExpiredDropped == TimersSpec => DropsExpired
<1>1. ASSUME Timed, OnAlrm, NEW c \in Client
      PROVE  left[c] # None /\ left'[c] = None <=> left[c] <= 0
  <2>1. left'[c] = IF Expired(c) THEN None ELSE left[c]
    BY <1>1, AlarmKeeps
  <2>2. left[c] <= 0 => left[c] # None
    BY TimersAssumption DEF None
  <2> QED
    BY <2>1, <2>2 DEF Expired
<1>2. Timed =>
        [\A c \in Client :
           OnAlrm => (left[c] # None /\ left'[c] = None <=> left[c] <= 0)]_timersVars
  BY <1>1
<1> QED
  BY <1>2, InitTimed, NextTimed, PTL DEF TimersSpec, DropsExpired

-----------------------------------------------------------------------------
(* The announcer *)

\* The two halves of TypeOK: the provers that reason about numbers are not those
\* that reason about Boolean variables.
Switches == alarmSet \in BOOLEAN /\ fresh \in BOOLEAN /\ lull \in BOOLEAN

Counters ==
  /\ pc \in {"alarm", "select", "woken", "reaped", "read", "serve", "stopped"}
  /\ ret \in {"start", "signal"}
  /\ pending \subseteq Signal /\ flags \subseteq Signal
  /\ sock \in 0 .. MaxSock
  /\ queue \in 0 .. QueueSize /\ (pc \notin {"read", "serve"} => queue = 0)
  /\ announcers \in Nat /\ answerers \in Nat /\ zombies \in Nat
  /\ forkFails \in 0 .. MaxForkFails

LEMMA Halves == TypeOK <=> Switches /\ Counters
  BY DEF TypeOK, Switches, Counters

\* A switch is set, cleared or left alone.
LEMMA SwitchesStep ==
  ASSUME Switches, [Next]_vars
  PROVE  Switches'
<1> USE DEF Switches
<1>1. CASE Loop
  BY <1>1 DEF Loop, OnAlarm, OnAlarmNoFork, SelectReady, Interrupt, Reap, WokenDone, ReadOne,
              ReadDone, Serve, ServeDone, Bye
<1>2. CASE Announce \/ Respond
  BY <1>2 DEF Announce, Respond
<1>3. CASE Lull \/ Noise \/ Datagram \/ AlarmRings \/ Expire \/ Terminate
  BY <1>3 DEF Lull, Noise, Datagram, AlarmRings, Expire, Terminate
<1>4. CASE UNCHANGED vars
  BY <1>4 DEF vars
<1> QED
  BY <1>1, <1>2, <1>3, <1>4 DEF Next

\* No counter leaves its range, and the queue is served before the next pselect.
LEMMA CountersStep ==
  ASSUME Counters, [Next]_vars
  PROVE  Counters'
<1> USE SsdpAssumption DEF SsdpAssumption, Counters, Signal
<1>1. CASE OnAlarm
  BY <1>1 DEF OnAlarm, AlarmReturns
<1>2. CASE OnAlarmNoFork
  BY <1>2 DEF OnAlarmNoFork, AlarmReturns, ForkFails, kids
<1>3. CASE SelectReady
  BY <1>3 DEF SelectReady, kids
<1>4. CASE Interrupt
  BY <1>4 DEF Interrupt, kids
<1>5. CASE Reap
  BY <1>5 DEF Reap
<1>6. CASE WokenDone
  BY <1>6 DEF WokenDone, kids
<1>7. CASE ReadOne
  BY <1>7 DEF ReadOne, kids
<1>8. CASE ReadDone
  BY <1>8 DEF ReadDone, kids
<1>9. CASE Serve
  BY <1>9 DEF Serve, ForkFails
<1>10. CASE ServeDone
  BY <1>10 DEF ServeDone, kids
<1>11. CASE Bye
  BY <1>11 DEF Bye, kids
<1>12. CASE Announce
  BY <1>12 DEF Announce, Exits
<1>13. CASE Respond
  BY <1>13 DEF Respond, Exits
<1>14. CASE Lull
  BY <1>14 DEF Lull, kids
<1>15. CASE Noise
  BY <1>15 DEF Noise, kids
<1>16. CASE Datagram
  BY <1>16 DEF Datagram, kids
<1>17. CASE AlarmRings
  BY <1>17 DEF AlarmRings, kids
<1>18. CASE Expire
  BY <1>18 DEF Expire, kids
<1>19. CASE Terminate
  BY <1>19 DEF Terminate, kids
<1>20. CASE UNCHANGED vars
  BY <1>20 DEF vars, kids
<1> QED
  BY <1>1, <1>2, <1>3, <1>4, <1>5, <1>6, <1>7, <1>8, <1>9, <1>10, <1>11, <1>12,
     <1>13, <1>14, <1>15, <1>16, <1>17, <1>18, <1>19, <1>20 DEF Next, Loop

\* What the variables hold; the queue never outgrows ssdp_queue_size and is
\* empty when pselect sleeps (ssdp.cpp, the recvfrom loop and doit).
THEOREM AnnouncerTypes == Spec => []TypeOK
<1>1. Init => Switches
  BY DEF Init, Switches
<1>2. Init => Counters
  BY SsdpAssumption DEF Init, Counters, Signal, SsdpAssumption
<1>3. TypeOK /\ [Next]_vars => TypeOK'
  <2> SUFFICES ASSUME TypeOK, [Next]_vars PROVE (Switches /\ Counters)'
    BY DEF TypeOK, Switches, Counters
  <2> QED
    BY Halves, SwitchesStep, CountersStep
<1> QED
  BY <1>1, <1>2, <1>3, Halves, PTL DEF Spec

-----------------------------------------------------------------------------
\* No child that ended is forgotten: SIGCHLD is pending, or its flag is about
\* to be looked at.  A child that ends between the last wait4 and the clearing
\* of the flag leaves its signal pending, since signals are blocked there.
THEOREM NoChildIsLost == Spec => []NoLostChild
<1>1. Init => NoLostChild
  BY DEF Init, NoLostChild
<1>2. TypeOK /\ NoLostChild /\ [Next]_vars => NoLostChild'
  <2> SUFFICES ASSUME TypeOK, NoLostChild, [Next]_vars PROVE NoLostChild'
    OBVIOUS
  <2> USE DEF NoLostChild
  <2>1. CASE Interrupt
    BY <2>1 DEF Interrupt, kids
  <2>2. CASE Reap
    BY <2>2 DEF Reap, TypeOK
  <2>3. CASE WokenDone
    BY <2>3 DEF WokenDone, kids, TypeOK
  <2>4. CASE Announce \/ Respond
    BY <2>4 DEF Announce, Respond, Exits
  <2>5. CASE \/ OnAlarm \/ OnAlarmNoFork \/ SelectReady \/ ReadOne \/ ReadDone
             \/ Serve \/ ServeDone \/ Bye
    BY <2>5 DEF OnAlarm, OnAlarmNoFork, AlarmReturns, SelectReady, ReadOne, ReadDone,
                Serve, ServeDone, Bye, kids
  <2>6. CASE Lull \/ Noise \/ Datagram \/ AlarmRings \/ Expire \/ Terminate \/ UNCHANGED vars
    BY <2>6 DEF Lull, Noise, Datagram, AlarmRings, Expire, Terminate, vars, kids
  <2> QED
    BY <2>1, <2>2, <2>3, <2>4, <2>5, <2>6 DEF Next, Loop
<1> QED
  BY <1>1, <1>2, AnnouncerTypes, PTL DEF Spec

-----------------------------------------------------------------------------
\* Until a fork fails the next announcement is always due: the alarm is set, or
\* it rang and its signal, its flag or the call of on_alarm is left.
THEOREM AlarmIsKept == Spec => []AlarmKept
<1>1. Init => AlarmKept
  BY DEF Init, AlarmKept
<1>2. TypeOK /\ TypeOK' /\ AlarmKept /\ [Next]_vars => AlarmKept'
  <2> SUFFICES ASSUME TypeOK, TypeOK', AlarmKept, [Next]_vars PROVE AlarmKept'
    OBVIOUS
  <2> USE DEF AlarmKept
  <2>1. CASE OnAlarm \/ AlarmRings
    BY <2>1 DEF OnAlarm, AlarmRings
  <2>2. CASE OnAlarmNoFork
    BY <2>2 DEF OnAlarmNoFork, ForkFails, TypeOK
  <2>3. CASE Interrupt
    BY <2>3 DEF Interrupt
  <2>4. CASE WokenDone
    BY <2>4 DEF WokenDone
  <2>5. CASE Serve
    BY <2>5, SsdpAssumption DEF SsdpAssumption, Serve, ForkFails, TypeOK
  <2>6. CASE SelectReady \/ Reap \/ ReadOne \/ ReadDone \/ ServeDone \/ Bye
    BY <2>6 DEF SelectReady, Reap, ReadOne, ReadDone, ServeDone, Bye
  <2>7. CASE Announce \/ Respond
    BY <2>7 DEF Announce, Respond, Exits
  <2>8. CASE Lull \/ Noise \/ Datagram \/ Expire \/ Terminate \/ UNCHANGED vars
    BY <2>8 DEF Lull, Noise, Datagram, Expire, Terminate, vars
  <2> QED
    BY <2>1, <2>2, <2>3, <2>4, <2>5, <2>6, <2>7, <2>8 DEF Next, Loop
<1> QED
  BY <1>1, <1>2, AnnouncerTypes, PTL DEF Spec

================================================================================
