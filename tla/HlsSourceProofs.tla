----------------------------- MODULE HlsSourceProofs -----------------------------
(***************************************************************************)
(* Proofs about HlsSource for any hosts, bodies of any length, any size of *)
(* packets and any numbers of tries.                                       *)
(*                                                                         *)
(* Everything rests on one fact: an answer is accepted only if the buffer  *)
(* of its connection was empty, since its head has to come first.  Then    *)
(* on_data is given what has come of the body, and nothing is left.        *)
(***************************************************************************)
EXTENDS HlsSource, SequenceTheorems, FiniteSetTheorems, WellFoundedInduction, TLAPS

-----------------------------------------------------------------------------
(* Numbers *)

\* A set of natural numbers has a least one.
LEMMA LeastNumber ==
  ASSUME NEW S \in SUBSET Nat, S # {}
  PROVE  Min(S) \in S /\ \A x \in S : Min(S) <= x
<1> DEFINE T == {0 .. x : x \in S}
<1>1. T \subseteq FiniteSubsetsOf(Nat) /\ T # {}
  <2>1. ASSUME NEW x \in S PROVE 0 .. x \in FiniteSubsetsOf(Nat)
    <3>1. IsFiniteSet(0 .. x)
      BY FS_Interval
    <3> QED
      BY <3>1 DEF FiniteSubsetsOf
  <2> QED
    BY <2>1
<1>2. IsWellFoundedOn(StrictSubsetOrdering(Nat), FiniteSubsetsOf(Nat))
  BY FS_StrictSubsetOrderingWellFounded
<1>3. PICK X \in T : \A Y \in T : ~ (<<Y, X>> \in StrictSubsetOrdering(Nat))
  <2> HIDE DEF T
  <2> QED BY <1>1, <1>2, WFMin
<1>4. PICK m \in S : X = 0 .. m
  OBVIOUS
<1>5. ASSUME NEW x \in S PROVE m <= x
  <2>1. ~ (<<0 .. x, 0 .. m>> \in StrictSubsetOrdering(Nat))
    BY <1>3, <1>4
  <2>2. 0 .. x \subseteq Nat /\ 0 .. m \subseteq Nat
    OBVIOUS
  <2>3. SUFFICES ASSUME x < m PROVE FALSE
    OBVIOUS
  <2>4. 0 .. x \subseteq 0 .. m /\ 0 .. x # 0 .. m
    BY <2>3
  <2> QED
    BY <2>1, <2>2, <2>4 DEF StrictSubsetOrdering
<1> QED
  BY <1>5 DEF Min

\* There is only one remainder.
LEMMA OneRemainder ==
  ASSUME NEW p \in Nat \ {0}, NEW q1 \in Nat, NEW q2 \in Nat,
         NEW r1 \in 0 .. p - 1, NEW r2 \in 0 .. p - 1,
         p * q1 + r1 = p * q2 + r2
  PROVE  r1 = r2
<1>1. CASE q1 = q2
  BY <1>1
<1>2. CASE q1 < q2
  <2>1. p * q2 >= p * (q1 + 1)
    BY <1>2
  <2>2. p * (q1 + 1) = p * q1 + p
    OBVIOUS
  <2> QED
    BY <2>1, <2>2
<1>3. CASE q2 < q1
  <2>1. p * q1 >= p * (q2 + 1)
    BY <1>3
  <2>2. p * (q2 + 1) = p * q2 + p
    OBVIOUS
  <2> QED
    BY <2>1, <2>2
<1> QED
  BY <1>1, <1>2, <1>3

LEMMA Division ==
  ASSUME NEW p \in Nat \ {0}, NEW a \in Nat
  PROVE  a % p \in 0 .. p - 1 /\ a \div p \in Nat /\ a = p * (a \div p) + (a % p)
<1>1. a % p \in 0 .. p - 1
  OBVIOUS
<1>2. a \div p \in Int
  OBVIOUS
<1>3. a = p * (a \div p) + (a % p)
  OBVIOUS
<1>4. a \div p \in Nat
  BY <1>1, <1>2, <1>3
<1> QED
  BY <1>1, <1>3, <1>4

LEMMA RemainderIs ==
  ASSUME NEW p \in Nat \ {0}, NEW q \in Nat, NEW r \in 0 .. p - 1
  PROVE  (p * q + r) % p = r
<1>1. p * q + r \in Nat
  OBVIOUS
<1> DEFINE a == p * q + r
<1>2. a % p \in 0 .. p - 1 /\ a \div p \in Nat /\ a = p * (a \div p) + (a % p)
  BY <1>1, Division
<1> QED
  BY <1>2, OneRemainder

\* Counting modulo p, as the pipe does.
LEMMA CountModulo ==
  ASSUME NEW p \in Nat \ {0}, NEW a \in Nat, NEW n \in Nat
  PROVE  ((a % p) + n) % p = (a + n) % p
<1> DEFINE r == a % p
           b == r + n
<1>1. r \in 0 .. p - 1 /\ a \div p \in Nat /\ a = p * (a \div p) + r
  BY Division
<1>2. b \in Nat
  BY <1>1
<1>3. b % p \in 0 .. p - 1 /\ b \div p \in Nat /\ b = p * (b \div p) + (b % p)
  BY <1>2, Division
<1> DEFINE qa == a \div p
           qb == b \div p
           rb == b % p
<1>4. a + n = p * (qa + qb) + rb
  <2> HIDE DEF qa, qb, rb, r
  <2>1. a = p * qa + r /\ b = p * qb + rb
    BY <1>1, <1>3 DEF qa, qb, rb
  <2>2. p * (qa + qb) = p * qa + p * qb
    BY <1>1, <1>3 DEF qa, qb
  <2>3. qa \in Nat /\ qb \in Nat /\ rb \in Nat /\ r \in Nat
    BY <1>1, <1>3 DEF qa, qb, rb
  <2> QED
    BY <2>1, <2>2, <2>3
<1>5. (p * (qa + qb) + rb) % p = rb
  <2>1. qa + qb \in Nat /\ rb \in 0 .. p - 1
    BY <1>1, <1>3
  <2> HIDE DEF qa, qb, rb
  <2> QED
    BY <2>1, RemainderIs
<1> QED
  BY <1>4, <1>5

\* What is missing to a multiple of p.
LEMMA FilledUp ==
  ASSUME NEW p \in Nat \ {0}, NEW r \in 0 .. p - 1
  PROVE  (r + ((p - r) % p)) % p = 0
<1>1. p % p = 0 /\ 0 % p = 0
  BY RemainderIs, p * 1 + 0 = p, p * 0 + 0 = 0
<1>2. CASE r = 0
  BY <1>1, <1>2
<1>3. CASE r # 0
  <2>1. p - r \in 0 .. p - 1 /\ p * 0 + (p - r) = p - r
    BY <1>3
  <2>2. (p - r) % p = p - r
    BY <2>1, RemainderIs
  <2> QED
    BY <1>1, <2>2
<1> QED
  BY <1>2, <1>3

-----------------------------------------------------------------------------
(* Buffers *)

Token == [is : {"head", "data", "page", "old"}, n : Nat, blank : BOOLEAN]

LEMMA AnswerTypes ==
  ASSUME NEW a \in Answer
  PROVE  /\ Len(a.body) \in Nat /\ a.body \in [1 .. Len(a.body) -> BOOLEAN]
         /\ a.early \in Nat /\ a.all \in Nat /\ a.early <= a.all /\ a.all <= Len(a.body)
         /\ a.ok \in BOOLEAN /\ a.told \in BOOLEAN /\ a.location \in Host \cup {Nowhere}
<1>1. PICK n \in 0 .. MaxBody : a.body \in [1 .. n -> BOOLEAN]
  BY DEF Answer
<1>2. n \in Nat
  BY <1>1, SourceAssumption
<1>3. Len(a.body) = n
  BY <1>1, <1>2
<1> QED
  BY <1>1, <1>2, <1>3, SourceAssumption DEF Answer

\* Pieces of a body are a sequence.
LEMMA PiecesAre ==
  ASSUME NEW a \in Answer, NEW k \in Nat, NEW m \in Nat, k >= 1, m <= Len(a.body), m >= k - 1
  PROVE  /\ Pieces(a, k, m) \in Seq(Token)
         /\ Len(Pieces(a, k, m)) = m - k + 1
         /\ \A i \in 1 .. m - k + 1 : Pieces(a, k, m)[i] = Piece(a, k + i - 1)
<1>1. /\ Len(a.body) \in Nat /\ a.body \in [1 .. Len(a.body) -> BOOLEAN]
      /\ a.ok \in BOOLEAN
  BY AnswerTypes
<1>2. ASSUME NEW i \in 1 .. (m - k + 1) PROVE Piece(a, k + i - 1) \in Token
  BY <1>1, <1>2 DEF Piece, Token
<1>3. m - k + 1 \in Nat
  OBVIOUS
<1> DEFINE N == m - k + 1
           f == [i \in 1 .. N |-> Piece(a, k + i - 1)]
<1> HIDE DEF Token, Piece, N
<1>4. N \in Nat /\ \A i \in 1 .. N : Piece(a, k + i - 1) \in Token
  BY <1>2, <1>3 DEF N
<1>5. f \in Seq(Token) /\ Len(f) = N /\ \A i \in 1 .. N : f[i] = Piece(a, k + i - 1)
  BY <1>4
<1>6. f = Pieces(a, k, m)
  BY DEF Pieces, N
<1> QED
  BY <1>5, <1>6 DEF N

LEMMA FirstPieces ==
  ASSUME NEW a \in Answer, NEW m \in Nat, m <= Len(a.body)
  PROVE  /\ Pieces(a, 1, m) \in Seq(Token) /\ Len(Pieces(a, 1, m)) = m
         /\ \A i \in 1 .. m : Pieces(a, 1, m)[i] = Piece(a, i)
<1> HIDE DEF Token, Piece
<1>1. /\ Pieces(a, 1, m) \in Seq(Token) /\ Len(Pieces(a, 1, m)) = m - 1 + 1
      /\ \A i \in 1 .. m - 1 + 1 : Pieces(a, 1, m)[i] = Piece(a, 1 + i - 1)
  <2>1. 1 \in Nat /\ 1 >= 1 /\ m >= 1 - 1
    OBVIOUS
  <2> HIDE DEF Pieces
  <2> QED
    BY <2>1, PiecesAre
<1>2. ASSUME NEW i \in 1 .. m PROVE Pieces(a, 1, m)[i] = Piece(a, i)
  <2>1. i \in 1 .. m - 1 + 1 /\ 1 + i - 1 = i
    OBVIOUS
  <2> QED
    BY <1>1, <2>1
<1> QED
  BY <1>1, <1>2

LEMMA LaterPieces ==
  ASSUME NEW a \in Answer, NEW e \in Nat, NEW m \in Nat, e <= m, m <= Len(a.body)
  PROVE  /\ Pieces(a, e + 1, m) \in Seq(Token) /\ Len(Pieces(a, e + 1, m)) = m - e
         /\ \A i \in 1 .. m - e : Pieces(a, e + 1, m)[i] = Piece(a, e + i)
<1> HIDE DEF Token, Piece
<1>1. PICK k \in Nat : k = e + 1
  OBVIOUS
<1>2. /\ Pieces(a, k, m) \in Seq(Token) /\ Len(Pieces(a, k, m)) = m - k + 1
      /\ \A i \in 1 .. m - k + 1 : Pieces(a, k, m)[i] = Piece(a, k + i - 1)
  <2>1. k >= 1 /\ m >= k - 1
    BY <1>1
  <2> HIDE DEF Pieces
  <2> QED
    BY <2>1, PiecesAre
<1>3. m - k + 1 = m - e
  BY <1>1
<1>4. ASSUME NEW i \in 1 .. m - e PROVE Pieces(a, k, m)[i] = Piece(a, e + i)
  <2>1. k + i - 1 = e + i
    BY <1>1
  <2> QED
    BY <1>2, <1>3, <2>1
<1>5. Pieces(a, e + 1, m) = Pieces(a, k, m)
  BY <1>1
<1> QED
  BY <1>2, <1>3, <1>4, <1>5

\* What has been left is a sequence, of neither heads nor data.
LEMMA OldIs ==
  ASSUME TypeOK, host \in Host
  PROVE  /\ Old \in Seq(Token)
         /\ Len(Old) = Len(left[host])
         /\ \A i \in DOMAIN Old : Old[i].is = "old"
<1>1. left[host] \in Seq(BOOLEAN)
  BY DEF TypeOK
<1>2. PICK n \in Nat : DOMAIN left[host] = 1 .. n /\ left[host] \in [1 .. n -> BOOLEAN]
  BY <1>1
<1>3. ASSUME NEW i \in 1 .. n PROVE [is |-> "old", n |-> i, blank |-> left[host][i]] \in Token
  BY <1>2, <1>3 DEF Token
<1> HIDE DEF Token
<1>4. Old \in [1 .. n -> Token]
  BY <1>2, <1>3 DEF Old
<1> QED
  BY <1>2, <1>4 DEF Old

\* A segment is the head and what follows it at once.
LEMMA SegmentIs ==
  ASSUME NEW a \in Answer
  PROVE  /\ Segment(a) \in Seq(Token)
         /\ Len(Segment(a)) = a.early + 1
         /\ Segment(a)[1] = TheHead
         /\ \A i \in 1 .. a.early : Segment(a)[i + 1] = Piece(a, i)
<1>1. /\ Len(a.body) \in Nat /\ a.early \in Nat /\ a.early <= Len(a.body)
  BY AnswerTypes
<1> DEFINE p == Pieces(a, 1, a.early)
<1>2. /\ p \in Seq(Token) /\ Len(p) = a.early /\ \A i \in 1 .. a.early : p[i] = Piece(a, i)
  BY <1>1, FirstPieces
<1> HIDE DEF p
<1>3. <<TheHead>> \in Seq(Token) /\ Len(<<TheHead>>) = 1 /\ <<TheHead>>[1] = TheHead
  <2>1. TheHead \in Token
    BY DEF TheHead, Token
  <2> HIDE DEF Token, TheHead
  <2> QED
    BY <2>1
<1>4. /\ <<TheHead>> \o p \in Seq(Token)
      /\ Len(<<TheHead>> \o p) = 1 + a.early
      /\ \A i \in 1 .. 1 + a.early :
           (<<TheHead>> \o p)[i] = IF i <= 1 THEN <<TheHead>>[i] ELSE p[i - 1]
  <2> HIDE DEF Token, TheHead
  <2> QED
    BY <1>2, <1>3, ConcatProperties
<1>5. Segment(a) = <<TheHead>> \o p
  BY DEF Segment, p
<1> HIDE DEF Token, TheHead
<1>6. Segment(a)[1] = TheHead
  BY <1>1, <1>3, <1>4, <1>5
<1>7. ASSUME NEW i \in 1 .. a.early PROVE Segment(a)[i + 1] = Piece(a, i)
  BY <1>1, <1>2, <1>4, <1>5
<1> QED
  BY <1>1, <1>4, <1>5, <1>6, <1>7

\* What is behind a head is always a sequence.
LEMMA AfterHeadIs ==
  ASSUME NEW buffer \in Seq(Token)
  PROVE  AfterHead(buffer) \in Seq(Token)
<1>1. CASE EmptyLines(buffer) = {}
  BY <1>1 DEF AfterHead
<1>2. CASE EmptyLines(buffer) # {}
  <2>1. EmptyLines(buffer) \in SUBSET Nat /\ EmptyLines(buffer) \subseteq 1 .. Len(buffer)
    <3> HIDE DEF Token
    <3> QED BY DEF EmptyLines
  <2>2. Min(EmptyLines(buffer)) \in 1 .. Len(buffer)
    BY <1>2, <2>1, LeastNumber
  <2> HIDE DEF Token
  <2> DEFINE m == Min(EmptyLines(buffer))
  <2>3. \A i \in m + 1 .. Len(buffer) : buffer[i] \in Token
    BY <2>2
  <2>4. SubSeq(buffer, m + 1, Len(buffer)) \in Seq(Token)
    <3>1. m + 1 \in Int /\ Len(buffer) \in Int
      BY <2>2
    <3> HIDE DEF m
    <3> QED
      BY <2>3, <3>1, SubSeqProperties
  <2> QED
    BY <1>2, <2>4 DEF AfterHead
<1> QED
  BY <1>1, <1>2

\* Behind the head of a segment there is the body.
LEMMA AfterSegment ==
  ASSUME NEW a \in Answer
  PROVE  AfterHead(Segment(a)) = Pieces(a, 1, a.early)
<1> DEFINE s == Segment(a)
<1>0. /\ Len(a.body) \in Nat /\ a.early \in Nat /\ a.early <= Len(a.body)
  BY AnswerTypes
<1>1. /\ s \in Seq(Token) /\ Len(s) = a.early + 1 /\ s[1] = TheHead
      /\ \A i \in 1 .. a.early : s[i + 1] = Piece(a, i)
  BY SegmentIs
<1> HIDE DEF s, Token
<1>2. EmptyLines(s) \in SUBSET Nat /\ EmptyLines(s) \subseteq 1 .. Len(s) /\ 1 \in EmptyLines(s)
  BY <1>0, <1>1 DEF EmptyLines, TheHead
<1>3. Min(EmptyLines(s)) = 1
  <2>1. Min(EmptyLines(s)) \in EmptyLines(s) /\ Min(EmptyLines(s)) <= 1
    BY <1>2, LeastNumber
  <2> QED
    BY <1>2, <2>1
<1>4. AfterHead(s) = SubSeq(s, 2, a.early + 1)
  BY <1>0, <1>1, <1>2, <1>3 DEF AfterHead
<1>5. /\ SubSeq(s, 2, a.early + 1) \in Seq(Token)
      /\ Len(SubSeq(s, 2, a.early + 1)) = a.early
      /\ \A i \in 1 .. a.early : SubSeq(s, 2, a.early + 1)[i] = s[i + 1]
  <2>1. \A i \in 2 .. a.early + 1 : s[i] \in Token
    BY <1>0, <1>1
  <2>2. /\ SubSeq(s, 2, a.early + 1) \in Seq(Token)
        /\ Len(SubSeq(s, 2, a.early + 1)) = IF 2 <= a.early + 1 THEN (a.early + 1) - 2 + 1 ELSE 0
        /\ \A i \in 1 .. (a.early + 1) - 2 + 1 : SubSeq(s, 2, a.early + 1)[i] = s[2 + i - 1]
    BY <1>0, <2>1, SubSeqProperties
  <2> QED
    BY <1>0, <2>2
<1> DEFINE p == Pieces(a, 1, a.early)
<1>6. /\ p \in Seq(Token) /\ Len(p) = a.early /\ \A i \in 1 .. a.early : p[i] = Piece(a, i)
  BY <1>0, FirstPieces
<1> HIDE DEF p
<1>7. SubSeq(s, 2, a.early + 1) = p
  <2>1. \A i \in 1 .. a.early : SubSeq(s, 2, a.early + 1)[i] = p[i]
    BY <1>0, <1>1, <1>5, <1>6
  <2> QED
    BY <1>0, <1>5, <1>6, <2>1, SeqEqual
<1> QED
  BY <1>4, <1>7 DEF s, p

\* With nothing left, the answer is all there is to read.
LEMMA NothingLeft ==
  ASSUME TypeOK, host \in Host, NEW a \in Answer, left[host] = <<>>
  PROVE  Buffer(Segment(a)) = Segment(a) /\ (Is200(a) <=> a.ok)
<1>1. Old \in Seq(Token) /\ Len(Old) = 0
  <2>1. Old \in Seq(Token) /\ Len(Old) = Len(left[host])
    BY OldIs
  <2> QED
    BY <2>1
<1> HIDE DEF Token
<1>2. Old = <<>>
  BY <1>1
<1>3. EmptyLines(Old) = {}
  BY <1>2 DEF EmptyLines
<1>4. Segment(a) \in Seq(Token) /\ Segment(a)[1] = TheHead
  BY SegmentIs
<1>5. Buffer(Segment(a)) = Segment(a)
  BY <1>2, <1>3, <1>4, ConcatEmptySeq DEF Buffer
<1> QED
  BY <1>4, <1>5 DEF Is200, TheHead

\* A status line is read only from an empty buffer.
LEMMA HeadFirst ==
  ASSUME TypeOK, host \in Host, NEW a \in Answer, Is200(a)
  PROVE  left[host] = <<>> /\ a.ok
<1>1. Old \in Seq(Token) /\ Len(Old) = Len(left[host]) /\ \A i \in DOMAIN Old : Old[i].is = "old"
  BY OldIs
<1>2. Segment(a) \in Seq(Token)
  BY SegmentIs
<1> HIDE DEF Token
<1>3. ASSUME Len(Old) # 0 PROVE FALSE
  <2>1. Len(Old) \in Nat /\ 1 \in DOMAIN Old /\ 1 \in 1 .. Len(Old)
    BY <1>1, <1>3
  <2>2. (Old \o Segment(a))[1] = Old[1]
    BY <1>1, <1>2, <2>1, ConcatProperties
  <2>3. Buffer(Segment(a))[1] = Old[1]
    BY <2>2 DEF Buffer
  <2>4. Old[1].is = "old"
    BY <1>1, <2>1
  <2> QED
    BY <2>3, <2>4 DEF Is200
<1>4. left[host] \in Seq(BOOLEAN) /\ Len(left[host]) = 0
  BY <1>1, <1>3 DEF TypeOK
<1>5. left[host] = <<>>
  BY <1>4
<1> QED
  BY <1>5 DEF Is200

\* What came with the head and what came after it make up the body.
LEMMA BodySplit ==
  ASSUME NEW a \in Answer
  PROVE  Pieces(a, 1, a.early) \o Pieces(a, a.early + 1, a.all) = Pieces(a, 1, a.all)
<1>0. /\ Len(a.body) \in Nat /\ a.early \in Nat /\ a.all \in Nat
      /\ a.early <= a.all /\ a.all <= Len(a.body)
  BY AnswerTypes
<1> DEFINE p == Pieces(a, 1, a.early)
           q == Pieces(a, a.early + 1, a.all)
           b == Pieces(a, 1, a.all)
<1>1. /\ p \in Seq(Token) /\ Len(p) = a.early /\ \A i \in 1 .. a.early : p[i] = Piece(a, i)
  BY <1>0, FirstPieces
<1>2. /\ b \in Seq(Token) /\ Len(b) = a.all /\ \A i \in 1 .. a.all : b[i] = Piece(a, i)
  BY <1>0, FirstPieces
<1>3. /\ q \in Seq(Token) /\ Len(q) = a.all - a.early
      /\ \A i \in 1 .. a.all - a.early : q[i] = Piece(a, a.early + i)
  BY <1>0, LaterPieces
<1> HIDE DEF p, q, b, Token, Piece
<1>4. /\ p \o q \in Seq(Token) /\ Len(p \o q) = a.all
      /\ \A i \in 1 .. a.all : (p \o q)[i] = IF i <= a.early THEN p[i] ELSE q[i - a.early]
  <2>1. /\ p \o q \in Seq(Token) /\ Len(p \o q) = Len(p) + Len(q)
        /\ \A i \in 1 .. Len(p) + Len(q) : (p \o q)[i] = IF i <= Len(p) THEN p[i] ELSE q[i - Len(p)]
    BY <1>1, <1>3, ConcatProperties
  <2>2. Len(p) + Len(q) = a.all
    BY <1>0, <1>1, <1>3
  <2>3. Len(p) = a.early
    BY <1>1
  <2> QED
    BY <2>1, <2>2, <2>3
<1>5. ASSUME NEW i \in 1 .. a.all PROVE (p \o q)[i] = b[i]
  <2>1. CASE i <= a.early
    <3>1. i \in 1 .. a.early
      BY <1>0, <2>1
    <3>2. p[i] = Piece(a, i) /\ b[i] = Piece(a, i)
      BY <1>1, <1>2, <3>1
    <3>3. (p \o q)[i] = p[i]
      BY <1>4, <2>1
    <3> QED
      BY <3>2, <3>3
  <2>2. CASE ~ (i <= a.early)
    <3>1. i - a.early \in 1 .. a.all - a.early /\ a.early + (i - a.early) = i
      BY <1>0, <2>2
    <3>2. q[i - a.early] = Piece(a, i)
      BY <1>3, <3>1
    <3> QED
      BY <1>2, <1>4, <2>2, <3>2
  <2> QED
    BY <2>1, <2>2
<1>6. p \o q = b
  BY <1>0, <1>2, <1>4, <1>5, SeqEqual
<1> QED
  BY <1>6 DEF p, q, b

LEMMA LeaveNothing ==
  ASSUME Leave(<<>>)
  PROVE  left' = [left EXCEPT ![host] = <<>>]
<1> DEFINE f == [i \in DOMAIN <<>> |-> <<>>[i].blank]
<1>1. DOMAIN <<>> = 1 .. 0
  <2>1. <<>> \in Seq(Nat) /\ Len(<<>>) = 0
    OBVIOUS
  <2>2. \A q \in Seq(Nat) : DOMAIN q = 1 .. Len(q)
    OBVIOUS
  <2> QED
    BY <2>1, <2>2
<1>2. f \in [1 .. 0 -> BOOLEAN]
  BY <1>1
<1>3. left' = [left EXCEPT ![host] = f]
  BY DEF Leave
<1> HIDE DEF f
<1>4. f \in Seq(BOOLEAN) /\ Len(f) = 0
  BY <1>2
<1>5. f = <<>>
  BY <1>4
<1> QED
  BY <1>3, <1>5

\* An accepted answer: on_data is given what came of its body, and nothing is left.
LEMMA AcceptedIs ==
  ASSUME TypeOK, host \in Host, NEW a \in Answer, Accepted(a)
  PROVE  /\ a.ok /\ left[host] = <<>>
         /\ OnData(Pieces(a, 1, a.all)) /\ Len(Pieces(a, 1, a.all)) = a.all
         /\ left' = [left EXCEPT ![host] = <<>>]
         /\ Perform(a.told => a.all = Len(a.body), a.location)
         /\ spoiled' = IF a.told => a.all = Len(a.body) THEN spoiled \ {host} ELSE spoiled
         /\ wronged' = (wronged \/ (~(a.told => a.all = Len(a.body)) /\ a.all = Len(a.body)
                                    /\ host \notin spoiled))
<1>0. /\ Len(a.body) \in Nat /\ a.all \in Nat /\ a.all <= Len(a.body) /\ a.told \in BOOLEAN
  BY AnswerTypes
<1> DEFINE b == Pieces(a, 1, a.all)
<1>1. a.ok /\ left[host] = <<>>
  BY HeadFirst DEF Accepted
<1>2. AfterHead(Buffer(Segment(a))) \o Pieces(a, a.early + 1, a.all) = b
  BY <1>1, NothingLeft, AfterSegment, BodySplit
<1>3. b \in Seq(Token) /\ Len(b) = a.all
  BY <1>0, FirstPieces
<1> HIDE DEF b, Token
<1> DEFINE n == IF a.told THEN Min({Len(a.body), Len(b)}) ELSE Len(b)
           whole == a.told => n = Len(a.body)
<1>4. /\ OnData(SubSeq(b, 1, n))
      /\ Leave(SubSeq(b, n + 1, Len(b)))
      /\ Perform(whole, a.location)
      /\ spoiled' = IF whole THEN spoiled \ {host} ELSE spoiled
      /\ wronged' = (wronged \/ (~whole /\ a.all = Len(a.body) /\ host \notin spoiled))
  BY <1>2 DEF Accepted
<1>5. n = a.all
  <2>1. {Len(a.body), Len(b)} \in SUBSET Nat /\ {Len(a.body), Len(b)} # {}
    BY <1>0, <1>3
  <2>2. Min({Len(a.body), Len(b)}) = a.all
    <3>1. /\ Min({Len(a.body), Len(b)}) \in {Len(a.body), Len(b)}
          /\ \A x \in {Len(a.body), Len(b)} : Min({Len(a.body), Len(b)}) <= x
      BY <2>1, LeastNumber
    <3> QED
      BY <1>0, <1>3, <3>1
  <2> QED
    BY <1>3, <2>2
<1>6. SubSeq(b, 1, a.all) = b
  <2>1. \A i \in 1 .. a.all : b[i] \in Token
    BY <1>3
  <2>2. /\ SubSeq(b, 1, a.all) \in Seq(Token)
        /\ Len(SubSeq(b, 1, a.all)) = IF 1 <= a.all THEN a.all - 1 + 1 ELSE 0
        /\ \A i \in 1 .. a.all - 1 + 1 : SubSeq(b, 1, a.all)[i] = b[1 + i - 1]
    BY <1>0, <2>1, SubSeqProperties
  <2>3. Len(SubSeq(b, 1, a.all)) = Len(b) /\ \A i \in 1 .. Len(b) : SubSeq(b, 1, a.all)[i] = b[i]
    BY <1>0, <1>3, <2>2
  <2> QED
    BY <1>3, <2>2, <2>3, SeqEqual
<1>7. SubSeq(b, a.all + 1, a.all) = <<>>
  BY <1>0
<1>8. left' = [left EXCEPT ![host] = <<>>]
  BY <1>3, <1>4, <1>5, <1>7, LeaveNothing
<1> HIDE DEF n
<1>9. whole <=> (a.told => a.all = Len(a.body))
  BY <1>5
<1> QED
  BY <1>1, <1>3, <1>4, <1>5, <1>6, <1>8, <1>9 DEF b

-----------------------------------------------------------------------------
(* Types *)

LEMMA LeaveIs ==
  ASSUME TypeOK, host \in Host, NEW buffer \in Seq(Token), Leave(buffer)
  PROVE  left' \in [Host -> Seq(BOOLEAN)]
<1>1. PICK n \in Nat : DOMAIN buffer = 1 .. n /\ \A i \in 1 .. n : buffer[i] \in Token
  <2> HIDE DEF Token
  <2> QED OBVIOUS
<1>2. [i \in DOMAIN buffer |-> buffer[i].blank] \in [1 .. n -> BOOLEAN]
  BY <1>1 DEF Token
<1>3. [i \in DOMAIN buffer |-> buffer[i].blank] \in Seq(BOOLEAN)
  BY <1>2
<1> QED
  BY <1>3 DEF Leave, TypeOK

LEMMA BufferIs ==
  ASSUME TypeOK, host \in Host, NEW segment \in Seq(Token)
  PROVE  AfterHead(Buffer(segment)) \in Seq(Token)
<1>1. Old \in Seq(Token)
  BY OldIs
<1> HIDE DEF Token
<1>2. Buffer(segment) \in Seq(Token)
  BY <1>1, ConcatProperties DEF Buffer
<1> QED
  BY <1>2, AfterHeadIs

LEMMA PerformIs ==
  ASSUME TypeOK, pc = "ask", NEW ok \in BOOLEAN, NEW location \in Host \cup {Nowhere},
         Perform(ok, location)
  PROVE  pc' \in {"ask", "done"} /\ host' \in Host /\ try' \in Nat /\ rc' \in BOOLEAN
BY DEF Perform, TypeOK

LEMMA OnDataIs ==
  ASSUME TypeOK, NEW pieces \in Seq(Token), OnData(pieces)
  PROVE  sent' \in Nat /\ pipe' \in Nat
<1> HIDE DEF Token
<1>1. Len(pieces) \in Nat
  OBVIOUS
<1>2. sent \in Nat /\ pipe \in Nat /\ Packet \in Nat \ {0}
  BY SourceAssumption DEF TypeOK
<1>3. sent + Len(pieces) \in Nat /\ (pipe + Len(pieces)) % Packet \in Nat
  BY <1>1, <1>2
<1> QED
  BY <1>2, <1>3 DEF OnData

LEMMA RequestTypes ==
  ASSUME TypeOK, Request
  PROVE  TypeOK'
<1> USE SourceAssumption DEF doitVars
<1>1. pc = "ask" /\ host \in Host
  BY DEF Request, Unreachable, NoHead, Refused, Accepted, TypeOK
<1>2. CASE Unreachable
  <2>1. pc' \in {"ask", "done"} /\ host' \in Host /\ try' \in Nat /\ rc' \in BOOLEAN
    BY <1>1, <1>2, PerformIs DEF Unreachable
  <2> QED
    BY <1>2, <2>1 DEF Unreachable, TypeOK
<1>3. CASE NoHead
  <2>1. pc' \in {"ask", "done"} /\ host' \in Host /\ try' \in Nat /\ rc' \in BOOLEAN
    BY <1>1, <1>3, PerformIs DEF NoHead
  <2>2. left' \in [Host -> Seq(BOOLEAN)]
    <3>1. <<>> \in Seq(Token)
      OBVIOUS
    <3> HIDE DEF Token
    <3> QED
      BY <1>1, <1>3, <3>1, BufferIs, LeaveIs DEF NoHead
  <2> QED
    BY <1>3, <2>1, <2>2 DEF NoHead, TypeOK
<1>4. ASSUME NEW a \in Answer, Refused(a) PROVE TypeOK'
  <2>1. pc' \in {"ask", "done"} /\ host' \in Host /\ try' \in Nat /\ rc' \in BOOLEAN
    <3>1. (IF TheHead \in ToSet(Buffer(Segment(a))) THEN a.location ELSE Nowhere)
             \in Host \cup {Nowhere}
      BY AnswerTypes
    <3> QED
      BY <1>1, <1>4, <3>1, PerformIs DEF Refused
  <2>2. left' \in [Host -> Seq(BOOLEAN)]
    <3>1. Segment(a) \in Seq(Token)
      BY SegmentIs
    <3> HIDE DEF Token
    <3> QED
      BY <1>1, <1>4, <3>1, BufferIs, LeaveIs DEF Refused
  <2>3. wronged' \in BOOLEAN /\ spoiled' \subseteq Host
    BY <1>1, <1>4 DEF Refused, TypeOK
  <2> QED
    BY <1>4, <2>1, <2>2, <2>3 DEF Refused, TypeOK
<1>5. ASSUME NEW a \in Answer, Accepted(a) PROVE TypeOK'
  <2> DEFINE whole == a.told => a.all = Len(a.body)
  <2>1. /\ OnData(Pieces(a, 1, a.all))
        /\ left' = [left EXCEPT ![host] = <<>>]
        /\ Perform(whole, a.location)
        /\ spoiled' = IF whole THEN spoiled \ {host} ELSE spoiled
        /\ wronged' = (wronged \/ (~whole /\ a.all = Len(a.body) /\ host \notin spoiled))
    BY <1>1, <1>5, AcceptedIs
  <2>2. whole \in BOOLEAN /\ a.location \in Host \cup {Nowhere}
    BY AnswerTypes
  <2>3. sent' \in Nat /\ pipe' \in Nat
    <3>1. Pieces(a, 1, a.all) \in Seq(Token)
      BY AnswerTypes, FirstPieces
    <3> HIDE DEF Token
    <3> QED
      BY <2>1, <3>1, OnDataIs
  <2> HIDE DEF whole
  <2>4. pc' \in {"ask", "done"} /\ host' \in Host /\ try' \in Nat /\ rc' \in BOOLEAN
    BY <1>1, <2>1, <2>2, PerformIs
  <2>5. left' \in [Host -> Seq(BOOLEAN)]
    BY <1>1, <2>1 DEF TypeOK
  <2>6. wronged' \in BOOLEAN /\ spoiled' \subseteq Host
    BY <1>1, <2>1 DEF TypeOK
  <2>7. UNCHANGED <<what, list, listTry, prefill, fails, silent>>
    BY <1>5 DEF Accepted
  <2> QED
    BY <2>3, <2>4, <2>5, <2>6, <2>7 DEF TypeOK
<1> QED
  BY <1>2, <1>3, <1>4, <1>5 DEF Request

LEMMA DoitTypes ==
  ASSUME TypeOK, Doit
  PROVE  TypeOK'
<1> USE SourceAssumption DEF TypeOK, Ask, AskFragment, NextListTry, reqVars, doitVars, history
<1>1. CASE Loop
  BY <1>1 DEF Loop
<1>2. CASE AskList
  BY <1>2 DEF AskList, ChannelHost
<1>3. CASE NoTranslation
  BY <1>3 DEF NoTranslation
<1>4. CASE ListFound
  BY <1>4 DEF ListFound
<1>5. CASE ListNotFound
  BY <1>5 DEF ListNotFound
<1>6. CASE ChunkFound
  BY <1>6 DEF ChunkFound
<1>7. CASE ChunkNotFound
  <2>1. fails' \in Nat /\ prefill' = FALSE
    <3>1. fails + 1 \in Nat
      OBVIOUS
    <3> QED
      BY <1>7, <3>1 DEF ChunkNotFound, CountFail
  <2> QED
    BY <1>7, <2>1 DEF ChunkNotFound
<1>8. CASE ChunkDone
  <2>1. Padding \in Nat
    <3>1. sent % Packet \in 0 .. Packet - 1 /\ Packet \in Nat \ {0}
      OBVIOUS
    <3>2. Packet - (sent % Packet) \in Nat
      BY <3>1
    <3> QED
      BY <3>1, <3>2 DEF Padding
  <2>2. (pipe + Padding) % Packet \in Nat
    BY <2>1
  <2> QED
    BY <1>8, <2>2 DEF ChunkDone
<1>9. CASE AskUrl
  BY <1>9 DEF AskUrl, ChannelHost
<1>10. CASE Ends
  BY <1>10 DEF Ends
<1> QED
  BY <1>1, <1>2, <1>3, <1>4, <1>5, <1>6, <1>7, <1>8, <1>9, <1>10 DEF Doit

\* The type invariant of the source.
THEOREM TypeCorrect == Spec => []TypeOK
<1>1. Init => TypeOK
  <2> SUFFICES ASSUME Init PROVE TypeOK
    OBVIOUS
  <2>1. <<>> \in Seq(BOOLEAN)
    OBVIOUS
  <2> QED
    BY <2>1 DEF Init, TypeOK
<1>2. TypeOK /\ [Next]_vars => TypeOK'
  <2> SUFFICES ASSUME TypeOK, [Next]_vars PROVE TypeOK'
    OBVIOUS
  <2>1. CASE Silence
    BY <2>1 DEF Silence, TypeOK, doitVars, reqVars, history
  <2>2. CASE UNCHANGED vars
    BY <2>2 DEF TypeOK, vars, doitVars, reqVars, history
  <2> QED
    BY <2>1, <2>2, RequestTypes, DoitTypes DEF Next
<1> QED
  BY <1>1, <1>2, PTL DEF Spec

-----------------------------------------------------------------------------
(* Whose bytes they are *)

\* doit does not touch connections.
LEMMA DoitLeaves ==
  ASSUME Doit
  PROVE  UNCHANGED <<left, got, spoiled, wronged>>
BY DEF Doit, Loop, AskList, NoTranslation, ListFound, ListNotFound, ChunkFound, ChunkNotFound,
       ChunkDone, AskUrl, Ends, history

LEMMA RequestAsks ==
  ASSUME TypeOK, Request
  PROVE  pc = "ask" /\ host \in Host
BY DEF Request, Unreachable, NoHead, Refused, Accepted, TypeOK

\* on_data is given the body of the answer to the request, and nothing else.
THEOREM OnlyOwn == Spec => []Own
<1>1. Init => Own
  BY DEF Init, Own
<1>2. TypeOK /\ Own /\ [Next]_vars => Own'
  <2> SUFFICES ASSUME TypeOK, Own, [Next]_vars PROVE Own'
    OBVIOUS
  <2>1. CASE UNCHANGED got
    BY <2>1 DEF Own
  <2>2. CASE got' = <<>>
    BY <2>2 DEF Own
  <2>3. ASSUME NEW a \in Answer, Accepted(a), Request PROVE Own'
    <3>1. host \in Host
      BY <2>3, RequestAsks
    <3>2. a.ok /\ got' = Pieces(a, 1, a.all)
      BY <2>3, <3>1, AcceptedIs DEF OnData
    <3>3. a.all \in Nat /\ a.all <= Len(a.body)
      BY AnswerTypes
    <3>4. /\ Pieces(a, 1, a.all) \in Seq(Token) /\ Len(Pieces(a, 1, a.all)) = a.all
          /\ \A i \in 1 .. a.all : Pieces(a, 1, a.all)[i] = Piece(a, i)
      BY <3>3, FirstPieces
    <3>5. DOMAIN got' = 1 .. a.all /\ \A i \in 1 .. a.all : got'[i] = Piece(a, i)
      <4> HIDE DEF Token
      <4> QED
        BY <3>2, <3>3, <3>4
    <3>6. \A i \in 1 .. a.all : Piece(a, i).is = "data" /\ Piece(a, i).n = i
      BY <3>2 DEF Piece
    <3> HIDE DEF Piece
    <3> QED
      BY <3>5, <3>6 DEF Own
  <2>4. CASE Request
    BY <2>2, <2>3, <2>4 DEF Request, Unreachable, NoHead, Refused
  <2>5. CASE Silence
    BY <2>1, <2>5 DEF Silence, history
  <2>6. CASE UNCHANGED vars
    BY <2>1, <2>6 DEF vars, history
  <2> QED
    BY <2>1, <2>4, <2>5, <2>6, DoitLeaves DEF Next
<1> QED
  BY <1>1, <1>2, TypeCorrect, PTL DEF Spec

\* Nothing is left in the connections of hosts that have not spoiled theirs.
Clean == \A h \in Host \ spoiled : left[h] = <<>>

\* What is read of nothing is nothing.
LEMMA NothingFrom ==
  ASSUME TypeOK, host \in Host, left[host] = <<>>, Leave(AfterHead(Buffer(<<>>)))
  PROVE  left' = [left EXCEPT ![host] = <<>>]
<1>1. Old = <<>>
  <2>1. Old \in Seq(Token) /\ Len(Old) = 0
    <3>1. Old \in Seq(Token) /\ Len(Old) = Len(left[host])
      BY OldIs
    <3> QED
      BY <3>1
  <2> HIDE DEF Token
  <2> QED
    BY <2>1
<1>2. DOMAIN <<>> = {}
  OBVIOUS
<1>3. EmptyLines(<<>>) = {}
  BY <1>2 DEF EmptyLines
<1>4. Buffer(<<>>) = <<>>
  <2>1. <<>> \o <<>> = <<>>
    OBVIOUS
  <2> QED
    BY <1>1, <1>3, <2>1 DEF Buffer
<1>5. AfterHead(Buffer(<<>>)) = <<>>
  BY <1>3, <1>4 DEF AfterHead
<1> QED
  BY <1>5, LeaveNothing

LEMMA CleanStays ==
  ASSUME TypeOK, Clean, ~wronged, Request
  PROVE  Clean' /\ ~wronged'
<1>1. host \in Host
  BY RequestAsks
<1>2. left \in [Host -> Seq(BOOLEAN)]
  BY DEF TypeOK
<1>3. CASE Unreachable
  BY <1>3 DEF Unreachable, Clean
<1>4. CASE NoHead
  <2>1. Leave(AfterHead(Buffer(<<>>))) /\ spoiled' = spoiled /\ wronged' = wronged
    BY <1>4 DEF NoHead
  <2>2. CASE host \in spoiled
    BY <1>2, <2>1, <2>2 DEF Clean, Leave
  <2>3. CASE host \notin spoiled
    <3>1. left' = [left EXCEPT ![host] = <<>>]
      BY <1>1, <2>1, <2>3, NothingFrom DEF Clean
    <3> QED
      BY <1>2, <2>1, <3>1 DEF Clean
  <2> QED
    BY <2>2, <2>3
<1>5. ASSUME NEW a \in Answer, Refused(a) PROVE Clean' /\ ~wronged'
  <2>1. /\ Leave(AfterHead(Buffer(Segment(a)))) /\ ~Is200(a)
        /\ spoiled' = IF ~a.ok /\ a.early > 0 THEN spoiled \cup {host} ELSE spoiled
        /\ wronged' = (wronged \/ (a.ok /\ a.all = Len(a.body) /\ host \notin spoiled))
    BY <1>5 DEF Refused
  <2>2. CASE host \in spoiled
    BY <1>1, <1>2, <2>1, <2>2 DEF Clean, Leave
  <2>3. CASE host \notin spoiled
    <3>1. left[host] = <<>>
      BY <1>1, <2>3 DEF Clean
    <3>2. Buffer(Segment(a)) = Segment(a) /\ ~a.ok
      BY <1>1, <2>1, <3>1, NothingLeft
    <3>3. ~wronged'
      BY <2>1, <3>2
    <3>4. CASE a.early > 0
      BY <1>1, <1>2, <2>1, <3>2, <3>3, <3>4 DEF Clean, Leave
    <3>5. CASE ~ (a.early > 0)
      <4>1. a.early = 0
        BY <3>5, AnswerTypes
      <4>2. Pieces(a, 1, a.early) \in Seq(Token) /\ Len(Pieces(a, 1, a.early)) = 0
        BY <4>1, AnswerTypes, FirstPieces
      <4>3. Pieces(a, 1, a.early) = <<>>
        <5> HIDE DEF Token
        <5> QED BY <4>2
      <4>4. left' = [left EXCEPT ![host] = <<>>]
        BY <2>1, <3>2, <4>3, AfterSegment, LeaveNothing
      <4> QED
        BY <1>2, <2>1, <3>3, <3>5, <4>4 DEF Clean
    <3> QED
      BY <3>4, <3>5
  <2> QED
    BY <2>2, <2>3
<1>6. ASSUME NEW a \in Answer, Accepted(a) PROVE Clean' /\ ~wronged'
  <2> DEFINE whole == a.told => a.all = Len(a.body)
  <2>1. /\ left' = [left EXCEPT ![host] = <<>>]
        /\ spoiled' = IF whole THEN spoiled \ {host} ELSE spoiled
        /\ wronged' = (wronged \/ (~whole /\ a.all = Len(a.body) /\ host \notin spoiled))
    BY <1>1, <1>6, AcceptedIs
  <2>2. ~wronged'
    BY <2>1
  <2> HIDE DEF whole
  <2> QED
    BY <1>2, <2>1, <2>2 DEF Clean
<1> QED
  BY <1>3, <1>4, <1>5, <1>6 DEF Request

\* An answer that came whole fails only at a host that has spoiled its connection.
THEOREM OnlySpoiledFail == Spec => []FailsOnlyIfSpoiled
<1> DEFINE Inv == Clean /\ ~wronged
<1>1. Init => Inv
  BY DEF Init, Clean
<1>2. TypeOK /\ Inv /\ [Next]_vars => Inv'
  <2> SUFFICES ASSUME TypeOK, Inv, [Next]_vars PROVE Inv'
    OBVIOUS
  <2>1. CASE UNCHANGED <<left, spoiled, wronged>>
    BY <2>1 DEF Clean
  <2>2. CASE Request
    BY <2>2, CleanStays
  <2>3. CASE Silence
    BY <2>1, <2>3 DEF Silence, history
  <2>4. CASE UNCHANGED vars
    BY <2>1, <2>4 DEF vars, history
  <2> QED
    BY <2>1, <2>2, <2>3, <2>4, DoitLeaves DEF Next
<1>3. Inv => FailsOnlyIfSpoiled
  BY DEF FailsOnlyIfSpoiled
<1> HIDE DEF Inv
<1> QED
  BY <1>1, <1>2, <1>3, TypeCorrect, PTL DEF Spec

-----------------------------------------------------------------------------
(* Whole packets *)

\* What is in the pipe, for each request: nothing of a packet but while a fragment comes, and
\* then as much as the request has written.
InPipe ==
  /\ pc \in {"top", "list"} => pipe = 0
  /\ pc = "top" => what \in {"none", "url"}
  /\ pc = "list" => what \in {"none", "list"}
  /\ pc \in {"ask", "done"} =>
       /\ what # "none"
       /\ what \in {"list", "first", "next"} => pipe = 0
       /\ what = "chunk" => pipe = sent % Packet

LEMMA InPipeRequest ==
  ASSUME TypeOK, InPipe, Request
  PROVE  InPipe'
<1>1. pc = "ask" /\ host \in Host
  BY RequestAsks
<1>2. pc' \in {"ask", "done"} /\ what' = what
  BY <1>1 DEF Request, Unreachable, NoHead, Refused, Accepted, Perform, doitVars
<1>3. CASE UNCHANGED <<sent, pipe>>
  BY <1>1, <1>2, <1>3 DEF InPipe
<1>4. ASSUME NEW a \in Answer, Accepted(a) PROVE InPipe'
  <2> DEFINE n == a.all
  <2>1. n \in Nat /\ sent \in Nat /\ Packet \in Nat \ {0}
    BY AnswerTypes, SourceAssumption DEF TypeOK
  <2>2. IF ToPipe THEN sent' = sent + n /\ pipe' = (pipe + n) % Packet
        ELSE UNCHANGED <<sent, pipe>>
    BY <1>1, <1>4, AcceptedIs DEF OnData
  <2> HIDE DEF n
  <2>3. CASE what = "chunk"
    <3>1. pipe' = ((sent % Packet) + n) % Packet /\ sent' = sent + n
      BY <1>1, <2>2, <2>3 DEF ToPipe, InPipe
    <3>2. pipe' = sent' % Packet
      BY <2>1, <3>1, CountModulo
    <3> QED
      BY <1>2, <2>3, <3>2 DEF InPipe
  <2>4. CASE what = "url"
    BY <1>2, <2>4 DEF InPipe
  <2>5. CASE what \notin {"chunk", "url"}
    BY <1>3, <2>2, <2>5 DEF ToPipe
  <2> QED
    BY <2>3, <2>4, <2>5
<1> QED
  BY <1>3, <1>4 DEF Request, Unreachable, NoHead, Refused

LEMMA InPipeDoit ==
  ASSUME TypeOK, InPipe, Doit
  PROVE  InPipe'
<1> USE DEF InPipe, Ask, AskFragment, NextListTry, reqVars, doitVars, history
<1>0. Packet \in Nat \ {0} /\ sent \in Nat /\ 0 % Packet = 0
  <2>1. Packet \in Nat \ {0} /\ sent \in Nat
    BY SourceAssumption DEF TypeOK
  <2> QED
    BY <2>1, RemainderIs, Packet * 0 + 0 = 0
<1>1. CASE Loop
  BY <1>1 DEF Loop
<1>2. CASE AskList
  BY <1>2 DEF AskList
<1>3. CASE NoTranslation
  BY <1>3 DEF NoTranslation
<1>4. CASE ListFound
  BY <1>4 DEF ListFound
<1>5. CASE ListNotFound
  BY <1>5 DEF ListNotFound
<1>6. CASE ChunkFound
  BY <1>0, <1>6 DEF ChunkFound
<1>7. CASE ChunkNotFound
  BY <1>7 DEF ChunkNotFound
<1>8. CASE ChunkDone
  <2>1. sent % Packet \in 0 .. Packet - 1
    BY <1>0
  <2>2. (pipe + Padding) % Packet = 0
    BY <1>0, <1>8, <2>1, FilledUp DEF ChunkDone, Padding
  <2> QED
    BY <1>8, <2>2 DEF ChunkDone
<1>9. CASE AskUrl
  BY <1>9 DEF AskUrl
<1>10. CASE Ends
  BY <1>10 DEF Ends
<1> QED
  BY <1>1, <1>2, <1>3, <1>4, <1>5, <1>6, <1>7, <1>8, <1>9, <1>10 DEF Doit

\* Between fragments there are whole packets in the pipe.
THEOREM PipeAligned == Spec => []Aligned
<1>1. Init => InPipe
  BY DEF Init, InPipe
<1>2. TypeOK /\ InPipe /\ [Next]_vars => InPipe'
  <2> SUFFICES ASSUME TypeOK, InPipe, [Next]_vars PROVE InPipe'
    OBVIOUS
  <2>1. CASE Silence
    BY <2>1 DEF Silence, InPipe, doitVars
  <2>2. CASE UNCHANGED vars
    BY <2>2 DEF vars, InPipe, doitVars
  <2> QED
    BY <2>1, <2>2, InPipeRequest, InPipeDoit DEF Next
<1>3. InPipe => Aligned
  BY DEF InPipe, Aligned
<1> QED
  BY <1>1, <1>2, <1>3, TypeCorrect, PTL DEF Spec

================================================================================
