----------------------------- MODULE StreamDataProofs ----------------------------
(***************************************************************************)
(* Proofs about the two places where a part of a stream may be lost, come  *)
(* twice or in a wrong order.                                              *)
(*                                                                         *)
(* EvRing, for a buffer of any size, any number of clients and a stream of *)
(* any length: a client is never offered a byte it has got before or one   *)
(* that was not read from the source, it misses bytes only if the source   *)
(* is more than a buffer ahead of it, and what it misses is whole packets. *)
(*                                                                         *)
(* HlsPlaylist, for playlists of any length, any limits and bodies that    *)
(* end anywhere: the parser has the last fragments it has read, each once, *)
(* and the producer takes them in order.                                   *)
(***************************************************************************)
EXTENDS EvRing, HlsPlaylist, SequenceTheorems, FiniteSetTheorems, WellFoundedInduction, TLAPS

-----------------------------------------------------------------------------
(* The ring buffer *)

\* The place in the stream of the first byte of the round the source is in.
Round == total - wr

\* The place of the byte at rd[c], which the client gets next: a client that stands
\* behind wr is in the same round, one before it in the last one.
Place(c) == IF rd[c] <= wr THEN Round + rd[c] ELSE Round - Size + rd[c]

\* Up to wr the buffer has bytes of this round, from there on those of the last one,
\* if there was one.
Content ==
  \A o \in Offset :
    buf[o] = IF o < wr THEN Round + o ELSE IF rotate THEN Round - Size + o ELSE Nothing

Rounds == (rotate /\ Round >= Size) \/ (~rotate /\ Round = 0)

\* The next byte of a client is the one it is owed, or it was passed by the source and
\* is owed one from an earlier round.
Behind ==
  \A c \in Client : st[c] # "off" =>
    /\ ~rotate => rd[c] <= wr
    /\ owed[c] = Place(c) \/ owed[c] <= Place(c) - Size

RingInv == TypeOK /\ Content /\ Rounds /\ Behind

-----------------------------------------------------------------------------
\* The buffer has room for at least a byte, and attach starts inside it.
LEMMA AlignType == ASSUME NEW n \in Nat PROVE AlignRight(n) \in Nat /\ AlignRight(n) >= n
<1>1. Packet \in Nat /\ Packet > 0
  BY RingAssumption
<1>2. n % Packet \in 0 .. Packet - 1
  BY <1>1
<1> QED
  BY <1>1, <1>2 DEF AlignRight

LEMMA SizeType == Size \in Nat /\ Size > 0
BY AlignType, RingAssumption DEF Size

LEMMA StartType == ASSUME TypeOK PROVE Start \in Offset /\ (~rotate => Start = 0)
<1>1. wr \in Nat /\ wr + 1 \in Nat
  BY SizeType DEF TypeOK, Offset
<1>2. AlignRight(wr + 1) \in Nat
  BY <1>1, AlignType
<1> QED
  BY <1>2, SizeType DEF Start, Offset

LEMMA RingInit == ASSUME Init PROVE RingInv
<1> USE SizeType
<1>1. wr = 0 /\ total = 0 /\ rotate = FALSE /\ Round = 0
  BY DEF Init, Round
<1>2. TypeOK
  <2>1. 0 \in Offset /\ 0 \in Nat
    BY DEF Offset
  <2> QED
    BY <2>1, Zenon DEF Init, TypeOK
<1>3. Content
  BY <1>1 DEF Init, Content, Offset
<1>4. Rounds /\ Behind
  BY <1>1 DEF Init, Rounds, Behind
<1> QED
  BY <1>2, <1>3, <1>4 DEF RingInv

\* A read goes on in the round, or ends it.
LEMMA ReadGoes ==
  ASSUME RingInv, NEW n \in 1 .. Size, Read(n)
  PROVE  \/ wr + n < Size /\ wr' = wr + n /\ rotate' = rotate /\ Round' = Round
         \/ wr + n = Size /\ wr' = 0 /\ rotate' = TRUE /\ Round' = Round + Size
<1>0. /\ wr \in Nat /\ wr < Size /\ total \in Nat /\ Size \in Nat
      /\ n \in Nat /\ n >= 1 /\ n <= Size - wr
  BY SizeType DEF RingInv, TypeOK, Offset, Read
<1>1. /\ wr' = IF wr + n >= Size THEN 0 ELSE wr + n
      /\ rotate' = IF wr + n >= Size THEN TRUE ELSE rotate
      /\ total' = total + n
  BY DEF Read
<1>2. CASE wr + n < Size
  <2>1. ~(wr + n >= Size)
    BY <1>0, <1>2
  <2>2. wr' = wr + n /\ rotate' = rotate
    BY <1>1, <2>1, Zenon
  <2>3. Round' = Round
    BY <1>0, <1>1, <1>2 DEF Round
  <2> QED
    BY <1>2, <2>2, <2>3, Zenon
<1>3. CASE wr + n = Size
  <2>1. wr + n >= Size
    BY <1>0, <1>3
  <2>2. wr' = 0 /\ rotate' = TRUE
    BY <1>1, <2>1, Zenon
  <2>3. Round' = Round + Size
    BY <1>0, <1>1, <1>3 DEF Round
  <2> QED
    BY <1>3, <2>2, <2>3, Zenon
<1>4. wr + n < Size \/ wr + n = Size
  BY <1>0
<1> QED
  BY <1>2, <1>3, <1>4, Zenon

LEMMA ReadKeeps == ASSUME RingInv, NEW n \in 1 .. Size, Read(n) PROVE RingInv'
<1> USE SizeType
<1>0. /\ wr \in Nat /\ wr < Size /\ total \in Nat /\ Offset = 0 .. Size - 1
      /\ n \in Nat /\ n >= 1 /\ n <= Size - wr
      /\ rd \in [Client -> Offset] /\ owed \in [Client -> Nat] /\ Nothing \notin Nat
  BY RingAssumption DEF RingInv, TypeOK, Offset, Read
<1>1. \/ wr + n < Size /\ wr' = wr + n /\ rotate' = rotate /\ Round' = Round
      \/ wr + n = Size /\ wr' = 0 /\ rotate' = TRUE /\ Round' = Round + Size
  BY ReadGoes
<1>2. TypeOK'
  <2>1. buf' \in [Offset -> Nat \cup {Nothing}]
    BY <1>0 DEF RingInv, TypeOK, Read
  <2>2. wr' \in Offset /\ total' \in Nat
    BY <1>0, <1>1 DEF Read
  <2>3. rotate' \in BOOLEAN
    BY <1>1, Zenon DEF RingInv, TypeOK
  <2> QED
    BY <2>1, <2>2, <2>3, Zenon DEF RingInv, TypeOK, Read
<1>3. Content'
  <2> SUFFICES ASSUME NEW o \in Offset
               PROVE (buf[o] = IF o < wr THEN Round + o
                               ELSE IF rotate THEN Round - Size + o ELSE Nothing)'
    BY DEF Content
  <2>1. buf'[o] = IF wr <= o /\ o < wr + n THEN total + o - wr ELSE buf[o]
    BY DEF Read
  <2>2. buf[o] = IF o < wr THEN Round + o ELSE IF rotate THEN Round - Size + o ELSE Nothing
    BY DEF RingInv, Content
  <2>3. o \in Nat /\ o < Size
    BY <1>0
  <2>4. CASE wr + n < Size /\ wr' = wr + n /\ rotate' = rotate /\ Round' = Round
    BY <1>0, <2>1, <2>2, <2>3, <2>4 DEF Round
  <2>5. CASE wr + n = Size /\ wr' = 0 /\ rotate' = TRUE /\ Round' = Round + Size
    BY <1>0, <2>1, <2>2, <2>3, <2>5 DEF Round
  <2> QED
    BY <1>1, <2>4, <2>5
<1>4. Rounds'
  BY <1>0, <1>1 DEF RingInv, Rounds, Round
<1>5. Behind'
  <2> SUFFICES ASSUME NEW c \in Client, st[c] # "off"
               PROVE (/\ ~rotate => rd[c] <= wr
                      /\ owed[c] = Place(c) \/ owed[c] <= Place(c) - Size)'
    BY DEF Behind, Read
  <2>1. rd[c] \in Nat /\ rd[c] < Size /\ owed[c] \in Nat /\ rd'[c] = rd[c] /\ owed'[c] = owed[c]
    BY <1>0 DEF Read
  <2>2. Place(c)' = Place(c) \/ Place(c)' = Place(c) + Size
    BY <1>0, <1>1, <2>1 DEF Place, Round
  <2>3. (~rotate => rd[c] <= wr) /\ (owed[c] = Place(c) \/ owed[c] <= Place(c) - Size)
    BY DEF RingInv, Behind
  <2>4. Place(c) \in Int
    BY <1>0, <2>1 DEF Place, Round
  <2>5. (~rotate => rd[c] <= wr)'
    BY <1>0, <1>1, <2>1, <2>3
  <2> QED
    BY <2>1, <2>2, <2>3, <2>4, <2>5
<1> QED
  BY <1>2, <1>3, <1>4, <1>5 DEF RingInv

LEMMA AttachKeeps == ASSUME RingInv, NEW c \in Client, Attach(c) PROVE RingInv'
<1> USE SizeType
<1>0. /\ wr \in Nat /\ wr < Size /\ total \in Nat /\ Offset = 0 .. Size - 1 /\ rotate \in BOOLEAN
      /\ rd \in [Client -> Offset] /\ owed \in [Client -> Nat]
      /\ st \in [Client -> {"off", "joined", "stream"}] /\ Rounds
  BY DEF RingInv, TypeOK, Offset
<1>1. Start \in Offset /\ (~rotate => Start = 0)
  BY StartType DEF RingInv
<1>2. UNCHANGED <<buf, wr, rotate, total>> /\ UNCHANGED Round
  BY DEF Attach, Round
<1>3. owed'[c] \in Nat /\ rd'[c] = Start /\ owed'[c] = Place(c)'
  BY <1>0, <1>1, <1>2 DEF Attach, Rounds, Round, Place
<1>4. TypeOK'
  BY <1>0, <1>1, <1>2, <1>3 DEF RingInv, TypeOK, Attach
<1>5. Content' /\ Rounds'
  BY <1>2 DEF RingInv, Content, Rounds
<1>6. Behind'
  <2> SUFFICES ASSUME NEW d \in Client, st'[d] # "off"
               PROVE (/\ ~rotate => rd[d] <= wr
                      /\ owed[d] = Place(d) \/ owed[d] <= Place(d) - Size)'
    BY DEF Behind
  <2>1. CASE d = c
    BY <1>0, <1>1, <1>2, <1>3, <2>1
  <2>2. CASE d # c
    <3>1. rd'[d] = rd[d] /\ owed'[d] = owed[d] /\ st'[d] = st[d]
      BY <1>0, <2>2 DEF Attach
    <3>2. Place(d)' = Place(d)
      BY <1>2, <3>1 DEF Place
    <3> QED
      BY <1>2, <3>1, <3>2 DEF RingInv, Behind
  <2> QED
    BY <2>1, <2>2
<1> QED
  BY <1>4, <1>5, <1>6 DEF RingInv

LEMMA WriteKeeps ==
  ASSUME RingInv, NEW c \in Client, NEW n \in 1 .. Size, Write(c, n)
  PROVE  RingInv'
<1> USE SizeType
<1>0. /\ wr \in Nat /\ wr < Size /\ total \in Nat /\ Offset = 0 .. Size - 1 /\ rotate \in BOOLEAN
      /\ rd \in [Client -> Offset] /\ owed \in [Client -> Nat] /\ Rounds
      /\ n \in Nat /\ n >= 1 /\ n <= Ready(c) /\ st[c] = "stream"
  BY DEF RingInv, TypeOK, Offset, Write
<1>1. rd[c] \in Nat /\ rd[c] < Size /\ rd[c] \in Offset
  BY <1>0
<1>2. UNCHANGED <<buf, wr, rotate, st, total>> /\ UNCHANGED Round
  BY DEF Write, Round
<1>3. /\ ~rotate => rd[c] <= wr
      /\ buf[rd[c]] = IF rd[c] < wr THEN Round + rd[c]
                      ELSE IF rotate THEN Round - Size + rd[c] ELSE Nothing
  BY <1>0, <1>1 DEF RingInv, Behind, Content
<1>4. rd[c] # wr
  BY <1>0, <1>1 DEF Ready
<1>5. buf[rd[c]] = Place(c) /\ Place(c) \in Nat
  BY <1>0, <1>1, <1>3, <1>4 DEF Place, Rounds, Round
<1>6. /\ rd'[c] = IF rd[c] + n >= Size THEN 0 ELSE rd[c] + n
      /\ owed'[c] = Place(c) + n
  BY <1>0, <1>5 DEF Write
<1>7. rd'[c] \in Offset /\ Place(c)' = Place(c) + n /\ (~rotate => rd'[c] <= wr)
  BY <1>0, <1>1, <1>2, <1>3, <1>4, <1>6 DEF Place, Ready, Round
<1>8. TypeOK'
  BY <1>0, <1>2, <1>5, <1>6, <1>7 DEF RingInv, TypeOK, Write
<1>9. Content' /\ Rounds'
  BY <1>2 DEF RingInv, Content, Rounds
<1>10. Behind'
  <2> SUFFICES ASSUME NEW d \in Client, st'[d] # "off"
               PROVE (/\ ~rotate => rd[d] <= wr
                      /\ owed[d] = Place(d) \/ owed[d] <= Place(d) - Size)'
    BY DEF Behind
  <2>1. CASE d = c
    BY <1>2, <1>5, <1>6, <1>7, <2>1
  <2>2. CASE d # c
    <3>1. rd'[d] = rd[d] /\ owed'[d] = owed[d] /\ st'[d] = st[d]
      BY <1>0, <1>2, <2>2 DEF Write
    <3>2. Place(d)' = Place(d)
      BY <1>2, <3>1 DEF Place
    <3> QED
      BY <1>2, <3>1, <3>2 DEF RingInv, Behind
  <2> QED
    BY <2>1, <2>2
<1> QED
  BY <1>8, <1>9, <1>10 DEF RingInv

LEMMA OthersKeep ==
  ASSUME RingInv, NEW c \in Client, Answered(c) \/ Leave(c) \/ UNCHANGED vars
  PROVE RingInv'
<1>1. UNCHANGED <<buf, wr, rotate, total>> /\ UNCHANGED Round
  BY DEF Answered, Leave, vars, Round
<1>2. TypeOK'
  <2> USE SizeType DEF RingInv, TypeOK, Offset
  <2>1. CASE Answered(c)
    BY <2>1 DEF Answered
  <2>2. CASE Leave(c)
    <3>1. /\ st' = [st EXCEPT ![c] = "off"] /\ rd' = [rd EXCEPT ![c] = 0]
          /\ owed' = [owed EXCEPT ![c] = 0]
      BY <2>2 DEF Leave
    <3>2. /\ st' \in [Client -> {"off", "joined", "stream"}] /\ rd' \in [Client -> Offset]
          /\ owed' \in [Client -> Nat]
      BY <3>1
    <3>3. fresh' \in [Client -> BOOLEAN]
      BY <2>2, Zenon DEF Leave
    <3> QED
      BY <1>1, <3>2, <3>3
  <2>3. CASE UNCHANGED vars
    BY <2>3 DEF vars
  <2> QED
    BY <2>1, <2>2, <2>3
<1>3. Content' /\ Rounds'
  BY <1>1 DEF RingInv, Content, Rounds
<1>4. ASSUME NEW d \in Client, st'[d] # "off"
      PROVE st[d] # "off" /\ rd'[d] = rd[d] /\ owed'[d] = owed[d]
  BY <1>4 DEF Answered, Leave, vars, RingInv, TypeOK
<1>5. Behind'
  <2> SUFFICES ASSUME NEW d \in Client, st'[d] # "off"
               PROVE (/\ ~rotate => rd[d] <= wr
                      /\ owed[d] = Place(d) \/ owed[d] <= Place(d) - Size)'
    BY DEF Behind
  <2>1. st[d] # "off" /\ rd'[d] = rd[d] /\ owed'[d] = owed[d]
    BY <1>4
  <2>2. Place(d)' = Place(d)
    BY <1>1, <2>1 DEF Place
  <2> QED
    BY <1>1, <2>1, <2>2 DEF RingInv, Behind
<1> QED
  BY <1>2, <1>3, <1>5 DEF RingInv

LEMMA RingStep == RingInv /\ [Next]_vars => RingInv'
<1> SUFFICES ASSUME RingInv, [Next]_vars PROVE RingInv'
  OBVIOUS
<1>1. CASE \E n \in 1 .. Size : Read(n)
  BY <1>1, ReadKeeps
<1>2. ASSUME NEW c \in Client, Attach(c) PROVE RingInv'
  BY <1>2, AttachKeeps
<1>3. ASSUME NEW c \in Client, NEW n \in 1 .. Size, Write(c, n) PROVE RingInv'
  BY <1>3, WriteKeeps
<1>4. ASSUME NEW c \in Client, Answered(c) \/ Leave(c) PROVE RingInv'
  BY <1>4, OthersKeep
<1>5. CASE UNCHANGED vars
  BY <1>5 DEF vars, RingInv, TypeOK, Content, Rounds, Behind, Place, Round
<1> QED
  BY <1>1, <1>2, <1>3, <1>4, <1>5 DEF Next

\* The ring buffer of a source and the offsets of its clients are what RingInv says.
THEOREM Invariant == Spec => []RingInv
BY RingInit, RingStep, PTL DEF Spec

\* Offsets stay inside the buffer, whatever its size, and its bytes are bytes.
THEOREM TypeCorrect == Spec => []TypeOK
<1>1. RingInv => TypeOK
  BY DEF RingInv
<1> QED
  BY <1>1, Invariant, PTL

\* What a client is offered, byte by byte.
LEMMA Offered ==
  ASSUME RingInv, NEW c \in Client, st[c] = "stream", NEW k \in 0 .. Ready(c) - 1
  PROVE  /\ buf[rd[c] + k] = Place(c) + k
         /\ Place(c) \in Nat
         /\ Place(c) < total
<1> USE SizeType
<1>0. /\ wr \in Nat /\ wr < Size /\ total \in Nat /\ Offset = 0 .. Size - 1
      /\ rd[c] \in Nat /\ rd[c] < Size /\ k \in Nat /\ k < Ready(c) /\ Rounds
  BY DEF RingInv, TypeOK, Offset, Ready
<1>1. ~rotate => rd[c] <= wr
  BY DEF RingInv, Behind
<1>2. rd[c] + k \in Offset
  BY <1>0 DEF Ready
<1>3. buf[rd[c] + k] = IF rd[c] + k < wr THEN Round + (rd[c] + k)
                       ELSE IF rotate THEN Round - Size + (rd[c] + k) ELSE Nothing
  BY <1>2 DEF RingInv, Content
<1>4. CASE rd[c] <= wr
  <2>1. rd[c] + k < wr /\ rd[c] < wr
    BY <1>0, <1>4 DEF Ready
  <2>2. Place(c) = Round + rd[c] /\ buf[rd[c] + k] = Round + (rd[c] + k)
    BY <1>3, <1>4, <2>1 DEF Place
  <2>3. Round = total - wr /\ Round >= 0
    BY <1>0 DEF Rounds, Round
  <2> HIDE DEF Round
  <2> QED
    BY <1>0, <2>1, <2>2, <2>3
<1>5. CASE rd[c] > wr
  <2>1. rotate
    BY <1>0, <1>1, <1>5
  <2> QED
    BY <1>0, <1>3, <1>5, <2>1 DEF Ready, Place, Rounds, Round
<1> QED
  BY <1>0, <1>4, <1>5

\* flush_buffer never sends a byte twice, never one that was not read from the source, and
\* what it offers to one write is in one piece, however often the source passes a client.
THEOREM NothingTwice == Spec => []OffersNew
<1>1. RingInv => OffersNew
  <2> SUFFICES ASSUME RingInv, NEW c \in Client, st[c] = "stream", NEW k \in 0 .. Ready(c) - 1
               PROVE /\ buf[rd[c] + k] \in Nat
                     /\ buf[rd[c] + k] = buf[rd[c]] + k
                     /\ buf[rd[c] + k] >= owed[c]
    BY DEF OffersNew
  <2>0. k \in Nat /\ 0 \in 0 .. Ready(c) - 1 /\ rd[c] \in Nat /\ owed[c] \in Nat
    BY SizeType DEF RingInv, TypeOK, Ready, Offset
  <2>1. buf[rd[c] + k] = Place(c) + k /\ Place(c) \in Nat
    BY Offered
  <2>2. buf[rd[c]] = Place(c)
    <3>1. buf[rd[c] + 0] = Place(c) + 0
      BY <2>0, Offered
    <3> QED
      BY <2>0, <2>1, <3>1
  <2>3. owed[c] <= Place(c)
    BY <2>0, <2>1, SizeType DEF RingInv, Behind
  <2> QED
    BY <2>0, <2>1, <2>2, <2>3
<1> QED
  BY <1>1, Invariant, PTL

\* A client that is skipped bytes was more than a whole buffer behind its source.
THEOREM LossMeansLapped == Spec => []LossOnlyIfLapped
<1>1. RingInv => LossOnlyIfLapped
  <2> SUFFICES ASSUME RingInv, NEW c \in Client, st[c] = "stream", Ready(c) > 0,
                      buf[rd[c]] # owed[c]
               PROVE total - owed[c] > Size
    BY DEF LossOnlyIfLapped
  <2>0. 0 \in 0 .. Ready(c) - 1 /\ rd[c] \in Nat /\ owed[c] \in Nat /\ total \in Nat
    BY SizeType DEF RingInv, TypeOK, Ready, Offset
  <2>1. buf[rd[c] + 0] = Place(c) + 0 /\ Place(c) \in Nat /\ Place(c) < total
    BY <2>0, Offered
  <2>2. owed[c] <= Place(c) - Size
    BY <2>0, <2>1 DEF RingInv, Behind
  <2> QED
    BY <2>0, <2>1, <2>2, SizeType
<1> QED
  BY <1>1, Invariant, PTL

-----------------------------------------------------------------------------
(* Packets *)

\* A number of whole packets.
InPackets(n) == \E i \in Int : n = Packet * i

\* The source begins its rounds with a packet, as a client does that has got nothing yet,
\* and what a client misses is whole packets.
Packets ==
  /\ InPackets(Round)
  /\ \A c \in Client : st[c] # "off" => /\ InPackets(Place(c) - owed[c])
                                        /\ fresh[c] => InPackets(Place(c))

\* There is only one remainder.
LEMMA OneRemainder ==
  ASSUME NEW p \in Nat \ {0}, NEW q1 \in Int, NEW q2 \in Int,
         NEW r1 \in 0 .. p - 1, NEW r2 \in 0 .. p - 1,
         p * q1 + r1 = p * q2 + r2
  PROVE  r1 = r2
<1>1. CASE q1 = q2
  BY <1>1
<1>2. CASE q1 < q2
  <2>1. p * q2 >= p * (q1 + 1)
    BY <1>2
  <2>2. p * (q1 + 1) = p * q1 + p
    OBVIOUS
  <2> QED
    BY <2>1, <2>2
<1>3. CASE q2 < q1
  <2>1. p * q1 >= p * (q2 + 1)
    BY <1>3
  <2>2. p * (q2 + 1) = p * q2 + p
    OBVIOUS
  <2> QED
    BY <2>1, <2>2
<1> QED
  BY <1>1, <1>2, <1>3

LEMMA Division ==
  ASSUME NEW a \in Nat
  PROVE  a % Packet \in 0 .. Packet - 1 /\ a \div Packet \in Int
         /\ a = Packet * (a \div Packet) + (a % Packet)
BY RingAssumption

LEMMA WholeAdds ==
  ASSUME NEW a \in Int, NEW b \in Int, InPackets(a), InPackets(b)
  PROVE  InPackets(a + b) /\ InPackets(a - b) /\ InPackets(0)
<1>1. PICK i \in Int, j \in Int : a = Packet * i /\ b = Packet * j
  BY DEF InPackets
<1>2. Packet * i + Packet * j = Packet * (i + j) /\ Packet * i - Packet * j = Packet * (i - j)
      /\ Packet * 0 = 0
  BY RingAssumption
<1> QED
  BY <1>1, <1>2 DEF InPackets

LEMMA WholeNothing ==
  InPackets(0)
<1>1. Packet * 0 = 0
  BY RingAssumption
<1> QED
  BY <1>1 DEF InPackets

\* AlignRight makes whole packets, so the buffer holds whole packets.
LEMMA AlignWhole ==
  ASSUME NEW n \in Nat
  PROVE  InPackets(AlignRight(n))
<1> DEFINE q == n \div Packet
           r == n % Packet
<1>1. r \in 0 .. Packet - 1 /\ q \in Int /\ n = Packet * q + r
  BY Division
<1>2. AlignRight(n) = IF r = 0 THEN n ELSE n + Packet - r
  BY DEF AlignRight
<1> HIDE DEF q, r
<1>3. Packet \in Nat
  BY RingAssumption
<1>4. CASE r = 0
  BY <1>1, <1>2, <1>3, <1>4 DEF InPackets
<1>5. CASE r # 0
  <2>1. Packet * (q + 1) = Packet * q + Packet
    BY <1>1, <1>3
  <2>2. AlignRight(n) = Packet * (q + 1)
    BY <1>1, <1>2, <1>3, <1>5, <2>1
  <2> QED
    BY <1>1, <2>2 DEF InPackets
<1> QED
  BY <1>4, <1>5

LEMMA SizeWhole ==
  InPackets(Size)
BY AlignWhole, RingAssumption DEF Size

LEMMA StartWhole ==
  ASSUME TypeOK
  PROVE  InPackets(Start)
<1>1. wr + 1 \in Nat
  BY SizeType DEF TypeOK, Offset
<1> QED
  BY <1>1, AlignWhole, WholeNothing DEF Start

\* Whole packets apart is in the same place of a packet.
LEMMA SamePlace ==
  ASSUME NEW a \in Nat, NEW b \in Nat, InPackets(a - b)
  PROVE  a % Packet = b % Packet
<1>1. PICK i \in Int : a - b = Packet * i
  BY DEF InPackets
<1> DEFINE ra == a % Packet
           rb == b % Packet
           qa == a \div Packet
           qb == b \div Packet
<1>2. /\ ra \in 0 .. Packet - 1 /\ qa \in Int /\ a = Packet * qa + ra
      /\ rb \in 0 .. Packet - 1 /\ qb \in Int /\ b = Packet * qb + rb
  BY Division
<1> HIDE DEF ra, rb, qa, qb
<1>3. Packet * (qb + i) = Packet * qb + Packet * i
  BY <1>2, RingAssumption
<1>4. Packet * qa + ra = Packet * (qb + i) + rb
  BY <1>1, <1>2, <1>3, RingAssumption
<1>5. ra = rb
  BY <1>2, <1>4, RingAssumption, OneRemainder
<1> QED
  BY <1>5 DEF ra, rb

\* Where things are is a number.
LEMMA PlaceType ==
  ASSUME TypeOK, NEW c \in Client
  PROVE  Round \in Int /\ Place(c) \in Int /\ owed[c] \in Nat /\ rd[c] \in Nat /\ wr \in Nat
         /\ rd[c] < Size
BY SizeType DEF TypeOK, Offset, Round, Place

\* A client that joins is owed the byte at its offset.
LEMMA AttachOwes ==
  ASSUME RingInv, NEW c \in Client, Attach(c)
  PROVE  owed'[c] = Place(c)'
<1> USE SizeType
<1>1. /\ wr \in Nat /\ wr < Size /\ total \in Nat /\ rotate \in BOOLEAN /\ Rounds
      /\ Start \in Nat /\ Start < Size /\ (~rotate => Start = 0)
  BY StartType DEF RingInv, TypeOK, Offset
<1>2. rd'[c] = Start /\ UNCHANGED <<wr, total, rotate>>
      /\ owed'[c] = IF Start <= wr \/ ~rotate THEN total - wr + Start
                    ELSE total - wr - Size + Start
  BY DEF RingInv, TypeOK, Attach
<1> QED
  BY <1>1, <1>2 DEF Place, Round, Rounds

\* A client is owed the byte behind what it was written.
LEMMA WriteOwes ==
  ASSUME RingInv, NEW c \in Client, NEW n \in 1 .. Size, Write(c, n)
  PROVE  owed'[c] = Place(c)' /\ Place(c)' \in Int
<1> USE SizeType
<1>0. /\ wr \in Nat /\ wr < Size /\ total \in Nat
      /\ rd[c] \in Nat /\ rd[c] < Size
      /\ n \in Nat /\ n >= 1 /\ n <= Ready(c) /\ st[c] = "stream"
      /\ UNCHANGED <<wr, total>>
  BY DEF RingInv, TypeOK, Offset, Write
<1>1. /\ rd'[c] = IF rd[c] + n >= Size THEN 0 ELSE rd[c] + n
      /\ owed'[c] = buf[rd[c]] + n
  BY DEF RingInv, TypeOK, Write
<1>2. buf[rd[c]] = Place(c) /\ Place(c) \in Nat
  <2>1. 0 \in 0 .. Ready(c) - 1
    BY <1>0 DEF Ready
  <2>2. buf[rd[c] + 0] = Place(c) + 0 /\ Place(c) \in Nat
    BY <1>0, <2>1, Offered
  <2> QED
    BY <1>0, <2>2
<1>3. Place(c)' = Place(c) + n
  BY <1>0, <1>1 DEF Place, Ready, Round
<1> QED
  BY <1>1, <1>2, <1>3

LEMMA PacketsStep ==
  RingInv /\ Packets /\ [Next]_vars => Packets'
<1> SUFFICES ASSUME RingInv, Packets, [Next]_vars PROVE Packets'
  OBVIOUS
<1>0. TypeOK /\ TypeOK'
  BY RingStep DEF RingInv
<1> USE SizeType
<1>1. Round \in Int /\ InPackets(Round)
  BY <1>0 DEF Packets, TypeOK, Offset, Round
<1>2. ASSUME NEW n \in 1 .. Size, Read(n) PROVE Packets'
  <2>1. Round' = Round \/ Round' = Round + Size
    BY <1>2, ReadGoes
  <2>2. InPackets(Round')
    <3>1. InPackets(Round + Size)
      BY <1>1, SizeWhole, WholeAdds
    <3>2. CASE Round' = Round
      BY <1>1, <3>2
    <3>3. CASE Round' = Round + Size
      BY <3>1, <3>3
    <3> QED
      BY <2>1, <3>2, <3>3
  <2>3. ASSUME NEW c \in Client, st'[c] # "off"
        PROVE  InPackets(Place(c)' - owed'[c]) /\ (fresh'[c] => InPackets(Place(c)'))
    <3>1. st[c] # "off" /\ rd'[c] = rd[c] /\ owed'[c] = owed[c] /\ (fresh'[c] <=> fresh[c])
      BY <1>2, <2>3 DEF Read
    <3>2. Round \in Int /\ Place(c) \in Int /\ owed[c] \in Nat /\ rd[c] \in Nat /\ rd[c] < Size
          /\ wr \in Nat /\ n \in Nat
      BY <1>0, PlaceType
    <3>3. \/ wr + n < Size /\ wr' = wr + n /\ Round' = Round
          \/ wr + n = Size /\ wr' = 0 /\ Round' = Round + Size
      BY <1>2, ReadGoes
    <3>4. Place(c)' = Place(c) \/ Place(c)' = Place(c) + Size
      BY <3>1, <3>2, <3>3 DEF Place
    <3>5. InPackets(Place(c) - owed[c]) /\ (fresh[c] => InPackets(Place(c)))
      BY <3>1 DEF Packets
    <3>6. CASE Place(c)' = Place(c)
      BY <3>1, <3>5, <3>6
    <3>7. CASE Place(c)' = Place(c) + Size
      <4>1. Place(c) - owed[c] + Size = Place(c)' - owed'[c]
        BY <3>1, <3>2, <3>7
      <4>2. Place(c) - owed[c] \in Int
        BY <3>2
      <4>3. InPackets(Place(c) - owed[c] + Size)
        <5> DEFINE missed == Place(c) - owed[c]
        <5>1. missed \in Int /\ InPackets(missed)
          BY <4>2, <3>5
        <5> HIDE DEF missed
        <5>2. InPackets(missed + Size)
          BY <5>1, SizeWhole, WholeAdds
        <5> QED
          BY <5>2 DEF missed
      <4>4. ASSUME fresh[c] PROVE InPackets(Place(c)')
        <5>1. InPackets(Place(c) + Size)
          BY <3>2, <3>5, <4>4, SizeWhole, WholeAdds
        <5> QED
          BY <5>1, <3>7
      <4> QED
        BY <3>1, <4>1, <4>3, <4>4
    <3> QED
      BY <3>4, <3>6, <3>7
  <2> QED
    BY <2>2, <2>3 DEF Packets
<1>3. ASSUME NEW c \in Client, Attach(c) PROVE Packets'
  <2>1. UNCHANGED <<wr, total, Round>> /\ rd'[c] = Start /\ rotate' = rotate
    BY <1>0, <1>3 DEF Attach, Round, TypeOK
  <2>2. InPackets(Start) /\ Start \in Nat
    BY <1>0, StartWhole, StartType DEF Offset
  <2>3. InPackets(Place(c)')
    <3>1. Place(c)' = Round + Start \/ Place(c)' = Round - Size + Start
      BY <2>1 DEF Place
    <3>2. InPackets(Round + Start)
      BY <1>1, <2>2, WholeAdds
    <3>3. InPackets(Round - Size)
      BY <1>1, SizeWhole, WholeAdds
    <3>4. InPackets(Round - Size + Start)
      BY <1>1, <2>2, <3>3, WholeAdds
    <3> QED
      BY <3>1, <3>2, <3>4
  <2>4. owed'[c] = Place(c)'
    BY <1>3, AttachOwes
  <2>5. ASSUME NEW d \in Client, d # c, st'[d] # "off"
        PROVE  InPackets(Place(d)' - owed'[d]) /\ (fresh'[d] => InPackets(Place(d)'))
    <3>1. /\ st[d] # "off" /\ rd'[d] = rd[d] /\ owed'[d] = owed[d] /\ (fresh'[d] <=> fresh[d])
      BY <1>0, <1>3, <2>5 DEF Attach, TypeOK
    <3>2. Place(d)' = Place(d)
      BY <2>1, <3>1 DEF Place
    <3> QED
      BY <3>1, <3>2 DEF Packets
  <2>6. Place(c)' - owed'[c] = 0
    <3>1. Place(c)' \in Int
      BY <1>0, <1>1, <2>1, <2>2 DEF Place
    <3> QED
      BY <2>4, <3>1
  <2> QED
    BY <1>1, <2>1, <2>3, <2>5, <2>6, WholeNothing DEF Packets
<1>4. ASSUME NEW c \in Client, NEW n \in 1 .. Size, Write(c, n) PROVE Packets'
  <2>1. UNCHANGED <<wr, st, total, Round>> /\ ~fresh'[c]
    BY <1>0, <1>4 DEF Write, Round, TypeOK
  <2>2. owed'[c] = Place(c)' /\ Place(c)' \in Int
    BY <1>4, WriteOwes
  <2>3. Place(c)' - owed'[c] = 0
    BY <2>2
  <2>4. ASSUME NEW d \in Client, d # c, st'[d] # "off"
        PROVE  InPackets(Place(d)' - owed'[d]) /\ (fresh'[d] => InPackets(Place(d)'))
    <3>1. /\ st[d] # "off" /\ rd'[d] = rd[d] /\ owed'[d] = owed[d] /\ (fresh'[d] <=> fresh[d])
      BY <1>0, <1>4, <2>1, <2>4 DEF Write, TypeOK
    <3>2. Place(d)' = Place(d)
      BY <2>1, <3>1 DEF Place
    <3> QED
      BY <3>1, <3>2 DEF Packets
  <2> QED
    BY <1>1, <2>1, <2>3, <2>4, WholeNothing DEF Packets
<1>5. ASSUME NEW c \in Client, Answered(c) \/ Leave(c) PROVE Packets'
  <2>1. UNCHANGED <<wr, total, Round>>
    BY <1>5 DEF Answered, Leave, Round
  <2>2. ASSUME NEW d \in Client, st'[d] # "off"
        PROVE  InPackets(Place(d)' - owed'[d]) /\ (fresh'[d] => InPackets(Place(d)'))
    <3>1. /\ st[d] # "off" /\ rd'[d] = rd[d] /\ owed'[d] = owed[d] /\ (fresh'[d] <=> fresh[d])
      BY <1>0, <1>5, <2>2 DEF Answered, Leave, TypeOK
    <3>2. Place(d)' = Place(d)
      BY <2>1, <3>1 DEF Place
    <3> QED
      BY <3>1, <3>2 DEF Packets
  <2> QED
    BY <1>1, <2>1, <2>2 DEF Packets
<1>6. CASE UNCHANGED vars
  BY <1>6 DEF vars, Packets, Place, Round
<1> QED
  BY <1>2, <1>3, <1>4, <1>5, <1>6 DEF Next

\* A player never loses the boundaries of packets: a client starts with the first byte of
\* one, and whatever it misses, because its source has passed it, is whole packets.
THEOREM WholePackets == Spec => []InPhase
<1>1. Init => Packets
  <2> SUFFICES ASSUME Init PROVE Packets
    OBVIOUS
  <2>1. Round = 0 /\ \A c \in Client : st[c] = "off"
    BY DEF Init, Round
  <2> QED
    BY <2>1, WholeNothing DEF Packets
<1>2. RingInv /\ Packets => InPhase
  <2> SUFFICES ASSUME RingInv, Packets, NEW c \in Client, st[c] = "stream", Ready(c) > 0
               PROVE  /\ buf[rd[c]] % Packet = owed[c] % Packet
                      /\ fresh[c] => buf[rd[c]] % Packet = 0
    BY DEF InPhase
  <2>1. 0 \in 0 .. Ready(c) - 1 /\ rd[c] \in Nat /\ owed[c] \in Nat
    BY SizeType DEF RingInv, TypeOK, Ready, Offset
  <2>2. buf[rd[c] + 0] = Place(c) + 0 /\ Place(c) \in Nat
    BY <2>1, Offered
  <2>3. buf[rd[c]] = Place(c)
    BY <2>1, <2>2
  <2>4. InPackets(Place(c) - owed[c]) /\ (fresh[c] => InPackets(Place(c)))
    BY DEF Packets
  <2>5. Place(c) % Packet = owed[c] % Packet
    BY <2>1, <2>2, <2>4, SamePlace
  <2>6. fresh[c] => Place(c) % Packet = 0
    <3>1. Place(c) - 0 = Place(c)
      BY <2>2
    <3>2. 0 % Packet = 0
      BY RingAssumption
    <3> QED
      BY <2>2, <2>4, <3>1, <3>2, SamePlace
  <2> QED
    BY <2>3, <2>5, <2>6
<1> QED
  BY <1>1, <1>2, PacketsStep, Invariant, PTL DEF Spec

-----------------------------------------------------------------------------
(* The playlist: fragments *)

\* A fragment as push makes it.
Frag == [seq : Nat, dur : Seq(Piece), url : Seq(Piece)]

\* Induction over the natural numbers, as a fact about a set: a number outside it that is
\* the least would have a predecessor inside.
LEMMA Induction ==
  ASSUME NEW S \in SUBSET Nat, 0 \in S, \A n \in S : n + 1 \in S
  PROVE  S = Nat
<1> SUFFICES ASSUME Nat \ S # {} PROVE FALSE
  OBVIOUS
<1>1. PICK n \in Nat \ S : \A m \in Nat \ S : ~(<<m, n>> \in OpToRel(<, Nat))
  <2> HIDE DEF OpToRel
  <2> QED BY NatLessThanWellFounded, WFMin
<1>2. n # 0 /\ n - 1 \in Nat
  OBVIOUS
<1>3. n - 1 \in S
  <2>1. n - 1 < n
    BY <1>2
  <2> QED
  BY <1>1, <1>2, <2>1 DEF OpToRel
<1> QED
  BY <1>2, <1>3

\* A set of places has a greatest one.
LEMMA Greatest ==
  ASSUME NEW m \in Nat, NEW I \in SUBSET (1 .. m), I # {}
  PROVE  Max(I) \in I /\ \A i \in I : i <= Max(I)
<1> DEFINE P(k) == \A J \in SUBSET (1 .. k) : J # {} => \E x \in J : \A y \in J : y <= x
           S == {k \in Nat : P(k)}
<1>1. P(0)
  <2>1. 1 .. 0 = {}
    OBVIOUS
  <2> QED
    BY <2>1
<1>2. ASSUME NEW k \in Nat, P(k) PROVE P(k + 1)
  <2> SUFFICES ASSUME NEW J \in SUBSET (1 .. k + 1), J # {} PROVE \E x \in J : \A y \in J : y <= x
    OBVIOUS
  <2>1. CASE k + 1 \in J
    BY <2>1
  <2>2. CASE k + 1 \notin J
    <3>1. J \in SUBSET (1 .. k)
      BY <2>2
    <3> QED
      BY <1>2, <3>1
  <2> QED
    BY <2>1, <2>2
<1>3. S = Nat
  <2> HIDE DEF P
  <2>1. S \in SUBSET Nat /\ 0 \in S /\ \A k \in S : k + 1 \in S
    BY <1>1, <1>2
  <2> HIDE DEF S
  <2> QED
    BY <2>1, Induction
<1>4. \E x \in I : \A y \in I : y <= x
  BY <1>3
<1> QED
  BY <1>4 DEF Max


\* A sequence that is not empty has a last element and what is before it.
LEMMA LastAndFront ==
  ASSUME NEW n \in Nat, NEW s \in Seq(Frag), Len(s) = n + 1
  PROVE  \E f \in Seq(Frag), e \in Frag : s = Append(f, e) /\ Len(f) = n
<1>1. SubSeq(s, 1, n) \in Seq(Frag) /\ Len(SubSeq(s, 1, n)) = n /\ s[n + 1] \in Frag
  OBVIOUS
<1>2. s = Append(SubSeq(s, 1, n), s[n + 1])
  OBVIOUS
<1> QED
  BY <1>1, <1>2

\* One more at the end of a list.
LEMMA AppendIs ==
  ASSUME NEW s \in Seq(Frag), NEW e \in Frag
  PROVE  /\ Append(s, e) \in Seq(Frag) /\ Len(s) \in Nat
         /\ Len(Append(s, e)) = Len(s) + 1
         /\ DOMAIN s = 1 .. Len(s) /\ DOMAIN Append(s, e) = 1 .. Len(s) + 1
         /\ Append(s, e)[Len(s) + 1] = e
         /\ \A i \in 1 .. Len(s) : Append(s, e)[i] = s[i]
OBVIOUS

\* What FoldLeft comes to for From: a recursive function on sets of places, which takes
\* their greatest one first.
IsFold(s, low, g) ==
  g = [I \in SUBSET DOMAIN s |->
         IF I = {} THEN <<>>
         ELSE IF s[Max(I)].seq >= low THEN Append(g[I \ {Max(I)}], s[Max(I)])
         ELSE g[I \ {Max(I)}]]

\* What is left is the value of such a function for all places.
LEMMA FromFolds ==
  \A s, low : From(s, low) = (CHOOSE g : IsFold(s, low, g))[DOMAIN s]
BY DEF From, FoldLeft, MapThenFoldSet, IsFold

\* There is such a function.
LEMMA FoldExists ==
  ASSUME NEW s \in Seq(Frag), NEW low
  PROVE  \E g : IsFold(s, low, g)
<1> DEFINE P(n) == \A t \in Seq(Frag) : Len(t) = n => \E g : IsFold(t, low, g)
           S == {n \in Nat : P(n)}
<1>1. P(0)
  <2> SUFFICES ASSUME NEW t \in Seq(Frag), Len(t) = 0 PROVE \E g : IsFold(t, low, g)
    OBVIOUS
  <2>1. DOMAIN t = {}
    OBVIOUS
  <2>2. IsFold(t, low, [I \in SUBSET DOMAIN t |-> <<>>])
    BY <2>1 DEF IsFold
  <2> QED
    BY <2>2
<1>2. ASSUME NEW n \in Nat, P(n) PROVE P(n + 1)
  <2> SUFFICES ASSUME NEW t \in Seq(Frag), Len(t) = n + 1 PROVE \E g : IsFold(t, low, g)
    OBVIOUS
  <2>1. PICK f \in Seq(Frag), e \in Frag : t = Append(f, e) /\ Len(f) = n
    BY LastAndFront
  <2>2. PICK g : IsFold(f, low, g)
    BY <1>2, <2>1
  <2> DEFINE h == [I \in SUBSET (1 .. n + 1) |->
                    IF n + 1 \notin I THEN g[I]
                    ELSE IF e.seq >= low THEN Append(g[I \ {n + 1}], e)
                    ELSE g[I \ {n + 1}]]
  <2>3. DOMAIN t = 1 .. n + 1 /\ DOMAIN f = 1 .. n /\ t[n + 1] = e /\ \A i \in 1 .. n : t[i] = f[i]
    BY <2>1, AppendIs
  <2>4. ASSUME NEW I \in SUBSET (1 .. n + 1)
        PROVE  h[I] = IF I = {} THEN <<>>
                      ELSE IF t[Max(I)].seq >= low THEN Append(h[I \ {Max(I)}], t[Max(I)])
                      ELSE h[I \ {Max(I)}]
    <3>1. CASE I = {}
      BY <2>2, <2>3, <3>1 DEF IsFold
    <3>2. CASE n + 1 \in I
      <4>1. Max(I) = n + 1
        <5>1. n + 1 \in Nat /\ I # {}
          BY <3>2
        <5>2. Max(I) \in I /\ n + 1 <= Max(I)
          BY <3>2, <5>1, Greatest
        <5>3. Max(I) \in 1 .. n + 1
          BY <5>2
        <5> HIDE DEF h
        <5> QED
          BY <5>1, <5>2, <5>3
      <4>2. h[I \ {n + 1}] = g[I \ {n + 1}]
        OBVIOUS
      <4> QED
        BY <2>3, <3>2, <4>1, <4>2
    <3>3. CASE I # {} /\ n + 1 \notin I
      <4>1. I \in SUBSET (1 .. n)
        BY <3>3
      <4>2. Max(I) \in I
        BY <3>3, <4>1, Greatest
      <4>3. g[I] = IF f[Max(I)].seq >= low THEN Append(g[I \ {Max(I)}], f[Max(I)])
                   ELSE g[I \ {Max(I)}]
        BY <2>2, <2>3, <3>3, <4>1 DEF IsFold
      <4>4. h[I] = g[I] /\ h[I \ {Max(I)}] = g[I \ {Max(I)}] /\ t[Max(I)] = f[Max(I)]
        BY <2>3, <3>3, <4>1, <4>2
      <4> QED
        BY <3>3, <4>3, <4>4
    <3> QED
      BY <3>1, <3>2, <3>3
  <2>5. IsFold(t, low, h)
    <3>1. h = [I \in SUBSET (1 .. n + 1) |-> h[I]]
      OBVIOUS
    <3> HIDE DEF h
    <3> QED
      BY <2>3, <2>4, <3>1 DEF IsFold
  <2> QED
    BY <2>5
<1>3. S = Nat
  <2> HIDE DEF P
  <2>1. S \in SUBSET Nat /\ 0 \in S /\ \A k \in S : k + 1 \in S
    BY <1>1, <1>2
  <2> HIDE DEF S
  <2> QED
    BY <2>1, Induction
<1> QED
  BY <1>3

\* A fold of the first places takes them one by one.
LEMMA FoldOfPlaces ==
  ASSUME NEW s \in Seq(Frag), NEW low, NEW g, IsFold(s, low, g)
  PROVE  /\ g[{}] = <<>>
         /\ \A k \in 0 .. Len(s) - 1 :
              g[1 .. k + 1] = IF s[k + 1].seq >= low THEN Append(g[1 .. k], s[k + 1]) ELSE g[1 .. k]
<1>1. DOMAIN s = 1 .. Len(s)
  OBVIOUS
<1>2. g[{}] = <<>>
  BY DEF IsFold
<1>3. ASSUME NEW k \in 0 .. Len(s) - 1
      PROVE  g[1 .. k + 1] = IF s[k + 1].seq >= low THEN Append(g[1 .. k], s[k + 1]) ELSE g[1 .. k]
  <2> DEFINE I == 1 .. k + 1
  <2>1. I \in SUBSET DOMAIN s /\ k + 1 \in I /\ I \ {k + 1} = 1 .. k /\ k + 1 \in Nat
    BY <1>1
  <2>2. Max(I) = k + 1
    <3>1. Max(I) \in I /\ k + 1 <= Max(I)
      BY <2>1, Greatest
    <3> QED
      BY <3>1
  <2>3. g[I] = IF I = {} THEN <<>>
               ELSE IF s[Max(I)].seq >= low THEN Append(g[I \ {Max(I)}], s[Max(I)])
               ELSE g[I \ {Max(I)}]
    <3> HIDE DEF I
    <3> QED BY <2>1 DEF IsFold
  <2> QED
    BY <2>1, <2>2, <2>3
<1> QED
  BY <1>2, <1>3

\* A new last element stays or does not: the functions for both sequences agree on the old
\* places.
LEMMA FromAppend ==
  ASSUME NEW s \in Seq(Frag), NEW e \in Frag, NEW low
  PROVE  From(Append(s, e), low)
           = IF e.seq >= low THEN Append(From(s, low), e) ELSE From(s, low)
<1> DEFINE t == Append(s, e)
           n == Len(s)
<1>1. PICK g : IsFold(s, low, g) /\ From(s, low) = g[DOMAIN s]
  BY FoldExists, FromFolds
<1>2. PICK h : IsFold(t, low, h) /\ From(t, low) = h[DOMAIN t]
  <2>1. t \in Seq(Frag)
    OBVIOUS
  <2> QED
    BY <2>1, FoldExists, FromFolds
<1>3. /\ n \in Nat /\ t \in Seq(Frag) /\ Len(t) = n + 1 /\ t[n + 1] = e
      /\ DOMAIN s = 1 .. n /\ DOMAIN t = 1 .. n + 1 /\ \A i \in 1 .. n : t[i] = s[i]
  BY AppendIs
<1> HIDE DEF t, n
<1> DEFINE P(k) == k <= n => h[1 .. k] = g[1 .. k]
           S == {k \in Nat : P(k)}
<1>4. P(0)
  <2>1. 1 .. 0 = {}
    OBVIOUS
  <2> QED
    BY <1>1, <1>2, <1>3, <2>1, FoldOfPlaces
<1>5. ASSUME NEW k \in Nat, P(k), k + 1 <= n PROVE h[1 .. k + 1] = g[1 .. k + 1]
  <2>1. k \in 0 .. Len(s) - 1 /\ k \in 0 .. Len(t) - 1 /\ k + 1 \in 1 .. n
    BY <1>3, <1>5 DEF n
  <2>2. g[1 .. k + 1] = IF s[k + 1].seq >= low THEN Append(g[1 .. k], s[k + 1]) ELSE g[1 .. k]
    BY <1>1, <2>1, FoldOfPlaces
  <2>3. h[1 .. k + 1] = IF t[k + 1].seq >= low THEN Append(h[1 .. k], t[k + 1]) ELSE h[1 .. k]
    BY <1>2, <1>3, <2>1, FoldOfPlaces
  <2> QED
    BY <1>3, <1>5, <2>1, <2>2, <2>3
<1>6. S = Nat
  <2>1. S \in SUBSET Nat /\ 0 \in S /\ \A k \in S : k + 1 \in S
    BY <1>4, <1>5
  <2> HIDE DEF S
  <2> QED
    BY <2>1, Induction
<1>7. h[1 .. n] = g[1 .. n]
  BY <1>3, <1>6
<1>8. h[1 .. n + 1] = IF e.seq >= low THEN Append(h[1 .. n], e) ELSE h[1 .. n]
  <2>1. n \in 0 .. Len(t) - 1
    BY <1>3
  <2>2. h[1 .. n + 1] = IF t[n + 1].seq >= low THEN Append(h[1 .. n], t[n + 1]) ELSE h[1 .. n]
    BY <1>2, <1>3, <2>1, FoldOfPlaces
  <2> QED
    BY <1>3, <2>2
<1> QED
  BY <1>1, <1>2, <1>3, <1>7, <1>8 DEF t

\* Of the empty list nothing is left.
LEMMA FromEmpty == ASSUME NEW low PROVE From(<<>>, low) = <<>>
<1>1. <<>> \in Seq(Frag) /\ DOMAIN <<>> = {}
  OBVIOUS
<1>2. PICK g : IsFold(<<>>, low, g) /\ From(<<>>, low) = g[DOMAIN <<>>]
  BY <1>1, FoldExists, FromFolds
<1> QED
  BY <1>1, <1>2 DEF IsFold

\* The numbers of the fragments in a list grow.
Rising(s) == \A i, j \in 1 .. Len(s) : i < j => s[i].seq < s[j].seq

\* The fragments from a number on are those of the list, in its order.
LEMMA FromIs ==
  ASSUME NEW s \in Seq(Frag), NEW low \in Nat
  PROVE  /\ From(s, low) \in Seq(Frag)
         /\ \A i \in 1 .. Len(From(s, low)) :
              /\ From(s, low)[i].seq >= low
              /\ \E j \in 1 .. Len(s) : s[j] = From(s, low)[i]
         /\ Rising(s) => Rising(From(s, low))
<1> DEFINE Q(t) == /\ From(t, low) \in Seq(Frag)
                   /\ \A i \in 1 .. Len(From(t, low)) :
                        /\ From(t, low)[i].seq >= low
                        /\ \E j \in 1 .. Len(t) : t[j] = From(t, low)[i]
                   /\ Rising(t) => Rising(From(t, low))
           P(n) == \A t \in Seq(Frag) : Len(t) = n => Q(t)
           S == {n \in Nat : P(n)}
<1>1. P(0)
  <2> SUFFICES ASSUME NEW t \in Seq(Frag), Len(t) = 0 PROVE Q(t)
    OBVIOUS
  <2>1. From(t, low) = <<>>
    <3>1. t = <<>>
      BY EmptySeq
    <3> QED
      BY <3>1, FromEmpty
  <2> QED
    BY <2>1 DEF Rising
<1>2. ASSUME NEW n \in Nat, P(n) PROVE P(n + 1)
  <2> SUFFICES ASSUME NEW t \in Seq(Frag), Len(t) = n + 1 PROVE Q(t)
    OBVIOUS
  <2>1. PICK f \in Seq(Frag), e \in Frag : t = Append(f, e) /\ Len(f) = n
    BY LastAndFront
  <2> DEFINE w == From(f, low)
             v == From(t, low)
  <2>2. t[n + 1] = e /\ \A i \in 1 .. n : t[i] = f[i]
    BY <2>1, AppendIs
  <2>3. /\ w \in Seq(Frag)
        /\ \A i \in 1 .. Len(w) : w[i].seq >= low /\ \E j \in 1 .. Len(f) : f[j] = w[i]
        /\ Rising(f) => Rising(w)
    BY <1>2, <2>1
  <2>4. v = IF e.seq >= low THEN Append(w, e) ELSE w
    BY <2>1, FromAppend
  <2> HIDE DEF w, v
  <2>5. Rising(t) => Rising(f) /\ \A i \in 1 .. n : f[i].seq < e.seq
    BY <2>1, <2>2 DEF Rising
  <2>6. CASE e.seq >= low
    <3>1. /\ v \in Seq(Frag) /\ Len(w) \in Nat /\ Len(v) = Len(w) + 1 /\ v[Len(w) + 1] = e
          /\ \A i \in 1 .. Len(w) : v[i] = w[i]
      BY <2>3, <2>4, <2>6, AppendIs
    <3>2. ASSUME NEW i \in 1 .. Len(v)
          PROVE  v[i].seq >= low /\ \E j \in 1 .. Len(t) : t[j] = v[i]
      <4>1. CASE i = Len(w) + 1
        <5>1. n + 1 \in 1 .. Len(t) /\ t[n + 1] = v[i]
          BY <2>2, <3>1, <4>1
        <5> QED
          BY <2>6, <3>1, <4>1, <5>1
      <4>2. CASE i \in 1 .. Len(w)
        <5>1. PICK j \in 1 .. n : f[j] = w[i]
          BY <2>1, <2>3, <4>2
        <5>2. j \in 1 .. Len(t) /\ t[j] = v[i]
          BY <2>2, <3>1, <4>2, <5>1
        <5> QED
          BY <2>3, <3>1, <4>2, <5>2
      <4> QED
        BY <3>1, <4>1, <4>2
    <3>3. ASSUME Rising(t) PROVE Rising(v)
      <4> SUFFICES ASSUME NEW i \in 1 .. Len(v), NEW j \in 1 .. Len(v), i < j
                   PROVE  v[i].seq < v[j].seq
        BY DEF Rising
      <4>1. i \in 1 .. Len(w) /\ v[i] = w[i]
        BY <3>1
      <4>2. CASE j = Len(w) + 1
        <5>1. PICK k \in 1 .. n : f[k] = w[i]
          BY <2>1, <2>3, <4>1
        <5> QED
          BY <2>5, <3>1, <3>3, <4>1, <4>2, <5>1
      <4>3. CASE j \in 1 .. Len(w)
        BY <2>3, <2>5, <3>1, <3>3, <4>1, <4>3 DEF Rising
      <4> QED
        BY <3>1, <4>2, <4>3
    <3> QED
      BY <3>1, <3>2, <3>3 DEF v
  <2>7. CASE ~(e.seq >= low)
    <3>1. v = w
      BY <2>4, <2>7
    <3>2. ASSUME NEW i \in 1 .. Len(v)
          PROVE  v[i].seq >= low /\ \E j \in 1 .. Len(t) : t[j] = v[i]
      <4>1. PICK j \in 1 .. n : f[j] = w[i]
        BY <2>1, <2>3, <3>1
      <4>2. j \in 1 .. Len(t) /\ t[j] = v[i]
        BY <2>2, <3>1, <4>1
      <4> QED
        BY <2>3, <3>1, <4>2
    <3> QED
      BY <2>3, <2>5, <3>1, <3>2 DEF v
  <2> QED
    BY <2>6, <2>7
<1>3. S = Nat
  <2> HIDE DEF P
  <2>1. S \in SUBSET Nat /\ 0 \in S /\ \A k \in S : k + 1 \in S
    BY <1>1, <1>2
  <2> HIDE DEF S
  <2> QED
    BY <2>1, Induction
<1>4. P(Len(s))
  BY <1>3
<1> QED
  BY <1>4

-----------------------------------------------------------------------------
(* The playlist: its lines *)

\* Odd and even numbers.
LEMMA Halves ==
  ASSUME NEW r \in Nat
  PROVE  /\ (2 * r + 1) % 2 = 1 /\ (2 * r + 2) % 2 # 1
         /\ ((2 * r + 1) - 1) \div 2 = r /\ ((2 * r + 2) - 1) \div 2 = r
         /\ (2 * r) \div 2 = r /\ (2 * r + 1) \div 2 = r
OBVIOUS

\* A page is urls; a list has its number in the second line and two lines for each fragment.
LEMMA LinesAre ==
  ASSUME NEW l \in List
  PROVE  /\ Len(Lines(l)) = IF l.page THEN l.len ELSE 2 * l.len + 2
         /\ l.page => \A i \in 1 .. l.len : Lines(l)[i] = [tag |-> "url", of |-> Junk]
         /\ ~l.page =>
              /\ Lines(l)[1] = [tag |-> "m3u", of |-> 0]
              /\ Lines(l)[2] = [tag |-> "sequence", of |-> l.base]
              /\ \A r \in 0 .. l.len - 1 :
                   /\ Lines(l)[2 * r + 3] = [tag |-> "inf", of |-> l.base + r]
                   /\ Lines(l)[2 * r + 4] = [tag |-> "url", of |-> l.base + r]
<1>1. l.len \in Nat /\ l.base \in Nat /\ l.page \in BOOLEAN
  BY PlaylistAssumption DEF List
<1>2. CASE l.page
  <2>1. Lines(l) = [i \in 1 .. l.len |-> [tag |-> "url", of |-> Junk]]
    BY <1>2 DEF Lines
  <2> QED
    BY <1>1, <1>2, <2>1
<1>3. CASE ~l.page
  <2> DEFINE A == <<[tag |-> "m3u", of |-> 0], [tag |-> "sequence", of |-> l.base]>>
             B == [i \in 1 .. 2 * l.len |->
                     [tag |-> IF i % 2 = 1 THEN "inf" ELSE "url", of |-> l.base + (i - 1) \div 2]]
             T == [tag : {"m3u", "sequence", "inf", "url"}, of : Int]
  <2>1. Lines(l) = A \o B
    BY <1>3 DEF Lines
  <2>2. A \in Seq(T) /\ Len(A) = 2 /\ A[1] = [tag |-> "m3u", of |-> 0]
        /\ A[2] = [tag |-> "sequence", of |-> l.base]
    BY <1>1
  <2>3. B \in Seq(T) /\ Len(B) = 2 * l.len
    <3>1. 2 * l.len \in Nat
      BY <1>1
    <3>2. ASSUME NEW i \in 1 .. 2 * l.len
          PROVE  [tag |-> IF i % 2 = 1 THEN "inf" ELSE "url", of |-> l.base + (i - 1) \div 2] \in T
      <4>1. l.base + (i - 1) \div 2 \in Int
        BY <1>1
      <4> QED
        BY <4>1
    <3>3. B \in [1 .. 2 * l.len -> T]
      <4> HIDE DEF T
      <4> QED
        BY <3>2
    <3> HIDE DEF B, T
    <3> QED
      BY <3>1, <3>3
  <2>4. ASSUME NEW r \in 0 .. l.len - 1
        PROVE  /\ 2 * r + 1 \in 1 .. 2 * l.len /\ 2 * r + 2 \in 1 .. 2 * l.len
               /\ B[2 * r + 1] = [tag |-> "inf", of |-> l.base + r]
               /\ B[2 * r + 2] = [tag |-> "url", of |-> l.base + r]
    <3>1. r \in Nat /\ 2 * r + 1 \in 1 .. 2 * l.len /\ 2 * r + 2 \in 1 .. 2 * l.len
      BY <1>1
    <3> QED
      BY <3>1, Halves
  <2> HIDE DEF A, B, T
  <2>5. /\ Len(A \o B) = 2 * l.len + 2 /\ (A \o B)[1] = A[1] /\ (A \o B)[2] = A[2]
        /\ \A i \in 1 .. 2 * l.len : (A \o B)[i + 2] = B[i]
    <3>1. /\ Len(A \o B) = Len(A) + Len(B)
          /\ \A i \in 1 .. Len(A) + Len(B) :
               (A \o B)[i] = IF i <= Len(A) THEN A[i] ELSE B[i - Len(A)]
      BY <2>2, <2>3, ConcatProperties
    <3>2. \A i \in 1 .. 2 * l.len : i + 2 \in 1 .. 2 + 2 * l.len /\ (i + 2) - 2 = i
      BY <1>1
    <3> QED
      BY <1>1, <2>2, <2>3, <3>1, <3>2
  <2>6. ASSUME NEW r \in 0 .. l.len - 1
        PROVE  /\ (A \o B)[2 * r + 3] = [tag |-> "inf", of |-> l.base + r]
               /\ (A \o B)[2 * r + 4] = [tag |-> "url", of |-> l.base + r]
    <3>1. (2 * r + 1) + 2 = 2 * r + 3 /\ (2 * r + 2) + 2 = 2 * r + 4
      BY <1>1
    <3> QED
      BY <2>4, <2>5, <3>1
  <2> QED
    BY <1>3, <2>1, <2>2, <2>5, <2>6
<1> QED
  BY <1>1, <1>2, <1>3

-----------------------------------------------------------------------------
(* The playlist: the invariant *)

\* Types, and how many items there may be: MaxItems for every try.
Parsing ==
  /\ pc \in {"idle", "try", "body", "got"}
  /\ tries \in 0 .. Attempts
  /\ pc \in {"try", "body"} => tries < Attempts
  /\ list \in List /\ pos \in 0 .. Len(Lines(list)) /\ half \in BOOLEAN
  /\ items \in Seq(Frag) /\ count \in 0 .. MaxItems /\ count <= Len(items)
  /\ seq \in Nat /\ url \in Seq(Piece) /\ dur \in Seq(Piece)
  /\ pc = "try" => Len(items) <= tries * MaxItems
  /\ pc = "body" => Len(items) <= tries * MaxItems + count
  /\ Len(items) <= (tries + 1) * MaxItems

\* What the producer has: what it was handed over ends with the last fragment.
Handing ==
  /\ chunks \in Seq(Frag) /\ (pc = "got" <=> chunks # <<>>)
  /\ last \in Nat /\ played \in Nat
  /\ pc # "got" => played = last
  /\ pc = "got" => chunks[Len(chunks)].seq = last

\* An item is the fragment f, but for the duration of a list's first one, which may be
\* glued to what an earlier try left.
Exact(c, f) ==
  /\ c.seq = f /\ c.url = Whole(f)
  /\ c.dur = Whole(f) \/ (tries > 0 /\ f = list.base)

\* What the parser holds in the middle of a playlist: up to the line with the number only what
\* earlier tries left, and from there on the begun fragment, the fragments read before it, and
\* before those what earlier tries left.
Fed ==
  pc = "body" /\ ~list.page =>
    /\ pos < 2 /\ tries = 0 => items = <<>> /\ url = <<>> /\ dur = <<>>
    /\ pos = 1 => url = <<>>
    /\ pos >= 2 =>
         LET f == list.base + FragmentsRead
             first == <<[of |-> f, half |-> 1]>>
             atUrl == pos = 2 * FragmentsRead + 3
         IN  /\ seq = f
             /\ url = IF atUrl /\ half THEN first ELSE <<>>
             /\ FragmentsRead > 0 \/ tries = 0 =>
                  dur = IF atUrl THEN Whole(f) ELSE IF half THEN first ELSE <<>>
    /\ Kept <= count
    /\ tries = 0 => Len(items) = Kept
    /\ \A j \in 1 .. Kept :
         Exact(items[Len(items) + 1 - j], list.base + FragmentsRead - j)

\* In the first try the numbers grow, in the list and in what is handed over.
Growing ==
  /\ pc = "try" /\ tries = 0 => items = <<>> /\ url = <<>> /\ dur = <<>>
  /\ pc = "body" /\ tries = 0 => /\ Rising(items)
                                 /\ \A i \in 1 .. Len(items) : items[i].seq < seq
  /\ pc = "got" /\ tries = 0 => /\ Rising(chunks)
                                /\ \A i \in 1 .. Len(chunks) : played < chunks[i].seq

Reading == Parsing /\ Handing /\ Fed /\ Growing

-----------------------------------------------------------------------------
(* The playlist: the next line *)

\* How much is read is told by the line.
LEMMA ReadIs ==
  ASSUME Parsing
  PROVE  /\ FragmentsRead \in Nat /\ Kept \in Nat /\ Kept <= MaxItems /\ Kept <= FragmentsRead
         /\ list.page \/ pos < 2 => FragmentsRead = 0 /\ Kept = 0
         /\ ~list.page /\ pos >= 2 => pos \in {2 * FragmentsRead + 2, 2 * FragmentsRead + 3}
<1>1. pos \in Nat /\ list.page \in BOOLEAN
  BY LinesAre DEF Parsing, List
<1>2. ASSUME pos >= 2
      PROVE  /\ (pos - 2) \div 2 \in Nat
             /\ pos \in {2 * ((pos - 2) \div 2) + 2, 2 * ((pos - 2) \div 2) + 3}
  BY <1>1, <1>2
<1>3. FragmentsRead \in Nat
  BY <1>1, <1>2 DEF FragmentsRead
<1> QED
  BY <1>1, <1>2, <1>3, PlaylistAssumption DEF FragmentsRead, Kept

\* What the line after those fed to the parser is.
LEMMA LineIs ==
  ASSUME Parsing, pos < Len(Lines(list))
  PROVE  /\ Line.of \in -1 .. MaxBase + MaxLen
         /\ Line.tag = "sequence" => ~list.page /\ pos = 1 /\ Line.of = list.base
         /\ ~list.page /\ pos = 0 => Line.tag = "m3u"
         /\ ~list.page /\ pos = 1 => Line.tag = "sequence"
         /\ ~list.page /\ pos = 2 * FragmentsRead + 2 =>
              Line.tag = "inf" /\ Line.of = list.base + FragmentsRead
         /\ ~list.page /\ pos = 2 * FragmentsRead + 3 =>
              Line.tag = "url" /\ Line.of = list.base + FragmentsRead
<1>1. /\ list \in List /\ list.len \in 0 .. MaxLen /\ list.base \in 0 .. MaxBase
      /\ list.page \in BOOLEAN /\ pos \in Nat /\ Len(Lines(list)) \in Nat
  BY LinesAre DEF Parsing, List
<1>2. CASE list.page
  <2>1. pos + 1 \in 1 .. list.len
    <3>1. Len(Lines(list)) = list.len
      BY <1>1, <1>2, LinesAre
    <3> QED
      BY <1>1, <3>1
  <2>2. Line = [tag |-> "url", of |-> Junk]
    BY <1>1, <1>2, <2>1, LinesAre DEF Line
  <2> QED
    BY <1>2, <2>2, PlaylistAssumption DEF Junk
<1>3. CASE ~list.page /\ pos < 2
  <2>1. /\ pos = 0 => Line = [tag |-> "m3u", of |-> 0]
        /\ pos = 1 => Line = [tag |-> "sequence", of |-> list.base]
    BY <1>1, <1>3, LinesAre DEF Line
  <2>2. FragmentsRead = 0
    BY <1>3, ReadIs
  <2>3. pos = 0 \/ pos = 1
    BY <1>1, <1>3
  <2> QED
    BY <1>1, <1>3, <2>1, <2>2, <2>3, PlaylistAssumption
<1>4. CASE ~list.page /\ pos >= 2
  <2> DEFINE r == FragmentsRead
  <2>1. r \in Nat /\ pos \in {2 * r + 2, 2 * r + 3}
    BY <1>4, ReadIs
  <2>2. r \in 0 .. list.len - 1
    <3>1. Len(Lines(list)) = 2 * list.len + 2
      BY <1>1, <1>4, LinesAre
    <3> HIDE DEF r
    <3> QED
      BY <1>1, <2>1, <3>1
  <2>3. /\ pos = 2 * r + 2 => Line = [tag |-> "inf", of |-> list.base + r]
        /\ pos = 2 * r + 3 => Line = [tag |-> "url", of |-> list.base + r]
    <3>1. (2 * r + 2) + 1 = 2 * r + 3 /\ (2 * r + 3) + 1 = 2 * r + 4
      BY <2>1
    <3> QED
      BY <1>1, <1>4, <2>2, <3>1, LinesAre DEF Line
  <2>4. list.base + r \in -1 .. MaxBase + MaxLen
    BY <1>1, <2>2, PlaylistAssumption
  <2> HIDE DEF r
  <2>5. Line.tag # "sequence" /\ Line.of = list.base + r
    BY <2>1, <2>3
  <2> QED
    BY <1>4, <2>1, <2>3, <2>4, <2>5 DEF r
<1> QED
  BY <1>1, <1>2, <1>3, <1>4

\* The pieces of a line.
LEMMA TextIs ==
  ASSUME Parsing, pos < Len(Lines(list))
  PROVE  /\ Text \in Seq(Piece) /\ Text # <<>>
         /\ [of |-> Line.of, half |-> 1] \in Piece
         /\ Whole(Line.of) \in Seq(Piece) /\ Whole(Line.of) # <<>>
         /\ ~half => <<>> \o Text = Whole(Line.of)
         /\ half => <<[of |-> Line.of, half |-> 1]>> \o Text = Whole(Line.of)
<1>1. /\ [of |-> Line.of, half |-> 1] \in Piece
      /\ [of |-> Line.of, half |-> 2] \in Piece
  BY LineIs DEF Piece
<1> DEFINE a == [of |-> Line.of, half |-> 1]
           b == [of |-> Line.of, half |-> 2]
<1>2. Text = IF half THEN <<b>> ELSE <<a, b>>
  BY DEF Text, Rest, Whole
<1>3. Whole(Line.of) = <<a, b>>
  BY DEF Whole
<1>4. half \in BOOLEAN
  BY DEF Parsing
<1> HIDE DEF a, b
<1>5. <<a>> \o <<b>> = <<a, b>>
  <2>1. <<a>> \in Seq({a, b}) /\ b \in {a, b}
    OBVIOUS
  <2>2. <<a>> \o <<b>> = Append(<<a>>, b)
    BY <2>1, AppendIsConcat
  <2>3. /\ Append(<<a>>, b) \in Seq({a, b}) /\ Len(Append(<<a>>, b)) = 2
        /\ Append(<<a>>, b)[1] = a /\ Append(<<a>>, b)[2] = b
    BY <2>1, AppendProperties
  <2>4. <<a, b>> \in Seq({a, b}) /\ Len(<<a, b>>) = 2 /\ <<a, b>>[1] = a /\ <<a, b>>[2] = b
    OBVIOUS
  <2>5. Append(<<a>>, b) = <<a, b>>
    <3>1. \A i \in 1 .. 2 : Append(<<a>>, b)[i] = <<a, b>>[i]
      BY <2>3, <2>4
    <3> QED
      BY <2>3, <2>4, <3>1, SeqEqual
  <2> QED
    BY <2>2, <2>5
<1>6. <<>> \o <<a, b>> = <<a, b>>
  <2>1. <<a, b>> \in Seq({a, b})
    OBVIOUS
  <2> QED
    BY <2>1, ConcatEmptySeq
<1> QED
  BY <1>1, <1>2, <1>3, <1>4, <1>5, <1>6 DEF a, b


\* The items are those of before, k places on, and e at their end.
Shifted(k, e) ==
  /\ k \in {0, 1} /\ (k = 1 <=> count >= MaxItems)
  /\ Len(items') = Len(items) + 1 - k
  /\ items'[Len(items')] = e
  /\ \A i \in 1 .. Len(items') - 1 : i + k \in 1 .. Len(items) /\ items'[i] = items[i + k]

\* push puts the fragment at the end of the list, of which the first goes if it is full.
LEMMA PushIs ==
  ASSUME items \in Seq(Frag), count \in 0 .. MaxItems, count <= Len(items),
         NEW u \in Seq(Piece), NEW d \in Seq(Piece), NEW s \in Nat, Push(u, d, s), u # <<>>
  PROVE  /\ items' \in Seq(Frag) /\ seq' = s + 1 /\ url' = <<>> /\ dur' = <<>>
         /\ count' = IF count >= MaxItems THEN count ELSE count + 1
         /\ \E k : Shifted(k, [seq |-> s, dur |-> d, url |-> u])
<1> DEFINE e == [seq |-> s, dur |-> d, url |-> u]
           more == Append(items, e)
<1>1. e \in Frag
  BY DEF Frag
<1>2. /\ items' = IF count >= MaxItems THEN Tail(more) ELSE more
      /\ count' = IF count >= MaxItems THEN count ELSE count + 1
      /\ seq' = s + 1 /\ url' = <<>> /\ dur' = <<>>
  BY DEF Push
<1> HIDE DEF e
<1>3. /\ more \in Seq(Frag) /\ Len(items) \in Nat /\ Len(more) = Len(items) + 1
      /\ more[Len(items) + 1] = e /\ \A i \in 1 .. Len(items) : more[i] = items[i]
  BY <1>1, AppendIs
<1> HIDE DEF more
<1>4. CASE count >= MaxItems
  <2>1. Len(items) >= 1
    BY <1>3, <1>4, PlaylistAssumption
  <2>2. /\ items' \in Seq(Frag) /\ Len(items') = Len(items)
        /\ \A i \in 1 .. Len(items) : items'[i] = more[i + 1]
    <3>1. items' = Tail(more) /\ more # <<>>
      BY <1>2, <1>3, <1>4, EmptySeq
    <3>2. Tail(more) \in Seq(Frag) /\ Len(Tail(more)) = Len(more) - 1
      BY <1>3, <3>1
    <3>3. \A i \in 1 .. Len(more) - 1 : Tail(more)[i] = more[i + 1]
      BY <1>3, <3>1
    <3> QED
      BY <1>3, <3>1, <3>2, <3>3
  <2>3. items'[Len(items')] = e
    BY <1>3, <2>1, <2>2
  <2>4. ASSUME NEW i \in 1 .. Len(items') - 1
        PROVE  i + 1 \in 1 .. Len(items) /\ items'[i] = items[i + 1]
    BY <1>3, <2>1, <2>2
  <2>5. Shifted(1, e)
    BY <1>3, <1>4, <2>2, <2>3, <2>4 DEF Shifted
  <2> QED
    BY <1>2, <2>2, <2>5 DEF e
<1>5. CASE ~(count >= MaxItems)
  <2>1. items' = more
    BY <1>2, <1>5
  <2>2. \A i \in 1 .. Len(items') - 1 : i + 0 \in 1 .. Len(items) /\ items'[i] = items[i + 0]
    BY <1>3, <2>1
  <2>3. Shifted(0, e)
    BY <1>3, <1>5, <2>1, <2>2 DEF Shifted
  <2> QED
    BY <1>2, <1>3, <2>1, <2>3 DEF e
<1> QED
  BY <1>4, <1>5

\* So the items are the same, counted from the end, one place on.
LEMMA PushEnd ==
  ASSUME items \in Seq(Frag), count \in 0 .. MaxItems, count <= Len(items),
         NEW u \in Seq(Piece), NEW d \in Seq(Piece), NEW s \in Nat, Push(u, d, s), u # <<>>
  PROVE  /\ count' \in 0 .. MaxItems /\ count' <= Len(items') /\ Len(items') \in Nat
         /\ Len(items') - Len(items) = count' - count
         /\ items'[Len(items')] = [seq |-> s, dur |-> d, url |-> u]
         /\ \A j \in 2 .. Len(items') :
              items'[Len(items') + 1 - j] = items[Len(items) + 1 - (j - 1)]
<1>1. PICK k : Shifted(k, [seq |-> s, dur |-> d, url |-> u])
  BY PushIs
<1>2. /\ items' \in Seq(Frag) /\ count' = IF count >= MaxItems THEN count ELSE count + 1
      /\ Len(items) \in Nat /\ Len(items') \in Nat
  <2>1. items' \in Seq(Frag) /\ count' = IF count >= MaxItems THEN count ELSE count + 1
    BY PushIs
  <2> QED
    BY <2>1
<1> USE DEF Shifted
<1>3. count' = count + 1 - k /\ count' \in 0 .. MaxItems
  BY <1>1, <1>2, PlaylistAssumption
<1>4. ASSUME NEW j \in 2 .. Len(items')
      PROVE  items'[Len(items') + 1 - j] = items[Len(items) + 1 - (j - 1)]
  <2>1. Len(items') + 1 - j \in 1 .. Len(items') - 1
        /\ (Len(items') + 1 - j) + k = Len(items) + 1 - (j - 1)
    BY <1>1, <1>2
  <2> QED
    BY <1>1, <2>1
<1>5. Len(items') = Len(items) + 1 - k /\ k \in {0, 1}
  BY <1>1
<1>6. count' <= Len(items') /\ Len(items') - Len(items) = count' - count
  <2>1. count \in Nat /\ Len(items) \in Nat /\ count <= Len(items)
    BY <1>2, PlaylistAssumption
  <2>2. count' = count + 1 - k /\ Len(items') = Len(items) + 1 - k /\ (k = 0 \/ k = 1)
    BY <1>3, <1>5
  <2> QED
    BY <2>1, <2>2
<1> QED
  BY <1>1, <1>2, <1>3, <1>4, <1>6

\* And if the numbers grow they do so after it.
LEMMA PushRising ==
  ASSUME items \in Seq(Frag), count \in 0 .. MaxItems, count <= Len(items),
         NEW u \in Seq(Piece), NEW d \in Seq(Piece), NEW s \in Nat, Push(u, d, s), u # <<>>,
         Rising(items), \A i \in 1 .. Len(items) : items[i].seq < s
  PROVE  Rising(items') /\ \A i \in 1 .. Len(items') : items'[i].seq < seq'
<1>1. PICK k : Shifted(k, [seq |-> s, dur |-> d, url |-> u])
  BY PushIs
<1> USE DEF Shifted
<1>2. seq' = s + 1 /\ Len(items) \in Nat /\ Len(items') \in Nat /\ items'[Len(items')].seq = s
  BY <1>1, PushIs
<1>3. ASSUME NEW i \in 1 .. Len(items') - 1
      PROVE  items'[i].seq < s /\ items'[i].seq \in Nat
  <2>1. i + k \in 1 .. Len(items) /\ items'[i] = items[i + k]
    BY <1>1
  <2>2. items[i + k] \in Frag
    BY <2>1
  <2> QED
    BY <2>1, <2>2 DEF Frag
<1>4. ASSUME NEW i \in 1 .. Len(items'), NEW j \in 1 .. Len(items'), i < j
      PROVE  items'[i].seq < items'[j].seq
  <2>1. i \in 1 .. Len(items') - 1
    BY <1>2, <1>4
  <2>2. CASE j = Len(items')
    BY <1>2, <1>3, <2>1, <2>2
  <2>3. CASE j # Len(items')
    <3>1. j \in 1 .. Len(items') - 1 /\ i + k < j + k
      BY <1>1, <1>2, <1>4, <2>3
    <3> QED
      BY <1>1, <2>1, <3>1 DEF Rising
  <2> QED
    BY <2>2, <2>3
<1>5. ASSUME NEW i \in 1 .. Len(items') PROVE items'[i].seq < seq'
  <2>1. CASE i = Len(items')
    BY <1>2, <2>1
  <2>2. CASE i # Len(items')
    <3>1. i \in 1 .. Len(items') - 1
      BY <1>2, <2>2
    <3> QED
      BY <1>2, <1>3, <3>1
  <2> QED
    BY <2>1, <2>2
<1> QED
  BY <1>4, <1>5 DEF Rising


-----------------------------------------------------------------------------
(* The playlist: the steps *)

\* What is read after one more line.
LEMMA ReadNext ==
  ASSUME Parsing, ~list.page, list' = list, pos' = pos + 1
  PROVE  /\ pos < 2 => FragmentsRead' = 0 /\ Kept' = 0
         /\ pos = 2 * FragmentsRead + 2 => FragmentsRead' = FragmentsRead /\ Kept' = Kept
         /\ pos = 2 * FragmentsRead + 3 =>
              /\ FragmentsRead' = FragmentsRead + 1
              /\ Kept' = IF FragmentsRead + 1 > MaxItems THEN MaxItems ELSE FragmentsRead + 1
<1>1. pos \in Nat /\ FragmentsRead \in Nat /\ MaxItems \in Nat \ {0}
  BY LinesAre, ReadIs, PlaylistAssumption DEF Parsing
<1>2. FragmentsRead' = IF pos + 1 < 2 THEN 0 ELSE (pos + 1 - 2) \div 2
  <2>1. list.page = FALSE
    BY DEF Parsing, List
  <2>2. FragmentsRead' = IF list'.page \/ pos' < 2 THEN 0 ELSE (pos' - 2) \div 2
    BY DEF FragmentsRead
  <2>3. list'.page = FALSE /\ pos' = pos + 1
    BY <2>1
  <2> HIDE DEF FragmentsRead
  <2>4. CASE pos' < 2
    BY <1>1, <2>2, <2>3, <2>4
  <2>5. CASE ~(pos' < 2)
    BY <1>1, <2>2, <2>3, <2>5
  <2> QED
    BY <1>1, <2>3, <2>4, <2>5
<1>3. Kept' = IF FragmentsRead' > MaxItems THEN MaxItems ELSE FragmentsRead'
  BY DEF Kept
<1>4. CASE pos < 2
  <2>1. (pos + 1 - 2) \div 2 = 0 \/ pos + 1 < 2
    BY <1>1, <1>4
  <2> QED
    BY <1>1, <1>2, <1>3, <1>4, <2>1
<1>5. ASSUME NEW r \in Nat, r = FragmentsRead, pos = 2 * r + 2
      PROVE  FragmentsRead' = r /\ Kept' = Kept
  <2>1. pos + 1 - 2 = 2 * r + 1 /\ ~(pos + 1 < 2)
    BY <1>5
  <2>2. FragmentsRead' = r
    BY <1>2, <2>1, Halves
  <2> QED
    BY <1>3, <1>5, <2>2 DEF Kept
<1>6. ASSUME NEW r \in Nat, r = FragmentsRead, pos = 2 * r + 3
      PROVE  FragmentsRead' = r + 1
  <2>1. pos + 1 - 2 = 2 * (r + 1) /\ ~(pos + 1 < 2) /\ r + 1 \in Nat
    BY <1>6
  <2> QED
    BY <1>2, <2>1, Halves
<1> QED
  <2> HIDE DEF FragmentsRead, Kept
  <2> QED
    BY <1>1, <1>3, <1>4, <1>5, <1>6

\* What ParseLine hands to push, and what it leaves alone.
LEMMA LineGives ==
  ASSUME Parsing, ParseLine
  PROVE  /\ pc = "body" /\ pos < Len(Lines(list)) /\ pos' = pos + 1 /\ half' = FALSE
         /\ pc' = pc /\ tries' = tries /\ list' = list
         /\ chunks' = chunks /\ last' = last /\ played' = played
         /\ \E u \in Seq(Piece), d \in Seq(Piece), s \in Nat :
              /\ u = IF Line.tag = "url" THEN url \o Text ELSE url
              /\ d = IF Line.tag = "inf" THEN dur \o Text ELSE dur
              /\ s = IF Line.tag = "sequence" THEN Line.of ELSE seq
              /\ Push(u, d, s)
<1>1. /\ pc = "body" /\ pos < Len(Lines(list)) /\ pos' = pos + 1 /\ half' = FALSE
      /\ pc' = pc /\ tries' = tries /\ list' = list
      /\ chunks' = chunks /\ last' = last /\ played' = played
  BY DEF ParseLine, prodVars
<1> DEFINE u == IF Line.tag = "url" THEN url \o Text ELSE url
           d == IF Line.tag = "inf" THEN dur \o Text ELSE dur
           s == IF Line.tag = "sequence" THEN Line.of ELSE seq
<1>2. url \in Seq(Piece) /\ dur \in Seq(Piece) /\ seq \in Nat
  BY DEF Parsing
<1>3. Text \in Seq(Piece)
  BY <1>1, TextIs
<1>4. url \o Text \in Seq(Piece) /\ dur \o Text \in Seq(Piece)
  BY <1>2, <1>3, ConcatProperties
<1>5. s \in Nat
  <2>1. list.base \in Nat
    BY PlaylistAssumption DEF Parsing, List
  <2> QED
    BY <1>1, <1>2, <2>1, LineIs
<1>6. Push(u, d, s)
  BY DEF ParseLine
<1>7. u \in Seq(Piece) /\ d \in Seq(Piece)
  BY <1>2, <1>4
<1> HIDE DEF u, d, s
<1> QED
  BY <1>1, <1>5, <1>6, <1>7 DEF u, d, s

\* A line is typed, and adds an item only if count grows or the first one goes.
LEMMA LineParsing ==
  ASSUME Parsing, ParseLine
  PROVE  Parsing'
<1>1. /\ pc = "body" /\ pos < Len(Lines(list)) /\ pos' = pos + 1 /\ half' = FALSE
      /\ pc' = pc /\ tries' = tries /\ list' = list
  BY LineGives
<1>2. PICK u \in Seq(Piece), d \in Seq(Piece), s \in Nat : Push(u, d, s)
  BY LineGives
<1>3. /\ items \in Seq(Frag) /\ count \in 0 .. MaxItems /\ count <= Len(items)
      /\ Len(items) \in Nat /\ tries \in Nat /\ MaxItems \in Nat /\ tries * MaxItems \in Nat
      /\ (tries + 1) * MaxItems = tries * MaxItems + MaxItems
      /\ Len(items) <= tries * MaxItems + count
  BY <1>1, PlaylistAssumption DEF Parsing
<1>4. /\ items' \in Seq(Frag) /\ count' \in 0 .. MaxItems /\ count' <= Len(items')
      /\ Len(items') \in Nat /\ Len(items') - Len(items) = count' - count
      /\ seq' \in Nat /\ url' \in Seq(Piece) /\ dur' \in Seq(Piece)
  <2>1. CASE u = <<>>
    BY <1>2, <1>3, <2>1 DEF Push
  <2>2. CASE u # <<>>
    <3>1. items' \in Seq(Frag) /\ seq' = s + 1 /\ url' = <<>> /\ dur' = <<>>
      BY <1>2, <1>3, <2>2, PushIs
    <3>2. /\ count' \in 0 .. MaxItems /\ count' <= Len(items') /\ Len(items') \in Nat
          /\ Len(items') - Len(items) = count' - count
      BY <1>2, <1>3, <2>2, PushEnd
    <3> QED
      BY <3>1, <3>2
  <2> QED
    BY <2>1, <2>2
<1>5. pos' \in 0 .. Len(Lines(list))
  BY <1>1, LinesAre DEF Parsing
<1>6. Len(items') <= tries * MaxItems + count' /\ Len(items') <= tries * MaxItems + MaxItems
  BY <1>3, <1>4
<1>7. (tries' + 1) * MaxItems = tries * MaxItems + MaxItems /\ tries' * MaxItems = tries * MaxItems
  BY <1>1, <1>3
<1> QED
  BY <1>1, <1>3, <1>4, <1>5, <1>6, <1>7 DEF Parsing

\* A line is added to the begun fragment; the end of a url completes it.
LEMMA LineFed ==
  ASSUME Parsing, Fed, ParseLine
  PROVE  Fed'
<1> SUFFICES ASSUME ~list.page PROVE Fed'
  BY LineGives DEF Fed
<1>1. /\ pc = "body" /\ pos < Len(Lines(list)) /\ pos' = pos + 1 /\ half' = FALSE
      /\ pc' = pc /\ tries' = tries /\ list' = list
  BY LineGives
<1>2. PICK u \in Seq(Piece), d \in Seq(Piece), s \in Nat :
        /\ u = IF Line.tag = "url" THEN url \o Text ELSE url
        /\ d = IF Line.tag = "inf" THEN dur \o Text ELSE dur
        /\ s = IF Line.tag = "sequence" THEN Line.of ELSE seq
        /\ Push(u, d, s)
  BY LineGives
<1>9. Push(u, d, s)
  BY <1>2
<1> DEFINE r == FragmentsRead
           f == list.base + r
           first == <<[of |-> f, half |-> 1]>>
<1>3. /\ pos \in Nat /\ half \in BOOLEAN /\ list.base \in Nat /\ r \in Nat
      /\ MaxItems \in Nat \ {0} /\ tries \in Nat
      /\ items \in Seq(Frag) /\ count \in 0 .. MaxItems /\ count <= Len(items)
      /\ seq \in Nat /\ url \in Seq(Piece) /\ dur \in Seq(Piece)
  BY LinesAre, ReadIs, PlaylistAssumption DEF Parsing, List
<1>4. /\ Kept \in Nat /\ Kept <= MaxItems /\ Kept <= r
      /\ pos < 2 => r = 0 /\ Kept = 0
      /\ pos >= 2 => pos \in {2 * r + 2, 2 * r + 3}
  BY ReadIs
<1>5. CASE pos = 0
  <2>1. Line.tag = "m3u" /\ FragmentsRead' = 0 /\ Kept' = 0
    BY <1>1, <1>5, LineIs, ReadNext
  <2>2. u = url /\ d = dur /\ s = seq
    BY <1>2, <2>1
  <2>3. url' = <<>> /\ count' \in Nat
    <3>1. CASE u = <<>>
      BY <1>3, <1>9, <3>1 DEF Push
    <3>2. CASE u # <<>>
      <4>1. url' = <<>>
        BY <1>3, <1>9, <3>2, PushIs
      <4>2. count' \in 0 .. MaxItems
        BY <1>3, <1>9, <3>2, PushEnd
      <4> QED
        BY <4>1, <4>2
    <3> QED
      BY <3>1, <3>2
  <2>4. tries = 0 => items' = <<>> /\ dur' = <<>>
    BY <1>1, <1>2, <1>5, <2>2 DEF Fed, Push
  <2>5. pos' = 1
    BY <1>1, <1>5
  <2> QED
    BY <1>1, <2>1, <2>3, <2>4, <2>5 DEF Fed
<1>6. CASE pos = 1
  <2>1. Line.tag = "sequence" /\ Line.of = list.base /\ FragmentsRead' = 0 /\ Kept' = 0
    BY <1>1, <1>6, LineIs, ReadNext
  <2>2. u = <<>> /\ d = dur /\ s = list.base
    BY <1>1, <1>2, <1>6, <2>1 DEF Fed
  <2>3. items' = items /\ count' = count /\ seq' = list.base /\ url' = <<>> /\ dur' = dur
    BY <1>9, <2>2 DEF Push
  <2>4. tries = 0 => items = <<>> /\ dur = <<>>
    BY <1>1, <1>6 DEF Fed
  <2>5. pos' = 2
    BY <1>1, <1>6
  <2> QED
    BY <1>1, <1>3, <2>1, <2>3, <2>4, <2>5 DEF Fed
<1>7. CASE pos = 2 * r + 2
  <2>1. Line.tag = "inf" /\ Line.of = f /\ FragmentsRead' = r /\ Kept' = Kept
    BY <1>1, <1>7, LineIs, ReadNext
  <2>2. pos >= 2 /\ pos # 2 * r + 3 /\ pos' = 2 * r + 3 /\ pos' >= 2
    BY <1>1, <1>3, <1>7
  <2>3. /\ seq = f /\ url = <<>>
        /\ r > 0 \/ tries = 0 => dur = IF half THEN first ELSE <<>>
    BY <1>1, <2>2 DEF Fed
  <2>4. u = <<>> /\ d = dur \o Text /\ s = seq
    BY <1>2, <2>1, <2>3
  <2>5. r > 0 \/ tries = 0 => d = Whole(f)
    BY <1>1, <1>3, <2>1, <2>3, <2>4, TextIs
  <2>6. items' = items /\ count' = count /\ seq' = f /\ url' = <<>> /\ dur' = d
    BY <1>9, <2>3, <2>4 DEF Push
  <2> QED
    BY <1>1, <2>1, <2>2, <2>5, <2>6 DEF Fed, Exact
<1>8. CASE pos = 2 * r + 3
  <2>1. /\ Line.tag = "url" /\ Line.of = f /\ FragmentsRead' = r + 1
        /\ Kept' = IF r + 1 > MaxItems THEN MaxItems ELSE r + 1
    BY <1>1, <1>8, LineIs, ReadNext
  <2>2. pos >= 2 /\ pos' = 2 * (r + 1) + 2 /\ pos' >= 2 /\ pos' # 2 * (r + 1) + 3
    BY <1>1, <1>3, <1>8
  <2>3. /\ seq = f /\ url = IF half THEN first ELSE <<>>
        /\ r > 0 \/ tries = 0 => dur = Whole(f)
    BY <1>1, <1>8, <2>2 DEF Fed
  <2>4. u = Whole(f) /\ u # <<>> /\ d = dur /\ s = f
    BY <1>1, <1>2, <1>3, <2>1, <2>3, TextIs
  <2>5. /\ seq' = f + 1 /\ url' = <<>> /\ dur' = <<>>
        /\ count' = IF count >= MaxItems THEN count ELSE count + 1
    BY <1>3, <1>9, <2>4, PushIs
  <2>6. /\ count' <= Len(items') /\ Len(items') \in Nat
        /\ Len(items') - Len(items) = count' - count
        /\ items'[Len(items')] = [seq |-> f, dur |-> dur, url |-> Whole(f)]
        /\ \A j \in 2 .. Len(items') : items'[Len(items') + 1 - j] = items[Len(items) + 1 - (j - 1)]
    BY <1>3, <1>9, <2>4, PushEnd
  <2>7. /\ Kept <= count
        /\ tries = 0 => Len(items) = Kept
        /\ \A j \in 1 .. Kept : Exact(items[Len(items) + 1 - j], list.base + r - j)
    BY <1>1 DEF Fed
  <2>8. Kept = IF r > MaxItems THEN MaxItems ELSE r
    BY DEF Kept
  <2> HIDE DEF r
  <2>9. Kept' \in Nat /\ Kept' <= count' /\ Kept' <= Kept + 1 /\ Kept' >= 1
    BY <1>3, <2>1, <2>5, <2>7, <2>8
  <2>10. tries = 0 => Len(items') = Kept'
    <3> SUFFICES ASSUME tries = 0 PROVE Len(items') = Kept'
      OBVIOUS
    <3>1. Len(items) \in Nat
      BY <1>3
    <3>2. Len(items') = count'
      BY <1>3, <2>5, <2>6, <2>7, <3>1
    <3>3. count = Kept
      BY <1>3, <2>7, <3>1
    <3>4. Kept' = IF r + 1 > MaxItems THEN MaxItems ELSE r + 1
      BY <2>1
    <3>5. CASE r >= MaxItems
      <4>1. count = MaxItems /\ count' = MaxItems /\ Kept' = MaxItems
        BY <1>3, <2>5, <2>8, <3>3, <3>4, <3>5
      <4> QED
        BY <3>2, <4>1
    <3>6. CASE r < MaxItems
      <4>1. count = r /\ count' = r + 1 /\ Kept' = r + 1
        BY <1>3, <2>5, <2>8, <3>3, <3>4, <3>6
      <4> QED
        BY <3>2, <4>1
    <3> QED
      BY <1>3, <3>5, <3>6
  <2>11. ASSUME NEW j \in 1 .. Kept'
         PROVE  Exact(items'[Len(items') + 1 - j], list.base + (r + 1) - j)
    <3>1. CASE j = 1
      <4>1. Len(items') + 1 - j = Len(items') /\ list.base + (r + 1) - j = f
        BY <1>3, <2>6, <3>1
      <4>2. dur = Whole(f) \/ (tries > 0 /\ f = list.base)
        <5>1. CASE r > 0 \/ tries = 0
          BY <2>3, <5>1
        <5>2. CASE r = 0 /\ tries > 0
          BY <1>3, <5>2
        <5> QED
          BY <1>3, <5>1, <5>2
      <4> QED
        BY <2>6, <4>1, <4>2 DEF Exact
    <3>2. CASE j # 1
      <4>1. j \in 2 .. Len(items') /\ j - 1 \in 1 .. Kept
        <5>1. Kept \in Nat /\ count' \in Int /\ count' <= Len(items') /\ Len(items') \in Nat
          BY <1>3, <1>4, <2>5, <2>6
        <5> QED
          BY <2>9, <3>2, <5>1
      <4>2. list.base + (r + 1) - j = list.base + r - (j - 1)
        BY <1>3, <4>1
      <4> QED
        BY <2>6, <2>7, <4>1, <4>2
    <3> QED
      BY <3>1, <3>2
  <2> HIDE DEF f
  <2>12. f + 1 = list.base + (r + 1)
    BY <1>3 DEF f
  <2> QED
    BY <1>1, <2>1, <2>2, <2>5, <2>9, <2>10, <2>11, <2>12 DEF Fed, Exact
<1> QED
  BY <1>3, <1>4, <1>5, <1>6, <1>7, <1>8


\* Numbers grow with the parser's own one, which is set while there are no items.
LEMMA LineGrowing ==
  ASSUME Parsing, Fed, Growing, ParseLine
  PROVE  Growing'
<1>1. /\ pc = "body" /\ pos < Len(Lines(list)) /\ pc' = pc /\ tries' = tries
  BY LineGives
<1> SUFFICES ASSUME tries = 0
             PROVE  Rising(items') /\ \A i \in 1 .. Len(items') : items'[i].seq < seq'
  BY <1>1 DEF Growing, Rising
<1>2. PICK u \in Seq(Piece), d \in Seq(Piece), s \in Nat :
        /\ u = IF Line.tag = "url" THEN url \o Text ELSE url
        /\ s = IF Line.tag = "sequence" THEN Line.of ELSE seq
        /\ Push(u, d, s)
  BY LineGives
<1>3. /\ items \in Seq(Frag) /\ count \in 0 .. MaxItems /\ count <= Len(items)
  BY DEF Parsing
<1>4. Rising(items) /\ \A i \in 1 .. Len(items) : items[i].seq < seq
  BY <1>1 DEF Growing
<1>5. Line.tag = "sequence" => u = <<>> /\ items = <<>>
  BY <1>1, <1>2, LineIs DEF Fed
<1>6. CASE u = <<>>
  <2>1. items' = items /\ seq' = s
    BY <1>2, <1>6 DEF Push
  <2>2. CASE Line.tag = "sequence"
    BY <1>5, <2>1, <2>2 DEF Rising
  <2>3. CASE Line.tag # "sequence"
    BY <1>2, <1>4, <2>1, <2>3 DEF Rising
  <2> QED
    BY <2>2, <2>3
<1>7. CASE u # <<>>
  <2>1. s = seq /\ Push(u, d, s)
    BY <1>2, <1>5, <1>7
  <2> QED
    BY <1>3, <1>4, <1>7, <2>1, PushRising
<1> QED
  BY <1>6, <1>7

\* Half a line is added to the begun fragment.
LEMMA HalfKeeps ==
  ASSUME Parsing, Fed, ParseHalf
  PROVE  Parsing' /\ Fed'
<1>1. /\ pc = "body" /\ pos < Len(Lines(list)) /\ half = FALSE /\ half' = TRUE
      /\ pc' = pc /\ tries' = tries /\ list' = list /\ pos' = pos
      /\ items' = items /\ count' = count /\ seq' = seq
      /\ url' = IF Line.tag = "url" THEN Append(url, [of |-> Line.of, half |-> 1]) ELSE url
      /\ dur' = IF Line.tag = "inf" THEN Append(dur, [of |-> Line.of, half |-> 1]) ELSE dur
  BY DEF ParseHalf, Parsing
<1>2. Parsing'
  <2>1. url \in Seq(Piece) /\ dur \in Seq(Piece) /\ [of |-> Line.of, half |-> 1] \in Piece
    BY <1>1, TextIs DEF Parsing
  <2>2. url' \in Seq(Piece) /\ dur' \in Seq(Piece)
    BY <1>1, <2>1, AppendProperties
  <2> QED
    BY <1>1, <2>2 DEF Parsing
<1>3. Fed'
  <2> SUFFICES ASSUME ~list.page PROVE Fed'
    BY <1>1 DEF Fed
  <2>1. FragmentsRead' = FragmentsRead /\ Kept' = Kept
    BY <1>1 DEF FragmentsRead, Kept
  <2>2. /\ pos \in Nat /\ list.base \in Nat /\ FragmentsRead \in Nat
        /\ pos < 2 \/ pos \in {2 * FragmentsRead + 2, 2 * FragmentsRead + 3}
    BY LinesAre, ReadIs, PlaylistAssumption DEF Parsing, List
  <2> DEFINE f == list.base + FragmentsRead
             p == [of |-> f, half |-> 1]
  <2>3. Append(<<>>, p) = <<p>>
    OBVIOUS
  <2>7. /\ Kept' <= count' /\ (tries' = 0 => Len(items') = Kept')
        /\ \A j \in 1 .. Kept' :
             Exact(items[Len(items) + 1 - j], list.base + FragmentsRead - j)'
    BY <1>1, <2>1 DEF Fed, Exact
  <2>4. CASE pos < 2
    <3>1. Line.tag # "url" /\ Line.tag # "inf"
      BY <1>1, <2>2, <2>4, LineIs
    <3>2. url' = url /\ dur' = dur
      BY <1>1, <3>1
    <3>3. /\ tries = 0 => items = <<>> /\ url = <<>> /\ dur = <<>>
          /\ pos = 1 => url = <<>>
      BY <1>1, <2>4 DEF Fed
    <3> HIDE DEF FragmentsRead, Kept, Exact
    <3> QED
      BY <1>1, <2>2, <2>4, <2>7, <3>2, <3>3 DEF Fed
  <2>5. CASE pos = 2 * FragmentsRead + 2
    <3>1. Line.tag = "inf" /\ Line.of = f
      BY <1>1, <2>5, LineIs
    <3>2. pos >= 2 /\ pos # 2 * FragmentsRead + 3
      BY <2>2, <2>5
    <3>3. url = <<>> /\ seq = f /\ (FragmentsRead > 0 \/ tries = 0 => dur = <<>>)
      BY <1>1, <3>2 DEF Fed
    <3>4. url' = <<>> /\ seq' = f /\ (FragmentsRead > 0 \/ tries = 0 => dur' = <<p>>)
      BY <1>1, <2>3, <3>1, <3>3
    <3> QED
      BY <1>1, <2>1, <2>5, <2>7, <3>2, <3>4 DEF Fed
  <2>6. CASE pos = 2 * FragmentsRead + 3
    <3>1. Line.tag = "url" /\ Line.of = f
      BY <1>1, <2>6, LineIs
    <3>2. pos >= 2
      BY <2>2, <2>6
    <3>3. url = <<>> /\ seq = f /\ (FragmentsRead > 0 \/ tries = 0 => dur = Whole(f))
      BY <1>1, <2>6, <3>2 DEF Fed
    <3>4. url' = <<p>> /\ seq' = f /\ (FragmentsRead > 0 \/ tries = 0 => dur' = Whole(f))
      BY <1>1, <2>3, <3>1, <3>3
    <3> QED
      <4>1. /\ ~(pos' < 2) /\ pos' # 1 /\ pos' >= 2 /\ pos' = 2 * FragmentsRead' + 3 /\ half'
            /\ list'.base + FragmentsRead' = f /\ tries' = tries
        BY <1>1, <2>1, <2>2, <2>6, <3>2
      <4> QED
        BY <2>1, <2>7, <3>4, <4>1 DEF Fed
  <2> QED
    BY <2>2, <2>4, <2>5, <2>6
<1> QED
  BY <1>2, <1>3

\* The parser and the list of a request that begins, is tried again, or is given up.
LEMMA RequestKeeps ==
  ASSUME Reading, \/ Refresh \/ TryAgain \/ \E l \in List : Try(l)
  PROVE  Reading'
<1> USE PlaylistAssumption
<1>1. CASE Refresh
  <2>1. Parsing' /\ Handing'
    BY <1>1, EmptySeq DEF Refresh, Reading, Parsing, Handing, prodVars
  <2>2. Fed' /\ Growing'
    BY <1>1 DEF Refresh, Fed, Growing
  <2> QED
    BY <2>1, <2>2 DEF Reading
<1>2. CASE TryAgain
  <2>1. /\ pc = "body" /\ tries' = tries + 1 /\ tries < Attempts /\ tries \in Nat
        /\ pc' \in {"try", "idle"} /\ (pc' = "try" => tries' < Attempts)
        /\ list' = list /\ pos' = pos /\ half' = half
        /\ items' = items /\ count' = count /\ seq' = seq /\ url' = url /\ dur' = dur
        /\ chunks' = chunks /\ last' = last /\ played' = played
    BY <1>2 DEF TryAgain, Reading, Parsing, parserVars, prodVars
  <2>2. /\ Len(items) <= tries * MaxItems + count /\ count <= MaxItems /\ count \in Nat
        /\ tries * MaxItems \in Nat /\ Len(items) \in Nat
        /\ (tries + 1) * MaxItems = tries * MaxItems + MaxItems
        /\ (tries + 1 + 1) * MaxItems = tries * MaxItems + MaxItems + MaxItems
    BY <2>1 DEF Reading, Parsing
  <2>3. Len(items) <= (tries + 1) * MaxItems /\ Len(items) <= (tries + 1 + 1) * MaxItems
    BY <2>2
  <2>4. Parsing'
    BY <2>1, <2>3 DEF Reading, Parsing
  <2>5. Handing'
    BY <2>1 DEF Reading, Handing
  <2>6. Fed' /\ Growing'
    BY <2>1 DEF Fed, Growing
  <2> QED
    BY <2>4, <2>5, <2>6 DEF Reading
<1>3. ASSUME NEW l \in List, Try(l) PROVE Reading'
  <2>1. /\ pc = "try" /\ pc' = "body" /\ tries' = tries /\ list' = l /\ pos' = 0 /\ half' = FALSE
        /\ items' = items /\ count' = 0 /\ seq' = 0 /\ url' = url /\ dur' = dur
        /\ chunks' = chunks /\ last' = last /\ played' = played
    BY <1>3 DEF Try, Begin, prodVars
  <2>2. Len(Lines(l)) \in Nat /\ Len(items) \in Nat /\ tries * MaxItems \in Nat
    <3>1. l.len \in Nat /\ l.page \in BOOLEAN
      BY DEF List
    <3> QED
      BY <3>1, LinesAre DEF Reading, Parsing
  <2>8. /\ Len(items) <= tries * MaxItems /\ Len(items) <= tries * MaxItems + 0
        /\ 0 \in 0 .. Len(Lines(l)) /\ 0 \in 0 .. MaxItems /\ 0 <= Len(items)
    BY <2>1, <2>2 DEF Reading, Parsing
  <2>3. Parsing'
    BY <2>1, <2>8 DEF Reading, Parsing
  <2>4. Handing'
    BY <2>1 DEF Reading, Handing
  <2>5. tries = 0 => items = <<>> /\ url = <<>> /\ dur = <<>>
    BY <2>1 DEF Reading, Growing
  <2>6. Fed'
    <3>1. FragmentsRead' = 0 /\ Kept' = 0
      BY <2>1 DEF FragmentsRead, Kept
    <3> QED
      BY <2>1, <2>5, <3>1 DEF Fed
  <2>7. Growing'
    BY <2>1, <2>5 DEF Growing, Rising
  <2> QED
    BY <2>3, <2>4, <2>6, <2>7 DEF Reading
<1> QED
  BY <1>1, <1>2, <1>3

\* What get_chunks hands over is newer than what was taken, and its last is remembered.
LEMMA GetKeeps ==
  ASSUME Reading, GetChunks
  PROVE  Reading'
<1>1. /\ pc = "body" /\ chunks' = Newer
      /\ last' = IF Newer = <<>> THEN last ELSE Newer[Len(Newer)].seq
      /\ pc' = IF Newer = <<>> THEN "idle" ELSE "got"
      /\ tries' = tries /\ list' = list /\ pos' = pos /\ half' = half
      /\ items' = items /\ count' = count /\ seq' = seq /\ url' = url /\ dur' = dur
      /\ played' = played
  BY DEF GetChunks, Last, parserVars
<1>2. items \in Seq(Frag) /\ last \in Nat /\ played \in Nat /\ played = last
  BY <1>1 DEF Reading, Parsing, Handing
<1>3. /\ Newer \in Seq(Frag) /\ (Rising(items) => Rising(Newer))
      /\ \A i \in 1 .. Len(Newer) : Newer[i].seq >= last + 1
  BY <1>2, FromIs DEF Newer
<1>4. Newer # <<>> => Len(Newer) \in 1 .. Len(Newer) /\ Newer[Len(Newer)].seq \in Nat
  <2> SUFFICES ASSUME Newer # <<>>
               PROVE  Len(Newer) \in 1 .. Len(Newer) /\ Newer[Len(Newer)].seq \in Nat
    OBVIOUS
  <2>1. Len(Newer) \in Nat /\ Len(Newer) # 0
    BY <1>3, EmptySeq
  <2>2. Len(Newer) \in 1 .. Len(Newer)
    BY <2>1
  <2>3. Newer[Len(Newer)] \in Frag
    BY <1>3, <2>2
  <2> QED
    BY <2>2, <2>3 DEF Frag
<1>5. Parsing'
  BY <1>1 DEF Reading, Parsing
<1>6. Handing'
  BY <1>1, <1>2, <1>3, <1>4 DEF Handing
<1>7. Fed'
  BY <1>1 DEF Fed
<1>8. Growing'
  <2>1. tries = 0 => Rising(items)
    BY <1>1 DEF Reading, Growing
  <2>2. \A i \in 1 .. Len(Newer) : played < Newer[i].seq
    <3>1. ASSUME NEW i \in 1 .. Len(Newer) PROVE played < Newer[i].seq
      <4>1. Newer[i] \in Frag
        BY <1>3
      <4> QED
        BY <1>2, <1>3, <4>1 DEF Frag
    <3> QED
      BY <3>1
  <2> QED
    BY <1>1, <1>3, <2>1, <2>2 DEF Growing, Rising
<1> QED
  BY <1>5, <1>6, <1>7, <1>8 DEF Reading


\* The producer takes the fragments one by one; with the last one it has come to last.
LEMMA TakeKeeps ==
  ASSUME Reading, Take
  PROVE  Reading'
<1>1. /\ pc = "got" /\ played' = Head(chunks).seq /\ chunks' = Tail(chunks)
      /\ pc' = IF Len(chunks) = 1 THEN "idle" ELSE "got"
      /\ tries' = tries /\ list' = list /\ pos' = pos /\ half' = half
      /\ items' = items /\ count' = count /\ seq' = seq /\ url' = url /\ dur' = dur
      /\ last' = last
  BY DEF Take, parserVars
<1>2. /\ chunks \in Seq(Frag) /\ chunks # <<>> /\ chunks[Len(chunks)].seq = last /\ last \in Nat
  BY <1>1 DEF Reading, Handing
<1>3. Len(chunks) \in Nat /\ Len(chunks) >= 1
  BY <1>2, EmptySeq
<1>4. /\ Tail(chunks) \in Seq(Frag) /\ Len(Tail(chunks)) = Len(chunks) - 1
      /\ \A i \in 1 .. Len(chunks) - 1 : Tail(chunks)[i] = chunks[i + 1]
  BY <1>2, <1>3
<1>5. played' = chunks[1].seq /\ chunks[1].seq \in Nat
  <2>2. Head(chunks) = chunks[1]
    BY <1>2, <1>3
  <2>1. chunks[1] \in Frag
    BY <1>2, <1>3
  <2> QED
    BY <1>1, <2>1, <2>2 DEF Frag
<1>6. Tail(chunks) = <<>> <=> Len(chunks) = 1
  <2>1. Tail(chunks) = <<>> <=> Len(Tail(chunks)) = 0
    BY <1>4, EmptySeq
  <2> QED
    BY <1>3, <1>4, <2>1
<1>7. Len(chunks) # 1 => Tail(chunks)[Len(Tail(chunks))].seq = last
  <2> SUFFICES ASSUME Len(chunks) # 1 PROVE Tail(chunks)[Len(Tail(chunks))].seq = last
    OBVIOUS
  <2> DEFINE n == Len(chunks) - 1
  <2>1. n \in 1 .. Len(chunks) - 1 /\ n + 1 = Len(chunks) /\ Len(Tail(chunks)) = n
    BY <1>3, <1>4
  <2> HIDE DEF n
  <2>2. Tail(chunks)[n] = chunks[n + 1]
    BY <1>4, <2>1
  <2> QED
    BY <1>2, <2>1, <2>2
<1>8. Parsing'
  BY <1>1 DEF Reading, Parsing
<1>9. Handing'
  <2>1. Len(chunks) = 1 => chunks[1].seq = last
    BY <1>2
  <2> QED
    BY <1>1, <1>2, <1>4, <1>5, <1>6, <1>7, <2>1 DEF Handing
<1>10. Fed'
  BY <1>1 DEF Fed
<1>11. Growing'
  <2> SUFFICES ASSUME tries = 0
               PROVE  /\ Rising(Tail(chunks))
                      /\ \A i \in 1 .. Len(Tail(chunks)) : chunks[1].seq < Tail(chunks)[i].seq
    BY <1>1 DEF Growing, Rising
  <2>1. Rising(chunks)
    BY <1>1 DEF Reading, Growing
  <2>2. \A i \in 1 .. Len(Tail(chunks)) :
          i + 1 \in 1 .. Len(chunks) /\ 1 < i + 1 /\ Tail(chunks)[i] = chunks[i + 1]
    BY <1>3, <1>4
  <2>3. 1 \in 1 .. Len(chunks)
    BY <1>3
  <2>4. \A i, j \in 1 .. Len(Tail(chunks)) : i < j => i + 1 < j + 1
    BY <1>3, <1>4
  <2> QED
    BY <2>1, <2>2, <2>3, <2>4 DEF Rising
<1> QED
  BY <1>8, <1>9, <1>10, <1>11 DEF Reading

\* Nothing is read of the first list.
LEMMA InitReading == PlaylistInit => Reading
<1> SUFFICES ASSUME PlaylistInit PROVE Reading
  OBVIOUS
<1>1. list \in List /\ list.len = 0 /\ ~list.page
  BY PlaylistAssumption DEF PlaylistInit, List
<1>2. Len(Lines(list)) = 2
  <2>1. Len(Lines(list)) = 2 * list.len + 2
    BY <1>1, LinesAre
  <2> QED
    BY <1>1, <2>1
<1>3. pos \in 0 .. Len(Lines(list)) /\ (tries + 1) * MaxItems = MaxItems
  BY <1>2, PlaylistAssumption DEF PlaylistInit
<1>4. /\ items \in Seq(Frag) /\ url \in Seq(Piece) /\ dur \in Seq(Piece) /\ Len(items) = 0
      /\ pc = "idle" /\ tries = 0 /\ count = 0 /\ seq = 0 /\ half = FALSE
  BY DEF PlaylistInit
<1>5. Len(items) <= (tries + 1) * MaxItems /\ tries \in 0 .. Attempts /\ count \in 0 .. MaxItems
  BY <1>3, <1>4, PlaylistAssumption
<1>6. Parsing
  <2>1. /\ pc \in {"idle", "try", "body", "got"} /\ pc \notin {"try", "body"}
        /\ pc # "try" /\ pc # "body" /\ seq \in Nat /\ count <= Len(items)
    BY <1>4
  <2>2. list \in List /\ half \in BOOLEAN
    BY <1>1, <1>4
  <2> QED
    BY <1>3, <1>4, <1>5, <2>1, <2>2 DEF Parsing
<1> QED
  BY <1>6, EmptySeq DEF PlaylistInit, Reading, Handing, Fed, Growing

\* Every step of a request, of the parser and of the producer keeps it.
LEMMA NextReading == Reading /\ [PlaylistNext]_playlistVars => Reading'
<1> SUFFICES ASSUME Reading, [PlaylistNext]_playlistVars PROVE Reading'
  OBVIOUS
<1>1. CASE Refresh \/ TryAgain \/ \E l \in List : Try(l)
  BY <1>1, RequestKeeps
<1>2. CASE ParseHalf
  <2>1. Parsing' /\ Fed'
    BY <1>2, HalfKeeps DEF Reading
  <2>2. Handing' /\ Growing'
    BY <1>2 DEF ParseHalf, Reading, Handing, Growing, Rising, prodVars
  <2> QED
    BY <2>1, <2>2 DEF Reading
<1>3. CASE ParseLine
  <2>1. Parsing' /\ Fed' /\ Growing'
    BY <1>3, LineParsing, LineFed, LineGrowing DEF Reading
  <2>2. Handing'
    BY <1>3, LineGives DEF Reading, Handing
  <2> QED
    BY <2>1, <2>2 DEF Reading
<1>4. CASE GetChunks
  BY <1>4, GetKeeps
<1>5. CASE Take
  BY <1>5, TakeKeeps
<1>6. CASE UNCHANGED playlistVars
  <2>1. UNCHANGED <<pc, tries, list, pos, half, items, count, seq, url, dur, chunks, last, played>>
    BY <1>6 DEF playlistVars, reqVars, parserVars, prodVars
  <2>2. Parsing' /\ Handing' /\ Growing'
    BY <2>1 DEF Reading, Parsing, Handing, Growing, Rising
  <2>3. Fed'
    <3>1. FragmentsRead' = FragmentsRead /\ Kept' = Kept
      BY <2>1 DEF FragmentsRead, Kept
    <3>2. /\ Kept' <= count' /\ (tries' = 0 => Len(items') = Kept')
          /\ \A j \in 1 .. Kept' :
               Exact(items[Len(items) + 1 - j], list.base + FragmentsRead - j)'
        \/ ~(pc' = "body" /\ ~list'.page)
      BY <2>1, <3>1 DEF Reading, Fed, Exact
    <3> QED
      BY <2>1, <3>1, <3>2 DEF Reading, Fed
  <2> QED
    BY <2>2, <2>3 DEF Reading
<1> QED
  BY <1>1, <1>2, <1>3, <1>4, <1>5, <1>6 DEF PlaylistNext

-----------------------------------------------------------------------------
(* The playlist: what the invariant says *)

\* Fragments are chunks.
LEMMA FragsAreChunks == ASSUME NEW s \in Seq(Frag) PROVE s \in Seq(Chunk)
<1>1. Frag \subseteq Chunk
  BY DEF Frag, Chunk
<1>2. Len(s) \in Nat /\ s \in [1 .. Len(s) -> Chunk]
  <2>1. Len(s) \in Nat /\ s \in [1 .. Len(s) -> Frag]
    OBVIOUS
  <2> QED
    BY <1>1, <2>1
<1> QED
  BY <1>2

\* The invariant is what the properties say, counted from the other end.
LEMMA ReadingIs == Reading => TailExact
<1> SUFFICES ASSUME Reading PROVE TailExact
  OBVIOUS
<1>1. PlaylistTypeOK
  BY FragsAreChunks DEF Reading, Parsing, Handing, PlaylistTypeOK
<1>2. ASSUME pc = "body", ~list.page
      PROVE  /\ tries = 0 => items = Expected
             /\ Kept <= Len(items)
             /\ \A i \in 1 .. Kept :
                  LET c == items[Len(items) - Kept + i]
                  IN  /\ c.seq = Expected[i].seq /\ c.url = Expected[i].url
                      /\ c.dur = Expected[i].dur \/ c.seq = list.base
  <2>1. /\ Kept <= count /\ (tries = 0 => Len(items) = Kept)
        /\ \A j \in 1 .. Kept : Exact(items[Len(items) + 1 - j], list.base + FragmentsRead - j)
    BY <1>2 DEF Reading, Fed
  <2>2. /\ FragmentsRead \in Nat /\ Kept \in Nat /\ list.base \in Nat /\ tries \in Nat
        /\ items \in Seq(Frag) /\ count \in Nat /\ count <= Len(items) /\ Len(items) \in Nat
        /\ Kept <= FragmentsRead
    BY ReadIs, PlaylistAssumption DEF Reading, Parsing, List
  <2> HIDE DEF FragmentsRead, Kept
  <2>3. Kept <= Len(items)
    BY <2>1, <2>2
  <2> DEFINE f(i) == list.base + FragmentsRead - Kept + i - 1
  <2>4. ASSUME NEW i \in 1 .. Kept
        PROVE  /\ Len(items) - Kept + i \in 1 .. Len(items)
               /\ Exact(items[Len(items) - Kept + i], f(i))
    <3>1. /\ Kept + 1 - i \in 1 .. Kept
          /\ Len(items) + 1 - (Kept + 1 - i) = Len(items) - Kept + i
          /\ list.base + FragmentsRead - (Kept + 1 - i) = f(i)
          /\ Len(items) - Kept + i \in 1 .. Len(items)
      BY <2>2, <2>3
    <3> HIDE DEF f
    <3> QED
      BY <2>1, <3>1
  <2>5. /\ Len(Expected) = Kept
        /\ \A i \in 1 .. Kept :
             Expected[i] = [seq |-> f(i), dur |-> Whole(f(i)), url |-> Whole(f(i))]
    BY <2>2 DEF Expected
  <2> HIDE DEF f
  <2>6. ASSUME NEW i \in 1 .. Kept
        PROVE  LET c == items[Len(items) - Kept + i]
               IN  /\ c.seq = Expected[i].seq /\ c.url = Expected[i].url
                   /\ c.dur = Expected[i].dur \/ c.seq = list.base
    BY <2>4, <2>5 DEF Exact
  <2>7. ASSUME tries = 0 PROVE items = Expected
    <3>1. Len(items) = Kept
      BY <2>1, <2>7
    <3>2. ASSUME NEW i \in 1 .. Kept
          PROVE  items[i] = Expected[i]
      <4>1. Len(items) - Kept + i = i
        BY <2>2, <3>1
      <4>2. Exact(items[i], f(i)) /\ items[i] \in Frag
        BY <2>2, <2>4, <3>1, <4>1
      <4>3. items[i].seq = f(i) /\ items[i].dur = Whole(f(i)) /\ items[i].url = Whole(f(i))
        BY <2>7, <4>2 DEF Exact
      <4>4. items[i] = [seq |-> items[i].seq, dur |-> items[i].dur, url |-> items[i].url]
        BY <4>2 DEF Frag
      <4> QED
        BY <2>5, <4>3, <4>4
    <3>3. Expected \in Seq(Frag)
      <4>1. ASSUME NEW i \in 1 .. Kept PROVE Expected[i] \in Frag
        BY <2>2, <3>1, <3>2, <4>1
      <4>2. Expected = [i \in 1 .. Kept |-> Expected[i]]
        BY DEF Expected
      <4> QED
        BY <2>2, <4>1, <4>2
    <3> QED
      BY <2>2, <2>5, <3>1, <3>2, <3>3, SeqEqual
  <2> QED
    BY <2>3, <2>6, <2>7
<1> QED
  BY <1>1, <1>2 DEF TailExact

\* However the body arrives and wherever it ends, and whatever earlier tries left, for any
\* limits and playlists: the last MaxItems fragments read are the last items, once each, with
\* their numbers and urls, and in the first try nothing else is.
THEOREM PlaylistIsRead == PlaylistSpec => []TailExact
BY InitReading, NextReading, ReadingIs, PTL DEF PlaylistSpec

\* The producer takes no fragment twice or out of order, unless the request was tried again.
THEOREM TakenInOrder == PlaylistSpec => InOrder
<1>1. ASSUME Reading, [PlaylistNext]_playlistVars, pc = "got", chunks' # chunks, tries = 0
      PROVE  played' > played
  <2>1. Take
    BY <1>1 DEF PlaylistNext, Refresh, Try, TryAgain, ParseHalf, ParseLine, GetChunks,
                playlistVars, prodVars
  <2>2. played' = Head(chunks).seq
    BY <2>1 DEF Take
  <2>3. chunks \in Seq(Frag) /\ chunks # <<>> /\ played \in Nat
    BY <1>1 DEF Reading, Handing
  <2>4. 1 \in 1 .. Len(chunks) /\ chunks[1].seq \in Nat /\ Head(chunks) = chunks[1]
    <3>1. Len(chunks) \in Nat /\ Len(chunks) # 0
      BY <2>3, EmptySeq
    <3>2. 1 \in 1 .. Len(chunks)
      BY <3>1
    <3>3. chunks[1] \in Frag
      BY <2>3, <3>2
    <3> QED
      BY <2>3, <3>2, <3>3 DEF Frag
  <2>5. played < chunks[1].seq
    BY <1>1, <2>4 DEF Reading, Growing
  <2> QED
    BY <2>2, <2>3, <2>4, <2>5
<1>2. Reading /\ [PlaylistNext]_playlistVars =>
        [pc = "got" /\ chunks' # chunks /\ tries = 0 => played' > played]_playlistVars
  BY <1>1
<1> QED
  BY <1>2, InitReading, NextReading, PTL DEF PlaylistSpec, InOrder

==================================================================================
