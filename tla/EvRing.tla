--------------------------------- MODULE EvRing ---------------------------------
(***************************************************************************)
(* The ring buffer of an ottcast source.  The source reads its pipe into   *)
(* the buffer at wr_offset and goes round; every client has a rd_offset of *)
(* its own and is written what lies between the two.  Nothing holds the    *)
(* source back for a slow client: when it goes past rd_offset the client   *)
(* loses what was there and goes on with what is there now.                *)
(*                                                                         *)
(* A byte is known by its place in the stream of the source, which is a    *)
(* sequence of packets of Packet bytes.                                    *)
(***************************************************************************)
EXTENDS Integers

CONSTANTS
  Client,    \* the clients of the source
  Packet,    \* defaults::ts_packet_size
  CacheSize, \* the size asked for, chnl->cache or cache_size
  Nothing,   \* not a byte: never written
  MaxTotal   \* bound: bytes the source reads

ASSUME RingAssumption ==
  /\ Packet \in Nat \ {0}
  /\ CacheSize \in Nat \ {0}
  /\ Nothing \notin Nat
  /\ MaxTotal \in Nat

VARIABLES
  \* ev::source
  buf, wr, rotate,
  \* the clients
  rd,
  st,      \* off, joined (the answer is not sent yet, st of 11), stream (st of 20)
  \* history
  total,   \* bytes the source has read
  owed,    \* the byte a client is to get next
  fresh    \* nothing was sent to the client yet

vars == <<buf, wr, rotate, rd, st, total, owed, fresh>>

\* Mutant: the size is taken as it is.
Size_Any == CacheSize

\* source::set_buf_size: the next multiple of Packet.
AlignRight(n) == IF n % Packet = 0 THEN n ELSE n + Packet - (n % Packet)
Size == AlignRight(CacheSize)

Offset == 0 .. Size - 1

Init ==
  /\ buf = [o \in Offset |-> Nothing] /\ wr = 0 /\ rotate = FALSE
  /\ rd = [c \in Client |-> 0]
  /\ st = [c \in Client |-> "off"]
  /\ total = 0
  /\ owed = [c \in Client |-> 0] /\ fresh = [c \in Client |-> TRUE]

-----------------------------------------------------------------------------
\* on_event of the source: one read, up to the end of the buffer.
Read(n) ==
  /\ n <= Size - wr /\ total + n <= MaxTotal
  /\ buf' = [o \in Offset |-> IF wr <= o /\ o < wr + n THEN total + o - wr ELSE buf[o]]
  /\ wr' = IF wr + n >= Size THEN 0 ELSE wr + n
  /\ rotate' = IF wr + n >= Size THEN TRUE ELSE rotate
  /\ total' = total + n
  /\ UNCHANGED <<rd, st, owed, fresh>>

\* attach: the oldest whole packet of the buffer.
Start ==
  LET oldest == AlignRight(wr + 1)
  IN  IF ~rotate \/ oldest >= Size THEN 0 ELSE oldest

Attach(c) ==
  /\ st[c] = "off"
  /\ st' = [st EXCEPT ![c] = "joined"]
  /\ rd' = [rd EXCEPT ![c] = Start]
  /\ owed' = [owed EXCEPT ![c] = IF Start <= wr \/ ~rotate THEN total - wr + Start
                                 ELSE total - wr - Size + Start]
  /\ fresh' = [fresh EXCEPT ![c] = TRUE]
  /\ UNCHANGED <<buf, wr, rotate, total>>

\* The answer is sent.
Answered(c) ==
  /\ st[c] = "joined"
  /\ st' = [st EXCEPT ![c] = "stream"]
  /\ UNCHANGED <<buf, wr, rotate, rd, total, owed, fresh>>

Leave(c) ==
  /\ st[c] # "off"
  /\ st' = [st EXCEPT ![c] = "off"]
  /\ rd' = [rd EXCEPT ![c] = 0] /\ owed' = [owed EXCEPT ![c] = 0]
  /\ fresh' = [fresh EXCEPT ![c] = TRUE]
  /\ UNCHANGED <<buf, wr, rotate, total>>

\* Mutant: a client that stands where the source writes has a full buffer to get.
Ready_Equal(c) == IF rd[c] >= wr THEN Size - rd[c] ELSE wr - rd[c]

\* What flush_buffer offers to write.
Ready(c) == IF rd[c] > wr THEN Size - rd[c] ELSE wr - rd[c]

\* flush_buffer: one write, of which the socket takes n bytes.
Write(c, n) ==
  /\ st[c] = "stream" /\ n <= Ready(c)
  /\ rd' = [rd EXCEPT ![c] = IF rd[c] + n >= Size THEN 0 ELSE rd[c] + n]
  /\ owed' = [owed EXCEPT ![c] = buf[rd[c]] + n]
  /\ fresh' = [fresh EXCEPT ![c] = FALSE]
  /\ UNCHANGED <<buf, wr, rotate, st, total>>

Next ==
  \/ \E n \in 1 .. Size : Read(n)
  \/ \E c \in Client : Attach(c) \/ Answered(c) \/ Leave(c) \/ \E n \in 1 .. Size : Write(c, n)

Spec == Init /\ [][Next]_vars

-----------------------------------------------------------------------------
(* Properties *)

TypeOK ==
  /\ buf \in [Offset -> Nat \cup {Nothing}]
  /\ wr \in Offset /\ rotate \in BOOLEAN
  /\ rd \in [Client -> Offset]
  /\ st \in [Client -> {"off", "joined", "stream"}]
  /\ total \in Nat
  /\ owed \in [Client -> Nat] /\ fresh \in [Client -> BOOLEAN]

\* What is offered to a client was read from the source, is in one piece, and is
\* newer than all it got before, be it passed by the source any number of times.
OffersNew ==
  \A c \in Client : st[c] = "stream" =>
    \A k \in 0 .. Ready(c) - 1 :
      /\ buf[rd[c] + k] \in Nat
      /\ buf[rd[c] + k] = buf[rd[c]] + k
      /\ buf[rd[c] + k] >= owed[c]

\* A client misses bytes only if the source is a buffer or more ahead of it.
LossOnlyIfLapped ==
  \A c \in Client :
    st[c] = "stream" /\ Ready(c) > 0 /\ buf[rd[c]] # owed[c] => total - owed[c] > Size

\* It starts with a packet, and what it misses is whole packets: a player never
\* loses the boundaries of packets.
InPhase ==
  \A c \in Client :
    st[c] = "stream" /\ Ready(c) > 0 =>
      /\ buf[rd[c]] % Packet = owed[c] % Packet
      /\ fresh[c] => buf[rd[c]] % Packet = 0
================================================================================
