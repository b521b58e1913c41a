--------------------------- MODULE ChunkTransferProofs ---------------------------
(***************************************************************************)
(* Proofs about ChunkTransfer for any origins, numbers of tries and bodies *)
(* of any length.                                                          *)
(*                                                                         *)
(* Everything rests on what may lie on a connection: while no request uses *)
(* it, nothing that could be taken for an answer; from the request to the  *)
(* head, at most one empty line before the answer; then the rest of this   *)
(* answer and nothing else.                                                *)
(***************************************************************************)
EXTENDS ChunkTransfer, SequenceTheorems, TLAPS

-----------------------------------------------------------------------------
(* The invariants *)

NoHeads(wire) == \A i \in 1 .. Len(wire) : wire[i].kind # "head"

\* What is on a connection while no request uses it: nothing that could be taken for an
\* answer, and nothing at all but the end of a chunked body unless the peer has closed it.
Quiet(c) ==
  c # NoConn => /\ NoHeads(c.wire)
                /\ ~c.ended => c.wire \in {<<>>, <<Blank>>}

\* What may follow the head h on a connection when rest parts of its body have not been read:
\* a part of this body, from there on, and all of it if the peer keeps the connection.
Follows(h, rest, wire, ended) ==
  /\ \A i \in 1 .. Len(wire) :
       /\ wire[i].kind # "head"
       /\ wire[i].kind = "data" => wire[i].req = req
       /\ h.frame # "chunked" => wire[i].kind = "data"
       /\ h.frame = "length" => wire[i].part = h.len - rest + i /\ wire[i].att = att
  /\ \A i, j \in 1 .. Len(wire) : i < j /\ wire[i].kind # "data" => wire[j] = Blank /\ j = i + 1
  /\ h.frame = "length" => Len(wire) <= rest
  /\ h.frame = "close" /\ ~ended => wire = <<>>

IsAnswer(wire, ended) ==
  /\ wire # <<>> /\ wire[1] \in Reply /\ wire[1].req = req
  /\ Follows(wire[1], wire[1].len, Tail(wire), ended)

\* The connections: quiet, but for the one that the request in progress is on.
Wires ==
  /\ \A h \in Host : h # host \/ pc \notin {"head", "body", "aborted"} => Quiet(conn[h])
  /\ pc = "head" => \/ NoHeads(Wire)
                    \/ IsAnswer(Wire, conn[host].ended)
                    \/ Wire # <<>> /\ Wire[1] = Blank /\ IsAnswer(Tail(Wire), conn[host].ended)
  /\ pc = "body" => resp # NoHead /\ Follows(resp, left, Wire, conn[host].ended)

\* What the head and the file hold is of this request.
Own ==
  /\ resp # NoHead => resp.req = req
  /\ \A j \in 1 .. Len(file) : file[j].kind = "data" /\ file[j].req = req

\* What has been written in this try, where the length of the body is known: bytes counts
\* over all tries, off only in the last one.
Written ==
  /\ Len(file) <= bytes
  /\ pc \in {"send", "head", "body"} => ~rc
  /\ pc = "head" => off = 0
  /\ att = 0 => bytes = off
  /\ att = 0 /\ pc \in {"connect", "send", "head"} => bytes = 0 /\ lost = 0
  /\ (pc = "done" /\ rc /\ resp.frame = "length") => left = 0
  /\ ((pc = "body" \/ (pc = "done" /\ rc)) /\ resp.frame = "length") =>
       /\ att = 0 => off + lost = resp.len - left
       /\ lost = 0 => off = resp.len - left
       /\ lost = 0 => \A j \in 1 .. off : file[j].part = j /\ file[j].att = file[1].att
       /\ (pc = "body" /\ lost = 0) => \A j \in 1 .. off : file[j].att = att

Inv == TypeOK /\ Wires /\ Own /\ Written

-----------------------------------------------------------------------------
(* Tokens and answers *)

\* The kind of a token tells what it is.
LEMMA TokenKinds ==
  ASSUME NEW t \in Token
  PROVE  /\ t \in Reply <=> t.kind = "head"
         /\ t \in Part <=> t.kind = "data"
         /\ t = Blank <=> t.kind = "blank"
         /\ t = Zero <=> t.kind = "zero"
         /\ t.kind \in {"head", "data", "blank", "zero"}
<1>1. \A x \in Reply : x.kind = "head"
  BY DEF Reply, ReplyTo
<1>2. \A x \in Part : x.kind = "data"
  BY DEF Part
<1>3. Blank.kind = "blank" /\ Zero.kind = "zero"
  BY DEF Blank, Zero
<1> QED
  BY <1>1, <1>2, <1>3 DEF Token

\* What a head holds.
LEMMA ReplyFields ==
  ASSUME NEW h \in Reply
  PROVE  /\ h.req \in 1 .. MaxReq /\ h \in ReplyTo(h.req)
         /\ h.status \in {"ok", "missing", "moved", "error"}
         /\ h.frame \in {"length", "chunked", "close"}
         /\ h.len \in 0 .. MaxBody /\ h.len \in Nat /\ h.keep \in BOOLEAN
         /\ h # NoHead
<1>1. PICK r \in 1 .. MaxReq : h \in ReplyTo(r)
  BY DEF Reply
<1>2. /\ h.kind = "head" /\ h.req = r
      /\ h.status \in {"ok", "missing", "moved", "error"}
      /\ h.frame \in {"length", "chunked", "close"}
      /\ h.len \in 0 .. MaxBody /\ h.keep \in BOOLEAN
  BY <1>1 DEF ReplyTo
<1>3. NoHead.kind = "none"
  BY DEF NoHead
<1> QED
  BY <1>1, <1>2, <1>3, TransferAssumption

\* The head of an answer to the request in progress.
LEMMA ReplyToReq ==
  ASSUME req \in 1 .. MaxReq, NEW h \in ReplyTo(req)
  PROVE  h \in Reply /\ h.req = req
BY DEF Reply, ReplyTo

\* An answer: the head, the parts in order, and after a chunked body its end.
LEMMA AnswerIs ==
  ASSUME req \in 1 .. MaxReq, att \in 0 .. Attempts - 1, NEW h \in Reply
  PROVE  /\ Answer(h) \in Seq(Token)
         /\ Len(Answer(h)) = 1 + h.len + (IF h.frame = "chunked" THEN 2 ELSE 0)
         /\ Answer(h)[1] = h
         /\ \A i \in 2 .. 1 + h.len :
              Answer(h)[i] = [kind |-> "data", req |-> req, att |-> att, part |-> i - 1]
         /\ h.frame = "chunked" => /\ Answer(h)[2 + h.len] = Zero
                                   /\ Answer(h)[3 + h.len] = Blank
<1> DEFINE D(p) == [kind |-> "data", req |-> req, att |-> att, part |-> p]
           B == [p \in 1 .. h.len |-> D(p)]
           E == IF h.frame = "chunked" THEN <<Zero, Blank>> ELSE <<>>
           H == <<h>>
<1>0. h.len \in Nat /\ h.len \in 0 .. MaxBody
  BY ReplyFields
<1>1. H \in Seq(Token) /\ Len(H) = 1 /\ H[1] = h
  BY DEF Token
<1>2. B \in Seq(Token) /\ Len(B) = h.len /\ \A i \in 1 .. h.len : B[i] = D(i)
  <2>1. \A p \in 1 .. h.len : D(p) \in Token
    BY <1>0, TransferAssumption DEF Part, Token
  <2> HIDE DEF D
  <2> QED
    BY <2>1, <1>0, IsASeq, LenProperties
<1>3. E \in Seq(Token) /\ Len(E) = (IF h.frame = "chunked" THEN 2 ELSE 0)
      /\ (h.frame = "chunked" => E[1] = Zero /\ E[2] = Blank)
  <2>1. Zero \in Token /\ Blank \in Token
    BY DEF Token
  <2>2. CASE h.frame = "chunked"
    BY <2>1, <2>2
  <2>3. CASE h.frame # "chunked"
    BY <2>3
  <2> QED
    BY <2>2, <2>3
<1>4. Answer(h) = H \o B \o E
  BY DEF Answer
<1> HIDE DEF D, B, E, H
<1>5. H \o B \in Seq(Token) /\ Len(H \o B) = 1 + h.len /\ (H \o B)[1] = h
      /\ \A i \in 2 .. 1 + h.len : (H \o B)[i] = D(i - 1)
  <2>1. /\ H \o B \in Seq(Token) /\ Len(H \o B) = Len(H) + Len(B)
        /\ \A i \in 1 .. Len(H) + Len(B) : (H \o B)[i] = IF i <= Len(H) THEN H[i] ELSE B[i - Len(H)]
    BY <1>1, <1>2, ConcatProperties
  <2> QED
    BY <2>1, <1>0, <1>1, <1>2
<1>6. /\ (H \o B) \o E \in Seq(Token) /\ Len((H \o B) \o E) = Len(H \o B) + Len(E)
      /\ \A i \in 1 .. Len(H \o B) + Len(E) :
           ((H \o B) \o E)[i] = IF i <= Len(H \o B) THEN (H \o B)[i] ELSE E[i - Len(H \o B)]
  BY <1>3, <1>5, ConcatProperties
<1>7. /\ Answer(h) \in Seq(Token)
      /\ Len(Answer(h)) = 1 + h.len + (IF h.frame = "chunked" THEN 2 ELSE 0)
      /\ Answer(h)[1] = h
  BY <1>0, <1>3, <1>4, <1>5, <1>6
<1>8. \A i \in 2 .. 1 + h.len : Answer(h)[i] = D(i - 1)
  BY <1>0, <1>3, <1>4, <1>5, <1>6
<1>9. h.frame = "chunked" => Answer(h)[2 + h.len] = Zero /\ Answer(h)[3 + h.len] = Blank
  <2> SUFFICES ASSUME h.frame = "chunked"
               PROVE  Answer(h)[2 + h.len] = Zero /\ Answer(h)[3 + h.len] = Blank
    OBVIOUS
  <2>1. Len(E) = 2 /\ E[1] = Zero /\ E[2] = Blank
    BY <1>3
  <2>2. Answer(h)[2 + h.len] = E[1]
    BY <1>0, <1>4, <1>5, <1>6, <2>1
  <2>3. Answer(h)[3 + h.len] = E[2]
    BY <1>0, <1>4, <1>5, <1>6, <2>1
  <2> QED
    BY <2>1, <2>2, <2>3
<1> QED
  BY <1>7, <1>8, <1>9 DEF D

\* The first tokens of an answer, all of them unless the peer closes the connection.
LEMMA AnswerPart ==
  ASSUME req \in 1 .. MaxReq, att \in 0 .. Attempts - 1,
         NEW h \in ReplyTo(req), NEW ends \in BOOLEAN, NEW n \in 1 .. Len(Answer(h)),
         n < Len(Answer(h)) \/ (h.frame = "close" /\ h.len > 0) => ends
  PROVE  /\ SubSeq(Answer(h), 1, n) \in Seq(Token)
         /\ IsAnswer(SubSeq(Answer(h), 1, n), ends)
<1> DEFINE a == Answer(h)
           s == SubSeq(a, 1, n)
           t == Tail(s)
<1>1. h \in Reply /\ h.req = req
  BY ReplyToReq
<1>2. /\ h.len \in Nat /\ h.frame \in {"length", "chunked", "close"}
  BY <1>1, ReplyFields
<1>3. /\ a \in Seq(Token)
      /\ Len(a) = 1 + h.len + (IF h.frame = "chunked" THEN 2 ELSE 0)
      /\ a[1] = h
      /\ \A i \in 2 .. 1 + h.len :
           a[i] = [kind |-> "data", req |-> req, att |-> att, part |-> i - 1]
      /\ h.frame = "chunked" => a[2 + h.len] = Zero /\ a[3 + h.len] = Blank
  BY <1>1, AnswerIs
<1> HIDE DEF a
<1>4. n \in Nat /\ n >= 1 /\ n <= Len(a)
  BY <1>3 DEF a
<1>5. s \in Seq(Token) /\ Len(s) = n /\ \A i \in 1 .. n : s[i] = a[i]
  <2>1. \A i \in 1 .. n : a[i] \in Token
    BY <1>3, <1>4, ElementOfSeq
  <2>2. /\ SubSeq(a, 1, n) \in Seq(Token)
        /\ Len(SubSeq(a, 1, n)) = IF 1 <= n THEN n - 1 + 1 ELSE 0
        /\ \A i \in 1 .. n - 1 + 1 : SubSeq(a, 1, n)[i] = a[1 + i - 1]
    BY <2>1, <1>4, SubSeqProperties
  <2> QED
    BY <2>2, <1>4
<1> HIDE DEF s
<1>6. s # <<>> /\ s[1] = h
  BY <1>3, <1>4, <1>5
<1>7. Len(t) = n - 1 /\ \A i \in 1 .. n - 1 : t[i] = a[i + 1]
  BY <1>4, <1>5, <1>6, HeadTailProperties
<1>8. \A i \in 1 .. Len(t) :
        \/ i <= h.len /\ t[i] = [kind |-> "data", req |-> req, att |-> att, part |-> i]
        \/ h.frame = "chunked" /\ i = h.len + 1 /\ t[i] = Zero
        \/ h.frame = "chunked" /\ i = h.len + 2 /\ t[i] = Blank
  <2> TAKE i \in 1 .. Len(t)
  <2>1. t[i] = a[i + 1] /\ i \in 1 .. n - 1
    BY <1>7
  <2>2. CASE i <= h.len
    BY <2>1, <2>2, <1>2, <1>3, <1>4
  <2>3. CASE i > h.len
    <3>1. h.frame = "chunked" /\ (i = h.len + 1 \/ i = h.len + 2)
      BY <2>1, <2>3, <1>2, <1>3, <1>4
    <3>2. a[2 + h.len] = Zero /\ a[3 + h.len] = Blank
      BY <3>1, <1>3
    <3>3. CASE i = h.len + 1
      BY <2>1, <3>1, <3>2, <3>3, <1>2
    <3>4. CASE i = h.len + 2
      BY <2>1, <3>1, <3>2, <3>4, <1>2
    <3> QED
      BY <3>1, <3>3, <3>4
  <2> QED
    BY <2>1, <2>2, <2>3, <1>2
<1> HIDE DEF t
<1>9. Follows(h, h.len, t, ends)
  <2>1. ASSUME NEW i \in 1 .. Len(t)
        PROVE  /\ t[i].kind # "head"
               /\ t[i].kind = "data" => t[i].req = req
               /\ h.frame # "chunked" => t[i].kind = "data"
               /\ h.frame = "length" => t[i].part = h.len - h.len + i /\ t[i].att = att
    <3>1. CASE i <= h.len /\ t[i] = [kind |-> "data", req |-> req, att |-> att, part |-> i]
      BY <3>1, <1>2
    <3>2. CASE h.frame = "chunked" /\ t[i] \in {Zero, Blank}
      BY <3>2 DEF Zero, Blank
    <3> QED
      BY <3>1, <3>2, <1>8
  <2>2. ASSUME NEW i \in 1 .. Len(t), NEW j \in 1 .. Len(t), i < j, t[i].kind # "data"
        PROVE  t[j] = Blank /\ j = i + 1
    <3>0. i \in Nat /\ j \in Nat
      BY <1>4, <1>7
    <3>1. i >= h.len + 1
      <4> SUFFICES ASSUME i <= h.len PROVE FALSE
        BY <3>0, <1>2
      <4>1. t[i] = [kind |-> "data", req |-> req, att |-> att, part |-> i]
        BY <3>0, <1>8, <1>2
      <4> QED
        BY <4>1, <2>2
    <3>2. j > h.len + 1 /\ ~ (j <= h.len) /\ j # h.len + 1
      BY <3>0, <2>2, <3>1, <1>2
    <3>3. j = h.len + 2 /\ t[j] = Blank
      BY <3>2, <1>8, <1>2
    <3> QED
      BY <3>0, <3>1, <3>3, <2>2, <1>2
  <2>3. h.frame = "length" => Len(t) <= h.len
    BY <1>2, <1>3, <1>4, <1>7
  <2>4. h.frame = "close" /\ ~ends => t = <<>>
    <3> SUFFICES ASSUME h.frame = "close", ~ends PROVE t = <<>>
      OBVIOUS
    <3>1. h.len = 0 /\ n = Len(a)
      BY <1>2, <1>4 DEF a
    <3>2. Len(t) = 0
      BY <3>1, <1>3, <1>4, <1>7
    <3>3. t \in Seq(Token)
      BY <1>5, <1>6, HeadTailProperties DEF t
    <3> QED
      BY <3>2, <3>3, EmptySeq
  <2> QED
    BY <2>1, <2>2, <2>3, <2>4 DEF Follows
<1> QED
  BY <1>1, <1>5, <1>6, <1>9 DEF IsAnswer, s, t, a

\* A connection loses its first token.
LEMMA DropIs ==
  ASSUME TypeOK, conn[host] # NoConn, Wire # <<>>
  PROVE  /\ Wire \in Seq(Token) /\ Wire[1] \in Token /\ Len(Wire) \in Nat \ {0}
         /\ Tail(Wire) \in Seq(Token) /\ Len(Tail(Wire)) = Len(Wire) - 1
         /\ \A i \in 1 .. Len(Tail(Wire)) : Tail(Wire)[i] = Wire[i + 1]
         /\ Drop = [conn EXCEPT ![host] = [wire |-> Tail(Wire), ended |-> conn[host].ended]]
         /\ Drop \in [Host -> Conn \cup {NoConn}]
         /\ Drop[host] # NoConn
         /\ Drop[host].wire = Tail(Wire) /\ Drop[host].ended = conn[host].ended
         /\ \A h \in Host \ {host} : Drop[h] = conn[h]
<1>1. host \in Host /\ conn \in [Host -> Conn \cup {NoConn}]
  BY DEF TypeOK
<1>2. conn[host] \in Conn
  BY <1>1
<1>3. Wire \in Seq(Token) /\ conn[host].ended \in BOOLEAN
      /\ conn[host] = [wire |-> Wire, ended |-> conn[host].ended]
  BY <1>2 DEF Wire, Conn
<1>4. /\ Len(Wire) \in Nat \ {0} /\ Wire[1] \in Token
      /\ Tail(Wire) \in Seq(Token) /\ Len(Tail(Wire)) = Len(Wire) - 1
      /\ \A i \in 1 .. Len(Tail(Wire)) : Tail(Wire)[i] = Wire[i + 1]
  <2>1. Len(Wire) \in Nat \ {0}
    BY <1>3, EmptySeq
  <2> QED
    BY <2>1, <1>3, HeadTailProperties, ElementOfSeq
<1>5. [conn[host] EXCEPT !.wire = Tail(Wire)] = [wire |-> Tail(Wire), ended |-> conn[host].ended]
  BY <1>3
<1>6. Drop = [conn EXCEPT ![host] = [wire |-> Tail(Wire), ended |-> conn[host].ended]]
  BY <1>1, <1>5 DEF Drop, Wire
<1>7. [wire |-> Tail(Wire), ended |-> conn[host].ended] \in Conn
  BY <1>3, <1>4 DEF Conn
<1> QED
  BY <1>1, <1>3, <1>4, <1>6, <1>7, NoConnAssumption

\* What follows the head when one more token has been taken.
LEMMA FollowsOn ==
  ASSUME NEW h, NEW rest \in Nat, NEW ended \in BOOLEAN, NEW wire \in Seq(Token), wire # <<>>,
         Follows(h, rest, wire, ended), h.len \in Nat,
         NEW after \in Nat, h.frame = "length" => after = rest - 1
  PROVE  Follows(h, after, Tail(wire), ended)
<1> DEFINE t == Tail(wire)
<1>1. Len(wire) \in Nat \ {0} /\ Len(t) = Len(wire) - 1 /\ \A i \in 1 .. Len(t) : t[i] = wire[i + 1]
  BY HeadTailProperties, EmptySeq
<1> HIDE DEF t
<1>2. ASSUME NEW i \in 1 .. Len(t)
      PROVE  /\ t[i].kind # "head"
             /\ t[i].kind = "data" => t[i].req = req
             /\ h.frame # "chunked" => t[i].kind = "data"
             /\ h.frame = "length" => t[i].part = h.len - after + i /\ t[i].att = att
  <2>1. i + 1 \in 1 .. Len(wire) /\ t[i] = wire[i + 1] /\ i \in Nat
    BY <1>1
  <2>2. /\ wire[i + 1].kind # "head"
        /\ wire[i + 1].kind = "data" => wire[i + 1].req = req
        /\ h.frame # "chunked" => wire[i + 1].kind = "data"
        /\ h.frame = "length" => wire[i + 1].part = h.len - rest + (i + 1) /\ wire[i + 1].att = att
    BY <2>1 DEF Follows
  <2>3. h.frame = "length" => h.len - rest + (i + 1) = h.len - after + i
    BY <2>1
  <2> QED
    BY <2>1, <2>2, <2>3
<1>3. ASSUME NEW i \in 1 .. Len(t), NEW j \in 1 .. Len(t), i < j, t[i].kind # "data"
      PROVE  t[j] = Blank /\ j = i + 1
  <2>1. /\ i + 1 \in 1 .. Len(wire) /\ t[i] = wire[i + 1]
        /\ j + 1 \in 1 .. Len(wire) /\ t[j] = wire[j + 1] /\ i + 1 < j + 1
    BY <1>1, <1>3
  <2>2. wire[j + 1] = Blank /\ j + 1 = i + 1 + 1
    BY <2>1, <1>3 DEF Follows
  <2> QED
    BY <2>1, <2>2
<1>4. h.frame = "length" => Len(t) <= after
  BY <1>1 DEF Follows
<1>5. ~ (h.frame = "close" /\ ~ended)
  BY DEF Follows
<1> QED
  BY <1>2, <1>3, <1>4, <1>5 DEF Follows, t

-----------------------------------------------------------------------------
(* Types *)

\* The numbers of the request in progress.
LEMMA InProgress ==
  ASSUME TypeOK, pc \in {"connect", "send", "head", "body"}
  PROVE  /\ req \in 1 .. MaxReq /\ att \in 0 .. Attempts - 1 /\ host \in Host
         /\ pc # "connect" => conn[host] \in Conn /\ conn[host] # NoConn
BY TransferAssumption DEF TypeOK

\* The request is sent on an open connection, which holds at most an empty line.
LEMMA SendIs ==
  ASSUME Inv, NEW h \in ReplyTo(req), NEW ends \in BOOLEAN, NEW n \in 0 .. Len(Answer(h)),
         Send(h, n, ends)
  PROVE  \E wire \in Seq(Token) :
           /\ conn' = [conn EXCEPT ![host] = [wire |-> wire, ended |-> ends]]
           /\ \/ wire \in {<<>>, <<Blank>>}
              \/ IsAnswer(wire, ends)
              \/ wire # <<>> /\ wire[1] = Blank /\ IsAnswer(Tail(wire), ends)
<1> DEFINE s == SubSeq(Answer(h), 1, n)
<1>1. req \in 1 .. MaxReq /\ att \in 0 .. Attempts - 1 /\ conn[host] \in Conn /\ host \in Host
      /\ conn[host] # NoConn
  BY InProgress DEF Inv, Send
<1>2. Wire \in {<<>>, <<Blank>>}
  BY <1>1 DEF Inv, Wires, Quiet, Send, Wire
<1>3. conn' = [conn EXCEPT ![host] = [wire |-> Wire \o s, ended |-> ends]]
  <2>1. conn \in [Host -> Conn \cup {NoConn}]
    BY DEF Inv, TypeOK
  <2> QED
    BY <2>1, <1>1 DEF Send, Wire
<1>4. h \in Reply
  BY <1>1, ReplyToReq
<1>5. Answer(h) \in Seq(Token)
  BY <1>1, <1>4, AnswerIs
<1>6. Blank \in Token
  BY DEF Token
<1>7. CASE n = 0
  <2>1. s = <<>>
    BY <1>7, SubSeqEmpty
  <2>2. Wire \in Seq(Token)
    BY <1>1 DEF Conn, Wire
  <2>3. Wire \o s = Wire
    BY <2>1, <2>2, ConcatEmptySeq
  <2> QED
    BY <1>2, <1>3, <2>2, <2>3
<1>8. CASE n # 0
  <2>1. n \in 1 .. Len(Answer(h))
    BY <1>8, <1>5
  <2>2. n < Len(Answer(h)) \/ (h.frame = "close" /\ h.len > 0) => ends
    BY DEF Send
  <2>3. s \in Seq(Token) /\ IsAnswer(s, ends)
    BY <1>1, <2>1, <2>2, AnswerPart
  <2> HIDE DEF s
  <2>4. CASE Wire = <<>>
    BY <2>3, <2>4, <1>3, ConcatEmptySeq
  <2>5. CASE Wire = <<Blank>>
    <3>1. Wire \in Seq(Token) /\ Len(Wire) = 1 /\ Wire[1] = Blank
      BY <2>5, <1>6
    <3> DEFINE w == Wire \o s
    <3>2. /\ w \in Seq(Token) /\ Len(w) = 1 + Len(s)
          /\ \A i \in 1 .. 1 + Len(s) : w[i] = IF i <= 1 THEN Blank ELSE s[i - 1]
      BY <3>1, <2>3, ConcatProperties
    <3> HIDE DEF w
    <3>3. w # <<>> /\ w[1] = Blank
      BY <3>2, <2>3
    <3>4. /\ Tail(w) \in Seq(Token) /\ Len(Tail(w)) = Len(s)
          /\ \A i \in 1 .. Len(s) : Tail(w)[i] = s[i]
      BY <3>2, <3>3, <2>3, HeadTailProperties
    <3>5. Tail(w) = s
      BY <3>4, <2>3, SeqEqual
    <3> QED
      BY <1>3, <2>3, <3>2, <3>3, <3>5 DEF w
  <2> QED
    BY <1>2, <2>4, <2>5
<1> QED
  BY <1>7, <1>8

\* A part that is read goes into the file.
LEMMA OnDataIs ==
  ASSUME TypeOK, NEW t \in Token, OnData(t)
  PROVE  /\ file' \in Seq(Token) /\ off' \in 0 .. Len(file') /\ bytes' \in Nat /\ lost' \in Nat
         /\ \/ /\ off' = off + 1 /\ bytes' = bytes + 1 /\ lost' = lost
               /\ Len(file') = IF off < Len(file) THEN Len(file) ELSE Len(file) + 1
               /\ off' <= Len(file')
               /\ \A j \in 1 .. Len(file') : file'[j] = IF j = off + 1 THEN t ELSE file[j]
            \/ file' = file /\ off' = off /\ bytes' = bytes /\ lost' = lost + 1
<1>1. file \in Seq(Token) /\ off \in 0 .. Len(file) /\ bytes \in Nat /\ lost \in Nat
      /\ Len(file) \in Nat
  BY DEF TypeOK
<1>2. CASE UNCHANGED <<file, off, bytes>> /\ lost' = lost + 1
  BY <1>1, <1>2
<1>3. CASE /\ file' = IF off < Len(file) THEN [file EXCEPT ![off + 1] = t] ELSE Append(file, t)
           /\ off' = off + 1 /\ bytes' = bytes + 1 /\ UNCHANGED lost
  <2>1. CASE off < Len(file)
    <3>1. off + 1 \in 1 .. Len(file)
      BY <1>1, <2>1
    <3>2. /\ file' \in Seq(Token) /\ Len(file') = Len(file)
          /\ \A j \in 1 .. Len(file) : file'[j] = IF j = off + 1 THEN t ELSE file[j]
      BY <1>1, <1>3, <2>1, <3>1, ExceptSeq
    <3> QED
      BY <1>1, <1>3, <2>1, <3>2
  <2>2. CASE ~ (off < Len(file))
    <3>1. off = Len(file) /\ file' = Append(file, t)
      BY <1>1, <1>3, <2>2
    <3>2. /\ file' \in Seq(Token) /\ Len(file') = Len(file) + 1
          /\ \A j \in 1 .. Len(file') : file'[j] = IF j = Len(file) + 1 THEN t ELSE file[j]
      BY <1>1, <3>1, AppendProperties
    <3> QED
      BY <1>1, <1>3, <2>2, <3>1, <3>2
  <2> QED
    BY <2>1, <2>2
<1> QED
  BY <1>2, <1>3 DEF OnData

\* One more try, or the end of perform.
LEMMA RetryIs ==
  ASSUME TypeOK, pc \in {"connect", "send", "head", "body"}, Retry
  PROVE  /\ att' \in 1 .. Attempts /\ att' = att + 1
         /\ pc' \in {"connect", "done"}
         /\ pc' = "connect" => att' < Attempts /\ req > 0
BY InProgress, TransferAssumption DEF Retry, TypeOK

\* perform gives the connection up.
LEMMA FailIs ==
  ASSUME TypeOK, pc \in {"connect", "send", "head", "body"}, Fail
  PROVE  /\ conn' \in [Host -> Conn \cup {NoConn}] /\ conn'[host] = NoConn
         /\ \A h \in Host \ {host} : conn'[h] = conn[h]
         /\ att' \in 1 .. Attempts /\ att' = att + 1
         /\ pc' \in {"connect", "done"}
         /\ pc' = "connect" => att' < Attempts /\ req > 0
         /\ rc' = rc
BY RetryIs DEF Fail, TypeOK

\* perform ends, or goes on to another try.
LEMMA FinishIs ==
  ASSUME TypeOK, pc = "body", Finish
  PROVE  /\ att' \in 0 .. Attempts /\ att' \in {att, att + 1} /\ rc' \in BOOLEAN
         /\ host' \in Host
         /\ pc' \in {"connect", "done"}
         /\ pc' = "connect" => att' < Attempts /\ req > 0 /\ att' = att + 1
<1>1. CASE Retry
  <2>1. /\ att' \in 1 .. Attempts /\ att' = att + 1
        /\ pc' \in {"connect", "done"}
        /\ pc' = "connect" => att' < Attempts /\ req > 0
    BY <1>1, RetryIs
  <2>2. rc' \in BOOLEAN /\ host' \in Host
    BY DEF Finish, TypeOK
  <2> QED
    BY <2>1, <2>2
<1>2. CASE pc' = "done" /\ att' = att
  BY <1>2 DEF Finish, TypeOK
<1> QED
  BY <1>1, <1>2 DEF Finish

\* The connection is kept, with what is still on it, or given up.
LEMMA KeptIs ==
  ASSUME TypeOK, pc = "body", NEW rest \in Seq(Token), Kept(rest)
  PROVE  /\ conn' \in [Host -> Conn \cup {NoConn}]
         /\ conn'[host] \in {NoConn, [wire |-> rest, ended |-> conn[host].ended]}
         /\ \A h \in Host \ {host} : conn'[h] = conn[h]
<1>1. conn[host] \in Conn /\ host \in Host
  BY InProgress
<1>2. [conn[host] EXCEPT !.wire = rest] = [wire |-> rest, ended |-> conn[host].ended]
      /\ [wire |-> rest, ended |-> conn[host].ended] \in Conn
  BY <1>1 DEF Conn
<1>3. conn' = [conn EXCEPT ![host] =
                 IF resp.keep THEN [wire |-> rest, ended |-> conn[host].ended] ELSE NoConn]
  BY <1>1, <1>2 DEF Kept, TypeOK
<1> QED
  BY <1>1, <1>2, <1>3 DEF TypeOK

LEMMA TypesInit ==
  Init => TypeOK
<1> SUFFICES ASSUME Init PROVE TypeOK
  OBVIOUS
<1>1. file \in Seq(Token) /\ off \in 0 .. Len(file) /\ bytes \in Nat /\ lost \in Nat
  BY EmptySeq DEF Init
<1>2. conn \in [Host -> Conn \cup {NoConn}]
  BY DEF Init
<1>3. /\ req \in 0 .. MaxReq /\ att \in 0 .. Attempts /\ host \in Host
      /\ resp \in Reply \cup {NoHead} /\ left \in 0 .. MaxBody /\ pc = "idle"
  BY TransferAssumption DEF Init
<1>4. rc \in BOOLEAN
  BY DEF Init
<1> QED
  BY <1>1, <1>2, <1>3, <1>4 DEF TypeOK

LEMMA TypesStep ==
  ASSUME Inv, Next
  PROVE  TypeOK'
<1> USE DEF Inv
<1>0. TypeOK
  OBVIOUS
<1>1. CASE Begin
  <2>1. file' \in Seq(Token) /\ off' \in 0 .. Len(file') /\ bytes' \in Nat /\ lost' \in Nat
    BY <1>1, EmptySeq DEF Begin
  <2>2. conn' \in [Host -> Conn \cup {NoConn}]
    BY <1>0, <1>1 DEF Begin, TypeOK
  <2>3. /\ req' \in 0 .. MaxReq /\ req' > 0 /\ att' \in 0 .. Attempts /\ att' < Attempts
        /\ host' \in Host /\ resp' = NoHead /\ left' \in 0 .. MaxBody /\ pc' = "connect"
    BY <1>0, <1>1, TransferAssumption DEF Begin, TypeOK
  <2>4. rc' \in BOOLEAN
    BY <1>1 DEF Begin
  <2> QED
    BY <2>1, <2>2, <2>3, <2>4 DEF TypeOK
<1>2. CASE Reuse
  BY <1>0, <1>2 DEF TypeOK, Reuse, fileVars
<1>3. CASE Connect
  <2>1. [wire |-> <<>>, ended |-> FALSE] \in Conn
    BY DEF Conn
  <2> QED
    BY <1>0, <1>3, <2>1, NoConnAssumption DEF TypeOK, Connect, fileVars
<1>4. CASE ConnectFails
  <2>1. conn' \in [Host -> Conn \cup {NoConn}]
    BY <1>0, <1>4 DEF ConnectFails, TypeOK
  <2>2. /\ att' \in 1 .. Attempts /\ pc' \in {"connect", "done"}
        /\ pc' = "connect" => att' < Attempts /\ req > 0
    BY <1>0, <1>4, RetryIs DEF ConnectFails
  <2>3. rc' \in BOOLEAN
    BY <1>4 DEF ConnectFails
  <2>4. att' \in 0 .. Attempts
    BY <2>2
  <2> QED
    BY <1>0, <1>4, <2>1, <2>2, <2>3, <2>4 DEF TypeOK, ConnectFails, fileVars
<1>5. ASSUME NEW h \in ReplyTo(req), NEW ends \in BOOLEAN, NEW n \in 0 .. Len(Answer(h)),
             Send(h, n, ends)
      PROVE  TypeOK'
  <2>1. PICK wire \in Seq(Token) :
               conn' = [conn EXCEPT ![host] = [wire |-> wire, ended |-> ends]]
    BY <1>5, SendIs
  <2>2. [wire |-> wire, ended |-> ends] \in Conn
    BY DEF Conn
  <2>3. /\ pc' = "head" /\ off' = 0 /\ resp' = NoHead /\ left' = 0
        /\ UNCHANGED <<file, bytes, lost, req, att, rc, host>>
        /\ req > 0 /\ att < Attempts
    BY <1>0, <1>5, InProgress, TransferAssumption DEF Send, OnClear
  <2> QED
    BY <1>0, <2>1, <2>2, <2>3, NoConnAssumption, TransferAssumption DEF TypeOK
<1>6. CASE SendLost
  BY <1>0, <1>6, TransferAssumption DEF TypeOK, SendLost, OnClear
<1>7. CASE SendFails
  BY <1>0, <1>7, FailIs, TransferAssumption DEF TypeOK, SendFails, OnClear
<1>8. CASE SkipBlank
  BY <1>0, <1>8, DropIs, InProgress DEF TypeOK, SkipBlank, fileVars
<1>9. CASE ReadHead
  BY <1>0, <1>9, DropIs, InProgress, ReplyFields DEF TypeOK, ReadHead, fileVars
<1>10. CASE NotHttp
  BY <1>0, <1>10, FailIs DEF TypeOK, NotHttp, fileVars
<1>11. CASE Abort
  BY <1>0, <1>11 DEF TypeOK, Abort, fileVars
<1>12. CASE Cut
  BY <1>0, <1>12, FailIs DEF TypeOK, Cut, fileVars
<1>13. CASE ReadPart
  <2>1. conn[host] # NoConn /\ Wire # <<>> /\ conn' = Drop /\ OnData(Wire[1])
    BY <1>0, <1>13, InProgress DEF ReadPart
  <2>2. file' \in Seq(Token) /\ off' \in 0 .. Len(file') /\ bytes' \in Nat /\ lost' \in Nat
    BY <1>0, <2>1, DropIs, OnDataIs
  <2>3. left' \in 0 .. MaxBody
    BY <1>0, <1>13, TransferAssumption DEF TypeOK, ReadPart
  <2> QED
    BY <1>0, <1>13, <2>1, <2>2, <2>3, DropIs DEF TypeOK, ReadPart
<1>14. CASE EndOfLength
  <2>1. Wire \in Seq(Token)
    BY <1>0, <1>14, InProgress DEF EndOfLength, Wire, Conn
  <2> QED
    BY <1>0, <1>14, <2>1, FinishIs, KeptIs DEF TypeOK, EndOfLength, fileVars
<1>15. CASE EndOfChunks
  <2>1. Tail(Wire) \in Seq(Token)
    BY <1>0, <1>15, InProgress, DropIs DEF EndOfChunks
  <2> QED
    BY <1>0, <1>15, <2>1, FinishIs, KeptIs DEF TypeOK, EndOfChunks, fileVars
<1>16. CASE EndOfStream
  <2>1. Wire \in Seq(Token)
    BY <1>0, <1>16, InProgress DEF EndOfStream, Wire, Conn
  <2> QED
    BY <1>0, <1>16, <2>1, FinishIs, KeptIs DEF TypeOK, EndOfStream, fileVars
<1> QED
  BY <1>1, <1>2, <1>3, <1>4, <1>5, <1>6, <1>7, <1>8, <1>9, <1>10, <1>11, <1>12, <1>13,
     <1>14, <1>15, <1>16
     DEF Next, Perform

-----------------------------------------------------------------------------
(* What lies on the connections *)

LEMMA NoHeadsTail ==
  ASSUME NEW wire \in Seq(Token), wire # <<>>, NoHeads(wire)
  PROVE  NoHeads(Tail(wire))
<1>1. Len(wire) \in Nat \ {0} /\ Len(Tail(wire)) = Len(wire) - 1
      /\ \A i \in 1 .. Len(Tail(wire)) : Tail(wire)[i] = wire[i + 1]
  BY HeadTailProperties, EmptySeq
<1> QED
  BY <1>1 DEF NoHeads

LEMMA NoHeadsShort ==
  NoHeads(<<>>) /\ NoHeads(<<Blank>>)
<1>1. Blank.kind # "head"
  BY DEF Blank
<1> QED
  BY <1>1 DEF NoHeads

\* Between requests every connection is quiet.
LEMMA AllQuiet ==
  ASSUME TypeOK, Wires, TypeOK', pc' \notin {"head", "body", "aborted"}, Quiet(conn'[host]),
         \A h \in Host \ {host} : conn'[h] = conn[h]
  PROVE  Wires'
<1>1. \A h \in Host : Quiet(conn'[h])
  BY DEF Wires
<1> QED
  BY <1>1 DEF Wires

\* What is left of an answer that was read is quiet.
LEMMA RestIsQuiet ==
  ASSUME NEW wire \in Seq(Token), NEW ended \in BOOLEAN, NoHeads(wire),
         ~ended => wire \in {<<>>, <<Blank>>}
  PROVE  Quiet([wire |-> wire, ended |-> ended])
BY DEF Quiet

LEMMA QuietNoConn ==
  Quiet(NoConn)
BY DEF Quiet

\* The end of a body leaves the connection quiet, kept or not.
LEMMA EndIsQuiet ==
  ASSUME Inv, TypeOK', pc = "body", Finish, NEW rest \in Seq(Token), Kept(rest), NoHeads(rest),
         ~conn[host].ended => rest \in {<<>>, <<Blank>>}
  PROVE  Wires'
<1>1. /\ conn'[host] \in {NoConn, [wire |-> rest, ended |-> conn[host].ended]}
      /\ \A h \in Host \ {host} : conn'[h] = conn[h]
  BY KeptIs DEF Inv
<1>2. conn[host].ended \in BOOLEAN
  BY InProgress DEF Inv, Conn
<1>3. Quiet(conn'[host])
  BY <1>1, <1>2, RestIsQuiet, QuietNoConn
<1>4. pc' \in {"connect", "done"}
  BY FinishIs DEF Inv
<1> QED
  BY <1>1, <1>3, <1>4, AllQuiet DEF Inv

\* The body of an answer follows its head.
LEMMA FollowsNoHeads ==
  ASSUME NEW h, NEW rest, NEW ended, NEW wire, Follows(h, rest, wire, ended)
  PROVE  NoHeads(wire)
BY DEF Follows, NoHeads

LEMMA WiresStep ==
  ASSUME Inv, Next, TypeOK'
  PROVE  Wires'
<1>0. TypeOK /\ Wires
  BY DEF Inv
<1>1. CASE Begin
  <2>1. \A h \in Host : Quiet(conn'[h])
    BY <1>0, <1>1 DEF Wires, Begin
  <2> QED
    BY <1>1, <2>1 DEF Wires, Begin
<1>2. CASE Reuse
  <2>1. \A h \in Host : Quiet(conn'[h])
    BY <1>0, <1>2 DEF Wires, Reuse
  <2> QED
    BY <1>2, <2>1 DEF Wires, Reuse
<1>3. CASE Connect
  <2>1. /\ conn'[host] = [wire |-> <<>>, ended |-> FALSE]
        /\ \A h \in Host \ {host} : conn'[h] = conn[h]
    BY <1>0, <1>3 DEF Connect, TypeOK
  <2>2. Quiet(conn'[host])
    BY <2>1, NoHeadsShort, RestIsQuiet, EmptySeq
  <2> QED
    BY <1>0, <1>3, <2>1, <2>2, AllQuiet DEF Connect
<1>4. CASE ConnectFails
  <2>1. conn'[host] = NoConn /\ \A h \in Host \ {host} : conn'[h] = conn[h]
    BY <1>0, <1>4 DEF ConnectFails, TypeOK
  <2>2. pc' \in {"connect", "done"}
    BY <1>0, <1>4, RetryIs DEF ConnectFails
  <2> QED
    BY <1>0, <2>1, <2>2, AllQuiet, QuietNoConn
<1>5. ASSUME NEW h \in ReplyTo(req), NEW ends \in BOOLEAN, NEW n \in 0 .. Len(Answer(h)),
             Send(h, n, ends)
      PROVE  Wires'
  <2>1. PICK wire \in Seq(Token) :
          /\ conn' = [conn EXCEPT ![host] = [wire |-> wire, ended |-> ends]]
          /\ \/ wire \in {<<>>, <<Blank>>}
             \/ IsAnswer(wire, ends)
             \/ wire # <<>> /\ wire[1] = Blank /\ IsAnswer(Tail(wire), ends)
    BY <1>5, SendIs
  <2>2. pc' = "head" /\ host' = host /\ req' = req /\ att' = att
    BY <1>5 DEF Send
  <2>3. /\ Wire' = wire /\ conn'[host'].ended = ends
        /\ \A x \in Host \ {host} : conn'[x] = conn[x]
    BY <1>0, <2>1, <2>2 DEF TypeOK, Wire
  <2>4. \A x \in Host \ {host} : Quiet(conn'[x])
    BY <1>0, <2>3 DEF Wires
  <2>5. ASSUME NEW w PROVE IsAnswer(w, ends) => IsAnswer(w, ends)'
    BY <2>2 DEF IsAnswer, Follows
  <2>6. \/ NoHeads(Wire')
        \/ IsAnswer(wire, ends)'
        \/ wire # <<>> /\ wire[1] = Blank /\ IsAnswer(Tail(wire), ends)'
    BY <2>1, <2>3, <2>5, NoHeadsShort
  <2> QED
    BY <2>2, <2>3, <2>4, <2>6 DEF Wires
<1>6. CASE SendLost
  <2>1. pc' = "head" /\ conn' = conn /\ host' = host /\ conn[host] # NoConn
    BY <1>0, <1>6, InProgress DEF SendLost
  <2>2. \A h \in Host : Quiet(conn[h])
    BY <1>0, <1>6 DEF SendLost, Wires
  <2>3. NoHeads(Wire')
    BY <1>0, <2>1, <2>2 DEF Quiet, Wire, TypeOK
  <2> QED
    BY <2>1, <2>2, <2>3 DEF Wires
<1>7. CASE SendFails
  BY <1>0, <1>7, FailIs, AllQuiet, QuietNoConn DEF SendFails
<1>8. CASE SkipBlank
  <2>1. /\ pc = "head" /\ pc' = "head" /\ host' = host /\ req' = req /\ att' = att
        /\ Wire # <<>> /\ Wire[1] = Blank /\ conn' = Drop /\ conn[host] # NoConn
    BY <1>0, <1>8, InProgress DEF SkipBlank
  <2>2. /\ Wire \in Seq(Token) /\ Wire' = Tail(Wire) /\ conn'[host'].ended = conn[host].ended
        /\ \A h \in Host \ {host} : conn'[h] = conn[h]
    BY <1>0, <2>1, DropIs DEF Wire
  <2>3. ~ IsAnswer(Wire, conn[host].ended)
    <3>1. Blank \notin Reply
      BY TokenKinds DEF Token, Blank
    <3> QED
      BY <2>1, <3>1 DEF IsAnswer
  <2>4. NoHeads(Tail(Wire)) \/ IsAnswer(Tail(Wire), conn[host].ended)
    BY <1>0, <2>1, <2>2, <2>3, NoHeadsTail DEF Wires
  <2>5. IsAnswer(Tail(Wire), conn[host].ended) => IsAnswer(Wire, conn[host].ended)'
    BY <2>1, <2>2 DEF IsAnswer, Follows
  <2>6. NoHeads(Wire') \/ IsAnswer(Wire, conn[host].ended)'
    BY <2>2, <2>4, <2>5
  <2>7. \A h \in Host \ {host} : Quiet(conn'[h])
    BY <1>0, <2>2 DEF Wires
  <2> QED
    BY <2>1, <2>6, <2>7 DEF Wires
<1>9. CASE ReadHead
  <2>1. /\ pc = "head" /\ pc' = "body" /\ host' = host /\ req' = req /\ att' = att
        /\ Wire # <<>> /\ Wire[1] \in Reply /\ conn' = Drop /\ conn[host] # NoConn
        /\ resp' = Wire[1] /\ left' = Wire[1].len
    BY <1>0, <1>9, InProgress DEF ReadHead
  <2>2. /\ Wire \in Seq(Token) /\ Len(Wire) \in Nat \ {0}
        /\ Wire' = Tail(Wire) /\ conn'[host'].ended = conn[host].ended
        /\ \A h \in Host \ {host} : conn'[h] = conn[h]
    BY <1>0, <2>1, DropIs DEF Wire
  <2>3. Wire[1].kind = "head" /\ Wire[1] # Blank /\ Wire[1] # NoHead
    <3>1. Wire[1].kind = "head"
      BY <2>1, TokenKinds DEF Token
    <3> QED
      BY <3>1 DEF Blank, NoHead
  <2>4. ~ NoHeads(Wire)
    BY <2>2, <2>3 DEF NoHeads
  <2>5. Follows(Wire[1], Wire[1].len, Tail(Wire), conn[host].ended)
    BY <1>0, <2>1, <2>3, <2>4 DEF Wires, IsAnswer
  <2>6. Follows(resp, left, Wire, conn[host].ended)'
    BY <2>1, <2>2, <2>5 DEF Follows
  <2>7. \A h \in Host \ {host} : Quiet(conn'[h])
    BY <1>0, <2>2 DEF Wires
  <2> QED
    BY <2>1, <2>3, <2>6, <2>7 DEF Wires
<1>10. CASE NotHttp
  BY <1>0, <1>10, FailIs, AllQuiet, QuietNoConn DEF NotHttp
<1>11. CASE Abort
  BY <1>0, <1>11 DEF Abort, Wires
<1>12. CASE Cut
  BY <1>0, <1>12, FailIs, AllQuiet, QuietNoConn DEF Cut
<1>13. CASE ReadPart
  <2>1. /\ pc = "body" /\ pc' = "body" /\ host' = host /\ req' = req /\ att' = att
        /\ resp' = resp /\ Wire # <<>> /\ conn' = Drop /\ conn[host] # NoConn
        /\ resp.frame = "length" => left' = left - 1 /\ left > 0
        /\ left \in Nat /\ left' \in Nat
    BY <1>0, <1>13, InProgress, TransferAssumption DEF ReadPart, TypeOK
  <2>2. /\ Wire \in Seq(Token) /\ Wire' = Tail(Wire) /\ conn'[host'].ended = conn[host].ended
        /\ conn[host].ended \in BOOLEAN
        /\ \A h \in Host \ {host} : conn'[h] = conn[h]
    BY <1>0, <2>1, DropIs, InProgress DEF Wire, Conn
  <2>3. resp # NoHead /\ Follows(resp, left, Wire, conn[host].ended) /\ resp.len \in Nat
    <3>1. resp # NoHead /\ Follows(resp, left, Wire, conn[host].ended)
      BY <1>0, <2>1 DEF Wires
    <3> QED
      BY <1>0, <3>1, ReplyFields DEF TypeOK
  <2>4. Follows(resp, left', Tail(Wire), conn[host].ended)
    BY <2>1, <2>2, <2>3, FollowsOn
  <2>5. Follows(resp, left, Wire, conn[host].ended)'
    BY <2>1, <2>2, <2>4 DEF Follows
  <2>6. \A h \in Host \ {host} : Quiet(conn'[h])
    BY <1>0, <2>2 DEF Wires
  <2> QED
    BY <2>1, <2>3, <2>5, <2>6 DEF Wires
<1>14. CASE EndOfLength
  <2>1. /\ pc = "body" /\ resp.frame = "length" /\ left = 0 /\ Kept(Wire) /\ Finish
        /\ Wire \in Seq(Token)
    BY <1>0, <1>14, InProgress DEF EndOfLength, Wire, Conn
  <2>2. Follows(resp, left, Wire, conn[host].ended)
    BY <1>0, <2>1 DEF Wires
  <2>3. Wire = <<>>
    BY <2>1, <2>2, EmptySeq DEF Follows
  <2> QED
    BY <2>1, <2>3, NoHeadsShort, EndIsQuiet
<1>15. CASE EndOfChunks
  <2>1. /\ pc = "body" /\ resp.frame = "chunked" /\ Wire # <<>> /\ Wire[1].kind # "data"
        /\ Kept(Tail(Wire)) /\ Finish /\ conn[host] # NoConn
    BY <1>0, <1>15, InProgress DEF EndOfChunks
  <2>2. Wire \in Seq(Token) /\ Len(Wire) \in Nat \ {0}
        /\ Tail(Wire) \in Seq(Token) /\ Len(Tail(Wire)) = Len(Wire) - 1
        /\ \A i \in 1 .. Len(Tail(Wire)) : Tail(Wire)[i] = Wire[i + 1]
    BY <1>0, <2>1, DropIs
  <2>3. Follows(resp, left, Wire, conn[host].ended)
    BY <1>0, <2>1 DEF Wires
  <2>4. \A j \in 1 .. Len(Wire) : 1 < j => Wire[j] = Blank /\ j = 2
    BY <2>1, <2>2, <2>3 DEF Follows
  <2>5. Tail(Wire) \in {<<>>, <<Blank>>}
    <3> DEFINE t == Tail(Wire)
    <3>1. Len(t) \in {0, 1} /\ t \in Seq(Token) /\ (Len(t) = 1 => t[1] = Blank)
      BY <2>2, <2>4
    <3> HIDE DEF t
    <3>2. CASE Len(t) = 0
      <4>1. t = <<>>
        BY <3>1, <3>2, EmptySeq
      <4> QED
        BY <4>1 DEF t
    <3>3. CASE Len(t) = 1
      <4>1. Blank \in Token
        BY DEF Token
      <4> HIDE DEF Blank
      <4>2. <<Blank>> \in Seq(Token) /\ Len(<<Blank>>) = 1 /\ <<Blank>>[1] = Blank
        BY <4>1
      <4>3. t = <<Blank>>
        BY <3>1, <3>3, <4>2, SeqEqual
      <4> QED
        BY <4>3 DEF t
    <3> QED
      BY <3>1, <3>2, <3>3
  <2> QED
    BY <2>1, <2>2, <2>5, NoHeadsShort, EndIsQuiet
<1>16. CASE EndOfStream
  <2>1. /\ pc = "body" /\ resp.frame = "close" /\ Kept(Wire) /\ Finish
        /\ Wire \in Seq(Token)
    BY <1>0, <1>16, InProgress DEF EndOfStream, Wire, Conn
  <2>2. Follows(resp, left, Wire, conn[host].ended)
    BY <1>0, <2>1 DEF Wires
  <2>3. NoHeads(Wire) /\ (~conn[host].ended => Wire = <<>>)
    BY <2>1, <2>2, FollowsNoHeads DEF Follows
  <2> QED
    BY <2>1, <2>3, EndIsQuiet
<1> QED
  BY <1>1, <1>2, <1>3, <1>4, <1>5, <1>6, <1>7, <1>8, <1>9, <1>10, <1>11, <1>12, <1>13,
     <1>14, <1>15, <1>16
     DEF Next, Perform

-----------------------------------------------------------------------------
(* What is taken for the answer, and what is written *)

\* The head that is read is the one of the answer to this request.
LEMMA HeadIsOwn ==
  ASSUME Inv, ReadHead
  PROVE  Wire[1].req = req
<1>1. /\ pc = "head" /\ Wire # <<>> /\ Wire[1] \in Reply /\ conn[host] # NoConn
  BY InProgress DEF Inv, ReadHead
<1>2. Wire \in Seq(Token) /\ Len(Wire) \in Nat \ {0}
  BY <1>1, DropIs DEF Inv
<1>3. Wire[1].kind = "head" /\ Wire[1] # Blank
  <2>1. Wire[1].kind = "head"
    BY <1>1, TokenKinds DEF Token
  <2> QED
    BY <2>1 DEF Blank
<1>4. ~ NoHeads(Wire)
  BY <1>2, <1>3 DEF NoHeads
<1> QED
  BY <1>1, <1>3, <1>4 DEF Inv, Wires, IsAnswer

\* The token that is read in the body is the next part of the body.
LEMMA PartIsOwn ==
  ASSUME Inv, ReadPart
  PROVE  /\ Wire[1] \in Token /\ Wire[1].kind = "data" /\ Wire[1].req = req
         /\ resp.frame = "length" => Wire[1].part = resp.len - left + 1 /\ Wire[1].att = att
<1>1. /\ pc = "body" /\ Wire # <<>> /\ conn[host] # NoConn
  BY InProgress DEF Inv, ReadPart
<1>2. Wire[1] \in Token /\ Len(Wire) \in Nat \ {0}
  BY <1>1, DropIs DEF Inv
<1>3. resp # NoHead /\ Follows(resp, left, Wire, conn[host].ended)
  BY <1>1 DEF Inv, Wires
<1>4. /\ Wire[1].kind = "data" => Wire[1].req = req
      /\ resp.frame # "chunked" => Wire[1].kind = "data"
      /\ resp.frame = "length" => Wire[1].part = resp.len - left + 1 /\ Wire[1].att = att
  BY <1>2, <1>3 DEF Follows
<1> QED
  BY <1>2, <1>4 DEF ReadPart

LEMMA OwnStep ==
  ASSUME Inv, Next
  PROVE  Own'
<1>0. Own
  BY DEF Inv
<1>1. CASE Begin
  BY <1>1 DEF Begin, Own
<1>2. CASE Reuse \/ Connect \/ ConnectFails \/ SkipBlank \/ NotHttp \/ Abort \/ Cut
           \/ EndOfLength \/ EndOfChunks \/ EndOfStream
  <2>1. UNCHANGED <<resp, file, req>>
    BY <1>2 DEF Reuse, Connect, ConnectFails, SkipBlank, NotHttp, Abort, Cut, EndOfLength,
         EndOfChunks, EndOfStream, fileVars
  <2> QED
    BY <1>0, <2>1 DEF Own
<1>3. ASSUME NEW h \in ReplyTo(req), NEW ends \in BOOLEAN, NEW n \in 0 .. Len(Answer(h)),
             Send(h, n, ends)
      PROVE  Own'
  BY <1>0, <1>3 DEF Send, OnClear, Own
<1>4. CASE SendLost \/ SendFails
  BY <1>0, <1>4 DEF SendLost, SendFails, OnClear, Own
<1>5. CASE ReadHead
  BY <1>0, <1>5, HeadIsOwn DEF ReadHead, fileVars, Own
<1>6. CASE ReadPart
  <2>1. /\ Wire[1] \in Token /\ Wire[1].kind = "data" /\ Wire[1].req = req
        /\ OnData(Wire[1]) /\ UNCHANGED <<resp, req>>
    BY <1>6, PartIsOwn DEF ReadPart
  <2>2. ASSUME NEW j \in 1 .. Len(file')
        PROVE  file'[j].kind = "data" /\ file'[j].req = req
    <3>1. CASE file' = file
      BY <1>0, <3>1, <2>2 DEF Own
    <3>2. CASE file'[j] = Wire[1]
      BY <3>2, <2>1
    <3>3. CASE /\ file'[j] = file[j] /\ j # off + 1
               /\ Len(file') = IF off < Len(file) THEN Len(file) ELSE Len(file) + 1
      <4>1. Len(file) \in Nat /\ off \in 0 .. Len(file)
        BY DEF Inv, TypeOK
      <4>2. j \in 1 .. Len(file)
        BY <3>3, <4>1
      <4> QED
        BY <1>0, <3>3, <4>2 DEF Own
    <3> QED
      BY <2>1, <3>1, <3>2, <3>3, OnDataIs DEF Inv
  <2> QED
    BY <1>0, <2>1, <2>2 DEF Own
<1> QED
  BY <1>1, <1>2, <1>3, <1>4, <1>5, <1>6 DEF Next, Perform

\* A new try begins with the file offset wherever it is: only the counts matter.
LEMMA WrittenKept ==
  ASSUME TypeOK, Written, pc' \in {"connect", "send"} \/ (pc' = "done" /\ ~rc'),
         UNCHANGED fileVars, att' \in {att, att + 1},
         att' = 0 => pc' = "done" \/ (bytes = 0 /\ lost = 0),
         pc' = "send" => ~rc'
  PROVE  Written'
<1>1. att \in Nat
  BY DEF TypeOK
<1>2. att' = 0 => att = 0
  BY <1>1
<1>3. pc' \notin {"head", "body"} /\ ~ (pc' = "done" /\ rc')
  OBVIOUS
<1> QED
  BY <1>2, <1>3 DEF Written, fileVars

\* The body in the file is not touched when perform ends.
LEMMA WrittenEnds ==
  ASSUME Inv, pc = "body", Finish, UNCHANGED <<resp, left, fileVars>>,
         resp.frame = "length" => left = 0
  PROVE  Written'
<1>0. TypeOK /\ Written
  BY DEF Inv
<1>1. att \in Nat /\ pc' \in {"connect", "done"} /\ att' \in {att, att + 1}
      /\ (pc' = "connect" => att' = att + 1)
  BY <1>0, FinishIs DEF TypeOK
<1>2. UNCHANGED <<resp, left, file, off, bytes, lost>>
  BY DEF fileVars
<1>3. att' = 0 => att = 0
  BY <1>1
<1>4. att' = 0 => bytes' = off'
  BY <1>0, <1>2, <1>3 DEF Written
<1>5. pc' = "connect" => att' # 0
  BY <1>1
<1>6. ASSUME pc' = "done", rc', resp.frame = "length"
      PROVE  /\ att' = 0 => off' + lost' = resp'.len - left'
             /\ lost' = 0 => off' = resp'.len - left'
             /\ lost' = 0 => \A j \in 1 .. off' : file'[j].part = j /\ file'[j].att = file'[1].att
  BY <1>0, <1>2, <1>3, <1>6 DEF Written
<1>7. Len(file') <= bytes'
  BY <1>0, <1>2 DEF Written
<1> QED
  BY <1>1, <1>2, <1>4, <1>5, <1>6, <1>7 DEF Written

\* on_clear: nothing is written in this try yet.
LEMMA WrittenCleared ==
  ASSUME TypeOK, Written, pc = "send", OnClear, rc' = rc,
         (pc' = "head" /\ att' = att) \/ (pc' \in {"connect", "done"} /\ att' = att + 1)
  PROVE  Written'
<1>1. att \in Nat
  BY DEF TypeOK
<1>2. ~rc' /\ off' = 0 /\ UNCHANGED <<file, bytes, lost>>
  BY DEF Written, OnClear
<1>3. att' = 0 => att = 0 /\ pc' = "head" /\ bytes' = 0 /\ lost' = 0
  BY <1>1, <1>2 DEF Written
<1>4. Len(file') <= bytes'
  BY <1>2 DEF Written
<1> QED
  BY <1>2, <1>3, <1>4 DEF Written

\* A part of the body: it is written behind those of the same try, or lost.
LEMMA WrittenPart ==
  ASSUME Inv, ReadPart
  PROVE  Written'
<1>0. TypeOK /\ Written
  BY DEF Inv
<1>1. /\ pc = "body" /\ OnData(Wire[1]) /\ UNCHANGED <<pc, att, rc, resp>>
      /\ resp.frame = "length" => left' = left - 1
  BY DEF ReadPart
<1>2. /\ Wire[1] \in Token
      /\ resp.frame = "length" => Wire[1].part = resp.len - left + 1 /\ Wire[1].att = att
  BY PartIsOwn
<1>3. /\ Len(file) \in Nat /\ off \in 0 .. Len(file) /\ bytes \in Nat /\ lost \in Nat
      /\ left \in Nat /\ att \in Nat
  BY <1>0, TransferAssumption DEF TypeOK
<1>4. resp.len \in Nat
  <2>1. resp # NoHead /\ resp \in Reply
    BY <1>0, <1>1 DEF Inv, Wires, TypeOK
  <2> QED
    BY <2>1, ReplyFields
<1>5. ~rc' /\ pc' = "body"
  BY <1>0, <1>1 DEF Written
<1>6. Len(file) <= bytes /\ (att = 0 => bytes = off)
  BY <1>0 DEF Written
<1>7. CASE file' = file /\ off' = off /\ bytes' = bytes /\ lost' = lost + 1
  <2>1. lost' # 0
    BY <1>3, <1>7
  <2>2. resp.frame = "length" /\ att = 0 => off + lost = resp.len - left
    BY <1>0, <1>1 DEF Written
  <2>3. resp'.frame = "length" /\ att' = 0 => off' + lost' = resp'.len - left'
    BY <1>1, <1>3, <1>4, <1>7, <2>2
  <2> QED
    BY <1>1, <1>5, <1>6, <1>7, <2>1, <2>3 DEF Written
<1>8. CASE /\ off' = off + 1 /\ bytes' = bytes + 1 /\ lost' = lost
           /\ Len(file') = IF off < Len(file) THEN Len(file) ELSE Len(file) + 1
           /\ off' <= Len(file')
           /\ \A j \in 1 .. Len(file') : file'[j] = IF j = off + 1 THEN Wire[1] ELSE file[j]
  <2>1. Len(file') <= bytes' /\ (att' = 0 => bytes' = off')
    BY <1>1, <1>3, <1>6, <1>8
  <2>2. ASSUME resp.frame = "length"
        PROVE  /\ att' = 0 => off' + lost' = resp'.len - left'
               /\ lost' = 0 => off' = resp'.len - left'
    <3>1. /\ att = 0 => off + lost = resp.len - left
          /\ lost = 0 => off = resp.len - left
      BY <1>0, <1>1, <2>2 DEF Written
    <3>2. /\ left' = left - 1 /\ off' = off + 1 /\ lost' = lost /\ att' = att
          /\ resp'.len = resp.len
      BY <1>1, <1>8, <2>2
    <3>3. att' = 0 => off' + lost' = resp'.len - left'
      BY <1>3, <1>4, <3>1, <3>2
    <3>4. lost' = 0 => off' = resp'.len - left'
      BY <1>3, <1>4, <3>1, <3>2
    <3> QED
      BY <3>3, <3>4
  <2>3. ASSUME resp.frame = "length", lost' = 0, NEW j \in 1 .. off'
        PROVE  file'[j].part = j /\ file'[j].att = att
    <3>1. /\ off = resp.len - left
          /\ \A k \in 1 .. off : file[k].part = k /\ file[k].att = att
      BY <1>0, <1>1, <1>8, <2>3 DEF Written
    <3>2. j \in 1 .. Len(file') /\ j \in Nat
      BY <1>3, <1>8
    <3>3. CASE j = off + 1
      <4>1. file'[j] = Wire[1]
        BY <1>8, <3>2, <3>3
      <4> QED
        BY <1>2, <2>3, <3>1, <3>3, <4>1
    <3>4. CASE j # off + 1
      <4>1. file'[j] = file[j] /\ j \in 1 .. off
        BY <1>3, <1>8, <3>2, <3>4
      <4> QED
        BY <3>1, <4>1
    <3> QED
      BY <3>3, <3>4
  <2>4. ASSUME resp.frame = "length", lost' = 0
        PROVE  \A j \in 1 .. off' : file'[j].part = j /\ file'[j].att = file'[1].att
    <3>1. off' >= 1
      BY <1>3, <1>8
    <3>2. off' \in Int
      BY <1>3, <1>8
    <3>3. 1 \in 1 .. off'
      BY <3>1, <3>2
    <3> QED
      BY <2>3, <2>4, <3>3
  <2> QED
    BY <1>1, <1>5, <2>1, <2>2, <2>3, <2>4 DEF Written
<1> QED
  BY <1>0, <1>1, <1>2, <1>7, <1>8, OnDataIs

LEMMA WrittenStep ==
  ASSUME Inv, Next
  PROVE  Written'
<1>0. TypeOK /\ Written /\ att \in Nat
  BY DEF Inv, TypeOK
<1>1. CASE Begin
  BY <1>1, EmptySeq DEF Begin, Written
<1>2. CASE Reuse \/ Connect
  <2>1. /\ pc = "connect" /\ pc' = "send" /\ ~rc' /\ att' = att /\ UNCHANGED fileVars
    BY <1>2 DEF Reuse, Connect
  <2>2. att' = 0 => bytes = 0 /\ lost = 0
    BY <1>0, <2>1 DEF Written
  <2> QED
    BY <1>0, <2>1, <2>2, WrittenKept
<1>3. CASE ConnectFails
  <2>1. /\ pc' \in {"connect", "done"} /\ ~rc' /\ att' = att + 1 /\ UNCHANGED fileVars
    BY <1>0, <1>3, RetryIs DEF ConnectFails
  <2>2. att' # 0
    BY <1>0, <2>1
  <2> QED
    BY <1>0, <2>1, <2>2, WrittenKept
<1>4. ASSUME NEW h \in ReplyTo(req), NEW ends \in BOOLEAN, NEW n \in 0 .. Len(Answer(h)),
             Send(h, n, ends)
      PROVE  Written'
  <2>1. pc = "send" /\ OnClear /\ rc' = rc /\ pc' = "head" /\ att' = att
    BY <1>4 DEF Send
  <2> QED
    BY <1>0, <2>1, WrittenCleared
<1>5. CASE SendLost
  <2>1. pc = "send" /\ OnClear /\ rc' = rc /\ pc' = "head" /\ att' = att
    BY <1>5 DEF SendLost
  <2> QED
    BY <1>0, <2>1, WrittenCleared
<1>6. CASE SendFails
  <2>1. pc = "send" /\ OnClear /\ Fail
    BY <1>6 DEF SendFails
  <2>2. rc' = rc /\ pc' \in {"connect", "done"} /\ att' = att + 1
    BY <1>0, <2>1, FailIs
  <2> QED
    BY <1>0, <2>1, <2>2, WrittenCleared
<1>7. CASE SkipBlank \/ Abort
  <2>1. /\ pc = "head" /\ pc' \in {"head", "aborted"}
        /\ UNCHANGED <<att, rc, resp, left, file, off, bytes, lost>>
    BY <1>7 DEF SkipBlank, Abort, fileVars
  <2> QED
    BY <1>0, <2>1 DEF Written
<1>8. CASE ReadHead
  <2>1. /\ pc = "head" /\ pc' = "body" /\ resp' \in Reply /\ left' = resp'.len
        /\ UNCHANGED <<att, rc, file, off, bytes, lost>>
    BY <1>8 DEF ReadHead, fileVars
  <2>2. resp'.len \in Nat
    BY <2>1, ReplyFields
  <2>3. resp'.len - left' = 0
    BY <2>1, <2>2
  <2>4. off = 0 /\ ~rc /\ (att = 0 => bytes = 0 /\ lost = 0)
    BY <1>0, <2>1 DEF Written
  <2>5. 1 .. off' = {}
    BY <2>1, <2>4
  <2>6. Len(file') <= bytes' /\ (att' = 0 => bytes' = off')
    BY <1>0, <2>1 DEF Written
  <2> QED
    BY <2>1, <2>3, <2>4, <2>5, <2>6 DEF Written
<1>9. CASE NotHttp \/ Cut
  <2>1. pc \in {"head", "body"} /\ Fail /\ UNCHANGED fileVars
    BY <1>9 DEF NotHttp, Cut
  <2>2. rc' = rc /\ pc' \in {"connect", "done"} /\ att' = att + 1
    BY <1>0, <2>1, FailIs
  <2>3. ~rc' /\ att' # 0
    BY <1>0, <2>1, <2>2 DEF Written
  <2> QED
    BY <1>0, <2>1, <2>2, <2>3, WrittenKept
<1>10. CASE ReadPart
  BY <1>10, WrittenPart
<1>11. CASE EndOfLength \/ EndOfChunks \/ EndOfStream
  BY <1>11, WrittenEnds DEF EndOfLength, EndOfChunks, EndOfStream
<1> QED
  BY <1>1, <1>2, <1>3, <1>4, <1>5, <1>6, <1>7, <1>8, <1>9, <1>10, <1>11 DEF Next, Perform

-----------------------------------------------------------------------------
(* The theorems *)

LEMMA InvInit ==
  Init => Inv
<1> SUFFICES ASSUME Init PROVE Inv
  OBVIOUS
<1>1. TypeOK
  BY TypesInit
<1>2. Wires
  <2>1. \A h \in Host : conn[h] = NoConn
    BY DEF Init
  <2>2. pc = "idle"
    BY DEF Init
  <2> QED
    BY <2>1, <2>2, QuietNoConn DEF Wires
<1>3. Own
  BY EmptySeq DEF Init, Own
<1>4. Written
  BY EmptySeq DEF Init, Written
<1> QED
  BY <1>1, <1>2, <1>3, <1>4 DEF Inv

LEMMA InvStep ==
  Inv /\ [Next]_vars => Inv'
<1> SUFFICES ASSUME Inv, [Next]_vars PROVE Inv'
  OBVIOUS
<1>1. CASE Next
  BY <1>1, TypesStep, WiresStep, OwnStep, WrittenStep DEF Inv
<1>2. CASE UNCHANGED vars
  <2>1. UNCHANGED <<pc, req, att, rc, host, resp, left, conn, file, off, bytes, lost>>
    BY <1>2 DEF vars
  <2>2. TypeOK'
    BY <2>1 DEF Inv, TypeOK
  <2>3. Wires'
    <3>1. Wire' = Wire /\ conn' = conn /\ host' = host /\ pc' = pc /\ resp' = resp /\ left' = left
      BY <2>1 DEF Wire
    <3>2. ASSUME NEW h, NEW rest, NEW wire, NEW ended
          PROVE  Follows(h, rest, wire, ended) => Follows(h, rest, wire, ended)'
      BY <2>1 DEF Follows
    <3>3. ASSUME NEW wire, NEW ended
          PROVE  IsAnswer(wire, ended) => IsAnswer(wire, ended)'
      BY <2>1, <3>2 DEF IsAnswer
    <3>4. Follows(resp, left, Wire, conn[host].ended)
            => Follows(resp, left, Wire, conn[host].ended)'
      BY <3>1, <3>2
    <3>5. /\ IsAnswer(Wire, conn[host].ended) => IsAnswer(Wire, conn[host].ended)'
          /\ IsAnswer(Tail(Wire), conn[host].ended) => IsAnswer(Tail(Wire), conn[host].ended)'
      BY <3>1, <3>3
    <3> QED
      BY <3>1, <3>4, <3>5 DEF Inv, Wires
  <2>4. Own'
    BY <2>1 DEF Inv, Own
  <2>5. Written'
    BY <2>1 DEF Inv, Written
  <2> QED
    BY <2>2, <2>3, <2>4, <2>5 DEF Inv
<1> QED
  BY <1>1, <1>2

LEMMA AlwaysInv ==
  Spec => []Inv
BY InvInit, InvStep, PTL DEF Spec

\* The variables have their types: while a request is under way there are tries left, and from
\* the moment it is sent to the end of its body the connection is there.
THEOREM TypeCorrect ==
  Spec => []TypeOK
<1>1. Inv => TypeOK
  BY DEF Inv
<1> QED
  BY <1>1, AlwaysInv, PTL

\* What curl::req takes for the answer of a request is the origin's answer to this request,
\* whatever was left on connections by requests that failed or were answered late.
THEOREM AnswersAreOwn ==
  Spec => []OwnAnswer
<1>1. Inv => OwnAnswer
  BY DEF Inv, Own, OwnAnswer
<1> QED
  BY <1>1, AlwaysInv, PTL

\* A fragment that transfer_chunk accepts with a known length is the body of one try, whole
\* and in order, unless a write failed in a later try: bytes_sent is at least what the file
\* holds, and what the last try wrote.
THEOREM FragmentsAreWhole ==
  Spec => []WholeBody
<1>1. Inv => WholeBody
  <2> SUFFICES ASSUME Inv, Accepted, resp.frame = "length", resp.len > 0, lost = 0 \/ att = 0
               PROVE  /\ Len(file) = resp.len
                      /\ \A j \in 1 .. Len(file) : file[j].part = j /\ file[j].att = file[1].att
    BY DEF WholeBody
  <2>1. pc = "done" /\ rc /\ resp.len = bytes
    BY DEF Accepted
  <2>2. left = 0 /\ Len(file) <= bytes
    BY <2>1 DEF Inv, Written
  <2>3. /\ Len(file) \in Nat /\ off \in 0 .. Len(file) /\ bytes \in Nat /\ lost \in Nat
    BY DEF Inv, TypeOK
  <2>4. /\ att = 0 => bytes = off /\ off + lost = resp.len - left
        /\ lost = 0 => off = resp.len - left
        /\ lost = 0 => \A j \in 1 .. off : file[j].part = j /\ file[j].att = file[1].att
    BY <2>1 DEF Inv, Written
  <2>5. lost = 0
    <3>1. CASE lost = 0
      BY <3>1
    <3>2. CASE att = 0
      <4>1. bytes = off /\ off + lost = resp.len - left
        BY <2>4, <3>2
      <4> QED
        BY <2>1, <2>2, <2>3, <4>1
    <3> QED
      BY <3>1, <3>2
  <2>6. off = bytes
    <3>1. off = resp.len - left
      BY <2>4, <2>5
    <3> QED
      BY <2>1, <2>2, <2>3, <3>1
  <2>7. off = Len(file) /\ Len(file) = resp.len
    BY <2>1, <2>2, <2>3, <2>6
  <2> QED
    BY <2>4, <2>5, <2>7
<1> QED
  BY <1>1, AlwaysInv, PTL

\* No step of a transfer leaves it where it was: it uses up one of perform's tries, goes on
\* to the next stage of the request, or takes a token from the connection.
THEOREM TransferGoesOn ==
  Spec => UsesUp
<1> DEFINE A == {pc, pc'} \subseteq DOMAIN Stage =>
                  \/ att' > att
                  \/ att' = att /\ Stage[pc'] < Stage[pc]
                  \/ att' = att /\ pc' = pc /\ host' = host /\ Len(Wire') < Len(Wire)
<1>1. Inv /\ [Next]_vars => [A]_vars
  <2> SUFFICES ASSUME Inv, Next, {pc, pc'} \subseteq DOMAIN Stage
               PROVE  \/ att' > att
                      \/ att' = att /\ Stage[pc'] < Stage[pc]
                      \/ att' = att /\ pc' = pc /\ host' = host /\ Len(Wire') < Len(Wire)
    OBVIOUS
  <2>0. TypeOK /\ att \in Nat
    BY DEF Inv, TypeOK
  <2>1. /\ DOMAIN Stage = {"connect", "send", "head", "body"}
        /\ Stage["connect"] = 4 /\ Stage["send"] = 3 /\ Stage["head"] = 2 /\ Stage["body"] = 1
    BY DEF Stage
  <2> DEFINE Earlier == pc \in {"connect", "send", "head", "body"}
  <2>2. Earlier /\ pc' \in {"connect", "send", "head", "body"}
    BY <2>1
  <2>3. CASE Begin
    BY <2>2, <2>3 DEF Begin
  <2>4. CASE Reuse \/ Connect
    BY <2>1, <2>4 DEF Reuse, Connect
  <2>5. CASE ConnectFails
    BY <2>0, <2>5 DEF ConnectFails, Retry
  <2>6. ASSUME NEW h \in ReplyTo(req), NEW ends \in BOOLEAN, NEW n \in 0 .. Len(Answer(h)),
               Send(h, n, ends)
        PROVE  att' = att /\ Stage[pc'] < Stage[pc]
    BY <2>1, <2>6 DEF Send
  <2>7. CASE SendLost
    BY <2>1, <2>7 DEF SendLost
  <2>8. CASE SendFails \/ NotHttp \/ Cut
    BY <2>0, <2>8 DEF SendFails, NotHttp, Cut, Fail, Retry
  <2>9. CASE SkipBlank \/ ReadPart
    <3>1. /\ pc' = pc /\ att' = att /\ host' = host /\ Wire # <<>> /\ conn' = Drop
          /\ pc \in {"head", "body"}
      BY <2>9 DEF SkipBlank, ReadPart
    <3>2. conn[host] # NoConn
      BY <2>0, <3>1, InProgress
    <3>3. Wire' = Tail(Wire) /\ Len(Wire) \in Nat \ {0} /\ Len(Tail(Wire)) = Len(Wire) - 1
      BY <2>0, <3>1, <3>2, DropIs DEF Wire
    <3> QED
      BY <3>1, <3>3
  <2>10. CASE ReadHead
    BY <2>1, <2>10 DEF ReadHead
  <2>11. CASE Abort
    BY <2>2, <2>11 DEF Abort
  <2>12. CASE EndOfLength \/ EndOfChunks \/ EndOfStream
    <3>1. pc = "body" /\ Finish
      BY <2>12 DEF EndOfLength, EndOfChunks, EndOfStream
    <3>2. att' = att + 1
      BY <2>0, <2>2, <3>1, FinishIs
    <3> QED
      BY <2>0, <3>2
  <2> QED
    BY <2>3, <2>4, <2>5, <2>6, <2>7, <2>8, <2>9, <2>10, <2>11, <2>12 DEF Next, Perform
<1>2. UsesUp <=> [][A]_vars
  BY DEF UsesUp
<1> QED
  BY <1>1, <1>2, AlwaysInv, PTL DEF Spec

================================================================================
