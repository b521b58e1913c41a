--------------------------- MODULE EvControllerProofs ---------------------------
(***************************************************************************)
(* Proofs about EvController, for any clients, sources, processes and      *)
(* channels.                                                               *)
(*                                                                         *)
(* Nothing is erased before flush; until then the sets of what is there    *)
(* only grow, and each event, list or pointer stays good.  Flush erases    *)
(* all of one kind together: the clients in trash_clnt, the sources that   *)
(* have ended or lost their last client, and the clients of those.         *)
(***************************************************************************)
EXTENDS EvController, SequenceTheorems, FiniteSetTheorems, TLAPS

-----------------------------------------------------------------------------
(* Lists *)

\* One more at the end of a list.
LEMMA AppendIs ==
  ASSUME NEW S, NEW q \in Seq(S), NEW x \in S
  PROVE  /\ Append(q, x) \in Seq(S)
         /\ ToSet(Append(q, x)) = ToSet(q) \cup {x}
         /\ IsInjective(q) /\ x \notin ToSet(q) => IsInjective(Append(q, x))
<1>1. /\ Append(q, x) \in Seq(S) /\ Len(Append(q, x)) = Len(q) + 1
      /\ \A i \in 1 .. Len(q) : Append(q, x)[i] = q[i]
      /\ Append(q, x)[Len(q) + 1] = x
  BY AppendProperties
<1>2. DOMAIN q = 1 .. Len(q) /\ DOMAIN Append(q, x) = 1 .. Len(q) + 1 /\ Len(q) \in Nat
  BY <1>1
<1>3. 1 .. Len(q) + 1 = (1 .. Len(q)) \cup {Len(q) + 1}
  BY <1>2
<1> DEFINE n == Len(q)
           a == Append(q, x)
<1> HIDE DEF n, a
<1>4. /\ DOMAIN q = 1 .. n /\ DOMAIN a = (1 .. n) \cup {n + 1}
      /\ a[n + 1] = x /\ \A i \in 1 .. n : a[i] = q[i]
  BY <1>1, <1>2, <1>3 DEF n, a
<1>5. ToSet(a) = ToSet(q) \cup {x}
  BY <1>4 DEF ToSet
<1>6. ASSUME IsInjective(q), x \notin ToSet(q) PROVE IsInjective(a)
  BY <1>4, <1>6 DEF IsInjective, ToSet
<1> QED
  BY <1>1, <1>5, <1>6 DEF a

\* The elements of a set in some order.
LEMMA OrderIs ==
  ASSUME NEW S \in SUBSET Client, NEW q \in SetToSeqs(S)
  PROVE  q \in Seq(Client) /\ ToSet(q) = S /\ IsInjective(q)
<1>1. IsFiniteSet(S)
  BY FS_Subset, ControllerAssumption
<1> DEFINE n == Cardinality(S)
<1>2. n \in Nat
  BY <1>1, FS_CardinalityType
<1>3. q \in [1 .. n -> S] /\ IsInjective(q)
  BY DEF SetToSeqs, IsInjective
<1>4. q \in Injection(1 .. n, S)
  BY <1>3 DEF Injection, IsInjective
<1>5. Cardinality(1 .. n) = n
  BY <1>2, FS_Interval
<1> HIDE DEF n
<1>6. q \in Surjection(1 .. n, S)
  BY <1>1, <1>4, <1>5, FS_Injection DEF n
<1>7. ToSet(q) = S
  BY <1>3, <1>6 DEF Surjection, ToSet
<1> QED
  BY <1>2, <1>3, <1>7

\* The empty list.
LEMMA EmptyIs == <<>> \in Seq(Client) /\ ToSet(<<>>) = {} /\ IsInjective(<<>>)
<1>1. <<>> \in Seq(Client) /\ DOMAIN <<>> = {}
  OBVIOUS
<1> QED
  BY <1>1 DEF ToSet, IsInjective

-----------------------------------------------------------------------------
(* Types *)

LEMMA InitType == Init => TypeOK
<1> SUFFICES ASSUME Init PROVE TypeOK
  OBVIOUS
<1>1. doomed \in Seq(Client)
  BY EmptyIs DEF Init
<1> QED
  BY <1>1, ControllerAssumption DEF Init, TypeOK

\* The world.
LEMMA WorldType == ASSUME TypeOK, World PROVE TypeOK'
<1> USE DEF TypeOK, loopVars, clientVars, sourceVars, connVars, procVars, roundVars
<1>1. ASSUME NEW c \in Client, PeerCloses(c) PROVE TypeOK'
  BY <1>1 DEF PeerCloses
<1>2. ASSUME NEW s \in Source, LastWriterEnds(s) PROVE TypeOK'
  BY <1>2 DEF LastWriterEnds
<1>3. ASSUME NEW p \in Pid, ProcessEnds(p) PROVE TypeOK'
  BY <1>3 DEF ProcessEnds
<1> QED
  BY <1>1, <1>2, <1>3 DEF World

LEMMA EpollWaitType == ASSUME TypeOK, EpollWait PROVE TypeOK'
<1> USE DEF TypeOK, clientVars, sourceVars, connVars, procVars, roundVars
<1>1. evL' \in BOOLEAN /\ evC' \in [Client -> SUBSET {"in", "out", "hup"}]
      /\ evS' \in [Source -> SUBSET {"in", "hup"}]
  BY DEF EpollWait, Event
<1>2. told' \subseteq Client \cup Source /\ more' \in BOOLEAN
  BY DEF EpollWait, Ended, Open, Live
<1> QED
  BY <1>1, <1>2, ControllerAssumption DEF EpollWait

\* The clients whose time is over go to the list.
LEMMA OnAlrmIs ==
  ASSUME TypeOK, OnAlrm
  PROVE  /\ doomed' \in Seq(Client) /\ timers' \subseteq timers
         /\ doomed = <<>> => ToSet(doomed') = timers \ timers' /\ IsInjective(doomed')
<1>1. PICK due \in SUBSET timers :
        \E order \in SetToSeqs(due) : doomed' = doomed \o order /\ timers' = timers \ due
  BY DEF OnAlrm
<1>2. PICK order \in SetToSeqs(due) : doomed' = doomed \o order /\ timers' = timers \ due
  BY <1>1
<1>3. order \in Seq(Client) /\ ToSet(order) = due /\ IsInjective(order)
  BY OrderIs DEF TypeOK
<1>4. doomed' \in Seq(Client) /\ (doomed = <<>> => doomed' = order)
  BY <1>2, <1>3 DEF TypeOK
<1> QED
  BY <1>2, <1>3, <1>4

LEMMA InterruptType == ASSUME TypeOK, Interrupt PROVE TypeOK'
<1>1. doomed' \in Seq(Client) /\ timers' \subseteq Client
  BY OnAlrmIs DEF Interrupt, TypeOK
<1> QED
  BY <1>1 DEF Interrupt, TypeOK, sourceVars, connVars, procVars, roundVars

LEMMA ReapType == ASSUME TypeOK, Reap PROVE TypeOK'
<1>1. doomed' \in Seq(Client) /\ timers' \subseteq Client
  BY OnAlrmIs DEF Reap, TypeOK
<1>2. life' \in [Pid -> {"free", "run", "zombie"}] /\ writes' \in [Pid -> Source \cup {Nobody}]
  BY DEF Reap, TypeOK
<1> QED
  BY <1>1, <1>2 DEF Reap, TypeOK, sourceVars, connVars, roundVars

LEMMA OnListenerType == ASSUME TypeOK, NEW new \in SUBSET Client, OnListener(new) PROVE TypeOK'
BY DEF OnListener, TypeOK, sourceVars, procVars, roundVars

LEMMA OnClientType == ASSUME TypeOK, NEW c \in Client, OnClient(c) PROVE TypeOK'
<1> USE ControllerAssumption DEF TypeOK, sourceVars, connVars, procVars, roundVars, ToTrash
<1>1. Append(doomed, c) \in Seq(Client)
  BY AppendIs
<1>2. pollout' \in [Client -> BOOLEAN] /\ evC' \in [Client -> SUBSET {"in", "out", "hup"}]
  BY DEF OnClient
<1> QED
  BY <1>1, <1>2 DEF OnClient

\* What every step of the work on a client leaves alone, and what it does to the lists.
LEMMA ReadEndsIs ==
  ASSUME TypeOK, pc = "read", ReadEnds
  PROVE  /\ cur \in Client
         /\ UNCHANGED <<evL, evC, evS, chld, pollout, timers, gone, armed>>
         /\ \/ pc' = "write" /\ cur' = cur /\ doomed' = doomed /\ ~gone[cur]
            \/ pc' = "next" /\ cur' = Nobody /\ doomed' = Append(doomed, cur)
         /\ doomed' \in Seq(Client)
<1>1. cur \in Client
  BY DEF TypeOK
<1>2. Append(doomed, cur) \in Seq(Client)
  BY <1>1, AppendIs DEF TypeOK
<1> QED
  BY <1>1, <1>2 DEF TypeOK, ReadEnds, ToTrash

LEMMA ReadType ==
  ASSUME TypeOK,
         \/ ReadPart \/ ReadOther \/ \E u \in Url : ReadJoin(u)
         \/ \E u \in Url, p \in Pid : ReadSpawnFails(u, p) \/ \E s \in Source : ReadSpawn(u, s, p)
  PROVE  TypeOK'
<1>1. pc = "read" /\ ReadEnds
  BY DEF ReadPart, ReadOther, ReadJoin, ReadSpawnFails, ReadSpawn
<1>2. /\ cur \in Client
      /\ UNCHANGED <<evL, evC, evS, chld, pollout, timers, gone, armed>>
      /\ pc' \in {"write", "next"} /\ cur' \in Client \cup {Nobody}
      /\ (cur' # Nobody <=> pc' = "write")
      /\ doomed' \in Seq(Client)
  BY <1>1, ReadEndsIs, ControllerAssumption
<1>3. CASE ReadPart
  BY <1>2, <1>3 DEF ReadPart, TypeOK, sourceVars, procVars, roundVars
<1>4. CASE ReadOther
  BY <1>2, <1>4 DEF ReadOther, TypeOK, sourceVars, procVars, roundVars
<1>5. ASSUME NEW u \in Url, ReadJoin(u) PROVE TypeOK'
  <2>1. urls[u] \in Source
    BY <1>5 DEF ReadJoin, TypeOK
  <2> QED
    BY <1>2, <1>5, <2>1 DEF ReadJoin, Attach, TypeOK, procVars, roundVars
<1>6. ASSUME NEW u \in Url, NEW p \in Pid, ReadSpawnFails(u, p) PROVE TypeOK'
  BY <1>2, <1>6 DEF ReadSpawnFails, TypeOK, sourceVars
<1>7. ASSUME NEW u \in Url, NEW p \in Pid, NEW s \in Source, ReadSpawn(u, s, p) PROVE TypeOK'
  BY <1>2, <1>7 DEF ReadSpawn, Attach, TypeOK
<1> QED
  BY <1>3, <1>4, <1>5, <1>6, <1>7

LEMMA WriteType == ASSUME TypeOK, Write PROVE TypeOK'
<1> USE ControllerAssumption DEF TypeOK, sourceVars, procVars, roundVars, WatchAgain, ToTrash
<1>1. cur \in Client
  BY DEF Write, WriteNothing, WriteBlocks, WriteCloses, WriteReply
<1>2. Append(doomed, cur) \in Seq(Client)
  BY <1>1, AppendIs
<1>3. pollout[cur] \in BOOLEAN
  BY <1>1
<1>4. CASE WriteNothing
  <2>1. \/ pc' = "send" /\ UNCHANGED <<cur, armed>>
        \/ armed' = [armed EXCEPT ![cur] = ~pollout[cur]] /\ pc' = "next" /\ cur' = Nobody
    BY <1>4 DEF WriteNothing
  <2>2. armed' \in [Client -> BOOLEAN]
    BY <1>1, <1>3, <2>1
  <2> QED
    BY <1>1, <1>4, <2>1, <2>2 DEF Write, WriteNothing
<1>5. CASE WriteBlocks
  BY <1>1, <1>5 DEF Write, WriteBlocks
<1>6. CASE WriteCloses
  BY <1>1, <1>2, <1>6 DEF Write, WriteCloses
<1>7. CASE WriteReply
  BY <1>1, <1>7 DEF Write, WriteReply
<1> QED
  BY <1>4, <1>5, <1>6, <1>7 DEF Write

LEMMA SendType == ASSUME TypeOK, Send PROVE TypeOK'
BY ControllerAssumption DEF TypeOK, sourceVars, procVars, roundVars, Send, FlushBuffers

LEMMA OnSourceType ==
  ASSUME TypeOK, NEW s \in Source, OnSourceHup(s) \/ OnSource(s)
  PROVE  TypeOK'
<1> USE DEF TypeOK, clientVars, connVars, procVars, roundVars
<1>1. CASE OnSourceHup(s)
  BY <1>1 DEF OnSourceHup
<1>2. CASE OnSource(s)
  BY <1>2 DEF OnSource, FlushBuffers
<1> QED
  BY <1>1, <1>2

LEMMA FlushType == ASSUME TypeOK, Flush PROVE TypeOK'
<1>1. /\ pc' = "wait" /\ doomed' = <<>> /\ ended' = {} /\ told' = {}
      /\ more' = FALSE /\ forked' \subseteq Pid
      /\ UNCHANGED <<cur, evL, evC, evS>> /\ cur = Nobody
  BY DEF Flush, TypeOK
<1>2. /\ st' \in [Client -> {"none", "request", "answer", "reply", "stream"}]
      /\ src' \in [Client -> Source \cup {Nobody}] /\ pollout' \in [Client -> BOOLEAN]
      /\ gone' \in [Client -> BOOLEAN] /\ armed' \in [Client -> BOOLEAN]
      /\ behind' \in [Client -> BOOLEAN] /\ timers' \subseteq Client
  <2> HIDE DEF Erased
  <2> QED BY DEF Flush, TypeOK
<1>3. /\ pid' \in [Source -> Pid \cup {Nobody}] /\ url' \in [Source -> Url \cup {Nobody}]
      /\ eof' \in [Source -> BOOLEAN] /\ members' \in [Source -> SUBSET Client]
  <2>1. \A s \in Source : Left(s) \subseteq Client
    BY DEF Left, TypeOK
  <2>2. \A s \in Source : (s \notin Over /\ (eof[s] \/ CutOff(s))) \in BOOLEAN
    OBVIOUS
  <2> QED BY <2>1, <2>2 DEF Flush, TypeOK
<1>4. /\ urls' \in [Url -> Source \cup {Nobody}] /\ chld' \in BOOLEAN
      /\ life' \in [Pid -> {"free", "run", "zombie"}] /\ writes' \in [Pid -> Source \cup {Nobody}]
  <2>1. \A u \in Url : UrlsLeft[u] \in Source \cup {Nobody}
    BY DEF UrlsLeft, TypeOK
  <2>2. UrlsLeft \in [Url -> Source \cup {Nobody}]
    BY <2>1 DEF UrlsLeft
  <2> QED BY <2>2 DEF Flush, TypeOK
<1> QED
  BY <1>1, <1>2, <1>3, <1>4, EmptyIs DEF TypeOK

LEMMA NextType == TypeOK /\ [Next]_vars => TypeOK'
<1> SUFFICES ASSUME TypeOK, [Next]_vars PROVE TypeOK'
  OBVIOUS
<1>1. CASE Stop
  BY <1>1 DEF Stop, TypeOK, clientVars, sourceVars, connVars, roundVars
<1>2. CASE EventsDone
  BY <1>2 DEF EventsDone, TypeOK, clientVars, sourceVars, connVars, procVars, roundVars
<1>3. CASE UNCHANGED vars
  BY <1>3 DEF TypeOK, vars, loopVars, clientVars, sourceVars, connVars, procVars, roundVars
<1>4. CASE OnEvent
  BY <1>4, OnListenerType, OnClientType, ReadType, WriteType, SendType, OnSourceType DEF OnEvent
<1> QED
  BY <1>1, <1>2, <1>3, <1>4, WorldType, EpollWaitType, InterruptType, ReapType, FlushType
     DEF Next, Loop

\* Types.
THEOREM TypeCorrect == Spec => []TypeOK
BY InitType, NextType, PTL DEF Spec

-----------------------------------------------------------------------------
(* The invariants *)

\* Events are of objects that are there, are left only while the loop goes over them, and
\* never of a client that is to be erased or of the one at work.
Events ==
  /\ pc \in {"wait", "reap", "flush", "stop"} =>
       (\A c \in Client : evC[c] = {}) /\ (\A s \in Source : evS[s] = {})
  /\ \A c \in Client : evC[c] # {} => c \in Open /\ c \notin ToSet(doomed) /\ c # cur
  /\ \A s \in Source : evS[s] # {} => s \in Live

\* The lists of what is to be erased are empty when a round begins.
Lists ==
  /\ pc \in {"wait", "reap", "stop"} => doomed = <<>> /\ ended = {}
  /\ IsInjective(doomed) /\ ToSet(doomed) \subseteq Open
  /\ cur # Nobody => cur \in Open /\ cur \notin ToSet(doomed)
  /\ ended \subseteq Live

\* Clients and their sources.
Members ==
  /\ \A c \in Client : src[c] = Nobody <=> st[c] \in {"none", "request", "answer"}
  /\ \A c \in Client : src[c] # Nobody => src[c] \in Live
  /\ \A s \in Source : members[s] = {c \in Client : src[c] = s}
  /\ \A s \in Live : members[s] # {}
  /\ timers \subseteq Open

\* Channels and their sources.
OnePerUrl ==
  /\ \A u \in Url : urls[u] # Nobody => urls[u] \in Live /\ url[urls[u]] = u
  /\ \A s \in Live : url[s] \in Url /\ urls[url[s]] = s

\* Whoever is not served yet has a timer.
Timed == \A c \in Open : st[c] # "stream" => c \in timers \cup ToSet(doomed)

\* A client that is neither at work nor about to be erased can be written to as far as is
\* known, or it is watched; and what can be written to has nothing left to be sent.
Watched ==
  /\ \A c \in Open : c # cur /\ c \notin ToSet(doomed) =>
       /\ pollout[c] \/ armed[c]
       /\ (behind[c] \/ st[c] \in {"answer", "reply"}) /\ st[c] # "request" /\ ~gone[c]
            => ~pollout[c]
  /\ pc = "send" => st[cur] = "stream" /\ pollout[cur]

\* The ends that epoll has reported and that are on no list are still to be looked at.
Reported ==
  /\ \A c \in told \cap Client : "hup" \in evC[c]
  /\ \A s \in told \cap Source : "hup" \in evS[s]

\* A source whose process was reaped before its pipe was looked at: the end of the pipe is
\* among what the next batch reports, and goes to the list in it, unless events is full; only a
\* process forked meanwhile may have the pid.
Stale(s) ==
  /\ eof[s] /\ pc # "reap"
  /\ life[pid[s]] = "free" \/ pid[s] \in forked
  /\ pc \in {"next", "read", "write", "send"} => more \/ s \in told \cup ended
  /\ pc = "flush" => more \/ s \in ended \/ life[pid[s]] = "free"

\* A source's process is its own and has closed the pipe if it has ended, or it has been reaped.
OwnProcess ==
  \A s \in Live : url[s] \notin Detaching =>
    /\ Owns(s) /\ life[pid[s]] = "zombie" /\ pc # "stop" => eof[s]
    /\ ~Owns(s) => Stale(s)

\* The steps of the work on one client.
Work ==
  \/ ReadPart \/ ReadOther \/ \E u \in Url : ReadJoin(u)
  \/ \E u \in Url, p \in Pid : ReadSpawnFails(u, p) \/ \E s \in Source : ReadSpawn(u, s, p)
  \/ Write \/ Send

-----------------------------------------------------------------------------
(* What the steps change *)

\* The work on a client changes no other, adds sources at most, and ends with the client
\* watched again or on the list.
LEMMA WorkIs ==
  ASSUME TypeOK, Lists, Work
  PROVE  /\ pc \in {"read", "write", "send"} /\ cur \in Client /\ cur \in Open
         /\ UNCHANGED <<evL, evC, evS, chld, ended, gone, told, eof>>
         /\ \/ pc' \in {"write", "send"} /\ cur' = cur /\ doomed' = doomed
            \/ pc' = "next" /\ cur' = Nobody /\ doomed' \in {doomed, Append(doomed, cur)}
         /\ \A c \in Client \ {cur} :
              /\ st'[c] = st[c] /\ src'[c] = src[c] /\ pollout'[c] = pollout[c]
              /\ behind'[c] = behind[c] /\ armed'[c] = armed[c]
         /\ timers' \in {timers, timers \ {cur}}
         /\ Open' = Open /\ Live \subseteq Live'
<1> USE DEF connVars, procVars, roundVars, sourceVars
<1>1. pc \in {"read", "write", "send"}
  BY DEF Work, ReadPart, ReadOther, ReadJoin, ReadSpawnFails, ReadSpawn, Write, WriteNothing,
         WriteBlocks, WriteCloses, WriteReply, Send
<1>2. cur \in Client /\ cur \in Open /\ st[cur] # "none"
  BY <1>1, ControllerAssumption DEF TypeOK, Lists, Open
<1>3. UNCHANGED <<evL, evC, evS, chld, ended, gone, told, eof>>
  BY DEF Work, ReadPart, ReadOther, ReadJoin, ReadSpawnFails, ReadSpawn, ReadEnds, Write, Send
<1>4. \/ pc' \in {"write", "send"} /\ cur' = cur /\ doomed' = doomed
      \/ pc' = "next" /\ cur' = Nobody /\ doomed' \in {doomed, Append(doomed, cur)}
  BY DEF Work, ReadPart, ReadOther, ReadJoin, ReadSpawnFails, ReadSpawn, ReadEnds, Write, Send,
         ToTrash, WatchAgain, WriteNothing, WriteBlocks, WriteCloses, WriteReply
<1>5. timers' \in {timers, timers \ {cur}}
  BY DEF Work, ReadPart, ReadOther, ReadJoin, ReadSpawnFails, ReadSpawn, ReadEnds, Write, Send,
         WriteNothing, WriteBlocks, WriteCloses, WriteReply
<1>6. /\ st'[cur] # "none"
      /\ \A c \in Client \ {cur} :
           /\ st'[c] = st[c] /\ src'[c] = src[c] /\ pollout'[c] = pollout[c]
           /\ behind'[c] = behind[c] /\ armed'[c] = armed[c]
  <2> USE <1>2 DEF TypeOK
  <2>1. CASE ReadPart
    BY <2>1 DEF ReadPart, ReadEnds
  <2>2. CASE ReadOther
    BY <2>2 DEF ReadOther, ReadEnds
  <2>3. ASSUME NEW u \in Url, ReadJoin(u) PROVE <1>6!1 /\ <1>6!2
    BY <2>3 DEF ReadJoin, Attach, ReadEnds
  <2>4. ASSUME NEW u \in Url, NEW p \in Pid, ReadSpawnFails(u, p) PROVE <1>6!1 /\ <1>6!2
    BY <2>4 DEF ReadSpawnFails, ReadEnds
  <2>5. ASSUME NEW u \in Url, NEW p \in Pid, NEW s \in Source, ReadSpawn(u, s, p)
        PROVE  <1>6!1 /\ <1>6!2
    BY <2>5 DEF ReadSpawn, Attach, ReadEnds
  <2>6. CASE Write
    BY <2>6 DEF Write, WriteNothing, WriteBlocks, WriteCloses, WriteReply, WatchAgain
  <2>7. CASE Send
    BY <2>7 DEF Send, FlushBuffers
  <2> QED
    BY <2>1, <2>2, <2>3, <2>4, <2>5, <2>6, <2>7 DEF Work
<1>7. Open' = Open
  BY <1>2, <1>6 DEF Open
<1>8. Live \subseteq Live'
  <2>1. ASSUME NEW u \in Url, NEW p \in Pid, NEW s \in Source, ReadSpawn(u, s, p)
        PROVE  Live \subseteq Live'
    BY <2>1 DEF ReadSpawn, Live, TypeOK
  <2>2. CASE UNCHANGED pid
    BY <2>2 DEF Live
  <2> QED
    BY <2>1, <2>2 DEF Work, ReadPart, ReadOther, ReadJoin, ReadSpawnFails, Write, Send
<1> QED
  BY <1>1, <1>2, <1>3, <1>4, <1>5, <1>6, <1>7, <1>8

\* What flush erases, and that it leaves the rest as it is.
LEMMA FlushIs ==
  ASSUME TypeOK, Lists, Members, Flush
  PROVE  /\ Over \subseteq Live
         /\ Erased = {c \in Client : c \in ToSet(doomed) \/ src[c] \in Over}
         /\ Open' = Open \ Erased /\ Live' = Live \ Over
         /\ \A c \in Client \ Erased :
              /\ st'[c] = st[c] /\ src'[c] = src[c] /\ pollout'[c] = pollout[c]
              /\ gone'[c] = gone[c] /\ armed'[c] = armed[c] /\ behind'[c] = behind[c]
         /\ \A c \in Client \cap Erased : st'[c] = "none" /\ src'[c] = Nobody
         /\ \A s \in Source \ Over :
              pid'[s] = pid[s] /\ url'[s] = url[s] /\ members'[s] = members[s] \ ToSet(doomed)
         /\ \A s \in Source \cap Over : pid'[s] = Nobody /\ members'[s] = {}
<1>1. Over \subseteq Live
  BY DEF Over, Lists, Members, Open
<1>2. Erased = {c \in Client : c \in ToSet(doomed) \/ src[c] \in Over}
  BY <1>1 DEF Erased, Left, Lists, Members, Open, Live
<1>3. \A c \in Client \ Erased :
        /\ st'[c] = st[c] /\ src'[c] = src[c] /\ pollout'[c] = pollout[c]
        /\ gone'[c] = gone[c] /\ armed'[c] = armed[c] /\ behind'[c] = behind[c]
  <2> HIDE DEF Erased
  <2> QED BY DEF Flush
<1>4. \A c \in Client \cap Erased : st'[c] = "none" /\ src'[c] = Nobody
  BY DEF Flush
<1>5. \A s \in Source \ Over :
        pid'[s] = pid[s] /\ url'[s] = url[s] /\ members'[s] = members[s] \ ToSet(doomed)
  BY DEF Flush, Left
<1>6. \A s \in Source \cap Over : pid'[s] = Nobody /\ members'[s] = {}
  BY DEF Flush
<1> HIDE DEF Erased, Over
<1>7. Open' = Open \ Erased
  BY <1>3, <1>4 DEF Open
<1>8. Live' = Live \ Over
  BY <1>1, <1>5, <1>6 DEF Live
<1> QED
  BY <1>1, <1>2, <1>3, <1>4, <1>5, <1>6, <1>7, <1>8

-----------------------------------------------------------------------------
(* The events and the lists *)

LEMMA ListsStep == TypeOK /\ Events /\ Lists /\ Members /\ [Next]_vars => Events' /\ Lists'
<1> SUFFICES ASSUME TypeOK, Events, Lists, Members, [Next]_vars PROVE Events' /\ Lists'
  OBVIOUS
<1> USE DEF loopVars, clientVars, sourceVars, connVars, procVars, roundVars
<1>1. CASE UNCHANGED <<pc, cur, evC, evS, st, doomed, pid, ended>>
  BY <1>1 DEF Events, Lists, Open, Live
<1>2. CASE World
  BY <1>1, <1>2 DEF World, PeerCloses, LastWriterEnds, ProcessEnds
<1>3. CASE EpollWait
  <2>1. \A c \in Client : evC'[c] # {} => c \in Open
    BY <1>3, ControllerAssumption DEF EpollWait, Event, Ended, Open, Live
  <2>2. \A s \in Source : evS'[s] # {} => s \in Live
    BY <1>3, ControllerAssumption DEF EpollWait, Event, Ended, Open, Live
  <2>3. /\ pc = "wait" /\ pc' = "next" /\ doomed = <<>> /\ doomed' = doomed /\ cur = Nobody
        /\ cur' = cur /\ ended' = ended /\ Open' = Open /\ Live' = Live
    BY <1>3 DEF EpollWait, TypeOK, Lists, Open, Live
  <2> QED
    BY <2>1, <2>2, <2>3, EmptyIs, ControllerAssumption DEF Events, Lists
<1>4. CASE Interrupt \/ Reap
  <2>1. /\ pc \in {"wait", "reap"} /\ doomed = <<>> /\ cur = Nobody
        /\ Open' = Open /\ Live' = Live /\ UNCHANGED <<evC, evS, ended, cur>>
    BY <1>4 DEF Interrupt, Reap, Lists, TypeOK, Open, Live
  <2>2. CASE pc' = "reap" /\ doomed' = doomed
    BY <2>1, <2>2 DEF Events, Lists
  <2>3. CASE pc' = "flush" /\ OnAlrm
    <3>1. ToSet(doomed') \subseteq Open /\ IsInjective(doomed')
      BY <2>1, <2>3, OnAlrmIs DEF Members
    <3> QED
      BY <2>1, <2>3, <3>1 DEF Events, Lists
  <2> QED
    BY <1>4, <2>2, <2>3 DEF Interrupt, Reap
<1>5. CASE Stop
  BY <1>5 DEF Stop, Events, Lists, Open, Live
<1>6. CASE EventsDone
  BY <1>6 DEF EventsDone, Events, Lists, Open, Live
<1>7. ASSUME NEW new \in SUBSET Client, OnListener(new) PROVE Events' /\ Lists'
  <2>1. Open \subseteq Open' /\ Live' = Live
    BY <1>7 DEF OnListener, Open, Live, TypeOK
  <2> QED
    BY <1>7, <2>1 DEF OnListener, Events, Lists
<1>8. ASSUME NEW c \in Client, OnClient(c) PROVE Events' /\ Lists'
  <2>1. /\ Open' = Open /\ Live' = Live /\ ended' = ended /\ evS' = evS /\ c \in Open
        /\ c \notin ToSet(doomed) /\ evC' = [evC EXCEPT ![c] = {}] /\ pc = "next"
    BY <1>8 DEF OnClient, Open, Live, Events
  <2>2. CASE pc' = "next" /\ cur' = Nobody /\ doomed' = Append(doomed, c)
    <3>1. ToSet(doomed') = ToSet(doomed) \cup {c} /\ IsInjective(doomed')
      BY <2>1, <2>2, AppendIs DEF TypeOK, Lists
    <3> QED
      BY <2>1, <2>2, <3>1, ControllerAssumption DEF Events, Lists, TypeOK
  <2>3. CASE pc' \in {"read", "write"} /\ cur' = c /\ doomed' = doomed
    BY <2>1, <2>3 DEF Events, Lists, TypeOK
  <2> QED
    BY <1>8, <2>2, <2>3 DEF OnClient, ToTrash
<1>9. CASE Work
  <2>1. /\ pc \in {"read", "write", "send"} /\ cur \in Client /\ cur \in Open
        /\ UNCHANGED <<evC, evS, ended>> /\ Open' = Open /\ Live \subseteq Live'
        /\ \/ pc' \in {"write", "send"} /\ cur' = cur /\ doomed' = doomed
           \/ pc' = "next" /\ cur' = Nobody /\ doomed' \in {doomed, Append(doomed, cur)}
    BY <1>9, WorkIs
  <2>2. CASE pc' \in {"write", "send"} /\ cur' = cur /\ doomed' = doomed
    BY <2>1, <2>2 DEF Events, Lists
  <2>3. CASE pc' = "next" /\ cur' = Nobody /\ doomed' = doomed
    BY <2>1, <2>3, ControllerAssumption DEF Events, Lists, TypeOK
  <2>4. CASE pc' = "next" /\ cur' = Nobody /\ doomed' = Append(doomed, cur)
    <3>1. cur # Nobody /\ cur \notin ToSet(doomed)
      BY <2>1, ControllerAssumption DEF Lists
    <3>2. ToSet(doomed') = ToSet(doomed) \cup {cur} /\ IsInjective(doomed')
      BY <2>1, <2>4, <3>1, AppendIs DEF TypeOK, Lists
    <3> QED
      BY <2>1, <2>4, <3>2, ControllerAssumption DEF Events, Lists, TypeOK
  <2> QED
    BY <2>1, <2>2, <2>3, <2>4
<1>10. ASSUME NEW s \in Source, OnSourceHup(s) \/ OnSource(s) PROVE Events' /\ Lists'
  <2>1. /\ evS' = [evS EXCEPT ![s] = {}] /\ ended' \in {ended, ended \cup {s}} /\ s \in Live
        /\ pc = "next" /\ UNCHANGED <<pc, cur, evC, doomed>> /\ Open' = Open /\ Live' = Live
    BY <1>10 DEF OnSourceHup, OnSource, Open, Live, Events
  <2> QED
    BY <2>1 DEF Events, Lists, TypeOK
<1>11. CASE Flush
  <2>1. /\ pc = "flush" /\ pc' = "wait" /\ doomed' = <<>> /\ ended' = {} /\ cur = Nobody
        /\ UNCHANGED <<cur, evC, evS>>
    BY <1>11 DEF Flush, TypeOK
  <2> QED
    BY <2>1, EmptyIs DEF Events, Lists
<1>12. CASE UNCHANGED vars
  BY <1>1, <1>12 DEF vars
<1> QED
  BY <1>2, <1>3, <1>4, <1>5, <1>6, <1>7, <1>8, <1>9, <1>10, <1>11, <1>12
     DEF Next, Loop, OnEvent, Work

-----------------------------------------------------------------------------
(* Clients, sources and channels *)

\* A client without a source gets one that is there.
LEMMA AttachMembers ==
  ASSUME TypeOK, Lists, Members, cur \in Client, st[cur] = "request",
         NEW s \in Source, Attach(s), s \in Live', Live \subseteq Live',
         Live' \subseteq Live \cup {s}, timers' \subseteq timers
  PROVE  Members'
<1>1. src[cur] = Nobody /\ s # Nobody
  BY ControllerAssumption DEF Members
<1>2. /\ src' = [src EXCEPT ![cur] = s] /\ st' = [st EXCEPT ![cur] = "reply"]
      /\ members' = [members EXCEPT ![s] = @ \cup {cur}]
  BY DEF Attach
<1>3. \A c \in Client : src'[c] = Nobody <=> st'[c] \in {"none", "request", "answer"}
  BY <1>1, <1>2 DEF Members, TypeOK
<1>4. \A c \in Client : src'[c] # Nobody => src'[c] \in Live'
  BY <1>2 DEF Members, TypeOK
<1>5. \A t \in Source : members'[t] = {c \in Client : src'[c] = t}
  BY <1>1, <1>2, ControllerAssumption DEF Members, TypeOK
<1>6. \A t \in Live' : members'[t] # {}
  BY <1>2 DEF Members, TypeOK, Live
<1>7. timers' \subseteq Open'
  BY <1>2 DEF Members, Open, TypeOK
<1> QED
  BY <1>3, <1>4, <1>5, <1>6, <1>7 DEF Members

LEMMA MembersStep == TypeOK /\ Events /\ Lists /\ Members /\ OnePerUrl /\ [Next]_vars => Members'
<1> SUFFICES ASSUME TypeOK, Events, Lists, Members, OnePerUrl, [Next]_vars PROVE Members'
  OBVIOUS
<1> USE DEF loopVars, clientVars, sourceVars, connVars, procVars, roundVars
<1>1. CASE UNCHANGED <<st, src, members, pid>> /\ timers' \subseteq timers
  BY <1>1 DEF Members, Open, Live
<1>2. CASE World
  BY <1>1, <1>2 DEF World, PeerCloses, LastWriterEnds, ProcessEnds
<1>3. CASE EpollWait \/ Stop \/ EventsDone \/ Interrupt \/ Reap
  <2>1. OnAlrm => timers' \subseteq timers
    BY OnAlrmIs
  <2> QED
    BY <1>1, <1>3, <2>1 DEF EpollWait, Stop, EventsDone, Interrupt, Reap
<1>4. ASSUME NEW new \in SUBSET Client, OnListener(new) PROVE Members'
  <2>1. \A c \in Client : st'[c] = IF c \in new THEN "request" ELSE st[c]
    BY <1>4 DEF OnListener
  <2>2. UNCHANGED <<src, members, pid>> /\ timers' = timers \cup new /\ new \cap Open = {}
    BY <1>4 DEF OnListener
  <2> QED
    BY <2>1, <2>2 DEF Members, Open, Live
<1>5. ASSUME NEW c \in Client, OnClient(c) PROVE Members'
  BY <1>1, <1>5 DEF OnClient
<1>6. CASE Work
  <2>1. cur \in Client /\ cur \in Open
    BY <1>6, WorkIs
  <2>2. CASE ReadPart \/ Send
    BY <1>1, <2>2 DEF ReadPart, ReadEnds, Send
  <2>3. ASSUME \/ ReadOther \/ \E u \in Url, p \in Pid : ReadSpawnFails(u, p)
        PROVE  Members'
    <3>1. /\ st[cur] = "request" /\ st' = [st EXCEPT ![cur] = "answer"]
          /\ UNCHANGED <<src, members, pid, timers>>
      BY <2>3 DEF ReadOther, ReadSpawnFails, ReadEnds
    <3> QED
      BY <2>1, <3>1 DEF Members, Open, Live, TypeOK
  <2>4. ASSUME NEW u \in Url, ReadJoin(u) PROVE Members'
    <3>1. urls[u] \in Live
      BY <2>4 DEF ReadJoin, OnePerUrl
    <3> QED
      BY <2>1, <2>4, <3>1, AttachMembers DEF ReadJoin, ReadEnds, Live
  <2>5. ASSUME NEW u \in Url, NEW p \in Pid, NEW s \in Source, ReadSpawn(u, s, p) PROVE Members'
    <3>1. pid' = [pid EXCEPT ![s] = p] /\ s \notin Live /\ st[cur] = "request" /\ timers' = timers
      BY <2>5 DEF ReadSpawn, ReadEnds
    <3>2. s \in Live' /\ Live \subseteq Live' /\ Live' \subseteq Live \cup {s}
      BY <3>1, ControllerAssumption DEF Live, TypeOK
    <3> QED
      BY <2>1, <2>5, <3>1, <3>2, AttachMembers DEF ReadSpawn
  <2>6. CASE Write
    <3>1. UNCHANGED <<src, members, pid>> /\ timers' \subseteq timers
          /\ (st' = st \/ (st[cur] = "reply" /\ st' = [st EXCEPT ![cur] = "stream"]))
      BY <2>6 DEF Write, WriteNothing, WriteBlocks, WriteCloses, WriteReply
    <3> QED
      BY <2>1, <3>1 DEF Members, Open, Live, TypeOK
  <2> QED
    BY <1>6, <2>2, <2>3, <2>4, <2>5, <2>6 DEF Work
<1>7. ASSUME NEW s \in Source, OnSourceHup(s) \/ OnSource(s) PROVE Members'
  BY <1>1, <1>7 DEF OnSourceHup, OnSource
<1>8. CASE Flush
  <2>0. /\ Over \subseteq Live
        /\ Erased = {c \in Client : c \in ToSet(doomed) \/ src[c] \in Over}
        /\ Open' = Open \ Erased /\ Live' = Live \ Over
        /\ \A c \in Client \ Erased : st'[c] = st[c] /\ src'[c] = src[c]
        /\ \A c \in Client \cap Erased : st'[c] = "none" /\ src'[c] = Nobody
        /\ \A s \in Source \ Over : members'[s] = members[s] \ ToSet(doomed)
        /\ \A s \in Source \cap Over : members'[s] = {}
    BY <1>8, FlushIs
  <2>1. \A s \in Live \ Over : members[s] \ ToSet(doomed) # {}
    <3> SUFFICES ASSUME NEW s \in Live \ Over, members[s] \ ToSet(doomed) = {} PROVE FALSE
      OBVIOUS
    <3>1. PICK c \in members[s] : c \in ToSet(doomed)
      BY DEF Members, Live
    <3>2. s \in Source /\ c \in Client /\ src[c] = s /\ s # Nobody
      BY ControllerAssumption DEF Members, Live
    <3>3. src[c] \in Over
      BY <3>1, <3>2 DEF Over, Left
    <3> QED
      BY <3>2, <3>3
  <2>2. timers' = timers \ Erased
    BY <1>8 DEF Flush
  <2> HIDE DEF Erased, Over
  <2>3. \A c \in Client : src'[c] = Nobody <=> st'[c] \in {"none", "request", "answer"}
    BY <2>0 DEF Members
  <2>4. \A c \in Client : src'[c] # Nobody => src'[c] \in Live'
    BY <2>0 DEF Members
  <2>5. \A s \in Source : members'[s] = {c \in Client : src'[c] = s}
    BY <2>0, ControllerAssumption DEF Members
  <2>6. \A s \in Live' : members'[s] # {}
    BY <2>0, <2>1 DEF Live
  <2> QED
    BY <2>0, <2>2, <2>3, <2>4, <2>5, <2>6 DEF Members
<1>9. CASE UNCHANGED vars
  BY <1>1, <1>9 DEF vars
<1> QED
  BY <1>2, <1>3, <1>4, <1>5, <1>6, <1>7, <1>8, <1>9 DEF Next, Loop, OnEvent, Work

LEMMA UrlStep == TypeOK /\ Lists /\ Members /\ OnePerUrl /\ [Next]_vars => OnePerUrl'
<1> SUFFICES ASSUME TypeOK, Lists, Members, OnePerUrl, [Next]_vars PROVE OnePerUrl'
  OBVIOUS
<1> USE DEF loopVars, clientVars, sourceVars, connVars, procVars, roundVars
<1>1. CASE UNCHANGED <<pid, url, urls>>
  BY <1>1 DEF OnePerUrl, Live
<1>2. ASSUME NEW u \in Url, NEW p \in Pid, NEW s \in Source, ReadSpawn(u, s, p) PROVE OnePerUrl'
  <2>1. /\ pid' = [pid EXCEPT ![s] = p] /\ url' = [url EXCEPT ![s] = u]
        /\ urls' = [urls EXCEPT ![u] = s] /\ urls[u] = Nobody /\ s \notin Live
    BY <1>2 DEF ReadSpawn, NoSourceYet
  <2>2. Live' = Live \cup {s}
    BY <2>1, ControllerAssumption DEF Live, TypeOK
  <2>3. \A v \in Url : urls'[v] # Nobody => urls'[v] \in Live' /\ url'[urls'[v]] = v
    BY <2>1, <2>2, ControllerAssumption DEF OnePerUrl, TypeOK, Live
  <2>4. \A t \in Live' : url'[t] \in Url /\ urls'[url'[t]] = t
    BY <2>1, <2>2, ControllerAssumption DEF OnePerUrl, TypeOK, Live
  <2> QED
    BY <2>3, <2>4 DEF OnePerUrl
<1>3. CASE Flush
  <2>0. Over \subseteq Live /\ Live' = Live \ Over
        /\ \A s \in Source \ Over : url'[s] = url[s]
    BY <1>3, FlushIs
  <2>1. \A u \in Url : urls'[u] = IF \E s \in Over : url[s] = u THEN Nobody ELSE urls[u]
    BY <1>3 DEF Flush, UrlsLeft
  <2> HIDE DEF Over
  <2>2. \A u \in Url : urls'[u] # Nobody => urls'[u] \in Live' /\ url'[urls'[u]] = u
    BY <2>0, <2>1 DEF OnePerUrl, Live
  <2>3. \A s \in Live' : url'[s] \in Url /\ urls'[url'[s]] = s
    BY <2>0, <2>1 DEF OnePerUrl, Live
  <2> QED
    BY <2>2, <2>3 DEF OnePerUrl
<1>4. CASE World
  BY <1>1, <1>4 DEF World, PeerCloses, LastWriterEnds, ProcessEnds
<1>5. CASE EpollWait \/ Stop \/ EventsDone \/ Interrupt \/ Reap
  BY <1>1, <1>5 DEF EpollWait, Stop, EventsDone, Interrupt, Reap
<1>6. CASE OnEvent
  BY <1>1, <1>2, <1>6 DEF OnEvent, OnListener, OnClient, ReadPart, ReadOther, ReadJoin,
    ReadSpawnFails, Write, Send, OnSourceHup, OnSource
<1>7. CASE UNCHANGED vars
  BY <1>1, <1>7 DEF vars
<1> QED
  BY <1>3, <1>4, <1>5, <1>6, <1>7 DEF Next, Loop

\* The invariant the other proofs rest on.
Consistent == TypeOK /\ Events /\ Lists /\ Members /\ OnePerUrl

\* Whatever events come in a batch and whatever fails, no list, pointer or interest set names a
\* client or source that is gone, and who belongs to whom is the same from both sides.
THEOREM AlwaysConsistent == Spec => []Consistent
<1>1. Init => Consistent
  <2> SUFFICES ASSUME Init PROVE Events /\ Lists /\ Members /\ OnePerUrl
    BY InitType DEF Consistent
  <2>1. Live = {} /\ Open = {}
    BY DEF Init, Live, Open
  <2> QED
    BY <2>1, EmptyIs, ControllerAssumption DEF Init, Events, Lists, Members, OnePerUrl
<1>2. Consistent /\ [Next]_vars => Consistent'
  BY NextType, ListsStep, MembersStep, UrlStep DEF Consistent
<1> QED
  BY <1>1, <1>2, PTL DEF Spec

\* No pointer, event or list has anything that does not exist, nothing is erased twice, and a
\* channel has one source.
THEOREM NothingDangles == Spec => []NoDangling
<1>1. Consistent => NoDangling
  <2> SUFFICES ASSUME Consistent PROVE NoDangling
    OBVIOUS
  <2>1. \A s \in Source : members[s] = {c \in Open : src[c] = s}
    BY ControllerAssumption DEF Consistent, Members, Open
  <2>2. \A s \in Live : urls[url[s]] = s
    BY DEF Consistent, OnePerUrl
  <2>3. \A c \in Client : (evC[c] # {} \/ cur = c) => c \in Open
    BY ControllerAssumption DEF Consistent, Events, Lists
  <2> QED
    BY <2>1, <2>2, <2>3 DEF NoDangling, Consistent, Events, Lists, Members, OnePerUrl
<1> QED
  BY <1>1, AlwaysConsistent, PTL


-----------------------------------------------------------------------------
(* The promise to the clients *)

\* The channel each client has joined, and the channels that have a source.
Watching == [c \in Client |-> IF src[c] = Nobody THEN Nobody ELSE url[src[c]]]
OnAir == {u \in Url : urls[u] # Nobody}

LEMMA MappingIs ==
  /\ UNCHANGED (Channels!vars) <=> UNCHANGED <<Watching, OnAir>>
  /\ Channels!Next <=>
       \/ \E leaving \in SUBSET Client :
            /\ Watching' = [c \in Client |-> IF c \in leaving THEN Nobody ELSE Watching[c]]
            /\ OnAir' = {u \in OnAir : \E c \in Client : Watching'[c] = u}
       \/ \E c \in Client, u \in Url :
            /\ Watching[c] = Nobody /\ Watching' = [Watching EXCEPT ![c] = u]
            /\ \/ u \notin OnAir /\ OnAir' = OnAir \cup {u}
               \/ u \in OnAir /\ OnAir' = OnAir
       \/ Watching' = [c \in Client |-> Nobody] /\ OnAir' = {}
<1>1. UNCHANGED (Channels!vars) <=> UNCHANGED <<Watching, OnAir>>
  BY DEF Channels!vars, Watching, OnAir
<1> QED
  BY <1>1 DEF Channels!Next, Channels!Round, Channels!Start, Channels!Join, Channels!Close,
    Watching, OnAir

LEMMA ChannelInit == Init => Channels!Init
BY ControllerAssumption DEF Init, Channels!Init

\* Each step is one of the service's, or leaves it as it is.
LEMMA ChannelStep == Consistent /\ [Next]_vars => [Channels!Next]_(Channels!vars)
<1> SUFFICES ASSUME Consistent, [Next]_vars 
             PROVE  Channels!Next \/ UNCHANGED <<Watching, OnAir>>
  BY MappingIs
<1> USE DEF Consistent, loopVars, clientVars, sourceVars, connVars, procVars, roundVars
<1>1. CASE UNCHANGED <<src, url, urls>>
  BY <1>1 DEF Watching, OnAir
<1>2. CASE World
  BY <1>1, <1>2 DEF World, PeerCloses, LastWriterEnds, ProcessEnds
<1>3. CASE EpollWait \/ Stop \/ EventsDone \/ Interrupt \/ Reap
  BY <1>1, <1>3 DEF EpollWait, Stop, EventsDone, Interrupt, Reap
<1>4. ASSUME NEW u \in Url, ReadJoin(u) PROVE Channels!Next
  <2>1. /\ cur \in Client /\ src[cur] = Nobody /\ urls[u] \in Live /\ url[urls[u]] = u
        /\ urls[u] # Nobody
    BY <1>4, ControllerAssumption DEF ReadJoin, Members, TypeOK, OnePerUrl
  <2>2. src' = [src EXCEPT ![cur] = urls[u]] /\ UNCHANGED <<url, urls>>
    BY <1>4 DEF ReadJoin, Attach
  <2>3. Watching[cur] = Nobody /\ Watching' = [Watching EXCEPT ![cur] = u]
    BY <2>1, <2>2 DEF Watching, TypeOK
  <2>4. u \in OnAir /\ OnAir' = OnAir
    BY <2>1, <2>2 DEF OnAir
  <2> QED
    BY <2>1, <2>3, <2>4, MappingIs
<1>5. ASSUME NEW u \in Url, NEW p \in Pid, NEW s \in Source, ReadSpawn(u, s, p) PROVE Channels!Next
  <2>1. /\ cur \in Client /\ src[cur] = Nobody /\ s \notin Live /\ urls[u] = Nobody /\ s # Nobody
    BY <1>5, ControllerAssumption DEF ReadSpawn, NoSourceYet, Members, TypeOK
  <2>2. /\ src' = [src EXCEPT ![cur] = s] /\ url' = [url EXCEPT ![s] = u]
        /\ urls' = [urls EXCEPT ![u] = s]
    BY <1>5 DEF ReadSpawn, Attach
  <2>3. \A c \in Client : src[c] # Nobody => src[c] # s
    BY <2>1 DEF Members
  <2>4. Watching[cur] = Nobody /\ Watching' = [Watching EXCEPT ![cur] = u]
    BY <2>1, <2>2, <2>3 DEF Watching, TypeOK
  <2>5. u \notin OnAir /\ OnAir' = OnAir \cup {u}
    BY <2>1, <2>2 DEF OnAir, TypeOK
  <2> QED
    BY <2>1, <2>4, <2>5, MappingIs
<1>6. CASE Flush
  <2>0. /\ Over \subseteq Live /\ Live' = Live \ Over
        /\ Erased = {c \in Client : c \in ToSet(doomed) \/ src[c] \in Over}
        /\ \A c \in Client \ Erased : src'[c] = src[c]
        /\ \A c \in Client \cap Erased : src'[c] = Nobody
        /\ \A s \in Source \ Over : url'[s] = url[s]
    BY <1>6, FlushIs
  <2>1. \A u \in Url : urls'[u] = IF \E s \in Over : url[s] = u THEN Nobody ELSE urls[u]
    BY <1>6 DEF Flush, UrlsLeft
  <2>2. Members' /\ OnePerUrl' /\ TypeOK'
    BY MembersStep, UrlStep, NextType
  <2> HIDE DEF Over, Erased, Consistent
  <2>3. Consistent /\ Erased \in SUBSET Client
    BY <2>0 DEF Consistent
  <2>4. \A c \in Client \ Erased : src[c] # Nobody => src[c] \in Source \ Over
    BY <2>0, <2>3 DEF Consistent, Members, Live
  <2>5. Watching' = [c \in Client |-> IF c \in Erased THEN Nobody ELSE Watching[c]]
    BY <2>0, <2>4 DEF Watching
  <2>6. ASSUME NEW u \in OnAir, u \in OnAir' PROVE \E c \in Client : Watching'[c] = u
    <3>1. urls'[u] \in Live' /\ url'[urls'[u]] = u
      BY <2>2, <2>6 DEF OnePerUrl, OnAir
    <3>2. PICK c \in Client : src'[c] = urls'[u]
      BY <2>2, <3>1 DEF Members, Live
    <3>3. src'[c] # Nobody
      BY <3>1, <3>2, ControllerAssumption DEF Live
    <3> QED
      BY <3>1, <3>2, <3>3 DEF Watching
  <2>7. ASSUME NEW u \in Url, NEW c \in Client, Watching'[c] = u PROVE u \in OnAir'
    <3>1. src'[c] # Nobody /\ url'[src'[c]] = u
      BY <2>7, ControllerAssumption DEF Watching
    <3>2. src'[c] \in Live' /\ urls'[u] = src'[c]
      BY <2>2, <3>1 DEF Members, OnePerUrl
    <3> QED
      BY <3>1, <3>2 DEF OnAir
  <2>8. OnAir' \subseteq OnAir
    BY <2>1 DEF OnAir
  <2>9. OnAir' = {u \in OnAir : \E c \in Client : Watching'[c] = u}
    BY <2>6, <2>7, <2>8 DEF OnAir
  <2> QED
    BY <2>3, <2>5, <2>9, MappingIs
<1>7. CASE OnEvent
  <2>1. CASE \E u \in Url : ReadJoin(u)
    BY <1>4, <2>1
  <2>2. CASE \E u \in Url, p \in Pid, s \in Source : ReadSpawn(u, s, p)
    BY <1>5, <2>2
  <2> QED
    BY <1>1, <1>7, <2>1, <2>2 DEF OnEvent, OnListener, OnClient, ReadPart, ReadOther,
      ReadSpawnFails, Write, Send, OnSourceHup, OnSource
<1>8. CASE UNCHANGED vars
  BY <1>1, <1>8 DEF vars
<1> QED
  BY <1>2, <1>3, <1>6, <1>7, <1>8 DEF Next, Loop

\* The controller implements the service: a channel is on the air as long as it has viewers.
THEOREM ImplementsChannels == Spec => ChannelSpec
BY ChannelInit, ChannelStep, AlwaysConsistent, PTL DEF Spec, ChannelSpec, Channels!Spec

-----------------------------------------------------------------------------
(* The ends that epoll reports *)

\* Whatever is on the list of a round stays on it.
LEMMA ListGrows ==
  ASSUME TypeOK, NEW c \in Client, doomed' \in {doomed, Append(doomed, c)}
  PROVE  ToSet(doomed) \subseteq ToSet(doomed')
<1>1. ToSet(Append(doomed, c)) = ToSet(doomed) \cup {c}
  BY AppendIs DEF TypeOK
<1> QED
  BY <1>1

LEMMA ReportedStep == Consistent /\ Reported /\ [Next]_vars => Reported'
<1> SUFFICES ASSUME Consistent, Reported, [Next]_vars PROVE Reported'
  OBVIOUS
<1> USE DEF Consistent, loopVars, clientVars, sourceVars, connVars, procVars, roundVars
<1>1. CASE UNCHANGED <<evC, evS, told>>
  BY <1>1 DEF Reported
<1>2. CASE World
  BY <1>1, <1>2 DEF World, PeerCloses, LastWriterEnds, ProcessEnds
<1>3. CASE EpollWait
  <2>1. PICK seen \in SUBSET Ended :
          /\ told' = seen
          /\ \A c \in Client : c \in seen => "hup" \in evC'[c]
          /\ \A s \in Source : s \in seen => "hup" \in evS'[s]
    BY <1>3 DEF EpollWait, Event
  <2> QED
    BY <2>1 DEF Reported
<1>4. CASE Interrupt \/ Reap \/ Stop \/ EventsDone
  BY <1>1, <1>4 DEF Interrupt, Reap, Stop, EventsDone
<1>5. ASSUME NEW new \in SUBSET Client, OnListener(new) PROVE Reported'
  BY <1>5 DEF OnListener, Reported
<1>6. ASSUME NEW c \in Client, OnClient(c) PROVE Reported'
  <2>1. /\ evC' = [evC EXCEPT ![c] = {}] /\ evS' = evS /\ told' = told \ ToSet(doomed')
    BY <1>6 DEF OnClient
  <2>2. c \notin told'
    <3>1. CASE "hup" \in evC[c]
      <4>1. doomed' = Append(doomed, c)
        BY <1>6, <3>1 DEF OnClient, ToTrash
      <4>2. c \in ToSet(doomed')
        BY <4>1, AppendIs DEF TypeOK
      <4> QED
        BY <2>1, <4>2
    <3>2. CASE "hup" \notin evC[c]
      BY <2>1, <3>2 DEF Reported
    <3> QED
      BY <3>1, <3>2
  <2> QED
    BY <2>1, <2>2 DEF Reported, TypeOK
<1>7. CASE Work
  BY <1>1, <1>7, WorkIs
<1>8. ASSUME NEW s \in Source, OnSourceHup(s) \/ OnSource(s) PROVE Reported'
  <2>1. evC' = evC /\ evS' = [evS EXCEPT ![s] = {}] /\ told' \subseteq told /\ s \notin told'
    BY <1>8 DEF OnSourceHup, OnSource, Reported
  <2> QED
    BY <2>1 DEF Reported, TypeOK
<1>9. CASE Flush
  BY <1>9 DEF Flush, Reported
<1>10. CASE UNCHANGED vars
  BY <1>1, <1>10 DEF vars
<1> QED
  BY <1>2, <1>3, <1>4, <1>5, <1>6, <1>7, <1>8, <1>9, <1>10 DEF Next, Loop, OnEvent, Work

LEMMA AlwaysReported == Spec => []Reported
<1>1. Init => Reported
  BY DEF Init, Reported
<1> QED
  BY <1>1, ReportedStep, AlwaysConsistent, PTL DEF Spec

\* What epoll has reported as closed is gone when the round ends: the loop does not spin.
THEOREM RoundErasesEnded == Spec => RoundErases
<1>1. ASSUME Consistent, Reported, [Next]_vars, pc = "flush", pc' = "wait"
      PROVE  (told \cup ToSet(doomed) \cup ended) \cap (Open' \cup Live') = {}
  <2>1. Flush
    BY <1>1 DEF Next, Loop, OnEvent, World, PeerCloses, LastWriterEnds, ProcessEnds, EpollWait,
      Interrupt, Reap, Stop, EventsDone, OnListener, OnClient, ReadPart, ReadOther, ReadJoin,
      ReadSpawn, ReadSpawnFails, Write, WriteNothing, WriteBlocks, WriteCloses, WriteReply, Send,
      OnSourceHup, OnSource, vars, loopVars
  <2>2. /\ Erased = {c \in Client : c \in ToSet(doomed) \/ src[c] \in Over}
        /\ Open' = Open \ Erased /\ Live' = Live \ Over
    BY <1>1, <2>1, FlushIs DEF Consistent
  <2>3. ended \subseteq Over
    BY DEF Over
  <2> HIDE DEF Over, Erased
  <2>4. told = {}
    BY <1>1 DEF Reported, Consistent, Events, TypeOK
  <2>5. /\ Open \subseteq Client /\ Live \subseteq Source
        /\ ToSet(doomed) \subseteq Client /\ ended \subseteq Source
    BY <1>1 DEF Open, Live, Consistent, Lists
  <2> QED
    BY <2>2, <2>3, <2>4, <2>5, ControllerAssumption
<1> QED
  BY <1>1, AlwaysConsistent, AlwaysReported, PTL DEF Spec, RoundErases

-----------------------------------------------------------------------------
(* Time limits *)

LEMMA TimedStep == Consistent /\ Timed /\ [Next]_vars => Timed'
<1> SUFFICES ASSUME Consistent, Timed, [Next]_vars PROVE Timed'
  OBVIOUS
<1> USE DEF Consistent, loopVars, clientVars, sourceVars, connVars, procVars, roundVars
<1>1. CASE UNCHANGED <<st, timers, doomed>>
  BY <1>1 DEF Timed, Open
<1>2. CASE World
  BY <1>1, <1>2 DEF World, PeerCloses, LastWriterEnds, ProcessEnds
<1>3. CASE EpollWait \/ Stop \/ EventsDone
  BY <1>1, <1>3 DEF EpollWait, Stop, EventsDone
<1>4. CASE Interrupt \/ Reap
  <2>1. st' = st /\ doomed = <<>> /\ ToSet(doomed) = {}
    BY <1>4, EmptyIs DEF Interrupt, Reap, Lists
  <2>2. OnAlrm \/ UNCHANGED <<timers, doomed>>
    BY <1>4 DEF Interrupt, Reap
  <2>3. OnAlrm => timers \subseteq timers' \cup ToSet(doomed')
    BY <2>1, OnAlrmIs
  <2> QED
    BY <2>1, <2>2, <2>3 DEF Timed, Open
<1>5. ASSUME NEW new \in SUBSET Client, OnListener(new) PROVE Timed'
  BY <1>5 DEF OnListener, Timed, Open
<1>6. ASSUME NEW c \in Client, OnClient(c) PROVE Timed'
  <2>1. UNCHANGED <<st, timers>> /\ doomed' \in {doomed, Append(doomed, c)}
    BY <1>6 DEF OnClient, ToTrash
  <2>2. ToSet(doomed) \subseteq ToSet(doomed')
    BY <2>1, ListGrows
  <2> QED
    BY <2>1, <2>2 DEF Timed, Open
<1>7. CASE Work
  <2>1. /\ cur \in Client /\ cur \in Open /\ Open' = Open
        /\ doomed' \in {doomed, Append(doomed, cur)}
        /\ \A c \in Client \ {cur} : st'[c] = st[c]
        /\ timers' \in {timers, timers \ {cur}}
    BY <1>7, WorkIs
  <2>2. ToSet(doomed) \subseteq ToSet(doomed')
    BY <2>1, ListGrows
  <2>3. \/ timers' = timers /\ (st[cur] = "stream" => st'[cur] = "stream")
        \/ st'[cur] = "stream"
    <3>1. CASE ReadPart \/ Send
      BY <3>1 DEF ReadPart, ReadEnds, Send
    <3>2. CASE ReadOther \/ \E u \in Url, p \in Pid : ReadSpawnFails(u, p)
      BY <3>2 DEF ReadOther, ReadSpawnFails, ReadEnds
    <3>3. CASE \/ \E u \in Url : ReadJoin(u)
               \/ \E u \in Url, p \in Pid, s \in Source : ReadSpawn(u, s, p)
      BY <3>3 DEF ReadJoin, ReadSpawn, ReadEnds
    <3>4. CASE Write
      BY <2>1, <3>4 DEF Write, WriteNothing, WriteBlocks, WriteCloses, WriteReply, TypeOK
    <3> QED
      BY <1>7, <3>1, <3>2, <3>3, <3>4 DEF Work
  <2>4. st'[cur] # "stream" => cur \in timers' \cup ToSet(doomed')
    BY <2>1, <2>2, <2>3 DEF Timed
  <2>5. \A c \in Open \ {cur} : st'[c] # "stream" => c \in timers' \cup ToSet(doomed')
    BY <2>1, <2>2 DEF Timed, Open
  <2> QED
    BY <2>1, <2>4, <2>5 DEF Timed
<1>8. ASSUME NEW s \in Source, OnSourceHup(s) \/ OnSource(s) PROVE Timed'
  BY <1>1, <1>8 DEF OnSourceHup, OnSource
<1>9. CASE Flush
  <2>1. /\ Erased = {c \in Client : c \in ToSet(doomed) \/ src[c] \in Over}
        /\ Open' = Open \ Erased
        /\ \A c \in Client \ Erased : st'[c] = st[c]
    BY <1>9, FlushIs
  <2>2. timers' = timers \ Erased
    BY <1>9 DEF Flush
  <2> HIDE DEF Erased, Over
  <2> QED
    BY <2>1, <2>2 DEF Timed, Open
<1>10. CASE UNCHANGED vars
  BY <1>1, <1>10 DEF vars
<1> QED
  BY <1>2, <1>3, <1>4, <1>5, <1>6, <1>7, <1>8, <1>9, <1>10 DEF Next, Loop, OnEvent, Work

\* Until it gets its stream a client has a time limit, or is about to be erased.
THEOREM AlwaysTimed == Spec => []TimedUntilServed
<1>1. Init => Timed
  BY DEF Init, Timed, Open
<1>2. Timed => TimedUntilServed
  BY DEF Timed, TimedUntilServed
<1> QED
  BY <1>1, <1>2, TimedStep, AlwaysConsistent, PTL DEF Spec

-----------------------------------------------------------------------------
(* Processes *)

LEMMA OwnStep == Consistent /\ Reported /\ OwnProcess /\ [Next]_vars => OwnProcess'
<1> SUFFICES ASSUME Consistent, Reported, OwnProcess, [Next]_vars,
                    NEW s \in Live', url'[s] \notin Detaching
             PROVE  /\ Owns(s)' /\ life'[pid'[s]] = "zombie" /\ pc' # "stop" => eof'[s]
                    /\ ~Owns(s)' => Stale(s)'
  BY DEF OwnProcess
<1> DEFINE Good == /\ Owns(s)' /\ life'[pid'[s]] = "zombie" /\ pc' # "stop" => eof'[s]
                   /\ ~Owns(s)' => Stale(s)'
<1> USE DEF Consistent, loopVars, clientVars, sourceVars, connVars, procVars, roundVars
<1>0. s \in Source /\ (s \in Live => pid[s] \in Pid)
  BY DEF Live, TypeOK
<1>1. ASSUME s \in Live, url[s] \notin Detaching
      PROVE  /\ Owns(s) /\ life[pid[s]] = "zombie" /\ pc # "stop" => eof[s]
             /\ ~Owns(s) => Stale(s)
  BY <1>1 DEF OwnProcess
<1>2. ASSUME UNCHANGED <<url, pid>> PROVE s \in Live /\ url[s] \notin Detaching
  BY <1>2 DEF Live
<1>3. CASE /\ UNCHANGED <<url, pid, writes, life, eof, forked, more>>
           /\ pc' = pc \/ {pc, pc'} \subseteq {"next", "read", "write", "send"}
           /\ pc # "stop" /\ (s \in told => s \in told' \cup ended') /\ ended \subseteq ended'
  BY <1>1, <1>2, <1>3 DEF Owns, Stale
<1>4. CASE World
  <2>1. ASSUME NEW c \in Client, PeerCloses(c) PROVE Good
    BY <1>3, <1>4, <2>1 DEF PeerCloses, World
  <2>2. ASSUME NEW t \in Source, LastWriterEnds(t) PROVE Good
    <3>1. /\ UNCHANGED <<url, pid, writes, life, pc, told, ended, more, forked>>
          /\ eof[s] => eof'[s]
      BY <1>0, <2>2 DEF LastWriterEnds, TypeOK
    <3> QED
      BY <1>1, <1>2, <3>1 DEF Owns, Stale
  <2>3. ASSUME NEW p \in Pid, ProcessEnds(p) PROVE Good
    <3>1. /\ life' = [life EXCEPT ![p] = "zombie"] /\ life[p] = "run"
          /\ UNCHANGED <<pid, url, writes, pc, told, ended, more, forked>> /\ pc # "stop"
          /\ eof[s] => eof'[s]
      BY <1>0, <1>4, <2>3 DEF ProcessEnds, World, TypeOK
    <3>2. writes[p] = s /\ url[s] \notin Detaching => eof'[s]
      BY <1>0, <2>3, ControllerAssumption DEF ProcessEnds, TypeOK
    <3>3. \A q \in Pid : life'[q] = IF q = p THEN "zombie" ELSE life[q]
      BY <3>1 DEF TypeOK
    <3>4. s \in Live /\ url[s] \notin Detaching /\ pid[s] \in Pid
      BY <1>0, <1>2, <3>1
    <3> QED
      BY <1>1, <3>1, <3>2, <3>3, <3>4 DEF Owns, Stale
  <2> QED
    BY <1>4, <2>1, <2>2, <2>3 DEF World
<1>5. CASE EpollWait
  <2>1. /\ pc = "wait" /\ pc' = "next" /\ UNCHANGED <<url, pid, writes, life, eof, forked, ended>>
        /\ more' \/ told' = Ended
    BY <1>5 DEF EpollWait
  <2>2. eof[s] => s \in Ended
    BY <1>2, <2>1 DEF Ended
  <2> QED
    BY <1>1, <1>2, <2>1, <2>2 DEF Owns, Stale
<1>6. CASE EventsDone
  <2>1. /\ pc = "next" /\ pc' = "flush"
        /\ UNCHANGED <<url, pid, writes, life, eof, forked, ended, told, more>>
        /\ \A t \in Source : evS[t] = {}
    BY <1>6 DEF EventsDone
  <2>2. s \notin told
    BY <1>0, <2>1 DEF Reported
  <2> QED
    BY <1>1, <1>2, <2>1, <2>2 DEF Owns, Stale
<1>7. CASE Interrupt
  <2>1. UNCHANGED <<url, pid, eof, life, writes, forked>> /\ pc = "wait" /\ Ended = {}
    BY <1>7 DEF Interrupt
  <2>2. s \in Live /\ ~eof[s]
    BY <1>2, <2>1 DEF Ended
  <2> QED
    BY <1>1, <1>2, <2>1, <2>2 DEF Owns, Stale
<1>8. CASE Reap
  <2>1. /\ UNCHANGED <<url, pid, eof>> /\ pc = "reap" /\ pc' = "flush"
        /\ \A p \in Pid : life'[p] = IF life[p] = "zombie" THEN "free" ELSE life[p]
        /\ \A p \in Pid : life[p] # "zombie" => writes'[p] = writes[p]
    BY <1>8 DEF Reap
  <2>2. s \in Live /\ url[s] \notin Detaching /\ pid[s] \in Pid
    BY <1>0, <1>2, <2>1
  <2>3. Owns(s) /\ (life[pid[s]] = "zombie" => eof[s])
    BY <1>1, <2>1, <2>2 DEF Stale
  <2> QED
    BY <2>1, <2>2, <2>3 DEF Owns, Stale, TypeOK
<1>9. CASE Stop
  <2>1. /\ UNCHANGED <<url, pid, eof, writes, forked>> /\ pc = "wait" /\ pc' = "stop"
        /\ \A p \in Pid : life'[p] = IF life[p] = "run" THEN "zombie" ELSE life[p]
    BY <1>9 DEF Stop
  <2> QED
    BY <1>0, <1>1, <1>2, <2>1 DEF Owns, Stale
<1>10. ASSUME NEW u \in Url, NEW p \in Pid, NEW t \in Source, ReadSpawn(u, t, p) PROVE Good
  <2>1. /\ pid' = [pid EXCEPT ![t] = p] /\ url' = [url EXCEPT ![t] = u] /\ t \notin Live
        /\ life[p] = "free" /\ life' = [life EXCEPT ![p] = "run"]
        /\ writes' = [writes EXCEPT ![p] = t] /\ pc = "read" /\ pc' \in {"next", "write"}
        /\ UNCHANGED <<eof, told, more, ended>> /\ forked' = forked \cup {p}
    BY <1>10 DEF ReadSpawn, ReadEnds, ToTrash
  <2>2. CASE s = t
    BY <2>1, <2>2 DEF Owns, TypeOK
  <2>3. CASE s # t
    <3>1. /\ s \in Live /\ url[s] \notin Detaching /\ pid'[s] = pid[s] /\ pid[s] \in Pid
      BY <1>0, <2>1, <2>3 DEF Live, TypeOK
    <3>2. CASE pid[s] = p
      BY <1>1, <2>1, <2>3, <3>1, <3>2 DEF Owns, Stale, TypeOK
    <3>3. CASE pid[s] # p
      <4>1. life'[pid[s]] = life[pid[s]] /\ writes'[pid[s]] = writes[pid[s]]
        BY <2>1, <3>1, <3>3 DEF TypeOK
      <4> QED
        BY <1>1, <2>1, <3>1, <4>1 DEF Owns, Stale
    <3> QED
      BY <3>2, <3>3
  <2> QED
    BY <2>2, <2>3
<1>11. ASSUME NEW u \in Url, NEW p \in Pid, ReadSpawnFails(u, p) PROVE Good
  <2>1. /\ UNCHANGED <<pid, url, writes, eof, told, more, ended>> /\ pc = "read"
        /\ pc' \in {"next", "write"} /\ life[p] = "free" /\ forked' = forked \cup {p}
        /\ \A q \in Pid : life'[q] = IF q = p THEN "run" ELSE life[q]
    BY <1>11 DEF ReadSpawnFails, ReadEnds, ToTrash, TypeOK
  <2>2. s \in Live /\ url[s] \notin Detaching /\ pid[s] \in Pid
    BY <1>0, <1>2, <2>1
  <2> QED
    BY <1>1, <2>1, <2>2 DEF Owns, Stale
<1>12. CASE OnEvent
  <2>1. ASSUME NEW new \in SUBSET Client, OnListener(new) PROVE Good
    BY <1>3, <2>1 DEF OnListener
  <2>2. ASSUME NEW c \in Client, OnClient(c) PROVE Good
    <3>1. doomed' \in Seq(Client)
      BY NextType DEF TypeOK
    <3>2. ToSet(doomed') \cap Source = {}
      BY <3>1, ControllerAssumption DEF ToSet
    <3> QED
      BY <1>0, <1>3, <2>2, <3>2 DEF OnClient, ToTrash
  <2>3. CASE ReadPart \/ ReadOther \/ \E u \in Url : ReadJoin(u)
    BY <1>3, <2>3 DEF ReadPart, ReadOther, ReadJoin, ReadEnds, ToTrash
  <2>4. CASE Write \/ Send
    BY <1>3, <2>4 DEF Write, WriteNothing, WriteBlocks, WriteCloses, WriteReply, WatchAgain,
      ToTrash, Send
  <2>5. ASSUME NEW t \in Source, OnSourceHup(t) \/ OnSource(t) PROVE Good
    BY <1>3, <2>5 DEF OnSourceHup, OnSource
  <2> QED
    BY <1>10, <1>11, <1>12, <2>1, <2>2, <2>3, <2>4, <2>5 DEF OnEvent
<1>13. CASE Flush
  <2>0. /\ Over \subseteq Live /\ Live' = Live \ Over /\ ended \subseteq Over
        /\ \A t \in Source \ Over : pid'[t] = pid[t] /\ url'[t] = url[t]
    BY <1>13, FlushIs DEF Over
  <2>1. /\ \A p \in Pid : life'[p] = IF p \in Killed THEN "zombie" ELSE life[p]
        /\ \A p \in Killed : life[p] = "run"
        /\ \A p \in Pid : writes'[p] = IF writes[p] \in Over THEN Nobody ELSE writes[p]
        /\ eof'[s] = (s \notin Over /\ (eof[s] \/ CutOff(s)))
        /\ pc = "flush" /\ pc' = "wait" /\ (more => forked' = forked)
    BY <1>0, <1>13 DEF Flush, Killed
  <2> HIDE DEF Over
  <2>2. /\ s \in Live /\ s \notin Over /\ pid'[s] = pid[s] /\ url[s] \notin Detaching
        /\ pid[s] \in Pid
    BY <1>0, <2>0
  <2>3. CASE Owns(s)
    <3>1. pid[s] \in Killed => CutOff(s)
      BY <2>2, <2>3 DEF CutOff, Owns
    <3> QED
      BY <1>1, <2>1, <2>2, <2>3, <3>1 DEF Owns
  <2>4. CASE ~Owns(s)
    <3>1. /\ eof'[s] /\ (life[pid[s]] = "free" \/ (more /\ pid[s] \in forked))
      BY <1>1, <2>0, <2>1, <2>2, <2>4 DEF Stale
    <3> QED
      BY <2>1, <2>2, <3>1 DEF Stale
  <2> QED
    BY <2>3, <2>4
<1>14. CASE UNCHANGED vars
  <2>1. UNCHANGED <<url, pid, writes, life, eof, forked, more, pc, told, ended>>
    BY <1>14 DEF vars
  <2> QED
    BY <1>1, <1>2, <2>1 DEF Owns, Stale
<1> QED
  BY <1>4, <1>5, <1>6, <1>7, <1>8, <1>9, <1>12, <1>13, <1>14 DEF Next, Loop

\* Flush kills by the pid that fork returned, which on_chld does not take back: that is the
\* source's own process or its zombie, or else the process has ended and been reaped, and only
\* one that was forked since can have the pid.
THEOREM AlwaysKillsOnlyNew == Spec => []KillsOnlyNew
<1>1. Init => OwnProcess
  BY DEF Init, OwnProcess, Live
<1>2. OwnProcess => KillsOnlyNew
  BY DEF OwnProcess, KillsOnlyNew, Stale
<1> QED
  BY <1>1, <1>2, OwnStep, AlwaysConsistent, AlwaysReported, PTL DEF Spec

-----------------------------------------------------------------------------
(* What clients are watched for *)

\* A client that is not at work: it can be written to as far as is known, or it is watched;
\* and what can be written to has nothing left to be sent.
LEMMA WatchedStep == Consistent /\ Watched /\ [Next]_vars => Watched'
<1> SUFFICES ASSUME Consistent, Watched, [Next]_vars PROVE Watched'
  OBVIOUS
<1> USE DEF Consistent, loopVars, clientVars, sourceVars, connVars, procVars, roundVars
<1>1. CASE /\ UNCHANGED <<st, pollout, armed, behind, gone, cur, doomed>>
           /\ pc' = "send" => pc = "send"
  BY <1>1 DEF Watched, Open
<1>2. CASE World
  <2>1. ASSUME NEW c \in Client, PeerCloses(c) PROVE Watched'
    BY <2>1 DEF PeerCloses, Watched, Open, TypeOK
  <2> QED
    BY <1>1, <1>2, <2>1 DEF World, LastWriterEnds, ProcessEnds
<1>3. CASE EpollWait \/ Stop \/ EventsDone
  BY <1>1, <1>3 DEF EpollWait, Stop, EventsDone
<1>4. CASE Interrupt \/ Reap
  <2>1. ToSet(doomed) = {}
    BY <1>4, EmptyIs DEF Interrupt, Reap, Lists
  <2>2. UNCHANGED <<st, pollout, armed, behind, gone, cur>> /\ pc' \in {"reap", "flush"}
    BY <1>4 DEF Interrupt, Reap
  <2> QED
    BY <2>1, <2>2 DEF Watched, Open
<1>5. ASSUME NEW new \in SUBSET Client, OnListener(new) PROVE Watched'
  <2>1. /\ pc' = "next" /\ UNCHANGED <<pollout, behind, gone, cur, doomed>> /\ new \cap Open = {}
        /\ \A c \in Client : st'[c] = IF c \in new THEN "request" ELSE st[c]
        /\ \A c \in Client : armed'[c] = (c \in new \/ armed[c])
    BY <1>5 DEF OnListener
  <2>2. Open' \subseteq Open \cup new
    BY <2>1 DEF Open
  <2>3. \A c \in new : st'[c] = "request" /\ armed'[c]
    BY <2>1
  <2>4. \A c \in Open \ new : UNCHANGED <<st[c], pollout[c], armed[c], behind[c], gone[c]>>
    BY <2>1 DEF Open, TypeOK
  <2> QED
    BY <2>1, <2>2, <2>3, <2>4 DEF Watched
<1>6. ASSUME NEW c \in Client, OnClient(c) PROVE Watched'
  <2>1. /\ pc' # "send" /\ UNCHANGED <<st, armed, behind, gone>> /\ cur = Nobody
        /\ \A d \in Client \ {c} : pollout'[d] = pollout[d]
        /\ \/ cur' = c /\ doomed' = doomed
           \/ cur' = Nobody /\ doomed' = Append(doomed, c)
    BY <1>6 DEF OnClient, ToTrash, TypeOK
  <2>2. /\ ToSet(doomed) \subseteq ToSet(doomed')
        /\ cur' = c \/ c \in ToSet(doomed')
    <3>1. ToSet(Append(doomed, c)) = ToSet(doomed) \cup {c}
      BY AppendIs DEF TypeOK
    <3> QED
      BY <2>1, <3>1
  <2> QED
    BY <2>1, <2>2, ControllerAssumption DEF Watched, Open
<1>7. CASE Work
  <2>0. /\ pc \in {"read", "write", "send"} /\ cur \in Client /\ cur \in Open
        /\ gone' = gone /\ Open' = Open
        /\ \/ pc' \in {"write", "send"} /\ cur' = cur /\ doomed' = doomed
           \/ pc' = "next" /\ cur' = Nobody /\ doomed' \in {doomed, Append(doomed, cur)}
        /\ \A c \in Client \ {cur} :
             /\ st'[c] = st[c] /\ src'[c] = src[c] /\ pollout'[c] = pollout[c]
             /\ behind'[c] = behind[c] /\ armed'[c] = armed[c]
    BY <1>7, WorkIs
  <2>1. ToSet(doomed) \subseteq ToSet(doomed')
    BY <2>0, ListGrows
  <2>2. \A c \in Open' \ {cur} : c \notin ToSet(doomed') =>
          /\ pollout'[c] \/ armed'[c]
          /\ (behind'[c] \/ st'[c] \in {"answer", "reply"}) /\ st'[c] # "request" /\ ~gone'[c]
               => ~pollout'[c]
    BY <2>0, <2>1 DEF Watched, Open
  <2>3. ASSUME cur \notin ToSet(doomed'), cur' # cur
        PROVE  /\ pollout'[cur] \/ armed'[cur]
               /\ (behind'[cur] \/ st'[cur] \in {"answer", "reply"}) /\ st'[cur] # "request"
                  /\ ~gone'[cur] => ~pollout'[cur]
    <3>1. /\ doomed' = doomed /\ pc' = "next"
          /\ Append(doomed, cur) # doomed
      <4>1. cur \in ToSet(Append(doomed, cur))
        BY <2>0, AppendIs DEF TypeOK
      <4> QED
        BY <2>0, <2>3, <4>1
    <3>2. CASE Send
      <4>1. st[cur] = "stream" /\ pollout[cur] /\ pc = "send" /\ st' = st
        BY <3>2 DEF Send, Watched
      <4>2. PICK stuck \in SUBSET ({cur} \cap {c \in Client : behind[c]}) :
              \E drained \in SUBSET (({cur} \cap {c \in Client : behind[c]}) \ stuck) :
                 /\ Outcome({cur} \cap {c \in Client : behind[c]}, stuck, drained)
                 /\ FlushBuffers({cur}, {}, stuck, drained)
        BY <3>2 DEF Send
      <4>3. PICK drained \in SUBSET (({cur} \cap {c \in Client : behind[c]}) \ stuck) :
                 /\ Outcome({cur} \cap {c \in Client : behind[c]}, stuck, drained)
                 /\ FlushBuffers({cur}, {}, stuck, drained)
        BY <4>2
      <4>4. /\ pollout'[cur] = (pollout[cur] /\ cur \notin stuck)
            /\ armed'[cur] = (cur \in stuck)
            /\ behind'[cur] = (behind[cur] /\ cur \notin drained)
        BY <2>0, <4>3 DEF FlushBuffers
      <4>5. behind[cur] => cur \in stuck \/ cur \in drained \/ gone[cur]
        BY <2>0, <4>3 DEF Outcome
      <4> QED
        BY <2>0, <4>1, <4>4, <4>5
    <3>3. CASE Write
      <4>1. /\ cur' = Nobody /\ pc = "write" /\ UNCHANGED <<behind>>
        BY <2>0, <2>3, <3>3 DEF Write, WriteNothing, WriteBlocks, WriteCloses, WriteReply
      <4>2. CASE WriteNothing
        <5>1. /\ UNCHANGED <<st, pollout>> /\ armed' = [armed EXCEPT ![cur] = ~pollout[cur]]
              /\ ~(pollout[cur] /\ st[cur] \in {"answer", "reply", "stream"})
          BY <3>1, <4>2 DEF WriteNothing, WatchAgain
        <5>2. armed'[cur] = ~pollout[cur] /\ st[cur] # "none"
          BY <2>0, <5>1 DEF TypeOK, Open
        <5>3. pollout[cur] => st[cur] = "request"
          BY <2>0, <5>1, <5>2 DEF TypeOK
        <5> QED
          BY <5>1, <5>2, <5>3
      <4>3. CASE WriteBlocks
        <5>1. /\ pollout' = [pollout EXCEPT ![cur] = FALSE]
              /\ armed' = [armed EXCEPT ![cur] = TRUE]
          BY <4>3 DEF WriteBlocks, WatchAgain
        <5> QED
          BY <2>0, <5>1 DEF TypeOK
      <4>4. CASE WriteCloses
        BY <3>1, <4>4 DEF WriteCloses, ToTrash
      <4>5. CASE WriteReply
        BY <3>1, <4>5 DEF WriteReply
      <4> QED
        BY <3>3, <4>2, <4>3, <4>4, <4>5 DEF Write
    <3>4. CASE ReadEnds
      BY <3>1, <2>3, <3>4 DEF ReadEnds, ToTrash
    <3> QED
      BY <1>7, <3>2, <3>3, <3>4 DEF Work, ReadPart, ReadOther, ReadJoin, ReadSpawn, ReadSpawnFails
  <2>4. ASSUME pc' = "send" PROVE st'[cur'] = "stream" /\ pollout'[cur']
    <3>1. Write /\ cur' = cur
      BY <1>7, <2>0, <2>4 DEF Work, ReadPart, ReadOther, ReadJoin, ReadSpawn, ReadSpawnFails,
        ReadEnds, ToTrash, Send
    <3>2. CASE WriteNothing
      BY <2>4, <3>1, <3>2 DEF WriteNothing, WatchAgain
    <3>3. CASE WriteReply
      BY <2>0, <3>1, <3>3 DEF WriteReply, TypeOK
    <3> QED
      BY <2>4, <3>1, <3>2, <3>3 DEF Write, WriteBlocks, WriteCloses, WatchAgain, ToTrash
  <2> QED
    BY <2>2, <2>3, <2>4 DEF Watched
<1>8. ASSUME NEW s \in Source, OnSourceHup(s) PROVE Watched'
  BY <1>1, <1>8 DEF OnSourceHup
<1>9. ASSUME NEW s \in Source, OnSource(s) PROVE Watched'
  <2> DEFINE served == {c \in members[s] : pollout[c] /\ st[c] = "stream"}
  <2>1. PICK stuck \in SUBSET served : \E drained \in SUBSET (served \ stuck) :
          Outcome(served, stuck, drained) /\ FlushBuffers({}, members[s], stuck, drained)
    BY <1>9 DEF OnSource
  <2>2. PICK drained \in SUBSET (served \ stuck) :
          Outcome(served, stuck, drained) /\ FlushBuffers({}, members[s], stuck, drained)
    BY <2>1
  <2>3. \A c \in Client :
          /\ pollout'[c] = (pollout[c] /\ c \notin stuck)
          /\ armed'[c] = (armed[c] \/ c \in stuck)
          /\ behind'[c] = ((behind[c] \/ c \in members[s]) /\ c \notin drained)
    BY <2>2 DEF FlushBuffers
  <2>4. UNCHANGED <<pc, cur, st, gone, doomed>> /\ pc = "next" /\ cur = Nobody
    BY <1>9, ControllerAssumption DEF OnSource, TypeOK
  <2>5. ASSUME NEW c \in Open, c \notin ToSet(doomed)
        PROVE  /\ pollout'[c] \/ armed'[c]
               /\ (behind'[c] \/ st[c] \in {"answer", "reply"}) /\ st[c] # "request" /\ ~gone[c]
                    => ~pollout'[c]
    <3>1. /\ c \in Client /\ c # cur
          /\ pollout[c] \/ armed[c]
          /\ (behind[c] \/ st[c] \in {"answer", "reply"}) /\ st[c] # "request" /\ ~gone[c]
               => ~pollout[c]
      BY <2>4, <2>5, ControllerAssumption DEF Watched, Open
    <3>2. CASE c \in served
      <4>1. c \in stuck \/ c \in drained \/ gone[c]
        BY <2>2, <3>2 DEF Outcome
      <4> QED
        BY <2>3, <3>1, <3>2, <4>1
    <3>3. CASE c \in members[s] /\ c \notin served
      <4>1. st[c] \in {"reply", "stream"}
        <5>1. src[c] = s /\ s # Nobody
          BY <3>1, <3>3, ControllerAssumption DEF Members
        <5>2. st[c] \notin {"none", "request", "answer"}
          BY <3>1, <5>1 DEF Members
        <5> QED
          BY <3>1, <5>2 DEF TypeOK
      <4>2. c \notin stuck /\ c \notin drained
        BY <3>3
      <4> QED
        BY <2>3, <3>1, <3>3, <4>1, <4>2
    <3>4. CASE c \notin members[s]
      BY <2>3, <3>1, <3>4
    <3> QED
      BY <3>2, <3>3, <3>4
  <2> QED
    BY <2>4, <2>5 DEF Watched, Open
<1>10. CASE Flush
  <2>1. /\ Erased = {c \in Client : c \in ToSet(doomed) \/ src[c] \in Over}
        /\ Open' = Open \ Erased
        /\ \A c \in Client \ Erased :
              /\ st'[c] = st[c] /\ src'[c] = src[c] /\ pollout'[c] = pollout[c]
              /\ gone'[c] = gone[c] /\ armed'[c] = armed[c] /\ behind'[c] = behind[c]
    BY <1>10, FlushIs
  <2>2. cur = Nobody /\ cur' = cur /\ pc' = "wait"
    BY <1>10 DEF Flush, TypeOK
  <2> HIDE DEF Erased, Over
  <2> QED
    BY <2>1, <2>2, ControllerAssumption DEF Watched, Open
<1>11. CASE UNCHANGED vars
  BY <1>1, <1>11 DEF vars
<1> QED
  BY <1>2, <1>3, <1>4, <1>5, <1>6, <1>7, <1>8, <1>9, <1>10, <1>11 DEF Next, Loop, OnEvent, Work

\* While the loop waits, whoever has something left to be sent is watched until it can be
\* written to.
THEOREM NobodyStalls == Spec => []NoStall
<1>1. Init => Watched
  BY DEF Init, Watched, Open
<1>2. Consistent /\ Watched => NoStall
  <2> SUFFICES ASSUME Consistent, Watched, pc = "wait", NEW c \in Open
               PROVE  (behind[c] \/ st[c] \in {"answer", "reply"}) /\ st[c] # "request"
                        /\ ~gone[c] => ~pollout[c] /\ armed[c]
    BY DEF NoStall
  <2>1. c # cur /\ c \notin ToSet(doomed)
    BY EmptyIs, ControllerAssumption DEF Consistent, Lists, TypeOK, Open
  <2> QED
    BY <2>1 DEF Watched
<1> QED
  BY <1>1, <1>2, WatchedStep, AlwaysConsistent, PTL DEF Spec
================================================================================
