-------------------------- MODULE StreamServerProofs --------------------------
(***************************************************************************)
(* Theorems about StreamServer, for any finite set of pids, any set of     *)
(* streams and any bounds: type correctness, the accounting of references, *)
(* processes and directories, that no dead child is forgotten, and that    *)
(* the supervisor implements the viewer service.                           *)
(***************************************************************************)
EXTENDS StreamServer, FiniteSetTheorems, TLAPS

-----------------------------------------------------------------------------
(* Type correctness *)

LEMMA InitType == Init => TypeOK
<1> SUFFICES ASSUME Init PROVE TypeOK
  OBVIOUS
<1>1. streams \in [Url -> [nref : Nat, pid : Pid \cup {NoProc}]]
  BY DEF Init, NoEntry
<1>2. backlog \in 0 .. Backlog /\ mishaps \in 0 .. MaxMishaps
  BY ConstantAssumption DEF Init
<1>3. inbox \in Seq(Addref)
  BY DEF Init
<1>4. /\ pc \in Control
      /\ svReady \in BOOLEAN
      /\ quit \in BOOLEAN
      /\ sigchld \in BOOLEAN
      /\ dirs \in SUBSET Url
      /\ swept \in SUBSET Pid
      /\ late \in SUBSET Url
      /\ orphan \in SUBSET Url
  BY DEF Init, Control
<1>5. /\ clients \in [Pid -> Url \cup {NoStream}]
      /\ life \in [Pid -> {"free", "run", "zombie"}]
      /\ phase \in [Pid -> WorkerPhase \cup ProducerPhase \cup {"none"}]
      /\ job \in [Pid -> Url \cup {NoStream}]
      /\ ref \in [Pid -> {"none", "queued", "counted", "dropped"}]
  BY DEF Init
<1> QED
  BY <1>1, <1>2, <1>3, <1>4, <1>5 DEF TypeOK, HasJob, Init

\* A fork keeps the types of the process table.
LEMMA ForkType ==
  ASSUME TypeOK, NEW p \in Pid,
         NEW ph \in WorkerPhase \cup ProducerPhase, NEW u \in Url \cup {NoStream},
         ph = "request" \/ u \in Url,
         Fork(p, ph, u)
  PROVE  /\ life' \in [Pid -> {"free", "run", "zombie"}]
         /\ phase' \in [Pid -> WorkerPhase \cup ProducerPhase \cup {"none"}]
         /\ job' \in [Pid -> Url \cup {NoStream}]
         /\ HasJob'
  BY DEF TypeOK, Fork, HasJob

\* Every datagram of the socket names a worker and a stream.
LEMMA InboxTyped ==
  ASSUME TypeOK
  PROVE  \A i \in DOMAIN inbox : inbox[i] \in Addref /\ inbox[i].pid \in Pid
<1>1. \A i \in DOMAIN inbox : inbox[i] \in Addref
  BY DEF TypeOK
<1> QED
  BY <1>1 DEF Addref

\* The first datagram of the socket names a worker and a stream.
LEMMA HeadTyped ==
  ASSUME TypeOK, inbox # <<>>
  PROVE  /\ Head(inbox) \in Addref
         /\ Head(inbox).pid \in Pid /\ Head(inbox).url \in Url
         /\ Head(inbox).stale \in BOOLEAN
<1>1. Head(inbox) \in Addref
  BY DEF TypeOK
<1> QED
  BY <1>1 DEF Addref

\* on_addref keeps the types; a datagram carries a worker and a stream.
LEMMA OnAddrefType == ASSUME TypeOK, OnAddref PROVE TypeOK'
<1> DEFINE m == Head(inbox)
<1>1. m \in Addref /\ inbox' \in Seq(Addref)
  BY DEF OnAddref, TypeOK
<1>2. m.pid \in Pid /\ m.url \in Url /\ m.stale \in BOOLEAN
  BY <1>1 DEF Addref
<1>3. /\ streams' \in [Url -> [nref : Nat, pid : Pid \cup {NoProc}]]
      /\ clients' \in [Pid -> Url \cup {NoStream}]
      /\ life' \in [Pid -> {"free", "run", "zombie"}]
      /\ phase' \in [Pid -> WorkerPhase \cup ProducerPhase \cup {"none"}]
      /\ job' \in [Pid -> Url \cup {NoStream}]
      /\ HasJob'
  <2>1. CASE AddrefKnown(m.pid, m.url)
    BY <2>1, <1>2 DEF AddrefKnown, CountRef, TypeOK, HasJob
  <2>2. CASE AddrefNew(m.pid, m.url)
    <3>1. PICK q \in Pid : /\ Fork(q, "start", m.url)
                           /\ CountRef(m.pid, m.url, [nref |-> 0, pid |-> q])
      BY <2>2 DEF AddrefNew
    <3>2. /\ life' \in [Pid -> {"free", "run", "zombie"}]
          /\ phase' \in [Pid -> WorkerPhase \cup ProducerPhase \cup {"none"}]
          /\ job' \in [Pid -> Url \cup {NoStream}]
          /\ HasJob'
      BY <3>1, <1>2, ForkType, "start" \in ProducerPhase DEF ProducerPhase
    <3>3. /\ streams' = [streams EXCEPT ![m.url] = [nref |-> 1, pid |-> q]]
          /\ clients' = [clients EXCEPT ![m.pid] = m.url]
      BY <3>1 DEF CountRef
    <3> QED
      BY <3>2, <3>3, <1>2 DEF TypeOK
  <2>3. CASE AddrefNoFork(m.url)
    BY <2>3, <1>2 DEF AddrefNoFork, NoEntry, TypeOK, HasJob
  <2> QED
    BY <2>1, <2>2, <2>3 DEF OnAddref
<1>4. /\ ref' \in [Pid -> {"none", "queued", "counted", "dropped"}]
      /\ late' \in SUBSET Url
  BY <1>2 DEF OnAddref, TypeOK
<1> QED
  BY <1>1, <1>3, <1>4 DEF OnAddref, TypeOK

\* wait4 and on_release keep the types.
LEMMA ReapType == ASSUME TypeOK, NEW p \in Pid, Reap(p) PROVE TypeOK'
<1>1. inbox' \in Seq(Addref)
  <2> DEFINE Mark(m) == IF m.pid = p THEN [m EXCEPT !.stale = TRUE] ELSE m
  <2>1. inbox \in Seq(Addref)
    BY DEF TypeOK
  <2>2. \A m \in Addref : Mark(m) \in Addref
    BY DEF Addref
  <2>3. inbox' = [i \in 1 .. Len(inbox) |-> Mark(inbox[i])]
    BY <2>1 DEF Reap
  <2> HIDE DEF Mark
  <2> QED
    BY <2>1, <2>2, <2>3
<1>2. /\ streams' \in [Url -> [nref : Nat, pid : Pid \cup {NoProc}]]
      /\ clients' \in [Pid -> Url \cup {NoStream}]
      /\ sigchld' \in BOOLEAN
      /\ life' \in [Pid -> {"free", "run", "zombie"}]
      /\ dirs' \in SUBSET Url
      /\ swept' \in SUBSET Pid
      /\ late' \in SUBSET Url
      /\ orphan' \in SUBSET Url
  <2>1. CASE ReleaseUnknown(p)
    BY <2>1 DEF ReleaseUnknown, TypeOK
  <2>2. CASE ReleaseOne(p)
    <3> DEFINE u == clients[p]
               Row == [nref : Nat, pid : Pid \cup {NoProc}]
    <3>1. u \in Url /\ streams[u] \in Row /\ streams[u].nref > 1
      BY <2>2 DEF ReleaseOne, TypeOK
    <3>2. [streams[u] EXCEPT !.nref = @ - 1] \in Row
      BY <3>1
    <3>3. streams' = [streams EXCEPT ![u] = [streams[u] EXCEPT !.nref = @ - 1]]
      BY <2>2 DEF ReleaseOne
    <3>4. streams' \in [Url -> Row]
      <4> HIDE DEF Row, u
      <4> QED
        BY <3>1, <3>2, <3>3 DEF TypeOK, Row
    <3> QED
      BY <2>2, <3>4 DEF ReleaseOne, TypeOK
  <2>3. CASE ReleaseLast(p)
    <3>1. streams' \in [Url -> [nref : Nat, pid : Pid \cup {NoProc}]]
      BY <2>3 DEF ReleaseLast, NoEntry, TypeOK
    <3>2. life' \in [Pid -> {"free", "run", "zombie"}] /\ sigchld' \in BOOLEAN
      BY <2>3 DEF ReleaseLast, TypeOK
    <3>3. /\ clients' \in [Pid -> Url \cup {NoStream}]
          /\ dirs' \in SUBSET Url
          /\ swept' \in SUBSET Pid
          /\ late' \in SUBSET Url
          /\ orphan' \in SUBSET Url
      BY <2>3 DEF ReleaseLast, TypeOK
    <3> QED
      BY <3>1, <3>2, <3>3
  <2> QED
    BY <2>1, <2>2, <2>3 DEF Reap
<1>3. /\ phase' \in [Pid -> WorkerPhase \cup ProducerPhase \cup {"none"}]
      /\ job' \in [Pid -> Url \cup {NoStream}]
      /\ ref' \in [Pid -> {"none", "queued", "counted", "dropped"}]
      /\ HasJob'
  BY DEF Reap, TypeOK, HasJob
<1> QED
  BY <1>1, <1>2, <1>3 DEF Reap, TypeOK

\* Every step keeps the types.
LEMMA NextType == TypeOK /\ [Next]_vars => TypeOK'
<1> SUFFICES ASSUME TypeOK, [Next]_vars PROVE TypeOK'
  OBVIOUS
<1> USE DEF superVars, osVars, childVars, ghostVars
<1>1. CASE Connect
  BY <1>1, ConstantAssumption DEF Connect, TypeOK, HasJob
<1>2. ASSUME NEW p \in Pid, NEW u \in Url, WorkerMkdir(p, u) PROVE TypeOK'
  BY <1>2 DEF WorkerMkdir, WorkerPhase, TypeOK, HasJob
<1>3. ASSUME NEW p \in Pid, WorkerAddref(p) PROVE TypeOK'
  <2>1. job[p] \in Url
    BY <1>3 DEF WorkerAddref, TypeOK, HasJob
  <2>2. inbox' \in Seq(Addref)
    BY <1>3, <2>1 DEF WorkerAddref, Addref, TypeOK
  <2> QED
    BY <1>3, <2>2 DEF WorkerAddref, WorkerPhase, TypeOK, HasJob
<1>4. ASSUME NEW p \in Pid, WorkerExit(p) PROVE TypeOK'
  BY <1>4, ConstantAssumption DEF WorkerExit, Die, TypeOK, HasJob
<1>5. ASSUME NEW p \in Pid, ProducerChdir(p) PROVE TypeOK'
  BY <1>5 DEF ProducerChdir, ProducerPhase, TypeOK, HasJob
<1>6. ASSUME NEW p \in Pid, ProducerFail(p) PROVE TypeOK'
  BY <1>6, ConstantAssumption DEF ProducerFail, Die, TypeOK, HasJob
<1>7. CASE Select
  BY <1>7 DEF Select, Control, TypeOK, HasJob
<1>8. ASSUME NEW term \in BOOLEAN, Interrupt(term) PROVE TypeOK'
  BY <1>8 DEF Interrupt, Control, TypeOK, HasJob
<1>9. CASE Accept
  <2>1. backlog' \in 0 .. Backlog
    BY <1>9, ConstantAssumption DEF Accept, TypeOK
  <2>2. /\ life' \in [Pid -> {"free", "run", "zombie"}]
        /\ phase' \in [Pid -> WorkerPhase \cup ProducerPhase \cup {"none"}]
        /\ job' \in [Pid -> Url \cup {NoStream}]
        /\ HasJob'
    <3>1. CASE \E q \in Pid : Fork(q, "request", NoStream)
      BY <3>1, ForkType, "request" \in WorkerPhase DEF WorkerPhase
    <3>2. CASE UNCHANGED <<life, phase, job>>
      BY <3>2 DEF TypeOK, HasJob
    <3> QED
      BY <1>9, <3>1, <3>2 DEF Accept
  <2> QED
    BY <1>9, <2>1, <2>2 DEF Accept, TypeOK
<1>10. CASE AcceptDone
  BY <1>10 DEF AcceptDone, Control, TypeOK, HasJob
<1>11. CASE OnAddref
  BY <1>11, OnAddrefType
<1>12. CASE RecvDone
  BY <1>12 DEF RecvDone, Control, TypeOK, HasJob
<1>13. ASSUME NEW p \in Pid, Reap(p) PROVE TypeOK'
  BY <1>13, ReapType
<1>14. CASE ReapDone
  BY <1>14 DEF ReapDone, Control, TypeOK, HasJob
<1>15. CASE ClearFlag
  BY <1>15 DEF ClearFlag, Control, TypeOK, HasJob
<1>16. CASE Shutdown
  <2>1. streams' \in [Url -> [nref : Nat, pid : Pid \cup {NoProc}]]
    BY <1>16 DEF Shutdown, NoEntry
  <2>2. backlog' \in 0 .. Backlog /\ mishaps' \in 0 .. MaxMishaps
    BY <1>16, ConstantAssumption DEF Shutdown
  <2>3. inbox' \in Seq(Addref)
    BY <1>16 DEF Shutdown
  <2>4. dirs' \in SUBSET Url
    BY <1>16 DEF Shutdown, TypeOK
  <2>5. pc' \in Control /\ svReady' \in BOOLEAN /\ quit' \in BOOLEAN /\ sigchld' \in BOOLEAN
    BY <1>16 DEF Shutdown, Control, TypeOK
  <2>6. /\ clients' \in [Pid -> Url \cup {NoStream}]
        /\ life' \in [Pid -> {"free", "run", "zombie"}]
        /\ phase' \in [Pid -> WorkerPhase \cup ProducerPhase \cup {"none"}]
        /\ job' \in [Pid -> Url \cup {NoStream}]
        /\ ref' \in [Pid -> {"none", "queued", "counted", "dropped"}]
    BY <1>16 DEF Shutdown
  <2>7. /\ swept' \in SUBSET Pid
        /\ late' \in SUBSET Url
        /\ orphan' \in SUBSET Url
        /\ HasJob'
    BY <1>16 DEF Shutdown, HasJob
  <2> QED
    BY <2>1, <2>2, <2>3, <2>4, <2>5, <2>6, <2>7 DEF TypeOK
<1>17. CASE Restart
  BY <1>17 DEF Restart, Control, TypeOK, HasJob
<1>18. CASE UNCHANGED vars
  BY <1>18 DEF vars, TypeOK, HasJob
<1> QED
  BY <1>1, <1>2, <1>3, <1>4, <1>5, <1>6, <1>7, <1>8, <1>9, <1>10, <1>11,
     <1>12, <1>13, <1>14, <1>15, <1>16, <1>17, <1>18
  DEF Next, Worker, Producer, Accepting, Receiving, Reaping

\* The supervisor's tables, the process table and the history keep their types.
THEOREM TypeCorrect == Spec => []TypeOK
  BY InitType, NextType, PTL DEF Spec

-----------------------------------------------------------------------------
(* The accounting of references *)

\* The clients of a stream are finitely many.
LEMMA HoldersFinite ==
  ASSUME NEW u
  PROVE  IsFiniteSet(Holders(u)) /\ Cardinality(Holders(u)) \in Nat
  BY ConstantAssumption, FS_Subset, FS_CardinalityType DEF Holders

\* Pointing client p at stream u adds p to the clients of u and to no others.
LEMMA HoldersAdd ==
  ASSUME TypeOK, NEW p \in Pid, NEW u \in Url, NEW v \in Url,
         clients' = [clients EXCEPT ![p] = u]
  PROVE  /\ v = u => Holders(v)' = Holders(v) \cup {p}
         /\ v # u => Holders(v)' = Holders(v) \ {p}
         /\ Cardinality(Holders(v)') <= Cardinality(Holders(v)) + (IF v = u THEN 1 ELSE 0)
<1> USE DEF Holders
<1>0. \A q \in Pid : clients'[q] = IF q = p THEN u ELSE clients[q]
  BY DEF TypeOK
<1>1. v = u => Holders(v)' = Holders(v) \cup {p}
  BY <1>0
<1>2. v # u => Holders(v)' = Holders(v) \ {p}
  BY <1>0
<1> HIDE DEF Holders
<1>3. IsFiniteSet(Holders(v)) /\ Cardinality(Holders(v)) \in Nat
  BY HoldersFinite
<1>4. Cardinality(Holders(v) \cup {p}) <= Cardinality(Holders(v)) + 1
  <2>1. Cardinality(Holders(v) \cup {p}) =
          IF p \in Holders(v) THEN Cardinality(Holders(v)) ELSE Cardinality(Holders(v)) + 1
    BY <1>3, FS_AddElement, Zenon
  <2> HIDE DEF Holders
  <2>2. CASE p \in Holders(v)
    BY <1>3, <2>1, <2>2
  <2>3. CASE p \notin Holders(v)
    BY <1>3, <2>1, <2>3
  <2> QED
    BY <2>2, <2>3
<1>5. Cardinality(Holders(v) \ {p}) <= Cardinality(Holders(v))
  <2>1. Holders(v) \ {p} \in SUBSET Holders(v)
    OBVIOUS
  <2> QED
    BY <1>3, <2>1, FS_Subset, Zenon
<1>6. CASE v = u
  BY <1>1, <1>4, <1>6
<1>7. CASE v # u
  BY <1>2, <1>3, <1>5, <1>7
<1> QED
  BY <1>6, <1>7

\* Erasing client p takes it from the clients of its stream.
LEMMA HoldersDrop ==
  ASSUME TypeOK, NEW p \in Pid, NEW v \in Url,
         clients' = [clients EXCEPT ![p] = NoStream]
  PROVE  /\ Holders(v)' = Holders(v) \ {p}
         /\ Cardinality(Holders(v)') =
              Cardinality(Holders(v)) - (IF clients[p] = v THEN 1 ELSE 0)
<1>1. Holders(v)' = Holders(v) \ {p}
  BY ConstantAssumption DEF Holders, TypeOK
<1>2. p \in Holders(v) <=> clients[p] = v
  BY DEF Holders
<1>3. /\ Cardinality(Holders(v)) \in Nat
      /\ Cardinality(Holders(v) \ {p}) =
           IF p \in Holders(v) THEN Cardinality(Holders(v)) - 1 ELSE Cardinality(Holders(v))
  BY HoldersFinite, FS_RemoveElement
<1> QED
  BY <1>1, <1>2, <1>3

\* What RefsBacked says of one stream.
Backed(u) ==
  IF Present(u)
    THEN streams[u].nref >= 1 /\ Cardinality(Holders(u)) <= streams[u].nref
    ELSE Holders(u) = {}

\* Counting a reference keeps every stream backed.
LEMMA CountRefBacked ==
  ASSUME TypeOK, RefsBacked, NEW p \in Pid, NEW u \in Url,
         NEW s \in [nref : Nat, pid : Pid],
         Cardinality(Holders(u)) <= s.nref,
         CountRef(p, u, s)
  PROVE  RefsBacked'
<1> SUFFICES ASSUME NEW v \in Url PROVE Backed(v)'
  BY DEF RefsBacked, Backed
<1>1. Backed(v)
  BY DEF RefsBacked, Backed
<1>2. clients' = [clients EXCEPT ![p] = u]
  BY DEF CountRef
<1>3. streams'[v] = IF v = u THEN [nref |-> s.nref + 1, pid |-> s.pid] ELSE streams[v]
  BY DEF CountRef, TypeOK
<1>4. /\ Cardinality(Holders(v)) \in Nat
      /\ Cardinality(Holders(v)') \in Nat
  <2>1. Holders(v)' = Holders(v) \cup {p} \/ Holders(v)' = Holders(v) \ {p}
    BY <1>2, HoldersAdd
  <2> QED
    BY <2>1, HoldersFinite, FS_AddElement, FS_RemoveElement, FS_CardinalityType
<1>5. Cardinality(Holders(v)') <= Cardinality(Holders(v)) + (IF v = u THEN 1 ELSE 0)
  BY <1>2, HoldersAdd
<1>6. CASE v = u
  BY <1>3, <1>4, <1>5, <1>6, ConstantAssumption DEF Backed, Present
<1>7. CASE v # u
  <2>1. streams'[v] = streams[v] /\ streams[v].nref \in Nat
    BY <1>3, <1>7 DEF TypeOK
  <2>2. CASE Present(v)
    BY <1>1, <1>4, <1>5, <1>7, <2>1, <2>2 DEF Backed, Present
  <2>3. CASE ~Present(v)
    <3>1. Holders(v)' = Holders(v) \ {p}
      BY <1>2, <1>7, HoldersAdd
    <3> QED
      BY <1>1, <2>1, <2>3, <3>1 DEF Backed, Present
  <2> QED
    BY <2>2, <2>3
<1> QED
  BY <1>6, <1>7

\* on_addref keeps every stream backed.
LEMMA OnAddrefBacked == ASSUME TypeOK, RefsBacked, OnAddref PROVE RefsBacked'
<1> DEFINE m == Head(inbox)
<1>1. m \in Addref
  BY DEF OnAddref, TypeOK
<1>2. m.pid \in Pid /\ m.url \in Url
  BY <1>1 DEF Addref
<1>3. Backed(m.url)
  BY <1>2 DEF RefsBacked, Backed
<1>4. CASE AddrefKnown(m.pid, m.url)
  <2>1. /\ streams[m.url] \in [nref : Nat, pid : Pid]
        /\ Cardinality(Holders(m.url)) <= streams[m.url].nref
    BY <1>2, <1>3, <1>4 DEF AddrefKnown, Backed, Present, TypeOK
  <2> QED
    BY <1>2, <1>4, <2>1, CountRefBacked DEF AddrefKnown
<1>5. CASE AddrefNew(m.pid, m.url)
  <2>1. PICK q \in Pid : CountRef(m.pid, m.url, [nref |-> 0, pid |-> q])
    BY <1>5 DEF AddrefNew
  <2>2. Cardinality(Holders(m.url)) = 0
    BY <1>3, <1>5, FS_EmptySet DEF AddrefNew, Backed
  <2>3. [nref |-> 0, pid |-> q] \in [nref : Nat, pid : Pid]
    OBVIOUS
  <2> QED
    BY <1>2, <2>1, <2>2, <2>3, CountRefBacked
<1>6. CASE AddrefNoFork(m.url)
  <2> SUFFICES ASSUME NEW v \in Url PROVE Backed(v)'
    BY DEF RefsBacked, Backed
  <2>1. Backed(v) /\ Holders(v)' = Holders(v)
    BY <1>6 DEF RefsBacked, Backed, AddrefNoFork, Holders
  <2>2. Present(v)' = Present(v) /\ (Present(v) => streams'[v] = streams[v])
    BY <1>2, <1>6 DEF AddrefNoFork, NoEntry, Present, TypeOK
  <2> QED
    BY <2>1, <2>2 DEF Backed
<1> QED
  BY <1>4, <1>5, <1>6 DEF OnAddref

\* on_release keeps every stream backed.
LEMMA ReapBacked == ASSUME TypeOK, RefsBacked, NEW p \in Pid, Reap(p) PROVE RefsBacked'
<1> SUFFICES ASSUME NEW v \in Url PROVE Backed(v)'
  BY DEF RefsBacked, Backed
<1> DEFINE u == clients[p]
<1>1. Backed(v) /\ streams[v].nref \in Nat /\ Cardinality(Holders(v)) \in Nat
  BY HoldersFinite DEF RefsBacked, Backed, TypeOK
<1>2. CASE ReleaseUnknown(p)
  BY <1>1, <1>2 DEF ReleaseUnknown, Backed, Present, Holders
<1>3. CASE ReleaseOne(p)
  <2>1. clients' = [clients EXCEPT ![p] = NoStream]
    BY <1>3 DEF ReleaseOne
  <2>2. /\ streams'[v].nref = streams[v].nref - (IF u = v THEN 1 ELSE 0)
        /\ streams'[v].pid = streams[v].pid
        /\ u = v => streams[v].nref > 1
    BY <1>1, <1>3 DEF ReleaseOne, TypeOK
  <2>3. /\ Holders(v)' = Holders(v) \ {p}
        /\ Cardinality(Holders(v)') =
             Cardinality(Holders(v)) - (IF u = v THEN 1 ELSE 0)
    BY <2>1, HoldersDrop
  <2> HIDE DEF u
  <2> QED
    BY <1>1, <2>2, <2>3 DEF Backed, Present
<1>4. CASE ReleaseLast(p)
  <2>1. clients' = [clients EXCEPT ![p] = NoStream]
    BY <1>4 DEF ReleaseLast
  <2>2. /\ streams'[v] = IF u = v THEN NoEntry ELSE streams[v]
        /\ u = v => streams[v].nref <= 1
    BY <1>4 DEF ReleaseLast, TypeOK
  <2>3. /\ Holders(v)' = Holders(v) \ {p}
        /\ Cardinality(Holders(v)') =
             Cardinality(Holders(v)) - (IF u = v THEN 1 ELSE 0)
    BY <2>1, HoldersDrop
  <2>4. CASE u = v
    <3>1. ~Present(v)'
      BY <2>2, <2>4 DEF NoEntry, Present
    <3>2. p \in Holders(v)
      BY <2>4 DEF Holders
    <3>3. Cardinality(Holders(v)) <= 1
      BY <1>1, <2>2, <2>4, <3>2 DEF Backed
    <3>4. Cardinality(Holders(v)') = 0
      <4>1. Cardinality(Holders(v)) # 0
        BY <3>2, HoldersFinite, FS_EmptySet
      <4> QED
        BY <1>1, <2>3, <2>4, <3>3, <4>1
    <3>5. IsFiniteSet(Holders(v)')
      BY <2>3, HoldersFinite, FS_RemoveElement
    <3> QED
      BY <3>1, <3>4, <3>5, FS_EmptySet DEF Backed
  <2>5. CASE u # v
    BY <1>1, <2>2, <2>3, <2>5 DEF Backed, Present
  <2> QED
    BY <2>4, <2>5
<1> QED
  BY <1>2, <1>3, <1>4 DEF Reap

\* Every step keeps every stream backed.
LEMMA NextBacked == TypeOK /\ RefsBacked /\ [Next]_vars => RefsBacked'
<1> SUFFICES ASSUME TypeOK, RefsBacked, [Next]_vars PROVE RefsBacked'
  OBVIOUS
<1>1. ASSUME streams' = streams, clients' = clients PROVE RefsBacked'
  BY <1>1 DEF RefsBacked, Present, Holders
<1>2. CASE Shutdown
  BY <1>2, ConstantAssumption DEF Shutdown, NoEntry, RefsBacked, Present, Holders
<1>3. CASE OnAddref
  BY <1>3, OnAddrefBacked
<1>4. CASE \E p \in Pid : Reap(p)
  BY <1>4, ReapBacked
<1>5. CASE ~(OnAddref \/ Shutdown \/ \E p \in Pid : Reap(p))
  BY <1>1, <1>5
  DEF Next, vars, superVars, osVars, childVars, ghostVars, Worker, Producer,
      Accepting, Receiving, Reaping, Connect, WorkerMkdir, WorkerAddref,
      WorkerExit, ProducerChdir, ProducerFail, Select, Interrupt, Accept,
      AcceptDone, RecvDone, ReapDone, ClearFlag, Restart
<1> QED
  BY <1>2, <1>3, <1>4, <1>5

\* Whatever the order of references, deaths and recycled pids, the count of a
\* stream covers its clients and no client points at an erased stream.
THEOREM RefsAlwaysBacked == Spec => []RefsBacked
<1>1. Init => RefsBacked
  BY ConstantAssumption DEF Init, NoEntry, RefsBacked, Present, Holders
<1>2. RefsBacked /\ TypeOK /\ [Next]_vars => RefsBacked'
  BY NextBacked
<1> QED
  BY <1>1, <1>2, TypeCorrect, PTL DEF Spec

-----------------------------------------------------------------------------
(* No dead child is forgotten *)

\* A step either leaves no zombie unannounced or keeps the announcement.
LEMMA NextChild == TypeOK /\ NoLostChild /\ [Next]_vars => NoLostChild'
<1> SUFFICES ASSUME TypeOK, NoLostChild, [Next]_vars PROVE NoLostChild'
  OBVIOUS
<1> USE DEF superVars, osVars, childVars, ghostVars, NoLostChild
<1>1. ASSUME NEW p \in Pid, Worker(p) \/ Producer(p) PROVE NoLostChild'
  BY <1>1
  DEF Worker, Producer, WorkerMkdir, WorkerAddref, WorkerExit, Die,
      ProducerChdir, ProducerFail
<1>2. ASSUME NEW term \in BOOLEAN, Interrupt(term) PROVE NoLostChild'
  BY <1>2 DEF Interrupt
<1>3. CASE Accept
  BY <1>3 DEF Accept, Fork, TypeOK
<1>4. CASE OnAddref
  BY <1>4 DEF OnAddref, AddrefKnown, AddrefNew, AddrefNoFork, Fork, TypeOK
<1>5. ASSUME NEW p \in Pid, Reap(p) PROVE NoLostChild'
  BY <1>5 DEF Reap
<1>6. CASE ReapDone \/ ClearFlag
  BY <1>6 DEF ReapDone, ClearFlag
<1>7. CASE Shutdown
  BY <1>7 DEF Shutdown
<1>8. CASE Connect \/ Select \/ AcceptDone \/ RecvDone \/ Restart \/ UNCHANGED vars
  BY <1>8 DEF Connect, Select, AcceptDone, RecvDone, Restart, vars
<1> QED
  BY <1>1, <1>2, <1>3, <1>4, <1>5, <1>6, <1>7, <1>8
  DEF Next, Accepting, Receiving, Reaping

\* While a zombie is left, a SIGCHLD is pending or the wait4 loop still runs.
THEOREM NoChildIsLost == Spec => []NoLostChild
<1>1. Init => NoLostChild
  BY DEF Init, NoLostChild
<1> QED
  BY <1>1, NextChild, TypeCorrect, PTL DEF Spec

-----------------------------------------------------------------------------
(* A stream has one producer at most *)

\* Every step keeps the running producers those of the table.
LEMMA NextProducer == TypeOK /\ OneProducer /\ [Next]_vars => OneProducer'
<1> SUFFICES ASSUME TypeOK, OneProducer, [Next]_vars PROVE OneProducer'
  OBVIOUS
<1> USE DEF superVars, osVars, childVars, ghostVars, OneProducer
<1>1. ASSUME NEW p \in Pid, Worker(p) PROVE OneProducer'
  BY <1>1
  DEF Worker, WorkerMkdir, WorkerAddref, WorkerExit, Die, WorkerPhase,
      ProducerPhase, TypeOK
<1>2. ASSUME NEW p \in Pid, Producer(p) PROVE OneProducer'
  BY <1>2 DEF Producer, ProducerChdir, ProducerFail, Die, ProducerPhase, TypeOK
<1>3. CASE Accept
  BY <1>3 DEF Accept, Fork, ProducerPhase, TypeOK
<1>4. CASE OnAddref
  <2> DEFINE m == Head(inbox)
  <2>1. m.pid \in Pid /\ m.url \in Url
    BY <1>4, HeadTyped DEF OnAddref
  <2>2. CASE AddrefKnown(m.pid, m.url)
    BY <2>1, <2>2 DEF AddrefKnown, CountRef, TypeOK
  <2>3. CASE AddrefNew(m.pid, m.url)
    <3>1. PICK q \in Pid : /\ Fork(q, "start", m.url)
                           /\ CountRef(m.pid, m.url, [nref |-> 0, pid |-> q])
      BY <2>3 DEF AddrefNew
    <3> DEFINE u == m.url
    <3>2. /\ \A v \in Url : streams'[v].pid = IF v = u THEN q ELSE streams[v].pid
          /\ streams[u].pid = NoProc
      BY <2>1, <2>3, <3>1 DEF AddrefNew, CountRef, Present, TypeOK
    <3> SUFFICES ASSUME NEW p \in Pid, life'[p] = "run", phase'[p] \in ProducerPhase
                 PROVE  job'[p] \in Url /\ streams'[job'[p]].pid = p
      OBVIOUS
    <3>3. CASE p = q
      BY <2>1, <3>1, <3>2, <3>3 DEF Fork, TypeOK
    <3>4. CASE p # q
      <4>1. life[p] = "run" /\ phase[p] \in ProducerPhase /\ job'[p] = job[p]
        BY <3>1, <3>4 DEF Fork, TypeOK
      <4>2. job[p] \in Url /\ streams[job[p]].pid = p
        BY <4>1
      <4> HIDE DEF u
      <4> QED
        BY <3>2, <4>1, <4>2, ConstantAssumption
    <3> QED
      BY <3>3, <3>4
  <2>4. CASE AddrefNoFork(m.url)
    BY <2>1, <2>4, ConstantAssumption DEF AddrefNoFork, Present, NoEntry, TypeOK
  <2> QED
    BY <1>4, <2>2, <2>3, <2>4 DEF OnAddref
<1>5. ASSUME NEW p \in Pid, Reap(p) PROVE OneProducer'
  <2> SUFFICES ASSUME NEW q \in Pid, life'[q] = "run", phase'[q] \in ProducerPhase
               PROVE  job'[q] \in Url /\ streams'[job'[q]].pid = q
    OBVIOUS
  <2>1. q # p /\ phase'[q] = phase[q] /\ job'[q] = job[q]
    BY <1>5 DEF Reap, ProducerPhase, TypeOK
  <2>2. life[q] = "run"
    BY <1>5, <2>1
    DEF Reap, ReleaseUnknown, ReleaseOne, ReleaseLast, TypeOK
  <2>3. job[q] \in Url /\ streams[job[q]].pid = q
    BY <2>1, <2>2
  <2>4. CASE ReleaseUnknown(p)
    BY <2>1, <2>3, <2>4 DEF ReleaseUnknown
  <2>5. CASE ReleaseOne(p)
    BY <2>1, <2>3, <2>5 DEF ReleaseOne, TypeOK
  <2>6. CASE ReleaseLast(p)
    <3>1. job[q] # clients[p]
      BY <2>1, <2>2, <2>3, <2>6 DEF ReleaseLast, Killed
    <3> QED
      BY <2>1, <2>3, <2>6, <3>1 DEF ReleaseLast, TypeOK
  <2> QED
    BY <1>5, <2>4, <2>5, <2>6 DEF Reap
<1>6. CASE Shutdown
  BY <1>6 DEF Shutdown
<1>7. CASE ~(Shutdown \/ OnAddref \/ Accept \/ \E p \in Pid : Worker(p) \/ Producer(p) \/ Reap(p))
  BY <1>7
  DEF Next, vars, Accepting, Receiving, Reaping, Connect, Select, Interrupt,
      AcceptDone, RecvDone, ReapDone, ClearFlag, Restart
<1> QED
  BY <1>1, <1>2, <1>3, <1>4, <1>5, <1>6, <1>7

\* No two producers ever write the cache directory of one stream.
THEOREM OneProducerEach == Spec => []OneProducer
<1>1. Init => OneProducer
  BY DEF Init, OneProducer
<1> QED
  BY <1>1, NextProducer, TypeCorrect, PTL DEF Spec

-----------------------------------------------------------------------------
(* A viewer keeps its stream *)

\* The socket keeps the order of the references of a recycled pid: a live
\* reference is the last one of its pid, and a counted or dropped one has no
\* other behind it.
FreshIsQueued ==
  \A i \in DOMAIN inbox :
    ~inbox[i].stale => ref[inbox[i].pid] = "queued" /\ job[inbox[i].pid] = inbox[i].url

FreshIsLast ==
  \A i, j \in DOMAIN inbox :
    ~inbox[i].stale /\ inbox[j].pid = inbox[i].pid => j <= i

SettledIsAlone ==
  \A i \in DOMAIN inbox : ref[inbox[i].pid] \in {"none", "queued"}

RefIsMedia ==
  \A p \in Pid : /\ phase[p] # "media" => ref[p] = "none"
                 /\ life[p] = "free" => phase[p] = "none"

QueueOrder == FreshIsQueued /\ FreshIsLast /\ SettledIsAlone /\ RefIsMedia

\* on_addref takes the oldest datagram and the order of the others stays.
LEMMA OnAddrefOrder == ASSUME TypeOK, QueueOrder, OnAddref PROVE QueueOrder'
<1> DEFINE m == Head(inbox)
<1> USE DEF QueueOrder
<1>1. m \in Addref /\ m.pid \in Pid /\ m.url \in Url
  BY HeadTyped DEF OnAddref
<1>2. /\ inbox \in Seq(Addref) /\ inbox # <<>> /\ inbox' = Tail(inbox)
      /\ DOMAIN inbox' = 1 .. (Len(inbox) - 1)
      /\ 1 \in DOMAIN inbox /\ m = inbox[1]
      /\ \A i \in DOMAIN inbox' : i + 1 \in DOMAIN inbox /\ inbox'[i] = inbox[i + 1]
  BY DEF OnAddref, TypeOK
<1>3. \A i \in DOMAIN inbox' : inbox'[i].pid \in Pid
  BY <1>2, InboxTyped
<1>4. /\ \A p \in Pid : phase'[p] = phase[p] \/ (life[p] = "free" /\ phase'[p] = "start")
      /\ \A p \in Pid : job'[p] = job[p] \/ life[p] = "free"
      /\ \A p \in Pid : life'[p] = life[p] \/ life'[p] = "run"
      /\ \A p \in Pid : life'[p] = "free" => phase'[p] = phase[p]
  BY DEF OnAddref, AddrefKnown, AddrefNew, AddrefNoFork, Fork, TypeOK
<1>5. CASE m.stale
  <2>1. ref' = ref
    BY <1>5 DEF OnAddref
  <2>2. FreshIsQueued' /\ SettledIsAlone'
    BY <1>2, <1>3, <1>4, <2>1 DEF FreshIsQueued, SettledIsAlone, RefIsMedia
  <2>3. FreshIsLast'
    BY <1>2 DEF FreshIsLast
  <2>4. RefIsMedia'
    BY <1>4, <2>1 DEF RefIsMedia
  <2> QED
    BY <2>2, <2>3, <2>4
<1>6. CASE ~m.stale
  <2>1. PICK fate \in {"counted", "dropped"} : ref' = [ref EXCEPT ![m.pid] = fate]
    BY <1>6 DEF OnAddref
  <2>2. \A i \in DOMAIN inbox' : inbox'[i].pid # m.pid
    BY <1>2, <1>6 DEF FreshIsLast
  <2>3. \A p \in Pid \ {m.pid} : ref'[p] = ref[p]
    BY <2>1 DEF TypeOK
  <2>4. ref[m.pid] = "queued"
    BY <1>2, <1>6 DEF FreshIsQueued
  <2>5. FreshIsQueued' /\ SettledIsAlone'
    BY <1>2, <1>3, <1>4, <2>2, <2>3 DEF FreshIsQueued, SettledIsAlone, RefIsMedia
  <2>6. FreshIsLast'
    BY <1>2 DEF FreshIsLast
  <2>7. RefIsMedia'
    <3>1. phase[m.pid] = "media" /\ life[m.pid] # "free"
      BY <1>1, <2>4 DEF RefIsMedia
    <3>2. phase'[m.pid] = "media" /\ life'[m.pid] # "free"
      BY <1>1, <1>4, <3>1
    <3>3. ASSUME NEW p \in Pid \ {m.pid}
          PROVE  /\ phase'[p] # "media" => ref'[p] = "none"
                 /\ life'[p] = "free" => phase'[p] = "none"
      BY <1>4, <2>3 DEF RefIsMedia
    <3> QED
      BY <3>2, <3>3 DEF RefIsMedia
  <2> QED
    BY <2>5, <2>6, <2>7
<1> QED
  BY <1>5, <1>6

\* A child that is waited for leaves only stale datagrams behind.
LEMMA ReapOrder == ASSUME TypeOK, QueueOrder, NEW p \in Pid, Reap(p) PROVE QueueOrder'
<1> USE DEF QueueOrder
<1>1. /\ DOMAIN inbox' = DOMAIN inbox
      /\ \A i \in DOMAIN inbox : /\ inbox[i] \in Addref
                                 /\ inbox[i].pid \in Pid
                                 /\ inbox'[i].pid = inbox[i].pid
                                 /\ inbox'[i].url = inbox[i].url
                                 /\ inbox[i].pid # p => inbox'[i].stale = inbox[i].stale
                                 /\ inbox[i].pid = p => inbox'[i].stale
  <2>1. /\ DOMAIN inbox' = DOMAIN inbox
        /\ \A i \in DOMAIN inbox :
             /\ inbox[i] \in Addref
             /\ inbox'[i] = IF inbox[i].pid = p THEN [inbox[i] EXCEPT !.stale = TRUE]
                                                ELSE inbox[i]
    BY DEF Reap, TypeOK
  <2> QED
    BY <2>1 DEF Addref
<1>2. /\ ref'[p] = "none" /\ phase'[p] = "none"
      /\ \A q \in Pid \ {p} : /\ ref'[q] = ref[q] /\ phase'[q] = phase[q]
                              /\ job'[q] = job[q]
                              /\ life'[q] = "free" => life[q] = "free"
  BY DEF Reap, ReleaseUnknown, ReleaseOne, ReleaseLast, TypeOK
<1>3. FreshIsQueued' /\ SettledIsAlone'
  BY <1>1, <1>2 DEF FreshIsQueued, SettledIsAlone
<1>4. FreshIsLast'
  BY <1>1 DEF FreshIsLast
<1>5. RefIsMedia'
  BY <1>2 DEF RefIsMedia
<1> QED
  BY <1>3, <1>4, <1>5

\* A worker sends one reference, behind those of earlier owners of its pid.
LEMMA WorkerOrder == ASSUME TypeOK, QueueOrder, NEW p \in Pid, Worker(p) PROVE QueueOrder'
<1> USE DEF QueueOrder
<1>1. ASSUME NEW u \in Url, WorkerMkdir(p, u) PROVE QueueOrder'
  <2>1. /\ inbox' = inbox /\ ref' = ref /\ life' = life
        /\ ref[p] = "none" /\ phase'[p] = "made" /\ life[p] # "free"
        /\ \A q \in Pid \ {p} : phase'[q] = phase[q] /\ job'[q] = job[q]
    BY <1>1 DEF WorkerMkdir, RefIsMedia, ghostVars, TypeOK
  <2>2. \A i \in DOMAIN inbox : inbox[i].pid \in Pid
    BY InboxTyped
  <2> QED
    BY <2>1, <2>2 DEF FreshIsQueued, FreshIsLast, SettledIsAlone, RefIsMedia
<1>2. CASE WorkerAddref(p)
  <2>1. /\ DOMAIN inbox = 1 .. Len(inbox)
        /\ DOMAIN inbox' = 1 .. Len(inbox) + 1
        /\ Len(inbox) \in Nat
        /\ \A i \in DOMAIN inbox : inbox'[i] = inbox[i]
        /\ inbox'[Len(inbox) + 1] = [pid |-> p, url |-> job[p], stale |-> FALSE]
    BY <1>2 DEF WorkerAddref, TypeOK
  <2>2. /\ ref[p] = "none" /\ ref'[p] = "queued" /\ job' = job /\ life' = life
        /\ phase'[p] = "media" /\ life[p] = "run"
        /\ \A q \in Pid \ {p} : ref'[q] = ref[q] /\ phase'[q] = phase[q]
    BY <1>2 DEF WorkerAddref, RefIsMedia, TypeOK
  <2>3. \A i \in DOMAIN inbox : inbox[i].pid \in Pid /\ (inbox[i].pid = p => inbox[i].stale)
    BY <2>1, <2>2, InboxTyped DEF FreshIsQueued
  <2>4. FreshIsQueued' /\ SettledIsAlone'
    BY <2>1, <2>2, <2>3 DEF FreshIsQueued, SettledIsAlone
  <2>5. FreshIsLast'
    BY <2>1, <2>3 DEF FreshIsLast
  <2>6. RefIsMedia'
    BY <2>2 DEF RefIsMedia
  <2> QED
    BY <2>4, <2>5, <2>6
<1>3. CASE WorkerExit(p)
  BY <1>3
  DEF WorkerExit, Die, childVars, FreshIsQueued, FreshIsLast, SettledIsAlone,
      RefIsMedia, TypeOK
<1> QED
  BY <1>1, <1>2, <1>3 DEF Worker

\* Every step keeps the order of the references.
LEMMA NextOrder == TypeOK /\ QueueOrder /\ [Next]_vars => QueueOrder'
<1> SUFFICES ASSUME TypeOK, QueueOrder, [Next]_vars PROVE QueueOrder'
  OBVIOUS
<1> USE DEF QueueOrder
<1>1. ASSUME inbox' = inbox, ref' = ref, childVars' = childVars, life' = life
      PROVE  QueueOrder'
  BY <1>1 DEF childVars, FreshIsQueued, FreshIsLast, SettledIsAlone, RefIsMedia
<1>2. ASSUME NEW p \in Pid, Producer(p) PROVE QueueOrder'
  <2>1. /\ inbox' = inbox /\ ref' = ref /\ job' = job
        /\ \A q \in Pid : /\ phase'[q] = phase[q] \/ (q = p /\ phase[q] = "start")
                          /\ life'[q] = "free" => life[q] = "free" /\ q # p
                          /\ phase'[q] = "media" => phase[q] = "media"
    BY <1>2
    DEF Producer, ProducerChdir, ProducerFail, Die, osVars, ghostVars, childVars, TypeOK
  <2> QED
    BY <2>1 DEF FreshIsQueued, FreshIsLast, SettledIsAlone, RefIsMedia
<1>3. CASE Accept
  <2>1. /\ inbox' = inbox /\ ref' = ref
        /\ \A q \in Pid : \/ /\ phase'[q] = phase[q] /\ job'[q] = job[q]
                             /\ life'[q] = life[q]
                          \/ /\ life[q] = "free" /\ life'[q] = "run"
                             /\ phase'[q] = "request"
    BY <1>3 DEF Accept, Fork, ghostVars, TypeOK
  <2>2. \A i \in DOMAIN inbox : inbox[i].pid \in Pid
    BY InboxTyped
  <2>3. FreshIsQueued'
    BY <2>1, <2>2 DEF FreshIsQueued, RefIsMedia
  <2> QED
    BY <2>1, <2>3 DEF FreshIsLast, SettledIsAlone, RefIsMedia
<1>4. CASE Shutdown
  BY <1>4 DEF Shutdown, FreshIsQueued, FreshIsLast, SettledIsAlone, RefIsMedia
<1>5. ASSUME NEW p \in Pid, Worker(p) PROVE QueueOrder'
  BY <1>5, WorkerOrder
<1>6. ASSUME NEW p \in Pid, Reap(p) PROVE QueueOrder'
  BY <1>6, ReapOrder
<1>7. CASE OnAddref
  BY <1>7, OnAddrefOrder
<1>8. CASE ~(Accept \/ Shutdown \/ OnAddref \/ \E p \in Pid : Worker(p) \/ Producer(p) \/ Reap(p))
  BY <1>1, <1>8
  DEF Next, vars, osVars, childVars, ghostVars, Accepting, Receiving, Reaping, Connect,
      Select, Interrupt, AcceptDone, RecvDone, ReapDone, ClearFlag, Restart
<1> QED
  BY <1>2, <1>3, <1>4, <1>5, <1>6, <1>7, <1>8

\* The order of references is an invariant.
LEMMA AlwaysOrdered == Spec => []QueueOrder
<1>1. Init => QueueOrder
  BY DEF Init, QueueOrder, FreshIsQueued, FreshIsLast, SettledIsAlone, RefIsMedia
<1> QED
  BY <1>1, NextOrder, TypeCorrect, PTL DEF Spec

\* Two clients of one stream make a count of two.
LEMMA TwoHolders ==
  ASSUME TypeOK, RefsBacked, NEW u \in Url, NEW p \in Pid, NEW q \in Pid,
         p # q, clients[p] = u, clients[q] = u
  PROVE  Present(u) /\ streams[u].nref > 1
<1>1. {p, q} \subseteq Holders(u) /\ Holders(u) \subseteq Pid
  BY DEF Holders
<1>2. Present(u) /\ Cardinality(Holders(u)) <= streams[u].nref
  BY <1>1 DEF RefsBacked
<1>3. Cardinality({p, q}) = 2 /\ IsFiniteSet({p, q})
  <2>1. {p, q} = {p} \cup {q} /\ q \notin {p}
    OBVIOUS
  <2>2. IsFiniteSet({p}) /\ Cardinality({p}) = 1
    BY FS_Singleton
  <2>3. {p} \cup {q} \in {{p} \cup {q}}
    OBVIOUS
  <2>4. IsFiniteSet({p} \cup {q}) /\ Cardinality({p} \cup {q}) = Cardinality({p}) + 1
    BY <2>1, <2>2, FS_AddElement
  <2> QED
    BY <2>1, <2>2, <2>4
<1>4. IsFiniteSet(Holders(u))
  BY <1>1, ConstantAssumption, FS_Subset
<1>5. Cardinality({p, q}) <= Cardinality(Holders(u))
  BY <1>1, <1>4, FS_Subset
<1>6. Cardinality(Holders(u)) \in Nat /\ streams[u].nref \in Nat
  BY <1>4, FS_CardinalityType DEF TypeOK
<1> HIDE DEF Holders, Present
<1> QED
  BY <1>2, <1>3, <1>5, <1>6

\* Every step keeps the counted viewers in the tables.
LEMMA NextKept ==
  TypeOK /\ RefsBacked /\ QueueOrder /\ ViewerKept /\ [Next]_vars => ViewerKept'
<1> SUFFICES ASSUME TypeOK, RefsBacked, QueueOrder, ViewerKept, [Next]_vars
             PROVE  ViewerKept'
  OBVIOUS
<1> USE DEF superVars, osVars, childVars, ghostVars, Present
<1>1. ASSUME NEW p \in Pid, Worker(p) PROVE ViewerKept'
  <2>1. ASSUME NEW u \in Url, WorkerMkdir(p, u) PROVE ViewerKept'
    BY <2>1 DEF WorkerMkdir, QueueOrder, RefIsMedia, ViewerKept, TypeOK
  <2>2. CASE WorkerAddref(p) \/ WorkerExit(p)
    BY <2>2 DEF WorkerAddref, WorkerExit, Die, ViewerKept, TypeOK
  <2> QED
    BY <1>1, <2>1, <2>2 DEF Worker
<1>2. CASE Accept
  BY <1>2 DEF Accept, Fork, QueueOrder, RefIsMedia, ViewerKept, TypeOK
<1>3. CASE OnAddref
  <2> DEFINE m == Head(inbox)
  <2>1. m.pid \in Pid /\ m.url \in Url /\ m = inbox[1] /\ 1 \in DOMAIN inbox
    BY <1>3, HeadTyped DEF OnAddref, TypeOK
  <2> SUFFICES ASSUME NEW p \in Pid, ref'[p] = "counted"
               PROVE  job'[p] \in Url /\ clients'[p] = job'[p] /\ streams'[job'[p]].pid # NoProc
    BY DEF ViewerKept
  <2>2. /\ \A u \in Url : Present(u) => streams'[u].pid # NoProc
        /\ \A q \in Pid : q # m.pid => clients'[q] = clients[q]
    <3>1. CASE AddrefKnown(m.pid, m.url)
      BY <2>1, <3>1 DEF AddrefKnown, CountRef, TypeOK
    <3>2. CASE AddrefNew(m.pid, m.url)
      BY <2>1, <3>2, ConstantAssumption DEF AddrefNew, CountRef, TypeOK
    <3>3. CASE AddrefNoFork(m.url)
      BY <2>1, <3>3 DEF AddrefNoFork, TypeOK
    <3> QED
      BY <1>3, <3>1, <3>2, <3>3 DEF OnAddref
  <2>3. life[p] # "free" /\ job'[p] = job[p]
    <3>1. ref[p] # "none"
      BY <1>3, <2>1, ConstantAssumption DEF OnAddref, QueueOrder, FreshIsQueued, TypeOK
    <3> QED
      BY <1>3, <3>1
      DEF OnAddref, AddrefKnown, AddrefNew, AddrefNoFork, Fork, QueueOrder, RefIsMedia, TypeOK
  <2>4. CASE p = m.pid
    <3>1. ~m.stale
      BY <1>3, <2>1, <2>4 DEF OnAddref, QueueOrder, SettledIsAlone
    <3>2. job[p] = m.url
      BY <2>1, <2>4, <3>1 DEF QueueOrder, FreshIsQueued
    <3>3. AddrefKnown(m.pid, m.url) \/ AddrefNew(m.pid, m.url)
      BY <1>3, <2>1, <2>4, <3>1 DEF OnAddref, TypeOK
    <3> QED
      <4>1. CASE AddrefKnown(m.pid, m.url)
        BY <2>1, <2>3, <2>4, <3>2, <4>1 DEF AddrefKnown, CountRef, TypeOK
      <4>2. CASE AddrefNew(m.pid, m.url)
        BY <2>1, <2>3, <2>4, <3>2, <4>2, ConstantAssumption
        DEF AddrefNew, CountRef, TypeOK
      <4> QED
        BY <3>3, <4>1, <4>2
  <2>5. CASE p # m.pid
    <3>1. ref[p] = "counted"
      BY <1>3, <2>1, <2>5 DEF OnAddref, TypeOK
    <3> QED
      BY <2>2, <2>3, <2>5, <3>1 DEF ViewerKept
  <2> QED
    BY <2>4, <2>5
<1>4. ASSUME NEW p \in Pid, Reap(p) PROVE ViewerKept'
  <2> SUFFICES ASSUME NEW q \in Pid, ref'[q] = "counted"
               PROVE  job'[q] \in Url /\ clients'[q] = job'[q] /\ streams'[job'[q]].pid # NoProc
    BY DEF ViewerKept
  <2>1. q # p /\ ref[q] = "counted" /\ job'[q] = job[q]
    BY <1>4 DEF Reap, TypeOK
  <2>2. job[q] \in Url /\ clients[q] = job[q] /\ Present(job[q])
    BY <2>1 DEF ViewerKept
  <2>3. CASE ReleaseUnknown(p)
    BY <2>1, <2>2, <2>3 DEF ReleaseUnknown
  <2>4. CASE ReleaseOne(p)
    BY <2>1, <2>2, <2>4 DEF ReleaseOne, TypeOK
  <2>5. CASE ReleaseLast(p)
    <3>1. clients[p] \in Url /\ streams[clients[p]].nref \in Nat /\ streams[clients[p]].nref <= 1
      BY <2>5 DEF ReleaseLast, TypeOK
    <3>2. clients[p] # job[q]
      BY <2>1, <2>2, <3>1, TwoHolders
    <3> QED
      BY <2>1, <2>2, <2>5, <3>2 DEF ReleaseLast, TypeOK
  <2> QED
    BY <1>4, <2>3, <2>4, <2>5 DEF Reap
<1>5. CASE Shutdown
  BY <1>5 DEF Shutdown, ViewerKept
<1>6. CASE ~(Accept \/ Shutdown \/ OnAddref \/ \E p \in Pid : Worker(p) \/ Reap(p))
  BY <1>6
  DEF Next, vars, Accepting, Receiving, Reaping, Connect, Select, Interrupt,
      AcceptDone, RecvDone, ReapDone, ClearFlag, Restart, Producer,
      ProducerChdir, ProducerFail, ViewerKept
<1> QED
  BY <1>1, <1>2, <1>3, <1>4, <1>5, <1>6

\* No release of another worker, no recycled pid and no late reference takes
\* the stream away from a viewer that is counted.
THEOREM ViewersKept == Spec => []ViewerKept
<1>1. Init => ViewerKept
  BY DEF Init, ViewerKept
<1> QED
  BY <1>1, NextKept, TypeCorrect, RefsAlwaysBacked, AlwaysOrdered, PTL DEF Spec

-----------------------------------------------------------------------------
(* Exact counts *)

\* What LeaksOnlyLate says of one stream.
Exact(u) ==
  /\ streams[u].nref = Cardinality(Holders(u))
  /\ \A p \in Holders(u) : ref[p] = "counted"

\* A reference that is counted is a late one, or one more client of its stream.
LEMMA CountRefExact ==
  ASSUME TypeOK, NEW w \in Pid, NEW u \in Url, NEW q \in Pid, NEW n \in Nat,
         CountRef(w, u, [nref |-> n, pid |-> q]), ref'[w] = "counted" \/ u \in late',
         \A p \in Pid \ {w} : ref'[p] = ref[p],
         NEW v \in Url \ late', Exact(v), w \notin Holders(v),
         v = u => n = Cardinality(Holders(u))
  PROVE  Exact(v)'
<1>1. /\ clients' = [clients EXCEPT ![w] = u]
      /\ streams'[v].nref = IF v = u THEN n + 1 ELSE streams[v].nref
  BY DEF CountRef, TypeOK
<1>2. IsFiniteSet(Holders(v)) /\ Holders(v) \subseteq Pid
  BY HoldersFinite DEF Holders
<1>3. CASE v # u
  <2>0. clients' = [clients EXCEPT ![w] = u]
    BY <1>1
  <2>1. Holders(v)' = Holders(v) \ {w}
    BY <1>3, <2>0, HoldersAdd
  <2> QED
    BY <1>1, <1>2, <1>3, <2>1 DEF Exact
<1>4. CASE v = u
  <2>1. Holders(v)' = Holders(v) \cup {w} /\ ref'[w] = "counted"
    BY <1>1, <1>4, HoldersAdd
  <2>2. Cardinality(Holders(v) \cup {w}) = Cardinality(Holders(v)) + 1
    BY <1>2, FS_AddElement
  <2>3. \A p \in Holders(v)' : ref'[p] = "counted"
    BY <1>2, <2>1 DEF Exact
  <2> QED
    BY <1>1, <1>4, <2>1, <2>2, <2>3 DEF Exact
<1> QED
  BY <1>3, <1>4

\* on_addref keeps the counts exact: no datagram comes from a client that is counted already.
LEMMA OnAddrefExact ==
  ASSUME TypeOK, RefsBacked, QueueOrder, LeaksOnlyLate, OnAddref
  PROVE  LeaksOnlyLate'
<1> DEFINE m == Head(inbox)
           w == m.pid
           u == m.url
<1>1. w \in Pid /\ u \in Url /\ m.stale \in BOOLEAN /\ m = inbox[1] /\ 1 \in DOMAIN inbox
  BY HeadTyped DEF OnAddref, TypeOK
<1>2. ref[w] \in {"none", "queued"}
  BY <1>1 DEF QueueOrder, SettledIsAlone
<1>3. /\ \A p \in Pid \ {w} : ref'[p] = ref[p]
      /\ late \subseteq late'
  BY <1>1 DEF OnAddref, TypeOK
<1> SUFFICES ASSUME NEW v \in Url \ late' PROVE Exact(v)'
  BY DEF LeaksOnlyLate, Exact
<1>4. Exact(v) /\ w \notin Holders(v) /\ Holders(v) \subseteq Pid
  BY <1>2, <1>3 DEF LeaksOnlyLate, Exact, Holders
<1>5. ref'[w] = "counted" \/ u \in late' \/ AddrefNoFork(u)
  BY <1>1 DEF OnAddref, TypeOK
<1> HIDE DEF w, u
<1>6. CASE AddrefKnown(w, u)
  <2>1. PICK q \in Pid, n \in Nat : streams[u] = [nref |-> n, pid |-> q]
    BY <1>1, <1>6 DEF AddrefKnown, Present, TypeOK
  <2>2. CountRef(w, u, [nref |-> n, pid |-> q]) /\ ~AddrefNoFork(u)
    BY <1>6, <2>1 DEF AddrefKnown, AddrefNoFork
  <2>3. v = u => n = Cardinality(Holders(u))
    BY <1>4, <2>1 DEF Exact
  <2> QED
    BY <1>1, <1>3, <1>4, <1>5, <2>2, <2>3, CountRefExact
<1>7. CASE AddrefNew(w, u)
  <2>1. PICK q \in Pid : CountRef(w, u, [nref |-> 0, pid |-> q])
    BY <1>7 DEF AddrefNew
  <2>2. Cardinality(Holders(u)) = 0
    BY <1>1, <1>7, FS_EmptySet DEF AddrefNew, RefsBacked
  <2>3. ref'[w] = "counted" \/ u \in late'
    <3>1. clients'[w] = u /\ (clients[w] # u \/ v # u)
      BY <1>1, <1>4, <2>1 DEF CountRef, Holders, TypeOK
    <3>2. streams' = [streams EXCEPT ![u] = [nref |-> 1, pid |-> q]]
      BY <2>1 DEF CountRef
    <3>3. ~AddrefNoFork(u)
      BY <1>1, <3>2, ConstantAssumption DEF AddrefNoFork, NoEntry, TypeOK
    <3> QED
      BY <1>5, <3>3
  <2> QED
    BY <1>1, <1>3, <1>4, <2>1, <2>2, <2>3, CountRefExact
<1>8. CASE AddrefNoFork(u)
  <2>1. Holders(v)' = Holders(v) /\ clients' = clients
    BY <1>8 DEF AddrefNoFork, Holders
  <2>2. streams'[v].nref = streams[v].nref
    <3>1. CASE v = u
      <4>1. Holders(u) = {} /\ streams[u].nref = 0
        BY <1>1, <1>4, <1>8, <3>1, FS_EmptySet DEF AddrefNoFork, RefsBacked, Exact
      <4> QED
        BY <1>1, <1>8, <3>1, <4>1 DEF AddrefNoFork, NoEntry, TypeOK
    <3>2. CASE v # u
      BY <1>1, <1>8, <3>2 DEF AddrefNoFork, TypeOK
    <3> QED
      BY <3>1, <3>2
  <2> QED
    BY <1>3, <1>4, <2>1, <2>2 DEF Exact
<1> QED
  BY <1>6, <1>7, <1>8 DEF OnAddref, w, u

\* on_release keeps the counts exact, and an erased stream has none.
LEMMA ReapExact ==
  ASSUME TypeOK, RefsBacked, LeaksOnlyLate, NEW p \in Pid, Reap(p)
  PROVE  LeaksOnlyLate'
<1> DEFINE u == clients[p]
<1> SUFFICES ASSUME NEW v \in Url \ late' PROVE Exact(v)'
  BY DEF LeaksOnlyLate, Exact
<1>1. /\ Cardinality(Holders(v)) \in Nat /\ IsFiniteSet(Holders(v)) /\ Holders(v) \subseteq Pid
      /\ streams[v].nref \in Nat
  BY HoldersFinite DEF Holders, TypeOK
<1>2. \A q \in Pid \ {p} : ref'[q] = ref[q]
  BY DEF Reap, TypeOK
<1>3. CASE ReleaseUnknown(p)
  <2>1. Holders(v)' = Holders(v) /\ p \notin Holders(v) /\ streams' = streams /\ late' = late
    BY <1>3, ConstantAssumption DEF ReleaseUnknown, Holders
  <2> QED
    BY <1>1, <1>2, <2>1 DEF LeaksOnlyLate, Exact
<1>4. CASE ReleaseOne(p) \/ ReleaseLast(p)
  <2>1. clients' = [clients EXCEPT ![p] = NoStream] /\ u \in Url
    BY <1>4 DEF ReleaseOne, ReleaseLast, TypeOK
  <2>2. /\ Holders(v)' = Holders(v) \ {p}
        /\ Cardinality(Holders(v)') = Cardinality(Holders(v)) - (IF u = v THEN 1 ELSE 0)
    BY <2>1, HoldersDrop
  <2>3. v \notin late => Exact(v)
    BY DEF LeaksOnlyLate, Exact
  <2>4. CASE ReleaseOne(p)
    <3>1. streams'[v].nref = streams[v].nref - (IF u = v THEN 1 ELSE 0) /\ late' = late
      BY <1>1, <2>4 DEF ReleaseOne, TypeOK
    <3> HIDE DEF u
    <3> QED
      BY <1>1, <1>2, <2>2, <2>3, <3>1 DEF Exact
  <2>5. CASE ReleaseLast(p)
    <3>1. /\ streams'[v] = IF u = v THEN NoEntry ELSE streams[v]
          /\ late' = late \ {u}
          /\ u = v => streams[v].nref <= 1
      BY <2>5 DEF ReleaseLast, TypeOK
    <3>2. CASE u = v
      <4>1. p \in Holders(v)
        BY <3>2 DEF Holders
      <4>2. Cardinality(Holders(v)) <= 1
        BY <1>1, <3>1, <3>2, <4>1 DEF RefsBacked
      <4>3. Cardinality(Holders(v)) # 0
        BY <1>1, <4>1, FS_EmptySet
      <4>4. Cardinality(Holders(v)') = 0
        BY <1>1, <2>2, <3>2, <4>2, <4>3
      <4>5. Holders(v)' = {}
        BY <1>1, <2>2, <4>4, FS_EmptySet, FS_RemoveElement
      <4> QED
        BY <3>1, <3>2, <4>4, <4>5 DEF Exact, NoEntry
    <3>3. CASE u # v
      BY <1>1, <1>2, <2>2, <2>3, <3>1, <3>3 DEF Exact
    <3> QED
      BY <3>2, <3>3
  <2> QED
    BY <1>4, <2>4, <2>5
<1> QED
  BY <1>3, <1>4 DEF Reap

\* Every step keeps the counts exact.
LEMMA NextExact ==
  TypeOK /\ RefsBacked /\ QueueOrder /\ LeaksOnlyLate /\ [Next]_vars => LeaksOnlyLate'
<1> SUFFICES ASSUME TypeOK, RefsBacked, QueueOrder, LeaksOnlyLate, [Next]_vars
             PROVE  LeaksOnlyLate'
  OBVIOUS
<1> USE DEF superVars, osVars, childVars, ghostVars
<1>1. CASE UNCHANGED <<streams, clients, ref, late>>
  BY <1>1 DEF LeaksOnlyLate, Holders
<1>2. ASSUME NEW p \in Pid, WorkerAddref(p) PROVE LeaksOnlyLate'
  <2>1. /\ UNCHANGED <<streams, clients, late>> /\ ref[p] = "none"
        /\ \A q \in Pid \ {p} : ref'[q] = ref[q]
    BY <1>2 DEF WorkerAddref, QueueOrder, RefIsMedia, TypeOK
  <2> QED
    BY <2>1 DEF LeaksOnlyLate, Holders
<1>3. CASE Shutdown
  BY <1>3, ConstantAssumption, FS_EmptySet DEF Shutdown, NoEntry, LeaksOnlyLate, Holders
<1>4. CASE ~(Shutdown \/ OnAddref \/ \E p \in Pid : WorkerAddref(p) \/ Reap(p))
  BY <1>1, <1>4
  DEF Next, vars, Accepting, Receiving, Reaping, Connect, Select, Interrupt, Accept,
      AcceptDone, RecvDone, ReapDone, ClearFlag, Restart, Worker, WorkerMkdir, WorkerExit,
      Producer, ProducerChdir, ProducerFail
<1> QED
  BY <1>2, <1>3, <1>4, OnAddrefExact, ReapExact

\* Only a reference that comes after the wait4 of its sender makes a count leak.
THEOREM OnlyLateLeaks == Spec => []LeaksOnlyLate
<1>1. Init => LeaksOnlyLate
  <2> SUFFICES ASSUME Init, NEW u \in Url PROVE streams[u].nref = 0 /\ Holders(u) = {}
    BY FS_EmptySet DEF LeaksOnlyLate
  <2> QED
    BY ConstantAssumption DEF Init, NoEntry, Holders
<1> QED
  BY <1>1, NextExact, TypeCorrect, RefsAlwaysBacked, AlwaysOrdered, PTL DEF Spec

-----------------------------------------------------------------------------
(* The producer that the last release kills *)

\* The producer of a stream that nobody else has bereft of it is running, and is its own.
\* (KillsOwnProducer alone lets it be a zombie, whose pid the next wait4 frees.)
ProducerThere ==
  \A u \in Url \ orphan :
    Present(u) => /\ streams[u].pid \in Pid
                  /\ life[streams[u].pid] = "run"
                  /\ phase[streams[u].pid] \in ProducerPhase
                  /\ job[streams[u].pid] = u

\* Every step keeps the producers, or notes the stream as bereft.
LEMMA NextThere == TypeOK /\ ProducerThere /\ [Next]_vars => ProducerThere'
<1> SUFFICES ASSUME TypeOK, ProducerThere, [Next]_vars PROVE ProducerThere'
  OBVIOUS
<1> USE DEF superVars, osVars, childVars, ghostVars, ProducerThere, Present
<1>1. ASSUME NEW p \in Pid, Worker(p) PROVE ProducerThere'
  BY <1>1
  DEF Worker, WorkerMkdir, WorkerAddref, WorkerExit, Die, WorkerPhase, ProducerPhase, TypeOK
<1>2. ASSUME NEW p \in Pid, Producer(p) PROVE ProducerThere'
  BY <1>2 DEF Producer, ProducerChdir, ProducerFail, Die, ProducerPhase, TypeOK
<1>3. CASE Accept
  BY <1>3 DEF Accept, Fork, TypeOK
<1>4. CASE OnAddref
  <2> DEFINE m == Head(inbox)
  <2>1. m.pid \in Pid /\ m.url \in Url /\ orphan' = orphan
    BY <1>4, HeadTyped DEF OnAddref
  <2>2. CASE AddrefKnown(m.pid, m.url)
    BY <2>1, <2>2 DEF AddrefKnown, CountRef, TypeOK
  <2>3. CASE AddrefNew(m.pid, m.url)
    <3>1. PICK q \in Pid : /\ Fork(q, "start", m.url)
                           /\ CountRef(m.pid, m.url, [nref |-> 0, pid |-> q])
      BY <2>3 DEF AddrefNew
    <3>2. \A v \in Url : streams'[v].pid = IF v = m.url THEN q ELSE streams[v].pid
      BY <2>1, <3>1 DEF CountRef, TypeOK
    <3>3. /\ life[q] = "free" /\ life'[q] = "run" /\ phase'[q] = "start" /\ job'[q] = m.url
          /\ \A p \in Pid \ {q} : life'[p] = life[p] /\ phase'[p] = phase[p] /\ job'[p] = job[p]
      BY <3>1 DEF Fork, TypeOK
    <3> HIDE DEF m
    <3> QED
      BY <2>1, <3>2, <3>3 DEF ProducerPhase
  <2>4. CASE AddrefNoFork(m.url)
    BY <2>1, <2>4 DEF AddrefNoFork, NoEntry, TypeOK
  <2> QED
    BY <1>4, <2>2, <2>3, <2>4 DEF OnAddref
<1>5. ASSUME NEW p \in Pid, Reap(p) PROVE ProducerThere'
  <2>1. /\ life[p] = "zombie"
        /\ \A q \in Pid \ {p} : phase'[q] = phase[q] /\ job'[q] = job[q]
    BY <1>5 DEF Reap, TypeOK
  <2>2. CASE ReleaseUnknown(p)
    BY <2>1, <2>2 DEF ReleaseUnknown, TypeOK
  <2>3. CASE ReleaseOne(p)
    <3>1. /\ \A v \in Url : streams'[v].pid = streams[v].pid
          /\ orphan' = orphan /\ \A q \in Pid \ {p} : life'[q] = life[q]
      BY <2>3 DEF ReleaseOne, TypeOK
    <3> QED
      BY <2>1, <3>1
  <2>4. CASE ReleaseLast(p)
    <3> DEFINE u == clients[p]
               hit == Killed(u, p)
    <3>1. /\ u \in Url
          /\ \A v \in Url : streams'[v] = IF v = u THEN NoEntry ELSE streams[v]
          /\ \A q \in Pid \ {p} : life'[q] = IF q \in hit THEN "zombie" ELSE life[q]
          /\ \A v \in Url \ {u} : v \notin orphan' =>
               v \notin orphan /\ \A q \in hit : ~(phase[q] \in ProducerPhase /\ job[q] = v)
      BY <2>4 DEF ReleaseLast, TypeOK
    <3> HIDE DEF u, hit
    <3> SUFFICES ASSUME NEW v \in Url \ orphan', streams'[v].pid # NoProc
                 PROVE  /\ streams'[v].pid \in Pid /\ life'[streams'[v].pid] = "run"
                        /\ phase'[streams'[v].pid] \in ProducerPhase
                        /\ job'[streams'[v].pid] = v
      OBVIOUS
    <3>2. v # u /\ streams'[v] = streams[v] /\ v \notin orphan
      BY <3>1 DEF NoEntry
    <3>3. /\ streams[v].pid \in Pid /\ life[streams[v].pid] = "run"
          /\ phase[streams[v].pid] \in ProducerPhase /\ job[streams[v].pid] = v
      BY <3>2
    <3>4. streams[v].pid # p /\ streams[v].pid \notin hit
      BY <2>1, <3>1, <3>2, <3>3
    <3> QED
      BY <2>1, <3>1, <3>2, <3>3, <3>4
  <2> QED
    BY <1>5, <2>2, <2>3, <2>4 DEF Reap
<1>6. CASE Shutdown
  BY <1>6 DEF Shutdown, NoEntry
<1>7. CASE ~(Shutdown \/ OnAddref \/ Accept \/ \E p \in Pid : Worker(p) \/ Producer(p) \/ Reap(p))
  BY <1>7
  DEF Next, vars, Accepting, Receiving, Reaping, Connect, Select, Interrupt,
      AcceptDone, RecvDone, ReapDone, ClearFlag, Restart
<1> QED
  BY <1>1, <1>2, <1>3, <1>4, <1>5, <1>6, <1>7

\* The pid that the last release kills is that of the stream's own producer.
THEOREM OwnProducerKilled == Spec => []KillsOwnProducer
<1>1. Init => ProducerThere
  BY DEF Init, NoEntry, ProducerThere, Present
<1>2. ProducerThere => KillsOwnProducer
  BY DEF ProducerThere, KillsOwnProducer
<1> QED
  BY <1>1, <1>2, NextThere, TypeCorrect, PTL DEF Spec

-----------------------------------------------------------------------------
(* The directory of a viewer *)

\* The directory that a worker has made stays until a release removes it, which is noted
\* for the workers that are not counted yet; it does not happen to those that are.
DirMade ==
  \A p \in Pid : phase[p] \in {"made", "media"} /\ ref[p] # "dropped"
                   => job[p] \in dirs \/ p \in swept

\* Every step keeps the directories of the workers, or notes their loss.
LEMMA NextDir ==
  TypeOK /\ RefsBacked /\ QueueOrder /\ ViewerKept /\ DirMade /\ [Next]_vars => DirMade'
<1> SUFFICES ASSUME TypeOK, RefsBacked, QueueOrder, ViewerKept, DirMade, [Next]_vars
             PROVE  DirMade'
  OBVIOUS
<1> USE DEF superVars, osVars, childVars, ghostVars, DirMade
<1>1. ASSUME NEW p \in Pid, Worker(p) PROVE DirMade'
  <2>1. ASSUME NEW u \in Url, WorkerMkdir(p, u) PROVE DirMade'
    BY <2>1 DEF WorkerMkdir, TypeOK
  <2>2. CASE WorkerAddref(p)
    BY <2>2 DEF WorkerAddref, QueueOrder, RefIsMedia, TypeOK
  <2>3. CASE WorkerExit(p)
    BY <2>3 DEF WorkerExit, Die
  <2> QED
    BY <1>1, <2>1, <2>2, <2>3 DEF Worker
<1>2. ASSUME NEW p \in Pid, Producer(p) PROVE DirMade'
  BY <1>2 DEF Producer, ProducerChdir, ProducerFail, Die, TypeOK
<1>3. CASE Accept
  BY <1>3 DEF Accept, Fork, TypeOK
<1>4. CASE OnAddref
  <2>1. \A p \in Pid : \/ phase'[p] = phase[p] /\ job'[p] = job[p]
                       \/ phase'[p] = "start"
    BY <1>4 DEF OnAddref, AddrefKnown, AddrefNew, AddrefNoFork, Fork, TypeOK
  <2>2. \A p \in Pid : ref'[p] # "dropped" => ref[p] # "dropped"
    <3>1. Head(inbox).pid \in Pid /\ ref[Head(inbox).pid] # "dropped"
      BY <1>4, HeadTyped DEF OnAddref, TypeOK, QueueOrder, SettledIsAlone
    <3> QED
      BY <1>4, <3>1 DEF OnAddref, TypeOK
  <2> QED
    BY <1>4, <2>1, <2>2 DEF OnAddref
<1>5. ASSUME NEW p \in Pid, Reap(p) PROVE DirMade'
  <2> SUFFICES ASSUME NEW q \in Pid, phase'[q] \in {"made", "media"}, ref'[q] # "dropped"
               PROVE  job'[q] \in dirs' \/ q \in swept'
    OBVIOUS
  <2>1. q # p /\ phase'[q] = phase[q] /\ job'[q] = job[q] /\ ref'[q] = ref[q]
    BY <1>5 DEF Reap, TypeOK
  <2>2. job[q] \in dirs \/ q \in swept
    BY <2>1
  <2>3. CASE ReleaseUnknown(p)
    BY <2>1, <2>2, <2>3 DEF ReleaseUnknown
  <2>4. CASE ReleaseOne(p)
    BY <2>1, <2>2, <2>4 DEF ReleaseOne
  <2>5. CASE ReleaseLast(p)
    <3>1. PICK gone \in SUBSET {clients[p]} :
            /\ dirs' = dirs \ gone
            /\ swept' = (swept \cup {r \in Pid : Announcing(r) /\ job[r] \in gone}) \ {p}
      BY <2>5 DEF ReleaseLast
    <3>2. CASE ref[q] = "counted"
      <4>1. clients[p] \in Url /\ streams[clients[p]].nref \in Nat
            /\ streams[clients[p]].nref <= 1
        BY <2>5 DEF ReleaseLast, TypeOK
      <4>2. clients[q] = job[q]
        BY <3>2 DEF ViewerKept
      <4>3. clients[p] # job[q]
        BY <2>1, <4>1, <4>2, TwoHolders
      <4> QED
        BY <2>1, <2>2, <3>1, <4>3
    <3>3. CASE ref[q] \in {"none", "queued"}
      BY <2>1, <2>2, <3>1, <3>3 DEF Announcing, WorkerPhase
    <3> QED
      BY <2>1, <3>2, <3>3 DEF TypeOK
  <2> QED
    BY <1>5, <2>3, <2>4, <2>5 DEF Reap
<1>6. CASE Shutdown
  BY <1>6 DEF Shutdown
<1>7. CASE ~(Shutdown \/ OnAddref \/ Accept \/ \E p \in Pid : Worker(p) \/ Producer(p) \/ Reap(p))
  BY <1>7
  DEF Next, vars, Accepting, Receiving, Reaping, Connect, Select, Interrupt,
      AcceptDone, RecvDone, ReapDone, ClearFlag, Restart
<1> QED
  BY <1>1, <1>2, <1>3, <1>4, <1>5, <1>6, <1>7

\* The directory that a counted viewer polls is there, unless it went before it was counted.
THEOREM DirsKept == Spec => []DirKept
<1>1. Init => DirMade
  BY DEF Init, DirMade
<1>2. QueueOrder /\ DirMade => DirKept
  BY DEF QueueOrder, RefIsMedia, DirMade, DirKept
<1> QED
  BY <1>1, <1>2, NextDir, TypeCorrect, RefsAlwaysBacked, AlwaysOrdered, ViewersKept, PTL DEF Spec

-----------------------------------------------------------------------------
(* The supervisor implements the viewer service *)

\* on_addref is a viewer that joins, a join for nobody, or no step at all.
LEMMA OnAddrefMaps ==
  ASSUME TypeOK, QueueOrder, ViewerKept, OnAddref
  PROVE  [Service!Next]_(Service!vars)
<1> DEFINE m == Head(inbox)
<1>1. m.pid \in Pid /\ m.url \in Url /\ m = inbox[1] /\ 1 \in DOMAIN inbox
  BY HeadTyped DEF OnAddref, TypeOK
<1>2. \A p \in Pid : ref[p] # "none" => job'[p] = job[p]
  BY DEF OnAddref, AddrefKnown, AddrefNew, AddrefNoFork, Fork, QueueOrder, RefIsMedia, TypeOK
<1>3. ASSUME AddrefKnown(m.pid, m.url) \/ AddrefNew(m.pid, m.url)
      PROVE  OnAir' = OnAir \cup {m.url}
  <2>1. CASE AddrefKnown(m.pid, m.url)
    BY <1>1, <2>1 DEF AddrefKnown, CountRef, OnAir, Present, TypeOK
  <2>2. CASE AddrefNew(m.pid, m.url)
    BY <1>1, <2>2, ConstantAssumption DEF AddrefNew, CountRef, OnAir, Present, TypeOK
  <2> QED
    BY <1>3, <2>1, <2>2
<1>4. CASE m.stale
  <2>1. ref' = ref
    BY <1>4 DEF OnAddref
  <2>2. Watching' = Watching
    BY <1>2, <2>1 DEF Watching
  <2>3. CASE AddrefKnown(m.pid, m.url) \/ AddrefNew(m.pid, m.url)
    BY <1>1, <1>3, <2>2, <2>3 DEF Service!Next, Service!JoinTooLate
  <2>4. CASE AddrefNoFork(m.url)
    <3>1. OnAir' = OnAir
      BY <1>1, <2>4 DEF AddrefNoFork, OnAir, Present, NoEntry, TypeOK
    <3> QED
      BY <2>2, <3>1 DEF Service!vars
  <2> QED
    BY <2>3, <2>4 DEF OnAddref
<1>5. CASE ~m.stale
  <2>1. ref[m.pid] = "queued" /\ job[m.pid] = m.url
    BY <1>1, <1>5 DEF QueueOrder, FreshIsQueued
  <2>2. CASE AddrefNoFork(m.url)
    <3>1. OnAir' = OnAir
      BY <1>1, <2>2 DEF AddrefNoFork, OnAir, Present, NoEntry, TypeOK
    <3>2. Present(m.url) = FALSE /\ job' = job
      BY <2>2 DEF AddrefNoFork
    <3>3. ref' = [ref EXCEPT ![m.pid] = "dropped"]
      BY <1>5, <2>2 DEF OnAddref, AddrefKnown, AddrefNew, AddrefNoFork, CountRef,
                        Fork, TypeOK
    <3>4. Watching' = Watching
      BY <1>1, <2>1, <3>2, <3>3 DEF Watching, TypeOK
    <3> QED
      BY <3>1, <3>4 DEF Service!vars
  <2>3. CASE AddrefKnown(m.pid, m.url) \/ AddrefNew(m.pid, m.url)
    <3>1. ref' = [ref EXCEPT ![m.pid] = "counted"]
      <4>1. m.url \in OnAir'
        BY <1>3, <2>3
      <4>2. ~AddrefNoFork(m.url)
        BY <1>1, <4>1 DEF AddrefNoFork, OnAir, Present, NoEntry, TypeOK
      <4> QED
        BY <1>5, <4>2 DEF OnAddref
    <3>2. Watching[m.pid] = NoStream
      BY <1>1, <2>1 DEF Watching
    <3>3. Watching' = [Watching EXCEPT ![m.pid] = m.url]
      BY <1>1, <1>2, <2>1, <3>1 DEF Watching, TypeOK
    <3> QED
      BY <1>1, <1>3, <2>3, <3>2, <3>3 DEF Service!Next, Service!Join
  <2> QED
    BY <2>2, <2>3 DEF OnAddref
<1> QED
  BY <1>4, <1>5

\* wait4 of a worker is a viewer that leaves.
LEMMA ReapMaps ==
  ASSUME TypeOK, ViewerKept, ViewerKept', NEW p \in Pid, Reap(p)
  PROVE  Service!Leave(p)
<1>1. Watching' = [Watching EXCEPT ![p] = NoStream]
  BY DEF Reap, Watching, TypeOK
<1>2. OnAir' \subseteq OnAir
  <2>1. CASE ReleaseUnknown(p)
    BY <2>1 DEF ReleaseUnknown, OnAir, Present
  <2>2. CASE ReleaseOne(p)
    BY <2>2 DEF ReleaseOne, OnAir, Present, TypeOK
  <2>3. CASE ReleaseLast(p)
    BY <2>3 DEF ReleaseLast, OnAir, Present, NoEntry, TypeOK
  <2> QED
    BY <2>1, <2>2, <2>3 DEF Reap
<1>3. \A q \in Pid : Watching'[q] \in OnAir' \cup {NoStream}
  BY DEF ViewerKept, Watching, OnAir, Present
<1>4. OnAir \subseteq Url /\ NoStream \notin OnAir
  BY ConstantAssumption DEF OnAir
<1> DEFINE off == OnAir \ OnAir'
<1>5. off \in SUBSET OnAir /\ OnAir' = OnAir \ off
  BY <1>2
<1>6. \A q \in Pid : Watching'[q] \notin off
  BY <1>3, <1>4
<1> QED
  BY <1>1, <1>5, <1>6 DEF Service!Leave

\* Every step of the supervisor is a step of the service or none.
LEMMA NextMaps ==
  TypeOK /\ QueueOrder /\ ViewerKept /\ ViewerKept' /\ [Next]_vars
    => [Service!Next]_(Service!vars)
<1> SUFFICES ASSUME TypeOK, QueueOrder, ViewerKept, ViewerKept', [Next]_vars
             PROVE  [Service!Next]_(Service!vars)
  OBVIOUS
<1> USE DEF superVars, osVars, childVars, ghostVars
<1>1. ASSUME streams' = streams,
             \A p \in Pid : (ref[p] = "counted" <=> ref'[p] = "counted")
                            /\ (ref[p] = "counted" => job'[p] = job[p])
      PROVE  UNCHANGED (Service!vars)
  BY <1>1 DEF Service!vars, Watching, OnAir, Present
<1>2. ASSUME NEW p \in Pid, Worker(p) PROVE UNCHANGED (Service!vars)
  <2>1. streams' = streams
    BY <1>2 DEF Worker, WorkerMkdir, WorkerAddref, WorkerExit
  <2>2. \A q \in Pid : (ref[q] = "counted" <=> ref'[q] = "counted")
                       /\ (ref[q] = "counted" => job'[q] = job[q])
    BY <1>2
    DEF Worker, WorkerMkdir, WorkerAddref, WorkerExit, QueueOrder, RefIsMedia, TypeOK
  <2> QED
    BY <1>1, <2>1, <2>2
<1>3. ASSUME NEW p \in Pid, Producer(p) PROVE UNCHANGED (Service!vars)
  BY <1>1, <1>3 DEF Producer, ProducerChdir, ProducerFail
<1>4. CASE Accept
  <2>1. streams' = streams /\ ref' = ref
    BY <1>4 DEF Accept
  <2>2. \A q \in Pid : ref[q] = "counted" => job'[q] = job[q]
    BY <1>4 DEF Accept, Fork, QueueOrder, RefIsMedia, TypeOK
  <2> QED
    BY <1>1, <2>1, <2>2
<1>5. CASE Shutdown
  <2>1. Watching' = [p \in Pid |-> NoStream] /\ OnAir' = {}
    BY <1>5 DEF Shutdown, Watching, OnAir, Present, NoEntry
  <2> QED
    BY <2>1 DEF Service!Next, Service!Close
<1>6. ASSUME NEW p \in Pid, Reap(p) PROVE Service!Next
  BY <1>6, ReapMaps DEF Service!Next
<1>7. CASE OnAddref
  BY <1>7, OnAddrefMaps
<1>8. CASE ~(Accept \/ Shutdown \/ OnAddref \/ \E p \in Pid : Worker(p) \/ Producer(p) \/ Reap(p))
  BY <1>1, <1>8
  DEF Next, vars, Accepting, Receiving, Reaping, Connect, Select, Interrupt,
      AcceptDone, RecvDone, ReapDone, ClearFlag, Restart
<1> QED
  BY <1>2, <1>3, <1>4, <1>5, <1>6, <1>7, <1>8

\* The supervisor, with its tables, signals, datagrams and recycled pids, is an
\* implementation of the viewer service: no stream goes off the air under a viewer.
THEOREM ImplementsService == Spec => ServiceSpec
<1>1. Init => Service!Init
  BY DEF Init, Service!Init, Watching, OnAir, Present, NoEntry
<1> QED
  BY <1>1, NextMaps, TypeCorrect, AlwaysOrdered, ViewersKept, PTL
  DEF Spec, ServiceSpec, Service!Spec

=============================================================================
