--------------------------- MODULE MediaCacheProofs ----------------------------
(***************************************************************************)
(* Proofs about MediaCache, for any turn length, any durations, negative    *)
(* ones and none included, and any number of viewers.  The types hold,     *)
(* viewers get whole fragments, and every file is counted and listed.      *)
(* Until the files of the directory span half a turn (wide), viewers get   *)
(* the fragments in the order they were made, and wait for the turn of the *)
(* numbers only when they must; and the files come to span so much only if *)
(* the list is as long.  File numbers are compared with production numbers *)
(* through Stamp, which stays linear in both.                              *)
(***************************************************************************)
EXTENDS MediaCache, SequenceTheorems, WellFoundedInduction, TLAPS

\* The number that goes with a worker's last.
LastName(w) == IF last[w] = 0 THEN MaxSeq ELSE last[w]

\* Files carry the latest production of their number.
FilesStamped == \A n \in There : files[n].made = Stamp(n) /\ Stamp(n) >= 1

\* A worker's last goes with its production, unless that is a turn ago.
PosKept ==
  \A w \in Viewer :
    /\ sent[w] <= pos[w] /\ pos[w] <= made
    /\ init[w] => pos[w] = 0 /\ last[w] = 0
    /\ ~init[w] /\ pos[w] > made - MaxSeq => pos[w] = Stamp(LastName(w))

\* What a scan shows and the worker would take is newer than what it has.
ScanNewer ==
  \A w \in Viewer : \A n \in sure[w] \cup maybe[w] :
    /\ wpc[w] = "scan"
    /\ Stamp(n) >= 1
    /\ Ahead(w, n) => Stamp(n) > pos[w]

\* A file about to be opened is newer than what was sent.
PickNewer ==
  \A w \in Viewer : wpc[w] = "open" =>
    /\ pick[w] \in Name /\ ~init[w] /\ LastName(w) = pick[w]
    /\ sent[w] < pos[w] /\ pos[w] <= Stamp(pick[w])

\* A fragment at hand has a duration, a transfer has a number.
InTransfer ==
  /\ ppc \in {"wait", "room", "transfer"}
  /\ ppc # "wait" => dur \in Duration
  /\ ppc = "transfer" => seq \in Name /\ made >= 1

\* The invariant, until the files span half a turn.
Ordered == FilesStamped /\ PosKept /\ ScanNewer /\ PickNewer /\ InTransfer

\* The files are fewer productions apart than the half of a turn that no worker accepts.
SpanSmall == \A n \in There : made - files[n].made < MaxSeq - Half

-----------------------------------------------------------------------------
(* Numbers *)

\* A number is a multiple of p and a remainder, and the remainder is the one of the sum.
LEMMA Division ==
  ASSUME NEW p \in Nat \ {0}, NEW a \in Int
  PROVE  a % p \in 0 .. p - 1 /\ \E q \in Int : a = p * q + (a % p)
<1>1. a % p \in 0 .. p - 1
  OBVIOUS
<1>2. a \div p \in Int
  OBVIOUS
<1>3. a = p * (a \div p) + (a % p)
  OBVIOUS
<1> QED
  BY <1>1, <1>2, <1>3

LEMMA RemainderIs ==
  ASSUME NEW p \in Nat \ {0}, NEW q \in Int, NEW r \in 0 .. p - 1
  PROVE  (p * q + r) % p = r
OBVIOUS

\* Counting in a word, as cached_ms does, up or down.
LEMMA CountModulo ==
  ASSUME NEW p \in Nat \ {0}, NEW a \in Int, NEW n \in Int
  PROVE  ((a % p) + n) % p = (a + n) % p
<1> DEFINE r == a % p
           b == r + n
           rb == b % p
<1>1. r \in 0 .. p - 1 /\ \E q \in Int : a = p * q + r
  BY Division
<1>2. PICK qa \in Int : a = p * qa + r
  BY <1>1
<1>3. b \in Int
  BY <1>1
<1>4. rb \in 0 .. p - 1 /\ \E q \in Int : b = p * q + rb
  BY <1>3, Division
<1>5. PICK qb \in Int : b = p * qb + rb
  BY <1>4
<1>6. p * (qa + qb) = p * qa + p * qb
  OBVIOUS
<1>7. a + n = p * (qa + qb) + rb
  <2> HIDE DEF rb, r
  <2> QED BY <1>1, <1>2, <1>4, <1>5, <1>6
<1>8. (p * (qa + qb) + rb) % p = rb
  <2> HIDE DEF rb
  <2> QED BY <1>4, RemainderIs
<1> QED
  BY <1>7, <1>8

\* Half a turn is at least one number and less than a turn.
LEMMA HalfBounds == Half \in Nat /\ Half >= 1 /\ Half < MaxSeq
BY CacheAssumption DEF Half

\* A production gives its number a new stamp and leaves the others alone.
LEMMA StampGrows ==
  ASSUME seq \in 0 .. MaxSeq, made \in Nat, seq' = NextSeq, made' = made + 1
  PROVE  /\ NextSeq \in Name
         /\ \A n \in Name : Stamp(n)' = IF n = NextSeq THEN made + 1 ELSE Stamp(n)
         /\ Stamp(NextSeq) = made + 1 - MaxSeq
BY CacheAssumption DEF Stamp, NextSeq, Name

\* Stamps are at most the count of productions, different for different numbers.
LEMMA StampBounds ==
  ASSUME seq \in 0 .. MaxSeq, made \in Nat, NEW n \in Name
  PROVE  /\ Stamp(n) \in Int /\ Stamp(n) <= made
         /\ \A m \in Name : Stamp(m) = Stamp(n) => m = n
         /\ seq \in Name => Stamp(seq) = made
BY CacheAssumption DEF Stamp, Name

\* A number ahead of a worker, with a stamp of the last half turn, is newer than
\* what the worker has: this is what the half-turn test is for.
LEMMA AheadIsNewer ==
  ASSUME TypeOK, PosKept, NEW w \in Viewer, NEW n \in Name, Ahead(w, n),
         Stamp(n) >= 1, made - Stamp(n) < MaxSeq - Half
  PROVE  Stamp(n) > pos[w]
<1>1. /\ seq \in 0 .. MaxSeq /\ made \in Nat /\ last[w] \in 0 .. MaxSeq - 1
      /\ pos[w] \in Nat /\ MaxSeq \in Nat /\ n \in 1 .. MaxSeq
  BY CacheAssumption DEF TypeOK, Name
<1>2. CASE init[w]
  BY <1>1, <1>2, StampBounds DEF PosKept
<1>3. CASE ~init[w]
  <2> SUFFICES ASSUME pos[w] >= Stamp(n) PROVE FALSE
    BY <1>1, StampBounds
  <2>1. pos[w] > made - MaxSeq
    BY <1>1, HalfBounds, StampBounds
  <2>2. pos[w] = Stamp(LastName(w))
    BY <1>3, <2>1 DEF PosKept
  <2>3. n > last[w] /\ n <= last[w] + Half
    BY <1>3 DEF Ahead
  <2>4. CASE last[w] = 0
    BY <1>1, <2>2, <2>3, <2>4, HalfBounds DEF LastName, Stamp
  <2>5. CASE last[w] # 0
    BY <1>1, <2>2, <2>3, <2>5, HalfBounds DEF LastName, Stamp
  <2> QED
    BY <2>4, <2>5
<1> QED
  BY <1>2, <1>3

-----------------------------------------------------------------------------
(* The steps *)

\* What the types rest on: a number that is seen in the directory has been produced, and a
\* worker opens what it has seen.  It holds whatever the cache spans.
Held ==
  /\ InTransfer
  /\ \A n \in There : Stamp(n) >= 1
  /\ \A w \in Viewer : \A n \in sure[w] \cup maybe[w] : Stamp(n) >= 1
  /\ \A w \in Viewer : wpc[w] = "open" => pick[w] \in Name

\* The order implies it.
LEMMA OrderedHolds == Ordered => Held
BY DEF Ordered, Held, FilesStamped, ScanNewer, PickNewer

\* The number of the file that goes, and of the entry that comes.
LEMMA CacheNames ==
  ASSUME TypeOK
  PROVE  /\ cache # <<>> => Head(cache).name \in Name /\ Head(cache).dur \in Duration
                            /\ Tail(cache) \in Seq([name : Name, dur : Duration])
         /\ \A n \in Name, d \in Duration :
              Append(cache, [name |-> n, dur |-> d]) \in Seq([name : Name, dur : Duration])
<1> DEFINE Entry == [name : Name, dur : Duration]
<1>1. cache \in Seq(Entry)
  BY DEF TypeOK
<1>2. \A n \in Name, d \in Duration : [name |-> n, dur |-> d] \in Entry
  OBVIOUS
<1>3. cache # <<>> => Head(cache) \in Entry /\ Tail(cache) \in Seq(Entry)
  <2> HIDE DEF Entry
  <2> QED BY <1>1
<1>4. \A e \in Entry : Append(cache, e) \in Seq(Entry)
  <2> HIDE DEF Entry
  <2> QED BY <1>1
<1> QED
  BY <1>2, <1>3, <1>4

\* The types are kept.
LEMMA NextTypes == TypeOK /\ Held /\ [Next]_vars => TypeOK'
<1> SUFFICES ASSUME TypeOK, Held, [Next]_vars PROVE TypeOK'
  OBVIOUS
<1> USE CacheAssumption DEF dirVars, prodVars, workVars, Seen
<1>1. ASSUME NEW d \in Duration, NextChunk(d) PROVE TypeOK'
  BY <1>1 DEF NextChunk, TypeOK
<1>2. CASE Evict
  <2>1. /\ Head(cache).name \in Name /\ Head(cache).dur \in Duration
        /\ Tail(cache) \in Seq([name : Name, dur : Duration])
    BY <1>2, CacheNames DEF Evict, TooLong
  <2>2. cached' \in 0 .. Word - 1
    <3>1. cached - Head(cache).dur \in Int /\ Word \in Nat \ {0}
      <4>1. Head(cache).dur \in Int
        BY <2>1
      <4>2. cached \in 0 .. Word - 1
        BY DEF TypeOK
      <4>3. Word \in Nat \ {0}
        OBVIOUS
      <4> QED
        BY <4>1, <4>2, <4>3
    <3>2. (cached - Head(cache).dur) % Word \in 0 .. Word - 1
      BY <3>1, Division
    <3> QED
      BY <1>2, <3>2 DEF Evict
  <2>3. sure' \in [Viewer -> SUBSET Name] /\ maybe' \in [Viewer -> SUBSET Name]
        /\ UNCHANGED <<wpc, last, init, pick, pos, sent, cur>>
    <3>1. CASE UNCHANGED workVars
      BY <3>1 DEF TypeOK
    <3>2. CASE Seen(Head(cache).name)
      BY <2>1, <3>2 DEF TypeOK
    <3> QED
      BY <1>2, <3>1, <3>2 DEF Evict
  <2> QED
    BY <1>2, <2>1, <2>2, <2>3 DEF Evict, TypeOK
<1>3. CASE OpenTmp \/ OpenFails
  <2>1. wide' \in BOOLEAN
    BY <1>3 DEF OpenTmp, OpenFails, UseNumber, TypeOK
  <2> QED
    BY <1>3, <2>1 DEF OpenTmp, OpenFails, UseNumber, NextSeq, TypeOK
<1>4. ASSUME NEW body \in {"whole", "empty", "failed"}, Transferred(body) PROVE TypeOK'
  <2>1. seq \in Name /\ made \in Nat /\ dur \in Duration
    BY <1>4 DEF Transferred, TypeOK, Held, InTransfer
  <2>2. cache' \in Seq([name : Name, dur : Duration])
    BY <1>4, <2>1, CacheNames DEF Transferred
  <2>3. files' \in [Name -> Fragment \cup {NoFile}]
    <3>1. body # "failed" => [made |-> made, body |-> body] \in Fragment
      BY <2>1 DEF Fragment
    <3> QED
      BY <1>4, <2>1, <3>1 DEF Transferred, TypeOK
  <2>4. sure' \in [Viewer -> SUBSET Name] /\ maybe' \in [Viewer -> SUBSET Name]
        /\ UNCHANGED <<wpc, last, init, pick, pos, sent, cur>>
    <3>1. CASE UNCHANGED workVars
      BY <3>1 DEF TypeOK
    <3>2. CASE Seen(seq)
      BY <2>1, <3>2 DEF TypeOK
    <3> QED
      BY <1>4, <3>1, <3>2 DEF Transferred
  <2>5. cached' \in 0 .. Word - 1
    <3>1. cached + dur \in Int /\ Word \in Nat \ {0}
      BY <2>1 DEF TypeOK
    <3>2. (cached + dur) % Word \in 0 .. Word - 1
      BY <3>1, Division
    <3> QED
      BY <1>4, <3>2 DEF Transferred
  <2> QED
    BY <1>4, <2>1, <2>2, <2>3, <2>4, <2>5 DEF Transferred, TypeOK
<1>5. ASSUME NEW w \in Viewer, Worker(w) PROVE TypeOK'
  <2>0. UNCHANGED <<dirVars, prodVars>>
    BY <1>5 DEF Worker, Join, Leave, OpenDir, OpenFile, Sent, Choose
  <2>1. CASE Join(w)
    BY <2>1 DEF Join, TypeOK
  <2>2. CASE Leave(w)
    BY <2>2 DEF Leave, TypeOK
  <2>3. CASE OpenDir(w)
    BY <2>3 DEF OpenDir, There, TypeOK
  <2>4. CASE Sent(w)
    BY <2>4 DEF Sent, TypeOK
  <2>5. CASE OpenFile(w)
    <3>1. files[pick[w]] # NoFile => files[pick[w]] \in Fragment /\ files[pick[w]].made \in Nat
      BY <2>5 DEF OpenFile, TypeOK, Fragment, Held
    <3>2. /\ wpc' \in [Viewer -> {"off", "look", "scan", "open", "send"}]
          /\ sent' \in [Viewer -> Nat] /\ pos' \in [Viewer -> Nat]
          /\ cur' \in [Viewer -> Fragment \cup {NoFile}]
      BY <2>5, <3>1 DEF OpenFile, TypeOK
    <3> QED
      BY <2>0, <2>5, <3>2 DEF OpenFile, TypeOK
  <2>6. ASSUME NEW shown \in SUBSET (sure[w] \cup maybe[w]), Choose(w, shown) PROVE TypeOK'
    <3>1. shown \subseteq Name
      BY DEF TypeOK
    <3>2. ASSUME NEW n \in shown PROVE Passed(n) \in 0 .. MaxSeq - 1 /\ Stamp(n) \in Nat
      <4>1. n \in Name /\ Stamp(n) >= 1 /\ Stamp(n) \in Int
        BY <3>1, <3>2, StampBounds DEF Held, TypeOK
      <4> QED
        BY <4>1 DEF Passed, Name
    <3>3. /\ sure' \in [Viewer -> SUBSET Name] /\ maybe' \in [Viewer -> SUBSET Name]
          /\ wpc' \in [Viewer -> {"off", "look", "scan", "open", "send"}]
          /\ sent' = sent /\ cur' = cur
      BY <2>6 DEF Choose, TypeOK
    <3>4. CASE UNCHANGED <<pick, last, init, pos>>
      BY <2>0, <3>3, <3>4 DEF TypeOK
    <3>5. ASSUME NEW n \in shown,
                 pick' = [pick EXCEPT ![w] = n], last' = [last EXCEPT ![w] = Passed(n)],
                 init' = [init EXCEPT ![w] = FALSE], pos' = [pos EXCEPT ![w] = Stamp(n)]
          PROVE  TypeOK'
      <4>1. n \in 0 .. MaxSeq /\ Passed(n) \in 0 .. MaxSeq - 1 /\ Stamp(n) \in Nat
        BY <3>1, <3>2, <3>5 DEF Name
      <4> QED
        BY <2>0, <3>3, <3>5, <4>1 DEF TypeOK
    <3> QED
      BY <2>6, <3>4, <3>5 DEF Choose
  <2> QED
    BY <1>5, <2>1, <2>2, <2>3, <2>4, <2>5, <2>6 DEF Worker
<1>6. CASE UNCHANGED vars
  BY <1>6 DEF vars, TypeOK
<1> QED
  BY <1>1, <1>2, <1>3, <1>4, <1>5, <1>6 DEF Next, Producer

\* Stamps only grow, and what comes into sight has one.
LEMMA NextHeld == TypeOK /\ Held /\ [Next]_vars => Held'
<1> SUFFICES ASSUME TypeOK, Held, [Next]_vars PROVE Held'
  OBVIOUS
<1> USE DEF dirVars, prodVars, workVars
<1>1. ASSUME InTransfer', UNCHANGED <<seq, made, files, workVars>> PROVE Held'
  BY <1>1 DEF Held, Stamp, There
<1>2. ASSUME NEW d \in Duration, NextChunk(d) PROVE Held'
  BY <1>1, <1>2 DEF NextChunk, InTransfer
<1>3. CASE OpenTmp \/ OpenFails
  <2>1. /\ seq \in 0 .. MaxSeq /\ made \in Nat /\ seq' = NextSeq /\ made' = made + 1
        /\ UNCHANGED <<files, workVars>> /\ ppc' \in {"room", "transfer"} /\ ppc = "room"
        /\ dur' = dur
    BY <1>3 DEF OpenTmp, OpenFails, UseNumber, TypeOK, Fits
  <2>2. NextSeq \in Name
        /\ \A n \in Name : Stamp(n)' = IF n = NextSeq THEN made + 1 ELSE Stamp(n)
    BY <2>1, StampGrows
  <2>3. InTransfer'
    BY <2>1, <2>2 DEF Held, InTransfer
  <2>4. \A n \in Name : Stamp(n) >= 1 => Stamp(n)' >= 1
    <3> SUFFICES ASSUME NEW n \in Name, Stamp(n) >= 1
                 PROVE  (IF n = NextSeq THEN made + 1 ELSE Stamp(n)) >= 1
      BY <2>2
    <3> QED
      BY <2>1
  <2>5. /\ There \subseteq Name /\ There' = There
        /\ \A w \in Viewer : sure[w] \cup maybe[w] \subseteq Name
    BY <2>1 DEF There, TypeOK
  <2> QED
    BY <2>1, <2>3, <2>4, <2>5 DEF Held
<1>4. ASSUME NEW n \in Name, Stamp(n) >= 1, Seen(n), UNCHANGED <<seq, made>>, InTransfer',
             There' \subseteq There \cup {n}
      PROVE  Held'
  <2>1. \A m : Stamp(m)' = Stamp(m)
    BY <1>4 DEF Stamp
  <2>2. \A w \in Viewer : sure'[w] \cup maybe'[w] \subseteq sure[w] \cup maybe[w] \cup {n}
    BY <1>4 DEF Seen
  <2> QED
    BY <1>4, <2>1, <2>2 DEF Held, Seen
<1>5. CASE Evict
  <2> DEFINE n == Head(cache).name
  <2>1. n \in Name /\ UNCHANGED <<seq, made, ppc, dur>> /\ files' = [files EXCEPT ![n] = NoFile]
    BY <1>5, CacheNames DEF Evict, TooLong
  <2>2. InTransfer' /\ There' \subseteq There
    BY <2>1 DEF Held, InTransfer, There, TypeOK
  <2>3. CASE n \in There /\ Seen(n)
    BY <1>4, <2>1, <2>2, <2>3 DEF Held
  <2>4. CASE UNCHANGED workVars
    BY <2>1, <2>2, <2>4 DEF Held, Stamp
  <2> QED
    BY <1>5, <2>1, <2>3, <2>4 DEF Evict, There
<1>6. ASSUME NEW body \in {"whole", "empty", "failed"}, Transferred(body) PROVE Held'
  <2>1. seq \in Name /\ seq \in 0 .. MaxSeq /\ made \in Nat /\ made >= 1
        /\ UNCHANGED <<seq, made>> /\ InTransfer'
    BY <1>6 DEF Transferred, TypeOK, Held, InTransfer
  <2>2. Stamp(seq) >= 1
    BY <2>1, StampBounds
  <2>3. CASE UNCHANGED <<files, workVars>>
    BY <1>1, <2>1, <2>3
  <2>4. CASE Seen(seq) /\ files' = [files EXCEPT ![seq] = [made |-> made, body |-> body]]
    <3>1. There' \subseteq There \cup {seq}
      BY <2>1, <2>4 DEF There, TypeOK
    <3> QED
      BY <1>4, <2>1, <2>2, <2>4, <3>1
  <2> QED
    BY <1>6, <2>3, <2>4 DEF Transferred
<1>7. ASSUME NEW w \in Viewer, Worker(w) PROVE Held'
  <2>0. UNCHANGED <<dirVars, prodVars>>
    BY <1>7 DEF Worker, Join, Leave, OpenDir, OpenFile, Sent, Choose
  <2>1. There' = There /\ InTransfer' /\ \A m : Stamp(m)' = Stamp(m)
    BY <2>0 DEF There, Held, InTransfer, Stamp
  <2>2. CASE Join(w) \/ Leave(w) \/ Sent(w) \/ OpenFile(w)
    <3>1. /\ UNCHANGED <<sure, maybe>> /\ wpc'[w] # "open"
          /\ \A v \in Viewer \ {w} : wpc'[v] = wpc[v] /\ pick'[v] = pick[v]
      BY <2>2 DEF Join, Leave, Sent, OpenFile, TypeOK
    <3> QED
      BY <2>1, <3>1 DEF Held
  <2>3. CASE OpenDir(w)
    BY <2>1, <2>3 DEF OpenDir, Held, TypeOK
  <2>4. ASSUME NEW shown \in SUBSET (sure[w] \cup maybe[w]), Choose(w, shown) PROVE Held'
    <3>1. /\ sure'[w] = {} /\ maybe'[w] = {}
          /\ \A v \in Viewer \ {w} : sure'[v] = sure[v] /\ maybe'[v] = maybe[v]
                                     /\ wpc'[v] = wpc[v] /\ pick'[v] = pick[v]
          /\ wpc'[w] = "look" \/ (wpc'[w] = "open" /\ pick'[w] \in shown)
      BY <2>4 DEF Choose, TypeOK
    <3>2. shown \subseteq Name
      BY DEF TypeOK
    <3> QED
      BY <2>1, <3>1, <3>2 DEF Held
  <2> QED
    BY <1>7, <2>2, <2>3, <2>4 DEF Worker
<1>8. CASE UNCHANGED vars
  BY <1>1, <1>8 DEF vars, Held, InTransfer
<1> QED
  BY <1>2, <1>3, <1>5, <1>6, <1>7, <1>8 DEF Next, Producer

\* Nothing has been seen in the empty directory.
LEMMA InitHeld == Init => TypeOK /\ Held
<1> SUFFICES ASSUME Init PROVE TypeOK /\ Held
  OBVIOUS
<1>1. cache \in Seq([name : Name, dur : Duration])
  BY DEF Init
<1>2. 0 \in 0 .. Word - 1 /\ 0 \in 0 .. MaxFails /\ 0 \in 0 .. MaxSeq - 1 /\ 0 \in 0 .. MaxSeq
  BY CacheAssumption
<1>3. TypeOK
  BY <1>1, <1>2 DEF Init, TypeOK
<1>4. Held
  BY DEF Init, Held, InTransfer, There, Name
<1> QED
  BY <1>3, <1>4

\* The directory, the producer and the workers keep their types, whatever the cache spans.
THEOREM TypeCorrect == Spec => []TypeOK
BY InitHeld, NextTypes, NextHeld, PTL DEF Spec

\* Types and numbers hold together.
LEMMA AlwaysHeld == Spec => [](TypeOK /\ Held)
BY InitHeld, NextTypes, NextHeld, PTL DEF Spec

-----------------------------------------------------------------------------
(* What a viewer gets is complete *)

\* What has a number is complete, or empty.
FilesWhole == \A n \in There : files[n].body \in {"whole", "empty"}

\* Every step keeps the fragments whole, in the directory and with the viewers.
LEMMA NextWhole == TypeOK /\ Held /\ FilesWhole /\ WholeOnly /\ [Next]_vars
                     => FilesWhole' /\ WholeOnly'
<1> SUFFICES ASSUME TypeOK, Held, FilesWhole, WholeOnly, [Next]_vars
             PROVE  FilesWhole' /\ WholeOnly'
  OBVIOUS
<1> USE DEF dirVars, prodVars, workVars
<1>1. CASE UNCHANGED <<files, wpc, cur>>
  BY <1>1 DEF FilesWhole, WholeOnly, There
<1>2. CASE \E d \in Duration : NextChunk(d)
  BY <1>1, <1>2 DEF NextChunk
<1>3. CASE OpenTmp \/ OpenFails
  BY <1>1, <1>3 DEF OpenTmp, OpenFails
<1>4. CASE Evict
  <2>1. UNCHANGED <<wpc, cur>> /\ Head(cache).name \in Name
        /\ files' = [files EXCEPT ![Head(cache).name] = NoFile]
    BY <1>4, CacheNames DEF Evict, TooLong, Seen
  <2> QED
    BY <2>1 DEF FilesWhole, WholeOnly, There, TypeOK
<1>5. ASSUME NEW body \in {"whole", "empty", "failed"}, Transferred(body)
      PROVE  FilesWhole' /\ WholeOnly'
  <2>1. CASE UNCHANGED <<dirVars, workVars>>
    BY <1>1, <2>1
  <2>2. CASE /\ body \in {"whole", "empty"} /\ Seen(seq)
             /\ files' = [files EXCEPT ![seq] = [made |-> made, body |-> body]]
    BY <2>2 DEF Seen, FilesWhole, WholeOnly, There, TypeOK
  <2> QED
    BY <1>5, <2>1, <2>2 DEF Transferred
<1>6. ASSUME NEW w \in Viewer, Worker(w) PROVE FilesWhole' /\ WholeOnly'
  <2>1. UNCHANGED <<dirVars, prodVars>>
    BY <1>6 DEF Worker, Join, Leave, OpenDir, OpenFile, Sent, Choose
  <2>2. FilesWhole'
    BY <2>1 DEF FilesWhole, There
  <2>3. \A v \in Viewer \ {w} : wpc'[v] = wpc[v] /\ cur'[v] = cur[v]
    BY <1>6 DEF Worker, Join, Leave, OpenDir, OpenFile, Sent, Choose, TypeOK
  <2>4. ASSUME wpc'[w] = "send" PROVE cur'[w].body = "whole"
    <3>1. OpenFile(w)
      BY <1>6, <2>4 DEF Worker, Join, Leave, OpenDir, OpenFile, Sent, Choose, TypeOK
    <3>2. /\ cur'[w] = files[pick[w]] /\ files[pick[w]] # NoFile
          /\ files[pick[w]].body # "empty"
      BY <2>4, <3>1 DEF OpenFile, TypeOK
    <3>3. pick[w] \in There
      BY <3>1, <3>2 DEF OpenFile, Held, There
    <3> QED
      BY <3>2, <3>3 DEF FilesWhole
  <2> QED
    BY <2>2, <2>3, <2>4 DEF WholeOnly
<1>7. CASE UNCHANGED vars
  BY <1>1, <1>7 DEF vars
<1> QED
  BY <1>2, <1>3, <1>4, <1>5, <1>6, <1>7 DEF Next, Producer

\* A viewer never gets a part of a fragment.
THEOREM OnlyWhole == Spec => []WholeOnly
<1>1. Init => FilesWhole /\ WholeOnly
  BY DEF Init, FilesWhole, WholeOnly, There
<1> QED
  BY <1>1, NextWhole, AlwaysHeld, PTL DEF Spec

-----------------------------------------------------------------------------
(* The order *)

\* A number is used up: the stamps of the files of the cache do not change.
LEMMA NumberKeeps ==
  ASSUME TypeOK, Ordered, SpanSmall, OpenTmp \/ OpenFails
  PROVE  Ordered'
<1>1. /\ seq \in 0 .. MaxSeq /\ made \in Nat /\ MaxSeq \in Nat
      /\ seq' = NextSeq /\ made' = made + 1 /\ made' \in Nat
      /\ files' = files /\ workVars' = workVars
  BY CacheAssumption DEF TypeOK, OpenTmp, OpenFails, UseNumber, dirVars
<1>2. \A n \in Name : Stamp(n)' = IF n = NextSeq THEN made + 1 ELSE Stamp(n)
  BY <1>1, StampGrows
<1>3. NextSeq \in Name /\ Stamp(NextSeq) = made + 1 - MaxSeq
  BY <1>1, StampGrows
<1>4. \A n \in Name : Stamp(n) \in Int /\ Stamp(n) <= made
  BY <1>1, StampBounds
<1>5. FilesStamped'
  <2> SUFFICES ASSUME NEW n \in There PROVE files[n].made = Stamp(n)' /\ Stamp(n)' >= 1
    BY <1>1 DEF FilesStamped, There
  <2>1. n \in Name /\ files[n].made = Stamp(n) /\ Stamp(n) >= 1
    BY DEF There, Ordered, FilesStamped
  <2>2. made - Stamp(n) < MaxSeq - Half
    BY <2>1 DEF SpanSmall
  <2>3. n # NextSeq
    BY <1>1, <1>3, <2>1, <2>2, HalfBounds
  <2> QED
    BY <1>2, <2>1, <2>3
<1>6. PosKept'
  <2> SUFFICES ASSUME NEW w \in Viewer
               PROVE  /\ sent[w] <= pos[w] /\ pos[w] <= made + 1
                      /\ init[w] => pos[w] = 0 /\ last[w] = 0
                      /\ ~init[w] /\ pos[w] > made + 1 - MaxSeq
                           => pos[w] = Stamp(LastName(w))'
    BY <1>1 DEF PosKept, workVars
  <2>1. pos[w] \in Nat /\ sent[w] \in Nat /\ last[w] \in 0 .. MaxSeq - 1
    BY DEF TypeOK
  <2>2. LastName(w) \in Name /\ LastName(w)' = LastName(w)
    BY <1>1, <2>1, CacheAssumption DEF LastName, Name, workVars
  <2>3. /\ sent[w] <= pos[w] /\ pos[w] <= made
        /\ init[w] => pos[w] = 0 /\ last[w] = 0
        /\ ~init[w] /\ pos[w] > made - MaxSeq => pos[w] = Stamp(LastName(w))
    BY DEF Ordered, PosKept
  <2>4. ASSUME ~init[w], pos[w] > made + 1 - MaxSeq PROVE pos[w] = Stamp(LastName(w))'
    <3>1. pos[w] = Stamp(LastName(w))
      BY <1>1, <2>1, <2>3, <2>4
    <3>2. LastName(w) # NextSeq
      BY <1>3, <2>4, <3>1, <1>1
    <3>3. Stamp(LastName(w))' = Stamp(LastName(w))
      BY <1>2, <2>2, <3>2 DEF Stamp
    <3> QED
      BY <3>1, <3>3
  <2> QED
    BY <1>1, <2>1, <2>3, <2>4
<1>7. ScanNewer' /\ PickNewer'
  <2>1. \A n \in Name : Stamp(n)' >= Stamp(n)
    BY <1>1, <1>2, <1>3, <1>4
  <2> DEFINE S == [n \in Name |-> Stamp(n)']
  <2>2. \A n \in Name : S[n] >= Stamp(n) /\ S[n] \in Int
    BY <1>1, <1>2, <1>4, <2>1
  <2>3. ScanNewer'
    <3> SUFFICES ASSUME NEW w \in Viewer, NEW n \in sure[w] \cup maybe[w]
                 PROVE  /\ wpc[w] = "scan" /\ S[n] >= 1
                        /\ Ahead(w, n) => S[n] > pos[w]
      BY <1>1 DEF ScanNewer, Ahead, workVars, TypeOK
    <3>1. n \in Name /\ pos[w] \in Nat
      BY DEF TypeOK
    <3>2. wpc[w] = "scan" /\ Stamp(n) >= 1 /\ (Ahead(w, n) => Stamp(n) > pos[w])
      BY DEF Ordered, ScanNewer
    <3> HIDE DEF S
    <3> QED
      BY <1>4, <2>2, <3>1, <3>2
  <2>4. PickNewer'
    <3> SUFFICES ASSUME NEW w \in Viewer, wpc[w] = "open"
                 PROVE  /\ pick[w] \in Name /\ ~init[w] /\ LastName(w) = pick[w]
                        /\ sent[w] < pos[w] /\ (pick[w] \in Name => pos[w] <= S[pick[w]])
      BY <1>1 DEF PickNewer, LastName, workVars
    <3>1. /\ pick[w] \in Name /\ ~init[w] /\ LastName(w) = pick[w]
          /\ sent[w] < pos[w] /\ pos[w] <= Stamp(pick[w]) /\ pos[w] \in Nat
      BY DEF Ordered, PickNewer, TypeOK
    <3> HIDE DEF S
    <3> QED
      BY <1>4, <2>2, <3>1
  <2> QED
    BY <2>3, <2>4
<1>8. InTransfer'
  BY <1>1, <1>3 DEF InTransfer, Ordered, OpenTmp, OpenFails, Fits
<1> QED
  BY <1>5, <1>6, <1>7, <1>8 DEF Ordered

\* A file goes: what is left keeps its stamp, and scans may still show it.
LEMMA EvictKeeps ==
  ASSUME TypeOK, Ordered, SpanSmall, Evict
  PROVE  Ordered'
<1> DEFINE n == Head(cache).name
<1>1. /\ seq' = seq /\ made' = made /\ files' = [files EXCEPT ![n] = NoFile]
      /\ ppc' = ppc /\ dur' = dur
  BY DEF Evict
<1>2. \A m : Stamp(m)' = Stamp(m)
  BY <1>1 DEF Stamp
<1>3. (n \in There /\ Seen(n)) \/ UNCHANGED workVars
  <2>1. n \in Name
    <3> DEFINE Entry == [name : Name, dur : Duration]
    <3>1. cache \in Seq(Entry) /\ cache # <<>>
      BY DEF Evict, TooLong, TypeOK
    <3>2. Head(cache) \in Entry
      <4> HIDE DEF Entry
      <4> QED
        BY <3>1
    <3> QED
      BY <3>2
  <2> QED
    BY <2>1 DEF Evict, There
<1>4. There' \subseteq There /\ \A m \in There' : files'[m] = files[m]
  BY <1>1 DEF There, TypeOK
<1>5. FilesStamped'
  BY <1>2, <1>4 DEF FilesStamped, Ordered
<1>6. PosKept' /\ PickNewer'
  BY <1>1, <1>2, <1>3 DEF Seen, workVars, PosKept, PickNewer, LastName, Ordered
<1>7. InTransfer'
  BY <1>1 DEF InTransfer, Ordered
<1>8. ScanNewer'
  <2>1. CASE UNCHANGED workVars
    BY <1>2, <2>1 DEF ScanNewer, Ahead, workVars, Ordered
  <2>2. CASE n \in There /\ Seen(n)
    <3> SUFFICES ASSUME NEW w \in Viewer, NEW m \in sure'[w] \cup maybe'[w]
                 PROVE  /\ wpc[w] = "scan" /\ Stamp(m) >= 1
                        /\ Ahead(w, m) => Stamp(m) > pos[w]
      BY <1>2, <2>2 DEF ScanNewer, Seen, Ahead
    <3>1. m \in sure[w] \cup maybe[w] \/ (m = n /\ wpc[w] = "scan")
      BY <2>2 DEF Seen, TypeOK
    <3>2. CASE m \in sure[w] \cup maybe[w]
      BY <3>2 DEF ScanNewer, Ordered
    <3>3. CASE m = n /\ wpc[w] = "scan"
      <4>1. m \in Name /\ Stamp(m) >= 1 /\ made - Stamp(m) < MaxSeq - Half
        BY <2>2, <3>3 DEF FilesStamped, SpanSmall, There, Ordered
      <4> QED
        BY <3>3, <4>1, AheadIsNewer DEF Ordered
    <3> QED
      BY <3>1, <3>2, <3>3
  <2> QED
    BY <1>3, <2>1, <2>2
<1> QED
  BY <1>5, <1>6, <1>7, <1>8 DEF Ordered

\* A file comes: it is the newest of all.
LEMMA TransferKeeps ==
  ASSUME TypeOK, Ordered, SpanSmall, NEW body \in {"whole", "empty", "failed"},
         Transferred(body)
  PROVE  Ordered'
<1>1. seq' = seq /\ made' = made /\ ppc' = "wait"
  BY DEF Transferred
<1>2. \A m : Stamp(m)' = Stamp(m)
  BY <1>1 DEF Stamp
<1>3. seq \in Name /\ made \in Nat /\ made >= 1 /\ Stamp(seq) = made
  <2>1. seq \in Name /\ made \in Nat /\ made >= 1 /\ seq \in 0 .. MaxSeq
    BY DEF Transferred, Ordered, InTransfer, TypeOK
  <2> QED
    BY <2>1, StampBounds
<1>4. InTransfer'
  BY <1>1 DEF InTransfer, Ordered
<1>5. CASE body = "failed"
  <2>1. UNCHANGED <<dirVars, workVars>>
    BY <1>5 DEF Transferred
  <2> QED
    BY <1>1, <1>2, <1>4, <2>1
    DEF dirVars, workVars, FilesStamped, PosKept, ScanNewer, PickNewer, LastName,
        Ahead, There, Ordered
<1>6. CASE body # "failed"
  <2>1. files' = [files EXCEPT ![seq] = [made |-> made, body |-> body]] /\ Seen(seq)
    BY <1>6 DEF Transferred
  <2>2. FilesStamped'
    <3> SUFFICES ASSUME NEW m \in There' PROVE files'[m].made = Stamp(m) /\ Stamp(m) >= 1
      BY <1>2 DEF FilesStamped
    <3>1. CASE m = seq
      BY <1>3, <2>1, <3>1 DEF TypeOK
    <3>2. CASE m # seq
      BY <2>1, <3>2 DEF FilesStamped, Ordered, There, TypeOK
    <3> QED
      BY <3>1, <3>2
  <2>3. PosKept' /\ PickNewer'
    BY <1>1, <1>2, <2>1 DEF Seen, PosKept, PickNewer, LastName, Ordered
  <2>4. ScanNewer'
    <3> SUFFICES ASSUME NEW w \in Viewer, NEW m \in sure'[w] \cup maybe'[w]
                 PROVE  /\ wpc[w] = "scan" /\ Stamp(m) >= 1
                        /\ Ahead(w, m) => Stamp(m) > pos[w]
      BY <1>2, <2>1 DEF ScanNewer, Seen, Ahead
    <3>1. m \in sure[w] \cup maybe[w] \/ (m = seq /\ wpc[w] = "scan")
      BY <2>1 DEF Seen, TypeOK
    <3>2. CASE m \in sure[w] \cup maybe[w]
      BY <3>2 DEF ScanNewer, Ordered
    <3>3. CASE m = seq /\ wpc[w] = "scan"
      <4>1. made - Stamp(seq) < MaxSeq - Half
        BY <1>3, HalfBounds, CacheAssumption
      <4> QED
        BY <1>3, <3>3, <4>1, AheadIsNewer DEF Ordered
    <3> QED
      BY <3>1, <3>2, <3>3
  <2> QED
    BY <1>4, <2>2, <2>3, <2>4 DEF Ordered
<1> QED
  BY <1>5, <1>6

\* A worker moves: a scan starts with files of the cache, and its choice is newer.
LEMMA WorkerKeeps ==
  ASSUME TypeOK, Ordered, SpanSmall, NEW w \in Viewer, Worker(w)
  PROVE  Ordered'
<1>1. UNCHANGED <<dirVars, prodVars>>
  BY DEF Worker, Join, Leave, OpenDir, OpenFile, Sent, Choose
<1>2. \A m : Stamp(m)' = Stamp(m)
  BY <1>1 DEF Stamp, prodVars
<1>3. FilesStamped' /\ InTransfer'
  BY <1>1, <1>2 DEF FilesStamped, InTransfer, There, dirVars, prodVars, Ordered
<1>4. made' = made /\ made \in Nat
  BY <1>1 DEF prodVars, TypeOK
<1> USE DEF Ordered
<1>5. CASE Join(w) \/ Sent(w)
  BY <1>2, <1>3, <1>4, <1>5
  DEF Join, Sent, PosKept, ScanNewer, PickNewer, LastName, Ahead, TypeOK
<1>6. CASE Leave(w)
  BY <1>2, <1>3, <1>4, <1>6
  DEF Leave, PosKept, ScanNewer, PickNewer, LastName, Ahead, TypeOK
<1>7. CASE OpenDir(w)
  <2>1. PosKept' /\ PickNewer'
    BY <1>2, <1>4, <1>7 DEF OpenDir, PosKept, PickNewer, LastName, TypeOK
  <2>2. ScanNewer'
    <3> SUFFICES ASSUME NEW v \in Viewer, NEW m \in sure'[v] \cup maybe'[v]
                 PROVE  /\ wpc'[v] = "scan" /\ Stamp(m) >= 1
                        /\ Ahead(v, m) => Stamp(m) > pos[v]
      BY <1>2, <1>7 DEF ScanNewer, OpenDir, Ahead
    <3>1. CASE v = w
      <4>1. m \in There /\ wpc'[v] = "scan"
        BY <1>7, <3>1 DEF OpenDir, TypeOK
      <4>2. Stamp(m) >= 1 /\ made - Stamp(m) < MaxSeq - Half /\ m \in Name
        BY <4>1 DEF FilesStamped, SpanSmall, There
      <4> QED
        BY <4>1, <4>2, AheadIsNewer
    <3>2. CASE v # w
      BY <1>7, <3>2 DEF OpenDir, ScanNewer, TypeOK
    <3> QED
      BY <3>1, <3>2
  <2> QED
    BY <1>3, <2>1, <2>2
<1>8. CASE OpenFile(w)
  <2> DEFINE f == files[pick[w]]
  <2>1. /\ pick[w] \in Name /\ ~init[w] /\ LastName(w) = pick[w]
        /\ sent[w] < pos[w] /\ pos[w] <= Stamp(pick[w])
    BY <1>8 DEF OpenFile, PickNewer
  <2>2. wpc'[w] # "open" /\ wpc'[w] # "scan" /\ \A v \in Viewer \ {w} : wpc'[v] = wpc[v]
    BY <1>8 DEF OpenFile, TypeOK
  <2>3. /\ \A v \in Viewer \ {w} : sent'[v] = sent[v] /\ pos'[v] = pos[v]
        /\ \/ sent'[w] = f.made /\ pos'[w] = f.made /\ f # NoFile
           \/ sent' = sent /\ pos' = pos
    BY <1>8 DEF OpenFile, TypeOK
  <2>4. f # NoFile => f.made = Stamp(pick[w]) /\ Stamp(pick[w]) <= made
    BY <2>1, StampBounds DEF FilesStamped, There, TypeOK
  <2>5. PosKept'
    <3>1. /\ UNCHANGED <<last, init, sure, maybe>>
          /\ \A v \in Viewer \ {w} : pick'[v] = pick[v]
      BY <1>8 DEF OpenFile, TypeOK
    <3>2. ASSUME NEW v \in Viewer
          PROVE  /\ sent'[v] <= pos'[v] /\ pos'[v] <= made
                 /\ init[v] => pos'[v] = 0 /\ last[v] = 0
                 /\ ~init[v] /\ pos'[v] > made - MaxSeq => pos'[v] = Stamp(LastName(v))
      <4>1. CASE sent'[v] = sent[v] /\ pos'[v] = pos[v]
        BY <4>1 DEF PosKept
      <4>2. CASE v = w /\ sent'[w] = f.made /\ pos'[w] = f.made /\ f # NoFile
        BY <2>1, <2>4, <4>2, StampBounds DEF TypeOK
      <4> QED
        BY <2>3, <4>1, <4>2
    <3> QED
      BY <1>2, <1>4, <3>1, <3>2 DEF PosKept, LastName
  <2>6. ScanNewer' /\ PickNewer'
    <3>1. /\ UNCHANGED <<last, init, sure, maybe>>
          /\ \A v \in Viewer \ {w} : pick'[v] = pick[v]
      BY <1>8 DEF OpenFile, TypeOK
    <3>2. sure[w] \cup maybe[w] = {}
      BY <1>8 DEF OpenFile, ScanNewer
    <3> QED
      BY <1>2, <2>2, <2>3, <3>1, <3>2 DEF ScanNewer, PickNewer, LastName, Ahead
  <2> QED
    BY <1>3, <2>5, <2>6
<1>9. ASSUME NEW shown \in SUBSET (sure[w] \cup maybe[w]), Choose(w, shown)
      PROVE  Ordered'
  <2>1. /\ wpc[w] = "scan" /\ sure'[w] = {} /\ maybe'[w] = {} /\ sent' = sent
        /\ \A v \in Viewer \ {w} : /\ sure'[v] = sure[v] /\ maybe'[v] = maybe[v]
                                   /\ wpc'[v] = wpc[v]
    BY <1>9 DEF Choose, TypeOK
  <2>2. CASE wpc'[w] = "look" /\ UNCHANGED <<pick, last, init, pos>>
    BY <1>2, <1>3, <1>4, <2>1, <2>2
    DEF PosKept, ScanNewer, PickNewer, LastName, Ahead
  <2>3. ASSUME NEW n \in shown, Ahead(w, n), wpc'[w] = "open",
               pick' = [pick EXCEPT ![w] = n], last' = [last EXCEPT ![w] = Passed(n)],
               init' = [init EXCEPT ![w] = FALSE], pos' = [pos EXCEPT ![w] = Stamp(n)]
        PROVE  Ordered'
    <3>1. n \in Name /\ Stamp(n) > pos[w] /\ Stamp(n) <= made /\ Stamp(n) \in Int
      BY <2>3, StampBounds DEF ScanNewer, TypeOK
    <3>2. /\ pick'[w] = n /\ last'[w] = Passed(n) /\ init'[w] = FALSE /\ pos'[w] = Stamp(n)
          /\ \A v \in Viewer \ {w} : /\ pick'[v] = pick[v] /\ last'[v] = last[v]
                                     /\ init'[v] = init[v] /\ pos'[v] = pos[v]
      BY <2>3 DEF TypeOK
    <3>3. LastName(w)' = n
      BY <3>1, <3>2, CacheAssumption DEF LastName, Passed, Name
    <3>4. \A v \in Viewer \ {w} : LastName(v)' = LastName(v)
      BY <3>2 DEF LastName
    <3>5. sent[w] <= pos[w] /\ sent[w] \in Nat /\ pos[w] \in Nat
      BY DEF PosKept, TypeOK
    <3>6. PosKept'
      BY <1>2, <1>4, <2>1, <3>1, <3>2, <3>3, <3>4, <3>5 DEF PosKept
    <3>7. PickNewer'
      BY <1>2, <2>1, <3>1, <3>2, <3>3, <3>4, <3>5 DEF PickNewer
    <3>8. ScanNewer'
      BY <1>2, <2>1, <3>2 DEF ScanNewer, Ahead
    <3> QED
      BY <1>3, <3>6, <3>7, <3>8
  <2> QED
    BY <1>9, <2>2, <2>3 DEF Choose, TypeOK
<1> QED
  BY <1>5, <1>6, <1>7, <1>8, <1>9 DEF Worker

\* While the cache is short of half a turn, every step keeps the order.
LEMMA NextOrdered ==
  TypeOK /\ Ordered /\ SpanSmall /\ [Next]_vars => TypeOK' /\ Ordered'
<1> SUFFICES ASSUME TypeOK, Ordered, SpanSmall, [Next]_vars PROVE Ordered'
  BY NextTypes, OrderedHolds
<1>1. ASSUME UNCHANGED <<files, seq, made, workVars>>, InTransfer' PROVE Ordered'
  BY <1>1
  DEF Ordered, FilesStamped, PosKept, ScanNewer, PickNewer, LastName, Ahead, Stamp,
      There, workVars
<1>2. ASSUME NEW d \in Duration, NextChunk(d) PROVE Ordered'
  BY <1>1, <1>2 DEF NextChunk, InTransfer, dirVars
<1>3. CASE UNCHANGED vars
  BY <1>1, <1>3 DEF vars, dirVars, prodVars, InTransfer, Ordered
<1> QED
  BY <1>2, <1>3, NumberKeeps, EvictKeeps, TransferKeeps, WorkerKeeps DEF Next, Producer

\* Until wide says otherwise, the files span less than half a turn.
Spanned == ~wide => SpanSmall

\* Every step keeps the watch: the distance grows only with a number that is used up.
LEMMA NextSpanned == TypeOK /\ Held /\ Spanned /\ [Next]_vars => Spanned' /\ (wide => wide')
<1> SUFFICES ASSUME TypeOK, Held, Spanned, [Next]_vars PROVE Spanned' /\ (wide => wide')
  OBVIOUS
<1>0. files \in [Name -> Fragment \cup {NoFile}]
  BY DEF TypeOK
<1>1. CASE UNCHANGED <<files, made, wide>>
  BY <1>1 DEF Spanned, SpanSmall, There
<1>2. CASE OpenTmp \/ OpenFails
  <2>1. /\ made' = made + 1 /\ files' = files
        /\ wide' = (wide \/ \E n \in There : made + 1 - files[n].made >= MaxSeq - Half)
    BY <1>2 DEF OpenTmp, OpenFails, UseNumber, dirVars
  <2>2. ASSUME ~wide', NEW n \in There PROVE made + 1 - files[n].made < MaxSeq - Half
    <3>1. ~(made + 1 - files[n].made >= MaxSeq - Half)
      BY <2>1, <2>2
    <3>2. files[n].made \in Nat /\ made \in Nat
      BY <1>0 DEF There, Fragment, TypeOK
    <3> QED
      BY <3>1, <3>2, HalfBounds, CacheAssumption
  <2>3. There' = There
    BY <2>1 DEF There
  <2>4. ~wide' => SpanSmall'
    <3> SUFFICES ASSUME ~wide', NEW n \in There'
                 PROVE  made' - files'[n].made < MaxSeq - Half
      BY DEF SpanSmall
    <3>1. made + 1 - files[n].made < MaxSeq - Half
      BY <2>2, <2>3
    <3>2. made' = made + 1 /\ files' = files
      BY <2>1
    <3>3. files'[n].made = files[n].made /\ files[n].made \in Int /\ made \in Int
      BY <1>0, <2>3, <3>2 DEF There, Fragment, TypeOK
    <3> QED
      BY <3>1, <3>2, <3>3, HalfBounds, CacheAssumption
  <2> QED
    BY <2>1, <2>4 DEF Spanned
<1>3. CASE Evict
  <2>1. /\ UNCHANGED <<made, wide>> /\ files' = [files EXCEPT ![Head(cache).name] = NoFile]
    BY <1>3 DEF Evict
  <2>2. \A n \in There' : n \in There /\ files'[n] = files[n]
    BY <1>0, <2>1 DEF There
  <2> QED
    BY <2>1, <2>2 DEF Spanned, SpanSmall
<1>4. ASSUME NEW body, Transferred(body) PROVE Spanned' /\ (wide => wide')
  <2>1. /\ UNCHANGED <<made, wide>>
        /\ \/ files' = [files EXCEPT ![seq] = [made |-> made, body |-> body]]
           \/ files' = files
    BY <1>4 DEF Transferred, dirVars
  <2>2. \A n \in There' :
          \/ n \in There /\ files'[n] = files[n]
          \/ files'[n].made = made
    BY <1>0, <2>1 DEF There
  <2>3. made - made < MaxSeq - Half
    BY HalfBounds, CacheAssumption DEF TypeOK
  <2> QED
    BY <2>1, <2>2, <2>3 DEF Spanned, SpanSmall
<1>5. ASSUME NEW w \in Viewer, Worker(w) PROVE UNCHANGED <<files, made, wide>>
  BY <1>5 DEF Worker, Join, Leave, OpenDir, Choose, OpenFile, Sent, dirVars, prodVars
<1>6. ASSUME NEW d \in Duration, NextChunk(d) PROVE UNCHANGED <<files, made, wide>>
  BY <1>6 DEF NextChunk, dirVars
<1>7. CASE UNCHANGED vars
  BY <1>1, <1>7 DEF vars, dirVars, prodVars
<1> QED
  BY <1>1, <1>2, <1>3, <1>4, <1>5, <1>6, <1>7 DEF Next, Producer

\* The inductive invariant: types and numbers always, the order until the files span half
\* a turn.
Orderly == TypeOK /\ Held /\ Spanned /\ (~wide => Ordered)

LEMMA AlwaysOrderly == Spec => []Orderly
<1>1. Init => Orderly
  BY InitHeld, HalfBounds, CacheAssumption
  DEF Init, Held, Ordered, FilesStamped, PosKept, ScanNewer, PickNewer, There,
      Orderly, Spanned, SpanSmall
<1>2. Orderly /\ [Next]_vars => Orderly'
  <2> SUFFICES ASSUME Orderly, [Next]_vars PROVE Orderly'
    OBVIOUS
  <2>1. TypeOK' /\ Held' /\ Spanned' /\ (wide => wide')
    BY NextTypes, NextHeld, NextSpanned DEF Orderly
  <2>2. ~wide' => Ordered'
    BY <2>1, NextOrdered DEF Orderly, Spanned
  <2> QED
    BY <2>1, <2>2 DEF Orderly
<1> QED
  BY <1>1, <1>2, PTL DEF Spec

-----------------------------------------------------------------------------
\* The first fragment a worker opens after another was made after it.
LEMMA OpensNewer ==
  ASSUME TypeOK, Ordered, [Next]_vars, NEW w \in Viewer, wpc[w] = "open", wpc'[w] = "send"
  PROVE  sent'[w] > sent[w]
<1>1. OpenFile(w)
  BY DEF Next, Producer, NextChunk, Evict, OpenTmp, OpenFails, Transferred, Seen,
         Worker, Join, Leave, OpenDir, OpenFile, Sent, Choose, TypeOK, vars, workVars
<1>2. /\ files[pick[w]] # NoFile /\ sent'[w] = files[pick[w]].made
  BY <1>1 DEF OpenFile, TypeOK
<1>3. pick[w] \in Name /\ sent[w] < pos[w] /\ pos[w] <= Stamp(pick[w])
  BY DEF Ordered, PickNewer
<1>4. files[pick[w]].made = Stamp(pick[w]) /\ Stamp(pick[w]) \in Int
  BY <1>2, <1>3, StampBounds DEF Ordered, FilesStamped, There, TypeOK
<1> QED
  BY <1>2, <1>3, <1>4 DEF TypeOK

\* Every viewer gets the fragments in the order they were made, none twice, until the files
\* span the half of a turn that the workers do not accept.
THEOREM SentInOrder == Spec => InOrder
<1>1. Orderly /\ [Next]_vars
        => [\A w \in Viewer : ~wide /\ wpc[w] = "open" /\ wpc'[w] = "send"
                              => sent'[w] > sent[w]]_vars
  BY OpensNewer DEF Orderly
<1> QED
  BY <1>1, AlwaysOrderly, PTL DEF Spec, InOrder

\* A worker that finds newer files and takes none of them waits for the next turn.
LEMMA WaitsForNumber ==
  ASSUME TypeOK, Ordered, SpanSmall, NEW w \in Viewer, ~init[w],
         \A n \in There : ~Ahead(w, n), ~TooFarBehind(w)
  PROVE  TurnMissed(w)
<1>1. PICK n \in There : files[n].made > pos[w] /\ ~(files[n].made > pos[w] + Half)
  BY DEF TooFarBehind
<1>2. /\ n \in Name /\ files[n].made = Stamp(n) /\ made - Stamp(n) < MaxSeq - Half
      /\ Stamp(n) \in Int
  BY StampBounds DEF There, Ordered, FilesStamped, SpanSmall, TypeOK
<1>3. /\ seq \in 0 .. MaxSeq /\ made \in Nat /\ last[w] \in 0 .. MaxSeq - 1
      /\ pos[w] \in Nat /\ MaxSeq \in Nat /\ n \in 1 .. MaxSeq
  BY <1>2, CacheAssumption DEF TypeOK, Name
<1>4. pos[w] > made - MaxSeq
  BY <1>1, <1>2, <1>3, HalfBounds
<1>5. pos[w] = Stamp(LastName(w))
  BY <1>4 DEF Ordered, PosKept
<1>6. n <= last[w] \/ n > last[w] + Half
  <2>1. ~(n > last[w] /\ n <= last[w] + Half)
    BY DEF Ahead
  <2> QED
    BY <1>3, <2>1, HalfBounds
<1>7. last[w] # 0
  BY <1>1, <1>2, <1>3, <1>5, <1>6, HalfBounds DEF LastName, Stamp
<1>8. seq < last[w] /\ MaxSeq <= last[w] + Half
  BY <1>1, <1>2, <1>3, <1>5, <1>6, <1>7, HalfBounds DEF LastName, Stamp
<1>9. files[MaxSeq] = NoFile
  <2> SUFFICES ASSUME files[MaxSeq] # NoFile PROVE FALSE
    OBVIOUS
  <2>1. MaxSeq \in There
    BY <1>3 DEF There, Name
  <2> QED
    BY <1>3, <1>8, <2>1 DEF Ahead
<1> QED
  BY <1>7, <1>8, <1>9 DEF TurnMissed

\* Until then a viewer waits while newer files are there only if it has missed the last
\* file of its turn, or is half a turn behind.
THEOREM WaitsOnlyForTurn == Spec => []WaitsForTurn
<1>1. Orderly => WaitsForTurn
  BY WaitsForNumber DEF WaitsForTurn, Orderly, Spanned
<1> QED
  BY <1>1, AlwaysOrderly, PTL

-----------------------------------------------------------------------------
(* Sums *)

\* Induction over the natural numbers, as a fact about a set: a number outside it that is
\* the least would have a predecessor inside.
LEMMA Induction ==
  ASSUME NEW S \in SUBSET Nat, 0 \in S, \A n \in S : n + 1 \in S
  PROVE  S = Nat
<1> SUFFICES ASSUME Nat \ S # {} PROVE FALSE
  OBVIOUS
<1>1. PICK n \in Nat \ S : \A m \in Nat \ S : ~(<<m, n>> \in OpToRel(<, Nat))
  <2> HIDE DEF OpToRel
  <2> QED BY NatLessThanWellFounded, WFMin
<1>2. n # 0 /\ n - 1 \in Nat
  OBVIOUS
<1>3. n - 1 \in S
  <2>1. n - 1 < n
    BY <1>2
  <2> QED
  BY <1>1, <1>2, <2>1 DEF OpToRel
<1> QED
  BY <1>2, <1>3

\* The entries of the cache, and the sum of their durations, as DiskCounted writes it.
Entry == [name : Name, dur : Duration]
Sum(s) == FoldLeft(LAMBDA sum, f : sum + f.dur, 0, s)

\* What the definition of FoldLeft comes to for Sum: a recursive function on sets of places,
\* which takes their greatest one first.
IsFold(s, g) ==
  g = [I \in SUBSET DOMAIN s |-> IF I = {} THEN 0 ELSE g[I \ {Max(I)}] + s[Max(I)].dur]

\* A sum is the value of such a function for all places.
LEMMA SumIs == \A s : Sum(s) = (CHOOSE g : IsFold(s, g))[DOMAIN s]
BY DEF Sum, FoldLeft, MapThenFoldSet, IsFold

\* A set of places has a greatest one.
LEMMA Greatest ==
  ASSUME NEW m \in Nat, NEW I \in SUBSET (1 .. m), I # {}
  PROVE  Max(I) \in I /\ \A i \in I : i <= Max(I)
<1> DEFINE P(k) == \A J \in SUBSET (1 .. k) : J # {} => \E x \in J : \A y \in J : y <= x
           S == {k \in Nat : P(k)}
<1>1. P(0)
  <2>1. 1 .. 0 = {}
    OBVIOUS
  <2> QED
    BY <2>1
<1>2. ASSUME NEW k \in Nat, P(k) PROVE P(k + 1)
  <2> SUFFICES ASSUME NEW J \in SUBSET (1 .. k + 1), J # {} PROVE \E x \in J : \A y \in J : y <= x
    OBVIOUS
  <2>1. CASE k + 1 \in J
    BY <2>1
  <2>2. CASE k + 1 \notin J
    <3>1. J \in SUBSET (1 .. k)
      BY <2>2
    <3> QED
      BY <1>2, <3>1
  <2> QED
    BY <2>1, <2>2
<1>3. S = Nat
  <2> HIDE DEF P
  <2>1. S \in SUBSET Nat /\ 0 \in S /\ \A k \in S : k + 1 \in S
    BY <1>1, <1>2
  <2> HIDE DEF S
  <2> QED
    BY <2>1, Induction
<1>4. \E x \in I : \A y \in I : y <= x
  BY <1>3
<1> QED
  BY <1>4 DEF Max

\* A sequence that is not empty has a last element and what is before it.
LEMMA LastAndFront ==
  ASSUME NEW n \in Nat, NEW s \in Seq(Entry), Len(s) = n + 1
  PROVE  \E f \in Seq(Entry), e \in Entry : s = Append(f, e) /\ Len(f) = n
<1> HIDE DEF Entry
<1>1. SubSeq(s, 1, n) \in Seq(Entry) /\ Len(SubSeq(s, 1, n)) = n /\ s[n + 1] \in Entry
  OBVIOUS
<1>2. s = Append(SubSeq(s, 1, n), s[n + 1])
  OBVIOUS
<1> QED
  BY <1>1, <1>2

\* There is a fold.
LEMMA FoldExists ==
  ASSUME NEW s \in Seq(Entry)
  PROVE  \E g : IsFold(s, g)
<1> DEFINE P(n) == \A t \in Seq(Entry) : Len(t) = n => \E g : IsFold(t, g)
           S == {n \in Nat : P(n)}
<1>1. P(0)
  <2> SUFFICES ASSUME NEW t \in Seq(Entry), Len(t) = 0 PROVE \E g : IsFold(t, g)
    OBVIOUS
  <2>1. DOMAIN t = {}
    OBVIOUS
  <2>2. IsFold(t, [I \in SUBSET DOMAIN t |-> 0])
    BY <2>1 DEF IsFold
  <2> QED
    BY <2>2
<1>2. ASSUME NEW n \in Nat, P(n) PROVE P(n + 1)
  <2> SUFFICES ASSUME NEW t \in Seq(Entry), Len(t) = n + 1 PROVE \E g : IsFold(t, g)
    OBVIOUS
  <2>1. PICK f \in Seq(Entry), e \in Entry : t = Append(f, e) /\ Len(f) = n
    BY LastAndFront
  <2>2. PICK g : IsFold(f, g)
    BY <1>2, <2>1
  <2> DEFINE h == [I \in SUBSET (1 .. n + 1) |->
                    IF n + 1 \in I THEN g[I \ {n + 1}] + e.dur ELSE g[I]]
  <2>3. DOMAIN t = 1 .. n + 1 /\ DOMAIN f = 1 .. n /\ t[n + 1] = e /\ \A i \in 1 .. n : t[i] = f[i]
    <3> HIDE DEF Entry
    <3> QED BY <2>1
  <2>4. ASSUME NEW I \in SUBSET (1 .. n + 1)
        PROVE  h[I] = IF I = {} THEN 0 ELSE h[I \ {Max(I)}] + t[Max(I)].dur
    <3>1. CASE I = {}
      BY <2>2, <2>3, <3>1 DEF IsFold
    <3>2. CASE n + 1 \in I
      <4>1. Max(I) = n + 1
        <5>1. n + 1 \in Nat /\ I # {}
          BY <3>2
        <5>2. Max(I) \in I /\ n + 1 <= Max(I)
          BY <3>2, <5>1, Greatest
        <5>3. Max(I) \in 1 .. n + 1
          BY <5>2
        <5> HIDE DEF h
        <5> QED
          BY <5>1, <5>2, <5>3
      <4> QED
        BY <2>3, <3>2, <4>1
    <3>3. CASE I # {} /\ n + 1 \notin I
      <4>1. I \in SUBSET (1 .. n)
        BY <3>3
      <4>2. Max(I) \in I
        BY <3>3, <4>1, Greatest
      <4>3. g[I] = g[I \ {Max(I)}] + f[Max(I)].dur
        BY <2>2, <2>3, <3>3, <4>1 DEF IsFold
      <4> QED
        BY <2>3, <3>3, <4>1, <4>2, <4>3
    <3> QED
      BY <3>1, <3>2, <3>3
  <2>5. IsFold(t, h)
    <3>1. h = [I \in SUBSET (1 .. n + 1) |-> h[I]]
      OBVIOUS
    <3> HIDE DEF h
    <3> QED
      BY <2>3, <2>4, <3>1 DEF IsFold
  <2> QED
    BY <2>5
<1>3. S = Nat
  <2> HIDE DEF P
  <2>1. S \in SUBSET Nat /\ 0 \in S /\ \A k \in S : k + 1 \in S
    BY <1>1, <1>2
  <2> HIDE DEF S
  <2> QED
    BY <2>1, Induction
<1> QED
  BY <1>3

\* A fold of the first places adds them one by one.
LEMMA FoldOfPlaces ==
  ASSUME NEW s \in Seq(Entry), NEW g, IsFold(s, g)
  PROVE  g[{}] = 0 /\ \A k \in 0 .. Len(s) - 1 : g[1 .. k + 1] = g[1 .. k] + s[k + 1].dur
<1>1. DOMAIN s = 1 .. Len(s)
  OBVIOUS
<1>2. g[{}] = 0
  BY DEF IsFold
<1>3. ASSUME NEW k \in 0 .. Len(s) - 1 PROVE g[1 .. k + 1] = g[1 .. k] + s[k + 1].dur
  <2> DEFINE I == 1 .. k + 1
  <2>1. I \in SUBSET DOMAIN s /\ k + 1 \in I /\ I \ {k + 1} = 1 .. k /\ k + 1 \in Nat
    BY <1>1
  <2>2. Max(I) = k + 1
    <3>1. Max(I) \in I /\ k + 1 <= Max(I)
      BY <2>1, Greatest
    <3> QED
      BY <3>1
  <2>3. g[I] = IF I = {} THEN 0 ELSE g[I \ {Max(I)}] + s[Max(I)].dur
    <3> HIDE DEF I
    <3> QED BY <2>1 DEF IsFold
  <2> QED
    BY <2>1, <2>2, <2>3
<1> QED
  BY <1>2, <1>3

\* A new last element is added: the functions for both sequences agree on the old places.
LEMMA SumAppend ==
  ASSUME NEW s \in Seq(Entry), NEW e \in Entry
  PROVE  Sum(Append(s, e)) = Sum(s) + e.dur
<1> DEFINE t == Append(s, e)
           n == Len(s)
<1>1. PICK g : IsFold(s, g) /\ Sum(s) = g[DOMAIN s]
  BY FoldExists, SumIs
<1>2. PICK h : IsFold(t, h) /\ Sum(t) = h[DOMAIN t]
  <2>1. t \in Seq(Entry)
    OBVIOUS
  <2> QED
    BY <2>1, FoldExists, SumIs
<1>3. /\ n \in Nat /\ t \in Seq(Entry) /\ Len(t) = n + 1 /\ t[n + 1] = e
      /\ DOMAIN s = 1 .. n /\ DOMAIN t = 1 .. n + 1 /\ \A i \in 1 .. n : t[i] = s[i]
  <2> HIDE DEF Entry
  <2> QED OBVIOUS
<1> HIDE DEF t, n
<1> DEFINE P(k) == k <= n => h[1 .. k] = g[1 .. k]
           S == {k \in Nat : P(k)}
<1>4. P(0)
  <2>1. 1 .. 0 = {}
    OBVIOUS
  <2> QED
    BY <1>1, <1>2, <1>3, <2>1, FoldOfPlaces
<1>5. ASSUME NEW k \in Nat, P(k), k + 1 <= n PROVE h[1 .. k + 1] = g[1 .. k + 1]
  <2>1. k \in 0 .. Len(s) - 1 /\ k \in 0 .. Len(t) - 1 /\ k + 1 \in 1 .. n
    BY <1>3, <1>5 DEF n
  <2>2. g[1 .. k + 1] = g[1 .. k] + s[k + 1].dur
    BY <1>1, <2>1, FoldOfPlaces
  <2>3. h[1 .. k + 1] = h[1 .. k] + t[k + 1].dur
    BY <1>2, <1>3, <2>1, FoldOfPlaces
  <2> QED
    BY <1>3, <1>5, <2>1, <2>2, <2>3
<1>6. S = Nat
  <2>1. S \in SUBSET Nat /\ 0 \in S /\ \A k \in S : k + 1 \in S
    BY <1>4, <1>5
  <2> HIDE DEF S
  <2> QED
    BY <2>1, Induction
<1>7. h[1 .. n] = g[1 .. n]
  BY <1>3, <1>6
<1>8. h[1 .. n + 1] = h[1 .. n] + t[n + 1].dur
  <2>1. n \in 0 .. Len(t) - 1
    BY <1>3
  <2> QED
    BY <1>2, <1>3, <2>1, FoldOfPlaces
<1> QED
  BY <1>1, <1>2, <1>3, <1>7, <1>8 DEF t

\* An empty sum is zero.
LEMMA SumEmpty == Sum(<<>>) = 0
<1>1. <<>> \in Seq(Entry) /\ DOMAIN <<>> = {}
  OBVIOUS
<1>2. PICK g : IsFold(<<>>, g) /\ Sum(<<>>) = g[DOMAIN <<>>]
  BY <1>1, FoldExists, SumIs
<1> QED
  BY <1>1, <1>2 DEF IsFold

\* A sum is a number, below zero perhaps.
LEMMA SumIsNumber ==
  ASSUME NEW s \in Seq(Entry)
  PROVE  Sum(s) \in Int
<1> DEFINE P(n) == \A t \in Seq(Entry) : Len(t) = n => Sum(t) \in Int
           S == {n \in Nat : P(n)}
<1>1. P(0)
  <2>1. \A t \in Seq(Entry) : Len(t) = 0 => t = <<>>
    OBVIOUS
  <2> QED
    BY <2>1, SumEmpty
<1>2. ASSUME NEW n \in Nat, P(n) PROVE P(n + 1)
  <2> SUFFICES ASSUME NEW t \in Seq(Entry), Len(t) = n + 1 PROVE Sum(t) \in Int
    OBVIOUS
  <2>1. PICK f \in Seq(Entry), e \in Entry : t = Append(f, e) /\ Len(f) = n
    BY LastAndFront
  <2>2. Sum(t) = Sum(f) + e.dur
    BY <2>1, SumAppend
  <2>3. e.dur \in Int
    BY CacheAssumption DEF Entry
  <2>4. Sum(f) \in Int
    BY <1>2, <2>1
  <2> QED
    BY <2>2, <2>3, <2>4
<1>3. S = Nat
  <2> HIDE DEF P
  <2>1. S \in SUBSET Nat /\ 0 \in S /\ \A k \in S : k + 1 \in S
    BY <1>1, <1>2
  <2> HIDE DEF S
  <2> QED
    BY <2>1, Induction
<1> QED
  BY <1>3

\* What goes at the front is subtracted.
LEMMA SumTail ==
  ASSUME NEW s \in Seq(Entry), s # <<>>
  PROVE  Sum(Tail(s)) = Sum(s) - Head(s).dur
<1> DEFINE P(n) == \A t \in Seq(Entry) : Len(t) = n + 1 => Sum(Tail(t)) = Sum(t) - Head(t).dur
           S == {n \in Nat : P(n)}
<1>0. \A t \in Seq(Entry) : Sum(t) \in Int
  BY SumIsNumber
<1>1. P(0)
  <2> SUFFICES ASSUME NEW t \in Seq(Entry), Len(t) = 1 PROVE Sum(Tail(t)) = Sum(t) - Head(t).dur
    OBVIOUS
  <2>1. PICK f \in Seq(Entry), e \in Entry : t = Append(f, e) /\ Len(f) = 0
    <3>1. Len(t) = 0 + 1 /\ 0 \in Nat
      OBVIOUS
    <3> QED
      BY <3>1, LastAndFront
  <2>2. Tail(t) = <<>> /\ f = <<>> /\ Head(t) = e
    <3> HIDE DEF Entry
    <3> QED BY <2>1
  <2>3. e.dur \in Int
    BY CacheAssumption DEF Entry
  <2> QED
    <3>1. Sum(t) = Sum(f) + e.dur
      BY <2>1, SumAppend
    <3>2. Sum(f) = 0 /\ Sum(Tail(t)) = 0
      BY <2>2, SumEmpty
    <3> QED
      BY <2>2, <2>3, <3>1, <3>2
<1>2. ASSUME NEW n \in Nat, P(n) PROVE P(n + 1)
  <2> SUFFICES ASSUME NEW t \in Seq(Entry), Len(t) = n + 2
               PROVE  Sum(Tail(t)) = Sum(t) - Head(t).dur
    OBVIOUS
  <2>1. PICK f \in Seq(Entry), e \in Entry : t = Append(f, e) /\ Len(f) = n + 1
    <3>1. Len(t) = (n + 1) + 1 /\ n + 1 \in Nat
      OBVIOUS
    <3> QED
      BY <3>1, LastAndFront
  <2>2. /\ Tail(t) = Append(Tail(f), e) /\ Tail(f) \in Seq(Entry)
        /\ Head(t) = Head(f) /\ Head(f) \in Entry
    <3> HIDE DEF Entry
    <3> QED BY <2>1
  <2>3. e.dur \in Int /\ Head(f).dur \in Int
    BY <2>2, CacheAssumption DEF Entry
  <2>4. Sum(t) = Sum(f) + e.dur /\ Sum(Tail(t)) = Sum(Tail(f)) + e.dur
    BY <2>1, <2>2, SumAppend
  <2>5. Sum(Tail(f)) = Sum(f) - Head(f).dur
    BY <1>2, <2>1
  <2> QED
    BY <1>0, <2>1, <2>2, <2>3, <2>4, <2>5
<1>3. S = Nat
  <2> HIDE DEF P
  <2>1. S \in SUBSET Nat /\ 0 \in S /\ \A k \in S : k + 1 \in S
    BY <1>1, <1>2
  <2> HIDE DEF S
  <2> QED
    BY <2>1, Induction
<1>4. Len(s) - 1 \in Nat /\ Len(s) = (Len(s) - 1) + 1
  OBVIOUS
<1> QED
  BY <1>3, <1>4

-----------------------------------------------------------------------------
(* The list of the cache *)

\* The fragment at hand fits, or is alone.
Room == (cached + dur) % Word <= CacheMs \/ cache = <<>>

\* The durations of the list are counted, and room is made for each fragment.
Limits ==
  /\ cached = Sum(cache) % Word
  /\ ppc = "wait" => cached <= CacheMs \/ Len(cache) = 1
  /\ ppc = "transfer" => Room
  /\ fails > 0 => ppc = "room"

\* How many numbers have been used since the last entry of the list, at most.
Since == IF ppc = "transfer" THEN MaxFails + 1 ELSE fails

\* An entry of the list that names file n, and after which not more entries, with the
\* failures before each, have come than the age of the file allows.
Names(i, n) ==
  /\ cache[i].name = n
  /\ made - files[n].made <= Since + (Len(cache) - i) * (MaxFails + 1)

\* Every file of the directory has one.
Listed == \A n \in There : \E i \in DOMAIN cache : Names(i, n)

-----------------------------------------------------------------------------
(* The steps of the cache *)

\* Nothing of the producer or of the directory changes.
Still == UNCHANGED <<dirVars, prodVars>>

\* What a step does to the producer and to the directory.
LEMMA ProducerSteps ==
  ASSUME [Next]_vars
  PROVE  \/ \E d \in Duration : NextChunk(d)
         \/ Evict \/ OpenTmp \/ OpenFails
         \/ \E body \in {"whole", "empty", "failed"} : Transferred(body)
         \/ Still
<1>1. ASSUME NEW w \in Viewer, Worker(w) PROVE Still
  BY <1>1 DEF Worker, Join, Leave, OpenDir, Choose, OpenFile, Sent, Still
<1>2. CASE UNCHANGED vars
  BY <1>2 DEF vars, Still
<1> QED
  BY <1>1, <1>2 DEF Next, Producer

\* An entry more, and an entry less.
LEMMA Ends ==
  ASSUME TypeOK
  PROVE  /\ cache \in Seq(Entry) /\ DOMAIN cache = 1 .. Len(cache) /\ Len(cache) \in Nat
         /\ \A i \in DOMAIN cache : cache[i].name \in Name
         /\ cache # <<>> =>
              /\ Head(cache) = cache[1] /\ Head(cache) \in Entry
              /\ Len(cache) >= 1 /\ Len(Tail(cache)) = Len(cache) - 1
              /\ DOMAIN Tail(cache) = 1 .. Len(cache) - 1
              /\ \A i \in 1 .. Len(cache) - 1 : Tail(cache)[i] = cache[i + 1]
         /\ \A e : /\ Len(Append(cache, e)) = Len(cache) + 1
                   /\ DOMAIN Append(cache, e) = 1 .. Len(cache) + 1
                   /\ Append(cache, e)[Len(cache) + 1] = e
                   /\ \A i \in 1 .. Len(cache) : Append(cache, e)[i] = cache[i]
<1>1. cache \in Seq(Entry)
  BY DEF TypeOK, Entry
<1>2. \A i \in DOMAIN cache : cache[i] \in Entry
  BY <1>1
<1>3. \A e \in Entry : e.name \in Name
  BY DEF Entry
<1> HIDE DEF Entry
<1>4. /\ DOMAIN cache = 1 .. Len(cache) /\ Len(cache) \in Nat
      /\ cache # <<>> =>
           /\ Head(cache) = cache[1] /\ Head(cache) \in Entry
           /\ Len(cache) >= 1 /\ Len(Tail(cache)) = Len(cache) - 1
           /\ DOMAIN Tail(cache) = 1 .. Len(cache) - 1
           /\ \A i \in 1 .. Len(cache) - 1 : Tail(cache)[i] = cache[i + 1]
  BY <1>1
<1>5. ASSUME NEW e
      PROVE  /\ Len(Append(cache, e)) = Len(cache) + 1
             /\ DOMAIN Append(cache, e) = 1 .. Len(cache) + 1
             /\ Append(cache, e)[Len(cache) + 1] = e
             /\ \A i \in 1 .. Len(cache) : Append(cache, e)[i] = cache[i]
  BY <1>1
<1> QED
  BY <1>1, <1>2, <1>3, <1>4, <1>5

\* Every step keeps the count of the durations, and the room that was made.
LEMMA NextLimits ==
  ASSUME TypeOK, InTransfer, Limits, [Next]_vars
  PROVE  Limits'
<1>1. /\ cache \in Seq(Entry) /\ Sum(cache) \in Int /\ cached = Sum(cache) % Word
      /\ fails \in 0 .. MaxFails /\ MaxFails \in Nat /\ dur \in Int /\ Word \in Nat \ {0}
  <2>1. Sum(cache) \in Int
    BY Ends, SumIsNumber
  <2> QED
    BY <2>1, Ends, CacheAssumption DEF TypeOK, Limits
<1>2. ASSUME NEW d \in Duration, NextChunk(d) PROVE Limits'
  BY <1>1, <1>2 DEF NextChunk, Limits
<1>3. CASE Evict
  <2>1. /\ cached' = (cached - Head(cache).dur) % Word /\ cache' = Tail(cache)
        /\ fails' = fails /\ ppc' = ppc /\ ppc = "room" /\ cache # <<>>
    BY <1>3 DEF Evict, TooLong
  <2> DEFINE d == Head(cache).dur
  <2>2. Sum(Tail(cache)) = Sum(cache) - d
    BY <1>1, <2>1, SumTail
  <2>3. d \in Int
    BY <2>1, Ends, CacheAssumption DEF Entry
  <2>4. (cached - d) % Word = (Sum(cache) - d) % Word
    <3> HIDE DEF d
    <3>1. -d \in Int /\ Sum(cache) + (-d) = Sum(cache) - d
      BY <1>1, <2>3
    <3>2. ((Sum(cache) % Word) + (-d)) % Word = (Sum(cache) + (-d)) % Word
      BY <1>1, <3>1, CountModulo
    <3>3. (Sum(cache) % Word) + (-d) = cached - d
      <4>1. cached \in Int
        BY DEF TypeOK
      <4> QED
        BY <1>1, <2>3, <4>1
    <3> QED
      BY <3>1, <3>2, <3>3
  <2> QED
    BY <2>1, <2>2, <2>4 DEF Limits
<1>4. CASE OpenTmp \/ OpenFails
  <2>1. /\ Room /\ cache' = cache /\ cached' = cached /\ dur' = dur /\ ppc' # "wait"
        /\ (fails' > 0 => ppc' = "room")
    BY <1>1, <1>4, CacheAssumption DEF OpenTmp, OpenFails, Fits, TooLong, Room, Limits
  <2> QED
    BY <2>1 DEF Limits, Room
<1>5. ASSUME NEW body, Transferred(body) PROVE Limits'
  <2>1. /\ ppc = "transfer" /\ ppc' = "wait" /\ fails' = fails /\ ~(fails > 0)
        /\ cached' = (cached + dur) % Word
        /\ cache' = Append(cache, [name |-> seq, dur |-> dur])
    BY <1>5 DEF Transferred, Limits
  <2>2. [name |-> seq, dur |-> dur] \in Entry
    BY <2>1 DEF InTransfer, Entry
  <2>3. Sum(cache') = Sum(cache) + dur
    BY <1>1, <2>1, <2>2, SumAppend
  <2>4. (cached + dur) % Word = (Sum(cache) + dur) % Word
    BY <1>1, CountModulo
  <2>5. cached' <= CacheMs \/ Len(cache') = 1
    <3>1. CASE (cached + dur) % Word <= CacheMs
      BY <2>1, <3>1
    <3>2. CASE cache = <<>>
      <4>1. Len(cache) = 0
        BY <3>2
      <4> QED
        BY <2>1, <4>1, Ends
    <3> QED
      BY <2>1, <3>1, <3>2 DEF Limits, Room
  <2> QED
    BY <2>1, <2>3, <2>4, <2>5 DEF Limits
<1>6. CASE Still
  BY <1>6 DEF Still, prodVars, Limits, Room
<1> QED
  BY <1>2, <1>3, <1>4, <1>5, <1>6, ProducerSteps

\* One failure more, one entry more.
LEMMA Products ==
  ASSUME NEW k \in Nat, NEW n \in Nat, NEW i \in 1 .. n
  PROVE  /\ (n - i) * k \in Nat
         /\ ((n + 1) - i) * k = (n - i) * k + k
         /\ (n - i) * k + k <= n * k
<1>1. PICK a \in Nat, b \in Nat : n - i = a /\ i = b + 1 /\ n = a + (b + 1)
  <2>1. n - i \in Nat /\ i - 1 \in Nat /\ i = (i - 1) + 1 /\ n = (n - i) + ((i - 1) + 1)
    OBVIOUS
  <2> QED
    BY <2>1
<1>2. a * k \in Nat /\ b * k \in Nat
  OBVIOUS
<1>3. /\ (a + 1) * k = a * k + k
      /\ (a + (b + 1)) * k = a * k + (b * k + k)
  OBVIOUS
<1>4. (n + 1) - i = a + 1
  BY <1>1
<1> QED
  BY <1>1, <1>2, <1>3, <1>4

\* Every step keeps the files in the list, and their entries as far back as they are old.
LEMMA NextListed ==
  ASSUME TypeOK, InTransfer, Limits, Listed, [Next]_vars
  PROVE  Listed'
<1> DEFINE k == MaxFails + 1
           n == Len(cache)
<1>0. /\ files \in [Name -> Fragment \cup {NoFile}] /\ made \in Nat /\ n \in Nat
      /\ k \in Nat /\ fails \in 0 .. k - 1 /\ DOMAIN cache = 1 .. n
      /\ \A m \in There : files[m].made \in Nat
  <2>1. /\ files \in [Name -> Fragment \cup {NoFile}] /\ made \in Nat /\ n \in Nat
        /\ k \in Nat /\ fails \in 0 .. k - 1 /\ DOMAIN cache = 1 .. n
    BY Ends, CacheAssumption DEF TypeOK
  <2>2. \A m \in There : files[m].made \in Nat
    BY <2>1 DEF There, Fragment
  <2> QED
    BY <2>1, <2>2
\* What stays in the directory and in its place of the list.
<1>1. ASSUME files' = files, cache' = cache, made' - Since' <= made - Since,
             made' \in Int, Since' \in Int, Since \in Int
      PROVE  Listed'
  <2> SUFFICES ASSUME NEW m \in There PROVE \E i \in DOMAIN cache : Names(i, m)'
    BY <1>1 DEF Listed, There
  <2>1. PICK i \in DOMAIN cache : Names(i, m)
    BY DEF Listed
  <2> DEFINE p == (Len(cache) - i) * (MaxFails + 1)
             f == files[m].made
  <2>2. p \in Int /\ f \in Nat
    BY <1>0, Products
  <2>3. made - f <= Since + p
    BY <2>1 DEF Names
  <2>4. made' - f <= Since' + p
    <3>1. made \in Int
      BY <1>0
    <3>2. made' - Since' <= made - Since /\ made' \in Int /\ Since' \in Int /\ Since \in Int
      BY <1>1
    <3>3. PICK a \in Int, b \in Int, c \in Int, d \in Int :
            a = made' /\ b = Since' /\ c = made /\ d = Since
      BY <3>1, <3>2
    <3>4. a - b <= c - d
      BY <3>2, <3>3
    <3>5. c - f <= d + p
      BY <2>3, <3>3
    <3> HIDE DEF p, f
    <3>6. a - f <= b + p
      BY <2>2, <3>4, <3>5
    <3> QED BY <3>3, <3>6
  <2>5. Names(i, m)'
    BY <1>1, <2>1, <2>4 DEF Names
  <2> QED
    BY <2>5
<1>2. Since \in Int
  BY <1>0 DEF Since
<1>3. ASSUME NEW d \in Duration, NextChunk(d) PROVE Listed'
  <2>1. /\ UNCHANGED <<files, cache, made, fails>> /\ ppc # "transfer" /\ ppc' # "transfer"
    BY <1>3 DEF NextChunk, dirVars
  <2>2. Since' = Since
    BY <2>1 DEF Since
  <2> QED
    BY <1>0, <1>1, <1>2, <2>1, <2>2
<1>4. CASE Evict
  <2> DEFINE h == Head(cache).name
  <2>1. /\ cache # <<>> /\ cache' = Tail(cache) /\ files' = [files EXCEPT ![h] = NoFile]
        /\ UNCHANGED <<made, fails, ppc>>
    BY <1>4 DEF Evict, TooLong
  <2>2. \A m \in There' : m \in There /\ m # h /\ files'[m] = files[m]
    BY <1>0, <2>1 DEF There
  <2>3. Since' = Since
    BY <2>1 DEF Since
  <2>4. ASSUME NEW m \in There' PROVE \E i \in DOMAIN cache' : Names(i, m)'
    <3>1. PICK i \in DOMAIN cache : Names(i, m)
      BY <2>2 DEF Listed
    <3>2. i # 1
      BY <2>1, <2>2, <3>1, Ends DEF Names
    <3>3. i - 1 \in 1 .. n - 1 /\ (i - 1) + 1 = i
      BY <3>2, Ends
    <3>4. /\ i - 1 \in DOMAIN cache' /\ cache'[i - 1] = cache[i]
          /\ Len(cache') - (i - 1) = Len(cache) - i
      <4>1. /\ i - 1 \in DOMAIN Tail(cache) /\ Tail(cache)[i - 1] = cache[i]
            /\ Len(Tail(cache)) = Len(cache) - 1
        BY <2>1, <3>3, Ends
      <4> QED
        BY <1>0, <2>1, <3>3, <4>1
    <3>5. Names(i - 1, m)'
      BY <2>1, <2>2, <2>3, <3>1, <3>4 DEF Names
    <3> QED
      BY <3>4, <3>5
  <2> QED
    BY <2>4 DEF Listed
<1>5. CASE OpenTmp \/ OpenFails
  <2>1. /\ made' = made + 1 /\ files' = files /\ cache' = cache /\ ppc = "room"
        /\ \/ ppc' = "transfer"
           \/ ppc' = "room" /\ fails' = fails + 1
    BY <1>5 DEF OpenTmp, OpenFails, Fits, UseNumber, dirVars
  <2>2. Since = fails /\ Since' \in {k, fails + 1}
    BY <2>1 DEF Since
  <2>3. made' - Since' <= made - Since /\ Since' \in Int /\ made' \in Int
    <3>1. made \in Nat /\ k \in Nat /\ fails \in 0 .. k - 1
      BY <1>0
    <3> HIDE DEF k
    <3>2. CASE Since' = k
      BY <2>1, <2>2, <3>1, <3>2
    <3>3. CASE Since' = fails + 1
      BY <2>1, <2>2, <3>1, <3>3
    <3> QED
      BY <2>2, <3>2, <3>3
  <2> QED
    BY <1>1, <1>2, <2>1, <2>3
<1>6. ASSUME NEW body, Transferred(body) PROVE Listed'
  <2>1. /\ cache' = Append(cache, [name |-> seq, dur |-> dur])
        /\ \/ files' = [files EXCEPT ![seq] = [made |-> made, body |-> body]]
           \/ files' = files
        /\ UNCHANGED <<made, fails>> /\ ppc = "transfer" /\ ppc' = "wait"
    BY <1>6 DEF Transferred, dirVars
  <2>2. Since = k /\ Since' = 0
    BY <1>0, <2>1 DEF Since, Limits
  <2>3. \A m \in There' :
          \/ m \in There /\ files'[m] = files[m]
          \/ m = seq /\ files'[m].made = made
    BY <1>0, <2>1 DEF There
  <2>4. Len(cache') = n + 1 /\ DOMAIN cache' = 1 .. n + 1 /\ cache'[n + 1].name = seq
        /\ \A i \in 1 .. n : cache'[i] = cache[i]
    BY <2>1, Ends
  <2>5. ASSUME NEW m \in There' PROVE \E i \in DOMAIN cache' : Names(i, m)'
    <3>1. CASE m = seq /\ files'[m].made = made
      <4>1. PICK i \in Nat : i = n + 1
        BY <1>0
      <4>2. (Len(cache') - i) * k = 0 /\ made - made = 0
        BY <1>0, <2>4, <4>1
      <4>3. Names(i, m)'
        BY <2>1, <2>2, <2>4, <3>1, <4>1, <4>2 DEF Names
      <4>4. i \in DOMAIN cache'
        BY <1>0, <2>4, <4>1
      <4> QED
        BY <4>3, <4>4
    <3>2. CASE m \in There /\ files'[m] = files[m]
      <4>1. PICK i \in DOMAIN cache : Names(i, m)
        BY <3>2 DEF Listed
      <4> DEFINE p == (n - i) * k
                 q == ((n + 1) - i) * k
      <4>2. p \in Nat /\ q = p + k
        BY <1>0, Products
      <4>3. made - files[m].made <= k + p
        BY <2>2, <4>1 DEF Names
      <4>4. made - files[m].made <= 0 + q
        <5> HIDE DEF p, q
        <5> QED BY <1>0, <3>2, <4>2, <4>3
      <4>5. i \in DOMAIN cache' /\ cache'[i] = cache[i]
        BY <1>0, <2>4
      <4>6. Names(i, m)'
        BY <2>1, <2>2, <2>4, <3>2, <4>1, <4>4, <4>5 DEF Names
      <4> QED
        BY <4>5, <4>6
    <3> QED
      BY <2>3, <3>1, <3>2
  <2> QED
    BY <2>5 DEF Listed
<1>7. CASE Still
  <2>1. UNCHANGED <<files, cache, made, fails, ppc>>
    BY <1>7 DEF Still, dirVars, prodVars
  <2>2. Since' = Since
    BY <2>1 DEF Since
  <2> QED
    BY <1>0, <1>1, <1>2, <2>1, <2>2
<1> QED
  BY <1>3, <1>4, <1>5, <1>6, <1>7, ProducerSteps

-----------------------------------------------------------------------------
(* What follows of the list *)

\* The list counts what is on the disk.
Counted == TypeOK /\ Held /\ Limits /\ Listed

LEMMA AlwaysCounted == Spec => []Counted
<1>1. Init => Counted
  <2> SUFFICES ASSUME Init PROVE Counted
    OBVIOUS
  <2>1. /\ cache = <<>> /\ cached = 0 /\ fails = 0 /\ ppc = "wait"
        /\ files = [n \in Name |-> NoFile]
    BY DEF Init
  <2>2. 0 % Word = 0
    BY CacheAssumption
  <2>3. Limits
    BY <2>1, <2>2, SumEmpty, CacheAssumption DEF Limits
  <2>4. Listed
    BY <2>1 DEF Listed, There
  <2> QED
    BY <2>3, <2>4, InitHeld DEF Counted
<1>2. Counted /\ [Next]_vars => Counted'
  BY NextTypes, NextHeld, NextLimits, NextListed DEF Counted, Held
<1> QED
  BY <1>1, <1>2, PTL DEF Spec

\* Whatever the durations of the fragments are, and however many of the transfers and of the
\* open() calls fail: no file stays behind that the list does not name, and cached_ms is the
\* sum of the durations of the list in a word, above cache_ms only for a single fragment.
THEOREM DiskIsCounted == Spec => []DiskCounted
<1>1. Counted => DiskCounted
  <2> SUFFICES ASSUME Counted PROVE DiskCounted
    OBVIOUS
  <2>1. cached = FoldLeft(LAMBDA sum, f : sum + f.dur, 0, cache) % Word
    BY DEF Counted, Limits, Sum
  <2>2. \A n \in There : \E i \in DOMAIN cache : cache[i].name = n
    BY DEF Counted, Listed, Names
  <2> QED
    BY <2>1, <2>2 DEF DiskCounted, Counted, Limits
<1> QED
  BY <1>1, AlwaysCounted, PTL

\* The files span half a turn only when the list is so long that its fragments alone, with
\* the failures of open() between them, use up as many numbers.
LEMMA WidensWithList ==
  ASSUME Counted, [Next]_vars, ~wide, wide'
  PROVE  Len(cache) * (MaxFails + 1) >= MaxSeq - Half
<1> DEFINE k == MaxFails + 1
           l == Len(cache)
<1>1. OpenTmp \/ OpenFails
  BY ProducerSteps DEF NextChunk, Evict, Transferred, Still, prodVars
<1>2. /\ ppc = "room"
      /\ wide' = (wide \/ \E n \in There : made + 1 - files[n].made >= MaxSeq - Half)
  BY <1>1 DEF OpenTmp, OpenFails, Fits, UseNumber
<1>3. PICK n \in There : made + 1 - files[n].made >= MaxSeq - Half
  BY <1>2
<1>4. PICK i \in DOMAIN cache : Names(i, n)
  BY DEF Counted, Listed
<1>5. /\ i \in 1 .. l /\ l \in Nat /\ k \in Nat /\ fails \in 0 .. k - 1 /\ made \in Nat
      /\ Since = fails
  BY <1>2, Ends, CacheAssumption DEF Counted, TypeOK, Since
<1>6. files[n].made \in Nat
  BY DEF Counted, TypeOK, There, Fragment
<1> DEFINE p == (l - i) * k
           q == l * k
           f == files[n].made
           h == MaxSeq - Half
<1>7. p \in Nat /\ p + k <= q
  BY <1>5, Products
<1>8. f \in Nat /\ made - f <= fails + p /\ made + 1 - f >= h
  BY <1>3, <1>4, <1>5, <1>6 DEF Names
<1>9. q \in Int /\ h \in Int
  BY <1>5, HalfBounds, CacheAssumption
<1>10. q >= h
  <2> HIDE DEF p, q, f, h, k, l
  <2> QED
    BY <1>5, <1>7, <1>8, <1>9
<1> QED
  BY <1>10

\* Neither failed transfers nor empty fragments make the files span half a turn: only a list
\* of as many fragments does, whatever their durations are.
THEOREM WidensOnlyByLength == Spec => WidensByLength
<1>1. Counted /\ [Next]_vars
        => [~wide /\ wide' => Len(cache) * (MaxFails + 1) >= MaxSeq - Half]_vars
  BY WidensWithList
<1> QED
  BY <1>1, AlwaysCounted, PTL DEF Spec, WidensByLength

=============================================================================
