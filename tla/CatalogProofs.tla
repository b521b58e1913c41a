------------------------------ MODULE CatalogProofs ------------------------------
(***************************************************************************)
(* Proofs about Catalog, for any number and length of lists, any sizes of  *)
(* pages and any number of starts.                                         *)
(*                                                                         *)
(* Until the next start the catalogue does not change while it serves, so  *)
(* that what a control point has is always the beginning of the list.      *)
(*                                                                         *)
(* While a list is read, the node that is being prepared has what the      *)
(* lines since the last url give, and the folder what its headers give, so *)
(* that the next url or line finds them as the whole text says.            *)
(***************************************************************************)
EXTENDS Catalog, SequenceTheorems, FiniteSetTheorems, WellFoundedInduction, TLAPS

Node == [name : Nat, url : Nat, attr : [Attr -> Nat]]
Folder == [attr : [Attr -> Nat], channels : Seq(Node)]

TreeOK ==
  /\ pc \in {"scan", "parse", "serve"}
  /\ starts \in Nat /\ chnl \in Node
  /\ folders \in Seq(Folder) /\ text \in Seq(Seq(Line)) /\ Len(text) = Len(folders)
  /\ pc = "parse" => folders # <<>>

\* What a control point has since the last start is the beginning of the list, and all of
\* it at the end.
Beginning ==
  cp # "idle" /\ since = starts =>
    /\ pc = "serve"
    /\ cp = "end" => Known(place)
    /\ Known(place) =>
         /\ from \in 0 .. Len(Objects(place))
         /\ got = SubSeq(Objects(place), 1, from)
         /\ cp = "end" => from = Len(Objects(place))

PlaceOK ==
  /\ cp \in {"idle", "ask", "end"}
  /\ since \in Nat /\ since <= starts
  /\ from \in Nat

-----------------------------------------------------------------------------
\* The last list is there while it is parsed, and a line gives attributes numbers.
LEMMA InParse ==
  ASSUME TreeOK, pc = "parse"
  PROVE  /\ Len(folders) \in DOMAIN folders /\ Len(text) \in DOMAIN text
         /\ Len(text[Len(text)]) \in Nat
         /\ \A attr \in [Attr -> Nat] : \A gives \in Gives : Attributes(attr, gives) \in [Attr -> Nat]
<1>1. Len(folders) \in Nat /\ Len(folders) # 0
  BY DEF TreeOK
<1>2. Len(folders) \in DOMAIN folders /\ Len(text) \in DOMAIN text
  BY <1>1 DEF TreeOK
<1>3. text[Len(text)] \in Seq(Line)
  <2> HIDE DEF Line
  <2> QED BY <1>2 DEF TreeOK
<1>4. Len(text[Len(text)]) \in Nat
  <2> HIDE DEF Line
  <2> QED BY <1>3
<1> QED
  BY <1>2, <1>4 DEF Attributes, Gives

\* Every step keeps the types of the tree.
LEMMA TreeNext == TreeOK /\ [Next]_vars => TreeOK'
<1> SUFFICES ASSUME TreeOK, [Next]_vars PROVE TreeOK'
  OBVIOUS
<1>1. CASE OpenList
  <2>1. Blank \in Node
    BY DEF Blank, Node
  <2>2. [attr |-> Blank.attr, channels |-> <<>>] \in Folder
    BY DEF Blank, Folder
  <2>3. folders' \in Seq(Folder) /\ Len(folders') = Len(folders) + 1
    <3> HIDE DEF Folder
    <3> QED BY <1>1, <2>2 DEF OpenList, TreeOK
  <2>4. text' \in Seq(Seq(Line)) /\ Len(text') = Len(text) + 1
    BY <1>1 DEF OpenList, TreeOK
  <2> QED
    BY <1>1, <2>1, <2>3, <2>4 DEF OpenList, TreeOK
<1>2. ASSUME NEW line \in Line, ReadLine(line) PROVE TreeOK'
  <2> DEFINE n == Len(text[Len(text)]) + 1
             k == Len(folders)
  <2>0. pc = "parse" /\ pc' = "parse" /\ UNCHANGED <<starts, viewVars>>
    BY <1>2 DEF ReadLine
  <2>1. k \in DOMAIN folders /\ Len(text) \in DOMAIN text /\ n \in Nat
    BY <2>0, InParse
  <2>2. folders[k] \in Folder
    <3> HIDE DEF Folder
    <3> QED BY <2>1 DEF TreeOK
  <2>3. /\ text' \in Seq(Seq(Line)) /\ Len(text') = Len(text)
    <3>1. Append(text[Len(text)], line) \in Seq(Line)
      <4> HIDE DEF Line
      <4>1. text[Len(text)] \in Seq(Line)
        BY <2>1 DEF TreeOK
      <4> QED BY <4>1
    <3> QED
      BY <1>2, <2>1, <3>1 DEF ReadLine, TreeOK
  <2>4. /\ folders' \in Seq(Folder) /\ Len(folders') = Len(folders) /\ chnl' \in Node
    <3>1. CASE line.is = "url"
      <4>1. OnUrl(n)
        BY <1>2, <3>1 DEF ReadLine
      <4>2. [chnl EXCEPT !.url = n] \in Node /\ Blank \in Node
        BY <2>1 DEF TreeOK, Node, Blank
      <4> DEFINE c == [chnl EXCEPT !.url = n]
                 f == [folders[k] EXCEPT !.channels = Append(@, c)]
      <4>3. f \in Folder
        <5>1. Append(folders[k].channels, c) \in Seq(Node)
          <6> HIDE DEF Node
          <6>1. folders[k].channels \in Seq(Node)
            BY <2>2 DEF Folder
          <6> QED BY <4>2, <6>1
        <5> QED
          BY <2>2, <5>1 DEF Folder
      <4>4. folders' = [folders EXCEPT ![k] = f]
        BY <4>1 DEF OnUrl
      <4> HIDE DEF f, Folder
      <4>5. folders' \in Seq(Folder) /\ Len(folders') = Len(folders)
        BY <2>1, <4>3, <4>4 DEF TreeOK
      <4> QED
        BY <4>1, <4>2, <4>5 DEF OnUrl
    <3>2. CASE line.is = "info"
      <4>1. OnInfo(n, line.gives) /\ line.gives \in Gives
        BY <1>2, <3>2 DEF ReadLine, Line
      <4>2. chnl.attr \in [Attr -> Nat]
        BY DEF TreeOK, Node
      <4>3. Attributes(chnl.attr, line.gives) \in [Attr -> Nat]
        BY <2>0, <4>1, <4>2, InParse
      <4> QED
        BY <2>1, <4>1, <4>3 DEF OnInfo, TreeOK, Node
    <3>3. CASE line.is = "header"
      <4>1. OnHeader(line.gives) /\ line.gives \in Gives
        BY <1>2, <3>3 DEF ReadLine, Line
      <4> DEFINE f == [folders[k] EXCEPT !.attr = Attributes(@, line.gives)]
      <4>2. f \in Folder
        <5>1. Attributes(folders[k].attr, line.gives) \in [Attr -> Nat]
          BY <2>0, <2>2, <4>1, InParse DEF Folder
        <5> QED
          BY <2>2, <5>1 DEF Folder
      <4>3. folders' = [folders EXCEPT ![k] = f]
        BY <4>1 DEF OnHeader
      <4> HIDE DEF f, Folder
      <4>4. folders' \in Seq(Folder) /\ Len(folders') = Len(folders)
        BY <2>1, <4>2, <4>3 DEF TreeOK
      <4> QED
        BY <4>1, <4>4 DEF OnHeader, TreeOK
    <3>4. CASE line.is = "other"
      BY <1>2, <3>4 DEF ReadLine, TreeOK
    <3> QED
      BY <3>1, <3>2, <3>3, <3>4 DEF Line
  <2>5. folders' # <<>>
    BY <2>0, <2>4 DEF TreeOK
  <2> QED
    BY <2>0, <2>3, <2>4, <2>5 DEF TreeOK
<1>3. CASE ListEnds \/ ScanEnds
  BY <1>3 DEF ListEnds, ScanEnds, TreeOK
<1>4. CASE Restart
  <2>1. Blank \in Node
    BY DEF Blank, Node
  <2> QED
    BY <1>4, <2>1 DEF Restart, TreeOK
<1>5. CASE ControlPoint \/ UNCHANGED vars
  BY <1>5 DEF ControlPoint, Begin, Answer, Fault, vars, treeVars, TreeOK
<1> QED
  BY <1>1, <1>2, <1>3, <1>4, <1>5 DEF Next, Scan

-----------------------------------------------------------------------------
\* There are finitely many channels.
LEMMA FiniteChannels ==
  ASSUME TreeOK
  PROVE  IsFiniteSet(Channels)
<1> DEFINE row(i) == {<<i, j>> : j \in DOMAIN folders[i].channels}
           rows == {row(i) : i \in DOMAIN folders}
<1>1. ASSUME NEW i \in DOMAIN folders PROVE IsFiniteSet(row(i))
  <2>1. folders[i].channels \in Seq(Node)
    <3>1. folders[i] \in Folder
      <4> HIDE DEF Folder
      <4> QED BY DEF TreeOK
    <3> QED BY <3>1 DEF Folder
  <2>2. PICK m \in Nat : DOMAIN folders[i].channels = 1 .. m
    <3> HIDE DEF Node
    <3> QED BY <2>1
  <2> DEFINE f == [j \in 1 .. m |-> <<i, j>>]
  <2>3. IsFiniteSet(1 .. m)
    BY FS_Interval
  <2>4. f \in Surjection(1 .. m, row(i))
    BY <2>2 DEF Surjection
  <2> QED
    BY <2>3, <2>4, FS_Surjection
<1>2. IsFiniteSet(rows)
  <2>1. DOMAIN folders = 1 .. Len(folders) /\ Len(folders) \in Nat
    BY DEF TreeOK
  <2>2. IsFiniteSet(DOMAIN folders)
    BY <2>1, FS_Interval
  <2> DEFINE f == [i \in DOMAIN folders |-> row(i)]
  <2>3. f \in Surjection(DOMAIN folders, rows)
    BY DEF Surjection
  <2> QED
    BY <2>2, <2>3, FS_Surjection
<1>3. IsFiniteSet(UNION rows)
  BY <1>1, <1>2, FS_UNION
<1> QED
  BY <1>3 DEF Channels

\* What is listed is a sequence.
LEMMA ObjectsAreListed ==
  ASSUME TreeOK, NEW p, Known(p)
  PROVE  \E S : Objects(p) \in Seq(S)
<1>1. CASE p = Root
  <2> DEFINE f == [i \in 1 .. Len(folders) |-> Container(i)]
             S == {f[i] : i \in 1 .. Len(folders)}
  <2>1. f \in Seq(S)
    BY DEF TreeOK
  <2>2. Objects(p) = f
    BY <1>1 DEF Objects, Root, Everywhere
  <2> QED
    BY <2>1, <2>2
<1>2. CASE p = Everywhere
  <2> DEFINE f == [k \in 1..Cardinality(Channels) |->
                     LET c == CHOOSE d \in Channels : Running(d) = k IN Item(c[1], c[2])]
             S == {f[k] : k \in 1 .. Cardinality(Channels)}
  <2>1. Cardinality(Channels) \in Nat
    BY FiniteChannels, FS_CardinalityType
  <2>2. f \in Seq(S)
    BY <2>1
  <2>3. Objects(p) = f
    BY <1>2 DEF Objects, Root, Everywhere
  <2> QED
    BY <2>2, <2>3
<1>3. CASE p \in DOMAIN folders /\ p # Root /\ p # Everywhere
  <2>1. Len(folders[p].channels) \in Nat
    <3>1. folders[p] \in Folder
      <4> HIDE DEF Folder
      <4> QED BY <1>3 DEF TreeOK
    <3> QED BY <3>1 DEF Folder
  <2> DEFINE f == [j \in 1 .. Len(folders[p].channels) |-> Item(p, j)]
             S == {f[j] : j \in 1 .. Len(folders[p].channels)}
  <2>2. f \in Seq(S)
    BY <2>1
  <2>3. Objects(p) = f
    BY <1>3 DEF Objects
  <2> QED
    BY <2>2, <2>3
<1> QED
  BY <1>1, <1>2, <1>3 DEF Known

\* A page is what comes next.
LEMMA PageAdds ==
  ASSUME TreeOK, PlaceOK, Beginning, NEW count \in Requested, Answer(count)
  PROVE  PlaceOK' /\ Beginning'
<1> DEFINE list == Objects(place)
           to == Min({Len(list), LastOfPage(place, count)})
           page == SubSeq(list, from + 1, to)
<1>1. /\ cp = "ask" /\ pc = "serve" /\ Known(place)
      /\ got' = got \o page /\ from' = from + Len(page)
      /\ cp' = IF from + Len(page) >= Len(list) \/ page = <<>> THEN "end" ELSE "ask"
      /\ UNCHANGED <<place, since, treeVars>>
  BY DEF Answer
<1>2. PICK S : list \in Seq(S)
  BY <1>1, ObjectsAreListed
<1>3. Objects(place)' = Objects(place) /\ Known(place)'
  <2>1. UNCHANGED <<place, folders>> /\ Known(place)
    BY <1>1 DEF treeVars
  <2> HIDE <1>1
  <2> QED
    BY <2>1 DEF Known, Objects, Container, Item, Channels, Running, Root, Everywhere
<1> HIDE DEF list
<1>4. Len(list) \in Nat /\ LastOfPage(place, count) \in Int
  BY <1>2, CatalogAssumption DEF LastOfPage, PlaceOK, list
<1>5. to \in Int /\ to <= Len(list) /\ to <= LastOfPage(place, count)
      /\ to \in {Len(list), LastOfPage(place, count)}
  BY <1>4 DEF Min
<1> HIDE DEF to
<1>6. /\ Len(page) \in Nat
      /\ Len(page) = IF from + 1 <= to THEN to - from ELSE 0
  BY <1>2, <1>4, <1>5 DEF PlaceOK
<1>7. ~(from + 1 <= to) => page = <<>>
  BY <1>2, <1>4, <1>5, SubSeqEmpty DEF PlaceOK
<1> HIDE DEF page
<1>8. page = <<>> => Len(page) = 0
  OBVIOUS
<1>9. PlaceOK'
  BY <1>1, <1>6 DEF PlaceOK, treeVars
<1>10. ASSUME since = starts PROVE Beginning'
  <2>1. from \in 0 .. Len(list) /\ got = SubSeq(list, 1, from)
    BY <1>1, <1>10 DEF Beginning, list
  <2>2. from < Len(list) => to > from
    BY <1>4, <1>5, <2>1, CatalogAssumption DEF LastOfPage, list
  <2>3. from + Len(page) \in from .. Len(list)
    BY <1>4, <1>5, <1>6, <2>1
  <2>4. got' = SubSeq(list, 1, from + Len(page))
    <3>1. CASE from + 1 <= to
      <4>1. from + Len(page) = to /\ to \in from .. Len(list)
        BY <1>4, <1>5, <1>6, <2>1, <3>1
      <4>2. SubSeq(list, 1, from) \o SubSeq(list, from + 1, to) = SubSeq(list, 1, to)
        BY <1>2, <1>4, <2>1, <4>1, ConcatAdjacentSubSeq
      <4> QED
        BY <1>1, <2>1, <4>1, <4>2 DEF page
    <3>2. CASE ~(from + 1 <= to)
      <4>1. page = <<>> /\ Len(page) = 0
        BY <1>7, <1>8, <3>2
      <4>2. got \o <<>> = got
        BY <1>2, <2>1, ConcatEmptySeq, SubSeqProperties
      <4>3. from + Len(page) = from
        BY <2>1, <4>1, <1>4
      <4> QED
        BY <1>1, <2>1, <4>1, <4>2, <4>3
    <3> QED
      BY <3>1, <3>2
  <2>5. cp' = "end" => from + Len(page) = Len(list)
    BY <1>1, <1>4, <1>5, <1>6, <1>8, <2>1, <2>2, <2>3
  <2> QED
    BY <1>1, <1>3, <2>3, <2>4, <2>5 DEF Beginning, treeVars, list
<1>11. ASSUME since # starts PROVE Beginning'
  BY <1>1, <1>11 DEF Beginning, treeVars
<1> QED
  BY <1>9, <1>10, <1>11

\* Nothing else takes from what a control point has, before the next start.
LEMMA ListKept == TreeOK /\ PlaceOK /\ Beginning /\ [Next]_vars => PlaceOK' /\ Beginning'
<1> SUFFICES ASSUME TreeOK, PlaceOK, Beginning, [Next]_vars PROVE PlaceOK' /\ Beginning'
  OBVIOUS
<1>1. CASE OpenList \/ (\E line \in Line : ReadLine(line)) \/ ListEnds \/ ScanEnds
  BY <1>1 DEF OpenList, ReadLine, ListEnds, ScanEnds, viewVars, PlaceOK, Beginning
<1>2. CASE Restart
  BY <1>2 DEF Restart, viewVars, TreeOK, PlaceOK, Beginning
<1>3. ASSUME NEW p, Begin(p) PROVE PlaceOK' /\ Beginning'
  <2>1. ASSUME Known(p)
        PROVE  Len(Objects(p)) \in Nat /\ SubSeq(Objects(p), 1, 0) = <<>>
    <3>1. PICK S : Objects(p) \in Seq(S)
      BY <2>1, ObjectsAreListed
    <3> QED
      BY <3>1, SubSeqEmpty
  <2>2. Objects(place)' = Objects(p) /\ (Known(place)' <=> Known(p))
    BY <1>3 DEF Begin, Known, Objects, Container, Item, Channels, Running, Root, Everywhere, treeVars
  <2> QED
    BY <1>3, <2>1, <2>2 DEF Begin, TreeOK, PlaceOK, Beginning, treeVars
<1>4. ASSUME NEW count \in Requested, Answer(count) PROVE PlaceOK' /\ Beginning'
  BY <1>4, PageAdds
<1>5. CASE Fault
  BY <1>5 DEF Fault, PlaceOK, Beginning, treeVars
<1>6. CASE UNCHANGED vars
  <2>1. Objects(place)' = Objects(place) /\ (Known(place)' <=> Known(place))
    BY <1>6 DEF Known, Objects, Container, Item, Channels, Running, Root, Everywhere, treeVars, viewVars, vars
  <2> QED
    BY <1>6, <2>1 DEF PlaceOK, Beginning, treeVars, viewVars, vars
<1> QED
  BY <1>1, <1>2, <1>3, <1>4, <1>5, <1>6 DEF Next, Scan, ControlPoint

\* A control point at the end has every object of the place, once and in order, whatever
\* pages it asked for, unless the program was started again.
THEOREM ListsAreWhole == Spec => []WholeList
<1>1. Init => TreeOK /\ PlaceOK /\ Beginning
  BY DEF Init, TreeOK, PlaceOK, Beginning, Blank, Node
<1>2. TreeOK /\ PlaceOK /\ Beginning => WholeList
  <2> SUFFICES ASSUME TreeOK, PlaceOK, Beginning, cp = "end", since = starts
               PROVE  got = Objects(place)
    BY DEF WholeList
  <2>1. Known(place) /\ got = SubSeq(Objects(place), 1, Len(Objects(place)))
    BY DEF Beginning
  <2>2. PICK S : Objects(place) \in Seq(S)
    BY <2>1, ObjectsAreListed
  <2> QED
    BY <2>1, <2>2, SubSeqFull
<1> QED
  BY <1>1, <1>2, TreeNext, ListKept, PTL DEF Spec

-----------------------------------------------------------------------------
(* Lines and what they give *)

\* The #EXTINF lines between two lines of a text, and its headers.
Infos(t, first, last) == {n \in first .. last : t[n].is = "info"}
Headers(t) == {n \in DOMAIN t : t[n].is = "header"}
Urls(t) == {n \in DOMAIN t : t[n].is = "url"}

\* The line of the url before channel j, or 0.
Before(channels, j) == IF j = 1 THEN 0 ELSE channels[j - 1].url

\* A channel is what the lines between the url before it and its own make of it.
ChannelRead(t, channels, j) ==
  LET infos == Infos(t, Before(channels, j) + 1, channels[j].url - 1)
  IN /\ Before(channels, j) < channels[j].url
     /\ channels[j].name = LastOf(infos)
     /\ \A a \in Attr : channels[j].attr[a] = Given(infos, t, a)

\* A folder is what has been read of its text: its headers, and all urls with what is theirs.
FolderRead(t, f) ==
  /\ Urls(t) = {f.channels[j].url : j \in DOMAIN f.channels}
  /\ \A j \in DOMAIN f.channels : ChannelRead(t, f.channels, j)
  /\ \A a \in Attr : f.attr[a] = Given(Headers(t), t, a)

\* The prepared node is what has been read since the last url.
NodeRead(t, channels, c) ==
  LET infos == Infos(t, Before(channels, Len(channels) + 1) + 1, Len(t))
  IN /\ c.name = LastOf(infos)
     /\ \A a \in Attr : c.attr[a] = Given(infos, t, a)

TreeRead ==
  /\ \A i \in DOMAIN folders : FolderRead(text[i], folders[i])
  /\ pc = "parse" => NodeRead(text[Len(text)], folders[Len(folders)].channels, chnl)

\* A set of places in a sequence has a greatest one.
LEMMA GreatestNumber ==
  ASSUME NEW m \in Nat, NEW S \in SUBSET (1 .. m), S # {}
  PROVE  Max(S) \in S /\ \A x \in S : x <= Max(S)
<1> DEFINE T == {x .. m : x \in S}
<1>1. T \subseteq FiniteSubsetsOf(Nat) /\ T # {}
  <2>1. ASSUME NEW x \in S PROVE x .. m \in FiniteSubsetsOf(Nat)
    <3>1. x \in Int /\ m \in Int /\ x .. m \subseteq Nat
      OBVIOUS
    <3>2. IsFiniteSet(x .. m)
      BY <3>1, FS_Interval
    <3> QED
      BY <3>1, <3>2 DEF FiniteSubsetsOf
  <2> QED
    BY <2>1
<1>2. IsWellFoundedOn(StrictSubsetOrdering(Nat), FiniteSubsetsOf(Nat))
  BY FS_StrictSubsetOrderingWellFounded
<1>3. PICK X \in T : \A Y \in T : ~ (<<Y, X>> \in StrictSubsetOrdering(Nat))
  <2> HIDE DEF T
  <2> QED BY <1>1, <1>2, WFMin
<1>4. PICK g \in S : X = g .. m
  OBVIOUS
<1>5. ASSUME NEW x \in S PROVE x <= g
  <2>1. ~ (<<x .. m, g .. m>> \in StrictSubsetOrdering(Nat))
    BY <1>3, <1>4
  <2>2. x .. m \subseteq Nat /\ g .. m \subseteq Nat
    OBVIOUS
  <2>3. SUFFICES ASSUME g < x PROVE FALSE
    OBVIOUS
  <2>4. x .. m \subseteq g .. m /\ x .. m # g .. m
    <3>1. g \in g .. m /\ g \notin x .. m
      BY <2>3
    <3> QED
      BY <2>3, <3>1
  <2> QED
    BY <2>1, <2>2, <2>4 DEF StrictSubsetOrdering
<1> QED
  BY <1>5 DEF Max

LEMMA LastOfNext ==
  ASSUME NEW m \in Nat, NEW S \in SUBSET (1 .. m)
  PROVE  LastOf(S \cup {m + 1}) = m + 1
<1> DEFINE R == S \cup {m + 1}
<1>1. R \in SUBSET (1 .. m + 1) /\ R # {} /\ m + 1 \in Nat /\ m + 1 \in R
  OBVIOUS
<1>2. Max(R) \in R /\ m + 1 <= Max(R)
  BY <1>1, GreatestNumber
<1>3. Max(R) = m + 1
  <2>1. Max(R) \in 1 .. m + 1
    BY <1>1, <1>2
  <2> HIDE DEF R
  <2> QED BY <1>2, <2>1
<1> QED
  BY <1>1, <1>3 DEF LastOf

\* A text with one more line.
LEMMA LineAdded ==
  ASSUME NEW t \in Seq(Line), NEW line \in Line
  PROVE  /\ Append(t, line) \in Seq(Line) /\ Len(t) \in Nat /\ DOMAIN t = 1 .. Len(t)
         /\ Len(Append(t, line)) = Len(t) + 1 /\ DOMAIN Append(t, line) = 1 .. Len(t) + 1
         /\ \A k \in 1 .. Len(t) : Append(t, line)[k] = t[k]
         /\ Append(t, line)[Len(t) + 1] = line
<1> HIDE DEF Line
<1> QED
  BY AppendProperties, LenProperties

\* What a line further on does not change.
LEMMA GivenKept ==
  ASSUME NEW t \in Seq(Line), NEW line \in Line, NEW S \in SUBSET (1 .. Len(t)), NEW a
  PROVE  Given(S, Append(t, line), a) = Given(S, t, a)
<1> DEFINE u == Append(t, line)
           m == Len(t)
<1>0. m \in Nat /\ S \in SUBSET (1 .. m) /\ \A k \in 1 .. m : u[k] = t[k]
  BY LineAdded
<1> HIDE DEF u, m
<1> DEFINE giving == {n \in S : t[n].gives[a] # "nothing"}
<1>1. {n \in S : u[n].gives[a] # "nothing"} = giving
  BY <1>0
<1>2. CASE giving = {}
  BY <1>1, <1>2 DEF Given, u
<1>3. CASE giving # {}
  <2>1. giving \in SUBSET (1 .. m)
    BY <1>0
  <2>2. Max(giving) \in giving
    BY <1>0, <1>3, <2>1, GreatestNumber
  <2>3. u[Max(giving)] = t[Max(giving)]
    BY <1>0, <2>1, <2>2
  <2> QED
    BY <1>1, <1>3, <2>3 DEF Given, u
<1> QED
  BY <1>2, <1>3

\* What the next line changes.
LEMMA GivenAdded ==
  ASSUME NEW t \in Seq(Line), NEW line \in Line, line.gives \in Gives,
         NEW S \in SUBSET (1 .. Len(t)), NEW a \in Attr
  PROVE  Given(S \cup {Len(t) + 1}, Append(t, line), a)
           = CASE line.gives[a] = "nothing" -> Given(S, t, a)
               [] line.gives[a] = "none"    -> 0
               [] line.gives[a] = "value"   -> Len(t) + 1
<1> DEFINE u == Append(t, line)
           m == Len(t)
           R == S \cup {m + 1}
           giving == {n \in R : u[n].gives[a] # "nothing"}
<1>0. /\ m \in Nat /\ S \in SUBSET (1 .. m) /\ u[m + 1] = line
  BY LineAdded
<1>1. line.gives[a] \in {"nothing", "none", "value"}
  BY DEF Gives
<1>2. Given(S, u, a) = Given(S, t, a)
  BY GivenKept
<1> HIDE DEF u, m
<1>3. CASE line.gives[a] = "nothing"
  <2>1. giving = {n \in S : u[n].gives[a] # "nothing"}
    BY <1>0, <1>3
  <2>2. Given(R, u, a) = Given(S, u, a)
    BY <2>1 DEF Given
  <2> QED
    BY <1>2, <1>3, <2>2 DEF u, m
<1>4. CASE line.gives[a] # "nothing"
  <2>1. m + 1 \in giving /\ giving \in SUBSET (1 .. m + 1) /\ m + 1 \in Nat
    <3>1. m + 1 \in R /\ R \in SUBSET (1 .. m + 1)
      BY <1>0
    <3> HIDE DEF R
    <3>2. giving \subseteq R
      OBVIOUS
    <3>3. m + 1 \in giving
      BY <1>0, <1>4, <3>1
    <3> HIDE DEF giving
    <3>4. giving \in SUBSET (1 .. m + 1)
      BY <3>1, <3>2
    <3> QED
      BY <1>0, <3>3, <3>4
  <2>2. Max(giving) = m + 1
    <3> HIDE DEF giving
    <3>1. Max(giving) \in giving /\ m + 1 <= Max(giving)
      BY <2>1, GreatestNumber
    <3>2. Max(giving) \in 1 .. m + 1
      BY <2>1, <3>1
    <3> QED
      BY <1>0, <3>1, <3>2
  <2>3. giving # {}
    BY <2>1
  <2>4. Given(R, u, a) = IF line.gives[a] = "none" THEN 0 ELSE m + 1
    BY <1>0, <2>2, <2>3 DEF Given
  <2> QED
    BY <1>1, <1>4, <2>4 DEF u, m
<1> QED
  BY <1>3, <1>4

LEMMA InfosAre ==
  ASSUME NEW t \in Seq(Line), NEW line \in Line, NEW first \in Nat, first >= 1, NEW last \in Int
  PROVE  /\ last <= Len(t) => /\ Infos(t, first, last) \in SUBSET (1 .. Len(t))
                              /\ Infos(Append(t, line), first, last) = Infos(t, first, last)
         /\ first <= Len(t) + 1 =>
              Infos(Append(t, line), first, Len(t) + 1) =
                Infos(t, first, Len(t)) \cup (IF line.is = "info" THEN {Len(t) + 1} ELSE {})
<1> DEFINE u == Append(t, line)
           m == Len(t)
<1>1. m \in Nat /\ u[m + 1] = line /\ \A k \in 1 .. m : u[k] = t[k]
  BY LineAdded
<1> HIDE DEF u, m
<1>2. ASSUME last <= m
      PROVE  /\ Infos(t, first, last) \in SUBSET (1 .. m)
             /\ Infos(u, first, last) = Infos(t, first, last)
  <2>1. \A k \in first .. last : k \in 1 .. m /\ u[k] = t[k]
    BY <1>1, <1>2
  <2> QED
    BY <2>1 DEF Infos
<1>3. ASSUME first <= m + 1
      PROVE  Infos(u, first, m + 1)
               = Infos(t, first, m) \cup (IF line.is = "info" THEN {m + 1} ELSE {})
  <2>1. first .. m + 1 = (first .. m) \cup {m + 1} /\ \A k \in first .. m : k \in 1 .. m
    BY <1>1, <1>3
  <2> QED
    BY <1>1, <2>1 DEF Infos
<1> QED
  BY <1>2, <1>3 DEF u, m

LEMMA HeadersAre ==
  ASSUME NEW t \in Seq(Line), NEW line \in Line
  PROVE  /\ Headers(t) \in SUBSET (1 .. Len(t))
         /\ Headers(Append(t, line)) =
              Headers(t) \cup (IF line.is = "header" THEN {Len(t) + 1} ELSE {})
         /\ Urls(t) \in SUBSET (1 .. Len(t))
         /\ Urls(Append(t, line)) = Urls(t) \cup (IF line.is = "url" THEN {Len(t) + 1} ELSE {})
<1> DEFINE u == Append(t, line)
           m == Len(t)
<1>1. m \in Nat /\ u[m + 1] = line /\ (\A k \in 1 .. m : u[k] = t[k])
      /\ DOMAIN t = 1 .. m /\ DOMAIN u = 1 .. m + 1
  BY LineAdded
<1> HIDE DEF u, m
<1>2. 1 .. m + 1 = (1 .. m) \cup {m + 1}
  BY <1>1
<1> QED
  BY <1>1, <1>2 DEF Headers, Urls, u, m

\* The urls of a folder are lines of its text.
LEMMA UrlsAreLines ==
  ASSUME NEW t \in Seq(Line), NEW f \in Folder, FolderRead(t, f)
  PROVE  /\ f.channels \in Seq(Node) /\ Len(f.channels) \in Nat
         /\ DOMAIN f.channels = 1 .. Len(f.channels)
         /\ \A j \in 1 .. Len(f.channels) : f.channels[j].url \in 1 .. Len(t)
         /\ \A j \in 1 .. Len(f.channels) + 1 : Before(f.channels, j) \in 0 .. Len(t)
<1>1. f.channels \in Seq(Node)
  BY DEF Folder
<1>2. Len(f.channels) \in Nat /\ DOMAIN f.channels = 1 .. Len(f.channels)
  <2> HIDE DEF Node
  <2> QED BY <1>1
<1>3. Len(t) \in Nat /\ Urls(t) \in SUBSET (1 .. Len(t))
  <2>1. Len(t) \in Nat /\ DOMAIN t = 1 .. Len(t)
    <3> HIDE DEF Line
    <3> QED BY LenProperties
  <2> QED
    BY <2>1 DEF Urls
<1>4. \A j \in 1 .. Len(f.channels) : f.channels[j].url \in 1 .. Len(t)
  BY <1>2, <1>3 DEF FolderRead
<1>5. ASSUME NEW j \in 1 .. Len(f.channels) + 1 PROVE Before(f.channels, j) \in 0 .. Len(t)
  <2>1. CASE j = 1
    BY <1>3, <2>1 DEF Before
  <2>2. CASE j # 1
    <3>1. j - 1 \in 1 .. Len(f.channels)
      BY <1>2, <2>2
    <3>2. f.channels[j - 1].url \in 1 .. Len(t)
      BY <1>4, <3>1
    <3> QED
      BY <1>3, <2>2, <3>2 DEF Before
  <2> QED
    BY <2>1, <2>2
<1> QED
  BY <1>1, <1>2, <1>4, <1>5

\* A channel that was read stays what it was read from, whatever lines and channels follow.
LEMMA ChannelKept ==
  ASSUME NEW t \in Seq(Line), NEW line \in Line, NEW f \in Folder, FolderRead(t, f),
         NEW j \in 1 .. Len(f.channels), NEW channels,
         \A k \in 1 .. Len(f.channels) : channels[k] = f.channels[k]
  PROVE  ChannelRead(Append(t, line), channels, j)
<1> DEFINE u == Append(t, line)
           b == Before(f.channels, j)
           url == f.channels[j].url
           infos == Infos(t, b + 1, url - 1)
<1>1. Len(t) \in Nat /\ \A k \in 1 .. Len(t) : u[k] = t[k]
  BY LineAdded
<1>2. url \in 1 .. Len(t) /\ b \in 0 .. Len(t) /\ Len(f.channels) \in Nat
      /\ DOMAIN f.channels = 1 .. Len(f.channels)
  BY UrlsAreLines
<1>3. channels[j] = f.channels[j] /\ Before(channels, j) = b
  BY <1>2 DEF Before
<1>4. ChannelRead(t, f.channels, j)
  BY <1>2 DEF FolderRead
<1>5. infos \in SUBSET (1 .. Len(t)) /\ Infos(u, b + 1, url - 1) = infos
  <2>1. b + 1 \in Nat /\ b + 1 >= 1 /\ url - 1 \in Int /\ url - 1 <= Len(t)
    BY <1>1, <1>2
  <2> QED
    BY <2>1, InfosAre
<1> HIDE DEF infos, u
<1>6. \A a \in Attr : Given(infos, u, a) = Given(infos, t, a)
  BY <1>5, GivenKept DEF u
<1>7. b < url /\ f.channels[j].name = LastOf(infos)
      /\ \A a \in Attr : f.channels[j].attr[a] = Given(infos, t, a)
  BY <1>4 DEF ChannelRead, infos
<1> QED
  BY <1>3, <1>5, <1>6, <1>7 DEF ChannelRead, u

\* A line that is neither a header nor a url changes nothing of the folder.
LEMMA FolderKept ==
  ASSUME NEW t \in Seq(Line), NEW line \in Line, line.is \notin {"header", "url"},
         NEW f \in Folder, FolderRead(t, f)
  PROVE  FolderRead(Append(t, line), f)
<1> DEFINE u == Append(t, line)
<1>1. Len(t) \in Nat /\ \A k \in 1 .. Len(t) : u[k] = t[k]
  BY LineAdded
<1>2. Headers(t) \in SUBSET (1 .. Len(t)) /\ Headers(u) = Headers(t) /\ Urls(u) = Urls(t)
  BY HeadersAre
<1>3. DOMAIN f.channels = 1 .. Len(f.channels)
  BY UrlsAreLines
<1> HIDE DEF u
<1>4. \A j \in DOMAIN f.channels : ChannelRead(u, f.channels, j)
  BY <1>3, ChannelKept DEF u
<1>5. \A a \in Attr : Given(Headers(t), u, a) = Given(Headers(t), t, a)
  BY <1>2, GivenKept DEF u
<1> QED
  BY <1>2, <1>4, <1>5 DEF FolderRead, u

\* A line that is neither #EXTINF nor a url changes nothing of the prepared node.
LEMMA NodeKept ==
  ASSUME NEW t \in Seq(Line), NEW line \in Line, line.is \notin {"info", "url"},
         NEW f \in Folder, FolderRead(t, f), NEW c, NodeRead(t, f.channels, c)
  PROVE  NodeRead(Append(t, line), f.channels, c)
<1> DEFINE u == Append(t, line)
           b == Before(f.channels, Len(f.channels) + 1)
           infos == Infos(t, b + 1, Len(t))
<1>1. /\ Len(t) \in Nat /\ Len(u) = Len(t) + 1 /\ \A k \in 1 .. Len(t) : u[k] = t[k]
  BY LineAdded
<1>2. Len(f.channels) + 1 \in 1 .. Len(f.channels) + 1
  BY UrlsAreLines
<1>3. b \in 0 .. Len(t)
  BY <1>2, UrlsAreLines
<1>4. infos \in SUBSET (1 .. Len(t)) /\ Infos(u, b + 1, Len(u)) = infos
  <2> DEFINE first == b + 1
             last == Len(t)
  <2>1. first \in Nat /\ first >= 1 /\ first <= Len(t) + 1 /\ last \in Int /\ last <= Len(t)
    BY <1>1, <1>3
  <2> HIDE DEF first, last, u
  <2>2. Infos(t, first, last) \in SUBSET (1 .. Len(t))
    BY <2>1, InfosAre
  <2>3. Infos(u, first, Len(t) + 1) = Infos(t, first, Len(t)) \cup {}
    BY <2>1, InfosAre DEF u
  <2> QED
    BY <1>1, <2>2, <2>3 DEF first, last
<1> HIDE DEF infos, u
<1>5. \A a \in Attr : Given(infos, u, a) = Given(infos, t, a)
  BY <1>4, GivenKept DEF u
<1> QED
  BY <1>4, <1>5 DEF NodeRead, infos, u

\* A url: the node becomes a channel, and what is prepared next starts from nothing.
LEMMA UrlRead ==
  ASSUME NEW t \in Seq(Line), NEW line \in Line, line.is = "url",
         NEW f \in Folder, FolderRead(t, f), NEW c \in Node, NodeRead(t, f.channels, c)
  PROVE  LET channels == Append(f.channels, [c EXCEPT !.url = Len(t) + 1])
         IN /\ FolderRead(Append(t, line), [f EXCEPT !.channels = channels])
            /\ NodeRead(Append(t, line), channels, Blank)
<1> DEFINE u == Append(t, line)
           m == Len(t)
           k == Len(f.channels)
           d == [c EXCEPT !.url = m + 1]
           channels == Append(f.channels, d)
           b == Before(f.channels, k + 1)
           infos == Infos(t, b + 1, m)
<1>1. m \in Nat /\ Len(u) = m + 1 /\ \A i \in 1 .. m : u[i] = t[i]
  BY LineAdded
<1>2. d \in Node /\ d.url = m + 1 /\ d.name = c.name /\ d.attr = c.attr
  BY <1>1 DEF Node
<1>3. /\ f.channels \in Seq(Node) /\ k \in Nat /\ DOMAIN f.channels = 1 .. k
      /\ \A j \in 1 .. k + 1 : Before(f.channels, j) \in 0 .. m
  BY UrlsAreLines
<1>4. b \in 0 .. m
  BY <1>3
<1>5. /\ Headers(t) \in SUBSET (1 .. m) /\ Headers(u) = Headers(t)
      /\ Urls(u) = Urls(t) \cup {m + 1}
  BY HeadersAre
<1>6. infos \in SUBSET (1 .. m) /\ Infos(u, b + 1, m) = infos
  <2>1. b + 1 \in Nat /\ b + 1 >= 1 /\ m \in Int /\ m <= Len(t)
    BY <1>1, <1>4
  <2> QED
    BY <2>1, InfosAre
<1> HIDE DEF u, m, k, infos, d
<1>7. /\ channels \in Seq(Node) /\ Len(channels) = k + 1 /\ DOMAIN channels = 1 .. k + 1
      /\ \A j \in 1 .. k : channels[j] = f.channels[j]
      /\ channels[k + 1] = d
  <2> HIDE DEF Node
  <2> QED BY <1>2, <1>3, AppendProperties, LenProperties DEF k
<1> HIDE DEF channels
<1>8. Before(channels, k + 1) = b
  BY <1>3, <1>7 DEF Before
<1>9. ASSUME NEW j \in 1 .. k + 1 PROVE ChannelRead(u, channels, j)
  <2>1. CASE j \in 1 .. k
    BY <1>7, <2>1, ChannelKept DEF u, k
  <2>2. CASE j = k + 1
    <3>1. channels[j] = d /\ Before(channels, j) = b /\ b < d.url /\ d.url - 1 = m
      BY <1>1, <1>2, <1>4, <1>7, <1>8, <2>2
    <3>2. /\ d.name = LastOf(infos)
          /\ \A a \in Attr : d.attr[a] = Given(infos, t, a)
      BY <1>2 DEF NodeRead, infos, m, k
    <3>3. \A a \in Attr : Given(infos, u, a) = Given(infos, t, a)
      BY <1>6, GivenKept DEF u, m
    <3> QED
      BY <1>6, <3>1, <3>2, <3>3 DEF ChannelRead
  <2> QED
    BY <1>3, <2>1, <2>2
<1>10. Urls(u) = {channels[j].url : j \in 1 .. k + 1}
  <2>1. Urls(t) = {f.channels[j].url : j \in 1 .. k}
    BY <1>3 DEF FolderRead
  <2>2. 1 .. k + 1 = (1 .. k) \cup {k + 1}
    BY <1>3
  <2> QED
    BY <1>2, <1>5, <1>7, <2>1, <2>2
<1>11. \A a \in Attr : f.attr[a] = Given(Headers(u), u, a)
  <2>1. \A a \in Attr : Given(Headers(t), u, a) = Given(Headers(t), t, a)
    BY <1>5, GivenKept DEF u, m
  <2> QED
    BY <1>5, <2>1 DEF FolderRead
<1>12. FolderRead(u, [f EXCEPT !.channels = channels])
  <2>1. [f EXCEPT !.channels = channels].channels = channels
        /\ [f EXCEPT !.channels = channels].attr = f.attr
    BY DEF Folder
  <2> QED
    BY <1>7, <1>9, <1>10, <1>11, <2>1 DEF FolderRead
<1>13. NodeRead(u, channels, Blank)
  <2>1. Before(channels, Len(channels) + 1) = m + 1
    BY <1>2, <1>3, <1>7 DEF Before
  <2>2. Infos(u, m + 1 + 1, Len(u)) = {}
    BY <1>1 DEF Infos
  <2>3. LastOf({}) = 0 /\ \A a : Given({}, u, a) = 0
    BY DEF LastOf, Given
  <2> QED
    BY <2>1, <2>2, <2>3 DEF NodeRead, Blank
<1> QED
  BY <1>12, <1>13 DEF u, channels, d, m

\* An #EXTINF line: the last one gives the name, and what it gives replaces what was given.
LEMMA InfoRead ==
  ASSUME NEW t \in Seq(Line), NEW line \in Line, line.is = "info", line.gives \in Gives,
         NEW f \in Folder, FolderRead(t, f), NEW c \in Node, NodeRead(t, f.channels, c),
         NEW attr, \A a \in Attr : attr[a] = CASE line.gives[a] = "nothing" -> c.attr[a]
                                               [] line.gives[a] = "none"    -> 0
                                               [] line.gives[a] = "value"   -> Len(t) + 1
  PROVE  NodeRead(Append(t, line), f.channels, [c EXCEPT !.name = Len(t) + 1, !.attr = attr])
<1> DEFINE u == Append(t, line)
           m == Len(t)
           b == Before(f.channels, Len(f.channels) + 1)
           infos == Infos(t, b + 1, m)
           d == [c EXCEPT !.name = m + 1, !.attr = attr]
<1>1. m \in Nat /\ Len(u) = m + 1 /\ u[m + 1] = line /\ \A i \in 1 .. m : u[i] = t[i]
  BY LineAdded
<1>2. d.name = m + 1 /\ d.attr = attr
  BY DEF Node
<1>3. b \in 0 .. m
  <2>1. Len(f.channels) + 1 \in 1 .. Len(f.channels) + 1
    BY UrlsAreLines
  <2> QED
    BY <2>1, UrlsAreLines
<1>4. infos \in SUBSET (1 .. m) /\ Infos(u, b + 1, m + 1) = infos \cup {m + 1}
  <2>1. b + 1 \in Nat /\ b + 1 >= 1 /\ b + 1 <= Len(t) + 1 /\ m \in Int /\ m <= Len(t)
    BY <1>1, <1>3
  <2> QED
    BY <2>1, InfosAre
<1>5. \A a \in Attr : line.gives[a] \in {"nothing", "none", "value"}
  BY DEF Gives
<1>6. \A a \in Attr : c.attr[a] = Given(infos, t, a)
  BY DEF NodeRead
<1> HIDE DEF infos, u, d
<1>7. LastOf(infos \cup {m + 1}) = m + 1
  BY <1>1, <1>4, LastOfNext
<1>8. ASSUME NEW a \in Attr PROVE attr[a] = Given(infos \cup {m + 1}, u, a)
  <2>1. Given(infos \cup {m + 1}, u, a) = CASE line.gives[a] = "nothing" -> Given(infos, t, a)
                                            [] line.gives[a] = "none"    -> 0
                                            [] line.gives[a] = "value"   -> m + 1
    BY <1>4, GivenAdded DEF u
  <2>2. attr[a] = CASE line.gives[a] = "nothing" -> c.attr[a]
                    [] line.gives[a] = "none"    -> 0
                    [] line.gives[a] = "value"   -> m + 1
    OBVIOUS
  <2> QED
    BY <1>5, <1>6, <2>1, <2>2
<1> QED
  BY <1>1, <1>2, <1>4, <1>7, <1>8 DEF NodeRead, u, d

\* A header: what it gives replaces what the folder had from the headers before it.
LEMMA HeaderRead ==
  ASSUME NEW t \in Seq(Line), NEW line \in Line, line.is = "header", line.gives \in Gives,
         NEW f \in Folder, FolderRead(t, f),
         NEW attr, \A a \in Attr : attr[a] = CASE line.gives[a] = "nothing" -> f.attr[a]
                                               [] line.gives[a] = "none"    -> 0
                                               [] line.gives[a] = "value"   -> Len(t) + 1
  PROVE  FolderRead(Append(t, line), [f EXCEPT !.attr = attr])
<1> DEFINE u == Append(t, line)
           m == Len(t)
           g == [f EXCEPT !.attr = attr]
<1>1. m \in Nat /\ u[m + 1] = line /\ \A i \in 1 .. m : u[i] = t[i]
  BY LineAdded
<1>2. g.attr = attr /\ g.channels = f.channels
  BY DEF Folder
<1>3. /\ Headers(t) \in SUBSET (1 .. m) /\ Headers(u) = Headers(t) \cup {m + 1}
      /\ Urls(u) = Urls(t)
  BY HeadersAre
<1>4. DOMAIN f.channels = 1 .. Len(f.channels)
  BY UrlsAreLines
<1>5. \A a \in Attr : line.gives[a] \in {"nothing", "none", "value"}
  BY DEF Gives
<1> HIDE DEF u, g
<1>6. \A j \in DOMAIN f.channels : ChannelRead(u, f.channels, j)
  BY <1>4, ChannelKept DEF u
<1>7. ASSUME NEW a \in Attr PROVE attr[a] = Given(Headers(u), u, a)
  <2>1. Given(Headers(t) \cup {m + 1}, u, a)
          = CASE line.gives[a] = "nothing" -> Given(Headers(t), t, a)
              [] line.gives[a] = "none"    -> 0
              [] line.gives[a] = "value"   -> m + 1
    BY <1>3, GivenAdded DEF u
  <2>2. f.attr[a] = Given(Headers(t), t, a)
    BY DEF FolderRead
  <2>3. attr[a] = CASE line.gives[a] = "nothing" -> f.attr[a]
                    [] line.gives[a] = "none"    -> 0
                    [] line.gives[a] = "value"   -> m + 1
    OBVIOUS
  <2> QED
    BY <1>3, <1>5, <2>1, <2>2, <2>3
<1>8. Urls(u) = {f.channels[j].url : j \in DOMAIN f.channels}
  BY <1>3 DEF FolderRead
<1> QED
  BY <1>2, <1>6, <1>7, <1>8 DEF FolderRead, u, g

-----------------------------------------------------------------------------
(* The tree *)

\* What is read from nothing.
LEMMA NothingRead ==
  FolderRead(<<>>, [attr |-> Blank.attr, channels |-> <<>>]) /\ NodeRead(<<>>, <<>>, Blank)
<1>1. Urls(<<>>) = {} /\ Headers(<<>>) = {} /\ DOMAIN <<>> = {}
  BY DEF Urls, Headers
<1>2. LastOf({}) = 0 /\ \A t, a : Given({}, t, a) = 0
  BY DEF LastOf, Given
<1>3. Before(<<>>, Len(<<>>) + 1) = 0 /\ Infos(<<>>, 0 + 1, Len(<<>>)) = {}
  BY DEF Before, Infos
<1>4. \A a \in Attr : Blank.attr[a] = 0
  BY DEF Blank
<1>5. Blank.name = 0
  BY DEF Blank
<1> QED
  BY <1>1, <1>2, <1>3, <1>4, <1>5 DEF FolderRead, NodeRead

\* The line that is read is added to the last text, and changes the last folder.
LEMMA LineRead ==
  ASSUME TreeOK, TreeRead, NEW line \in Line, ReadLine(line)
  PROVE  TreeRead'
<1> DEFINE k == Len(folders)
           t == text[k]
           f == folders[k]
<1>0. pc = "parse" /\ pc' = "parse" /\ Len(text) = k
  BY DEF ReadLine, TreeOK
<1>1. k \in DOMAIN folders /\ k \in DOMAIN text
  BY <1>0, InParse
<1>2. t \in Seq(Line) /\ f \in Folder /\ chnl \in Node
  <2> HIDE DEF Line, Folder
  <2> QED BY <1>1 DEF TreeOK
<1>3. FolderRead(t, f) /\ NodeRead(t, f.channels, chnl)
  BY <1>0, <1>1 DEF TreeRead
<1>4. /\ text' = [text EXCEPT ![k] = Append(t, line)] /\ Len(text') = k
      /\ text'[k] = Append(t, line) /\ \A i \in DOMAIN text \ {k} : text'[i] = text[i]
  <2>1. text' = [text EXCEPT ![k] = Append(t, line)]
    BY <1>0 DEF ReadLine
  <2>2. Len(text') = Len(text)
    BY <1>1, <2>1 DEF TreeOK
  <2> HIDE DEF t
  <2> QED
    BY <1>0, <1>1, <2>1, <2>2
<1>5. ASSUME NEW g, folders' = [folders EXCEPT ![k] = g], FolderRead(Append(t, line), g),
             NodeRead(Append(t, line), g.channels, chnl')
      PROVE  TreeRead'
  <2>1. DOMAIN folders' = DOMAIN folders /\ folders'[k] = g
        /\ \A i \in DOMAIN folders \ {k} : folders'[i] = folders[i]
    BY <1>1, <1>5
  <2>2. Len(folders') = k
    BY <1>5 DEF TreeOK
  <2>3. DOMAIN text = DOMAIN folders
    <3> HIDE DEF Line, Folder
    <3> QED BY <1>0 DEF TreeOK
  <2> HIDE DEF k, t, f
  <2>4. ASSUME NEW i \in DOMAIN folders' PROVE FolderRead(text'[i], folders'[i])
    <3>1. CASE i = k
      BY <1>4, <1>5, <2>1, <3>1
    <3>2. CASE i # k
      <4>1. i \in DOMAIN folders \ {k} /\ i \in DOMAIN text \ {k}
        BY <2>1, <2>3, <3>2
      <4>2. text'[i] = text[i] /\ folders'[i] = folders[i]
        BY <1>4, <2>1, <4>1
      <4> QED
        BY <4>1, <4>2 DEF TreeRead
    <3> QED
      BY <3>1, <3>2
  <2>5. NodeRead(text'[Len(text')], folders'[Len(folders')].channels, chnl')
    BY <1>4, <1>5, <2>1, <2>2
  <2> QED
    BY <2>4, <2>5 DEF TreeRead
<1>6. CASE line.is = "url"
  <2> DEFINE channels == Append(f.channels, [chnl EXCEPT !.url = Len(t) + 1])
             g == [f EXCEPT !.channels = channels]
  <2>1. OnUrl(Len(t) + 1)
    BY <1>0, <1>6 DEF ReadLine
  <2>2. folders' = [folders EXCEPT ![k] = g] /\ chnl' = Blank
    BY <2>1 DEF OnUrl
  <2>3. FolderRead(Append(t, line), g) /\ NodeRead(Append(t, line), channels, Blank)
    BY <1>2, <1>3, <1>6, UrlRead
  <2>4. g.channels = channels
    BY <1>2 DEF Folder
  <2> HIDE DEF g, channels, k, t, f
  <2> QED
    BY <1>5, <2>2, <2>3, <2>4
<1>7. CASE line.is = "info"
  <2> DEFINE attr == Attributes(chnl.attr, line.gives)
             d == [chnl EXCEPT !.name = Len(t) + 1, !.attr = attr]
  <2>1. OnInfo(Len(t) + 1, line.gives) /\ line.gives \in Gives
    BY <1>0, <1>7 DEF ReadLine, Line
  <2>2. chnl' = d /\ folders' = folders
    BY <2>1 DEF OnInfo
  <2>3. \A a \in Attr : attr[a] = CASE line.gives[a] = "nothing" -> chnl.attr[a]
                                    [] line.gives[a] = "none"    -> 0
                                    [] line.gives[a] = "value"   -> Len(t) + 1
    BY <1>0 DEF Attributes
  <2> HIDE DEF attr
  <2>4. NodeRead(Append(t, line), f.channels, d)
    BY <1>2, <1>3, <1>7, <2>1, <2>3, InfoRead
  <2>5. FolderRead(Append(t, line), f)
    BY <1>2, <1>3, <1>7, FolderKept
  <2>6. folders' = [folders EXCEPT ![k] = f]
    BY <1>1, <2>2 DEF TreeOK
  <2> HIDE DEF d, k, t, f
  <2> QED
    BY <1>5, <2>2, <2>4, <2>5, <2>6
<1>8. CASE line.is = "header"
  <2> DEFINE attr == Attributes(f.attr, line.gives)
             g == [f EXCEPT !.attr = attr]
  <2>1. OnHeader(line.gives) /\ line.gives \in Gives
    BY <1>8 DEF ReadLine, Line
  <2>2. folders' = [folders EXCEPT ![k] = g] /\ chnl' = chnl
    BY <2>1 DEF OnHeader
  <2>3. \A a \in Attr : attr[a] = CASE line.gives[a] = "nothing" -> f.attr[a]
                                    [] line.gives[a] = "none"    -> 0
                                    [] line.gives[a] = "value"   -> Len(t) + 1
    BY <1>0 DEF Attributes
  <2> HIDE DEF attr
  <2>4. FolderRead(Append(t, line), g)
    BY <1>2, <1>3, <1>8, <2>1, <2>3, HeaderRead
  <2>5. NodeRead(Append(t, line), f.channels, chnl)
    BY <1>2, <1>3, <1>8, NodeKept
  <2>6. g.channels = f.channels
    BY <1>2 DEF Folder
  <2> HIDE DEF g, k, t, f
  <2> QED
    BY <1>5, <2>2, <2>4, <2>5, <2>6
<1>9. CASE line.is = "other"
  <2>1. folders' = folders /\ chnl' = chnl
    BY <1>9 DEF ReadLine
  <2>2. FolderRead(Append(t, line), f) /\ NodeRead(Append(t, line), f.channels, chnl)
    BY <1>2, <1>3, <1>9, FolderKept, NodeKept
  <2>3. folders' = [folders EXCEPT ![k] = f]
    BY <1>1, <2>1 DEF TreeOK
  <2> HIDE DEF k, t, f
  <2> QED
    BY <1>5, <2>1, <2>2, <2>3
<1> QED
  BY <1>6, <1>7, <1>8, <1>9 DEF Line

LEMMA TreeReadStep ==
  TreeOK /\ TreeRead /\ [Next]_vars => TreeRead'
<1> SUFFICES ASSUME TreeOK, TreeRead, [Next]_vars PROVE TreeRead'
  OBVIOUS
<1>1. CASE OpenList
  <2> DEFINE g == [attr |-> Blank.attr, channels |-> <<>>]
             k == Len(folders) + 1
  <2>1. folders' = Append(folders, g) /\ text' = Append(text, <<>>) /\ chnl' = Blank
    BY <1>1 DEF OpenList
  <2>2. FolderRead(<<>>, g) /\ NodeRead(<<>>, g.channels, Blank)
    BY NothingRead
  <2>3. /\ Len(folders) \in Nat /\ Len(text) = Len(folders)
        /\ DOMAIN folders = 1 .. Len(folders)
        /\ DOMAIN folders' = 1 .. k /\ Len(folders') = k /\ Len(text') = k
        /\ folders'[k] = g /\ text'[k] = <<>>
        /\ \A i \in 1 .. Len(folders) : folders'[i] = folders[i] /\ text'[i] = text[i]
    <3> HIDE DEF g
    <3>1. Len(folders) \in Nat /\ Len(text) = Len(folders) /\ DOMAIN folders = 1 .. Len(folders)
      <4> HIDE DEF Folder
      <4> QED BY DEF TreeOK
    <3> QED
      BY <2>1, <3>1 DEF TreeOK
  <2> HIDE DEF g
  <2>4. ASSUME NEW i \in DOMAIN folders' PROVE FolderRead(text'[i], folders'[i])
    <3>1. CASE i = k
      BY <2>2, <2>3, <3>1
    <3>2. CASE i \in 1 .. Len(folders)
      BY <2>3, <3>2 DEF TreeRead
    <3> QED
      BY <2>3, <3>1, <3>2
  <2>5. NodeRead(text'[Len(text')], folders'[Len(folders')].channels, chnl')
    BY <2>1, <2>2, <2>3
  <2> QED
    BY <2>4, <2>5 DEF TreeRead
<1>2. CASE \E line \in Line : ReadLine(line)
  BY <1>2, LineRead
<1>3. CASE ListEnds \/ ScanEnds
  BY <1>3 DEF ListEnds, ScanEnds, TreeRead
<1>4. CASE Restart
  BY <1>4 DEF Restart, TreeRead
<1>5. CASE ControlPoint \/ UNCHANGED vars
  <2>1. UNCHANGED <<pc, folders, chnl, text>>
    BY <1>5 DEF ControlPoint, Begin, Answer, Fault, vars, treeVars
  <2> QED
    BY <2>1 DEF TreeRead
<1> QED
  BY <1>1, <1>2, <1>3, <1>4, <1>5 DEF Next, Scan

\* The catalogue is what the lists say, line by line: every url is a channel, in the order of
\* the file, with the name and attributes of the #EXTINF lines since the url before, and of
\* the headers of its own list where those give none.
THEOREM CatalogueIsRead == Spec => []Attributed
<1>1. Init => TreeOK /\ TreeRead
  <2> SUFFICES ASSUME Init PROVE TreeOK /\ TreeRead
    OBVIOUS
  <2>1. TreeOK
    BY DEF Init, TreeOK, Blank, Node
  <2>2. DOMAIN folders = {} /\ pc = "scan"
    BY DEF Init
  <2> QED
    BY <2>1, <2>2 DEF TreeRead
<1>2. TreeOK /\ TreeRead => Attributed
  <2> SUFFICES ASSUME TreeOK, TreeRead, NEW i \in DOMAIN folders
               PROVE  LET t == text[i]
                          channels == folders[i].channels
                          headers == {n \in DOMAIN t : t[n].is = "header"}
                          before(j) == IF j = 1 THEN 0 ELSE channels[j - 1].url
                      IN /\ {n \in DOMAIN t : t[n].is = "url"}
                              = {channels[j].url : j \in DOMAIN channels}
                         /\ \A j \in DOMAIN channels :
                              LET infos == {n \in before(j) + 1 .. channels[j].url - 1 :
                                              t[n].is = "info"}
                              IN /\ before(j) < channels[j].url
                                 /\ channels[j].name = LastOf(infos)
                                 /\ \A a \in Attr :
                                      Effective(i, j, a) = IF Given(infos, t, a) # 0
                                                           THEN Given(infos, t, a)
                                                           ELSE Given(headers, t, a)
    BY DEF Attributed
  <2> DEFINE t == text[i]
             channels == folders[i].channels
  <2>1. FolderRead(t, folders[i])
    BY DEF TreeRead
  <2>2. Urls(t) = {channels[j].url : j \in DOMAIN channels}
    BY <2>1 DEF FolderRead
  <2>3. ASSUME NEW j \in DOMAIN channels, NEW a \in Attr
        PROVE  LET infos == Infos(t, Before(channels, j) + 1, channels[j].url - 1)
               IN /\ Before(channels, j) < channels[j].url
                  /\ channels[j].name = LastOf(infos)
                  /\ Effective(i, j, a) = IF Given(infos, t, a) # 0
                                          THEN Given(infos, t, a)
                                          ELSE Given(Headers(t), t, a)
    <3> DEFINE infos == Infos(t, Before(channels, j) + 1, channels[j].url - 1)
    <3>1. /\ Before(channels, j) < channels[j].url
          /\ channels[j].name = LastOf(infos)
          /\ channels[j].attr[a] = Given(infos, t, a)
      BY <2>1 DEF FolderRead, ChannelRead
    <3>2. folders[i].attr[a] = Given(Headers(t), t, a)
      BY <2>1 DEF FolderRead
    <3> HIDE DEF infos
    <3>3. Effective(i, j, a) = IF Given(infos, t, a) # 0 THEN Given(infos, t, a)
                               ELSE Given(Headers(t), t, a)
      BY <3>1, <3>2 DEF Effective
    <3> QED
      BY <3>1, <3>3 DEF infos
  <2>4. ASSUME NEW j \in DOMAIN channels
        PROVE  LET infos == Infos(t, Before(channels, j) + 1, channels[j].url - 1)
               IN Before(channels, j) < channels[j].url /\ channels[j].name = LastOf(infos)
    BY <2>1 DEF FolderRead, ChannelRead
  <2> QED
    BY <2>2, <2>3, <2>4 DEF Urls, Headers, Infos, Before
<1> QED
  BY <1>1, <1>2, TreeNext, TreeReadStep, PTL DEF Spec

================================================================================
