--------------------------------- MODULE Catalog ---------------------------------
(***************************************************************************)
(* The catalogue of channels: m3u8::playlist::scan reads the channel lists *)
(* of the media directory when the program starts and never again, and the *)
(* ContentDirectory of control.lua shows it to control points in pages of  *)
(* the size they ask for.  Folders and channels have ids from 0 in the     *)
(* tree and in urls; in Lua's tables and object ids they count from 1.     *)
(*                                                                         *)
(* A value is known by the number of the line it was read from, 0 for none.*)
(* A control point begins at 0 and asks for the next page until it has as  *)
(* many objects as there are, or gets none.  The program may be started    *)
(* again in the middle of that, with other lists.                          *)
(***************************************************************************)
EXTENDS Integers, Sequences, FiniteSets, FiniteSetsExt

CONSTANTS
  Attr,        \* attributes a channel has from its folder if it has none of its own
  Requested,   \* RequestedCount of a page
  Many,        \* what Search takes a RequestedCount of 0 for
  MaxFolders,  \* bound: lists in the media directory
  MaxLines,    \* bound: lines read in the first start, half as many in the second, ...
  MaxStarts    \* bound

ASSUME CatalogAssumption ==
  /\ Requested \subseteq Nat
  /\ Many \in Nat \ {0}
  /\ {MaxFolders, MaxLines, MaxStarts} \subseteq Nat

VARIABLES
  \* playlist
  pc,       \* scan, parse (within a file), serve
  folders,
  chnl,     \* the node parse prepares for the next url
  \* a control point
  cp,       \* idle, ask, end (it has all it wants)
  place,    \* what it lists
  from,     \* StartingIndex of the next page
  got,      \* the objects it has
  \* history
  text,     \* the lines of each folder's file
  starts,   \* of the program
  since     \* the start in which the control point began

treeVars == <<pc, folders, chnl, text, starts>>
viewVars == <<cp, place, from, got, since>>
vars     == <<treeVars, viewVars>>

\* Where objects are listed: the folders, one folder by its number, or Search.
Root == 0
Everywhere == -1

\* An attribute in a line: it may be there with a value or with none (0, or empty).
Gives == [Attr -> {"nothing", "none", "value"}]

\* What fgets returns: #EXTINF with a comma, #EXTM3U, a url, or anything else.
Line == [is : {"info", "header"}, gives : Gives]
        \cup [is : {"url", "other"}, gives : {[a \in Attr |-> "nothing"]}]

\* A node without name, url and attributes.
Blank == [name |-> 0, url |-> 0, attr |-> [a \in Attr |-> 0]]

Init ==
  /\ pc = "scan" /\ folders = <<>> /\ chnl = Blank
  /\ cp = "idle" /\ place = Root /\ from = 0 /\ got = <<>>
  /\ text = <<>> /\ starts = 1 /\ since = 0

-----------------------------------------------------------------------------
(* m3u8::playlist *)

LinesRead == FoldSet(LAMBDA f, sum : sum + Len(text[f]), 0, DOMAIN text)

\* parse: the next list of the directory, in the order of names.  One that cannot be opened,
\* or is none by its name, leaves no trace.
OpenList ==
  /\ pc = "scan" /\ Len(folders) < MaxFolders
  /\ folders' = Append(folders, [attr |-> Blank.attr, channels |-> <<>>])
  /\ chnl' = Blank /\ text' = Append(text, <<>>)
  /\ pc' = "parse"
  /\ UNCHANGED <<starts, viewVars>>

\* parse_attr
Attributes(attr, gives) ==
  [a \in Attr |-> CASE gives[a] = "nothing" -> attr[a]
                    [] gives[a] = "none"    -> 0
                    [] gives[a] = "value"   -> Len(text[Len(text)]) + 1]

\* Mutant: what was prepared is copied to the channel and stays for the next one.
OnUrl_Copied(n) ==
  /\ folders' = [folders EXCEPT ![Len(folders)].channels = Append(@, [chnl EXCEPT !.url = n])]
  /\ UNCHANGED chnl

\* A channel, swapped with the prepared node: what is prepared next starts from nothing.
OnUrl(n) ==
  /\ folders' = [folders EXCEPT ![Len(folders)].channels = Append(@, [chnl EXCEPT !.url = n])]
  /\ chnl' = Blank

OnInfo(n, gives) ==
  /\ chnl' = [chnl EXCEPT !.name = n, !.attr = Attributes(@, gives)]
  /\ UNCHANGED folders

OnHeader(gives) ==
  /\ folders' = [folders EXCEPT ![Len(folders)].attr = Attributes(@, gives)]
  /\ UNCHANGED chnl

ReadLine(line) ==
  /\ pc = "parse" /\ LinesRead < MaxLines \div starts
  /\ LET n == Len(text[Len(text)]) + 1
     IN CASE line.is = "url"    -> OnUrl(n)
          [] line.is = "info"   -> OnInfo(n, line.gives)
          [] line.is = "header" -> OnHeader(line.gives)
          [] line.is = "other"  -> UNCHANGED <<folders, chnl>>
  /\ text' = [text EXCEPT ![Len(text)] = Append(@, line)]
  /\ UNCHANGED <<pc, starts, viewVars>>

ListEnds ==
  /\ pc = "parse"
  /\ pc' = "scan"
  /\ UNCHANGED <<folders, chnl, text, starts, viewVars>>

ScanEnds ==
  /\ pc = "scan"
  /\ pc' = "serve"
  /\ UNCHANGED <<folders, chnl, text, starts, viewVars>>

\* The program ends and is started again; control points are not told.
Restart ==
  /\ pc = "serve" /\ starts < MaxStarts
  /\ pc' = "scan" /\ folders' = <<>> /\ chnl' = Blank /\ text' = <<>>
  /\ starts' = starts + 1
  /\ UNCHANGED viewVars

\* get_stream and its like, for channel j of folder i.
Effective(i, j, a) ==
  LET own == folders[i].channels[j].attr[a] IN IF own # 0 THEN own ELSE folders[i].attr[a]

-----------------------------------------------------------------------------
(* lua_playlist and control.lua *)

\* Objects: the id, the numbers in the url, and childCount or the node it was made of.
Container(i) == [id |-> <<i>>, url |-> <<>>, node |-> Len(folders[i].channels)]
Item(i, j) == [id |-> <<i, j>>, url |-> <<i - 1, j - 1>>, node |-> folders[i].channels[j]]

Channels == UNION {{<<i, j>> : j \in DOMAIN folders[i].channels} : i \in DOMAIN folders}

\* total, when Search comes to this channel.
Running(c) == Cardinality({d \in Channels : d[1] < c[1] \/ (d[1] = c[1] /\ d[2] <= c[2])})

Objects(p) ==
  CASE p = Root       -> [i \in 1..Len(folders) |-> Container(i)]
    [] p = Everywhere -> [k \in 1..Cardinality(Channels) |->
                            LET c == CHOOSE d \in Channels : Running(d) = k IN Item(c[1], c[2])]
    [] OTHER          -> [j \in 1..Len(folders[p].channels) |-> Item(p, j)]

\* Mutant: RequestedCount is the last index.
LastOfPage_Count(p, count) == IF count > 0 THEN count ELSE Len(Objects(p))

\* The last object of a page, if there are so many.
LastOfPage(p, count) ==
  IF count > 0 THEN from + count
  ELSE IF p = Everywhere THEN from + Many ELSE Len(Objects(p))

Known(p) == p \in {Root, Everywhere} \cup DOMAIN folders

Begin(p) ==
  /\ cp # "ask" /\ pc = "serve"
  /\ cp' = "ask" /\ place' = p /\ from' = 0 /\ got' = <<>> /\ since' = starts
  /\ UNCHANGED treeVars

\* Browse or Search answers with a page, NumberReturned and TotalMatches.
Answer(count) ==
  /\ cp = "ask" /\ pc = "serve" /\ Known(place)
  /\ LET total == Len(Objects(place))
         page == SubSeq(Objects(place), from + 1, Min({total, LastOfPage(place, count)}))
     IN /\ got' = got \o page /\ from' = from + Len(page)
        /\ cp' = IF from + Len(page) >= total \/ page = <<>> THEN "end" ELSE "ask"
  /\ UNCHANGED <<place, since, treeVars>>

\* There is no such folder any more: the script fails, and the answer is a fault.
Fault ==
  /\ cp = "ask" /\ pc = "serve" /\ ~Known(place)
  /\ cp' = "idle" /\ got' = <<>> /\ from' = 0
  /\ UNCHANGED <<place, since, treeVars>>

-----------------------------------------------------------------------------
Scan == OpenList \/ (\E line \in Line : ReadLine(line)) \/ ListEnds \/ ScanEnds

ControlPoint ==
  \/ \E p \in {Root, Everywhere} \cup 1..MaxFolders : Begin(p)
  \/ \E count \in Requested : Answer(count)
  \/ Fault

Next == Scan \/ Restart \/ ControlPoint

Spec == Init /\ [][Next]_vars

-----------------------------------------------------------------------------
\* The value the last of these lines gives to an attribute, or 0.
Given(lines, t, a) ==
  LET giving == {n \in lines : t[n].gives[a] # "nothing"}
  IN IF giving = {} \/ t[Max(giving)].gives[a] = "none" THEN 0 ELSE Max(giving)

LastOf(lines) == IF lines = {} THEN 0 ELSE Max(lines)

(* Every url of a list is a channel, numbered in order, with the name and the attributes of  *)
(* the #EXTINF lines between the url before it and its own, and failing that the attributes  *)
(* of the #EXTM3U lines of its own list: nothing of one channel or of another list gets into *)
(* it, although one prepared node serves all of them and lines come in any order.            *)
Attributed ==
  \A i \in DOMAIN folders :
    LET t == text[i]
        channels == folders[i].channels
        headers == {n \in DOMAIN t : t[n].is = "header"}
        before(j) == IF j = 1 THEN 0 ELSE channels[j - 1].url
    IN /\ {n \in DOMAIN t : t[n].is = "url"} = {channels[j].url : j \in DOMAIN channels}
       /\ \A j \in DOMAIN channels :
            LET infos == {n \in before(j) + 1 .. channels[j].url - 1 : t[n].is = "info"}
            IN /\ before(j) < channels[j].url
               /\ channels[j].name = LastOf(infos)
               /\ \A a \in Attr :
                    Effective(i, j, a) = IF Given(infos, t, a) # 0 THEN Given(infos, t, a)
                                         ELSE Given(headers, t, a)

(* Whatever the sizes of the pages, a control point that has come to the end has every       *)
(* object of the place once and in order, unless the program was started again meanwhile.    *)
WholeList == cp = "end" /\ since = starts => got = Objects(place)
================================================================================
