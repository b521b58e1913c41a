------------------------------- MODULE MediaCache ------------------------------
(***************************************************************************)
(* The cache directory of one stream: its producer (producer.cpp) writes   *)
(* the fragments it downloads to numbered files and removes the oldest     *)
(* ones; the workers (worker::sendmedia) poll the directory and send each  *)
(* file to their viewer.  Nothing but the directory joins them: no locks,  *)
(* no messages.  File numbers wrap from MaxSeq to 1, and a worker accepts  *)
(* a file only when it is at most half a turn ahead of the last one.       *)
(*                                                                         *)
(* Fragments are known by their production number; a file number is used   *)
(* again every MaxSeq productions.  Readers never write, so one producer   *)
(* and any number of readers is the whole system.  The directory is empty  *)
(* when the producer starts.                                               *)
(***************************************************************************)
EXTENDS Integers, Sequences, SequencesExt

CONSTANTS
  Viewer,     \* the workers that send this stream
  MaxSeq,     \* config::max_seq, the largest file number
  CacheMs,    \* the stream's cache_ms
  Word,       \* how many values an unsigned long has
  Duration,   \* durations of fragments, in the unit of CacheMs: zero if the
              \* playlist names none, negative if it says so
  NoFile,     \* not a file: the number is not in the directory
  MaxMade,    \* bound: productions in one run
  MaxListed,  \* bound: listed files at which no more fragments of no duration come
  MaxFails    \* bound: open() failures of the producer in a row

ASSUME CacheAssumption ==
  /\ MaxSeq \in Nat \ {0, 1}
  /\ CacheMs \in Nat \ {0} /\ Word \in Nat /\ CacheMs < Word
  /\ Duration \subseteq Int
  /\ MaxMade \in Nat /\ MaxListed \in Nat
  /\ MaxFails \in Nat

VARIABLES
  \* the directory
  files,   \* the fragment in each numbered file, or NoFile
  \* the producer
  ppc,     \* next fragment awaited, room made for it, being transferred
  dur,     \* its duration
  seq,     \* the number of the last file
  cached,  \* cached_ms
  cache,   \* cache_files: number and duration, oldest first
  fails,   \* open() failures since a file was last opened
  made,    \* history: productions so far
  wide,    \* history: the files once spanned the half of a turn that no worker accepts
  \* the workers
  wpc,     \* off, look (the top of sendmedia's loop), scan, open, send
  last,    \* the seq of sendmedia
  init,    \* worker::init, no file found yet
  sure,    \* scan: files there since opendir
  maybe,   \* scan: files that came or went since
  pick,    \* the file number get_next_file returned
  pos,     \* history: production number that goes with last
  sent,    \* history: production number last sent
  cur      \* the file being sent

dirVars  == <<files>>
prodVars == <<ppc, dur, seq, cached, cache, fails, made, wide>>
workVars == <<wpc, last, init, sure, maybe, pick, pos, sent, cur>>
vars     == <<dirVars, prodVars, workVars>>

Name == 1 .. MaxSeq
Half == MaxSeq \div 2

\* What a file holds: the production number, and whether the body is complete.
Fragment == [made : Nat, body : {"whole", "empty", "partial"}]

There == {n \in Name : files[n] # NoFile}

\* The production that last had number n (zero or less: none had).
Stamp(n) == IF n <= seq THEN made - seq + n ELSE made - seq + n - MaxSeq

-----------------------------------------------------------------------------
Init ==
  /\ files = [n \in Name |-> NoFile]
  /\ ppc = "wait" /\ dur = 0
  /\ seq = 0 /\ cached = 0 /\ cache = <<>> /\ fails = 0 /\ made = 0 /\ wide = FALSE
  /\ wpc = [w \in Viewer |-> "off"]
  /\ last = [w \in Viewer |-> 0]
  /\ init = [w \in Viewer |-> TRUE]
  /\ sure = [w \in Viewer |-> {}]
  /\ maybe = [w \in Viewer |-> {}]
  /\ pick = [w \in Viewer |-> 0]
  /\ pos = [w \in Viewer |-> 0]
  /\ sent = [w \in Viewer |-> 0]
  /\ cur = [w \in Viewer |-> NoFile]

\* The directory changes under the scans: readdir may or may not show number n.
Seen(n) ==
  /\ sure' = [w \in Viewer |-> sure[w] \ {n}]
  /\ maybe' = [w \in Viewer |-> IF wpc[w] = "scan" THEN maybe[w] \cup {n} ELSE {}]
  /\ UNCHANGED <<wpc, last, init, pick, pos, sent, cur>>

-----------------------------------------------------------------------------
(* The producer: producer::doit *)

\* The next fragment of the playlist (see HlsPlaylist) is at hand.
NextChunk(d) ==
  /\ ppc = "wait" /\ made < MaxMade /\ (d > 0 \/ Len(cache) < MaxListed)
  /\ ppc' = "room" /\ dur' = d
  /\ UNCHANGED <<dirVars, seq, cached, cache, fails, made, wide, workVars>>

\* The new fragment does not fit: an unsigned sum is compared, whatever the signs are.
TooLong == (cached + dur) % Word > CacheMs /\ cache # <<>>

\* Mutant: the duration of the new fragment is subtracted, not the old one's.
Evict_WrongDuration ==
  /\ ppc = "room" /\ TooLong
  /\ files' = [files EXCEPT ![Head(cache).name] = NoFile]
  /\ cached' = (cached - dur) % Word
  /\ cache' = Tail(cache)
  /\ IF files[Head(cache).name] # NoFile THEN Seen(Head(cache).name) ELSE UNCHANGED workVars
  /\ UNCHANGED <<ppc, dur, seq, fails, made, wide>>

\* The oldest file goes while the new fragment would not fit.
Evict ==
  /\ ppc = "room" /\ TooLong
  /\ files' = [files EXCEPT ![Head(cache).name] = NoFile]
  /\ cached' = (cached - Head(cache).dur) % Word
  /\ cache' = Tail(cache)
  /\ IF files[Head(cache).name] # NoFile THEN Seen(Head(cache).name) ELSE UNCHANGED workVars
  /\ UNCHANGED <<ppc, dur, seq, fails, made, wide>>

\* Room is made.
Fits == ppc = "room" /\ ~TooLong

\* ++seq, back to 1 beyond the largest number.
NextSeq == IF seq + 1 > MaxSeq THEN 1 ELSE seq + 1

\* The next number is used up.  (wide notes that a file is left that is so old that a
\* worker can no longer tell it from a new one by half a turn.)
UseNumber ==
  /\ seq' = NextSeq /\ made' = made + 1
  /\ wide' = (wide \/ \E n \in There : made + 1 - files[n].made >= MaxSeq - Half)

\* Mutant: the fragment is downloaded into the final name.
OpenTmp_Direct ==
  /\ Fits /\ UseNumber
  /\ ppc' = "transfer" /\ fails' = 0
  /\ files' = [files EXCEPT ![NextSeq] = [made |-> made + 1, body |-> "partial"]]
  /\ Seen(NextSeq)
  /\ UNCHANGED <<dur, cached, cache>>

\* The file is opened under a name with "~", which no worker takes for a fragment.
OpenTmp ==
  /\ Fits /\ UseNumber
  /\ ppc' = "transfer" /\ fails' = 0
  /\ UNCHANGED <<dirVars, dur, cached, cache, workVars>>

\* It cannot be opened: the number is used up, the fragment is tried again.
OpenFails ==
  /\ Fits /\ fails < MaxFails /\ made < MaxMade
  /\ UseNumber
  /\ fails' = fails + 1
  /\ UNCHANGED <<dirVars, ppc, dur, cached, cache, workVars>>

\* Mutant: a fragment whose transfer failed is not listed.
Transferred_NotListed(body) ==
  /\ ppc = "transfer"
  /\ ppc' = "wait"
  /\ \/ /\ body \in {"whole", "empty"}
        /\ files' = [files EXCEPT ![seq] = [made |-> made, body |-> body]]
        /\ Seen(seq)
        /\ cached' = (cached + dur) % Word
        /\ cache' = Append(cache, [name |-> seq, dur |-> dur])
     \/ body = "failed" /\ UNCHANGED <<dirVars, cached, cache, workVars>>
  /\ dur' = 0
  /\ UNCHANGED <<seq, fails, made, wide>>

\* The end of the transfer.  A complete one (a body of length zero is one, too)
\* is renamed to the number, any other unlinked; both count for the cache.
Transferred(body) ==
  /\ ppc = "transfer"
  /\ ppc' = "wait"
  /\ \/ /\ body \in {"whole", "empty"}
        /\ files' = [files EXCEPT ![seq] = [made |-> made, body |-> body]]
        /\ Seen(seq)
     \/ body = "failed" /\ UNCHANGED <<dirVars, workVars>>
  /\ cached' = (cached + dur) % Word
  /\ cache' = Append(cache, [name |-> seq, dur |-> dur])
  /\ dur' = 0
  /\ UNCHANGED <<seq, fails, made, wide>>

-----------------------------------------------------------------------------
(* The workers: worker::sendmedia and worker::get_next_file *)

\* A worker begins sendmedia.
Join(w) ==
  /\ wpc[w] = "off"
  /\ wpc' = [wpc EXCEPT ![w] = "look"]
  /\ UNCHANGED <<dirVars, prodVars, last, init, sure, maybe, pick, pos, sent, cur>>

\* The viewer closed the connection, or took nothing for tcp_snd_timeout.
Leave(w) ==
  /\ wpc[w] \in {"look", "send"}
  /\ wpc' = [wpc EXCEPT ![w] = "off"]
  /\ last' = [last EXCEPT ![w] = 0]
  /\ init' = [init EXCEPT ![w] = TRUE]
  /\ pos' = [pos EXCEPT ![w] = 0]
  /\ sent' = [sent EXCEPT ![w] = 0]
  /\ cur' = [cur EXCEPT ![w] = NoFile]
  /\ UNCHANGED <<dirVars, prodVars, sure, maybe, pick>>

\* get_next_file: opendir.
OpenDir(w) ==
  /\ wpc[w] = "look"
  /\ wpc' = [wpc EXCEPT ![w] = "scan"]
  /\ sure' = [sure EXCEPT ![w] = There]
  /\ maybe' = [maybe EXCEPT ![w] = {}]
  /\ UNCHANGED <<dirVars, prodVars, last, init, pick, pos, sent, cur>>

\* Mutant: the test for half a turn is missing.
Ahead_Any(w, n) == n > last[w]

\* A number the worker goes on to.
Ahead(w, n) == n > last[w] /\ (init[w] \/ n <= last[w] + Half)

\* Mutant: the last number of a turn is kept.
Passed_NoWrap(n) == n

\* What the worker remembers of number n.
Passed(n) == IF n >= MaxSeq THEN 0 ELSE n

\* get_next_file: the smallest number beyond the last one, if it is ahead.
Choose(w, shown) ==
  /\ wpc[w] = "scan"
  /\ sure[w] \subseteq shown /\ shown \subseteq sure[w] \cup maybe[w]
  /\ sure' = [sure EXCEPT ![w] = {}]
  /\ maybe' = [maybe EXCEPT ![w] = {}]
  /\ \/ \E n \in shown :
          /\ n > last[w] /\ \A m \in shown : m > last[w] => n <= m
          /\ Ahead(w, n)
          /\ wpc' = [wpc EXCEPT ![w] = "open"]
          /\ pick' = [pick EXCEPT ![w] = n]
          /\ last' = [last EXCEPT ![w] = Passed(n)]
          /\ init' = [init EXCEPT ![w] = FALSE]
          /\ pos' = [pos EXCEPT ![w] = Stamp(n)]
     \/ /\ \A n \in shown :
             n > last[w] /\ (\A m \in shown : m > last[w] => n <= m) => ~Ahead(w, n)
        /\ wpc' = [wpc EXCEPT ![w] = "look"]
        /\ UNCHANGED <<pick, last, init, pos>>
  /\ UNCHANGED <<dirVars, prodVars, sent, cur>>

\* The file is opened, if it is still there and not empty.
OpenFile(w) ==
  /\ wpc[w] = "open"
  /\ LET f == files[pick[w]]
         ready == f # NoFile /\ f.body # "empty"
     IN
       \/ /\ ready
          /\ wpc' = [wpc EXCEPT ![w] = "send"]
          /\ cur' = [cur EXCEPT ![w] = f]
          /\ sent' = [sent EXCEPT ![w] = f.made]
          /\ pos' = [pos EXCEPT ![w] = f.made]
       \/ /\ ~ready
          /\ wpc' = [wpc EXCEPT ![w] = "look"]
          /\ UNCHANGED <<cur, sent, pos>>
  /\ pick' = [pick EXCEPT ![w] = 0]
  /\ UNCHANGED <<dirVars, prodVars, last, init, sure, maybe>>

\* All of it is sent; the directory entry may be gone meanwhile.
Sent(w) ==
  /\ wpc[w] = "send"
  /\ wpc' = [wpc EXCEPT ![w] = "look"]
  /\ cur' = [cur EXCEPT ![w] = NoFile]
  /\ UNCHANGED <<dirVars, prodVars, last, init, sure, maybe, pick, pos, sent>>

-----------------------------------------------------------------------------
Producer ==
  \/ \E d \in Duration : NextChunk(d)
  \/ Evict \/ OpenTmp \/ OpenFails
  \/ \E body \in {"whole", "empty", "failed"} : Transferred(body)

Worker(w) ==
  \/ Join(w) \/ Leave(w) \/ OpenDir(w) \/ OpenFile(w) \/ Sent(w)
  \/ \E shown \in SUBSET (sure[w] \cup maybe[w]) : Choose(w, shown)

Next == Producer \/ \E w \in Viewer : Worker(w)

Spec == Init /\ [][Next]_vars

-----------------------------------------------------------------------------
(* Properties *)

TypeOK ==
  /\ files \in [Name -> Fragment \cup {NoFile}]
  /\ ppc \in {"wait", "room", "transfer"}
  /\ dur \in Duration \cup {0}
  /\ seq \in 0 .. MaxSeq
  /\ cached \in 0 .. Word - 1
  /\ cache \in Seq([name : Name, dur : Duration])
  /\ fails \in 0 .. MaxFails
  /\ made \in Nat
  /\ wide \in BOOLEAN
  /\ wpc \in [Viewer -> {"off", "look", "scan", "open", "send"}]
  /\ last \in [Viewer -> 0 .. MaxSeq - 1]
  /\ init \in [Viewer -> BOOLEAN]
  /\ sure \in [Viewer -> SUBSET Name]
  /\ maybe \in [Viewer -> SUBSET Name]
  /\ pick \in [Viewer -> 0 .. MaxSeq]
  /\ pos \in [Viewer -> Nat]
  /\ sent \in [Viewer -> Nat]
  /\ cur \in [Viewer -> Fragment \cup {NoFile}]

\* A viewer gets the fragments in the order they were made, none of them twice:
\* whatever file numbers come round again while it is slow, while the directory
\* changes under its scan, or between the scan and its open.  It holds until the
\* files of the directory span half a turn of the numbers.
InOrder ==
  [][\A w \in Viewer : ~wide /\ wpc[w] = "open" /\ wpc'[w] = "send" => sent'[w] > sent[w]]_vars

\* The files come to span half a turn only if the list is as long, failing open()
\* calls included.  Failed transfers and empty fragments, which leave gaps between
\* the files, do not bring it about: they are listed, and push older files out as
\* if they were there.  A long list takes many fragments that hardly last: lines
\* of a playlist without #EXTINF last no time and push nothing out.
WidensByLength ==
  [][~wide /\ wide' => Len(cache) * (MaxFails + 1) >= MaxSeq - Half]_vars

\* What a viewer gets was complete before its name could be seen.
WholeOnly == \A w \in Viewer : wpc[w] = "send" => cur[w].body = "whole"

\* Nothing stays behind in the directory: every file is named in the cache list,
\* also after its number has come round again.  cached_ms is the sum of the listed
\* durations, up to the width of the word, and no more than cache_ms, but for a
\* single fragment, whenever the producer is done with one.  (This bounds the time
\* the files last, not their number: fragments of no duration are free.)
DiskCounted ==
  /\ TypeOK
  /\ cached = FoldLeft(LAMBDA sum, f : sum + f.dur, 0, cache) % Word
  /\ ppc = "wait" => cached <= CacheMs \/ Len(cache) = 1
  /\ \A n \in There : \E i \in DOMAIN cache : cache[i].name = n

\* The last file of the viewer's turn was made and is not there for it.
TurnMissed(w) ==
  /\ last[w] # 0 /\ seq < last[w]
  /\ files[MaxSeq] = NoFile

\* The viewer is more than half a turn behind every newer file.
TooFarBehind(w) == \A n \in There : files[n].made > pos[w] => files[n].made > pos[w] + Half

\* A viewer that waits for a file while newer ones are there waits for a number
\* that does not come before the next turn: it missed the last file of the turn,
\* or it was half a turn too slow.  Nothing else makes it wait, until the files of
\* the directory span half a turn.
WaitsForTurn ==
  \A w \in Viewer :
    /\ ~wide /\ wpc[w] = "look" /\ ~init[w]
    /\ \E n \in There : files[n].made > pos[w]
    /\ \A n \in There : ~Ahead(w, n)
    => TurnMissed(w) \/ TooFarBehind(w)

=============================================================================
