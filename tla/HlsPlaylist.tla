------------------------------ MODULE HlsPlaylist ------------------------------
(***************************************************************************)
(* How the producer learns of new fragments: hls::get_chunks reads the     *)
(* media playlist with hls::req_pls, whose parser is fed as the body       *)
(* arrives, and hands over the fragments newer than the last one.  A       *)
(* request may need several tries (see ChunkTransfer); each try calls      *)
(* on_clear, that is parser::begin, and feeds the same parser again.       *)
(*                                                                         *)
(* A playlist is a sequence of lines and a line is two pieces of text, so  *)
(* that a body may end at a line or within one; what a page of a server    *)
(* error feeds to the parser is lines that it takes for urls.  A last      *)
(* line without its newline is a body that ends within a line.             *)
(***************************************************************************)
EXTENDS Integers, Sequences, SequencesExt

CONSTANTS
  MaxItems,   \* config::hls_chunks_max
  Attempts,   \* config::tcp_reconnect_attempts
  MaxBase,    \* bound: the first number of a playlist
  MaxLen      \* bound: the length of a playlist

ASSUME PlaylistAssumption ==
  /\ MaxItems \in Nat \ {0}
  /\ Attempts \in Nat \ {0}
  /\ MaxBase \in Nat
  /\ MaxLen \in Nat

VARIABLES
  pc,      \* idle, try (the top of perform's loop), body, got
  tries,   \* tries begun before this one
  list,    \* what the origin sends in this try
  pos,     \* lines fed to the parser
  half,    \* the first piece of the next line is fed too
  \* hls::parser
  items, count, seq,
  url, dur,
  \* producer::doit
  chunks,
  last,
  played   \* history: the number of the fragment taken last

reqVars      == <<pc, tries, list, pos, half>>
parserVars   == <<items, count, seq, url, dur>>
prodVars     == <<chunks, last, played>>
playlistVars == <<reqVars, parserVars, prodVars>>

\* A playlist with the fragments base, base + 1, ... or a page.
List == [page : BOOLEAN, base : 0 .. MaxBase, len : 0 .. MaxLen]

Junk == -1

\* #EXTM3U, #EXT-X-MEDIA-SEQUENCE:, and #EXTINF: and the url for each fragment.
Lines(l) ==
  IF l.page
  THEN [i \in 1 .. l.len |-> [tag |-> "url", of |-> Junk]]
  ELSE <<[tag |-> "m3u", of |-> 0], [tag |-> "sequence", of |-> l.base]>>
       \o [i \in 1 .. 2 * l.len |->
             [tag |-> IF i % 2 = 1 THEN "inf" ELSE "url", of |-> l.base + (i - 1) \div 2]]

Piece == [of : -1 .. MaxBase + MaxLen, half : {1, 2}]
Whole(f) == <<[of |-> f, half |-> 1], [of |-> f, half |-> 2]>>
Chunk == [seq : Int, dur : Seq(Piece), url : Seq(Piece)]

PlaylistInit ==
  /\ pc = "idle" /\ tries = 0
  /\ list = [page |-> FALSE, base |-> 0, len |-> 0] /\ pos = 0 /\ half = FALSE
  /\ items = <<>> /\ count = 0 /\ seq = 0 /\ url = <<>> /\ dur = <<>>
  /\ chunks = <<>> /\ last = 0 /\ played = 0

-----------------------------------------------------------------------------
(* curl::req::perform of a req_pls *)

\* get_chunks constructs a request: a new parser.
Refresh ==
  /\ pc = "idle"
  /\ pc' = "try" /\ tries' = 0
  /\ items' = <<>> /\ count' = 0 /\ seq' = 0 /\ url' = <<>> /\ dur' = <<>>
  /\ UNCHANGED <<list, pos, half, prodVars>>

\* parser::begin; the items, a begun url and a begun duration stay.
Begin == count' = 0 /\ seq' = 0 /\ UNCHANGED <<items, url, dur>>

\* The origin is asked; what it sends may be another playlist in every try.
Try(l) ==
  /\ pc = "try"
  /\ pc' = "body" /\ list' = l /\ pos' = 0 /\ half' = FALSE
  /\ Begin
  /\ UNCHANGED <<tries, prodVars>>

\* The body ended too early and the request fails, or it was the page of a
\* server error: try again, or give up.
TryAgain ==
  /\ pc = "body"
  /\ tries' = tries + 1
  /\ pc' = IF tries + 1 < Attempts THEN "try" ELSE "idle"
  /\ UNCHANGED <<list, pos, half, parserVars, prodVars>>

-----------------------------------------------------------------------------
(* hls::parser *)

\* push, with the url, duration and number there are: the MaxItems last items count.
Push(u, d, s) ==
  IF u = <<>>
  THEN items' = items /\ count' = count /\ seq' = s /\ url' = u /\ dur' = d
  ELSE /\ LET more == Append(items, [seq |-> s, dur |-> d, url |-> u])
          IN  items' = IF count >= MaxItems THEN Tail(more) ELSE more
       /\ count' = IF count >= MaxItems THEN count ELSE count + 1
       /\ seq' = s + 1 /\ url' = <<>> /\ dur' = <<>>

Line == Lines(list)[pos + 1]
Rest == [of |-> Line.of, half |-> 2]
Text == IF half THEN <<Rest>> ELSE Whole(Line.of)

\* parse up to the middle of a line.
ParseHalf ==
  /\ pc = "body" /\ pos < Len(Lines(list)) /\ ~half
  /\ half' = TRUE
  /\ url' = IF Line.tag = "url" THEN Append(url, [of |-> Line.of, half |-> 1]) ELSE url
  /\ dur' = IF Line.tag = "inf" THEN Append(dur, [of |-> Line.of, half |-> 1]) ELSE dur
  /\ UNCHANGED <<pc, tries, list, pos, items, count, seq, prodVars>>

\* Mutant: push is called at the end of a url line only.
ParseLine_UrlOnly ==
  /\ pc = "body" /\ pos < Len(Lines(list))
  /\ pos' = pos + 1 /\ half' = FALSE
  /\ IF Line.tag = "url"
     THEN Push(url \o Text, dur, seq)
     ELSE /\ dur' = IF Line.tag = "inf" THEN dur \o Text ELSE dur
          /\ seq' = IF Line.tag = "sequence" THEN Line.of ELSE seq
          /\ UNCHANGED <<items, count, url>>
  /\ UNCHANGED <<pc, tries, list, prodVars>>

\* parse up to the newline, at which the number is set and push is called.
ParseLine ==
  /\ pc = "body" /\ pos < Len(Lines(list))
  /\ pos' = pos + 1 /\ half' = FALSE
  /\ Push(IF Line.tag = "url" THEN url \o Text ELSE url,
          IF Line.tag = "inf" THEN dur \o Text ELSE dur,
          IF Line.tag = "sequence" THEN Line.of ELSE seq)
  /\ UNCHANGED <<pc, tries, list, prodVars>>

-----------------------------------------------------------------------------
(* hls::get_chunks and producer::doit *)

\* The items of a list from a number on.
From(s, n) == FoldLeft(LAMBDA cs, c : IF c.seq >= n THEN Append(cs, c) ELSE cs, <<>>, s)

\* Mutant: the last fragment is handed over again.
Newer_Equal == From(items, last)

\* The items that are newer than the last fragment.
Newer == From(items, last + 1)

\* perform returned true, be the body complete or ended by the close of the
\* connection; what was in the middle of a line is not looked at.
GetChunks ==
  /\ pc = "body"
  /\ chunks' = Newer
  /\ last' = IF Newer = <<>> THEN last ELSE Last(Newer).seq
  /\ pc' = IF Newer = <<>> THEN "idle" ELSE "got"
  /\ UNCHANGED <<tries, list, pos, half, parserVars, played>>

\* The producer is done with the first fragment of the list (see MediaCache).
Take ==
  /\ pc = "got"
  /\ played' = Head(chunks).seq
  /\ chunks' = Tail(chunks)
  /\ pc' = IF Len(chunks) = 1 THEN "idle" ELSE "got"
  /\ UNCHANGED <<tries, list, pos, half, parserVars, last>>

PlaylistNext ==
  \/ Refresh
  \/ \E l \in List : Try(l)
  \/ TryAgain
  \/ ParseHalf \/ ParseLine
  \/ GetChunks \/ Take

PlaylistSpec == PlaylistInit /\ [][PlaylistNext]_playlistVars

-----------------------------------------------------------------------------
(* Properties *)

\* Fragments whose url line was fed to the end, the MaxItems last of them.
FragmentsRead == IF list.page \/ pos < 2 THEN 0 ELSE (pos - 2) \div 2
Kept == IF FragmentsRead > MaxItems THEN MaxItems ELSE FragmentsRead

\* What the parser owes for them.
Expected ==
  [i \in 1 .. Kept |->
     LET f == list.base + FragmentsRead - Kept + i - 1
     IN  [seq |-> f, dur |-> Whole(f), url |-> Whole(f)]]

PlaylistTypeOK ==
  /\ pc \in {"idle", "try", "body", "got"}
  /\ tries \in 0 .. Attempts
  /\ pc \in {"try", "body"} => tries < Attempts
  /\ list \in List /\ pos \in 0 .. Len(Lines(list)) /\ half \in BOOLEAN
  /\ items \in Seq(Chunk) /\ count \in 0 .. MaxItems /\ count <= Len(items)
  /\ Len(items) <= (tries + 1) * MaxItems
  /\ seq \in Nat /\ url \in Seq(Piece) /\ dur \in Seq(Piece)
  /\ chunks \in Seq(Chunk) /\ (pc = "got" <=> chunks # <<>>)
  /\ last \in Nat /\ played \in Nat

\* In the first try the items are exactly the MaxItems last fragments, however the
\* body arrives and wherever it ends.  In every try they are the last items, with
\* their numbers and urls; only the first fragment of the playlist may get a wrong
\* duration, glued to what the last try left.  So no fragment is skipped for a
\* request that was tried again.
TailExact ==
  /\ PlaylistTypeOK
  /\ pc = "body" /\ ~list.page =>
       /\ tries = 0 => items = Expected
       /\ Kept <= Len(items)
       /\ \A i \in 1 .. Kept :
            LET c == items[Len(items) - Kept + i]
            IN  /\ c.seq = Expected[i].seq /\ c.url = Expected[i].url
                /\ c.dur = Expected[i].dur \/ c.seq = list.base

\* Fragments are taken once and in order, unless their request was tried again.
InOrder ==
  [][pc = "got" /\ chunks' # chunks /\ tries = 0 => played' > played]_playlistVars
================================================================================
