------------------------------- MODULE HlsSource -------------------------------
(***************************************************************************)
(* The child process ottcast forks for an HLS or HTTP channel: hls::doit   *)
(* looks for the list of fragments, fetches it again and again, and writes *)
(* each new fragment to its standard output, the pipe that EvController    *)
(* reads; http::doit writes one answer there and is done.                  *)
(*                                                                         *)
(* Every request goes through curl::req, which keeps one connection per    *)
(* host in a map.  A connection is mostly its buffer: what one recv has    *)
(* returned and nobody has read yet.  disconnect closes the socket and     *)
(* leaves the buffer as it is, so that what was left of an answer is read  *)
(* first when the host is asked again.                                     *)
(*                                                                         *)
(* An answer is its head and the pieces of its body.  Of the characters of *)
(* a body only this is kept: which pieces hold an empty line, since an     *)
(* empty line ends a head.  An origin sends no more than it has told, and  *)
(* every body ends.                                                        *)
(***************************************************************************)
EXTENDS Integers, Sequences, FiniteSets, SequencesExt

CONSTANTS
  Host,
  Origin,         \* the host in the channel's url
  Nowhere,        \* no host: an empty url
  MaxBody,        \* longest body, in pieces
  Packet,         \* ts_packet_size, in pieces
  Redirects,      \* tries of perform, 5 in the code
  ListRetries,    \* hls_find_list_retries
  ChunkRetries,   \* hls_find_chunk_retries
  Via             \* the channel has a translator of urls, which is called again from time to time

ASSUME SourceAssumption ==
  /\ Origin \in Host /\ Nowhere \notin Host
  /\ {Packet, Redirects, ListRetries, ChunkRetries} \subseteq Nat \ {0}
  /\ MaxBody \in Nat /\ Via \in BOOLEAN

VARIABLES
  pc,        \* top (of the loop in doit), list (the loop that looks for it), ask, done, end
  what,      \* the request: list, first, next, chunk or url; none
  host,      \* host_name of the request
  try,       \* i in perform
  rc,        \* what perform returned
  list,      \* the host in chunklist_url
  listTry,   \* i in the loop that looks for the list
  prefill, fails,
  left,      \* for each host, the rest of the buffer: which pieces hold an empty line
  sent,      \* bytes_sent of the request
  pipe,      \* how much was written to the pipe, modulo Packet
  silent,    \* the origins do not answer any more
  \* history
  got,       \* what the last perform_real gave to on_data
  spoiled,   \* hosts that have sent the page of an error with its head since a request
             \* to them succeeded
  wronged    \* a request failed though its answer came whole, from a host not spoiled

doitVars == <<what, list, listTry, prefill, fails>>
reqVars  == <<host, try, rc>>
history  == <<got, spoiled, wronged>>
vars     == <<pc, doitVars, reqVars, left, sent, pipe, silent, history>>

Init ==
  /\ pc = "top" /\ what \in {"none", "url"}
  /\ host = Nowhere /\ try = 0 /\ rc = FALSE
  /\ list = Nowhere /\ listTry = 0 /\ prefill = TRUE /\ fails = 0
  /\ left = [h \in Host |-> <<>>] /\ sent = 0 /\ pipe = 0
  /\ silent = FALSE /\ got = <<>> /\ spoiled = {} /\ wronged = FALSE

-----------------------------------------------------------------------------
(* The origins *)

\* An answer: its status, Location, whether it tells its length, and its body; how much of
\* the body comes in the segment of the head, and how much comes at all.  Of one with another
\* status than 200 nobody asks for more than the first segment.
Answer ==
  {a \in [ok : BOOLEAN, location : Host \cup {Nowhere}, told : BOOLEAN,
          body : UNION {[1..n -> BOOLEAN] : n \in 0..MaxBody},
          early : 0..MaxBody, all : 0..MaxBody] :
     /\ a.early <= a.all /\ a.all <= Len(a.body)
     /\ ~a.ok => ~a.told /\ a.all = a.early}

\* What a recv may return: the head, which ends with an empty line, and pieces of the body.
TheHead == [is |-> "head", n |-> 0, blank |-> TRUE]
Piece(a, n) == [is |-> IF a.ok THEN "data" ELSE "page", n |-> n, blank |-> a.body[n]]
Pieces(a, from, to) == [i \in 1..(to - from + 1) |-> Piece(a, from + i - 1)]
Segment(a) == <<TheHead>> \o Pieces(a, 1, a.early)

Silence ==
  /\ ~silent /\ silent' = TRUE
  /\ UNCHANGED <<pc, doitVars, reqVars, left, sent, pipe, history>>

-----------------------------------------------------------------------------
(* curl::connection *)

\* The buffer as it was left, and as it is left.
Old == [i \in DOMAIN left[host] |-> [is |-> "old", n |-> i, blank |-> left[host][i]]]
Leave(buffer) == left' = [left EXCEPT ![host] = [i \in DOMAIN buffer |-> buffer[i].blank]]

EmptyLines(buffer) == {i \in DOMAIN buffer : buffer[i].blank}

\* gets reads from the buffer, and another segment only when it is used up.
Buffer(segment) == IF EmptyLines(Old) # {} THEN Old ELSE Old \o segment

\* Mutant: the line that ends the head stays in the buffer.
AfterHead_Inclusive(buffer) ==
  IF EmptyLines(buffer) = {} THEN <<>> ELSE SubSeq(buffer, Min(EmptyLines(buffer)), Len(buffer))

\* What is behind the first empty line; nothing if the connection ends before there is one.
AfterHead(buffer) ==
  IF EmptyLines(buffer) = {} THEN <<>> ELSE SubSeq(buffer, Min(EmptyLines(buffer)) + 1, Len(buffer))

-----------------------------------------------------------------------------
(* curl::req *)

ToPipe == what \in {"chunk", "url"}

\* on_data: fragments are written to the pipe, lists are parsed.
OnData(pieces) ==
  /\ got' = pieces
  /\ IF ToPipe THEN sent' = sent + Len(pieces) /\ pipe' = (pipe + Len(pieces)) % Packet
     ELSE UNCHANGED <<sent, pipe>>

\* The rest of perform: again with the Location, if there is one.
Perform(ok, location) ==
  IF ~ok /\ location # Nowhere /\ try + 1 < Redirects
  THEN host' = location /\ try' = try + 1 /\ UNCHANGED <<pc, rc>>
  ELSE pc' = "done" /\ rc' = ok /\ UNCHANGED <<host, try>>

\* No connection, or the request cannot be written.
Unreachable ==
  /\ pc = "ask"
  /\ Perform(FALSE, Nowhere)
  /\ got' = <<>>
  /\ UNCHANGED <<doitVars, left, sent, pipe, silent, spoiled, wronged>>

\* The connection ends, or tcp_timeout passes, before the head has come.
NoHead ==
  /\ pc = "ask"
  /\ Leave(AfterHead(Buffer(<<>>)))
  /\ Perform(FALSE, Nowhere)
  /\ got' = <<>>
  /\ UNCHANGED <<doitVars, sent, pipe, silent, spoiled, wronged>>

\* Mutant: the status is not looked at.
Is200_Any(a) == TRUE

\* ret_code: only the first line can tell it.
Is200(a) == Buffer(Segment(a))[1].is = "head" /\ a.ok

\* An answer that is not accepted.  Its Location has been read if its head has.
Refused(a) ==
  /\ pc = "ask" /\ ~silent /\ ~Is200(a)
  /\ Leave(AfterHead(Buffer(Segment(a))))
  /\ Perform(FALSE, IF TheHead \in ToSet(Buffer(Segment(a))) THEN a.location ELSE Nowhere)
  /\ got' = <<>>
  /\ spoiled' = IF ~a.ok /\ a.early > 0 THEN spoiled \cup {host} ELSE spoiled
  /\ wronged' = (wronged \/ (a.ok /\ a.all = Len(a.body) /\ host \notin spoiled))
  /\ UNCHANGED <<doitVars, sent, pipe, silent>>

\* An answer that is read: to the length it tells, or to the end of the connection.
Accepted(a) ==
  /\ pc = "ask" /\ ~silent /\ Is200(a)
  /\ LET buffer == AfterHead(Buffer(Segment(a))) \o Pieces(a, a.early + 1, a.all)
         n == IF a.told THEN Min({Len(a.body), Len(buffer)}) ELSE Len(buffer)
         whole == a.told => n = Len(a.body)
     IN /\ OnData(SubSeq(buffer, 1, n))
        /\ Leave(SubSeq(buffer, n + 1, Len(buffer)))
        /\ Perform(whole, a.location)
        /\ spoiled' = IF whole THEN spoiled \ {host} ELSE spoiled
        /\ wronged' = (wronged \/ (~whole /\ a.all = Len(a.body) /\ host \notin spoiled))
  /\ UNCHANGED <<doitVars, silent>>

Request == Unreachable \/ NoHead \/ \E a \in Answer : Refused(a) \/ Accepted(a)

-----------------------------------------------------------------------------
(* hls::doit and http::doit *)

\* A new request object for a url at this host.
Ask(request, h) ==
  /\ pc' = "ask" /\ what' = request /\ host' = h /\ try' = 0 /\ sent' = 0

\* The url in the channel list, or what the translator makes of it.
ChannelHost == IF Via THEN Host ELSE {Origin}

\* Once the list is known: the last fragment but one to start with, then the newest.
AskFragment(h) == Ask(IF prefill THEN "first" ELSE "next", h)

\* The top of the loop; the list is looked for again when it is not known, or if it is time.
Loop ==
  /\ pc = "top" /\ what = "none" /\ fails < ChunkRetries
  /\ \/ /\ list # Nowhere
        /\ AskFragment(list)
        /\ UNCHANGED <<list, listTry>>
     \/ /\ list = Nowhere \/ Via
        /\ list' = Nowhere /\ listTry' = 0 /\ pc' = "list"
        /\ UNCHANGED <<what, host, try, sent>>
  /\ UNCHANGED <<prefill, fails, rc, left, pipe, silent, history>>

AskList ==
  /\ pc = "list" /\ listTry < ListRetries
  /\ \E h \in ChannelHost : Ask("list", h)
  /\ UNCHANGED <<list, listTry, prefill, fails, rc, left, pipe, silent, history>>

\* The next try after the delay.
NextListTry == pc' = "list" /\ listTry' = listTry + 1

\* The translator has no answer.
NoTranslation ==
  /\ pc = "list" /\ listTry < ListRetries /\ Via
  /\ NextListTry
  /\ UNCHANGED <<what, list, prefill, fails, reqVars, left, sent, pipe, silent, history>>

\* get_chunklist_url: the url itself, or one of a master list.
ListFound ==
  /\ pc = "done" /\ what = "list" /\ rc
  /\ \E h \in Host : list' = h /\ AskFragment(h)
  /\ UNCHANGED <<listTry, prefill, fails, rc, left, pipe, silent, history>>

ListNotFound ==
  /\ pc = "done" /\ what = "list" /\ ~rc
  /\ NextListTry
  /\ UNCHANGED <<what, list, prefill, fails, reqVars, left, sent, pipe, silent, history>>

\* get_first_chunk, get_next_chunk: there is a fragment to take, on any host.
ChunkFound ==
  /\ pc = "done" /\ what \in {"first", "next"} /\ rc
  /\ \E h \in Host : Ask("chunk", h)
  /\ UNCHANGED <<list, listTry, prefill, fails, rc, left, pipe, silent, history>>

\* Mutant: the tries are counted from the start each time.
CountFail_Resets == fails' = 0

CountFail == fails' = fails + 1

\* No answer, a master list, an empty one, or nothing new in it.
ChunkNotFound ==
  /\ pc = "done" /\ what \in {"first", "next"}
  /\ pc' = "top" /\ what' = "none"
  /\ IF prefill THEN UNCHANGED fails ELSE CountFail
  /\ prefill' = FALSE
  /\ UNCHANGED <<list, listTry, reqVars, left, sent, pipe, silent, history>>

\* Mutant: only a fragment that came whole is filled up.
Padding_IfWhole == IF rc THEN (Packet - (sent % Packet)) % Packet ELSE 0

\* The end of transfer_chunk: zeros up to the next packet.
Padding == (Packet - (sent % Packet)) % Packet

\* Whether the fragment came whole does not matter to doit.
ChunkDone ==
  /\ pc = "done" /\ what = "chunk"
  /\ pipe' = (pipe + Padding) % Packet
  /\ pc' = "top" /\ what' = "none"
  /\ fails' = IF prefill THEN fails ELSE 0
  /\ prefill' = FALSE
  /\ UNCHANGED <<list, listTry, reqVars, left, sent, silent, history>>

AskUrl ==
  /\ pc = "top" /\ what = "url"
  /\ \E h \in ChannelHost : Ask("url", h)
  /\ UNCHANGED <<list, listTry, prefill, fails, rc, left, pipe, silent, history>>

\* The end of the process: the list is not found, nothing new has come for too long, or
\* http::doit has no url or has got its answer.
Ends ==
  /\ \/ pc = "list" /\ listTry = ListRetries
     \/ pc = "top" /\ what = "none" /\ fails = ChunkRetries
     \/ pc = "top" /\ what = "url" /\ Via
     \/ pc = "done" /\ what = "url"
  /\ pc' = "end"
  /\ UNCHANGED <<doitVars, reqVars, left, sent, pipe, silent, history>>

Doit ==
  \/ Loop \/ AskList \/ NoTranslation \/ ListFound \/ ListNotFound
  \/ ChunkFound \/ ChunkNotFound \/ ChunkDone \/ AskUrl \/ Ends

Next == Silence \/ Request \/ Doit

Spec == Init /\ [][Next]_vars

\* The process runs, and every wait of it is bounded: the tries of connect, the timeout of
\* recv, the delays of doit.
FairSpec == Spec /\ WF_vars(Request \/ Doit)

-----------------------------------------------------------------------------
(* Type invariant. *)
TypeOK ==
  /\ pc \in {"top", "list", "ask", "done", "end"}
  /\ what \in {"none", "list", "first", "next", "chunk", "url"}
  /\ host \in Host \cup {Nowhere} /\ (pc = "ask" => host # Nowhere)
  /\ list \in Host \cup {Nowhere}
  /\ try \in Nat /\ listTry \in Nat /\ fails \in Nat /\ sent \in Nat /\ pipe \in Nat
  /\ rc \in BOOLEAN /\ prefill \in BOOLEAN /\ silent \in BOOLEAN /\ wronged \in BOOLEAN
  /\ left \in [Host -> Seq(BOOLEAN)]
  /\ spoiled \subseteq Host

(* What on_data is given is the body of the answer to this very request, from its first     *)
(* piece on: bytes of an earlier answer that were left in the connection's buffer, the page *)
(* of an error or of a redirect, and heads get neither into the stream nor into a list.     *)
Own == \A i \in DOMAIN got : got[i].is = "data" /\ got[i].n = i

(* A request that was answered with status 200 and in full fails only if, since a request   *)
(* to that host last succeeded, the host has sent the page of an error in one segment with  *)
(* its head: the page stays in the buffer, and every answer after it fails and leaves its   *)
(* own beginning there, until one comes whose head comes alone.                             *)
FailsOnlyIfSpoiled == ~wronged

(* Between fragments the pipe holds whole packets, whichever tries of a fragment, redirected*)
(* or cut short, have written to it: the ring buffer that reads the pipe (EvRing) starts    *)
(* its clients on multiples of a packet and counts on it.                                   *)
Aligned == pc \in {"top", "list"} => pipe = 0

(* A source whose origins have fallen silent ends, whatever it was doing, so that its       *)
(* clients are closed rather than kept waiting for ever.                                    *)
GivesUp == silent ~> pc = "end"
================================================================================
