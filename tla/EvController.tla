------------------------------ MODULE EvController ------------------------------
(***************************************************************************)
(* ottcast's event loop: ev_epoll::engine::loop takes the ready sockets    *)
(* from epoll and calls ev::controller::on_event for each; a client that   *)
(* asks for a channel is attached to the source of that channel, a child   *)
(* process that writes the stream to a pipe and is forked for the first    *)
(* client.  Nothing is freed before flush, which the loop calls when all   *)
(* events are handled.                                                     *)
(*                                                                         *)
(* on_event of a client is a sequence of steps here, since its peer and    *)
(* other processes go on meanwhile.  The timers are those of EvTimers, and *)
(* may expire at any time; what is in the buffers is the matter of EvRing. *)
(***************************************************************************)
EXTENDS Integers, Sequences, FiniteSets, SequencesExt

CONSTANTS
  Client,    \* descriptors of clients
  Source,    \* descriptors of pipes
  Pid, Url,
  Nobody,    \* no client, source, process or url
  Detaching, \* channels whose command may leave a process behind that keeps the pipe open
  MaxEvents  \* the size of events, which epoll_pwait fills

ASSUME ControllerAssumption ==
  /\ IsFiniteSet(Client) /\ Client \cap Source = {}
  /\ Nobody \notin Client \cup Source \cup Pid \cup Url
  /\ Detaching \subseteq Url /\ MaxEvents \in Nat \ {0}

VARIABLES
  \* engine::loop
  pc,        \* wait, reap (the wait4 loop), next (the loop over the events), read, write,
             \* send, flush, stop
  cur,       \* the client on_event is called for
  evL, evC, evS,   \* events taken from epoll and not handled yet
  chld,      \* SIGCHLD is pending
  \* clients
  st,        \* none, request, answer (10), reply (11), stream (20)
  src,
  pollout,
  timers,
  doomed,    \* trash_clnt
  \* sources
  members,   \* source::clients; Nobody in pid for a source that does not exist
  pid, url,
  urls,
  ended,     \* trash_src
  \* kernel: connections and pipes
  gone,      \* the peer has closed
  armed,     \* EPOLLOUT is watched
  behind,    \* there is data in the ring buffer for the client
  eof,       \* nobody has the pipe open for writing any more
  \* kernel: processes
  life,
  writes,    \* the source each process writes to
  \* history
  told,      \* ends that epoll has reported in this round, and that are on no list yet
  more,      \* there were ends for which events had no room
  forked     \* pids of processes that were forked since a round began with all ends reported

loopVars   == <<pc, cur, evL, evC, evS, chld>>
clientVars == <<st, src, pollout, timers, doomed>>
sourceVars == <<members, pid, url, urls, ended>>
connVars   == <<gone, armed, behind>>
procVars   == <<life, writes>>
roundVars  == <<told, more, forked>>
vars       == <<loopVars, clientVars, sourceVars, connVars, eof, procVars, roundVars>>

Open == {c \in Client : st[c] # "none"}
Live == {s \in Source : pid[s] # Nobody}

\* The listener is there from the start, and always.
Init ==
  /\ pc = "wait" /\ cur = Nobody
  /\ evL = FALSE /\ evC = [c \in Client |-> {}] /\ evS = [s \in Source |-> {}]
  /\ chld = FALSE
  /\ st = [c \in Client |-> "none"] /\ src = [c \in Client |-> Nobody]
  /\ pollout = [c \in Client |-> FALSE] /\ timers = {} /\ doomed = <<>>
  /\ members = [s \in Source |-> {}] /\ pid = [s \in Source |-> Nobody]
  /\ url = [s \in Source |-> Nobody] /\ urls = [u \in Url |-> Nobody] /\ ended = {}
  /\ gone = [c \in Client |-> FALSE] /\ armed = [c \in Client |-> FALSE]
  /\ behind = [c \in Client |-> FALSE] /\ eof = [s \in Source |-> FALSE]
  /\ life = [p \in Pid |-> "free"] /\ writes = [p \in Pid |-> Nobody]
  /\ told = {} /\ more = FALSE /\ forked = {}

-----------------------------------------------------------------------------
(* Peers and processes *)

PeerCloses(c) ==
  /\ c \in Open /\ ~gone[c]
  /\ gone' = [gone EXCEPT ![c] = TRUE]
  /\ UNCHANGED <<loopVars, clientVars, sourceVars, armed, behind, eof, procVars, roundVars>>

\* A source's process ends by itself; the pipe is closed before the parent is told.
ProcessEnds(p) ==
  /\ life[p] = "run"
  /\ life' = [life EXCEPT ![p] = "zombie"] /\ chld' = TRUE
  /\ IF writes[p] = Nobody THEN UNCHANGED eof
     ELSE \/ eof' = [eof EXCEPT ![writes[p]] = TRUE]
          \/ url[writes[p]] \in Detaching /\ UNCHANGED eof
  /\ UNCHANGED <<pc, cur, evL, evC, evS, clientVars, sourceVars, connVars, writes, roundVars>>

\* What a command left behind ends, too.
LastWriterEnds(s) ==
  /\ s \in Live /\ ~eof[s] /\ \A p \in Pid : life[p] = "run" => writes[p] # s
  /\ eof' = [eof EXCEPT ![s] = TRUE]
  /\ UNCHANGED <<loopVars, clientVars, sourceVars, connVars, procVars, roundVars>>

-----------------------------------------------------------------------------
(* ev_epoll::engine::loop *)

\* What epoll_pwait has to report in any case: the end of a connection or a pipe.
Ended == {c \in Open : gone[c]} \cup {s \in Live : eof[s]}

Event(e, given) == IF given THEN {e} ELSE {}

\* Whether connections wait, which clients have sent something, which of those watched can
\* be written to, and which pipes have data, may be different each time.  A closed
\* connection is readable, and writable; of a closed pipe nobody asks for more than its end.
\* An end is left for another time only if events is full.
EpollWait ==
  /\ pc = "wait"
  /\ \E new \in {b \in BOOLEAN : b => Open # Client}, seen \in SUBSET Ended :
     \E sent \in SUBSET (Open \ Ended), room \in SUBSET {c \in Open \ Ended : armed[c]},
        data \in SUBSET (Live \ Ended) :
       LET taken == Cardinality(sent \cup room \cup data \cup seen) + (IF new THEN 1 ELSE 0)
       IN  /\ taken \in 1 .. MaxEvents
           /\ seen # Ended => taken = MaxEvents
           /\ evL' = new
           /\ evC' = [c \in Client |->
                        Event("in", c \in sent \cup seen)
                        \cup Event("out", c \in room \/ (c \in seen /\ armed[c]))
                        \cup Event("hup", c \in seen)]
           /\ evS' = [s \in Source |-> Event("in", s \in data) \cup Event("hup", s \in seen)]
           /\ told' = seen /\ more' = (seen # Ended)
  /\ pc' = "next"
  /\ UNCHANGED <<cur, chld, clientVars, sourceVars, connVars, eof, procVars, forked>>

\* on_alrm dooms the clients whose time is over, if any.
OnAlrm ==
  \E due \in SUBSET timers : \E order \in SetToSeqs(due) :
    /\ doomed' = doomed \o order
    /\ timers' = timers \ due

\* EINTR, only if there is no event to report: a SIGCHLD is taken that is pending, or it is
\* SIGALRM alone, which may have come as long as there are timers; flush is next then.
Interrupt ==
  /\ pc = "wait" /\ Ended = {}
  /\ \/ chld /\ chld' = FALSE /\ pc' = "reap" /\ UNCHANGED <<timers, doomed>>
     \/ ~chld /\ timers # {} /\ OnAlrm /\ pc' = "flush" /\ UNCHANGED chld
  /\ UNCHANGED <<cur, evL, evC, evS, st, src, pollout, sourceVars, connVars, eof,
                 procVars, roundVars>>

\* wait4 until no zombie is left: those that there are by now, not only those of the signal
\* that was taken.  on_chld does nothing with their pids.  SIGALRM may have come, too.
Reap ==
  /\ pc = "reap" /\ pc' = "flush"
  /\ LET zombies == {p \in Pid : life[p] = "zombie"}
     IN /\ life' = [p \in Pid |-> IF p \in zombies THEN "free" ELSE life[p]]
        /\ writes' = [p \in Pid |-> IF p \in zombies THEN Nobody ELSE writes[p]]
  /\ OnAlrm
  /\ UNCHANGED <<cur, evL, evC, evS, chld, st, src, pollout, sourceVars, connVars, eof,
                 roundVars>>

\* The end of the loop: SIGTERM goes to the whole process group.
Stop ==
  /\ pc = "wait" /\ pc' = "stop"
  /\ life' = [p \in Pid |-> IF life[p] = "run" THEN "zombie" ELSE life[p]]
  /\ UNCHANGED <<cur, evL, evC, evS, chld, clientVars, sourceVars, connVars, eof, writes, roundVars>>

\* All events are handled.
EventsDone ==
  /\ pc = "next"
  /\ ~evL /\ (\A c \in Client : evC[c] = {}) /\ (\A s \in Source : evS[s] = {})
  /\ pc' = "flush"
  /\ UNCHANGED <<cur, evL, evC, evS, chld, clientVars, sourceVars, connVars, eof, procVars, roundVars>>

-----------------------------------------------------------------------------
(* ev::controller::on_event *)

\* The listener: new clients, watched and timed; none if there is no descriptor for them, if
\* there are max_clients, or if epoll does not take them.
OnListener(new) ==
  /\ pc = "next" /\ evL
  /\ evL' = FALSE
  /\ new \cap Open = {}
  /\ st' = [c \in Client |-> IF c \in new THEN "request" ELSE st[c]]
  /\ timers' = timers \cup new
  /\ armed' = [c \in Client |-> c \in new \/ armed[c]]
  /\ UNCHANGED <<pc, cur, evC, evS, chld, src, pollout, doomed, sourceVars,
                 gone, behind, eof, procVars, roundVars>>

\* The end of on_event for a client: it goes to trash_clnt, or it is watched again, for
\* reading always and for writing unless it is writable.
ToTrash(c) ==
  /\ doomed' = Append(doomed, c)
  /\ pc' = "next" /\ cur' = Nobody
WatchAgain(writable) ==
  /\ armed' = [armed EXCEPT ![cur] = ~writable]
  /\ pc' = "next" /\ cur' = Nobody

\* A client; a closed connection is not looked into.
OnClient(c) ==
  /\ pc = "next" /\ evC[c] # {}
  /\ evC' = [evC EXCEPT ![c] = {}]
  /\ pollout' = [pollout EXCEPT ![c] = @ \/ "out" \in evC[c]]
  /\ IF "hup" \in evC[c] THEN ToTrash(c)
     ELSE /\ pc' = IF "in" \in evC[c] THEN "read" ELSE "write"
          /\ cur' = c
          /\ UNCHANGED doomed
  /\ told' = told \ ToSet(doomed')
  /\ UNCHANGED <<evL, evS, chld, st, src, timers, sourceVars, connVars, eof, procVars, more,
                 forked>>

\* The end of the read loop: the connection has been closed meanwhile or not.
ReadEnds ==
  /\ IF gone[cur] THEN ToTrash(cur) ELSE pc' = "write" /\ UNCHANGED <<cur, doomed>>
  /\ UNCHANGED <<evL, evC, evS, chld, pollout, timers, gone, armed>>

\* A part of a request, or something after it.
ReadPart ==
  /\ pc = "read"
  /\ ReadEnds
  /\ UNCHANGED <<st, src, behind, sourceVars, eof, procVars, roundVars>>

\* HEAD, a bad request, or a channel that cannot be joined: it is unknown, or there is no
\* pipe or no process for it.
ReadOther ==
  /\ pc = "read" /\ st[cur] = "request"
  /\ st' = [st EXCEPT ![cur] = "answer"]
  /\ ReadEnds
  /\ UNCHANGED <<src, behind, sourceVars, eof, procVars, roundVars>>

\* attach
Attach(s) ==
  /\ src' = [src EXCEPT ![cur] = s]
  /\ members' = [members EXCEPT ![s] = @ \cup {cur}]
  /\ st' = [st EXCEPT ![cur] = "reply"]

\* A channel that has its source: the buffer may hold something.
ReadJoin(u) ==
  /\ pc = "read" /\ st[cur] = "request"
  /\ urls[u] # Nobody
  /\ Attach(urls[u])
  /\ \E b \in BOOLEAN : behind' = [behind EXCEPT ![cur] = b]
  /\ ReadEnds
  /\ UNCHANGED <<pid, url, urls, ended, eof, procVars, roundVars>>

NoSourceYet(u) == urls[u] = Nobody

\* spawn: a pipe and a process that writes to it and that has all descriptors of its parent.
ReadSpawn(u, s, p) ==
  /\ pc = "read" /\ st[cur] = "request"
  /\ NoSourceYet(u) /\ s \notin Live /\ life[p] = "free"
  /\ Attach(s)
  /\ pid' = [pid EXCEPT ![s] = p] /\ url' = [url EXCEPT ![s] = u] /\ urls' = [urls EXCEPT ![u] = s]
  /\ life' = [life EXCEPT ![p] = "run"] /\ writes' = [writes EXCEPT ![p] = s]
  /\ forked' = forked \cup {p}
  /\ ReadEnds
  /\ UNCHANGED <<ended, behind, eof, told, more>>

\* The process is there, but epoll does not take its pipe: the source is erased, which closes
\* the pipe; the process is not killed, and nobody knows it.
ReadSpawnFails(u, p) ==
  /\ pc = "read" /\ st[cur] = "request"
  /\ NoSourceYet(u) /\ life[p] = "free"
  /\ st' = [st EXCEPT ![cur] = "answer"]
  /\ life' = [life EXCEPT ![p] = "run"]
  /\ forked' = forked \cup {p}
  /\ ReadEnds
  /\ UNCHANGED <<src, behind, sourceVars, eof, writes, told, more>>

\* There is nothing to answer now, or nowhere to write it.
WriteNothing ==
  /\ pc = "write" /\ ~(pollout[cur] /\ st[cur] \in {"answer", "reply"})
  /\ IF pollout[cur] /\ st[cur] = "stream"
     THEN pc' = "send" /\ UNCHANGED <<cur, armed>>
     ELSE WatchAgain(pollout[cur])
  /\ UNCHANGED <<st, pollout, timers, doomed>>

\* Mutant: the time limit ends with the first attempt to answer.
WriteBlocks_Untimed ==
  /\ pc = "write" /\ pollout[cur] /\ st[cur] \in {"answer", "reply"} /\ ~gone[cur]
  /\ pollout' = [pollout EXCEPT ![cur] = FALSE]
  /\ timers' = timers \ {cur}
  /\ WatchAgain(FALSE)
  /\ UNCHANGED <<st, doomed>>

\* The answer does not fit into the send buffer.
WriteBlocks ==
  /\ pc = "write" /\ pollout[cur] /\ st[cur] \in {"answer", "reply"} /\ ~gone[cur]
  /\ pollout' = [pollout EXCEPT ![cur] = FALSE]
  /\ WatchAgain(FALSE)
  /\ UNCHANGED <<st, timers, doomed>>

\* The peer has gone, or the answer is written and was all there is to send.
WriteCloses ==
  /\ pc = "write" /\ pollout[cur] /\ st[cur] \in {"answer", "reply"}
  /\ gone[cur] \/ st[cur] = "answer"
  /\ ToTrash(cur)
  /\ UNCHANGED <<st, pollout, timers, armed>>

\* The reply is written; the stream has no time limit.
WriteReply ==
  /\ pc = "write" /\ pollout[cur] /\ st[cur] = "reply"
  /\ st' = [st EXCEPT ![cur] = "stream"] /\ timers' = timers \ {cur}
  /\ pc' = "send"
  /\ UNCHANGED <<cur, pollout, doomed, armed>>

Write ==
  /\ WriteNothing \/ WriteBlocks \/ WriteCloses \/ WriteReply
  /\ UNCHANGED <<evL, evC, evS, chld, src, sourceVars, gone, behind, eof, procVars, roundVars>>

\* Mutant: a client whose send buffer is full is not watched again.
FlushBuffers_NotWatched(seen, fresh, stuck, drained) ==
  /\ pollout' = [c \in Client |-> pollout[c] /\ c \notin stuck]
  /\ behind' = [c \in Client |-> (behind[c] \/ c \in fresh) /\ c \notin drained]
  /\ armed' = [c \in Client |-> armed[c] /\ c \notin seen]

\* flush_buffer, for each client that is written to: some fill their send buffers and are
\* watched again, others take all there is.  Something new has come for the fresh ones; the
\* event of the one seen ends with eng->set.
FlushBuffers(seen, fresh, stuck, drained) ==
  /\ pollout' = [c \in Client |-> pollout[c] /\ c \notin stuck]
  /\ armed' = [c \in Client |-> (armed[c] /\ c \notin seen) \/ c \in stuck]
  /\ behind' = [c \in Client |-> (behind[c] \/ c \in fresh) /\ c \notin drained]

\* How flush_buffer may end for clients that have data in the buffer; for one whose
\* peer has gone neither way.
Outcome(served, stuck, drained) ==
  \A c \in served \ (stuck \cup drained) : gone[c]

\* Streaming, in the client's own event, which ends with eng->set.
Send ==
  /\ pc = "send"
  /\ LET served == {cur} \cap {c \in Client : behind[c]}
     IN \E stuck \in SUBSET served : \E drained \in SUBSET (served \ stuck) :
          /\ Outcome(served, stuck, drained)
          /\ FlushBuffers({cur}, {}, stuck, drained)
  /\ pc' = "next" /\ cur' = Nobody
  /\ UNCHANGED <<evL, evC, evS, chld, st, src, timers, doomed, sourceVars,
                 gone, eof, procVars, roundVars>>

\* A source whose pipe has been closed: what is left in it is not read.
OnSourceHup(s) ==
  /\ pc = "next" /\ "hup" \in evS[s]
  /\ evS' = [evS EXCEPT ![s] = {}]
  /\ ended' = ended \cup {s}
  /\ told' = told \ ended'
  /\ UNCHANGED <<pc, cur, evL, evC, chld, clientVars, members, pid, url, urls,
                 connVars, eof, procVars, more, forked>>

\* A source with data: it is read until the pipe is empty, or closed by now, and the
\* clients that were writable when last seen are written to at once.
OnSource(s) ==
  /\ pc = "next" /\ evS[s] = {"in"}
  /\ evS' = [evS EXCEPT ![s] = {}]
  /\ ended' = IF eof[s] THEN ended \cup {s} ELSE ended
  /\ LET served == {c \in members[s] : pollout[c] /\ st[c] = "stream"}
     IN \E stuck \in SUBSET served : \E drained \in SUBSET (served \ stuck) :
          Outcome(served, stuck, drained) /\ FlushBuffers({}, members[s], stuck, drained)
  /\ UNCHANGED <<pc, cur, evL, evC, chld, st, src, timers, doomed, members, pid, url, urls,
                 gone, eof, procVars, roundVars>>

-----------------------------------------------------------------------------
(* ev::controller::flush *)

\* The first loop leaves each source the clients that are not in trash_clnt, ...
Left(s) == members[s] \ ToSet(doomed)

\* Mutant: a source without clients is left running.
Over_KeepsIdle == ended

\* Mutant: the end of a pipe is not noted.
Over_NotEnded == {src[c] : c \in {d \in ToSet(doomed) : src[d] # Nobody /\ Left(src[d]) = {}}}

\* ... and one that has lost its last client goes to trash_src, too.
Over == ended \cup {src[c] : c \in {d \in ToSet(doomed) : src[d] # Nobody /\ Left(src[d]) = {}}}

\* The clients the two loops erase.
Erased == ToSet(doomed) \cup UNION {Left(s) : s \in Over}

\* The second loop kills the processes of the sources, by the pid that fork returned.
Killed == {p \in Pid : life[p] = "run" /\ \E s \in Over : pid[s] = p}

\* A source that is not erased but whose process is killed: the pid was reused.
CutOff(s) == s \notin Over /\ url[s] \notin Detaching /\ \E p \in Killed : writes[p] = s

\* Mutant: the entry in urls stays.
UrlsLeft_Stale == urls

UrlsLeft == [u \in Url |-> IF \E s \in Over : url[s] = u THEN Nobody ELSE urls[u]]

Flush ==
  /\ pc = "flush"
  /\ pc' = "wait" /\ doomed' = <<>> /\ ended' = {}
  /\ LET dropC(f, v) == [c \in Client |-> IF c \in Erased THEN v ELSE f[c]]
         dropS(f, v) == [s \in Source |-> IF s \in Over THEN v ELSE f[s]]
     IN /\ st' = dropC(st, "none") /\ src' = dropC(src, Nobody)
        /\ pollout' = dropC(pollout, FALSE) /\ gone' = dropC(gone, FALSE)
        /\ armed' = dropC(armed, FALSE) /\ behind' = dropC(behind, FALSE)
        /\ pid' = dropS(pid, Nobody) /\ url' = dropS(url, Nobody)
  /\ eof' = [s \in Source |-> s \notin Over /\ (eof[s] \/ CutOff(s))]
  /\ timers' = timers \ Erased
  /\ members' = [s \in Source |-> IF s \in Over THEN {} ELSE Left(s)]
  /\ urls' = UrlsLeft
  /\ life' = [p \in Pid |-> IF p \in Killed THEN "zombie" ELSE life[p]]
  /\ chld' = (chld \/ Killed # {})
  /\ writes' = [p \in Pid |-> IF writes[p] \in Over THEN Nobody ELSE writes[p]]
  /\ told' = {} /\ more' = FALSE /\ forked' = IF more THEN forked ELSE {}
  /\ UNCHANGED <<cur, evL, evC, evS>>

-----------------------------------------------------------------------------
World ==
  /\ pc # "stop"
  /\ \/ \E c \in Client : PeerCloses(c)
     \/ \E s \in Source : LastWriterEnds(s)
     \/ \E p \in Pid : ProcessEnds(p)

OnEvent ==
  \/ \E new \in SUBSET Client : OnListener(new)
  \/ \E c \in Client : OnClient(c)
  \/ ReadPart \/ ReadOther
  \/ \E u \in Url : ReadJoin(u)
  \/ \E u \in Url, p \in Pid : ReadSpawnFails(u, p) \/ \E s \in Source : ReadSpawn(u, s, p)
  \/ Write \/ Send
  \/ \E s \in Source : OnSourceHup(s) \/ OnSource(s)

Loop == EpollWait \/ Interrupt \/ Reap \/ Stop \/ EventsDone \/ OnEvent \/ Flush

Next == World \/ Loop

Spec == Init /\ [][Next]_vars

-----------------------------------------------------------------------------
(* Type invariant: what the controller keeps between and within its steps. *)
TypeOK ==
  /\ pc \in {"wait", "reap", "next", "read", "write", "send", "flush", "stop"}
  /\ cur \in Client \cup {Nobody} /\ (cur # Nobody <=> pc \in {"read", "write", "send"})
  /\ evL \in BOOLEAN /\ evC \in [Client -> SUBSET {"in", "out", "hup"}]
  /\ evS \in [Source -> SUBSET {"in", "hup"}]
  /\ chld \in BOOLEAN
  /\ st \in [Client -> {"none", "request", "answer", "reply", "stream"}]
  /\ src \in [Client -> Source \cup {Nobody}]
  /\ pollout \in [Client -> BOOLEAN] /\ timers \subseteq Client /\ doomed \in Seq(Client)
  /\ members \in [Source -> SUBSET Client] /\ pid \in [Source -> Pid \cup {Nobody}]
  /\ url \in [Source -> Url \cup {Nobody}] /\ urls \in [Url -> Source \cup {Nobody}]
  /\ ended \subseteq Source
  /\ gone \in [Client -> BOOLEAN] /\ armed \in [Client -> BOOLEAN]
  /\ behind \in [Client -> BOOLEAN] /\ eof \in [Source -> BOOLEAN]
  /\ life \in [Pid -> {"free", "run", "zombie"}] /\ writes \in [Pid -> Source \cup {Nobody}]
  /\ told \subseteq Client \cup Source /\ more \in BOOLEAN /\ forked \subseteq Pid

(* Objects are erased only in flush, after raw pointers to them were kept in trash_clnt,    *)
(* trash_src, urls, source::clients, client::src, the timer list and the events of epoll:   *)
(* none of these ever points to an object that does not exist, no client is erased twice,   *)
(* and a client is in the set of its source and of no other.  All clients of a channel      *)
(* share one source: urls knows the source of every channel that has one, so a second       *)
(* process for it is never forked.                                                          *)
NoDangling ==
  /\ TypeOK
  /\ IsInjective(doomed) /\ ToSet(doomed) \subseteq Open
  /\ ended \subseteq Live
  /\ \A u \in Url : urls[u] # Nobody => urls[u] \in Live /\ url[urls[u]] = u
  /\ \A s \in Live : urls[url[s]] = s
  /\ timers \subseteq Open
  /\ \A c \in Client : (evC[c] # {} \/ cur = c) => c \in Open
  /\ \A s \in Source : evS[s] # {} => s \in Live
  /\ \A s \in Source : members[s] = {c \in Open : src[c] = s}
  /\ \A c \in Client : src[c] # Nobody => src[c] \in Live

(* The controller implements ChannelService: whatever clients and sources end in a round and *)
(* in whatever order, a client has a channel only while its source is there, a channel has   *)
(* one source and keeps it as long as a client is left, and none is left running when the    *)
(* last client has gone.                                                                     *)
Channels == INSTANCE ChannelService WITH
  Viewer <- Client, Channel <- Url, Nothing <- Nobody,
  watching <- [c \in Client |-> IF src[c] = Nobody THEN Nobody ELSE url[src[c]]],
  onAir <- {u \in Url : urls[u] # Nobody}

ChannelSpec == Channels!Spec

\* The source's process, or its zombie.
Owns(s) == life[pid[s]] # "free" /\ writes[pid[s]] = s

(* on_chld ignores the pid that was reaped, and flush kills by the pid kept in the source.  *)
(* Unless the command leaves a process behind, that pid is the source's own process or its  *)
(* zombie as long as its pipe is open, even if another source has killed the process by     *)
(* mistake.  A child that ends between EINTR and wait4 is reaped before its pipe is looked  *)
(* at, and its pid may be given away in the next round, while the end of the pipe is being  *)
(* handled: then flush kills a process that was forked in this round, or, if events was     *)
(* full, since a round with all ends.  One that has run for longer is never hit.            *)
KillsOnlyNew ==
  \A s \in Live : url[s] \notin Detaching /\ ~Owns(s) =>
    eof[s] /\ (life[pid[s]] = "free" \/ pid[s] \in forked)

(* While the loop waits, a client with something left to send is watched until it can be    *)
(* written to: is_pollout, the interest set of epoll and the ring buffer agree, whether the *)
(* last attempt was made in its own event or in one of its source.                          *)
NoStall ==
  pc = "wait" =>
    \A c \in Open : (behind[c] \/ st[c] \in {"answer", "reply"}) /\ st[c] # "request" /\ ~gone[c]
                      => ~pollout[c] /\ armed[c]

(* Until a client gets its stream it has a timer, or is about to be erased: whether it is   *)
(* slow to ask or slow to take the answer, and whatever fails, the time limit applies to it *)
(* (EvTimers says when the alarm for it comes).                                             *)
TimedUntilServed == \A c \in Open : st[c] # "stream" => c \in timers \cup ToSet(doomed)

(* What epoll has reported as closed is gone after the round, and so is all that came on a  *)
(* list: a client or source of which the end was not noted, or noted and not acted upon,    *)
(* would be reported for ever, and the loop would spin.                                     *)
RoundErases ==
  [][pc = "flush" /\ pc' = "wait" =>
       (told \cup ToSet(doomed) \cup ended) \cap (Open' \cup Live') = {}]_vars
================================================================================
