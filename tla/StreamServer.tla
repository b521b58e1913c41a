----------------------------- MODULE StreamServer -----------------------------
(***************************************************************************)
(* The supervisor process of xupnpd-live and the processes it forks.       *)
(*                                                                         *)
(* ott::server::doit (server.cpp) accepts connections and forks one worker *)
(* per connection.  A worker that serves a stream creates the cache        *)
(* directory of the stream, tells the supervisor over a datagram socket    *)
(* pair that it holds a reference ("pid url"), and then polls the          *)
(* directory.  The first reference to a stream makes the supervisor fork   *)
(* the stream's producer; the exit of a worker drops its reference, and    *)
(* the last drop kills the producer and removes the directory.             *)
(*                                                                         *)
(* The supervisor has all signals blocked except inside pselect, so a      *)
(* SIGCHLD stays pending until the next pselect that finds no ready        *)
(* descriptor.  Pids are recycled as soon as the supervisor has waited for *)
(* the process.                                                            *)
(***************************************************************************)
EXTENDS Integers, Sequences, FiniteSets

CONSTANTS
  Url,       \* the streams of the playlist (short names, see m3u8.cpp)
  Pid,       \* the pids children of the supervisor can have
  NoStream,  \* not a Url: no stream
  NoProc,    \* not a Pid: the 0 of stream::pid
  Backlog,   \* length of the listen queue (config::backlog)
  QueueMax,  \* datagrams the socket pair holds before send() blocks
  MaxMishaps \* bound: producers that fail and workers that exit with their
             \* datagram unread, in one run of the supervisor

ASSUME ConstantAssumption ==
  /\ NoStream \notin Url
  /\ NoProc \notin Pid
  /\ IsFiniteSet(Pid)
  /\ Backlog \in Nat \ {0}
  /\ QueueMax \in Nat \ {0}
  /\ MaxMishaps \in Nat

VARIABLES
  \* the supervisor
  pc,       \* where the loop of doit is
  svReady,  \* FD_ISSET(sv[0]) as pselect last reported it
  quit,     \* __sig_quit
  streams,  \* the map "streams"; a pid of NoProc stands for no entry
  clients,  \* the map "clients"; NoStream stands for no entry
  \* the kernel
  sigchld,  \* a SIGCHLD is pending for the supervisor
  backlog,  \* connections that wait for accept
  inbox,    \* datagrams in the socket pair
  life,     \* life of each pid: free, run, zombie
  dirs,     \* the cache directories that exist
  \* the children
  phase,    \* what each child is and how far it is
  job,      \* the stream each child works for
  \* history; only mishaps is read, as a bound
  ref,      \* what became of the reference each worker sent
  swept,    \* workers whose directory went between mkdir and on_addref
  late,     \* streams that got a reference from a worker already waited for
  orphan,   \* streams whose producer is gone though nobody released them
  mishaps   \* how many such producers and workers there were

superVars == <<pc, svReady, quit, streams, clients>>
osVars    == <<sigchld, backlog, inbox, life, dirs>>
childVars == <<phase, job>>
ghostVars == <<ref, swept, late, orphan, mishaps>>
vars      == <<superVars, osVars, childVars, ghostVars>>

WorkerPhase   == {"request", "made", "media"}
ProducerPhase == {"start", "produce", "stray"}
Control       == {"select", "reap", "clear", "accept", "recv", "exit", "stopped"}

\* A datagram; "stale" is history: the sender has been waited for since.
Addref == [pid : Pid, url : Url, stale : BOOLEAN]

NoEntry == [nref |-> 0, pid |-> NoProc]

Present(u) == streams[u].pid # NoProc
Holders(u) == {p \in Pid : clients[p] = u}

\* A worker that has made its directory and is not counted yet.
Announcing(p) == phase[p] \in WorkerPhase /\ ref[p] \in {"none", "queued"}

-----------------------------------------------------------------------------
\* Directories of an earlier run may still be there.
Init ==
  /\ pc = "select"
  /\ svReady = FALSE
  /\ quit = FALSE
  /\ streams = [u \in Url |-> NoEntry]
  /\ clients = [p \in Pid |-> NoStream]
  /\ sigchld = FALSE
  /\ backlog = 0
  /\ inbox = <<>>
  /\ life = [p \in Pid |-> "free"]
  /\ dirs \in SUBSET Url
  /\ phase = [p \in Pid |-> "none"]
  /\ job = [p \in Pid |-> NoStream]
  /\ ref = [p \in Pid |-> "none"]
  /\ swept = {}
  /\ late = {}
  /\ orphan = {}
  /\ mishaps = 0

\* fork(): a free pid starts in the given phase.
Fork(p, ph, u) ==
  /\ life[p] = "free"
  /\ life' = [life EXCEPT ![p] = "run"]
  /\ phase' = [phase EXCEPT ![p] = ph]
  /\ job' = [job EXCEPT ![p] = u]

\* Mutant: signals are not blocked in the wait4 loop, which then clears the flag.
Die_Unblocked(p) ==
  /\ life[p] = "run"
  /\ life' = [life EXCEPT ![p] = "zombie"]
  /\ sigchld' = (sigchld \/ pc \notin {"reap", "clear"})

\* exit(): the child stays as a zombie and the supervisor gets a SIGCHLD.
Die(p) ==
  /\ life[p] = "run"
  /\ life' = [life EXCEPT ![p] = "zombie"]
  /\ sigchld' = TRUE

-----------------------------------------------------------------------------
(* The network *)

\* A client connects and waits in the listen queue.
Connect ==
  /\ pc # "stopped"
  /\ backlog < Backlog
  /\ backlog' = backlog + 1
  /\ UNCHANGED <<superVars, sigchld, inbox, life, dirs, childVars, ghostVars>>

-----------------------------------------------------------------------------
(* The worker: worker::doit *)

\* A GET for a stream: mkdir of the cache directory, an existing one is kept.
WorkerMkdir(p, u) ==
  /\ life[p] = "run" /\ phase[p] = "request"
  /\ phase' = [phase EXCEPT ![p] = "made"]
  /\ job' = [job EXCEPT ![p] = u]
  /\ dirs' = dirs \cup {u}
  /\ UNCHANGED <<superVars, sigchld, backlog, inbox, life, ghostVars>>

\* worker::addref, a blocking send; then sendmedia.
WorkerAddref(p) ==
  /\ life[p] = "run" /\ phase[p] = "made"
  /\ Len(inbox) < QueueMax
  /\ phase' = [phase EXCEPT ![p] = "media"]
  /\ inbox' = Append(inbox, [pid |-> p, url |-> job[p], stale |-> FALSE])
  /\ ref' = [ref EXCEPT ![p] = "queued"]
  /\ UNCHANGED <<superVars, sigchld, backlog, life, dirs, job,
                 swept, late, orphan, mishaps>>

\* Any other request served, a failed send, the viewer gone, a timeout: exit.
WorkerExit(p) ==
  /\ phase[p] \in WorkerPhase
  /\ Die(p)
  /\ \/ ref[p] # "queued" /\ UNCHANGED mishaps
     \/ ref[p] = "queued" /\ mishaps < MaxMishaps /\ mishaps' = mishaps + 1
  /\ UNCHANGED <<superVars, backlog, inbox, dirs, childVars,
                 ref, swept, late, orphan>>

-----------------------------------------------------------------------------
(* The producer: producer::doit(void) *)

\* chdir into the cache directory; its failure goes unnoticed and the
\* producer goes on in the directory of the supervisor ("stray").
ProducerChdir(p) ==
  /\ life[p] = "run" /\ phase[p] = "start"
  /\ phase' = [phase EXCEPT ![p] = IF job[p] \in dirs THEN "produce" ELSE "stray"]
  /\ UNCHANGED <<superVars, osVars, job, ghostVars>>

\* No Lua state or the script does not load: the producer just returns.
ProducerFail(p) ==
  /\ phase[p] = "start"
  /\ Die(p)
  /\ orphan' = orphan \cup {job[p]}
  /\ mishaps < MaxMishaps /\ mishaps' = mishaps + 1
  /\ UNCHANGED <<superVars, backlog, inbox, dirs, childVars, ref, swept, late>>

-----------------------------------------------------------------------------
(* The supervisor: server::doit *)

\* pselect returns at once when a descriptor is ready, signal or not.
Select ==
  /\ pc = "select"
  /\ backlog > 0 \/ inbox # <<>>
  /\ pc' = IF backlog > 0 THEN "accept" ELSE "recv"
  /\ svReady' = (inbox # <<>>)
  /\ UNCHANGED <<quit, streams, clients, osVars, childVars, ghostVars>>

\* EINTR: no descriptor was ready and a SIGCHLD or a SIGTERM (term) came in.
Interrupt(term) ==
  /\ pc = "select"
  /\ backlog = 0 /\ inbox = <<>>
  /\ sigchld \/ term
  /\ pc' = IF sigchld THEN "reap" ELSE "exit"
  /\ quit' = term
  /\ sigchld' = FALSE
  /\ UNCHANGED <<svReady, streams, clients, backlog, inbox, life, dirs,
                 childVars, ghostVars>>

\* One turn of the accept loop; without a child the connection is just closed.
Accept ==
  /\ pc = "accept" /\ backlog > 0
  /\ backlog' = backlog - 1
  /\ \/ \E p \in Pid : Fork(p, "request", NoStream)
     \/ UNCHANGED <<life, phase, job>>
  /\ UNCHANGED <<superVars, sigchld, inbox, dirs, ghostVars>>

AcceptDone ==
  /\ pc = "accept" /\ backlog = 0
  /\ pc' = IF svReady THEN "recv" ELSE "select"
  /\ UNCHANGED <<svReady, quit, streams, clients, osVars, childVars, ghostVars>>

\* on_addref: the reference of worker p is counted on its stream u.
CountRef(p, u, s) ==
  /\ streams' = [streams EXCEPT ![u] = [nref |-> s.nref + 1, pid |-> s.pid]]
  /\ clients' = [clients EXCEPT ![p] = u]

\* Mutant: only the first reference of a stream is counted.
AddrefKnown_NoCount(p, u) ==
  /\ Present(u)
  /\ clients' = [clients EXCEPT ![p] = u]
  /\ UNCHANGED <<streams, life, phase, job>>

\* on_addref when the stream is there already.
AddrefKnown(p, u) ==
  /\ Present(u)
  /\ CountRef(p, u, streams[u])
  /\ UNCHANGED <<life, phase, job>>

\* Mutant: the count of a new stream starts at one and is then incremented.
AddrefNew_CountTwice(p, u) ==
  /\ ~Present(u)
  /\ \E q \in Pid : /\ Fork(q, "start", u)
                    /\ CountRef(p, u, [nref |-> 1, pid |-> q])

\* Mutant: the pid of the worker is stored, not the one fork() returned.
AddrefNew_WrongPid(p, u) ==
  /\ ~Present(u)
  /\ \E q \in Pid : /\ Fork(q, "start", u)
                    /\ CountRef(p, u, [nref |-> 0, pid |-> p])

\* on_addref when it is not: fork its producer.
AddrefNew(p, u) ==
  /\ ~Present(u)
  /\ \E q \in Pid : /\ Fork(q, "start", u)
                    /\ CountRef(p, u, [nref |-> 0, pid |-> q])

\* on_addref when that fork fails: the new entry is erased again.
AddrefNoFork(u) ==
  /\ ~Present(u)
  /\ streams' = [streams EXCEPT ![u] = NoEntry]
  /\ UNCHANGED <<clients, life, phase, job>>

\* One turn of the recv loop: one datagram, on_addref.
OnAddref ==
  /\ pc = "recv" /\ inbox # <<>>
  /\ inbox' = Tail(inbox)
  /\ LET m == Head(inbox)
         Mark(fate) == ref' = IF m.stale THEN ref ELSE [ref EXCEPT ![m.pid] = fate]
         Count == /\ Mark("counted")
                  /\ late' = IF m.stale THEN late \cup {m.url} ELSE late
     IN \/ AddrefKnown(m.pid, m.url) /\ Count
        \/ AddrefNew(m.pid, m.url) /\ Count
        \/ AddrefNoFork(m.url) /\ Mark("dropped") /\ UNCHANGED late
  /\ UNCHANGED <<pc, svReady, quit, sigchld, backlog, dirs, swept, orphan, mishaps>>

RecvDone ==
  /\ pc = "recv" /\ inbox = <<>>
  /\ pc' = "select"
  /\ UNCHANGED <<svReady, quit, streams, clients, osVars, childVars, ghostVars>>

\* on_release of a child that is not a client.
ReleaseUnknown(p) ==
  /\ clients[p] = NoStream
  /\ life' = [life EXCEPT ![p] = "free"]
  /\ swept' = swept \ {p}
  /\ UNCHANGED <<streams, clients, sigchld, dirs, late, orphan>>

\* Mutant: the directory goes with every reference.
ReleaseOne_Rmdir(p) ==
  LET u == clients[p] IN
  /\ u # NoStream /\ streams[u].nref > 1
  /\ streams' = [streams EXCEPT ![u].nref = @ - 1]
  /\ clients' = [clients EXCEPT ![p] = NoStream]
  /\ life' = [life EXCEPT ![p] = "free"]
  /\ swept' = swept \ {p}
  /\ dirs' = dirs \ {u}
  /\ UNCHANGED <<sigchld, late, orphan>>

\* on_release of a reference that is not the last one.
ReleaseOne(p) ==
  LET u == clients[p] IN
  /\ u # NoStream /\ streams[u].nref > 1
  /\ streams' = [streams EXCEPT ![u].nref = @ - 1]
  /\ clients' = [clients EXCEPT ![p] = NoStream]
  /\ life' = [life EXCEPT ![p] = "free"]
  /\ swept' = swept \ {p}
  /\ UNCHANGED <<sigchld, dirs, late, orphan>>

\* Mutant: the producer is left running.
Killed_None(u, p) == {}

\* kill(): the process that has the stream's pid now, whatever it is.
Killed(u, p) == {q \in Pid \ {p} : q = streams[u].pid /\ life[q] = "run"}

\* Mutant: the stream is stopped with one viewer left.
ReleaseLast_TooEarly(p) ==
  LET u == clients[p] IN
  /\ u # NoStream /\ streams[u].nref <= 2
  /\ streams' = [streams EXCEPT ![u] = NoEntry]
  /\ clients' = [clients EXCEPT ![p] = NoStream]
  /\ life' = [q \in Pid |-> IF q = p THEN "free"
                            ELSE IF q \in Killed(u, p) THEN "zombie" ELSE life[q]]
  /\ sigchld' = (sigchld \/ Killed(u, p) # {})
  /\ dirs' = dirs \ {u}
  /\ swept' = swept \ {p} /\ late' = late \ {u} /\ orphan' = orphan \ {u}

\* on_release of the last reference: kill, "rm -rf" of the directory (system()
\* may fail), and the stream is erased.
ReleaseLast(p) ==
  LET u == clients[p]
      hit == Killed(u, p)
      bereft == {v \in Url \ {u} : \E q \in hit : phase[q] \in ProducerPhase /\ job[q] = v}
  IN
  /\ u # NoStream /\ streams[u].nref <= 1
  /\ streams' = [streams EXCEPT ![u] = NoEntry]
  /\ clients' = [clients EXCEPT ![p] = NoStream]
  /\ life' = [q \in Pid |-> IF q = p THEN "free"
                            ELSE IF q \in hit THEN "zombie" ELSE life[q]]
  /\ sigchld' = (sigchld \/ hit # {})
  /\ \E gone \in SUBSET {u} :
       /\ dirs' = dirs \ gone
       /\ swept' = (swept \cup {q \in Pid : Announcing(q) /\ job[q] \in gone}) \ {p}
  /\ late' = late \ {u}
  /\ orphan' = (orphan \ {u}) \cup bereft

\* One turn of the wait4 loop: the pid is free again, then on_release.
Reap(p) ==
  /\ pc = "reap" /\ life[p] = "zombie"
  /\ ReleaseUnknown(p) \/ ReleaseOne(p) \/ ReleaseLast(p)
  /\ phase' = [phase EXCEPT ![p] = "none"]
  /\ job' = [job EXCEPT ![p] = NoStream]
  /\ ref' = [ref EXCEPT ![p] = "none"]
  /\ inbox' = [i \in DOMAIN inbox |->
                 IF inbox[i].pid = p THEN [inbox[i] EXCEPT !.stale = TRUE]
                                     ELSE inbox[i]]
  /\ UNCHANGED <<pc, svReady, quit, backlog, mishaps>>

\* wait4 returns 0: no zombie is left.
ReapDone ==
  /\ pc = "reap"
  /\ \A p \in Pid : life[p] # "zombie"
  /\ pc' = "clear"
  /\ UNCHANGED <<svReady, quit, streams, clients, osVars, childVars, ghostVars>>

\* __sig_chld = 0, and the loop condition.
ClearFlag ==
  /\ pc = "clear"
  /\ pc' = IF quit THEN "exit" ELSE "select"
  /\ UNCHANGED <<svReady, quit, streams, clients, osVars, childVars, ghostVars>>

\* The end of doit: the whole session is killed, the directory of each stream
\* removed (or not, see ReleaseLast); the supervisor's memory and sockets go with it.
Shutdown ==
  /\ pc = "exit"
  /\ pc' = "stopped"
  /\ \E gone \in SUBSET {u \in Url : Present(u)} : dirs' = dirs \ gone
  /\ streams' = [u \in Url |-> NoEntry]
  /\ clients' = [p \in Pid |-> NoStream]
  /\ sigchld' = FALSE
  /\ backlog' = 0
  /\ inbox' = <<>>
  /\ life' = [p \in Pid |-> "free"]
  /\ phase' = [p \in Pid |-> "none"]
  /\ job' = [p \in Pid |-> NoStream]
  /\ ref' = [p \in Pid |-> "none"]
  /\ swept' = {} /\ late' = {} /\ orphan' = {} /\ mishaps' = 0
  /\ UNCHANGED <<svReady, quit>>

\* The program is started again over the same cache path.
Restart ==
  /\ pc = "stopped"
  /\ pc' = "select"
  /\ svReady' = FALSE
  /\ quit' = FALSE
  /\ UNCHANGED <<streams, clients, osVars, childVars, ghostVars>>

-----------------------------------------------------------------------------
Worker(p)   == (\E u \in Url : WorkerMkdir(p, u)) \/ WorkerAddref(p) \/ WorkerExit(p)
Producer(p) == ProducerChdir(p) \/ ProducerFail(p)
Reaping     == (\E p \in Pid : Reap(p)) \/ ReapDone \/ ClearFlag
Receiving   == OnAddref \/ RecvDone
Accepting   == Accept \/ AcceptDone

Next ==
  \/ Connect
  \/ \E p \in Pid : Worker(p) \/ Producer(p)
  \/ Select
  \/ \E term \in BOOLEAN : Interrupt(term)
  \/ Accepting
  \/ Receiving
  \/ Reaping
  \/ Shutdown
  \/ Restart

Spec == Init /\ [][Next]_vars

(***************************************************************************)
(* Fairness.  The supervisor runs whenever it can.  It leaves the accept   *)
(* loop only when the listen queue is empty, and sees a pending SIGCHLD    *)
(* only in a pselect without ready descriptors: strong fairness of these   *)
(* two steps says that clients do not keep the listen queue filled for     *)
(* ever.  A worker about to send its reference does so when there is room; *)
(* a viewer may stay for ever.                                             *)
(***************************************************************************)
Fairness ==
  /\ WF_vars(Select)
  /\ SF_vars(sigchld /\ Interrupt(FALSE))
  /\ WF_vars(Accepting) /\ SF_vars(AcceptDone)
  /\ WF_vars(Receiving)
  /\ WF_vars(Reaping)
  /\ WF_vars(Shutdown)
  /\ \A p \in Pid : WF_vars(WorkerAddref(p))

FairSpec == Spec /\ Fairness

-----------------------------------------------------------------------------
(* Properties *)

\* A child past its request works for a stream.
HasJob == \A p \in Pid : phase[p] \notin {"none", "request"} => job[p] \in Url

TypeOK ==
  /\ pc \in Control
  /\ svReady \in BOOLEAN
  /\ quit \in BOOLEAN
  /\ streams \in [Url -> [nref : Nat, pid : Pid \cup {NoProc}]]
  /\ clients \in [Pid -> Url \cup {NoStream}]
  /\ sigchld \in BOOLEAN
  /\ backlog \in 0 .. Backlog
  /\ inbox \in Seq(Addref)
  /\ life \in [Pid -> {"free", "run", "zombie"}]
  /\ dirs \in SUBSET Url
  /\ phase \in [Pid -> WorkerPhase \cup ProducerPhase \cup {"none"}]
  /\ job \in [Pid -> Url \cup {NoStream}]
  /\ ref \in [Pid -> {"none", "queued", "counted", "dropped"}]
  /\ swept \in SUBSET Pid
  /\ late \in SUBSET Url
  /\ orphan \in SUBSET Url
  /\ mishaps \in 0 .. MaxMishaps
  /\ HasJob

\* The count of a stream covers every client that points at it, and no client
\* points at an erased stream (clients holds raw pointers into streams): what
\* on_addref and on_release must keep although references arrive after their
\* worker was waited for and pids are recycled in between.
RefsBacked ==
  \A u \in Url :
    IF Present(u)
      THEN streams[u].nref >= 1 /\ Cardinality(Holders(u)) <= streams[u].nref
      ELSE Holders(u) = {}

\* A viewer whose reference was counted stays in the tables, and its stream
\* with it, until the supervisor has waited for the worker: nobody else's
\* release, and no recycled pid, takes the stream away from it.
ViewerKept ==
  \A p \in Pid :
    ref[p] = "counted" =>
      /\ job[p] \in Url
      /\ clients[p] = job[p]
      /\ Present(job[p])

\* A stream that never got a late reference is counted exactly, and only for
\* viewers not waited for yet: the race of a reference with the wait4 of its
\* sender is the only way a count can leak.
LeaksOnlyLate ==
  \A u \in Url \ late :
    /\ streams[u].nref = Cardinality(Holders(u))
    /\ \A p \in Holders(u) : ref[p] = "counted"

\* A dead child is never forgotten: while a zombie is left, a SIGCHLD is
\* pending or the wait4 loop still runs (a child may die between the last
\* wait4 and the reset of __sig_chld).
NoLostChild ==
  (\E p \in Pid : life[p] = "zombie") => sigchld \/ pc = "reap"

\* Every running producer is the one the table names for its stream: no stream
\* has two producers writing one cache directory, and none runs unaccounted.
OneProducer ==
  \A p \in Pid :
    life[p] = "run" /\ phase[p] \in ProducerPhase =>
      job[p] \in Url /\ streams[job[p]].pid = p

\* The pid the last release kills is the pid of the stream's own producer,
\* not yet recycled, unless that producer had gone without a release.
KillsOwnProducer ==
  \A u \in Url \ orphan :
    Present(u) => LET q == streams[u].pid IN
                  /\ life[q] # "free"
                  /\ phase[q] \in ProducerPhase
                  /\ job[q] = u

\* The directory a counted viewer polls is there, unless a release removed it
\* between the viewer's mkdir and its on_addref.
DirKept ==
  \A p \in Pid : ref[p] = "counted" => job[p] \in dirs \/ p \in swept

Watched(u) == \E p \in Pid : life[p] = "run" /\ ref[p] = "counted" /\ job[p] = u

\* A stream nobody watches is taken off the air in the end, unless it got a
\* late reference.
Reclaimed ==
  \A u \in Url : Present(u) /\ ~Watched(u) ~> ~Present(u) \/ Watched(u) \/ u \in late

-----------------------------------------------------------------------------
(* What the supervisor promises to viewers (ViewerService): a viewer is    *)
(* watching from the moment its reference is counted until it is waited    *)
(* for, and a stream is on the air while the table holds it.               *)
Watching == [p \in Pid |-> IF ref[p] = "counted" THEN job[p] ELSE NoStream]
OnAir    == {u \in Url : Present(u)}

Service == INSTANCE ViewerService WITH
  Viewer <- Pid, Stream <- Url, Nothing <- NoStream,
  watching <- Watching, onAir <- OnAir

\* The supervisor implements the viewer service: no sequence of references,
\* releases, deaths and recycled pids takes a stream off the air under a viewer.
ServiceSpec == Service!Spec

=============================================================================
