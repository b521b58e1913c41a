# TLA+ models of xupnpd-live

xupnpd-live is a UPnP media server for live streams: it announces itself with
SSDP, shows play lists of channels to players, and relays a channel's HLS
fragments to any number of viewers of the local network.  It is a set of
single-threaded processes that talk through signals, a datagram socket pair,
forks and a directory of files.  There are no locks, so nearly everything that
can go wrong is an order of events nobody thought of.  A second program,
`ottcast`, does a similar job with one event loop.

- [Components](#components)
- [What is hard here](#what-is-hard-here)
- [The modules](#the-modules)
- [The runs](#the-runs)
- [Fairness](#fairness)
- [The proofs](#the-proofs)
- [Where text and code disagree](#where-text-and-code-disagree)
- [Behaviour worth knowing](#behaviour-worth-knowing)
- [What is not modelled](#what-is-not-modelled)
- [Plan](#plan)

## Components

| Component | Code | State it keeps | Operations | Right if |
|---|---|---|---|---|
| supervisor | `server.cpp`, `main.cpp` | tables `streams` (url → count, producer pid) and `clients` (pid → stream), signal flags | accept + fork worker, `on_addref`, `on_release`, wait4 loop, shutdown | a stream is produced by exactly one process while somebody watches it, and by none afterwards |
| worker | `worker.cpp` | its connection, the last file number it sent | read request, pages, `addref`, `sendmedia` | a viewer gets whole fragments, each once and in order |
| producer | `producer.cpp` | list of cached files, their summed duration, file number | translate url, refresh play list, transfer, rename, evict | every file is listed and counted until it is removed, and a visible file is complete |
| play list reader | `hls.cpp` (`parser`, `get_chunks`) | parser state, items, last sequence number | feed, push, filter | no fragment is skipped or repeated for a request tried again |
| HTTP client | `curl.cpp`, `hls.cpp` (`transfer_chunk`) | one kept connection per address, the request being made | connect, send, read head, read body, redirect, retry | an answer belongs to its request; a fragment is whole |
| announcer | `ssdp.cpp` | queue of searches, signal flags, the alarm | announce, answer, wait for children | the announcement never expires, children do not pile up |
| worker's HTTP server | `worker.cpp`, `soap.cpp` | the request | static files, templates, UPnP control | — |
| catalogue | `m3u8.cpp`, `luaaux.cpp` (`lua_playlist`), `html/upnp/control.lua` | tree of folders and channels, built once at the start; the node being prepared | scan, parse, attributes of a folder's channels, ids; Browse and Search in pages | a channel has its own lines' attributes, and who pages through a list gets all of it |
| JSON, XML | `json.cpp`, `xml.cpp` | — | convert | — |
| Lua | `luaaux.cpp`, `html/**.lua` | — | bindings, pages | — |
| configuration, log, start | `config.cpp`, `log.cpp`, `common.cpp`, `main.cpp` | settings | read once, daemonise | — |
| ottcast engine | `ottcast/ev_base.cpp`, `ev_controller.cpp`, `ev_epoll.cpp` | clients, sources with their ring buffers and processes, timer list, epoll set | accept, request, fork a source, read sources, write clients, timeouts, `flush` | no event for a freed object, one process per channel and none without clients, no timeout is lost, nothing is sent twice |
| ottcast HLS/HTTP source | `ottcast/plugin_hls.cpp`, `hls.cpp`, `curl.cpp` | the list's url, failures in a row, one buffered connection per host | look for the list, find a fragment, transfer it to the pipe | the stream is the bodies asked for, in whole packets, and the process ends when its origin is silent |
| ottcast's other sources | `ottcast/plugin_udp.cpp`, `plugin_broadcast.cpp`, `plugin_lua.cpp` | — | copy packets to a pipe | — |
| vendored | Lua 5.1 / 5.3, mbedTLS, STLport | | | |

How they interact:

```
 viewer --TCP--> supervisor --fork--> worker --"pid url" datagram--> supervisor
                     |                   |                              |
                     |  SIGCHLD, wait4   | readdir/open/sendfile          | fork on the first
                     |<------------------+                              v reference of a stream
                     |                   +--- cache directory <--- producer --HTTP--> origin
                     +-- kill producer, rm -rf directory when the last worker has gone
 control point --UDP search--> announcer --fork--> child that sends the answer
```

```
 ottcast:  client --TCP--> event loop (controller) <--pipe-- source process --HTTP--> origin
                              |   ring buffer per source       ^
                              +--fork on the first client, ----+
                                 kill when the last has gone
```

A worker makes the stream's directory and then sends its pid and the name of
the stream to the supervisor.  The supervisor learns that it is gone from
`wait4`.  Nothing orders the two channels: a datagram may be read long after
its sender was waited for and its pid was given to another process.

## What is hard here

`PROJECT.json` lists every hazard at its line.  In short:

- *orders of events*: reference against exit of the same worker; `rm -rf`
  against the `mkdir` of the next viewer; a child that ends between the last
  `wait4` and the reset of the flag; eviction between `readdir` and `open`;
- *recycled names and places*: pids, file numbers (they wrap at `max_seq`),
  connections kept between requests with what is left in their buffers, a parser
  fed by several tries of one request, one node prepared for all channels of a list;
- *a batch of events* (ottcast): a client joins a source whose end was noted
  earlier in the same batch, a peer goes between two steps of its handler, an
  object is noted for erasure by several handlers; nothing is freed until `flush`;
- *failures in the middle*: `fork` fails, a producer cannot start, a transfer
  breaks within a body, an origin answers late, redirects for ever;
- *boundaries*: pages of any size over lists that count from 0 in one place and
  from 1 in another, packets of 188 bytes over fragments of any length;
- *limits*: listen queue, socket buffer, search queue, cache directory, ring
  buffers that overtake slow clients;
- *what must happen in the end*: dead children are waited for, a stream
  nobody watches goes off the air, the announcement is renewed, a transfer ends,
  a client that asks for nothing is dropped, a source without an origin ends.

## The modules

| Module | Models | Used by |
|---|---|---|
| `ViewerService` | what the supervisor promises: streams and who watches them, no tables, no signals | `StreamServer` (`INSTANCE`) |
| `StreamServer` | supervisor, and of workers and producers what it sees | |
| `StreamServerProofs` | theorems about it | |
| `MediaCache` | one cache directory, its producer, the workers that send it | |
| `MediaCacheProofs` | theorems about it | |
| `ChunkTransfer` | HTTP client with kept connections, `transfer_chunk`, the origins | |
| `ChunkTransferProofs` | theorems about it | |
| `HlsPlaylist` | play list parser across tries, `get_chunks`, what the producer plays | |
| `Ssdp` | announcer, its children and signals | |
| `ChannelService` | what ottcast's controller promises: who watches which channel, and which are on the air | `EvController` (`INSTANCE`) |
| `EvController` | ottcast's event loop: events, clients, sources, processes, `flush` | |
| `EvControllerProofs` | theorems about it | |
| `EvRing` | ring buffer of one ottcast source and its clients | |
| `EvTimers` | the scheduler's list and the alarm | |
| `StreamDataProofs` | theorems about `EvRing` and `HlsPlaylist` | |
| `AlarmProofs` | theorems about `Ssdp` and `EvTimers` | |
| `HlsSource` | ottcast's process for an HLS or HTTP channel, with its HTTP client and the origins | |
| `HlsSourceProofs` | theorems about it | |
| `Catalog` | the scan of the channel lists and the listing of it to control points | |
| `CatalogProofs` | theorems about it | |

The last two prove about two components each; since they extend both, what every
module has (initial states, steps, specification, types) is named
`PlaylistInit`, `PlaylistSpec`, ... in `HlsPlaylist` and `TimersInit`, `TimersSpec`, ...
in `EvTimers`.

A definition named `X_Y` with a comment that begins with "Mutant" is `X` with a
plausible bug `Y`; no specification uses it.  For every checked property,
`PROJECT.json` names one that breaks it.

### StreamServer

`pc` is the place in the loop of `server::doit`: `select` is `pselect`, `accept`
the accept loop, `recv` the datagram loop, `reap` the `wait4` loop, `clear` the
reset of `__sig_chld`, `exit` what follows the loop.  `streams` and `clients` are
the two maps.  The kernel's part is the listen queue (`backlog`), the datagrams
(`inbox`), a pending SIGCHLD (`sigchld`, one bit: signals do not queue), the pids
(`life`: free, running, zombie) and the directories that exist (`dirs`).

| Action | Code |
|---|---|
| `Select`, `Interrupt` | `pselect`; a ready descriptor wins over a signal |
| `Accept`, `AcceptDone` | accept loop and fork of a worker |
| `OnAddref` = `AddrefKnown`, `AddrefNew`, `AddrefNoFork` | `on_addref` |
| `Reap` = `ReleaseUnknown`, `ReleaseOne`, `ReleaseLast` | a turn of the `wait4` loop, `on_release` |
| `ReapDone`, `ClearFlag` | the end of that loop, `__sig_chld=0` |
| `Shutdown`, `Restart` | the end of `doit`, the next start over the same cache path |
| `WorkerMkdir`, `WorkerAddref`, `WorkerExit` | `worker::doit` as far as it concerns others |
| `ProducerChdir`, `ProducerFail` | `producer::doit` up to its loop |

A pid is free again as soon as `wait4` returned it, so the very next fork may
use it.  `ReleaseLast` kills whatever process has the stored pid (`Killed`).
`system("rm -rf ...")` may fail, hence the choice of `gone`.  The variables
`ref`, `swept`, `late`, `orphan` are history for the properties (`ref` is also
what distinguishes a worker that exits with its datagram unread, one of the
bounded mishaps).

### MediaCache

Fragments are known by their production number; files by numbers that wrap from
`MaxSeq` to 1.  `Evict`, `OpenTmp`, `OpenFails` and `Transferred` are the loop of
`producer::doit`, `OpenDir`/`Choose` are `get_next_file`, split because readdir
reports a directory that changes under it: `sure` are files that were there all
the time, `maybe` those that came or went.  `OpenFile` and `Sent` are the rest
of `sendmedia`'s loop.

A duration is what the play list says: zero for a line without `#EXTINF`, or with
one that is no number (`hls.cpp:127`), negative if the number is.  So `cached` is
kept modulo `Word`, the values of an unsigned long, and compared as such
(`TooLong`).  `wide` is history: the files once spanned the half of a turn of the
numbers in which a worker cannot tell an old file from a new one; the order of
fragments is promised until then.  A number that is made again may be in
`cache_files` twice.

### ChunkTransfer

A connection is a sequence of tokens (head, data, last-chunk line, empty line).
`Connect`, `Reuse`, `ConnectFails`, `Retry` and `Fail` are `curl::req::perform`
with `context::connect` and `context::close`; `Send` to `EndOfStream` are
`perform_real`, with an action for each way the head or the body can end;
`OnClear` and `OnData` are the callbacks of `transfer_chunk`, `Accepted` is its
verdict.  The origin is a nondeterministic answer of `Send`: any status, any
framing, complete or cut.  A late answer is one that lies on the stream while
`Cut` is taken.

### HlsPlaylist

A line is two pieces of text, so that the body can be cut at and within lines.
`ParseHalf` and `ParseLine` are `parser::parse`; `Push` is `push`, `Begin` is
`begin`, called by every try.  `GetChunks` hands over what is newer than the last
fragment (`From`, a fold over the items as the loop is), `Take` is the loop over the
result in `producer::doit`.  A page of an HTTP error is fed to the parser too
(`List.page`).

### Ssdp

`pc` follows `ssdp::loop`.  `pending` are the signals the kernel keeps (one of
each), `flags` the variables the handlers set.  Children are counted.
`OnAlarm`/`OnAlarmNoFork` are `on_alarm`; `Interrupt`, `Reap`, `WokenDone` the
handling of signals; `ReadOne`, `Serve` the receive loop and `doit`.

### EvController, EvRing, EvTimers

Three views of one program.  They meet in `EvController`: its `timers` are the
clients in the list of `EvTimers`, and its `behind` says whether `Ready` of
`EvRing` is positive.

`EvController!pc` is the place in `ev_epoll::engine::loop`: `wait` is
`epoll_pwait`, `next` the loop over its events, `flush` the call at its end; `reap` is
the `wait4` loop after `EINTR`, a step of its own since other children may end before
it; while `on_event` handles a client, `read`, `write` and `send` are its three parts and
`cur` is the client.  They are steps of their own because the peer may close the
connection between any two system calls, and because other objects noted in the
meantime stay in the batch.

| Action | Code |
|---|---|
| `EpollWait` | a set of events, taken at once |
| `Interrupt` | `EINTR`, with SIGCHLD or with SIGALRM alone (`on_alrm`) |
| `Reap` | the `wait4` loop: `on_chld` for all zombies there are by then (pids unused); then `on_alrm`, if SIGALRM came, too |
| `OnListener`, `OnClient`, `OnSource`, `OnSourceHup` | `on_event` by type of socket |
| `ReadPart`, `ReadOther`, `ReadJoin`, `ReadSpawn`, `ReadSpawnFails` | the request: not finished, an error or HEAD, `join`, `spawn`, `spawn` whose pipe epoll does not take |
| `WriteNothing`, `WriteBlocks`, `WriteCloses`, `WriteReply`, `Send` | the answer, then `flush_buffer` |
| `Flush` | both loops of `flush`: clients (`Left`), then sources (`Over`) with the clients they still have (`Erased`) and their processes (`Killed`) |
| `Stop` | a signal to end: the loop is left, SIGTERM goes to the whole process group |
| `PeerCloses`, `ProcessEnds`, `LastWriterEnds` | the outside |

`accept` takes any number of the connections that wait, none among them
(`max_clients`, no descriptor); a failing `pipe` or `fork` is an answer like that
for an unknown channel (`ReadOther`).

`ChannelSpec` says that all this implements `ChannelService`, in which a channel
is on the air exactly as long as somebody watches it: `watching` is the url of the
client's source, `onAir` the channels in `urls`.  A batch of events with its
`flush` is one `Round`, from the point of view of who watches what; joining and
starting happen in the middle of the batch.

Which sockets are ready is chosen freely by `EpollWait`, except that what has
ended is always reported, unless `events` is full (`MaxEvents`, 100 in the code); so no
property depends on how much data there is.
`Detaching` are channels whose command leaves a process behind that keeps the
pipe open.  `told`, `more` and `forked` are history: the ends reported in this round and on
no list yet, whether some had no room, and the pids of processes forked since the last
`flush` of a round in which all had room.

`EvRing` knows a byte by its place in the stream.  `Read` is one `read` of the pipe
up to the end of the buffer, `Write` one `write` of `flush_buffer`, of any length
the socket takes; `Start` is where `attach` puts a new client.  `owed` is history.

`EvTimers` keeps the pointers of the list as they are (`beg`, `end`, `prev`,
`next`) and time as what is left, so that the clock runs for ever; half seconds
tell an alarm from the whole seconds of `time()`.  `OnAlrm` is `on_alrm` with
`fetch_events`: it follows the pointers (`Walk`) as long as clients are expired
(`Fetched`).  `order` and `lost` are history:
`lost` says that the last `alarm()` was for a client that had already expired.

### HlsSource

`what` is the request that is being made (`list`, `first`, `next`, `chunk`, or
`url` for an HTTP channel), `pc` whether it is under way (`ask`) or done, or where
the loops of `hls::doit` stand between requests (`top`, `list`).  A connection is
its buffer, `left`: what the last recv brought and nobody has read.  `disconnect`
closes the descriptor and leaves the buffer, so `Buffer` begins with it at the
next request to the host.

| Action | Code |
|---|---|
| `Unreachable`, `NoHead`, `Refused`, `Accepted` | the ways `perform_real` ends: no connection, no head, not status 200, a body read to its length or to the end |
| `Perform` (part of each) | the loop of `perform` over `Location` |
| `Loop`, `AskList`, `NoTranslation`, `ListFound`, `ListNotFound` | `hls::doit` up to a list |
| `ChunkFound`, `ChunkNotFound`, `ChunkDone` | `get_first_chunk`, `get_next_chunk`, `transfer_chunk` with its padding, the counting of failures |
| `AskUrl`, `Ends` | `http::doit`, the ends of both |
| `Silence` | the origins stop answering |

A body is pieces; of its bytes the model keeps which pieces hold an empty line,
since that is where `gets` takes a head to end.  What is in a list is chosen
freely: any host for the next request, something new or not.  `got`, `spoiled`
and `wronged` are history.

### Catalog

`OpenList`, `ReadLine`, `ListEnds`, `ScanEnds` are `scan` and `parse`; a value is known
by the number of its line, so that the properties can say where it must come
from.  `Restart` is the next start with other lists.  `Objects` is what
`lua_playlist` and `serialize` make of the tree, with ids from 1 and urls from 0;
`Answer` is a page of `Browse` (children) or `Search`, and the step of the control
point that adds it to what it has.

## The runs

| Run | Question | Instance |
|---|---|---|
| `server_safety` | are counts, producers and directories consistent in every order, and does the supervisor implement `ViewerService`? | 2 streams, 3 pids, listen queue 1, 2 datagrams, 2 mishaps |
| `server_liveness` | are unwatched streams stopped? | 1 stream, 2 pids |
| `media_cache` | whole fragments in order; is every file listed and counted; how do the files come to span half a turn; when does a viewer wait? | 5 file numbers, 8 productions, durations of 2, 0 and -1 |
| `transfer_safety` | is an answer ever taken for another's; is a fragment ever pieced together; does every step use something up? | 2 origins, 2 tries, 2 parts, 2 transfers |
| `playlist` | what does the parser hand over when the body is cut and tried again? | 2 items kept, lists of up to 3, 2 tries |
| `ssdp` | is a child or an alarm ever lost; is the announcement renewed while fork works? | queue 2, 3 datagrams, 3 children, 1 failing fork |
| `ottcast_timers` | does the list stay a list, whom does the alarm drop, when is there none? | 3 clients, timeout 3 s, 2 s overdue |
| `ottcast_timers_late` | is every client dropped in the end? (no) | 2 clients, timeout 2 s |
| `ottcast_ring` | what does a slow client get? | packets of 3, a buffer of 7 asked for, 30 bytes, 1 client |
| `ottcast_controller` | do pointers, interest sets and processes agree in every batch of events, and is `ChannelService` implemented? | 2 clients, 2 descriptors of pipes, 2 pids, 2 channels (1 detaching), 3 events at once |
| `ottcast_source` | is the stream ever anything but the bodies asked for, in whole packets; which answers are lost; does the source end when its origins are silent? | 2 hosts, bodies of up to 2 pieces, packets of 2, 2 tries of a url and of a fragment, 1 of the list, a translated url |
| `catalog` | does every channel have its own attributes, and every control point the whole list? | 2 lists, 5 lines (2 after a restart), pages of 0 to 3, 1 restart |

What the properties say is in the comment before each of them.  The bounds:

- `Pid` (3) and `Url` (2): a recycled pid needs one pid used twice; a producer
  killed by mistake or a reference to another stream needs two streams; three
  pids allow a producer, a viewer and a process that gets the freed pid.
  `Backlog` 1 and `QueueMax` 2: the queue of datagrams can be empty, hold one,
  and be full with a worker blocked in `send`, and two datagrams of one pid (the
  first of a process that is gone) can be in it together.
- `MaxMishaps` bounds producers that fail and workers that exit with their
  datagram unread: each of the latter leaks a count, which would grow for ever.
- `MaxSeq` 5 with `CacheMs` 2 and durations 2, 0 and -1: a fragment that fills the cache,
  one that does not count, and one that makes the unsigned sum run below zero
  (`Word` 8).  `MaxMade` 8 makes the numbers come round.  At `MaxListed` 3 listed files only
  fragments that last come: with those without duration before them, the list is long
  enough for files that span half a turn and for a number that is listed twice, and both
  are reached; `InOrder` and `WaitsForTurn` fail here without the condition on `wide`.  One
  viewer is enough, readers do not influence anything.  `MaxFails` 1 bounds failing
  `open()` calls in a row.  In the program `max_seq` is 9999 by default (`config.h`),
  and a list has some ten files.
- `Attempts` 2: a try that fails and one that follows it; `MaxBody` 2 makes a
  shorter, an equal and a longer second body; `MaxReq` 2 makes a kept connection
  be used again; two hosts make redirects go elsewhere.
- `MaxItems` 2 with `MaxLen` 3: a list longer than what is kept; `MaxBase` 2 with
  `MaxLen` 3: lists that overlap, move on, leave a gap and go back.
- `QueueSize` 2 with `MaxSock` 3: one datagram too many.  `MaxKids` stops new
  datagrams and the alarm while so many children exist.  `MaxForkFails` is the
  number of forks that fail.
- `Timeout` 3 and `Late` 2: three clients of three different ages, expired ones
  and overdue ones; beyond `Late` the age is no longer counted, and nothing in
  the code depends on it.  Three clients are the first, the last and one in the
  middle of a list.
- `Packet` 3, `CacheSize` 7: a buffer of 9 bytes, which is not what was asked for;
  30 bytes go round it three times.  Clients do not influence each other or the
  source, so one is enough.
- `Redirects`, `ChunkRetries` 2, `ListRetries` 1, `MaxBody` and `Packet` 2: a first and a
  last try of the loops of `perform` and of `doit`, and a list that is not found; bodies that end within a packet and on its end, with an
  empty line in any piece; two hosts, so that a spoiled connection is met again.
- `MaxLines` 5 over `MaxFolders` 2: a channel whose `#EXTINF` is missing, doubled
  or comes after its url, a header anywhere, attributes left at the end of one
  list before the next.  `Requested` 0 to 3 and `Many` 2: pages shorter, as long as
  and longer than the list, and the default of `Search`.
- Two clients, sources, pids and channels in `ottcast_controller`: two clients of
  one channel, one of each, a descriptor and a pid used again.  Readiness is free,
  so no counter needs a bound.  With the listener there are up to five sockets, so
  `MaxEvents` 3 can leave ends for the next round.

Runs of `ChunkTransfer`, `Ssdp`, `EvRing`, `EvController` and `HlsSource` do not look
for deadlocks: transfers are bounded, an aborted process stays aborted, the
announcer stops, the stream of `EvRing` has an end, `epoll_pwait` waits as long as
there is nothing, and a source ends.  All others do, and have none.

## Fairness

- `StreamServer!Fairness`: weak fairness of the supervisor's steps.  Strong
  fairness of `AcceptDone` and of the interrupted `pselect`, since the accept
  loop runs until the listen queue is empty, and a signal comes through only
  when no descriptor is ready: the assumption is that connections pause now and
  then.  Under a flood without gaps dead children are never waited for.  Viewers
  need not leave and clients need not come.
- `Ssdp!FairSpec`: weak fairness of the loop and the children; a set alarm
  rings; searches pause now and then until `pselect` has slept (`Lull`), for the
  same reason as above.
- `EvTimers!TimersFairSpec`: weak fairness of the clock, and strong fairness of `OnAlrm`
  (signals come through only when there are no events, which happens again and
  again).  It is generous to the code: `Dropped` fails nevertheless.
- `HlsSource!FairSpec`: weak fairness of the process.  Every wait of it is bounded in
  the code: `connect` is tried a fixed number of times, `recv` waits `tcp_timeout`,
  the delays are `usleep`.  Nothing is assumed of the origins: that they fall silent
  is an action that may happen at any time, and `GivesUp` is about what follows.
  A body that never ends, a byte at a time, is not in the model.

That a transfer ends needs no fairness: `UsesUp` says that every step of `perform`
uses up a try, a stage of the request or a part of the stream.

## The proofs

For every value of the constants, under the `ASSUME` of the module:

| Theorem | Says |
|---|---|
| `StreamServerProofs!TypeCorrect` | types |
| `StreamServerProofs!RefsAlwaysBacked` | a count covers its clients; no client points at an erased stream |
| `StreamServerProofs!NoChildIsLost` | a zombie is announced by a pending signal or the loop still runs |
| `StreamServerProofs!OneProducerEach` | a running producer is the one of the table |
| `StreamServerProofs!ViewersKept` | a counted viewer keeps its stream |
| `StreamServerProofs!OnlyLateLeaks` | a count is exact unless a reference came after the `wait4` of its sender |
| `StreamServerProofs!OwnProducerKilled` | the last release kills the stream's own producer, unless that had gone by itself |
| `StreamServerProofs!DirsKept` | a counted viewer's directory is there, unless it was removed before the viewer was counted |
| `StreamServerProofs!ImplementsService` | every step is one of `ViewerService` or a stutter |
| `MediaCacheProofs!TypeCorrect` | types |
| `MediaCacheProofs!OnlyWhole` | no viewer gets a part of a fragment |
| `MediaCacheProofs!SentInOrder` | fragments in order, until the files span half a turn (`wide`) |
| `MediaCacheProofs!WaitsOnlyForTurn` | until then, the two ways to wait beside newer files |
| `MediaCacheProofs!DiskIsCounted` | `cached_ms` is the sum of the list modulo the word, above `cache_ms` only for a single fragment, and every file is in the list |
| `MediaCacheProofs!WidensOnlyByLength` | the files span half a turn only if the list, with the failures of `open()` between its entries, is as long |
| `ChunkTransferProofs!TypeCorrect` | types; a request under way has tries left and, once sent, a connection |
| `ChunkTransferProofs!AnswersAreOwn` | an answer is to the request that takes it, whatever lies on kept connections |
| `ChunkTransferProofs!FragmentsAreWhole` | an accepted fragment of known length is one whole body |
| `ChunkTransferProofs!TransferGoesOn` | every step uses something up |
| `StreamDataProofs!PlaylistIsRead` | the last `MaxItems` fragments of a play list are the last items, however it is cut; in the first try nothing else is |
| `StreamDataProofs!TakenInOrder` | no fragment is taken twice or out of order, unless the request was tried again |
| `AlarmProofs!AnnouncerTypes`, `NoChildIsLost`, `AlarmIsKept` | limit of the announcer's queue; no child, no alarm is forgotten |
| `CatalogProofs!CatalogueIsRead` | every url is a channel and has its own lines' attributes |
| `CatalogProofs!ListsAreWhole` | a control point that has come to the end has every object once and in order |
| `StreamDataProofs!TypeCorrect` | offsets stay inside the buffer |
| `StreamDataProofs!NothingTwice` | what a client is offered was read, is in one piece and newer than all it got |
| `StreamDataProofs!LossMeansLapped` | a client misses bytes only if its source is more than a buffer ahead |
| `StreamDataProofs!WholePackets` | new clients start at a packet, slow ones miss whole packets |
| `AlarmProofs!TimerTypes`, `ListIsLinked` | the scheduler's pointers are the list of the clients that wait, both ways |
| `AlarmProofs!AlarmIsThere` | the alarm covers the first client, but for connections accepted in the second in which it expired |
| `AlarmProofs!OnlyExpiredDropped` | the alarm drops exactly those whose time has come |
| `EvControllerProofs!TypeCorrect` | types |
| `EvControllerProofs!NothingDangles` | no list, pointer or interest set names what was erased; one source per channel |
| `EvControllerProofs!ImplementsChannels` | every step is one of `ChannelService` or a stutter |
| `EvControllerProofs!RoundErasesEnded` | what epoll reported as ended is gone after the round |
| `EvControllerProofs!AlwaysTimed` | who is not served has a time limit |
| `EvControllerProofs!AlwaysKillsOnlyNew` | the pid of a source is its own process, or is free, or a process forked while the end of its pipe was being reported or waited for room in `events` |
| `EvControllerProofs!NobodyStalls` | who has something left to be sent is watched |
| `HlsSourceProofs!TypeCorrect` | types |
| `HlsSourceProofs!OnlyOwn` | `on_data` is given the body of the answer asked for and nothing else |
| `HlsSourceProofs!OnlySpoiledFail` | an answer that came whole fails only at a host that has spoiled its connection |
| `HlsSourceProofs!PipeAligned` | between fragments the pipe holds whole packets |

The arguments:

- `RefsBacked` needs only the types: each way of counting and releasing changes
  a count and at most one client together.  It is an inequality on purpose: a
  late reference, or one whose pid already points at a stream, leaves a count
  too high, never too low.
- `ViewerKept` is not inductive.  A late datagram of a dead worker could point
  the pid of a counted viewer to another stream.  That it cannot is a matter of
  the order of the queue: datagrams of a pid that are stale stand before the
  one of the living process, there is one of those exactly while `ref` is
  `queued`, and once the viewer is counted nothing of its pid is left.
  `QueueOrder` in `StreamServerProofs` says this, and the proof of its
  preservation goes through every action that touches the queue.
- `OneProducer`: a running producer of stream `u` has the pid in `streams[u]`, hence
  it is killed when `u` is erased.
- `KillsOwnProducer` is not inductive: a zombie in the table would be waited for and
  its pid given away.  `ProducerThere` says more: unless the stream was bereft of its
  producer (`orphan`), that process runs.
- `DirKept` speaks of counted viewers only; `DirMade` says the same of a worker from
  its `mkdir` on, so that the step that counts it finds the directory, or finds it
  noted as removed.  It needs the order of the queue to know which worker is counted.
- `LeaksOnlyLate` counts exactly what `RefsBacked` bounds: with both, the release that
  brings a count to zero is that of the stream's only client.  That nobody is counted
  twice is the order of the queue again: no datagram is left of a counted worker.
- `ServiceSpec`: the refinement mapping makes a viewer "watch" while `ref` is
  `counted`; `Count` maps to `Join` or, for a late reference, `JoinTooLate`, all
  releases to `Leave`, `Shutdown` to `Close`.  `ViewerKept` is what shows that a
  release takes only unwatched streams off the air.
- `SentInOrder`: `Ordered` says what a worker remembers, as a production number:
  `last` is the file number of production `pos`, `sent <= pos <= made`, and a
  number it may choose next belongs to a later production if all files span less
  than the rest of half a turn (`SpanSmall`).  `wide` is set by the very step that makes
  them span more, so `SpanSmall` holds until then (`Spanned`), and the invariant
  `Orderly` needs no premise.
- `WidensOnlyByLength` says when that can be: a file's age is bounded by the place of an
  entry that names it, counted from the end of the list, with `MaxFails` failures before each
  entry (`Names`).  So files are too old only if the list is long.  Nothing bounds the
  list but `cache_ms`, and fragments of no duration do not count for it.
- `DiskCounted`: `Listed` says that every file has such an entry.  A number may be named
  twice; when the older entry is evicted, the file goes with it, and the younger
  entry names nothing.  A file never stays without an entry, since the
  list is in the order of production and only its head is taken.  `Limits` says that
  `cached` is the sum of the list modulo `Word`, and that room has been made
  (`CountModulo`: adding and subtracting modulo the word).  The sum is a
  fold; it is unfolded to its recursion over sets of places, and what is true of every
  sum is shown by a least counterexample among the lengths.
- `WaitsForTurn` follows from the same invariant by the arithmetic of one turn: the
  number of a newer file that is not `Ahead` belongs to the next turn, or is more than
  half a turn away.
- `WholeOnly` needs no condition.  `Held` keeps from `Ordered` what is true of every
  cache (names are in range, a transfer has its temporary file), `FilesWhole` says
  that what has a number is whole or empty: it got it by `rename` or by an `open`
  that failed, never while it was written.
- `ChunkTransfer`: `Wires` says what may lie on a connection.  While no request uses
  it, it is `Quiet`: no head at all, and on a stream that is still open at most the
  empty line that ends a chunked body.  From the request to the head there is at
  most that line before the answer; then `Follows`, the rest of this answer and nothing
  else.  `OwnAnswer` is a consequence (`Own`).
- `WholeBody` rests on `Written`: `bytes` counts over all tries and is never less than
  the length of the file; `off` counts the last try.  If `bytes` is the length that the
  last answer gave, nothing is left of earlier tries, and the parts of the last one are
  all there and in order, since `Follows` numbers them.
- `UsesUp` needs little more than the types (a try is left while a request is under
  way, and a connection while it is answered).
- `TailExact` is an invariant of every line of the body (`Fed`): what the parser holds of the
  fragment it is in (`url`, `dur`, `seq`), the fragments read before it as items counted from the
  end, and before those only what earlier tries left.  Only the duration of a list's first
  fragment may be glued to such a rest.  `pop_front` takes from the other end, and `Parsing`
  bounds the items by `MaxItems` for each try, so that there is always one to take; that a push
  leaves as many as are `Kept` is `PushEnd`.
- `InOrder` needs `Growing`, that in a first try the numbers of the items rise, and `Handing`,
  that `last` is the number of the last item handed over, so that what is newer is also newer
  than everything `played`.  `FromIs` says of the fold of `get_chunks` what it keeps and in which
  order, again by a least counterexample.
- `Ssdp`: the queue of searches is empty outside of `read` and `serve`; the
  invariants about signals follow the flag from `pending` to `flags` to its use.
- `EvTimers`: `Chain` says that the pointers and the history `order` are one list without
  repetition, whose members are exactly the clients with a timer.  An end that was
  not reset when the list became empty is harmless (`order # <<>> => end = ...`).  `Walk`
  is defined by its recursion; that this has one solution, the places of the list, is
  `WalkIs`.  `remove` cuts one place out of the middle, `fetch_events` the first few.
- `DropsExpired` and `AlarmCovers` need `Aged`: the list is sorted by age although nobody
  sorts it, since a client joins at the end with the whole timeout and all grow old
  together.  So the expired ones are the beginning of the list, and the alarm of
  the first is early enough for all.
- `EvRing`: `RingInv` says where in the stream each byte of the buffer comes from
  (`Content`: up to `wr` this round, behind it the last one), how the number of
  rounds goes with `rotate` (`Rounds`), and that a client is owed the byte at its
  offset or one that is at least a whole buffer older (`Behind`).  `OffersNew` and
  `LossOnlyIfLapped` are not inductive without it: a client whose offset equals
  `wr` is either up to date or exactly a multiple of the buffer behind, and the
  offsets alone do not tell.
- `InPhase` needs where rounds begin: the buffer is a whole number of packets, so a
  round begins at a packet, and so does what is lost to a client (`Packets`).
  `attach` rounds down within a round (`AlignWhole`), and a client that is passed
  loses whole rounds.
- `ListsAreWhole`: `WholeList` says nothing before the end of the listing, so the
  invariant is `Beginning`: what a control point has since the last start is the
  first `from` objects of the place, and the place is known.  It is kept because
  the tree changes only between `Restart` and `ScanEnds`, when nobody is answered,
  and after a restart the premise `since = starts` fails (`PlaceOK`: `since` is never
  in the future).  `PageAdds` is the arithmetic of one page: `SubSeq` up to
  `from + count` or the end continues the beginning without gap or overlap, and an
  empty page means that there is nothing left.
- `Attributed` is about all lines of a list, the program has only the prepared node.
  `TreeRead` connects them while the list is read: the folder has what its headers give
  (`FolderRead`), the node what the `#EXTINF` lines since the last url give
  (`NodeRead`), every channel what the lines between two urls give (`ChannelRead`).  A
  line is added at the end, so it is later than all others of its kind
  (`LastOfNext`, `GivenAdded`) and does not change what was given before (`GivenKept`).
  That a set of line numbers has a greatest one (`GreatestNumber`) is taken from the
  well-foundedness of strict inclusion of finite sets.
- `EvController`: `Consistent` is one invariant of five parts.  Until `flush` nothing is
  freed, so most steps only add; `Flush` erases the clients and sources of a round
  together, and its lemmas say who is left.  `Events` is what makes the order within
  a batch harmless: who has an event to come exists, and a client of whom that is true
  is neither noted for erasure nor the one at work.  `Members` ties the clients' sources
  to the sources' clients, and `OnePerUrl` the channels to their sources.
- `ChannelSpec`: a step before `flush` maps to a join, a start or a stutter; `Flush` maps
  to the end of the service's round, and by `Consistent` a channel goes off the air
  exactly if its source has ended or its last viewer leaves.
- `NoStall` speaks of the moment when the loop waits; `Watched` says it at any time of
  every client that is neither at work nor noted for erasure.  `RoundErases` needs
  `Reported`: an end that epoll has told is in the rest of the batch or on a list.
- `KillsOnlyNew`: a child that ends between `EINTR` and `wait4` is reaped before its pipe is
  looked at, so a source may have a pid that is free.  `OwnProcess` says that its pipe has
  ended then, and `Stale` where that end is: not told yet, in the batch, or on the list of
  ended sources.  The next batch reports it, unless `events` is full, and `flush` erases
  the source; only what was forked since that batch began can have its pid.
- `HlsSource`: everything follows from `HeadFirst`: a status line is read only if the
  connection's buffer was empty, since what is left of an earlier answer comes before
  it.  So an accepted answer is its head, what came with the head and what came after
  it, which together are the body (`BodySplit`), and it leaves nothing (`AcceptedIs`).
  `Own` follows from that alone.  `FailsOnlyIfSpoiled` needs `Clean` beside it: a host
  that is not `spoiled` has nothing left.  `Aligned` speaks of the time between
  fragments only; `InPipe` says that during one the pipe is `sent` bytes beyond a whole
  packet, over all tries, so that the padding computed from `sent` fills it up
  (`CountModulo`, `FilledUp`).

What is assumed of the constants stands in the `ASSUME` of each module: numbers are
numbers, a value for "nothing" is none of the others, pids (and ottcast's clients) are
finitely many, a client is not a source.  No theorem has a premise beside them.

`TypeOK` is a theorem in every module with proofs except `Catalog`, where types are
part of the two invariants (`TreeOK`, `PlaceOK`), and `HlsPlaylist`, where they are part of
`TailExact`.  It is not listed in a run by itself: in `EvController`, `MediaCache`,
`ChunkTransfer`, `HlsPlaylist` and `EvTimers` it is a conjunct of the first invariant of
the run.

Every safety property that a run checks is stated by a theorem.  Only model-checked is what
is temporal under fairness: `Reclaimed`, `RenewedIfForks`, `GivesUp`, and `Dropped`, which fails.
The prover has no ENABLED and no fairness.

## Where text and code disagree

1. `ottcast/defaults.h:18` calls `timeout` the longest time to wait for a request.
   After accepting connections, `ev_controller.cpp:415` sets the alarm to the time
   the oldest client has left.  In the second in which that client expires this is
   0 and stops the alarm: it and all later clients wait until another connection
   is accepted at a better time (run `ottcast_timers_late`; `AlarmCovers` says that
   this is the only way to lose the alarm).

## Behaviour worth knowing

They are what the code does, and what the modules therefore do.

- `ssdp.cpp:356` sets the next alarm only if `fork` worked: after one failed fork
  the announcement expires and is not renewed until the program is started again
  (`OnAlarmNoFork`; `RenewedIfForks` assumes that fork works).
- `parser::begin` (`hls.cpp:43`) resets the counter but not the items, so a request
  that needed a second try can hand over more elements than `hls_chunks_max`
  (`config.h:34`), old and repeated ones among them.

- A reference read after its sender was waited for is never taken back; the
  stream runs on without viewers until the server stops (`LeaksOnlyLate` says
  that nothing else leaks).
- A producer that cannot start (no Lua, script does not load) leaves its entry
  behind; viewers poll an empty directory, and the pid killed at the end may be
  another process's by then.
- If `rm -rf` of the last release falls between `mkdir` and `addref` of the next
  viewer, the producer's `chdir` fails unnoticed and it writes into the
  supervisor's working directory (`phase` = `stray`).
- A viewer that misses the file numbered `max_seq` waits almost half a turn or
  more for the next number it accepts (`WaitsForTurn` names the two ways to get
  there).
- `bytes_sent` counts over all tries of a transfer.  It is what protects
  `WholeBody`, and it also throws away good bodies after a try that got part of
  one, or after a redirect that had a body.
- The page of a 404, or of a 5xx in the last try, becomes a fragment: the status
  is not looked at.  A body without a length may keep the end of an earlier try.
- A body whose end is told by the close and that stops with a timeout counts as
  complete, and with keep-alive its connection stays in the cache; the rest may
  come in front of the next answer.  It is then no status line: the request
  fails and is tried again, or, if the line has no space, `substr(5)` throws and
  the producer ends (`Abort`).
- The first fragment is skipped if its number is 0, and an origin that starts
  counting again is ignored until it has caught up with the last number.
- Children of the announcer that sleep before they answer can send after the
  goodbye message.
- ottcast: a pipe whose end comes with its last data in one event is not read
  (`OnSourceHup`), and all clients of the source are closed with what the ring
  still had for them.  A client that joins a source later in that batch is closed
  without an answer.
- ottcast: `EPOLLRDHUP` counts as the end of a client, so one that closes only its
  sending side after the request is dropped.
- ottcast: a client that is exactly one buffer (or a multiple) behind has its
  offset equal to `wr_offset` and is taken for one that is up to date: it gets
  nothing more of that round (`Behind` in `StreamDataProofs`).
- ottcast: the process of a source is forked with all descriptors open
  (`ev_controller.cpp:123`): a connection that was answered and closed stays open
  for its peer as long as that process runs.
- ottcast: nobody looks at the pid that `on_chld` waited for.  A channel whose
  command leaves a process behind keeps its pipe, hence its source, and a pid
  that is free again; when the last client goes, `flush` kills whoever has it
  (`KillsOnlyNew` is about all other channels; `CutOff` is the effect).
- ottcast: a child that ends between the `EINTR` of `epoll_pwait` and the end of the
  `wait4` loop (`ev_epoll.cpp:131-142`) is waited for before the end of its pipe is looked
  at.  In the next batch a process may be forked that gets its pid, and `flush`, which
  erases the source whose pipe has ended, kills that process
  (`ev_controller.cpp:285`): the new channel ends at once.  `KillsOnlyNew` says that
  nothing older of ottcast is hit.  (A process of another program may have got the pid as well.)
- ottcast: `curl::connection` keeps what is in its buffer when it is disconnected.
  The page of an error (or of a redirect) that came in one segment with its head
  is therefore read first at the next request to that host, is no status line,
  and makes it fail; what was left of that answer spoils the one after it, and so
  on until an answer comes whose head comes alone (`FailsOnlyIfSpoiled`).
- ottcast: `hls::doit` gives up after `hls_find_chunk_retries` searches in a row
  without a new fragment; whether a fragment it found could be transferred does
  not matter, so one that always fails keeps the source alive without data.
- ottcast: if epoll does not take the pipe of a new source, the source is erased
  but its process, which has been forked, is neither killed nor known; it ends
  by SIGPIPE if it writes.
- A line of a channel list longer than 1023 bytes is read as several: the rest
  of a long `#EXTINF` is a url.
- A restart with other channel lists numbers folders and channels anew, and
  `UpdateID` begins at 1 again: a control point in the middle of a listing, or one
  that kept a url, is given other channels without notice.
- A fragment of no duration (no `#EXTINF` before it, or a line of an error page) pushes
  nothing out of the cache.  If all are such, the directory grows to
  `max_seq` files, `cache_files` without end, and file numbers are in it repeatedly: the
  older entry's turn to go removes the newer file.  Once the files span half a turn
  (`wide`), a viewer may be sent an old file after a newer one.
- A negative duration is added to an unsigned sum: `cached_ms` may run below zero, which is
  a very long time and evicts entries until it is not.  The wait after such a
  fragment, which is not modelled, is what `usleep` makes of an enormous number: up
  to 71 minutes.
- A cache directory left by a crash keeps its files; a new producer starts with
  number 1 next to them.

## What is not modelled

Content (pages, text of play lists, SSDP messages, logs), names and their
lookup, TLS, bodies that never end, `http.post` and one-shot requests of the
scripts, the choice of a variant from a master play list, Lua's `translate_url`
of the producer and its waiting time between refreshes, and leftovers of an
earlier run in a cache directory: with them the numbers are not in order until
each has been overwritten, and no text says what viewers may expect.

Of the catalogue: `BrowseMetadata` and `playlist::find`, which only look up, the
variant with `group-title`, which is commented out, and the pages of `api.lua`.  Of
ottcast's engine: `listen`, the text of requests, and an `epoll_ctl` that fails for
a socket it knows.  Of ottcast's HLS source: which fragment of a list is new, and
the cooldown.

Not modelled at all: the worker's pages and the decoding of UPnP requests
(sequential, one request per process), `json.cpp` and `xml.cpp` (conversions without
state), the Lua bindings beside `lua_playlist`, configuration and start, ottcast's
UDP, broadcast and Lua sources (endless loops that copy packets).  What is
vendored (Lua, mbedTLS, STLport: nearly all lines of the tree) or an asset
stays out.

## Plan

Order: first what several processes can break together, then single processes.

1. Supervisor with abstract service; media cache; HTTP client; play list reader;
   announcer; ottcast's engine.  Done.
2. The abstract channel service and the failure paths of `EvController`; ottcast's
   HLS and HTTP source with its HTTP client; the catalogue.  Done.
3. The worker's request handling (`read_http_request`'s alarm, template children),
   and the tag stack of `xml.cpp` as a recursive function with a reference definition.
4. Proofs of all safety properties and action properties that the runs check, and of
   both refinements.  Done.
