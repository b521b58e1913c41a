--------------------------------- MODULE Ssdp ---------------------------------
(***************************************************************************)
(* The announcer (ssdp::loop): a process of its own that answers searches  *)
(* and renews the announcement of the media server.  Everything that takes *)
(* time is left to forked children, an alarm says when to announce again,  *)
(* and signals are delivered only while pselect sleeps.                    *)
(*                                                                         *)
(* Control points forget the server when its announcement grows older than *)
(* ssdp_max_age (Expire); the alarm is set to ring a little earlier, and   *)
(* what matters is that it is set.                                         *)
(***************************************************************************)
EXTENDS Integers, FiniteSets

CONSTANTS
  QueueSize,     \* config::ssdp_queue_size
  MaxSock,       \* bound: datagrams in the socket
  MaxKids,       \* bound: children at a time for which datagrams come or the alarm rings
  MaxForkFails   \* bound: forks that fail

ASSUME SsdpAssumption ==
  /\ QueueSize \in Nat
  /\ MaxSock \in Nat
  /\ MaxKids \in Nat
  /\ MaxForkFails \in Nat

VARIABLES
  pc,         \* alarm, select, woken, reaped, read, serve, stopped
  ret,        \* where on_alarm returns to: the loop, before or after a signal
  pending,    \* signals the kernel keeps: at most one of each
  flags,      \* __sig_chld, __sig_alrm, __sig_quit
  alarmSet,   \* alarm(2) counts
  sock,       \* searches in the socket buffer
  queue,      \* searches in the queue
  announcers, answerers, zombies,   \* children: how many of each
  fresh,      \* the announcement is alive at the control points
  forkFails,
  lull        \* no searches come

kids == <<announcers, answerers, zombies>>
vars == <<pc, ret, pending, flags, alarmSet, sock, queue, kids, fresh, forkFails, lull>>

Signal == {"CHLD", "ALRM", "QUIT"}
Children == announcers + answerers + zombies

Init ==
  /\ pc = "alarm" /\ ret = "start"
  /\ pending = {} /\ flags = {} /\ alarmSet = FALSE
  /\ sock = 0 /\ queue = 0
  /\ announcers = 0 /\ answerers = 0 /\ zombies = 0
  /\ fresh = FALSE /\ forkFails = 0 /\ lull = FALSE

-----------------------------------------------------------------------------
(* The environment *)

\* The searches pause until pselect has slept.
Lull ==
  /\ ~lull /\ lull' = TRUE
  /\ UNCHANGED <<pc, ret, pending, flags, alarmSet, sock, queue, kids, fresh, forkFails>>

Noise ==
  /\ lull /\ pc = "select" /\ sock = 0 /\ pending = {}
  /\ lull' = FALSE
  /\ UNCHANGED <<pc, ret, pending, flags, alarmSet, sock, queue, kids, fresh, forkFails>>

Datagram ==
  /\ pc # "stopped" /\ ~lull /\ sock < MaxSock /\ Children < MaxKids
  /\ sock' = sock + 1
  /\ UNCHANGED <<pc, ret, pending, flags, alarmSet, queue, kids, fresh, forkFails, lull>>

AlarmRings ==
  /\ alarmSet /\ Children < MaxKids
  /\ alarmSet' = FALSE /\ pending' = pending \cup {"ALRM"}
  /\ UNCHANGED <<pc, ret, flags, sock, queue, kids, fresh, forkFails, lull>>

\* ssdp_max_age seconds pass without an announcement.
Expire ==
  /\ fresh /\ pc # "stopped"
  /\ fresh' = FALSE
  /\ UNCHANGED <<pc, ret, pending, flags, alarmSet, sock, queue, kids, forkFails, lull>>

Terminate ==
  /\ pc # "stopped" /\ "QUIT" \notin pending \cup flags
  /\ pending' = pending \cup {"QUIT"}
  /\ UNCHANGED <<pc, ret, flags, alarmSet, sock, queue, kids, fresh, forkFails, lull>>

-----------------------------------------------------------------------------
(* The children *)

\* A child ends; its parent is told.
Exits == zombies' = zombies + 1 /\ pending' = pending \cup {"CHLD"}

\* send_alive.
Announce ==
  /\ announcers > 0
  /\ announcers' = announcers - 1 /\ Exits
  /\ fresh' = TRUE
  /\ UNCHANGED <<pc, ret, flags, alarmSet, sock, queue, answerers, forkFails, lull>>

\* send_resp after a short sleep.
Respond ==
  /\ answerers > 0
  /\ answerers' = answerers - 1 /\ Exits
  /\ UNCHANGED <<pc, ret, flags, alarmSet, sock, queue, announcers, fresh, forkFails, lull>>

-----------------------------------------------------------------------------
(* ssdp::on_alarm *)

ForkFails == forkFails < MaxForkFails /\ forkFails' = forkFails + 1

\* Back in the loop: the flag is cleared after the call that a signal caused.
AlarmReturns ==
  /\ pc' = "select"
  /\ flags' = IF ret = "signal" THEN flags \ {"ALRM"} ELSE flags

OnAlarm ==
  /\ pc = "alarm"
  /\ announcers' = announcers + 1 /\ alarmSet' = TRUE
  /\ AlarmReturns
  /\ UNCHANGED <<ret, pending, sock, queue, answerers, zombies, fresh, forkFails, lull>>

\* Nobody announces, and the alarm is not set again.
OnAlarmNoFork ==
  /\ pc = "alarm" /\ ForkFails
  /\ AlarmReturns
  /\ UNCHANGED <<ret, pending, alarmSet, sock, queue, kids, fresh, lull>>

-----------------------------------------------------------------------------
(* ssdp::loop *)

\* The socket is ready: no signal is delivered.
SelectReady ==
  /\ pc = "select" /\ "QUIT" \notin flags /\ sock > 0
  /\ pc' = "read"
  /\ UNCHANGED <<ret, pending, flags, alarmSet, sock, queue, kids, fresh, forkFails, lull>>

\* pselect is interrupted: the handlers of all pending signals run.
Interrupt ==
  /\ pc = "select" /\ "QUIT" \notin flags /\ sock = 0 /\ pending # {}
  /\ flags' = flags \cup pending /\ pending' = {}
  /\ pc' = "woken"
  /\ UNCHANGED <<ret, alarmSet, sock, queue, kids, fresh, forkFails, lull>>

\* Mutant: one child is waited for per signal.
Reap_One ==
  /\ pc = "woken" /\ "CHLD" \in flags
  /\ zombies' = IF zombies > 0 THEN zombies - 1 ELSE 0
  /\ pc' = "reaped"
  /\ UNCHANGED <<ret, pending, flags, alarmSet, sock, queue, announcers, answerers, fresh, forkFails, lull>>

\* wait4 until no child is left to wait for.
Reap ==
  /\ pc = "woken" /\ "CHLD" \in flags
  /\ zombies' = 0
  /\ pc' = "reaped"
  /\ UNCHANGED <<ret, pending, flags, alarmSet, sock, queue, announcers, answerers, fresh, forkFails, lull>>

\* Mutant: one flag for all signals, cleared when the children are waited for.
WokenDone_AllFlags ==
  /\ (pc = "woken" /\ "CHLD" \notin flags) \/ pc = "reaped"
  /\ flags' = IF pc = "reaped" THEN flags \cap {"QUIT"} ELSE flags
  /\ IF "ALRM" \in flags' THEN pc' = "alarm" /\ ret' = "signal" ELSE pc' = "select" /\ UNCHANGED ret
  /\ UNCHANGED <<pending, alarmSet, sock, queue, kids, fresh, forkFails, lull>>

\* __sig_chld is cleared; on_alarm is next, or the next round.
WokenDone ==
  /\ (pc = "woken" /\ "CHLD" \notin flags) \/ pc = "reaped"
  /\ flags' = flags \ {"CHLD"}
  /\ IF "ALRM" \in flags THEN pc' = "alarm" /\ ret' = "signal" ELSE pc' = "select" /\ UNCHANGED ret
  /\ UNCHANGED <<pending, alarmSet, sock, queue, kids, fresh, forkFails, lull>>

\* recvfrom; what does not fit into the queue is dropped.
ReadOne ==
  /\ pc = "read" /\ sock > 0
  /\ sock' = sock - 1
  /\ queue' = IF queue < QueueSize THEN queue + 1 ELSE queue
  /\ UNCHANGED <<pc, ret, pending, flags, alarmSet, kids, fresh, forkFails, lull>>

\* The socket is empty.
ReadDone ==
  /\ pc = "read" /\ sock = 0
  /\ pc' = "serve"
  /\ UNCHANGED <<ret, pending, flags, alarmSet, sock, queue, kids, fresh, forkFails, lull>>

\* doit: each datagram of the queue is a search for this server and gets an
\* answerer, or it is something else.
Serve ==
  /\ pc = "serve" /\ queue > 0
  /\ queue' = queue - 1
  /\ \/ answerers' = answerers + 1 /\ UNCHANGED forkFails
     \/ ForkFails /\ UNCHANGED answerers
     \/ UNCHANGED <<answerers, forkFails>>
  /\ UNCHANGED <<pc, ret, pending, flags, alarmSet, sock, announcers, zombies, fresh, lull>>

ServeDone ==
  /\ pc = "serve" /\ queue = 0
  /\ pc' = "select"
  /\ UNCHANGED <<ret, pending, flags, alarmSet, sock, queue, kids, fresh, forkFails, lull>>

\* The loop ends: send_bye, and the process exits.
Bye ==
  /\ pc = "select" /\ "QUIT" \in flags
  /\ pc' = "stopped" /\ fresh' = FALSE
  /\ UNCHANGED <<ret, pending, flags, alarmSet, sock, queue, kids, forkFails, lull>>

Loop ==
  \/ OnAlarm \/ OnAlarmNoFork
  \/ SelectReady \/ Interrupt \/ Reap \/ WokenDone
  \/ ReadOne \/ ReadDone \/ Serve \/ ServeDone \/ Bye

Next ==
  \/ Loop
  \/ Announce \/ Respond
  \/ Lull \/ Noise \/ Datagram \/ AlarmRings \/ Expire \/ Terminate

Spec == Init /\ [][Next]_vars

\* The process and its children run, time passes, and the searches pause now
\* and then: pselect returns with a ready socket before it lets a signal in.
\* Nobody has to search and nobody has to stop the program.
FairSpec ==
  /\ Spec
  /\ WF_vars(Loop) /\ WF_vars(Announce) /\ WF_vars(Respond)
  /\ SF_vars(AlarmRings) /\ WF_vars(Lull)

-----------------------------------------------------------------------------
(* Properties *)

TypeOK ==
  /\ pc \in {"alarm", "select", "woken", "reaped", "read", "serve", "stopped"}
  /\ ret \in {"start", "signal"}
  /\ pending \subseteq Signal /\ flags \subseteq Signal
  /\ alarmSet \in BOOLEAN
  /\ sock \in 0 .. MaxSock
  /\ queue \in 0 .. QueueSize /\ (pc \notin {"read", "serve"} => queue = 0)
  /\ announcers \in Nat /\ answerers \in Nat /\ zombies \in Nat
  /\ fresh \in BOOLEAN /\ lull \in BOOLEAN /\ forkFails \in 0 .. MaxForkFails

\* A child that ended is waited for, or a signal or a flag still says so: none
\* is lost between the last wait4 and the clearing of __sig_chld.
NoLostChild ==
  zombies > 0 /\ pc # "stopped" => "CHLD" \in pending \/ (pc = "woken" /\ "CHLD" \in flags)

\* As long as fork has not failed, the next announcement is always on its way:
\* the alarm is set, or it rang and the signal, its flag or on_alarm's call is left.
AlarmKept ==
  forkFails = 0 /\ pc # "stopped" =>
    \/ alarmSet \/ "ALRM" \in pending \cup flags
    \/ pc = "alarm"

\* An announcement that has expired is renewed, until the program ends: the
\* alarm that on_alarm sets rings three seconds short of ssdp_max_age, "just in
\* case".
Renewed == ~fresh ~> fresh \/ pc = "stopped"

\* It is renewed if fork never fails, whatever else happens in between.
RenewedIfForks == [](forkFails = 0) => Renewed
================================================================================
