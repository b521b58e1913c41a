-------------------------------- MODULE EvTimers --------------------------------
(***************************************************************************)
(* Request timeouts of ottcast: ev::scheduler keeps the clients that have  *)
(* not got their answer in a doubly linked list, the oldest first, and the *)
(* controller sets alarm(2) for the first of them whenever it accepts      *)
(* connections and whenever the alarm has rung.                            *)
(*                                                                         *)
(* Times are relative, so that the clock may run for ever: left is the     *)
(* tm_expiry of a client less time(), in seconds, and alarm counts half    *)
(* seconds.  time() is the whole seconds of the clock, half says in which  *)
(* half of a second it is.  Handlers take no time.                         *)
(***************************************************************************)
EXTENDS Integers, Sequences, FiniteSets, SequencesExt

CONSTANTS
  Client,    \* the clients there can be at a time
  Null,      \* NULL
  Timeout,   \* ev::timeout, in seconds
  Late       \* bound: seconds a client can be overdue before its age is no longer told

ASSUME TimersAssumption ==
  /\ Null \notin Client
  /\ Timeout \in Nat \ {0}
  /\ Late \in Nat \ {0}

VARIABLES
  \* ev::scheduler
  beg, end, prev, next,
  left,      \* tm_expiry less time(); None for the 0 of a client without a timer
  \* time
  half, alarm,
  \* the process
  ringing,   \* SIGALRM is pending
  waiting,   \* a connection waits in the listen queue
  \* history
  order,     \* the clients with a timer, in the order of their insertion
  lost       \* the last alarm() was called for a client that had expired

list == <<beg, end, prev, next, left>>
timersVars == <<list, half, alarm, ringing, waiting, order, lost>>

None == Timeout + 1
Pointer == Client \cup {Null}

TimersInit ==
  /\ beg = Null /\ end = Null
  /\ prev = [c \in Client |-> Null] /\ next = [c \in Client |-> Null]
  /\ left = [c \in Client |-> None]
  /\ half = 0 /\ alarm = 0
  /\ ringing = FALSE /\ waiting = FALSE
  /\ order = <<>> /\ lost = FALSE

-----------------------------------------------------------------------------
(* ev::scheduler *)

\* Mutant: a new client is put before the others.
Insert_Front(c) ==
  /\ beg' = c /\ end' = IF beg = Null THEN c ELSE end
  /\ next' = [next EXCEPT ![c] = beg]
  /\ prev' = [p \in Client |-> IF p = c THEN Null ELSE IF p = beg THEN c ELSE prev[p]]
  /\ left' = [left EXCEPT ![c] = Timeout]
  /\ order' = <<c>> \o order

\* insert: at the end.
Insert(c) ==
  /\ beg' = IF beg = Null THEN c ELSE beg
  /\ end' = c
  /\ next' = [p \in Client |-> IF p = c THEN Null ELSE IF beg # Null /\ p = end THEN c ELSE next[p]]
  /\ prev' = [prev EXCEPT ![c] = IF beg = Null THEN Null ELSE end]
  /\ left' = [left EXCEPT ![c] = Timeout]
  /\ order' = Append(order, c)

\* Mutant: end is not moved when the last client goes.
Unlink_EndStays(c) ==
  /\ UNCHANGED end
  /\ beg' = IF prev[c] = Null THEN next[c] ELSE beg
  /\ next' = [p \in Client |-> IF p = c THEN Null ELSE IF p = prev[c] THEN next[c] ELSE next[p]]
  /\ prev' = [p \in Client |-> IF p = c THEN Null ELSE IF p = next[c] THEN prev[c] ELSE prev[p]]

\* remove, of a client that has a timer.
Unlink(c) ==
  /\ end' = IF next[c] = Null THEN prev[c] ELSE end
  /\ beg' = IF prev[c] = Null THEN next[c] ELSE beg
  /\ next' = [p \in Client |-> IF p = c THEN Null ELSE IF p = prev[c] THEN next[c] ELSE next[p]]
  /\ prev' = [p \in Client |-> IF p = c THEN Null ELSE IF p = next[c] THEN prev[c] ELSE prev[p]]

\* The clients of the list in turn, then Null.
Walk[i \in Nat] ==
  IF i = 0 THEN beg ELSE IF Walk[i - 1] = Null THEN Null ELSE next[Walk[i - 1]]

\* fetch until it returns NULL: the clients at the front that have expired.  end
\* stays as it is even if the list is empty then.
Expired(c) == left[c] <= 0
Fetched == {i \in 0 .. Len(order) : \A j \in 0 .. i : Walk[j] # Null /\ Expired(Walk[j])}
Due == {Walk[i] : i \in Fetched}

\* A list without some of its clients.
Without(q, gone) == FoldLeft(LAMBDA p, c : IF c \in gone THEN p ELSE Append(p, c), <<>>, q)

FetchDue ==
  LET first == Walk[Cardinality(Fetched)]
  IN  /\ beg' = first
      /\ UNCHANGED end
      /\ next' = [c \in Client |-> IF c \in Due THEN Null ELSE next[c]]
      /\ prev' = [c \in Client |-> IF c \in Due \cup {first} THEN Null ELSE prev[c]]
      /\ left' = [c \in Client |-> IF c \in Due THEN None ELSE left[c]]
      /\ order' = Without(order, Due)

\* alarm(get_wake_delay(now)), the list being as it is after the step: 0 stops
\* the alarm, and so, for a hundred years, does a negative number.
SetAlarm ==
  /\ alarm' = IF beg' = Null \/ left'[beg'] <= 0 THEN 0 ELSE 2 * left'[beg']
  /\ lost' = (beg' # Null /\ left'[beg'] <= 0)

-----------------------------------------------------------------------------
(* Time and clients *)

Tick ==
  /\ half' = 1 - half
  /\ left' = [c \in Client |->
                IF left[c] = None \/ half = 0 \/ left[c] = -Late THEN left[c] ELSE left[c] - 1]
  /\ alarm' = IF alarm = 0 THEN 0 ELSE alarm - 1
  /\ ringing' = (ringing \/ alarm = 1)
  /\ UNCHANGED <<beg, end, prev, next, waiting, order, lost>>

Connect ==
  /\ ~waiting
  /\ waiting' = TRUE
  /\ UNCHANGED <<list, half, alarm, ringing, order, lost>>

-----------------------------------------------------------------------------
(* ev::controller *)

\* on_event of the listener.
Accept(c) ==
  /\ waiting /\ left[c] = None
  /\ waiting' = FALSE
  /\ Insert(c)
  /\ SetAlarm
  /\ UNCHANGED <<half, ringing>>

\* on_event of a client whose answer is sent, or flush of one that has gone: the
\* timer is removed, the alarm stays as it is.
Cancel(c) ==
  /\ left[c] # None
  /\ Unlink(c)
  /\ left' = [left EXCEPT ![c] = None]
  /\ order' = Without(order, {c})
  /\ UNCHANGED <<half, alarm, ringing, waiting, lost>>

\* Mutant: the alarm is not set again for the clients that are left.
OnAlrm_Once ==
  /\ ringing /\ ~waiting
  /\ ringing' = FALSE
  /\ FetchDue
  /\ UNCHANGED <<half, alarm, waiting, lost>>

\* epoll_pwait has no events and lets SIGALRM in: on_alrm, then flush of the clients
\* it fetched.
OnAlrm ==
  /\ ringing /\ ~waiting
  /\ ringing' = FALSE
  /\ FetchDue
  /\ SetAlarm
  /\ UNCHANGED <<half, waiting>>

TimersNext ==
  \/ Tick \/ Connect
  \/ \E c \in Client : Accept(c) \/ Cancel(c)
  \/ OnAlrm

TimersSpec == TimersInit /\ [][TimersNext]_timersVars

\* Time goes on, and when the alarm has rung epoll_pwait finds no events some time.
TimersFairSpec == TimersSpec /\ WF_timersVars(Tick) /\ SF_timersVars(OnAlrm)

-----------------------------------------------------------------------------
(* Properties *)

TimersTypeOK ==
  /\ beg \in Pointer /\ end \in Pointer
  /\ prev \in [Client -> Pointer] /\ next \in [Client -> Pointer]
  /\ left \in [Client -> -Late .. None]
  /\ half \in {0, 1} /\ alarm \in 0 .. 2 * Timeout
  /\ ringing \in BOOLEAN /\ waiting \in BOOLEAN
  /\ order \in Seq(Client) /\ lost \in BOOLEAN

\* The links hold the clients that have a timer, in the order they came, both
\* ways, whatever was removed or fetched between two insertions; end is
\* right unless the list is empty.
Linked ==
  /\ TimersTypeOK
  /\ \A i \in 1 .. Len(order) :
       /\ Walk[i - 1] = order[i]
       /\ prev[order[i]] = IF i = 1 THEN Null ELSE order[i - 1]
  /\ Walk[Len(order)] = Null
  /\ order # <<>> => end = Last(order)
  /\ {c \in Client : left[c] # None} = ToSet(order)

\* The alarm drops those and only those whose time has come: the list is sorted
\* although nothing sorts it.
DropsExpired ==
  [][\A c \in Client :
       OnAlrm => (left[c] # None /\ left'[c] = None <=> left[c] <= 0)]_timersVars

\* An alarm is set for the first client or has rung, and does not ring more than
\* a second after its time, unless connections were accepted in the second in
\* which the first client expired: that sets the alarm to nothing.
AlarmCovers ==
  beg # Null => lost \/ ringing \/ (alarm > 0 /\ alarm <= 2 * left[beg] + 1 - half)

\* defaults.h: timeout is the longest time to wait for a request.
Dropped == \A c \in Client : left[c] <= 0 ~> left[c] = None \/ left[c] > 0
================================================================================
