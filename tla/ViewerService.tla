----------------------------- MODULE ViewerService ----------------------------
(***************************************************************************)
(* What the supervisor promises to viewers, without tables, counters or    *)
(* signals: a stream is on the air from the moment a viewer joins it until *)
(* some moment after its last viewer has left.                             *)
(***************************************************************************)
CONSTANTS Viewer, Stream, Nothing

VARIABLES
  watching,  \* the stream each viewer has joined, or Nothing
  onAir      \* the streams that have a producer

vars == <<watching, onAir>>

Init == watching = [v \in Viewer |-> Nothing] /\ onAir = {}

\* A viewer joins a stream, which goes on the air if it is not.
Join(v, s) ==
  /\ watching[v] = Nothing
  /\ watching' = [watching EXCEPT ![v] = s]
  /\ onAir' = onAir \cup {s}

\* A viewer leaves; streams nobody is watching then may go off the air.
Leave(v) ==
  /\ watching' = [watching EXCEPT ![v] = Nothing]
  /\ \E off \in SUBSET onAir :
       /\ \A w \in Viewer : watching'[w] \notin off
       /\ onAir' = onAir \ off

\* A request outlives its viewer: the stream goes on the air for nobody.
JoinTooLate(s) == onAir' = onAir \cup {s} /\ UNCHANGED watching

\* The service stops.
Close == watching' = [v \in Viewer |-> Nothing] /\ onAir' = {}

Next ==
  \/ \E v \in Viewer, s \in Stream : Join(v, s)
  \/ \E v \in Viewer : Leave(v)
  \/ \E s \in Stream : JoinTooLate(s)
  \/ Close

Spec == Init /\ [][Next]_vars

=============================================================================
