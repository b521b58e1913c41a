---------------------------- MODULE ChannelService ----------------------------
(***************************************************************************)
(* What ottcast's controller promises to its clients, without descriptors, *)
(* events, pipes or lists of what is to be erased: a channel is on the air *)
(* exactly as long as it has viewers.                                      *)
(***************************************************************************)
CONSTANTS Viewer, Channel, Nothing

VARIABLES
  watching,  \* the channel each viewer has joined, or Nothing
  onAir      \* the channels that have a source

vars == <<watching, onAir>>

Init == watching = [v \in Viewer |-> Nothing] /\ onAir = {}

\* The first viewer of a channel puts it on the air.
Start(v, u) ==
  /\ watching[v] = Nothing /\ u \notin onAir
  /\ watching' = [watching EXCEPT ![v] = u]
  /\ onAir' = onAir \cup {u}

Join(v, u) ==
  /\ watching[v] = Nothing /\ u \in onAir
  /\ watching' = [watching EXCEPT ![v] = u]
  /\ UNCHANGED onAir

\* Some viewers leave in one round, on their own account or because their channel has ended,
\* and what nobody is left to watch goes off the air.
Round(leaving) ==
  /\ watching' = [v \in Viewer |-> IF v \in leaving THEN Nothing ELSE watching[v]]
  /\ onAir' = {u \in onAir : \E v \in Viewer : watching'[v] = u}

\* The service stops.
Close == watching' = [v \in Viewer |-> Nothing] /\ onAir' = {}

Next ==
  \/ \E leaving \in SUBSET Viewer : Round(leaving)
  \/ \E v \in Viewer, u \in Channel : Start(v, u) \/ Join(v, u)
  \/ Close

Spec == Init /\ [][Next]_vars

=============================================================================
