------------------------------ MODULE MCMediaCache -----------------------------
(* Model checking of MediaCache: durations of two units, of none, and below zero. *)
EXTENDS MediaCache

MCDuration == {-1, 0, 2}

=============================================================================
