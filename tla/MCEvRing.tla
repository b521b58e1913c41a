-------------------------------- MODULE MCEvRing --------------------------------
(* EvRing for TLC. *)
EXTENDS EvRing, TLC
================================================================================
