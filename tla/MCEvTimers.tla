------------------------------ MODULE MCEvTimers ------------------------------
(* EvTimers for TLC. *)
EXTENDS EvTimers, TLC

MCSymmetry == Permutations(Client)
==============================================================================
