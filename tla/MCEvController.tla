---------------------------- MODULE MCEvController ----------------------------
(* EvController for TLC: two clients that may ask for the same channel or for two, one of *)
(* which has a command that leaves a process behind.                                      *)
EXTENDS EvController, TLC

CONSTANTS c1, c2, s1, s2, p1, p2, u1, u2, nobody

MCClient == {c1, c2}
MCSource == {s1, s2}
MCPid == {p1, p2}
MCUrl == {u1, u2}
MCDetaching == {u2}
MCSymmetry == Permutations(MCClient) \cup Permutations(MCSource) \cup Permutations(MCPid)
================================================================================
