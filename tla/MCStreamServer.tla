---------------------------- MODULE MCStreamServer ----------------------------
(* Model checking of StreamServer: pids and streams are interchangeable. *)
EXTENDS StreamServer, TLC

Symmetry == Permutations(Pid) \cup Permutations(Url)

=============================================================================
