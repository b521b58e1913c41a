----------------------------- MODULE MCHlsSource -----------------------------
(* HlsSource for TLC: two hosts, bodies of at most two pieces, packets of two. *)
EXTENDS HlsSource, TLC

CONSTANTS h1, h2

MCHost == {h1, h2}
================================================================================
