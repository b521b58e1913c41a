---------------------------- MODULE MCHlsPlaylist ----------------------------
(* HlsPlaylist for TLC: two elements kept, playlists of up to three. *)
EXTENDS HlsPlaylist, TLC
==============================================================================
