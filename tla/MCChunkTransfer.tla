--------------------------- MODULE MCChunkTransfer ---------------------------
(* ChunkTransfer for TLC: one or two origins, few tries, bodies of two parts. *)
EXTENDS ChunkTransfer, TLC
==============================================================================
