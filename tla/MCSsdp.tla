-------------------------------- MODULE MCSsdp --------------------------------
(* Ssdp for TLC. *)
EXTENDS Ssdp, TLC
==============================================================================
