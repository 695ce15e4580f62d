--------------------------- MODULE MCUdpSessions ---------------------------
(* Two targets compete for one session slot. *)
EXTENDS UdpSessions
=============================================================================
