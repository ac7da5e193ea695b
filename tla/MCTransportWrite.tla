--------------------------- MODULE MCTransportWrite ---------------------------
(***************************************************************************)
(* TransportWrite for TLC: two threads that send and the io_service's own  *)
(* TOCK replies, two frames each, so that a frame can arrive before,       *)
(* during and after a gather write of several others.                      *)
(***************************************************************************)
EXTENDS TransportWrite
=============================================================================
