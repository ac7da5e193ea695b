----------------------------- MODULE MCReadFraming -----------------------------
(***************************************************************************)
(* ReadFraming for TLC: a header of two bytes and a buffer of four, so     *)
(* that a frame may fit, may be read in parts and may make the buffer      *)
(* grow, once and again.                                                   *)
(***************************************************************************)
EXTENDS ReadFraming
=============================================================================
