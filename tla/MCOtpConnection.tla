---------------------------- MODULE MCOtpConnection ----------------------------
(***************************************************************************)
(* OtpConnection for TLC.  A transport object is reused once nobody holds  *)
(* it, so two of them let a stopped transport and its successor exist side *)
(* by side in behaviours of any length.                                    *)
(***************************************************************************)
EXTENDS OtpConnection
=============================================================================
