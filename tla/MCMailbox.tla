------------------------------- MODULE MCMailbox -------------------------------
(***************************************************************************)
(* Mailbox for TLC.                                                        *)
(***************************************************************************)
EXTENDS Mailbox

\* Waits and counts with and without a limit.
AllWaits == {-1, 0, 1}
AllCounts == {-1, 2}
=============================================================================
