----------------------------- MODULE MCAsyncQueue -----------------------------
(***************************************************************************)
(* AsyncQueue for TLC.  A batch of one message makes every second message  *)
(* meet the end of a batch; durations wrap around at 7.                    *)
(***************************************************************************)
EXTENDS AsyncQueue

\* Waits and counts with and without a limit.
AllWaits == {-1, 0, 1}
AllCounts == {-1, 0, 1, 2}
=============================================================================
