------------------------------ MODULE MCAtomTable ------------------------------
(***************************************************************************)
(* AtomTable for TLC: a table that is full after two names, so two         *)
(* threads meet on the same name, on different names and on a full table.  *)
(***************************************************************************)
EXTENDS AtomTable
=============================================================================
